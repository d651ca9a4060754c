------------------------------ MODULE MCOffline ------------------------------
(* Two pages of one device, two things written on it, one mishap and one   *)
(* change by the office.                                                   *)
EXTENDS Offline, TLC
CONSTANTS p1, p2, r1, r2
\* Bound: at most two disturbances in all.
FewEvents == office + decisions + mishaps <= 2
\* Bound: at most one answer of the task list is on its way.
OneAnswer == \A p, q \in Pages : \A a \in page[p].fresh, b \in page[q].fresh : p = q /\ a = b
Interchangeable == Permutations(Pages) \cup Permutations(Requests)
=============================================================================
