---------------------------- MODULE MCEstimates ----------------------------
(* The largest list is two lines, so that two replaces can collide on one  *)
(* position and not on the other; the total 1 * 1 makes the deposit of 50% *)
(* a half cent, which must be rounded up.  A second estimate meets the     *)
(* first on the company's lock and in the project's bill of materials.     *)
EXTENDS Estimates, TLC

CONSTANTS r1, r2, e1, e2

MCPayloads == {<<>>, <<1>>, <<1, 1>>}

Interchangeable == Permutations(Requests) \cup Permutations(Estimates)

(* The bound of the instance: one estimate in all its variety, or two that *)
(* have a single line, markup and signature.                               *)
Plain(e) ==
    /\ status[e] # "none" => markup[e] = 1
    /\ total[e] \in {NoTotal, 1}
    /\ Cardinality(lines[e]) <= 1
    /\ signed[e] \in {<<>>, <<[total |-> 1, qty |-> 1]>>}
PlainRequest(r) ==
    /\ req[r].op # "update"
    /\ req[r].op = "lines" => req[r].payload = <<1>>
    /\ req[r].op = "calculate" => req[r].markup = 1 /\ {req[r].had, req[r].total} \subseteq {NoTotal, 1}
OneRichOrTwoPlain ==
    \/ \E e \in Estimates : status[e] = "none"
    \/ (\A e \in Estimates : Plain(e)) /\ (\A r \in Requests : PlainRequest(r))
=============================================================================
