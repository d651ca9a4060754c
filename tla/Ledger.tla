------------------------------- MODULE Ledger -------------------------------
(***************************************************************************)
(* What the receivables side of Builders Stream promises a company's       *)
(* bookkeeper, with no request, lock or status in sight: every invoice is  *)
(* issued once under the next number of its company, and the money         *)
(* collected against it only grows and never exceeds what was billed.      *)
(* Invoices implements this specification.                                 *)
(***************************************************************************)
EXTENDS Integers, FiniteSets

CONSTANTS Invoices,      \* every invoice row that may ever exist
          CompanyOf      \* the company each of them belongs to

VARIABLES billed,        \* the amount of each issued invoice
          number,        \* its number within its company, 0 before it is issued
          collected      \* the sum of the payments recorded against it

vars == <<billed, number, collected>>

IssuedBy(c) == {i \in Invoices : CompanyOf[i] = c /\ number[i] # 0}

Init ==
    /\ billed    = [i \in Invoices |-> 0]
    /\ number    = [i \in Invoices |-> 0]
    /\ collected = [i \in Invoices |-> 0]

Issue(i) ==
    /\ number[i] = 0
    /\ number' = [number EXCEPT ![i] = Cardinality(IssuedBy(CompanyOf[i])) + 1]
    /\ billed'[i] \in Nat
    /\ billed' = [billed EXCEPT ![i] = billed'[i]]
    /\ UNCHANGED collected

Collect(i) ==
    /\ number[i] # 0
    /\ \E a \in 0..(billed[i] - collected[i]) :
          collected' = [collected EXCEPT ![i] = @ + a]
    /\ UNCHANGED <<billed, number>>

Next == \E i \in Invoices : Issue(i) \/ Collect(i)

Spec == Init /\ [][Next]_vars
=============================================================================
