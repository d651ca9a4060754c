---------------------------- MODULE MCPipeline ----------------------------
(* A lead that two racing requests may win twice, and a change order that  *)
(* may be an extra or a credit.  The contract is worth more than the       *)
(* ordinary invoices that fit in the bound, so that a remainder is left.   *)
EXTENDS Pipeline, TLC

CONSTANTS r1, r2, l1, p1, c1

MCDeltas == {-1, 2}

\* Bound: the lead is left alone once its project has begun, for they share nothing after that.
LeadsFirst ==
    (\E p \in Projects : status[p] \notin {"none", "draft"}) =>
        \A r \in Requests, l \in Leads : ~On(r, l)

Interchangeable == Permutations(Requests)
=============================================================================
