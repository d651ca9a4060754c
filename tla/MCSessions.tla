---------------------------- MODULE MCSessions ----------------------------
(* Two tabs of a user with two companies.  Three tokens are a login, a     *)
(* rotation and one that races with it, or a switch between two.           *)
EXTENDS Sessions, TLC

CONSTANTS t1, t2, acme, bau

Interchangeable == Permutations(Tabs)
=============================================================================
