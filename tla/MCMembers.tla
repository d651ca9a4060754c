----------------------------- MODULE MCMembers -----------------------------
(* Two requests, two people besides the founder's seat, and two            *)
(* invitations, so that one person can be invited again after a removal.   *)
EXTENDS Members, TLC

CONSTANTS r1, r2, ann, bob, i1, i2

Interchangeable == Permutations(Requests) \cup Permutations(Invitations)
=============================================================================
