--------------------------- MODULE MCPoolRouting ---------------------------
(* Instances of PoolRouting for TLC: accounts, requests and sessions are    *)
(* model values, and interchangeable.                                       *)
EXTENDS PoolRouting, TLC

Symmetry == Permutations(Accounts) \cup Permutations(Requests) \cup Permutations(Sessions)
=============================================================================
