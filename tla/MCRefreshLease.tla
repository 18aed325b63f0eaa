--------------------------- MODULE MCRefreshLease ---------------------------
(* Instances of RefreshLease for TLC: slots and objects are model values.   *)
EXTENDS RefreshLease, TLC

Symmetry == Permutations(Slots) \cup Permutations(Objects)
=============================================================================
