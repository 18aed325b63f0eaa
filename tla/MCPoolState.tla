---------------------------- MODULE MCPoolState ----------------------------
(* Instances of PoolState for TLC: the bounds are the constants of the cfg. *)
EXTENDS PoolState
=============================================================================
