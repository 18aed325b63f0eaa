----------------------------- MODULE MCHandoff -----------------------------
(* The handoff on two slots; requests and slots are interchangeable.       *)
EXTENDS Handoff, TLC

Symmetry == Permutations(Requests) \cup Permutations(Slots)
=============================================================================
