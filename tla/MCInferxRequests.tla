-------------------------- MODULE MCInferxRequests --------------------------
(* Small instances of InferxRequests for TLC. *)
EXTENDS InferxRequests, TLC

Symmetry == Permutations(Calls) \cup Permutations(Requests) \cup Permutations(Owners)
                \cup Permutations(Connections) \cup Permutations(Bodies)
==============================================================================
