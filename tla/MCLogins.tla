------------------------------ MODULE MCLogins ------------------------------
(* Small instances of InferxConnections and DeviceLogin for TLC.            *)
EXTENDS InferxConnections, TLC
\* The two flows are of two people, and the document offered is of one of them.
Shared == {w \in [Logins -> Users] : \A f, g \in Flows : f # g => w[f] # w[g]}
Symmetric == Permutations(Calls) \cup Permutations(Flows) \cup Permutations(Conns)
             \cup Permutations(Users)
=============================================================================
