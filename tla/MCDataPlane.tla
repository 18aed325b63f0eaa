----------------------------- MODULE MCDataPlane ----------------------------
(* A small instance of DataPlane for TLC.                                   *)
EXTENDS DataPlane
Settings == {[global |-> 0, account |-> 0], [global |-> 2, account |-> 1], [global |-> 1, account |-> 0]}
ProxyChains == {<<>>, <<"p1", "p2">>}
Question == <<Said("user")>>

\* What a conversation may hold: calls and results of two tools.
Calls == {[Said("assistant") EXCEPT !.uses = u] : u \in SUBSET {"t1", "t2"}}
Results == {[Said("user") EXCEPT !.results = r] : r \in SUBSET {"t1", "t2"}}
ToolMessages == {[Said("tool") EXCEPT !.results = {r}] : r \in {"t1", "t2"}}
Messages == Calls \cup Results \cup ToolMessages \cup {Said("system"), Said("other")}
Short == UNION {[1..n -> Messages] : n \in 0..3}

\* Longer ones, for the trimming: users and assistants in turn, one tool.
Turn(i, tool) ==
    IF i % 2 = 1 THEN [Said("user") EXCEPT !.results = IF tool THEN {"t1"} ELSE {}]
    ELSE [Said("assistant") EXCEPT !.uses = IF tool THEN {"t1"} ELSE {}]
Long == {[i \in 1..7 |-> Turn(i, i \in tools)] : tools \in SUBSET (2..7)}
Dialogues == Short \cup Long \cup {<<Said("system")>> \o l : l \in Long}

Symmetric == Permutations(Clients) \cup Permutations(Accounts)
=============================================================================
