----------------------------- MODULE Transport ------------------------------
(***************************************************************************)
(* One generation on its way to Kiro (upstream/http.rs and                 *)
(* upstream/endpoints.rs): the concurrency gates it passes, the endpoints  *)
(* and proxies it is tried through, and the cooldowns they leave.          *)
(*                                                                         *)
(* A caller has at most one generation.  Its permits are `held` from the   *)
(* gates until the answer's stream, or the caller, is dropped.             *)
(* A cooldown lapses at any time.  Latency ranking (`fastest`) is an       *)
(* arbitrary order of the endpoints.                                       *)
(***************************************************************************)
EXTENDS Integers, FiniteSets, Sequences, SequencesExt

CONSTANTS
    Callers,     \* the requests and executions that generate
    Accounts,    \* accounts and connections they generate on
    Endpoints,   \* the generation endpoints the settings select
    Direct,      \* no endpoint of the rotation, no proxy
    None,
    MaxTries,    \* bound: sends of attempt_endpoint
    Strategies,  \* subset of {"off", "ordered", "fastest"}
    Chains,      \* proxy chains the owner may set
    Limits,      \* concurrency settings: [global |-> n, account |-> n], 0 for none
    MaxChanges   \* bound: changes of a setting

Proxies == UNION {ToSet(p) : p \in Chains}
Global == "global"

ASSUME TransportAssumption ==
    /\ MaxTries \in Nat \ {0}
    /\ IsFiniteSet(Endpoints) /\ Endpoints # {} /\ Direct \notin Endpoints
    /\ Chains \subseteq Seq(Proxies)
    /\ Limits \subseteq [global : Nat, account : Nat]
    /\ Global \notin Accounts /\ None \notin Int

VARIABLES
    limits,     \* the concurrency settings
    unreset,    \* they changed and reset_concurrency has not run yet
    gates,      \* gates[k]: the limit of k's gate, 0 without one, and which of its epoch it is
    epoch,      \* how often the gates were reset
    waiting,    \* waiting[a]: the queue depth shown for a, None before its first caller
    held,       \* held[c]: the permits of c's generation
    call,       \* call[c]: the progress of c's generation
    strategy,   \* endpoint rotation
    chain,      \* the proxy chain
    cool,       \* endpoints and proxies in a cooldown
    affinity,   \* affinity[a]: the endpoint that last served a
    changes

gateVars == <<limits, unreset, gates, epoch, waiting, held>>
routeVars == <<strategy, chain, cool, affinity>>
transportVars == <<gateVars, routeVars, call, changes>>

NoGates == [k \in Accounts \cup {Global} |-> [limit |-> 0, nth |-> 0]]

\* at: idle, limits (read, the gates not looked up yet), slots (queueing), sending, and how it
\* ended: ok, refused (the response of an account's error), faulty (a 5xx), unreachable, dead
\* (the credential), busy (no slot).
Ends == {"ok", "refused", "faulty", "unreachable", "dead", "busy"}
Idle == [at |-> "idle", acct |-> None, once |-> FALSE, limits |-> None, need |-> <<>>, eps |-> <<>>, pxs |-> <<>>,
         tries |-> 0, soft |-> FALSE, tried |-> {}]

TransportInit ==
    /\ limits \in Limits
    /\ unreset = FALSE
    /\ gates = NoGates
    /\ epoch = 0
    /\ waiting = [a \in Accounts |-> None]
    /\ held = [c \in Callers |-> {}]
    /\ call = [c \in Callers |-> Idle]
    /\ strategy \in Strategies
    /\ chain \in Chains
    /\ cool = {}
    /\ affinity = [a \in Accounts |-> None]
    /\ changes = 0

----------------------------------------------------------------------------
(* The concurrency gates.                                                  *)

Holders(s) == {c \in Callers : s \in held[c]}
Free(s) == Cardinality(Holders(s)) < s.limit

\* Mutant: every caller brings its own gate.
Mutant_OwnGate(k, n) == [limit |-> n, nth |-> gates[k].nth + 1]
\* gate: the one in use, a new one when the limit differs, none for the limit 0.
Gate(k, n) == IF gates[k].limit = n THEN gates[k] ELSE [limit |-> n, nth |-> gates[k].nth + 1]

\* The queue for the semaphore of k's gate g, which outlives the gate.
Queue(k, g) ==
    IF g.limit = 0 THEN <<>> ELSE <<[key |-> k, limit |-> g.limit, nth |-> g.nth, epoch |-> epoch]>>

Unlimited == limits.global = 0 /\ limits.account = 0

\* S in every order its ranks allow, the lowest first.
Sorted(S, rank) ==
    {o \in [1..Cardinality(S) -> S] : ToSet(o) = S /\ \A i \in 2..Cardinality(S) : rank[o[i - 1]] <= rank[o[i]]}
Place(x, order) == CHOOSE i \in DOMAIN order : order[i] = x

\* proxy_attempt_order: the chain, cooling proxies last.
ProxyOrders(cooling) ==
    LET rank == [p \in ToSet(chain) |-> Place(p, chain) + (IF p \in cooling THEN Len(chain) ELSE 0)]
    IN  IF chain = <<>> THEN {<<Direct>>} ELSE Sorted(ToSet(chain), rank)

\* The endpoints as the settings list them.
Listed == CHOOSE o \in Sorted(Endpoints, [e \in Endpoints |-> 0]) : TRUE

\* attempt_order: the endpoint with the affinity unless it is cooling, the ready ones, the cooling ones.
AttemptOrders(a) ==
    LET place(e) == IF strategy = "fastest" THEN 1 ELSE Place(e, Listed)
        rank == [e \in Endpoints |->
                    CASE e \in cool -> Cardinality(Endpoints) + place(e)
                      [] strategy = "ordered" /\ e = affinity[a] -> 0
                      [] OTHER -> place(e)]
    IN  IF strategy = "off" THEN {<<Direct>>} ELSE Sorted(Endpoints, rank)

\* generate goes on with its permits; generate_once tries one proxy and no rotation.
Routed(c, a, once) ==
    \E pxs \in ProxyOrders(cool), eps \in AttemptOrders(a) :
        call' = [call EXCEPT ![c] =
            [Idle EXCEPT !.at = "sending", !.acct = a, !.once = once,
                         !.eps = IF once THEN <<Direct>> ELSE eps,
                         !.pxs = IF once THEN <<Head(pxs)>> ELSE pxs]]

\* concurrency_slot reads the settings.
Generate(c, a, once) ==
    /\ call[c].at = "idle"
    /\ IF Unlimited
       THEN Routed(c, a, once)
       ELSE call' = [call EXCEPT ![c] = [Idle EXCEPT !.at = "limits", !.acct = a, !.once = once, !.limits = limits]]
    /\ UNCHANGED <<gateVars, routeVars, changes>>

\* It locks the gates, which others may have looked up or reset meanwhile, and queues: at the
\* global one, then at the account's.
LookUp(c) ==
    LET a == call[c].acct
        global == Gate(Global, call[c].limits.global)
        account == Gate(a, call[c].limits.account)
    IN  /\ call[c].at = "limits"
        /\ gates' = [gates EXCEPT ![Global] = global, ![a] = account]
        /\ waiting' = [waiting EXCEPT ![a] = (IF @ = None THEN 0 ELSE @) + 1]
        /\ call' = [call EXCEPT ![c].at = "slots", ![c].limits = None,
                                ![c].need = Queue(Global, global) \o Queue(a, account)]
        /\ UNCHANGED <<limits, unreset, epoch, held, routeVars, changes>>

\* WaitingGuard: the depth falls when the queueing ends; a reset may have forgotten it.
Unqueued(c) == [waiting EXCEPT ![call[c].acct] = IF @ = None THEN None ELSE @ - 1]

TakeSlot(c) ==
    LET s == Head(call[c].need) IN
    /\ call[c].at = "slots"
    /\ Free(s)
    /\ held' = [held EXCEPT ![c] = @ \cup {s}]
    /\ IF Len(call[c].need) > 1
       THEN /\ call' = [call EXCEPT ![c].need = Tail(@)]
            /\ UNCHANGED waiting
       ELSE /\ Routed(c, call[c].acct, call[c].once)
            /\ waiting' = Unqueued(c)
    /\ UNCHANGED <<limits, unreset, gates, epoch, routeVars, changes>>

\* acquire gives up: 503, and the permits taken so far are free.
SlotTimeout(c) ==
    /\ call[c].at = "slots"
    /\ ~Free(Head(call[c].need))
    /\ held' = [held EXCEPT ![c] = {}]
    /\ call' = [call EXCEPT ![c] = [Idle EXCEPT !.at = "busy"]]
    /\ waiting' = Unqueued(c)
    /\ UNCHANGED <<limits, unreset, gates, epoch, routeVars, changes>>

\* put_tunables: a limit, or the time a caller queues, is set, then the gates are forgotten.
SetLimits ==
    /\ changes < MaxChanges /\ ~unreset
    /\ limits' \in Limits
    /\ unreset' = TRUE
    /\ changes' = changes + 1
    /\ UNCHANGED <<gates, epoch, waiting, held, call, routeVars>>
ResetConcurrency ==
    /\ unreset
    /\ unreset' = FALSE
    /\ gates' = NoGates
    /\ epoch' = epoch + 1
    /\ waiting' = [a \in Accounts |-> None]
    /\ UNCHANGED <<limits, held, call, routeVars, changes>>

----------------------------------------------------------------------------
(* The sends: attempt_endpoint, through_proxies, generate.                 *)

Ep(c) == Head(call[c].eps)
Px(c) == Head(call[c].pxs)
Sending(c) == call[c].at = "sending"

\* Any answer through a proxy lifts its cooldown; a rotated endpoint keeps its own.
Answering(c) == cool \ {Px(c)}
Failing(c) == IF Ep(c) = Direct THEN {} ELSE {Ep(c)}
Tried(c) == call[c].tried \cup {<<Ep(c), Px(c)>>}

Retry(c) ==
    /\ call[c].tries + 1 < MaxTries /\ ~call[c].once
    /\ call' = [call EXCEPT ![c].tries = @ + 1, ![c].tried = Tried(c)]
    /\ UNCHANGED <<held, routeVars>>

\* The endpoint failed as a whole: the next one starts with every proxy, or the generation ends.
NextEndpoint(c, soft, cooling) ==
    LET ended == IF soft THEN "faulty" ELSE "unreachable"
        left == Tail(call[c].eps)
    IN  /\ cool' = cooling \cup Failing(c)
        /\ IF left = <<>> THEN
              /\ call' = [call EXCEPT ![c].at = ended, ![c].soft = soft, ![c].tried = Tried(c), ![c].eps = <<>>]
              /\ held' = IF soft THEN held ELSE [held EXCEPT ![c] = {}]
           ELSE
              /\ \E pxs \in ProxyOrders(cool') :
                   call' = [call EXCEPT ![c].eps = left, ![c].pxs = pxs, ![c].tries = 0,
                                        ![c].soft = soft, ![c].tried = Tried(c)]
              /\ UNCHANGED held
        /\ UNCHANGED <<strategy, chain, affinity>>

\* No access token: nothing is sent.
NoToken(c) ==
    /\ Sending(c)
    /\ cool' = IF call[c].once THEN cool ELSE Answering(c)
    /\ call' = [call EXCEPT ![c].at = "dead"]
    /\ held' = [held EXCEPT ![c] = {}]
    /\ UNCHANGED <<limits, unreset, gates, epoch, waiting, strategy, chain, affinity, changes>>

\* 200.
SendOk(c) ==
    /\ Sending(c)
    /\ cool' = Answering(c) \ Failing(c)
    /\ affinity' = IF Ep(c) = Direct THEN affinity ELSE [affinity EXCEPT ![call[c].acct] = Ep(c)]
    /\ call' = [call EXCEPT ![c].at = "ok", ![c].tried = Tried(c)]
    /\ UNCHANGED <<limits, unreset, gates, epoch, waiting, held, strategy, chain, changes>>

\* A network error: sent again, else the proxy rests and the next one is tried.
SendLost(c) ==
    LET cooling == IF Px(c) = Direct THEN cool ELSE cool \cup {Px(c)} IN
    /\ Sending(c)
    /\ \/ Retry(c)
       \/ /\ ~call[c].once /\ Len(call[c].pxs) > 1
          /\ call' = [call EXCEPT ![c].pxs = Tail(@), ![c].tries = 0, ![c].tried = Tried(c)]
          /\ cool' = cooling
          /\ UNCHANGED <<held, strategy, chain, affinity>>
       \/ /\ call[c].once \/ Len(call[c].pxs) = 1
          /\ NextEndpoint(c, call[c].soft, cooling)
    /\ UNCHANGED <<limits, unreset, gates, epoch, waiting, changes>>

\* A 5xx: sent again, else the endpoint failed; generate_once hands it to its caller.
SendFaulty(c) ==
    /\ Sending(c)
    /\ \/ Retry(c)
       \/ /\ call[c].once \/ call[c].tries + 1 = MaxTries
          /\ NextEndpoint(c, TRUE, Answering(c))
    /\ UNCHANGED <<limits, unreset, gates, epoch, waiting, changes>>

\* A 429, a suspension or another error of the account: its response ends the generation.
SendRefused(c) ==
    /\ Sending(c)
    /\ cool' = Answering(c)
    /\ call' = [call EXCEPT ![c].at = "refused", ![c].tried = Tried(c)]
    /\ UNCHANGED <<limits, unreset, gates, epoch, waiting, held, strategy, chain, affinity, changes>>

\* A 403: the token is refreshed and the send repeated; the last one's response ends the
\* generation, and so does a refresh that fails.
SendForbidden(c) ==
    /\ Sending(c)
    /\ \/ Retry(c)
       \/ \E how \in {"refused", "dead"} :
            /\ how = "refused" => call[c].once \/ call[c].tries + 1 = MaxTries
            /\ how = "dead" => ~call[c].once
            /\ call' = [call EXCEPT ![c].at = how, ![c].tried = Tried(c)]
            /\ held' = IF how = "dead" THEN [held EXCEPT ![c] = {}] ELSE held
            /\ cool' = Answering(c)
            /\ UNCHANGED <<strategy, chain, affinity>>
    /\ UNCHANGED <<limits, unreset, gates, epoch, waiting, changes>>

\* The caller is done with the generation's result, or is gone.
Hangup(c) ==
    /\ call' = [call EXCEPT ![c] = Idle]
    /\ held' = [held EXCEPT ![c] = {}]
    /\ waiting' = IF call[c].at = "slots" THEN Unqueued(c) ELSE waiting
    /\ UNCHANGED <<limits, unreset, gates, epoch, routeVars, changes>>

----------------------------------------------------------------------------
(* What moves the routes.                                                  *)

Lapse ==
    /\ \E x \in cool : cool' = cool \ {x}
    /\ UNCHANGED <<gateVars, strategy, chain, affinity, call, changes>>
\* set_proxies.
SetProxies ==
    /\ changes < MaxChanges
    /\ \E n \in Chains \ {chain} : chain' = n
    /\ cool' = cool \cap Endpoints
    /\ changes' = changes + 1
    /\ UNCHANGED <<gateVars, strategy, affinity, call>>

SendFails(c) == NoToken(c) \/ SendLost(c) \/ SendFaulty(c) \/ SendRefused(c) \/ SendForbidden(c)
=============================================================================
