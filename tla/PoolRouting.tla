---------------------------- MODULE PoolRouting ----------------------------
(***************************************************************************)
(* The account pool and the requests that route through it.                *)
(*                                                                         *)
(* src/pool.rs keeps one mutex-protected PoolInner (order, accounts,       *)
(* current_index, sessions) and one health record per account object.      *)
(* src/routes_v1.rs::run picks an account, sends the request, commits the  *)
(* outcome and fails over.  Between those steps the dashboard removes,     *)
(* disables and registers accounts, background tasks initialise them,      *)
(* deadlines pass and other requests commit their own outcomes.            *)
(*                                                                         *)
(* An account object (an Arc<Account>) is the number under which it was    *)
(* inserted; object[a] = 0 says that a is not a member.  One model name is *)
(* routed.  Time is the passing of each deadline as an action.  The sort   *)
(* keys of candidate_order other than the pin (weights, load, tier) are    *)
(* abstracted to an arbitrary order.  Login identities cannot change on an *)
(* object that has credentials, and the pins of a removed account go with  *)
(* it, so within one process run the login comparison of a pin always      *)
(* succeeds and is left out; restarts and reloads belong to PoolState.     *)
(***************************************************************************)
EXTENDS Integers, FiniteSets, SequencesExt

CONSTANTS
    Accounts,     \* account ids
    Requests,     \* as many clients, each sending one request after another
    Sessions,     \* conversation keys
    None,         \* no account, no session
    Deadlines,    \* the quarantines that an instance explores
    Happenings,   \* bound: the sets of operator and background events, one in a behaviour
    Slots,        \* concurrency slots of an account
    Capacity,     \* session_affinity_capacity
    MaxObjects    \* bound: account objects ever made

Barring == {"auth_dead", "suspended", "quota", "rate"}
Events == {"delete", "disable", "register", "issue", "usage",
           "catalog", "deadline", "lapse", "probe"}

ASSUME RoutingAssumption ==
    /\ None \notin Accounts \cup Sessions
    /\ IsFiniteSet(Accounts) /\ IsFiniteSet(Sessions) /\ IsFiniteSet(Requests)
    /\ Deadlines \subseteq Barring
    /\ Happenings \subseteq SUBSET Events
    /\ Slots \in Nat \ {0}
    /\ Capacity \in Nat \ {0}
    /\ MaxObjects \in Nat \ {0}

VARIABLES
    order,         \* PoolInner.order
    current,       \* PoolInner.current_index
    object,        \* PoolInner.accounts: the live object of an id, 0 for none
    made,          \* account objects made so far
    health,        \* Account.auth, Account.models and AccountState
    initializing,  \* <<id, object>> of the initialize calls under way
    pins,          \* PoolInner.sessions: the account of a conversation
    older,         \* <<t, s>>: the pin of t was touched before that of s
    lapsed,        \* the pinned conversations older than the affinity TTL
    disabling,     \* the set_enabled(false) that holds the mutation lock
    req,           \* the data-plane requests
    happenings     \* the events that this behaviour explores

vars == <<order, current, object, made, health, initializing, pins, older,
          lapsed, disabling, req>>
pinVars == <<pins, older, lapsed>>
memberVars == <<order, object, made>>

Health == [auth: BOOLEAN, issue: BOOLEAN, barred: SUBSET Barring,
           cooling: BOOLEAN, depleted: BOOLEAN,
           support: {"unknown", "supported", "unsupported"}]
Candidates == Accounts \X (1..MaxObjects)
Unavailabilities == {"model", "quota", "accounts", "temporary"}
Places == {"idle", "arriving", "counted", "choosing", "ordering", "scanning",
           "checked", "attempting", "concluding", "done"}
RequestRecs ==
    [at: Places, session: Sessions \cup {None}, single: BOOLEAN, limit: Nat,
     attempts: Nat, tried: SUBSET Accounts, lone: BOOLEAN, last: BOOLEAN,
     left: SUBSET Candidates, first: Accounts \cup {None},
     account: Accounts \cup {None}, object: 0..MaxObjects,
     answer: Unavailabilities \cup {"none", "served", "failed", "paused", "gone"}]

Idle == [at |-> "idle", session |-> None, single |-> FALSE, limit |-> 0,
         attempts |-> 0, tried |-> {}, lone |-> FALSE, last |-> FALSE,
         left |-> {}, first |-> None, account |-> None, object |-> 0,
         answer |-> "none"]

Members == {a \in Accounts : object[a] # 0}
Paused == disabling.phase # "none"

(***************************************************************************)
(* Health                                                                  *)
(***************************************************************************)

\* A new object: no credentials, no catalog.  A re-enabled account restores
\* the durable part of its state (restore_account_state), a new one has none.
Fresh(restored, depleted) ==
    [auth |-> FALSE, issue |-> FALSE, barred |-> restored, cooling |-> FALSE,
     depleted |-> depleted, support |-> "unknown"]

\* What commit_success leaves of an account's health.  The AWS login finding
\* and the usage poll's figures are not the request's to clear.
ServingAgain(h) ==
    [h EXCEPT !.support = "supported", !.cooling = FALSE, !.barred = {}]

\* What commit_failure records, by the error the upstream gave: a model it
\* does not have, an exclusion until a deadline, or one more failure.
Penalised(h, k) ==
    CASE k = "invalid_model" -> [h EXCEPT !.support = "unsupported"]
      [] k = "transient"     -> [h EXCEPT !.cooling = TRUE]
      [] k \in Barring       -> [h EXCEPT !.barred = @ \cup {k}]
      [] OTHER               -> h

\* select's health checks, skipped for a pool of one account.
Healthy(h, last) == h.barred = {} /\ (last \/ ~h.depleted)

Eligible(h, lone, last) ==
    /\ ~h.issue
    /\ h.support = "supported"
    /\ lone \/ Healthy(h, last)
    /\ h.auth

\* unavailability: why no member can take the model.
Unavailability ==
    LET serving == {a \in Members : health[a].support = "supported"}
        quota == {a \in serving : ~health[a].issue
                                  /\ ("quota" \in health[a].barred \/ health[a].depleted)}
        gone == {a \in serving \ quota :
                    health[a].issue
                    \/ health[a].barred \cap {"suspended", "auth_dead"} # {}}
    IN IF \/ Members = {}
          \/ \E a \in Members : health[a].support = "unknown"
          \/ quota \cup gone # serving
       THEN "temporary"
       ELSE IF serving = {} THEN "model"
       ELSE IF quota # {} THEN "quota" ELSE "accounts"

(***************************************************************************)
(* Session pins                                                            *)
(***************************************************************************)

PinLost(a) ==
    \/ a \notin Members
    \/ ~health[a].auth
    \/ health[a].support = "unsupported"
    \/ health[a].issue
    \/ health[a].barred \cap {"auth_dead", "suspended", "quota"} # {}
    \/ health[a].depleted

\* commit_success leaves a conversation on the other account it is pinned to
\* while that pin is live and its account can still serve.
Mutant_NotKept(s, a) == FALSE
Kept(s, a) ==
    pins[s] \notin {None, a} /\ s \notin lapsed /\ ~PinLost(pins[s])

\* pin_session_locked makes room: expired pins first, then the oldest.
Crowded(n) == n >= Capacity

Pinned == {s \in Sessions : pins[s] # None}
Oldest(ss) == {t \in ss : \A u \in ss : <<u, t>> \notin older}

Evicted(s, a) ==
    IF pins[s] = a \/ ~Crowded(Cardinality(Pinned)) THEN {}
    ELSE (Pinned \cap lapsed)
         \cup (IF Crowded(Cardinality(Pinned \ lapsed)) THEN Oldest(Pinned \ lapsed) ELSE {})

Pin(s, a) ==
    LET out == Evicted(s, a)
        others == Pinned \ (out \cup {s})
    IN
    /\ pins' = [t \in Sessions |-> IF t = s THEN a
                                   ELSE IF t \in out THEN None ELSE pins[t]]
    /\ older' = (older \cap (others \X others)) \cup (others \X {s})
    /\ lapsed' = lapsed \ (out \cup {s})

\* candidate_order: the pinned account goes first unless it cannot serve the
\* model or all its concurrency slots are held.
Holding(a) == {r \in Requests : req[r].at = "attempting" /\ req[r].account = a}
MaySaturate(a) == Cardinality(Holding(a)) >= Slots
PinFirst(s) ==
    /\ s # None
    /\ pins[s] \in Members
    /\ s \notin lapsed
    /\ health[pins[s]].support # "unsupported"

(***************************************************************************)
(* Membership                                                              *)
(***************************************************************************)

\* remove_account: the round-robin pointer stays on its account.
Mutant_PointerUnmoved(p, n) ==
    IF n = 0 THEN 0 ELSE IF current < n THEN current ELSE n - 1
PointerAfter(p, n) ==
    IF n = 0 THEN 0
    ELSE IF p < current THEN current - 1
    ELSE IF current < n THEN current ELSE n - 1

\* and the conversations pinned to it are forgotten
Mutant_PinsStay(a) == pins
PinsWithout(a) == [s \in Sessions |-> IF pins[s] = a THEN None ELSE pins[s]]

Position(a) == CHOOSE i \in 1..Len(order) : order[i] = a

RemoveAccount(a) ==
    /\ object' = [object EXCEPT ![a] = 0]
    /\ order' = RemoveAt(order, Position(a))
    /\ current' = PointerAfter(Position(a) - 1, Len(order) - 1)
    /\ pins' = PinsWithout(a)
    /\ older' = older \cap (Pinned' \X Pinned')
    /\ lapsed' = lapsed \cap Pinned'
    /\ health' = [health EXCEPT ![a] = Fresh({}, FALSE)]
    /\ UNCHANGED made

(***************************************************************************)
(* Initial states: every account registered and warmed up                  *)
(***************************************************************************)

Init ==
    /\ order \in SetToSeqs(Accounts)
    /\ current \in 0..(Len(order) - 1)
    /\ object = [a \in Accounts |-> 1]
    /\ made = 1
    /\ health = [a \in Accounts |->
                    [Fresh({}, FALSE) EXCEPT !.auth = TRUE, !.support = "supported"]]
    /\ initializing = {}
    /\ pins = [s \in Sessions |-> None]
    /\ older = {}
    /\ lapsed = {}
    /\ disabling = [phase |-> "none", account |-> None]
    /\ req = [r \in Requests |-> Idle]
    /\ happenings \in Happenings

(***************************************************************************)
(* Admission to the data plane (data_plane_middleware)                     *)
(***************************************************************************)

Ended(r, answer) == [Idle EXCEPT !.at = "done", !.answer = answer]

\* The pause flag is read, the request counts itself in flight, and the flag
\* is read again: three steps that a pause may fall between.
Arrive(r, s) ==
    /\ req[r].at \in {"idle", "done"}
    /\ req' = [req EXCEPT ![r] =
                  IF Paused THEN Ended(r, "paused")
                  ELSE [Idle EXCEPT !.at = "arriving", !.session = s]]
    /\ UNCHANGED <<memberVars, current, health, initializing, pinVars, disabling>>

Enter(r) ==
    /\ req[r].at = "arriving"
    /\ req' = [req EXCEPT ![r].at = "counted"]
    /\ UNCHANGED <<memberVars, current, health, initializing, pinVars, disabling>>

Mutant_LetIn(r) == FALSE
TurnedAway(r) == Paused

\* run measures the pool once, when the request arrives.
Admit(r) ==
    /\ req[r].at = "counted"
    /\ req' = [req EXCEPT ![r] =
                  IF TurnedAway(r) THEN Ended(r, "paused")
                  ELSE [@ EXCEPT !.at = "choosing",
                                 !.single = Len(order) = 1,
                                 !.limit = IF order = <<>> THEN 1 ELSE 2 * Len(order)]]
    /\ UNCHANGED <<memberVars, current, health, initializing, pinVars, disabling>>

\* What a drain counts: the guard lives from Enter until the response body
\* ends or the client goes away.
Mutant_LeakedGuard == {r \in Requests : \/ req[r].at \notin {"idle", "arriving", "done"}
                                        \/ req[r].answer = "gone"}
InFlight == {r \in Requests : req[r].at \notin {"idle", "arriving", "done"}}

(***************************************************************************)
(* Selection (next_account, select, candidate_order)                       *)
(***************************************************************************)

Choose(r) ==
    /\ req[r].at = "choosing"
    /\ req' = [req EXCEPT ![r].at = "ordering", ![r].lone = Len(order) = 1]
    /\ UNCHANGED <<memberVars, current, health, initializing, pinVars, disabling>>

Order(r) ==
    /\ req[r].at = "ordering"
    /\ \E full \in BOOLEAN :
          LET s == req[r].session
              first == IF PinFirst(s) /\ ~full THEN pins[s] ELSE None
          IN /\ full => (PinFirst(s) /\ MaySaturate(pins[s]))
             /\ req' = [req EXCEPT
                   ![r].at = "scanning",
                   ![r].left = {<<a, object[a]>> : a \in Members \ req[r].tried},
                   ![r].first = IF first \in req[r].tried THEN None ELSE first]
    /\ UNCHANGED <<memberVars, current, health, initializing, pinVars, disabling>>

Turn(r, c) == c \in req[r].left /\ req[r].first \in {None, c[1]}

\* A candidate passes select's checks.  One that is cooling down is given its
\* chance or passed over at random.
Take(r, c) ==
    /\ req[r].at = "scanning"
    /\ Turn(r, c)
    /\ object[c[1]] = c[2]
    /\ Eligible(health[c[1]], req[r].lone, req[r].last)
    /\ req' = [req EXCEPT ![r].at = "checked", ![r].account = c[1], ![r].object = c[2]]
    /\ UNCHANGED <<memberVars, current, health, initializing, pinVars, disabling>>

\* A candidate fails them, or has left the pool since the list was made.
Skip(r, c) ==
    /\ req[r].at = "scanning"
    /\ Turn(r, c)
    /\ \/ object[c[1]] # c[2]
       \/ ~Eligible(health[c[1]], req[r].lone, req[r].last)
       \/ health[c[1]].cooling /\ ~req[r].lone
    /\ req' = [req EXCEPT ![r].left = @ \ {c}, ![r].first = None]
    /\ UNCHANGED <<memberVars, current, health, initializing, pinVars, disabling>>

\* select's last look: the checked object is still the live one.
Confirm(r) ==
    LET q == req[r] IN
    /\ q.at = "checked"
    /\ req' = [req EXCEPT ![r] =
          IF object[q.account] = q.object
          THEN [q EXCEPT !.at = "attempting", !.tried = q.tried \cup {q.account},
                         !.attempts = q.attempts + 1, !.left = {}, !.first = None]
          ELSE [q EXCEPT !.at = "scanning", !.first = None,
                         !.left = q.left \ {<<q.account, q.object>>},
                         !.account = None, !.object = 0]]
    /\ UNCHANGED <<memberVars, current, health, initializing, pinVars, disabling>>

\* next_account searches once more, for an account that usage polling calls
\* spent, when the first search found nothing.
Mutant_AnyDepleted(r) == \E a \in Members : health[a].depleted
TryLastResort(r) == ~req[r].last /\ \E a \in Members : health[a].depleted

Exhaust(r) ==
    /\ req[r].at = "scanning"
    /\ req[r].left = {}
    /\ req' = [req EXCEPT ![r] =
                  IF TryLastResort(r) THEN [@ EXCEPT !.at = "choosing", !.last = TRUE]
                  ELSE [@ EXCEPT !.at = "concluding"]]
    /\ UNCHANGED <<memberVars, current, health, initializing, pinVars, disabling>>

(***************************************************************************)
(* Outcomes (attempt, commit_success, commit_failure,                      *)
(* commit_credential_dead)                                                 *)
(***************************************************************************)

\* Completions are fenced by the object that served the request.
Mutant_SameId(r) == req[r].account \in Members
Live(r) == object[req[r].account] = req[r].object

Succeed(r) ==
    /\ req[r].at = "attempting"
    /\ LET a == req[r].account
           s == req[r].session
       IN IF Live(r)
          THEN /\ health' = [health EXCEPT ![a] = ServingAgain(@)]
               /\ current' = IF a \in Members THEN Position(a) - 1 ELSE current
               /\ IF s = None THEN UNCHANGED pinVars
                  ELSE IF Kept(s, a) THEN UNCHANGED pinVars
                  ELSE Pin(s, a)
          ELSE UNCHANGED <<health, current, pinVars>>
    /\ req' = [req EXCEPT ![r] = Ended(r, "served")]
    /\ UNCHANGED <<memberVars, initializing, disabling>>

\* A pool that held one account when the request arrived is not retried, and
\* no request is sent more than twice round the pool it found.
NextAttempt(q) ==
    [q EXCEPT !.at = IF q.single \/ q.attempts >= q.limit
                     THEN "concluding" ELSE "choosing",
              !.last = FALSE, !.lone = FALSE, !.account = None, !.object = 0]

Errors == {"invalid_model", "transient", "fatal"} \cup Deadlines

Fail(r, k) ==
    /\ req[r].at = "attempting"
    /\ health' = IF Live(r)
                 THEN [health EXCEPT ![req[r].account] = Penalised(@, k)]
                 ELSE health
    /\ req' = [req EXCEPT ![r] = IF k = "fatal" THEN Ended(r, "failed")
                                 ELSE NextAttempt(@)]
    /\ UNCHANGED <<memberVars, current, initializing, pinVars, disabling>>

\* The client goes away, or the stream breaks off: nothing is committed.
Abandon(r) ==
    /\ req[r].at \notin {"idle", "done"}
    /\ req' = [req EXCEPT ![r] = Ended(r, "gone")]
    /\ UNCHANGED <<memberVars, current, health, initializing, pinVars, disabling>>

\* Nothing can take the request: tell the client why.
Conclude(r) ==
    /\ req[r].at = "concluding"
    /\ req' = [req EXCEPT ![r] = Ended(r, Unavailability)]
    /\ UNCHANGED <<memberVars, current, health, initializing, pinVars, disabling>>

(***************************************************************************)
(* Operations on the pool.  They hold the mutation lock, so none runs while *)
(* a disable waits for the data plane.                                     *)
(***************************************************************************)

\* delete_account does not wait for the requests that use the account.
Delete(a) ==
    /\ "delete" \in happenings
    /\ ~Paused
    /\ a \in Members
    /\ Len(order) > 1
    /\ RemoveAccount(a)
    /\ UNCHANGED <<initializing, disabling, req>>

\* register, or set_enabled(true): the id enters the pool as a new object.
Register(a, restored, depleted) ==
    /\ "register" \in happenings
    /\ ~Paused
    /\ a \notin Members
    /\ made < MaxObjects
    /\ made' = made + 1
    /\ object' = [object EXCEPT ![a] = made + 1]
    /\ order' = Append(order, a)
    /\ health' = [health EXCEPT ![a] = Fresh(restored, depleted)]
    /\ UNCHANGED <<current, initializing, pinVars, disabling, req>>

DisableBegin(a) ==
    /\ "disable" \in happenings
    /\ ~Paused
    /\ a \in Members
    /\ Len(order) > 1
    /\ disabling' = [phase |-> "pausing", account |-> a]
    /\ UNCHANGED <<memberVars, current, health, initializing, pinVars, req>>

DisableDrained ==
    /\ disabling.phase = "pausing"
    /\ InFlight = {}
    /\ disabling' = [disabling EXCEPT !.phase = "drained"]
    /\ UNCHANGED <<memberVars, current, health, initializing, pinVars, req>>

DisableRemove ==
    /\ disabling.phase = "drained"
    /\ RemoveAccount(disabling.account)
    /\ disabling' = [phase |-> "none", account |-> None]
    /\ UNCHANGED <<initializing, req>>

\* The operator's client goes away while the handler waits: the pause guard
\* and the mutation lock are dropped with it.
DisableCancelled ==
    /\ disabling.phase = "pausing"
    /\ disabling' = [phase |-> "none", account |-> None]
    /\ UNCHANGED <<memberVars, current, health, initializing, pinVars, req>>

(***************************************************************************)
(* Background                                                              *)
(***************************************************************************)

InitStart(a) ==
    /\ a \in Members
    /\ ~health[a].auth /\ ~health[a].issue
    /\ <<a, object[a]>> \notin initializing
    /\ initializing' = initializing \cup {<<a, object[a]>>}
    /\ UNCHANGED <<memberVars, current, health, pinVars, disabling, req>>

\* initialize ends.  Its success first rebinds the state of the login from
\* the durable copy, which may lag behind (PoolState), then publishes the
\* credentials, unless the login was replaced meanwhile.
InitEnd(c) ==
    /\ c \in initializing
    /\ initializing' = initializing \ {c}
    /\ LET h == health[c[1]] IN
       IF object[c[1]] # c[2] THEN UNCHANGED health
       ELSE \/ UNCHANGED health
            \/ /\ "auth_dead" \in Deadlines
               /\ health' = [health EXCEPT ![c[1]].barred = @ \cup {"auth_dead"}]
            \/ \E bound \in {h, Fresh({}, h.depleted)}, publish \in BOOLEAN,
                  support \in {"supported", "unsupported", "unknown"} :
                  health' = [health EXCEPT ![c[1]] =
                                IF publish
                                THEN [bound EXCEPT !.auth = TRUE, !.support = support]
                                ELSE bound]
    /\ UNCHANGED <<memberVars, current, pinVars, disabling, req>>

\* A catalog read replaces what is known of the model.
CatalogRead(a) ==
    /\ "catalog" \in happenings
    /\ a \in Members /\ health[a].auth
    /\ \E support \in {"supported", "unsupported"} :
          health' = [health EXCEPT ![a].support = support]
    /\ UNCHANGED <<memberVars, current, initializing, pinVars, disabling, req>>

\* TokenHub reports what the AWS login page said of an account that has
\* trouble (internal_report_login_diagnostic).
LoginReported(a) ==
    /\ "issue" \in happenings
    /\ ~Paused
    /\ a \in Members
    /\ health[a].issue \/ health[a].barred \cap {"auth_dead", "suspended"} # {}
    /\ \E issue \in BOOLEAN : health' = [health EXCEPT ![a].issue = issue]
    /\ UNCHANGED <<memberVars, current, initializing, pinVars, disabling, req>>

\* set_quota: a usage poll finds the account spent; a later one, or the
\* reset date it gave, finds it replenished.
UsagePolled(a) ==
    /\ "usage" \in happenings
    /\ a \in Members
    /\ \E spent \in BOOLEAN : health' = [health EXCEPT ![a].depleted = spent]
    /\ UNCHANGED <<memberVars, current, initializing, pinVars, disabling, req>>

DeadlinePasses(a) ==
    /\ "deadline" \in happenings
    /\ a \in Members
    /\ \/ \E d \in health[a].barred : health' = [health EXCEPT ![a].barred = @ \ {d}]
       \/ health[a].cooling /\ health' = [health EXCEPT ![a].cooling = FALSE]
    /\ UNCHANGED <<memberVars, current, initializing, pinVars, disabling, req>>

\* probe_social_sessions finds a login that another login revoked.
ProbeRevoked(a) ==
    /\ "probe" \in happenings
    /\ "auth_dead" \in Deadlines \ health[a].barred
    /\ a \in Members /\ health[a].auth
    /\ health' = [health EXCEPT ![a].barred = @ \cup {"auth_dead"}]
    /\ UNCHANGED <<memberVars, current, initializing, pinVars, disabling, req>>

\* The least recently touched pin outlives the affinity TTL.
PinLapses ==
    /\ "lapse" \in happenings
    /\ \E s \in Oldest(Pinned \ lapsed) : lapsed' = lapsed \cup {s}
    /\ UNCHANGED <<memberVars, current, health, initializing, pins, older,
                   disabling, req>>

Serve(r) ==
    \/ Enter(r) \/ Admit(r) \/ Choose(r) \/ Order(r) \/ Confirm(r)
    \/ Exhaust(r) \/ Succeed(r) \/ Conclude(r)
    \/ \E c \in req[r].left : Take(r, c) \/ Skip(r, c)
    \/ \E k \in Errors : Fail(r, k)

Step ==
    \/ \E r \in Requests :
          \/ \E s \in Sessions \cup {None} : Arrive(r, s)
          \/ Serve(r)
          \/ Abandon(r)
    \/ \E a \in Accounts :
          \/ Delete(a) \/ DisableBegin(a)
          \/ \E restored \in SUBSET (Deadlines \ {"rate"}), depleted \in BOOLEAN :
                Register(a, restored, depleted)
          \/ InitStart(a) \/ CatalogRead(a) \/ LoginReported(a) \/ UsagePolled(a)
          \/ DeadlinePasses(a) \/ ProbeRevoked(a)
    \/ \E c \in initializing : InitEnd(c)
    \/ DisableDrained \/ DisableRemove \/ DisableCancelled
    \/ PinLapses
Next == Step /\ UNCHANGED happenings

Spec == Init /\ [][Next]_<<vars, happenings>>

\* The server runs its tasks, every upstream attempt is bounded by timeouts,
\* and the drain is notified.  Nothing is assumed of clients, operators,
\* deadlines or background work.
FairSpec ==
    /\ Spec
    /\ \A r \in Requests : WF_vars(Serve(r))
    /\ WF_vars(DisableDrained) /\ WF_vars(DisableRemove)

(***************************************************************************)
(* Properties                                                              *)
(***************************************************************************)

\* Every variable has its type; the round-robin pointer stays in the list
\* through every removal (PoolInner.current_index indexes order).
TypeOK ==
    /\ order \in Seq(Accounts)
    /\ current \in Nat /\ (order # <<>> => current < Len(order))
    /\ made \in 1..MaxObjects
    /\ object \in [Accounts -> 0..made]
    /\ {order[i] : i \in 1..Len(order)} = Members
    /\ \A i, j \in 1..Len(order) : i # j => order[i] # order[j]
    /\ health \in [Accounts -> Health]
    /\ initializing \subseteq Candidates
    /\ pins \in [Sessions -> Accounts \cup {None}]
    /\ older \subseteq Pinned \X Pinned
    /\ lapsed \subseteq Pinned
    /\ disabling \in [phase: {"none", "pausing", "drained"}, account: Accounts \cup {None}]
    /\ req \in [Requests -> RequestRecs]

\* What the pool knows of a model on an account was learnt with that account
\* object's own credentials: a request that began on a removed account never
\* credits or blames the account registered since under the same id
\* (commit_success and commit_failure compare objects, not ids).
EvidenceOwned == \A a \in Accounts : health[a].support # "unknown" => health[a].auth

\* A pin outlives nothing: the pinned account is a member with credentials,
\* whatever is removed and registered again while requests complete, and the
\* table never outgrows its capacity
\* (remove_account drops the pins, commit_success sets them under the same
\* lock, pin_session_locked evicts before it inserts).
PinsOwned ==
    \A s \in Sessions : pins[s] # None => pins[s] \in Members /\ health[pins[s]].auth
PinsBounded == Cardinality(Pinned) <= Capacity
\* The last touches are a strict order of the pinned conversations.
PinsOrdered ==
    /\ \A s \in Sessions : <<s, s>> \notin older
    /\ \A s, t, u \in Sessions : <<s, t>> \in older /\ <<t, u>> \in older => <<s, u>> \in older
    /\ \A s, t \in Pinned : s # t => <<s, t>> \in older \/ <<t, s>> \in older
PinsKept == PinsOwned /\ PinsBounded /\ PinsOrdered

\* Every variable keeps its type; what the pool knows of an account and what it
\* has pinned to it belong to the object that is a member under that id now.
Owned == TypeOK /\ EvidenceOwned /\ PinsKept

\* A conversation moves to another account, and so loses its prompt cache,
\* only when its pin has expired or the pinned account cannot serve it: a
\* request that failed over on a passing error does not move it.
ConversationStays ==
    [][\A s \in Sessions :
          (pins[s] # None /\ pins'[s] \notin {None, pins[s]})
              => (s \in lapsed \/ PinLost(pins[s]))]_vars

\* Removing an account leaves the round-robin pointer on the account it
\* pointed at; only a success moves it (remove_account shifts the index).
PointerKept ==
    [][LET pointed == order[current + 1]
       IN (order # <<>> /\ order' # order /\ object'[pointed] # 0)
              => order'[current' + 1] = pointed]_vars

\* Once a disable has drained the data plane no request is being served, up
\* to the removal: a request that read the pause flag before it was set
\* finds it when it reads it again (data_plane_middleware).
DrainedIdle ==
    disabling.phase = "drained" =>
        \A r \in Requests : req[r].at \in {"idle", "arriving", "counted", "done"}

\* Every request is answered in the end: selection, last-resort search and
\* failover terminate while accounts come and go (run, next_account).
RequestAnswered ==
    \A r \in Requests : req[r].at # "idle" ~> req[r].at = "done"

\* A disable does not hold the data plane paused for ever: what it waits for
\* ends, a client that went away included (InflightGuard).
PauseEnds == Paused ~> ~Paused
=============================================================================
