------------------------- MODULE InferxConnections -------------------------
(***************************************************************************)
(* The seller connections of InferX (routes_inferx.rs): put, poll, get,    *)
(* import and delete, over the table of device flows of DeviceLogin.       *)
(*                                                                         *)
(* Each handler holds the connection's lock and works through closures on  *)
(* a blocking thread.  A client that leaves drops the future at any await: *)
(* the lock is free at once, a closure already handed over still runs.     *)
(* A verification may rotate the single-use refresh token, after which the *)
(* flow's own copy is stale, though its access token still serves.         *)
(* A behaviour has one consumer of the table: InferX needs a dedicated     *)
(* instance without dashboard accounts.                                    *)
(***************************************************************************)
EXTENDS DeviceLogin

CONSTANTS
    Conns,        \* connection identifiers
    Users,        \* upstream identities
    Imported,     \* the credential document offered for import
    Identities,   \* whose the logins may be: functions from flows and document to identities
    MaxRotations  \* bound: rotations of one refresh token

ASSUME ConnectionsAssumption ==
    /\ None \notin Conns \cup Users
    /\ Imported \notin Flows \cup {None}
    /\ Identities \subseteq [Flows \cup {Imported} -> Users]
    /\ MaxRotations \in Nat

VARIABLES
    consumer,  \* "dashboard" or "inferx"
    row,       \* row[i]: the row of inferx_connections
    lock,      \* lock[i]: the call that holds connection_lock(i), or None
    rdue,      \* rdue[i]: next_poll_at has passed
    who,       \* who[t]: the upstream identity behind login t
    current,   \* current[t]: the token generation the host accepts
    adrift     \* history: connections whose login's newest token was lost: see CredentialFresh

ivars == <<consumer, row, lock, rdue, who, current, adrift>>
vars == <<dvars, call, budget, ivars>>

Logins == Flows \cup {Imported}
NoRow == [status |-> "none", flow |-> None, cred |-> None, gen |-> 0, user |-> None]

Init ==
    /\ DeviceInit
    /\ consumer \in {"dashboard", "inferx"}
    /\ consumer = "inferx" => kind # "idc"
    /\ row = [i \in Conns |-> NoRow]
    /\ lock = [i \in Conns |-> None]
    /\ rdue = [i \in Conns |-> FALSE]
    /\ who \in Identities
    /\ current = [t \in Logins |-> 0]
    /\ adrift = {}

----------------------------------------------------------------------------
(* The frame of a handler.                                                 *)

\* next_poll_at passes.
RowDue(i) ==
    /\ row[i].status = "pending" /\ row[i].flow # None /\ ~rdue[i]
    /\ rdue' = [rdue EXCEPT ![i] = TRUE]
    /\ UNCHANGED <<dvars, call, budget, consumer, row, lock, who, current, adrift>>

Arrive(c) ==
    /\ budget > 0
    /\ call[c].pc = "idle"
    /\ budget' = budget - 1
    /\ \E op \in {"put", "poll", "get", "delete", "import"}, i \in Conns :
        call' = [call EXCEPT ![c] = [Idle EXCEPT !.op = op, !.row = i, !.pc = "locking"]]
    /\ UNCHANGED <<dvars, ivars>>

Acquire(c) ==
    LET i == call[c].row
        first == CASE call[c].op = "put" -> "reserve"
                   [] call[c].op = "delete" -> "delete"
                   [] OTHER -> "read"
    IN  /\ call[c].pc = "locking" /\ lock[i] = None
        /\ lock' = [lock EXCEPT ![i] = c]
        /\ Go(c, first)
        /\ UNCHANGED <<dvars, budget, consumer, row, rdue, who, current, adrift>>

\* The guard releases the lock when the future ends, however it ends.
Unlocked(c) == [i \in Conns |-> IF lock[i] = c THEN None ELSE lock[i]]
Return(c) == Finish(c) /\ lock' = Unlocked(c)

\* The closures, each one transaction.
Closures == {"reserve", "save", "read", "claim", "update", "register", "settle", "delete", "insert"}

\* A closure commits: its handler goes on, unless it is gone.
Done(c, next) ==
    call' = [call EXCEPT ![c] = IF call[c].alive THEN next ELSE Idle]

\* The newest token of the login of a poll is lost.
Lost(c) == IF call[c].op = "poll" THEN adrift \cup {call[c].row} ELSE adrift
\* What a rotation left is gone with the verification that held it, or rides in a closure
\* that nobody waits for.
Left(c) ==
    IF \/ call[c].pc = "verified" /\ call[c].gen > 0
       \/ call[c].pc = "register"
    THEN Lost(c) ELSE adrift

\* The client leaves.  A poll gives its mark back, the lock is free.
Drop(c) ==
    /\ call[c].op \in {"put", "poll", "get", "delete", "import"}
    /\ call[c].alive
    /\ lock' = Unlocked(c)
    /\ IF call[c].pc \in InPoll THEN DropPoll(c) ELSE UNCHANGED <<flow, spent>>
    /\ call' = [call EXCEPT ![c] = IF call[c].pc \in Closures THEN [@ EXCEPT !.alive = FALSE] ELSE Idle]
    /\ adrift' = Left(c)
    /\ UNCHANGED <<kind, phase, host, entries, gate, budget, consumer, row, rdue, who, current>>

Expired(r) ==
    /\ r.status = "pending"
    /\ r.flow = None \/ ~InTable(r.flow) \/ ~flow[r.flow].fresh

\* owned and read_row: the handler goes on with what it read.
Read(c) ==
    /\ call[c].pc = "read"
    /\ Done(c, [call[c] EXCEPT !.pc = "decide", !.seen = row[call[c].row]])
    /\ UNCHANGED <<dvars, budget, ivars>>

----------------------------------------------------------------------------
(* set_status: expire and fail.                                            *)

\* Mutant: the status is set whatever the row has become.
Mutant_SetsAny(r, s) == [r EXCEPT !.status = s, !.flow = None, !.cred = None]
\* Only a pending row is settled.
SetStatus(r, s) ==
    IF r.status = "pending" THEN [r EXCEPT !.status = s, !.flow = None, !.cred = None] ELSE r
Settle(c) ==
    LET i == call[c].row IN
    /\ call[c].pc = "settle"
    /\ row' = [row EXCEPT ![i] = SetStatus(@, call[c].ans)]
    /\ Done(c, [call[c] EXCEPT !.pc = "settled", !.f = row[i].flow])
    /\ UNCHANGED <<dvars, budget, consumer, lock, rdue, who, current, adrift>>
Settled(c) ==
    /\ call[c].pc = "settled"
    /\ phase' = IF call[c].f = None THEN phase ELSE Discarded(call[c].f)
    /\ Return(c)
    /\ UNCHANGED <<kind, flow, host, entries, gate, spent, budget, consumer,
                   row, rdue, who, current, adrift>>

SettleAs(c, s) ==
    /\ call' = [call EXCEPT ![c].pc = "settle", ![c].ans = s]
    /\ UNCHANGED lock

----------------------------------------------------------------------------
(* put_connection.                                                         *)

Reserve(c) ==
    LET i == call[c].row
        r == IF row[i].status = "none" THEN [NoRow EXCEPT !.status = "pending"] ELSE row[i]
    IN  /\ call[c].pc = "reserve"
        /\ row' = [row EXCEPT ![i] = r]
        /\ Done(c, [call[c] EXCEPT !.pc = "reserved", !.seen = r])
        /\ UNCHANGED <<dvars, budget, consumer, lock, rdue, who, current, adrift>>

PutDecides(c) ==
    LET r == call[c].seen IN
    /\ call[c].pc = "reserved"
    /\ CASE r.flow # None /\ Expired(r) -> SettleAs(c, "expired")
         [] r.flow # None \/ r.status # "pending" -> Return(c)
         [] OTHER -> Go(c, "starting") /\ UNCHANGED lock
    /\ UNCHANGED <<dvars, budget, consumer, row, rdue, who, current, adrift>>

\* device_login::start, which may fail and leaves the reservation.
StartFlow(c) ==
    /\ call[c].pc = "starting"
    /\ \/ \E f \in Flows, old \in SUBSET Flows :
            /\ Register(f, old)
            /\ call' = [call EXCEPT ![c].pc = "save", ![c].f = f]
            /\ UNCHANGED lock
       \/ Return(c) /\ UNCHANGED dvars
    /\ UNCHANGED <<budget, consumer, row, rdue, who, current, adrift>>

\* The flow goes to a row that is pending and has none.
SaveFlow(c) ==
    LET i == call[c].row
        free == row[i].status = "pending" /\ row[i].flow = None
        r == IF free THEN [row[i] EXCEPT !.flow = call[c].f] ELSE row[i]
    IN  /\ call[c].pc = "save"
        /\ row' = [row EXCEPT ![i] = r]
        /\ rdue' = IF free THEN [rdue EXCEPT ![i] = FALSE] ELSE rdue
        /\ Done(c, [call[c] EXCEPT !.pc = "saved", !.seen = r])
        /\ UNCHANGED <<dvars, budget, consumer, lock, who, current, adrift>>

PutEnds(c) ==
    /\ call[c].pc = "saved"
    /\ phase' = IF call[c].seen.status # "pending" THEN Discarded(call[c].f) ELSE phase
    /\ Return(c)
    /\ UNCHANGED <<kind, flow, host, entries, gate, spent, budget, consumer,
                   row, rdue, who, current, adrift>>

----------------------------------------------------------------------------
(* poll_connection, get_connection and delete_connection.                  *)

PollDecides(c) ==
    LET r == call[c].seen IN
    /\ call[c].pc = "decide" /\ call[c].op \in {"poll", "get"}
    /\ CASE Expired(r) -> SettleAs(c, "expired")
         [] call[c].op = "get" \/ r.status # "pending" \/ ~rdue[call[c].row] -> Return(c)
         [] OTHER -> /\ call' = [call EXCEPT ![c].pc = "claim", ![c].f = r.flow]
                     /\ UNCHANGED lock
    /\ UNCHANGED <<dvars, budget, consumer, row, rdue, who, current, adrift>>

\* The claim pushes next_poll_at a minute ahead, if the row is still pending and due.
Claim(c) ==
    LET i == call[c].row
        won == row[i].status = "pending" /\ rdue[i]
    IN  /\ call[c].pc = "claim"
        /\ rdue' = IF won THEN [rdue EXCEPT ![i] = FALSE] ELSE rdue
        /\ Done(c, [call[c] EXCEPT !.pc = IF won THEN "poll" ELSE "answer"])
        /\ UNCHANGED <<dvars, budget, consumer, row, lock, who, current, adrift>>

InferxPolled(c) ==
    LET s == call[c].seen.status IN
    /\ call[c].op = "poll" /\ call[c].pc \in {"polled", "unknown"}
    /\ CASE call[c].pc = "unknown" \/ s \in {"failed", "expired"} -> SettleAs(c, "expired")
         [] s = "pending" -> Go(c, "update") /\ UNCHANGED lock
         [] OTHER -> Go(c, "verify") /\ UNCHANGED lock
    /\ UNCHANGED <<dvars, budget, consumer, row, rdue, who, current, adrift>>

UpdateDue(c) ==
    /\ call[c].pc = "update"
    /\ rdue' = IF row[call[c].row].status = "pending"
               THEN [rdue EXCEPT ![call[c].row] = FALSE] ELSE rdue
    /\ Done(c, [call[c] EXCEPT !.pc = "answer"])
    /\ UNCHANGED <<dvars, budget, consumer, row, lock, who, current, adrift>>

\* Mutant: the row keeps the document the login gave, not what the verification left.
Mutant_Original(g) == 0
\* The document saved is the one KiroAuth holds after the verification.
AfterRotation(g) == g
\* The management calls of a verification start from the login's own document.  Its refresh
\* token may be rotated while the host accepts it, up to the generation h, and the answer
\* to the last rotation may be lost, which leaves the calls with g: the access token that
\* is cached still serves them, as it does when the document is no longer the newest.
Verify(c, t) ==
    \E g, h \in 0..MaxRotations :
        /\ g <= h /\ (h > 0 => current[t] = 0)
        /\ current' = [current EXCEPT ![t] = IF h > 0 THEN h ELSE @]
        /\ adrift' = IF g < h THEN Lost(c) ELSE adrift
        /\ call' = [call EXCEPT ![c].pc = "verified", ![c].f = t, ![c].gen = AfterRotation(g)]

VerifyPolled(c) ==
    /\ call[c].pc = "verify" /\ call[c].op = "poll"
    /\ Verify(c, call[c].f)
    /\ UNCHANGED <<dvars, budget, consumer, row, lock, rdue, who>>

\* The identity and the models are known, or a call was refused on the way.
PollVerified(c) ==
    /\ call[c].pc = "verified" /\ call[c].op = "poll"
    /\ \/ Go(c, "register") /\ UNCHANGED <<lock, adrift>>
       \/ SettleAs(c, "failed") /\ adrift' = Left(c)
    /\ UNCHANGED <<dvars, budget, consumer, row, rdue, who, current>>

\* register_in publishes only on a pending row.
MayRegister(i) == row[i].status = "pending"
\* What register_in asks, and what the table's unique index enforces on every write.
Conflict(i, u) == \E j \in Conns \ {i} : row[j].user = u
RegisterRow(c) ==
    LET i == call[c].row
        t == call[c].f
        ok == ~Conflict(i, who[t]) /\ MayRegister(i)
    IN  /\ call[c].pc = "register"
        /\ row' = IF ok
                  THEN [row EXCEPT ![i] = [status |-> "registered", flow |-> None, cred |-> t,
                                           gen |-> call[c].gen, user |-> who[t]]]
                  ELSE row
        /\ adrift' = IF ok \/ call[c].gen = 0 THEN adrift ELSE Lost(c)
        /\ Done(c, [call[c] EXCEPT !.pc = IF ok THEN "stored" ELSE "refused"])
        /\ UNCHANGED <<dvars, budget, consumer, lock, rdue, who, current>>

RegisterEnds(c) ==
    /\ call[c].pc \in {"stored", "refused"}
    /\ phase' = Discarded(call[c].f)
    /\ IF call[c].pc = "stored" THEN Return(c) ELSE SettleAs(c, "failed")
    /\ UNCHANGED <<kind, flow, host, entries, gate, spent, budget, consumer,
                   row, rdue, who, current, adrift>>

\* The closure discards the flow of the row it disconnects, or leaves a tombstone.
Delete(c) ==
    LET i == call[c].row IN
    /\ call[c].pc = "delete"
    /\ phase' = IF row[i].flow = None THEN phase ELSE Discarded(row[i].flow)
    /\ row' = [row EXCEPT ![i] = [NoRow EXCEPT !.status = "disconnected"]]
    /\ Done(c, [call[c] EXCEPT !.pc = "answer"])
    /\ UNCHANGED <<kind, flow, host, entries, gate, spent, budget, consumer,
                   lock, rdue, who, current, adrift>>

Answer(c) ==
    /\ call[c].pc = "answer"
    /\ Return(c)
    /\ UNCHANGED <<dvars, budget, consumer, row, rdue, who, current, adrift>>

----------------------------------------------------------------------------
(* import_connection.                                                      *)

ImportDecides(c) ==
    /\ call[c].pc = "decide" /\ call[c].op = "import"
    /\ IF call[c].seen.status = "none"
       THEN Go(c, "verify") /\ UNCHANGED lock
       ELSE Return(c)
    /\ UNCHANGED <<dvars, budget, consumer, row, rdue, who, current, adrift>>

VerifyImport(c) ==
    /\ call[c].pc = "verify" /\ call[c].op = "import"
    /\ Verify(c, Imported)
    /\ UNCHANGED <<dvars, budget, consumer, row, lock, rdue, who>>

ImportVerified(c) ==
    /\ call[c].pc = "verified" /\ call[c].op = "import"
    /\ \/ Go(c, "insert") /\ UNCHANGED <<lock, adrift>>
       \/ Return(c) /\ UNCHANGED adrift
    /\ UNCHANGED <<dvars, budget, consumer, row, rdue, who, current>>

\* The insert of an absent row; the identity is unique in the table.
Insert(c) ==
    LET i == call[c].row
        u == who[Imported]
        ok == row[i].status = "none" /\ ~Conflict(i, u)
    IN  /\ call[c].pc = "insert"
        /\ row' = IF ok
                  THEN [row EXCEPT ![i] = [status |-> "registered", flow |-> None,
                                           cred |-> Imported, gen |-> call[c].gen, user |-> u]]
                  ELSE row
        /\ Done(c, [call[c] EXCEPT !.pc = "answer"])
        /\ UNCHANGED <<dvars, budget, consumer, lock, rdue, who, current, adrift>>

----------------------------------------------------------------------------
InferxSteps(c) ==
    \/ Arrive(c) \/ Acquire(c) \/ Drop(c) \/ Read(c) \/ Settle(c) \/ Settled(c)
    \/ Reserve(c) \/ PutDecides(c) \/ StartFlow(c) \/ SaveFlow(c) \/ PutEnds(c)
    \/ PollDecides(c) \/ Claim(c) \/ InferxPolled(c) \/ UpdateDue(c)
    \/ VerifyPolled(c) \/ PollVerified(c) \/ RegisterRow(c) \/ RegisterEnds(c)
    \/ ImportDecides(c) \/ VerifyImport(c) \/ ImportVerified(c) \/ Insert(c)
    \/ Delete(c) \/ Answer(c)

Next ==
    \/ World /\ UNCHANGED ivars
    \/ \E i \in Conns : RowDue(i)
    \/ \E c \in Calls : PollStep(c) /\ UNCHANGED ivars
    \/ /\ consumer = "dashboard"
       /\ \E c \in Calls : (DashboardBegins(c) \/ DashboardSteps(c)) /\ UNCHANGED ivars
    \/ /\ consumer = "inferx"
       /\ \E c \in Calls : InferxSteps(c)

Spec == Init /\ [][Next]_vars

----------------------------------------------------------------------------
(* Properties.                                                             *)

Stages == {"idle", "poll", "polled", "unknown", "asking", "answered", "discovering",
           "registering", "initialising", "discarding", "locking", "decide", "reserved",
           "starting", "saved", "settled", "answer", "verify", "verified", "stored", "refused"} \cup Closures

\* The variables hold what their declarations say; a lock and the gate are held by calls
\* in progress, and only a pending row points to a flow.
TypeOK ==
    /\ kind \in Kinds
    /\ phase \in [Flows -> {"new", "in", "out"}]
    /\ host \in [Flows -> {"waiting", "authorized", "denied", "issued"}]
    /\ \A f \in Flows : flow[f].status \in {"pending", "selecting", "approved", "failed", "expired"}
    /\ \A c \in Calls : call[c].pc \in Stages
    /\ spent \subseteq Flows /\ adrift \subseteq Conns
    /\ gate # None => call[gate].pc = "initialising"
    /\ \A i \in Conns :
        /\ row[i].status \in {"none", "pending", "registered", "failed", "expired", "disconnected"}
        /\ row[i].flow # None => row[i].status = "pending"
        /\ lock[i] # None => call[lock[i]].row = i /\ call[lock[i]].alive /\ call[lock[i]].pc # "idle"

\* A disconnect is final: neither a closure whose handler is gone nor a poll that was
\* verifying revives the connection or puts a credential back.
DisconnectedStays ==
    [][\A i \in Conns : row[i].status = "disconnected" =>
            row'[i].status = "disconnected" /\ row'[i].cred = None]_row

\* Two connections never sell the same upstream identity, though each handler holds only
\* its own connection's lock.
OneSeller ==
    \A i, j \in Conns : i # j /\ row[i].status = "registered" /\ row[j].status = "registered" =>
        row[i].user # row[j].user

\* What a connection registered from its own login stores is the refresh token the host
\* accepts, though its verification rotated it.  The login's own document goes stale with
\* a rotation, so the exceptions are the connections that lost the newest token: with the
\* host's answer, with a verification that failed or was left after the rotation, with a
\* registration that was refused, or in one that outlived its handler and may land before
\* or after another's.  An imported document has no one owner: importing it twice lets the
\* second verification use up the token of the first.
CredentialFresh ==
    \A i \in Conns \ adrift :
        row[i].status = "registered" /\ row[i].cred \in Flows =>
            row[i].gen = current[row[i].cred]

\* What is on sale works, but for those exceptions, and is sold once, and the locks that
\* see to it are held by calls in progress.
SoldOnce == TypeOK /\ OneSeller /\ CredentialFresh

\* What was cancelled, registered or disconnected does not come back: no login flow to
\* its table, and no connection to sale.
GoneStaysGone == NotRevived /\ DisconnectedStays
=============================================================================
