--------------------------- MODULE InferxRequests ---------------------------
(***************************************************************************)
(* The InferX request endpoint (src/routes_inferx.rs): the handlers        *)
(* that admit, fence and read a request ID, the detached task that runs    *)
(* its one generation and saves the receipt, and the two connection        *)
(* handlers that share the connection's lock with it (recheck and          *)
(* disconnect).                                                            *)
(*                                                                         *)
(* A handler is a future: a client that goes away drops it at any await.   *)
(* Its database work is a closure handed to a blocking thread (store::run),*)
(* one transaction, which still runs when the future that awaits it is     *)
(* gone.  Both facts are modelled: pc "waiting" is a live handler whose    *)
(* closure has not run, "orphan" is a closure whose handler was dropped,   *)
(* "ready" is a live handler whose closure has committed and which has not *)
(* been polled again yet.                                                  *)
(***************************************************************************)
EXTENDS Naturals, FiniteSets

CONSTANTS
    Calls,          \* handler invocations that can be in progress together
    Requests,       \* request IDs
    Connections,    \* connection IDs
    Owners,         \* sellers
    Bodies,         \* distinct request bodies
    None,           \* no credential, owner, argument or request hash
    MayCancel,      \* whether clients may disconnect in this instance
    MaxCrashes,     \* bound: process deaths
    MaxStoreErrors, \* bound: transactions that fail and roll back
    MaxRotations    \* bound: refresh-token rotations per connection

ASSUME InferxAssumption ==
    /\ MayCancel \in BOOLEAN
    /\ MaxCrashes \in Nat
    /\ MaxStoreErrors \in Nat
    /\ MaxRotations \in Nat
    /\ None \notin Nat
    /\ None \notin Owners \cup Connections \cup Requests \cup Bodies
    /\ None \notin Connections \X Owners \X Bodies

VARIABLES
    receipt,      \* receipt[r]: the durable row of r (inferx_requests)
    connection,   \* connection[c]: the durable row of c (inferx_connections)
    cooling,      \* connections whose persisted recheck cooldown runs
    locked,       \* connections whose connection_lock is held
    call,         \* call[p]: the handler in slot p, or its orphaned closure
    task,         \* task[r]: the detached execution of r
    check,        \* check[c]: the detached recheck of c
    generations,  \* history: generations sent upstream for r
    issued,       \* upstream: version of the refresh token it now accepts for c
    lost,         \* history: connections whose newest token died unsaved
    told,         \* history: <<r, owner, status>> answered to the backend
    crashes, storeErrors

vars == <<receipt, connection, cooling, locked, call, task, check,
          generations, issued, lost, told, crashes, storeErrors>>

durable == <<receipt, connection, cooling>>

Running == "running"
Settled == {"succeeded", "failed", "indeterminate"}
Statuses == {"absent", Running} \cup Settled

(* The request hash covers connection, owner and body; a fence stores ''. *)
Hash(c, o, b) == <<c, o, b>>
FenceHash == None
NoReceipt == [status |-> "absent", owner |-> None, hash |-> FenceHash]

NoTask == [pc |-> "none", connection |-> None, credential |-> None, outcome |-> "failed"]
NoCheck == [running |-> FALSE, credential |-> None]
Idle == [pc |-> "idle", op |-> "get", request |-> None, connection |-> None,
         owner |-> None, body |-> None, answer |-> "none", credential |-> None]

Init ==
    /\ receipt = [r \in Requests |-> NoReceipt]
    /\ connection \in [Connections ->
            {[status |-> "registered", owner |-> o, credential |-> 0] : o \in Owners}]
    /\ cooling = {}
    /\ locked = {}
    /\ call = [p \in Calls |-> Idle]
    /\ task = [r \in Requests |-> NoTask]
    /\ check = [c \in Connections |-> NoCheck]
    /\ generations = [r \in Requests |-> 0]
    /\ issued = [c \in Connections |-> 0]
    /\ lost = {}
    /\ told = {}
    /\ crashes = 0
    /\ storeErrors = 0

------------------------------------------------------------------------------
(* Handlers arriving.  post_request, recheck_connection and                *)
(* delete_connection queue on the connection's lock; fence_request and     *)
(* get_request take no lock and hand their closure over at once.           *)

Locking == {"post", "recheck", "disconnect"}

Begin(p, c) ==
    /\ call[p].pc = "idle"
    /\ call' = [call EXCEPT ![p] = c]
    /\ UNCHANGED <<durable, locked, task, check, generations, issued, lost, told,
                   crashes, storeErrors>>

PostRequest(p) ==
    \E r \in Requests, c \in Connections, o \in Owners, b \in Bodies :
        Begin(p, [Idle EXCEPT !.pc = "locking", !.op = "post", !.request = r,
                              !.connection = c, !.owner = o, !.body = b])

DeleteConnection(p) ==
    \E c \in Connections, o \in Owners :
        Begin(p, [Idle EXCEPT !.pc = "locking", !.op = "disconnect",
                              !.connection = c, !.owner = o])

(* Ownership is checked before waiting on another owner's long request. *)
RecheckConnection(p) ==
    \E c \in Connections :
        Begin(p, [Idle EXCEPT !.pc = "locking", !.op = "recheck", !.connection = c,
                              !.owner = connection[c].owner])

FenceRequest(p) ==
    \E r \in Requests, o \in Owners :
        Begin(p, [Idle EXCEPT !.pc = "waiting", !.op = "fence", !.request = r, !.owner = o])

GetRequest(p) ==
    \E r \in Requests, o \in Owners :
        Begin(p, [Idle EXCEPT !.pc = "waiting", !.op = "get", !.request = r, !.owner = o])

(* The lock is granted and the handler submits its closure with no await between. *)
Acquire(p) ==
    /\ call[p].pc = "locking"
    /\ call[p].connection \notin locked
    /\ locked' = locked \cup {call[p].connection}
    /\ call' = [call EXCEPT ![p].pc = "waiting"]
    /\ UNCHANGED <<durable, task, check, generations, issued, lost, told, crashes, storeErrors>>

(* What the handler in slot p releases when it returns or is dropped: its  *)
(* guard, if it holds one.                                                 *)
HoldsLock(p) == call[p].op \in Locking /\ call[p].pc \in {"waiting", "ready"}
Mutant_UnlockedOnReturnOnly(p) ==
    IF HoldsLock(p) /\ call[p].pc = "ready" THEN locked \ {call[p].connection} ELSE locked
Unlocked(p) == IF HoldsLock(p) THEN locked \ {call[p].connection} ELSE locked

(* The client disconnects: the future is dropped and its guard released,   *)
(* but a closure already handed to the blocking pool stays there.          *)
Cancel(p) ==
    /\ MayCancel
    /\ call[p].pc \in {"locking", "waiting", "ready"}
    /\ locked' = Unlocked(p)
    /\ call' = [call EXCEPT ![p] =
            IF call[p].pc = "waiting" THEN [@ EXCEPT !.pc = "orphan"] ELSE Idle]
    /\ UNCHANGED <<durable, task, check, generations, issued, lost, told, crashes, storeErrors>>

------------------------------------------------------------------------------
(* The closures: one transaction each, run by a blocking thread whether or *)
(* not the handler still waits for it.                                     *)

(* The closure is done: a live handler has its answer, a dropped one does not. *)
Answer(p, a, credential) ==
    call' = [call EXCEPT ![p] =
        IF @.pc = "waiting"
        THEN [@ EXCEPT !.pc = "ready", !.answer = a, !.credential = credential]
        ELSE Idle]

(* What a handler that finds the row answers: another owner's row does not exist. *)
ReceiptAnswer(row, o) == IF row.owner = o THEN row.status ELSE "notFound"

Serving(c, o) ==
    /\ connection[c].status = "registered"
    /\ connection[c].owner = o
    /\ connection[c].credential # None

(* No row: the only IDs that may still be admitted. *)
Mutant_UnknownOrLost(r) == receipt[r].status \in {"absent", "indeterminate"}
Unknown(r) == receipt[r].status = "absent"

AdmitKnown(p, r, h) ==
    /\ ~Unknown(r)
    /\ Answer(p, IF receipt[r].owner = call[p].owner /\ receipt[r].hash # h
                 THEN "conflict"
                 ELSE ReceiptAnswer(receipt[r], call[p].owner), None)
    /\ UNCHANGED durable

AdmitRefused(p, r, c) ==
    /\ Unknown(r)
    /\ \/ ~Serving(c, call[p].owner) /\ Answer(p, "notFound", None)
       \/ Serving(c, call[p].owner) /\ Answer(p, "unsupportedModel", None)
    /\ UNCHANGED durable

AdmitNew(p, r, c, h) ==
    /\ Unknown(r)
    /\ Serving(c, call[p].owner)
    /\ receipt' = [receipt EXCEPT ![r] =
            [status |-> Running, owner |-> call[p].owner, hash |-> h]]
    /\ Answer(p, "admitted", connection[c].credential)
    /\ UNCHANGED <<connection, cooling>>

AdmitClosure(p) ==
    LET r == call[p].request
        c == call[p].connection
        h == Hash(c, call[p].owner, call[p].body)
    IN  /\ call[p].op = "post"
        /\ AdmitKnown(p, r, h) \/ AdmitRefused(p, r, c) \/ AdmitNew(p, r, c, h)

(* INSERT ... ON CONFLICT DO NOTHING, then the authoritative receipt. *)
Tombstone(o) == [status |-> "failed", owner |-> o, hash |-> FenceHash]
Mutant_FenceReplaces(row, o) == Tombstone(o)
Mutant_FenceStatus(row, o) ==
    IF row.status = "absent" THEN [Tombstone(o) EXCEPT !.status = "fenced"] ELSE row
Fenced(row, o) == IF row.status = "absent" THEN Tombstone(o) ELSE row

FenceClosure(p) ==
    LET r == call[p].request
        o == call[p].owner
    IN  /\ call[p].op = "fence"
        /\ receipt' = [receipt EXCEPT ![r] = Fenced(@, o)]
        /\ Answer(p, ReceiptAnswer(Fenced(receipt[r], o), o), None)
        /\ UNCHANGED <<connection, cooling>>

GetClosure(p) ==
    /\ call[p].op = "get"
    /\ Answer(p, ReceiptAnswer(receipt[call[p].request], call[p].owner), None)
    /\ UNCHANGED durable

DisconnectClosure(p) ==
    LET c == call[p].connection
    IN  /\ call[p].op = "disconnect"
        /\ IF connection[c].owner = call[p].owner
           THEN /\ connection' = [connection EXCEPT
                        ![c].status = "disconnected", ![c].credential = None]
                /\ cooling' = cooling \ {c}
                /\ Answer(p, "ok", None)
           ELSE Answer(p, "notFound", None) /\ UNCHANGED <<connection, cooling>>
        /\ UNCHANGED receipt

(* The cooldown is claimed before the upstream check starts. *)
ClaimClosure(p) ==
    LET c == call[p].connection
    IN  /\ call[p].op = "recheck"
        /\ IF connection[c].status = "registered" /\ c \notin cooling
           THEN /\ cooling' = cooling \cup {c}
                /\ Answer(p, "claimed", connection[c].credential)
           ELSE Answer(p, "ok", None) /\ UNCHANGED cooling
        /\ UNCHANGED <<receipt, connection>>

RunClosure(p) ==
    /\ call[p].pc \in {"waiting", "orphan"}
    /\ \/ AdmitClosure(p)
       \/ FenceClosure(p)
       \/ GetClosure(p)
       \/ DisconnectClosure(p)
       \/ ClaimClosure(p)
    /\ UNCHANGED <<locked, task, check, generations, issued, lost, told, crashes, storeErrors>>

(* The transaction fails and is rolled back: the handler answers 500. *)
ClosureFails(p) ==
    /\ call[p].pc \in {"waiting", "orphan"}
    /\ storeErrors < MaxStoreErrors
    /\ storeErrors' = storeErrors + 1
    /\ Answer(p, "error", None)
    /\ UNCHANGED <<durable, locked, task, check, generations, issued, lost, told, crashes>>

------------------------------------------------------------------------------
(* The handler is polled again.  An admitted request and a claimed recheck *)
(* move the lock's guard into the detached task they spawn; every other    *)
(* answer releases it.                                                     *)
Detaches(a) == a \in {"admitted", "claimed"}

Resume(p) ==
    LET r == call[p].request
        c == call[p].connection
        a == call[p].answer
    IN  /\ call[p].pc = "ready"
        /\ call' = [call EXCEPT ![p] = Idle]
        /\ task' = IF a = "admitted"
                   THEN [task EXCEPT ![r] = [NoTask EXCEPT !.pc = "ready", !.connection = c,
                                                !.credential = call[p].credential]]
                   ELSE task
        /\ check' = IF a = "claimed"
                    THEN [check EXCEPT ![c] = [running |-> TRUE,
                                               credential |-> call[p].credential]]
                    ELSE check
        /\ locked' = IF Detaches(a) THEN locked ELSE Unlocked(p)
        /\ told' = IF a \in Statuses
                   THEN told \cup {<<r, call[p].owner, a>>} ELSE told
        /\ UNCHANGED <<durable, generations, issued, lost, crashes, storeErrors>>

------------------------------------------------------------------------------
(* The detached execution of an admitted request.                          *)

(* A refresh rotates the seller's single-use refresh token, before the     *)
(* generation or after it was refused with 403; upstream rejects any       *)
(* version but the newest.  The answer that carries the new version may be *)
(* lost: the deadline drops the future, or the connection breaks.          *)
TaskRefresh(r, received) ==
    LET c == task[r].connection
    IN  /\ task[r].pc \in {"ready", "sent"}
        /\ task[r].credential = issued[c]
        /\ issued[c] < MaxRotations
        /\ issued' = [issued EXCEPT ![c] = @ + 1]
        /\ IF received
           THEN task' = [task EXCEPT ![r].credential = @ + 1] /\ UNCHANGED lost
           ELSE lost' = lost \cup {c} /\ UNCHANGED task
        /\ UNCHANGED <<durable, locked, call, check, generations, told, crashes, storeErrors>>

(* Transport::generate_once: one proxy, one endpoint, no replay. *)
TaskDispatch(r) ==
    /\ task[r].pc = "ready"
    /\ task' = [task EXCEPT ![r].pc = "sent"]
    /\ generations' = [generations EXCEPT ![r] = @ + 1]
    /\ UNCHANGED <<durable, locked, call, check, issued, lost, told, crashes, storeErrors>>

(* The generation ends, fails at any stage or reaches INFERENCE_TIMEOUT. *)
Mutant_TaskEndForgetsRotation(r, outcome) ==
    /\ task[r].pc \in {"ready", "sent"}
    /\ outcome = "succeeded" => task[r].pc = "sent"
    /\ task' = [task EXCEPT ![r].pc = "done", ![r].outcome = outcome,
            ![r].credential = IF outcome = "failed"
                              THEN connection[task[r].connection].credential ELSE @]
    /\ UNCHANGED <<durable, locked, call, check, generations, issued, lost, told,
                   crashes, storeErrors>>
TaskEnd(r, outcome) ==
    /\ task[r].pc \in {"ready", "sent"}
    /\ outcome = "succeeded" => task[r].pc = "sent"
    /\ task' = [task EXCEPT ![r].pc = "done", ![r].outcome = outcome]
    /\ UNCHANGED <<durable, locked, call, check, generations, issued, lost, told,
                   crashes, storeErrors>>

(* UPDATE ... WHERE owner_id=? AND status='registered'. *)
Storable(row, o) == row.status = "registered" /\ row.owner = o
Store(c, o, credential) ==
    connection' = [connection EXCEPT ![c] =
        IF Storable(@, o) THEN [@ EXCEPT !.credential = credential] ELSE @]

(* UPDATE ... WHERE status='running'. *)
Mutant_SettledOnSuccess(status, outcome) ==
    IF status = Running /\ outcome = "succeeded" THEN outcome ELSE status
SettledStatus(status, outcome) == IF status = Running THEN outcome ELSE status

(* One transaction settles the receipt and keeps the rotated credential. *)
TaskSave(r) ==
    LET c == task[r].connection
        o == receipt[r].owner
    IN  /\ task[r].pc = "done"
        /\ receipt' = [receipt EXCEPT ![r].status = SettledStatus(@, task[r].outcome)]
        /\ Store(c, o, task[r].credential)
        /\ told' = told \cup {<<r, o, SettledStatus(receipt[r].status, task[r].outcome)>>}
        /\ locked' = locked \ {c}
        /\ task' = [task EXCEPT ![r] = NoTask]
        /\ UNCHANGED <<cooling, call, check, generations, issued, lost, crashes, storeErrors>>

(* The transaction fails: nothing is saved and the task is over. *)
TaskSaveFails(r) ==
    LET c == task[r].connection
    IN  /\ task[r].pc = "done"
        /\ storeErrors < MaxStoreErrors
        /\ storeErrors' = storeErrors + 1
        /\ lost' = IF task[r].credential # connection[c].credential
                   THEN lost \cup {c} ELSE lost
        /\ locked' = locked \ {c}
        /\ task' = [task EXCEPT ![r] = NoTask]
        /\ UNCHANGED <<durable, call, check, generations, issued, told, crashes>>

------------------------------------------------------------------------------
(* The detached recheck: no generation, but it may rotate the credential.  *)

CheckRefresh(c, received) ==
    /\ check[c].running
    /\ check[c].credential = issued[c]
    /\ issued[c] < MaxRotations
    /\ issued' = [issued EXCEPT ![c] = @ + 1]
    /\ IF received
       THEN check' = [check EXCEPT ![c].credential = @ + 1] /\ UNCHANGED lost
       ELSE lost' = lost \cup {c} /\ UNCHANGED check
    /\ UNCHANGED <<durable, locked, call, task, generations, told, crashes, storeErrors>>

CheckSave(c) ==
    /\ check[c].running
    /\ Store(c, connection[c].owner, check[c].credential)
    /\ cooling' = IF connection[c].status = "registered" THEN cooling \cup {c} ELSE cooling
    /\ locked' = locked \ {c}
    /\ check' = [check EXCEPT ![c] = NoCheck]
    /\ UNCHANGED <<receipt, call, task, generations, issued, lost, told, crashes, storeErrors>>

CheckSaveFails(c) ==
    /\ check[c].running
    /\ storeErrors < MaxStoreErrors
    /\ storeErrors' = storeErrors + 1
    /\ lost' = IF check[c].credential # connection[c].credential
               THEN lost \cup {c} ELSE lost
    /\ locked' = locked \ {c}
    /\ check' = [check EXCEPT ![c] = NoCheck]
    /\ UNCHANGED <<durable, call, task, generations, issued, told, crashes>>

(* next_recheck_at passes. *)
CoolDown(c) ==
    /\ c \in cooling
    /\ cooling' = cooling \ {c}
    /\ UNCHANGED <<receipt, connection, locked, call, task, check, generations, issued,
                   lost, told, crashes, storeErrors>>

------------------------------------------------------------------------------
(* The process dies and a new one runs store::initialize before it serves. *)
Mutant_Forgotten(row) == IF row.status = Running THEN NoReceipt ELSE row
Mutant_SealedFailures(row) ==
    IF row.status \in {Running, "failed"} THEN [row EXCEPT !.status = "indeterminate"] ELSE row
Sealed(row) ==
    IF row.status = Running THEN [row EXCEPT !.status = "indeterminate"] ELSE row

Restart ==
    /\ crashes < MaxCrashes
    /\ crashes' = crashes + 1
    /\ receipt' = [r \in Requests |-> Sealed(receipt[r])]
    /\ locked' = {}
    /\ call' = [p \in Calls |-> Idle]
    /\ task' = [r \in Requests |-> NoTask]
    /\ check' = [c \in Connections |-> NoCheck]
    /\ lost' = lost \cup {c \in Connections : connection[c].credential # issued[c]}
    /\ UNCHANGED <<connection, cooling, generations, issued, told, storeErrors>>

CallStep(p) ==
    \/ PostRequest(p)
    \/ DeleteConnection(p)
    \/ RecheckConnection(p)
    \/ FenceRequest(p)
    \/ GetRequest(p)
    \/ Acquire(p)
    \/ Cancel(p)
    \/ RunClosure(p)
    \/ ClosureFails(p)
    \/ Resume(p)

TaskStep(r) ==
    \/ \E received \in BOOLEAN : TaskRefresh(r, received)
    \/ TaskDispatch(r)
    \/ \E outcome \in {"succeeded", "failed"} : TaskEnd(r, outcome)
    \/ TaskSave(r)
    \/ TaskSaveFails(r)

CheckStep(c) ==
    \/ \E received \in BOOLEAN : CheckRefresh(c, received)
    \/ CheckSave(c)
    \/ CheckSaveFails(c)
    \/ CoolDown(c)

Next ==
    \/ Restart
    \/ \E p \in Calls : CallStep(p)
    \/ \E r \in Requests : TaskStep(r)
    \/ \E c \in Connections : CheckStep(c)

Spec == Init /\ [][Next]_vars

(* Blocking threads run what they are given, the runtime polls woken       *)
(* handlers and tasks, INFERENCE_TIMEOUT ends every generation, a recheck  *)
(* is bounded by RECHECK_TIMEOUT.  Clients, crashes and store errors are   *)
(* not obliged to happen.  The lock is FIFO, hence strong fairness.        *)
Fairness ==
    /\ \A p \in Calls : /\ WF_vars(RunClosure(p))
                         /\ WF_vars(Resume(p))
                         /\ SF_vars(Acquire(p))
    /\ \A r \in Requests : /\ WF_vars(TaskEnd(r, "failed"))
                            /\ WF_vars(TaskSave(r))
    /\ \A c \in Connections : WF_vars(CheckSave(c))

FairSpec == Spec /\ Fairness

------------------------------------------------------------------------------
(* Type invariant of the rows, the lock table, the handlers in progress    *)
(* and the detached tasks.                                                 *)
Credentials == {None} \cup 0..MaxRotations
Answers == {"none", "ok", "error", "notFound", "conflict", "unsupportedModel",
            "admitted", "claimed"} \cup Statuses
Hashes == {FenceHash} \cup (Connections \X Owners \X Bodies)

Receipts == [status : Statuses, owner : Owners \cup {None}, hash : Hashes]
ConnectionRows == [status : {"registered", "disconnected"}, owner : Owners,
                   credential : Credentials]
Handlers == [pc : {"idle", "locking", "waiting", "orphan", "ready"},
             op : Locking \cup {"get", "fence"},
             request : Requests \cup {None}, connection : Connections \cup {None},
             owner : Owners \cup {None}, body : Bodies \cup {None},
             answer : Answers, credential : Credentials]
Tasks == [pc : {"none", "ready", "sent", "done"}, connection : Connections \cup {None},
          credential : Credentials, outcome : {"succeeded", "failed"}]
Checks == [running : BOOLEAN, credential : Credentials]

TypeOK ==
    /\ receipt \in [Requests -> Receipts]
    /\ connection \in [Connections -> ConnectionRows]
    /\ cooling \subseteq Connections
    /\ locked \subseteq Connections
    /\ call \in [Calls -> Handlers]
    /\ task \in [Requests -> Tasks]
    /\ check \in [Connections -> Checks]
    /\ generations \in [Requests -> Nat]
    /\ issued \in [Connections -> 0..MaxRotations]
    /\ lost \subseteq Connections
    /\ told \subseteq Requests \X Owners \X Statuses
    /\ crashes \in 0..MaxCrashes
    /\ storeErrors \in 0..MaxStoreErrors

(* A request ID sends at most one generation upstream, whatever is         *)
(* retried, cancelled, fenced or restarted around it.                      *)
AtMostOneGeneration == \A r \in Requests : generations[r] <= 1

(* A fence that answered "failed" stays true: the ID it sealed never       *)
(* generates, so the backend may release the hold it had reserved.         *)
FencedNeverGenerates ==
    \A r \in Requests :
        receipt[r].status = "failed" /\ receipt[r].hash = FenceHash => generations[r] = 0

(* A settled receipt answered once to the backend is what every later      *)
(* reader finds, across retries and restarts.                              *)
ToldSettledStays ==
    \A t \in told : t[3] \in Settled => receipt[t[1]].status = t[3]

(* Whatever order posts, fences and reads of one ID come in, its status is *)
(* only ever told to the seller that owns the row.                         *)
ToldOnlyToOwner == \A t \in told : receipt[t[1]].owner = t[2]

(* What a seller was told of a request stays true, and was his to know.    *)
Told == ToldSettledStays /\ ToldOnlyToOwner

(* The handlers and detached tasks that work on a connection exclude each  *)
(* other, from admission to the save, across the hand-over of the guard.   *)
Holders(c) ==
    {<<"call", p>> : p \in {q \in Calls : HoldsLock(q) /\ call[q].connection = c}}
    \cup {<<"task", r>> : r \in {q \in Requests : task[q].pc # "none" /\ task[q].connection = c}}
    \cup (IF check[c].running THEN {<<"check", c>>} ELSE {})

LockExclusive ==
    \A c \in Connections : Cardinality(Holders(c)) = (IF c \in locked THEN 1 ELSE 0)

(* Outside an operation, a registered connection's row holds the newest    *)
(* refresh token upstream issued, unless its answer was lost, its save     *)
(* failed or the process died before it.                                   *)
RotationKept ==
    \A c \in Connections :
        connection[c].status = "registered" /\ c \notin locked /\ c \notin lost
            => connection[c].credential = issued[c]

(* A disconnected row never holds a credential again, even when the erase  *)
(* ran from a dropped handler while a task still had one to save.          *)
DisconnectErases ==
    \A c \in Connections :
        connection[c].status = "disconnected" => connection[c].credential = None

(* The lock of a connection does what it is for: its holders exclude each  *)
(* other, and no credential is lost to or revived by one of them.          *)
LockProtects == LockExclusive /\ RotationKept /\ DisconnectErases

(* The endpoint keeps the promise the abstract ledger states.              *)
Ledger == INSTANCE RequestLedger WITH
    status <- [r \in Requests |-> receipt[r].status],
    dispatched <- {r \in Requests : generations[r] > 0}
LedgerSpec == Ledger!Spec

(* An execution that started settles its receipt, with no one waiting for  *)
(* it: its client may be gone.  Stated of instances whose transactions do  *)
(* not fail: after TaskSaveFails only the next start seals the receipt.    *)
StartedSettles ==
    \A r \in Requests : task[r].pc # "none" ~> receipt[r].status \in Settled

(* A handler waiting for a connection's lock is served or dropped: no      *)
(* operation keeps the lock for ever.                                      *)
WaiterEnds == \A p \in Calls : call[p].pc = "locking" ~> call[p].pc = "idle"

(* What README.md:349 says of a client that goes away: execution and       *)
(* receipt persistence continue.  While the process lives and the database *)
(* answers, a running receipt has someone to execute it.                   *)
RunningIsExecuted ==
    \A r \in Requests :
        receipt[r].status = Running =>
            \/ task[r].pc # "none"
            \/ \E p \in Calls : /\ call[p].pc = "ready"
                                 /\ call[p].answer = "admitted"
                                 /\ call[p].request = r
==============================================================================
