------------------------ MODULE InferxRequestsProofs ------------------------
(***************************************************************************)
(* Proofs about InferxRequests, for every number of handlers, requests,    *)
(* connections, sellers and bodies and every bound.                        *)
(***************************************************************************)
EXTENDS InferxRequests, FiniteSetTheorems, TLAPS

(* A handler in progress carries the arguments its closure needs, and its  *)
(* answer is one its operation gives.                                      *)
CallShape ==
    \A p \in Calls :
        call[p].pc # "idle" =>
            /\ call[p].owner \in Owners
            /\ call[p].op \in {"post", "get", "fence"} => call[p].request \in Requests
            /\ call[p].op \in Locking => call[p].connection \in Connections
            /\ call[p].op = "post" => call[p].body \in Bodies
            /\ call[p].pc = "locking" => call[p].op \in Locking
            /\ call[p].answer \in Statuses => call[p].op \in {"post", "get", "fence"}
            /\ call[p].answer = "admitted" => call[p].op = "post"
            /\ call[p].answer = "claimed" => call[p].op = "recheck"

(* A row has an owner, a task has a row and a connection.                  *)
RowShape ==
    \A r \in Requests :
        /\ receipt[r].status # "absent" => receipt[r].owner \in Owners
        /\ task[r].pc # "none" =>
                task[r].connection \in Connections /\ receipt[r].status # "absent"

TypeInv == TypeOK /\ CallShape /\ RowShape

(* The types hold at the start. *)
LEMMA InitTypes == Init => TypeInv
  BY InferxAssumption
     DEF Init, TypeInv, TypeOK, CallShape, RowShape, Idle, NoReceipt, NoTask, NoCheck,
         Credentials, Answers, Statuses, Settled, Running, Hashes, FenceHash, Locking,
         Receipts, ConnectionRows, Handlers, Tasks, Checks

(* What a handler is when it arrives. *)
Arrived(c) ==
    /\ c \in [pc : {"locking", "waiting"}, op : Locking \cup {"get", "fence"},
              request : Requests \cup {None}, connection : Connections \cup {None},
              owner : Owners, body : Bodies \cup {None},
              answer : {"none"}, credential : {None}]
    /\ c.op \in {"post", "get", "fence"} => c.request \in Requests
    /\ c.op \in Locking => c.connection \in Connections
    /\ c.op = "post" => c.body \in Bodies
    /\ c.pc = "locking" => c.op \in Locking

(* A handler that arrives leaves a well-typed handler record. *)
LEMMA Arrivals ==
  ASSUME TypeInv, NEW p \in Calls,
         \/ PostRequest(p)
         \/ DeleteConnection(p)
         \/ RecheckConnection(p)
         \/ FenceRequest(p)
         \/ GetRequest(p)
  PROVE  \E c : Arrived(c) /\ Begin(p, c)
<1>1. CASE PostRequest(p)
  <2>1. PICK r \in Requests, c \in Connections, o \in Owners, b \in Bodies :
            Begin(p, [Idle EXCEPT !.pc = "locking", !.op = "post", !.request = r,
                                  !.connection = c, !.owner = o, !.body = b])
    BY <1>1 DEF PostRequest
  <2>2. Arrived([Idle EXCEPT !.pc = "locking", !.op = "post", !.request = r,
                             !.connection = c, !.owner = o, !.body = b])
    BY DEF Arrived, Idle, Locking
  <2> QED BY <2>1, <2>2
<1>2. CASE DeleteConnection(p)
  <2>1. PICK c \in Connections, o \in Owners :
            Begin(p, [Idle EXCEPT !.pc = "locking", !.op = "disconnect",
                                  !.connection = c, !.owner = o])
    BY <1>2 DEF DeleteConnection
  <2>2. Arrived([Idle EXCEPT !.pc = "locking", !.op = "disconnect",
                             !.connection = c, !.owner = o])
    BY DEF Arrived, Idle, Locking
  <2> QED BY <2>1, <2>2
<1>3. CASE RecheckConnection(p)
  <2>1. PICK c \in Connections :
            Begin(p, [Idle EXCEPT !.pc = "locking", !.op = "recheck", !.connection = c,
                                  !.owner = connection[c].owner])
    BY <1>3 DEF RecheckConnection
  <2>2. connection[c].owner \in Owners
    BY DEF TypeInv, TypeOK, ConnectionRows
  <2>3. Arrived([Idle EXCEPT !.pc = "locking", !.op = "recheck", !.connection = c,
                             !.owner = connection[c].owner])
    BY <2>2 DEF Arrived, Idle, Locking
  <2> QED BY <2>1, <2>3
<1>4. CASE FenceRequest(p)
  <2>1. PICK r \in Requests, o \in Owners :
            Begin(p, [Idle EXCEPT !.pc = "waiting", !.op = "fence",
                                  !.request = r, !.owner = o])
    BY <1>4 DEF FenceRequest
  <2>2. Arrived([Idle EXCEPT !.pc = "waiting", !.op = "fence",
                             !.request = r, !.owner = o])
    BY DEF Arrived, Idle, Locking
  <2> QED BY <2>1, <2>2
<1>5. CASE GetRequest(p)
  <2>1. PICK r \in Requests, o \in Owners :
            Begin(p, [Idle EXCEPT !.pc = "waiting", !.op = "get",
                                  !.request = r, !.owner = o])
    BY <1>5 DEF GetRequest
  <2>2. Arrived([Idle EXCEPT !.pc = "waiting", !.op = "get",
                             !.request = r, !.owner = o])
    BY DEF Arrived, Idle, Locking
  <2> QED BY <2>1, <2>2
<1> QED BY <1>1, <1>2, <1>3, <1>4, <1>5

(* Arriving keeps the types: only call changes. *)
LEMMA BeginTypes ==
  ASSUME TypeInv, NEW p \in Calls, NEW c, Arrived(c), Begin(p, c)
  PROVE  TypeInv'
<1>1. /\ UNCHANGED <<durable, locked, task, check, generations, issued, lost, told,
                     crashes, storeErrors>>
      /\ call' = [call EXCEPT ![p] = c]
  BY DEF Begin
<1>2. c \in Handlers
  BY DEF Arrived, Handlers, Answers, Credentials
<1>3. TypeOK'
  BY <1>1, <1>2 DEF TypeInv, TypeOK, durable
<1>4. CallShape'
  BY <1>1 DEF TypeInv, TypeOK, CallShape, Arrived, Statuses, Settled, Running
<1>5. RowShape'
  BY <1>1 DEF TypeInv, RowShape, durable
<1> QED BY <1>3, <1>4, <1>5 DEF TypeInv

(* The empty slot is a handler record. *)
LEMMA IdleHandler == Idle \in Handlers
  BY DEF Idle, Handlers, Answers, Credentials

(* So does the grant of a connection's lock. *)
LEMMA AcquireTypes ==
  ASSUME TypeInv, NEW p \in Calls, Acquire(p)
  PROVE  TypeInv'
<1>1. call[p].pc = "locking" /\ call[p] \in Handlers
  BY DEF Acquire, TypeInv, TypeOK
<1>2. [call[p] EXCEPT !.pc = "waiting"] \in Handlers
  BY <1>1 DEF Handlers
<1>3. call' = [call EXCEPT ![p] = [call[p] EXCEPT !.pc = "waiting"]]
  BY DEF Acquire, TypeInv, TypeOK
<1>4. locked' \subseteq Connections
  <2>1. call[p].op \in Locking => call[p].connection \in Connections
    BY <1>1 DEF TypeInv, CallShape
  <2>2. call[p].op \in Locking
    BY <1>1 DEF TypeInv, CallShape
  <2> QED BY <2>1, <2>2 DEF Acquire, TypeInv, TypeOK
<1>5. TypeOK'
  BY <1>2, <1>3, <1>4 DEF TypeInv, TypeOK, Acquire, durable
<1>6. CallShape'
  BY DEF TypeInv, TypeOK, CallShape, Acquire, Handlers
<1>7. RowShape'
  BY DEF TypeInv, RowShape, Acquire, durable
<1> QED BY <1>5, <1>6, <1>7 DEF TypeInv

(* So does a client that goes away, whose guard is released. *)
LEMMA CancelTypes ==
  ASSUME TypeInv, NEW p \in Calls, Cancel(p)
  PROVE  TypeInv'
<1>1. call[p] \in Handlers /\ Idle \in Handlers
  BY IdleHandler DEF TypeInv, TypeOK
<1>2. [call[p] EXCEPT !.pc = "orphan"] \in Handlers
  BY <1>1 DEF Handlers
<1>3. TypeOK'
  BY <1>1, <1>2 DEF TypeInv, TypeOK, Cancel, durable, Unlocked
<1>4. CallShape'
  BY DEF TypeInv, TypeOK, CallShape, Cancel, Idle, Handlers
<1>5. RowShape'
  BY DEF TypeInv, RowShape, Cancel, durable
<1> QED BY <1>3, <1>4, <1>5 DEF TypeInv

(* An answer its operation may give leaves the handlers well formed. *)
LEMMA AnswerTypes ==
  ASSUME TypeInv, NEW p \in Calls, NEW a \in Answers, NEW k \in Credentials,
         call[p].pc \in {"waiting", "orphan"}, Answer(p, a, k),
         a \in Statuses => call[p].op \in {"post", "get", "fence"},
         a = "admitted" => call[p].op = "post",
         a = "claimed" => call[p].op = "recheck"
  PROVE  call' \in [Calls -> Handlers] /\ CallShape'
<1>1. call[p] \in Handlers /\ Idle \in Handlers
  BY IdleHandler DEF TypeInv, TypeOK
<1>2. [call[p] EXCEPT !.pc = "ready", !.answer = a, !.credential = k] \in Handlers
  BY <1>1 DEF Handlers
<1>3. call' \in [Calls -> Handlers]
  BY <1>1, <1>2 DEF TypeInv, TypeOK, Answer
<1>4. CallShape'
  BY DEF TypeInv, TypeOK, CallShape, Answer, Idle, Handlers
<1> QED BY <1>3, <1>4

(* What a reader is told of a row is one of the answers. *)
LEMMA ReceiptAnswers ==
  ASSUME NEW row \in Receipts, NEW o
  PROVE  ReceiptAnswer(row, o) \in Statuses \cup {"notFound"}
  BY DEF ReceiptAnswer, Receipts

(* The rest of the state when a closure changes neither rows nor tasks. *)
LEMMA RowsKept ==
  ASSUME TypeInv, UNCHANGED <<receipt, connection, task>>
  PROVE  RowShape'
  BY DEF TypeInv, RowShape

(* So does each closure: it writes one row and one answer. *)
LEMMA RunClosureTypes ==
  ASSUME TypeInv, NEW p \in Calls, RunClosure(p)
  PROVE  TypeInv'
<1> DEFINE Rest == UNCHANGED <<locked, task, check, generations, issued, lost, told,
                               crashes, storeErrors>>
<1>1. Rest /\ call[p].pc \in {"waiting", "orphan"} /\ call[p] \in Handlers
  BY DEF RunClosure, TypeInv, TypeOK
<1>2. /\ call[p].owner \in Owners
      /\ call[p].op \in {"post", "get", "fence"} => call[p].request \in Requests
      /\ call[p].op \in Locking => call[p].connection \in Connections
      /\ call[p].op = "post" => call[p].body \in Bodies
  BY <1>1 DEF TypeInv, CallShape
<1>3. None \in Credentials /\ {"conflict", "notFound", "ok", "error", "claimed", "admitted",
                               "unsupportedModel"} \cup Statuses \subseteq Answers
  BY DEF Credentials, Answers
<1>4. SUFFICES /\ receipt' \in [Requests -> Receipts]
               /\ connection' \in [Connections -> ConnectionRows]
               /\ cooling' \subseteq Connections
               /\ call' \in [Calls -> Handlers]
               /\ CallShape'
               /\ RowShape'
  BY <1>1 DEF TypeInv, TypeOK
<1> USE DEF durable
<1>5. CASE AdmitClosure(p)
  <2> DEFINE r == call[p].request
             c == call[p].connection
             h == Hash(c, call[p].owner, call[p].body)
  <2>1. call[p].op = "post" /\ (AdmitKnown(p, r, h) \/ AdmitRefused(p, r, c) \/ AdmitNew(p, r, c, h))
    BY <1>5 DEF AdmitClosure
  <2>2. r \in Requests /\ c \in Connections /\ h \in Hashes
    BY <2>1, <1>2 DEF Hash, Hashes, Locking
  <2>3. CASE AdmitKnown(p, r, h)
    <3>1. PICK a \in Statuses \cup {"conflict", "notFound"} : Answer(p, a, None)
      BY <2>2, <2>3, ReceiptAnswers DEF AdmitKnown, TypeInv, TypeOK
    <3>2. a \notin {"admitted", "claimed"}
      BY DEF Statuses, Settled, Running
    <3> QED BY <3>1, <3>2, <2>1, <2>3, <1>1, <1>3, AnswerTypes, RowsKept
            DEF AdmitKnown, TypeInv, TypeOK
  <2>4. CASE AdmitRefused(p, r, c)
    <3>1. PICK a \in {"notFound", "unsupportedModel"} : Answer(p, a, None)
      BY <2>4 DEF AdmitRefused
    <3>2. a \notin Statuses
      BY DEF Statuses, Settled, Running
    <3> QED BY <3>1, <3>2, <2>1, <2>4, <1>1, <1>3, AnswerTypes, RowsKept
            DEF AdmitRefused, TypeInv, TypeOK
  <2>5. CASE AdmitNew(p, r, c, h)
    <3> DEFINE row == [status |-> Running, owner |-> call[p].owner, hash |-> h]
    <3>1. /\ receipt' = [receipt EXCEPT ![r] = row]
          /\ Answer(p, "admitted", connection[c].credential)
          /\ UNCHANGED <<connection, cooling>>
      BY <2>5 DEF AdmitNew
    <3>2. row \in Receipts /\ row.owner \in Owners
      BY <2>2, <1>2 DEF Receipts, Statuses
    <3>3. connection[c].credential \in Credentials
      BY <2>2 DEF TypeInv, TypeOK, ConnectionRows
    <3>4. "admitted" \notin Statuses
      BY DEF Statuses, Settled, Running
    <3>5. call' \in [Calls -> Handlers] /\ CallShape'
      BY <3>1, <3>3, <3>4, <2>1, <1>1, <1>3, AnswerTypes
    <3>6. RowShape'
      BY <3>1, <3>2, <1>1 DEF TypeInv, TypeOK, RowShape, Running
    <3> QED BY <3>1, <3>2, <3>5, <3>6, <2>2 DEF TypeInv, TypeOK
  <2> QED BY <2>1, <2>3, <2>4, <2>5
<1>6. CASE FenceClosure(p)
  <2> DEFINE r == call[p].request
             o == call[p].owner
             row == Fenced(receipt[r], o)
  <2>1. /\ call[p].op = "fence"
        /\ receipt' = [receipt EXCEPT ![r] = row]
        /\ Answer(p, ReceiptAnswer(row, o), None)
        /\ UNCHANGED <<connection, cooling>>
    BY <1>6 DEF FenceClosure
  <2>2. r \in Requests /\ receipt[r] \in Receipts
    BY <2>1, <1>2 DEF TypeInv, TypeOK
  <2>3. row \in Receipts
    BY <2>2, <1>2 DEF Fenced, Tombstone, Receipts, Statuses, Settled, Hashes
  <2>4. row.owner \in Owners /\ row.status # "absent"
    BY <2>2, <1>2 DEF Fenced, Tombstone, TypeInv, RowShape
  <2>5. PICK a \in Statuses \cup {"notFound"} : Answer(p, a, None)
    BY <2>1, <2>3, ReceiptAnswers
  <2>6. a \notin {"admitted", "claimed"}
    BY DEF Statuses, Settled, Running
  <2>7. call' \in [Calls -> Handlers] /\ CallShape'
    BY <2>5, <2>6, <2>1, <1>1, <1>3, AnswerTypes
  <2>8. RowShape'
    BY <2>1, <2>4, <1>1 DEF TypeInv, TypeOK, RowShape
  <2> QED BY <2>1, <2>3, <2>7, <2>8, <2>2 DEF TypeInv, TypeOK
<1>7. CASE GetClosure(p)
  <2>1. call[p].op = "get" /\ call[p].request \in Requests
    BY <1>7, <1>2 DEF GetClosure
  <2>2. PICK a \in Statuses \cup {"notFound"} : Answer(p, a, None)
    BY <1>7, <2>1, ReceiptAnswers DEF GetClosure, TypeInv, TypeOK
  <2>3. a \notin {"admitted", "claimed"}
    BY DEF Statuses, Settled, Running
  <2> QED BY <2>1, <2>2, <2>3, <1>7, <1>1, <1>3, AnswerTypes, RowsKept
          DEF GetClosure, TypeInv, TypeOK
<1>8. CASE DisconnectClosure(p)
  <2> DEFINE c == call[p].connection
  <2>1. call[p].op = "disconnect" /\ c \in Connections
    BY <1>8, <1>2 DEF DisconnectClosure, Locking
  <2>2. PICK a \in {"ok", "notFound"} : Answer(p, a, None)
    BY <1>8 DEF DisconnectClosure
  <2>3. a \notin Statuses
    BY DEF Statuses, Settled, Running
  <2>4. call' \in [Calls -> Handlers] /\ CallShape'
    BY <2>2, <2>3, <1>1, <1>3, AnswerTypes
  <2>5. connection[c] \in ConnectionRows
    BY <2>1 DEF TypeInv, TypeOK
  <2>6. [connection[c] EXCEPT !.status = "disconnected", !.credential = None]
            \in ConnectionRows
    BY <2>5, <1>3 DEF ConnectionRows
  <2>7. connection' \in [Connections -> ConnectionRows] /\ cooling' \subseteq Connections
    <3>1. CASE connection[c].owner = call[p].owner
      <4>1. connection' = [connection EXCEPT
                               ![c] = [connection[c] EXCEPT !.status = "disconnected",
                                                            !.credential = None]]
        BY <1>8, <3>1, <2>1 DEF DisconnectClosure, TypeInv, TypeOK
      <4>2. cooling' = cooling \ {c}
        BY <1>8, <3>1 DEF DisconnectClosure
      <4> QED BY <4>1, <4>2, <2>6 DEF TypeInv, TypeOK
    <3>2. CASE connection[c].owner # call[p].owner
      BY <1>8, <3>2 DEF DisconnectClosure, TypeInv, TypeOK
    <3> QED BY <3>1, <3>2
  <2>8. UNCHANGED receipt
    BY <1>8 DEF DisconnectClosure
  <2>9. RowShape'
    BY <2>8, <1>1 DEF TypeInv, RowShape
  <2> QED BY <2>4, <2>7, <2>8, <2>9 DEF TypeInv, TypeOK
<1>9. CASE ClaimClosure(p)
  <2> DEFINE c == call[p].connection
  <2>1. call[p].op = "recheck" /\ c \in Connections
    BY <1>9, <1>2 DEF ClaimClosure, Locking
  <2>2. connection[c].credential \in Credentials
    BY <2>1 DEF TypeInv, TypeOK, ConnectionRows
  <2>3. PICK a \in {"ok", "claimed"}, k \in Credentials : Answer(p, a, k)
    BY <1>9, <2>2, <1>3 DEF ClaimClosure
  <2>4. a \notin Statuses
    BY DEF Statuses, Settled, Running
  <2>5. call' \in [Calls -> Handlers] /\ CallShape'
    BY <2>1, <2>3, <2>4, <1>1, <1>3, AnswerTypes
  <2>6. cooling' \subseteq Connections /\ UNCHANGED <<receipt, connection>>
    BY <1>9, <2>1 DEF ClaimClosure, TypeInv, TypeOK
  <2>7. RowShape'
    BY <2>6, <1>1, RowsKept
  <2> QED BY <2>5, <2>6, <2>7 DEF TypeInv, TypeOK
<1> QED BY <1>5, <1>6, <1>7, <1>8, <1>9 DEF RunClosure

(* So does a closure that is rolled back. *)
LEMMA ClosureFailsTypes ==
  ASSUME TypeInv, NEW p \in Calls, ClosureFails(p)
  PROVE  TypeInv'
<1>1. /\ call[p].pc \in {"waiting", "orphan"}
      /\ Answer(p, "error", None)
      /\ storeErrors < MaxStoreErrors /\ storeErrors' = storeErrors + 1
      /\ UNCHANGED <<receipt, connection, cooling, locked, task, check, generations,
                     issued, lost, told, crashes>>
  BY DEF ClosureFails, durable
<1>2. "error" \in Answers /\ "error" \notin Statuses /\ None \in Credentials
  BY DEF Answers, Statuses, Settled, Running, Credentials
<1>3. call' \in [Calls -> Handlers] /\ CallShape'
  BY <1>1, <1>2, AnswerTypes
<1>4. storeErrors' \in 0..MaxStoreErrors
  BY <1>1, InferxAssumption DEF TypeInv, TypeOK
<1>5. RowShape'
  BY <1>1, RowsKept
<1> QED BY <1>1, <1>3, <1>4, <1>5 DEF TypeInv, TypeOK

(* So does a handler that returns or spawns its task. *)
LEMMA ResumeTypes ==
  ASSUME TypeInv, NEW p \in Calls, Resume(p),
         call[p].answer = "admitted" => receipt[call[p].request].status # "absent"
  PROVE  TypeInv'
<1> DEFINE r == call[p].request
           c == call[p].connection
           a == call[p].answer
<1>1. /\ call[p] \in Handlers /\ call[p].pc = "ready" /\ call[p].owner \in Owners
      /\ a \in Statuses \cup {"admitted"} => r \in Requests
      /\ a \in {"admitted", "claimed"} => c \in Connections
  BY DEF Resume, TypeInv, TypeOK, CallShape, Locking
<1>2. call' = [call EXCEPT ![p] = Idle]
      /\ UNCHANGED <<receipt, connection, cooling, generations, issued, lost, crashes, storeErrors>>
  BY DEF Resume, durable
<1>3. call' \in [Calls -> Handlers] /\ CallShape'
  BY <1>2, IdleHandler DEF TypeInv, TypeOK, CallShape, Idle
<1>4. task' \in [Requests -> Tasks] /\ RowShape'
  <2>1. CASE a = "admitted"
    <3> DEFINE new == [NoTask EXCEPT !.pc = "ready", !.connection = c,
                                     !.credential = call[p].credential]
    <3>1. task' = [task EXCEPT ![r] = new]
      BY <2>1 DEF Resume
    <3>2. new \in Tasks /\ new.connection \in Connections
      BY <1>1, <2>1 DEF NoTask, Tasks, Handlers
    <3> HIDE DEF new
    <3> QED BY <3>1, <3>2, <2>1, <1>1, <1>2 DEF TypeInv, TypeOK, RowShape
  <2>2. CASE a # "admitted"
    BY <2>2, <1>2 DEF Resume, TypeInv, TypeOK, RowShape
  <2> QED BY <2>1, <2>2
<1>5. check' \in [Connections -> Checks]
  <2>1. [running |-> TRUE, credential |-> call[p].credential] \in Checks
    BY <1>1 DEF Checks, Handlers
  <2> QED BY <2>1, <1>1 DEF Resume, TypeInv, TypeOK
<1>6. locked' \subseteq Connections
  BY DEF Resume, Unlocked, TypeInv, TypeOK
<1>7. told' \subseteq Requests \X Owners \X Statuses
  BY <1>1 DEF Resume, TypeInv, TypeOK
<1> QED BY <1>2, <1>3, <1>4, <1>5, <1>6, <1>7 DEF TypeInv, TypeOK

(* A task or a check that only moves in ways its record allows. *)
LEMMA TaskShapes ==
  ASSUME TypeInv, NEW r \in Requests, NEW t \in Tasks,
         task' = [task EXCEPT ![r] = t], UNCHANGED receipt,
         t.pc # "none" => t.connection \in Connections /\ receipt[r].status # "absent"
  PROVE  task' \in [Requests -> Tasks] /\ RowShape'
  BY DEF TypeInv, TypeOK, RowShape

(* So does a refresh: a version stays below MaxRotations. *)
LEMMA TaskRefreshTypes ==
  ASSUME TypeInv, NEW r \in Requests, NEW received \in BOOLEAN, TaskRefresh(r, received)
  PROVE  TypeInv'
<1> DEFINE c == task[r].connection
<1>1. /\ task[r] \in Tasks /\ c \in Connections /\ receipt[r].status # "absent"
      /\ task[r].pc \in {"ready", "sent"}
  BY DEF TaskRefresh, TypeInv, TypeOK, RowShape
<1>2. /\ issued[c] \in 0..MaxRotations /\ issued[c] < MaxRotations
      /\ task[r].credential = issued[c]
      /\ issued' = [issued EXCEPT ![c] = issued[c] + 1]
      /\ UNCHANGED <<receipt, connection, cooling, locked, call, check, generations, told,
                     crashes, storeErrors>>
  BY <1>1 DEF TaskRefresh, TypeInv, TypeOK, durable
<1>3. issued[c] + 1 \in 0..MaxRotations
  BY <1>2, InferxAssumption
<1>4. issued' \in [Connections -> 0..MaxRotations]
  BY <1>2, <1>3 DEF TypeInv, TypeOK
<1>5. [task[r] EXCEPT !.credential = issued[c] + 1] \in Tasks
  BY <1>1, <1>3 DEF Tasks, Credentials
<1>6. lost' \subseteq Connections
  BY <1>1 DEF TaskRefresh, TypeInv, TypeOK
<1>7. task' \in [Requests -> Tasks] /\ RowShape'
  <2>1. CASE received
    <3>1. task' = [task EXCEPT ![r] = [task[r] EXCEPT !.credential = issued[c] + 1]]
      BY <2>1, <1>2 DEF TaskRefresh, TypeInv, TypeOK
    <3>2. [task[r] EXCEPT !.credential = issued[c] + 1].connection = c
      BY <1>1 DEF Tasks
    <3> QED BY <3>1, <3>2, <1>1, <1>2, <1>5, TaskShapes
  <2>2. CASE ~received
    BY <2>2, <1>2 DEF TaskRefresh, TypeInv, TypeOK, RowShape
  <2> QED BY <2>1, <2>2
<1>8. CallShape'
  BY <1>2 DEF TypeInv, CallShape
<1> QED BY <1>2, <1>4, <1>6, <1>7, <1>8 DEF TypeInv, TypeOK

(* So does the dispatch of the generation. *)
LEMMA TaskDispatchTypes ==
  ASSUME TypeInv, NEW r \in Requests, TaskDispatch(r)
  PROVE  TypeInv'
<1> DEFINE t == [task[r] EXCEPT !.pc = "sent"]
<1>1. /\ task[r] \in Tasks /\ task[r].pc = "ready"
      /\ task' = [task EXCEPT ![r] = t]
      /\ UNCHANGED <<receipt, connection, cooling, locked, call, check, issued, lost, told,
                     crashes, storeErrors>>
  BY DEF TaskDispatch, TypeInv, TypeOK, durable
<1>2. t \in Tasks /\ t.connection = task[r].connection
  BY <1>1 DEF Tasks
<1>3. task[r].connection \in Connections /\ receipt[r].status # "absent"
  BY <1>1 DEF TypeInv, RowShape
<1> HIDE DEF t
<1>4. task' \in [Requests -> Tasks] /\ RowShape'
  BY <1>1, <1>2, <1>3, TaskShapes
<1>5. generations' \in [Requests -> Nat]
  BY DEF TaskDispatch, TypeInv, TypeOK
<1>6. CallShape'
  BY <1>1 DEF TypeInv, CallShape
<1> QED BY <1>1, <1>4, <1>5, <1>6 DEF TypeInv, TypeOK

(* So does the end of the generation. *)
LEMMA TaskEndTypes ==
  ASSUME TypeInv, NEW r \in Requests, NEW outcome \in {"succeeded", "failed"},
         TaskEnd(r, outcome)
  PROVE  TypeInv'
<1> DEFINE t == [task[r] EXCEPT !.pc = "done", !.outcome = outcome]
<1>1. /\ task[r] \in Tasks /\ task[r].pc \in {"ready", "sent"}
      /\ task' = [task EXCEPT ![r] = t]
      /\ UNCHANGED <<receipt, connection, cooling, locked, call, check, generations, issued,
                     lost, told, crashes, storeErrors>>
  BY DEF TaskEnd, TypeInv, TypeOK, durable
<1>2. t \in Tasks /\ t.connection = task[r].connection
  BY <1>1 DEF Tasks
<1>3. task[r].connection \in Connections /\ receipt[r].status # "absent"
  BY <1>1 DEF TypeInv, RowShape
<1> HIDE DEF t
<1>4. task' \in [Requests -> Tasks] /\ RowShape'
  BY <1>1, <1>2, <1>3, TaskShapes
<1>5. CallShape'
  BY <1>1 DEF TypeInv, CallShape
<1> QED BY <1>1, <1>4, <1>5 DEF TypeInv, TypeOK

(* Saving a credential keeps the connection rows well formed. *)
LEMMA StoreTypes ==
  ASSUME TypeInv, NEW c \in Connections, NEW o, NEW k \in Credentials, Store(c, o, k)
  PROVE  connection' \in [Connections -> ConnectionRows]
<1>1. connection[c] \in ConnectionRows
  BY DEF TypeInv, TypeOK
<1>2. [connection[c] EXCEPT !.credential = k] \in ConnectionRows
  BY <1>1 DEF ConnectionRows
<1> QED BY <1>1, <1>2 DEF Store, TypeInv, TypeOK

(* The empty task and the empty check are typed. *)
LEMMA NoTaskTypes == NoTask \in Tasks /\ NoTask.pc = "none" /\ NoCheck \in Checks
  BY DEF NoTask, NoCheck, Tasks, Checks, Credentials

(* So does the save that settles the receipt. *)
LEMMA TaskSaveTypes ==
  ASSUME TypeInv, NEW r \in Requests, TaskSave(r)
  PROVE  TypeInv'
<1> DEFINE c == task[r].connection
           o == receipt[r].owner
           s == SettledStatus(receipt[r].status, task[r].outcome)
<1>1. /\ task[r] \in Tasks /\ task[r].pc = "done" /\ receipt[r] \in Receipts
      /\ c \in Connections /\ o \in Owners /\ receipt[r].status # "absent"
  BY DEF TaskSave, TypeInv, TypeOK, RowShape
<1>2. /\ receipt' = [receipt EXCEPT ![r] = [receipt[r] EXCEPT !.status = s]]
      /\ Store(c, o, task[r].credential)
      /\ told' = told \cup {<<r, o, s>>}
      /\ locked' = locked \ {c}
      /\ task' = [task EXCEPT ![r] = NoTask]
      /\ UNCHANGED <<cooling, call, check, generations, issued, lost, crashes, storeErrors>>
  BY <1>1 DEF TaskSave, TypeInv, TypeOK
<1>3. s \in Statuses \ {"absent"}
  BY <1>1 DEF SettledStatus, Statuses, Settled, Receipts, Tasks
<1> HIDE DEF s
<1>4. /\ [receipt[r] EXCEPT !.status = s] \in Receipts
      /\ [receipt[r] EXCEPT !.status = s].owner = o
  BY <1>1, <1>3 DEF Receipts
<1>5. connection' \in [Connections -> ConnectionRows]
  BY <1>1, <1>2, StoreTypes DEF Tasks
<1>6. receipt' \in [Requests -> Receipts] /\ task' \in [Requests -> Tasks]
  BY <1>2, <1>4, NoTaskTypes DEF TypeInv, TypeOK
<1>7. RowShape'
  BY <1>1, <1>2, <1>4, NoTaskTypes DEF TypeInv, TypeOK, RowShape
<1>8. CallShape'
  BY <1>2 DEF TypeInv, CallShape
<1>9. told' \subseteq Requests \X Owners \X Statuses
  BY <1>1, <1>2, <1>3 DEF TypeInv, TypeOK
<1> QED BY <1>2, <1>5, <1>6, <1>7, <1>8, <1>9 DEF TypeInv, TypeOK

(* So does a save that is rolled back. *)
LEMMA TaskSaveFailsTypes ==
  ASSUME TypeInv, NEW r \in Requests, TaskSaveFails(r)
  PROVE  TypeInv'
<1>1. task[r].connection \in Connections
  BY DEF TaskSaveFails, TypeInv, RowShape
<1>2. task' \in [Requests -> Tasks] /\ RowShape'
  BY NoTaskTypes, TaskShapes DEF TaskSaveFails, durable
<1>3. storeErrors' \in 0..MaxStoreErrors
  BY InferxAssumption DEF TaskSaveFails, TypeInv, TypeOK
<1>4. CallShape'
  BY DEF TaskSaveFails, TypeInv, CallShape
<1> QED BY <1>1, <1>2, <1>3, <1>4 DEF TaskSaveFails, TypeInv, TypeOK, durable

(* So does each step of a detached recheck. *)
LEMMA CheckStepTypes ==
  ASSUME TypeInv, NEW c \in Connections, CheckStep(c)
  PROVE  TypeInv'
<1>1. /\ UNCHANGED <<receipt, call, task, generations, told, crashes>>
  BY DEF CheckStep, CheckRefresh, CheckSave, CheckSaveFails, CoolDown, durable
<1>2. CallShape' /\ RowShape'
  BY <1>1 DEF TypeInv, CallShape, RowShape
<1>3. ASSUME NEW received \in BOOLEAN, CheckRefresh(c, received)
      PROVE  TypeOK'
  <2>1. /\ issued[c] \in 0..MaxRotations /\ issued[c] < MaxRotations
        /\ check[c].credential = issued[c] /\ check[c] \in Checks
    BY <1>3 DEF CheckRefresh, TypeInv, TypeOK
  <2>2. issued[c] + 1 \in 0..MaxRotations
    BY <2>1, InferxAssumption
  <2>3. [check[c] EXCEPT !.credential = issued[c] + 1] \in Checks
    BY <2>1, <2>2 DEF Checks, Credentials
  <2>4. check' \in [Connections -> Checks] /\ lost' \subseteq Connections
    BY <1>3, <2>1, <2>3 DEF CheckRefresh, TypeInv, TypeOK
  <2>5. issued' \in [Connections -> 0..MaxRotations]
    BY <1>3, <2>2 DEF CheckRefresh, TypeInv, TypeOK
  <2> QED BY <1>3, <2>4, <2>5 DEF CheckRefresh, TypeInv, TypeOK, durable
<1>4. ASSUME CheckSave(c)
      PROVE  TypeOK'
  <2>1. connection' \in [Connections -> ConnectionRows]
    BY <1>4, StoreTypes DEF CheckSave, Checks, TypeInv, TypeOK
  <2>2. check' \in [Connections -> Checks] /\ cooling' \subseteq Connections
    BY <1>4, NoTaskTypes DEF CheckSave, TypeInv, TypeOK
  <2> QED BY <1>4, <2>1, <2>2 DEF CheckSave, TypeInv, TypeOK
<1>5. ASSUME CheckSaveFails(c)
      PROVE  TypeOK'
  <2>1. check' \in [Connections -> Checks]
    BY <1>5, NoTaskTypes DEF CheckSaveFails, TypeInv, TypeOK
  <2>2. storeErrors' \in 0..MaxStoreErrors
    BY <1>5, InferxAssumption DEF CheckSaveFails, TypeInv, TypeOK
  <2> QED BY <1>5, <2>1, <2>2 DEF CheckSaveFails, TypeInv, TypeOK, durable
<1>6. ASSUME CoolDown(c)
      PROVE  TypeOK'
  BY <1>6 DEF CoolDown, TypeInv, TypeOK
<1> QED BY <1>2, <1>3, <1>4, <1>5, <1>6 DEF CheckStep, TypeInv

(* So does a restart, which empties what lived in memory. *)
LEMMA RestartTypes ==
  ASSUME TypeInv, Restart
  PROVE  TypeInv'
<1>1. \A r \in Requests : /\ Sealed(receipt[r]) \in Receipts
                          /\ Sealed(receipt[r]).owner = receipt[r].owner
                          /\ receipt[r].status = "absent" => Sealed(receipt[r]).status = "absent"
  BY DEF Sealed, Receipts, Statuses, Settled, Running, TypeInv, TypeOK
<1>2. receipt' \in [Requests -> Receipts] /\ task' \in [Requests -> Tasks]
      /\ check' \in [Connections -> Checks] /\ call' \in [Calls -> Handlers]
  BY <1>1, NoTaskTypes, IdleHandler DEF Restart
<1>3. CallShape'
  BY DEF Restart, CallShape, Idle
<1>4. RowShape'
  <2>1. \A r \in Requests : receipt'[r].status # "absent" => receipt[r].status # "absent"
    BY <1>1 DEF Restart
  <2> QED BY <1>1, <2>1, NoTaskTypes DEF Restart, TypeInv, RowShape
<1>5. crashes' \in 0..MaxCrashes
  BY InferxAssumption DEF Restart, TypeInv, TypeOK
<1> QED BY <1>2, <1>3, <1>4, <1>5 DEF Restart, TypeInv, TypeOK

------------------------------------------------------------------------------
(* A committed admission whose handler has not been polled again yet.      *)
Admitted(p) == call[p].pc = "ready" /\ call[p].answer = "admitted"

(* The right to generate is handed from the row to one admitted handler,   *)
(* from it to one task, and spent by the dispatch.                         *)
SpentInv ==
    \A r \in Requests :
        /\ generations[r] <= 1
        /\ receipt[r].status = "absent" => receipt[r].hash = FenceHash
        /\ receipt[r].hash = FenceHash => generations[r] = 0 /\ receipt[r].status # Running
        /\ task[r].pc # "none" => receipt[r].status = Running
        /\ task[r].pc = "ready" => generations[r] = 0

AdmittedInv ==
    \A p \in Calls :
        Admitted(p) =>
            /\ receipt[call[p].request].status = Running
            /\ generations[call[p].request] = 0
            /\ task[call[p].request].pc = "none"
            /\ \A q \in Calls : Admitted(q) /\ call[q].request = call[p].request => q = p

OnceInv == TypeInv /\ SpentInv /\ AdmittedInv

(* Nothing has been generated at the start. *)
LEMMA InitOnce == Init => OnceInv
  BY InitTypes DEF Init, OnceInv, SpentInv, AdmittedInv, Admitted, Idle, NoReceipt, NoTask,
                   Running

(* A step that leaves the rows and the history alone and admits no one.    *)
LEMMA QuietStep ==
  ASSUME OnceInv, UNCHANGED <<receipt, generations>>,
         \A p \in Calls : Admitted(p)' => Admitted(p) /\ call'[p].request = call[p].request,
         \A r \in Requests : /\ task'[r].pc # "none" => task[r].pc # "none"
                             /\ task'[r].pc = "ready" => task[r].pc = "ready",
         CallShape
  PROVE  SpentInv' /\ AdmittedInv'
<1>1. SpentInv'
  BY DEF OnceInv, SpentInv
<1>2. ASSUME NEW p \in Calls, Admitted(p)'
      PROVE  /\ receipt'[call'[p].request].status = Running
             /\ generations'[call'[p].request] = 0
             /\ task'[call'[p].request].pc = "none"
             /\ \A q \in Calls : Admitted(q)' /\ call'[q].request = call'[p].request => q = p
  <2>1. Admitted(p) /\ call'[p].request = call[p].request
    BY <1>2
  <2>2. call[p].request \in Requests
    BY <2>1 DEF Admitted, CallShape
  <2>3. \A q \in Calls : Admitted(q)' /\ call'[q].request = call'[p].request => q = p
    BY <2>1 DEF OnceInv, AdmittedInv
  <2> QED BY <2>1, <2>2, <2>3 DEF OnceInv, AdmittedInv
<1> QED BY <1>1, <1>2 DEF AdmittedInv

(* An admission needs an absent row, so it adds the only handler or task that may generate for its ID. *)
LEMMA AdmissionOnce ==
  ASSUME OnceInv, NEW p \in Calls, call[p].pc \in {"waiting", "orphan"},
         UNCHANGED <<task, generations>>,
         call[p].op = "post",
         NEW c, NEW h \in Connections \X Owners \X Bodies, AdmitNew(p, call[p].request, c, h)
  PROVE  SpentInv' /\ AdmittedInv'
<1> DEFINE r == call[p].request
           row == [status |-> Running, owner |-> call[p].owner, hash |-> h]
<1>1. r \in Requests /\ receipt[r].status = "absent"
  BY DEF OnceInv, TypeInv, CallShape, AdmitNew, Unknown
<1>2. receipt' = [receipt EXCEPT ![r] = row] /\ generations[r] = 0
  BY <1>1 DEF AdmitNew, OnceInv, SpentInv
<1>3. h # FenceHash
  BY InferxAssumption DEF FenceHash
<1>4. SpentInv'
  BY <1>1, <1>2, <1>3 DEF OnceInv, TypeInv, TypeOK, SpentInv, Running
<1>5. task[r].pc = "none"
  BY <1>1 DEF OnceInv, SpentInv, Running
<1>6. \A q \in Calls : q # p => call'[q] = call[q]
  BY DEF AdmitNew, Answer, OnceInv, TypeInv, TypeOK
<1>7. call'[p].request = r \/ ~Admitted(p)'
  BY DEF AdmitNew, Answer, OnceInv, TypeInv, TypeOK, Handlers, Admitted, Idle
<1>8. \A q \in Calls : Admitted(q) => call[q].request # r
  BY <1>1 DEF OnceInv, AdmittedInv, Running
<1>9. \A q \in Calls : q # p => (Admitted(q)' <=> Admitted(q))
  BY <1>6 DEF Admitted
<1>10. AdmittedInv'
  <2>1. ASSUME NEW q \in Calls, Admitted(q)'
        PROVE  /\ receipt'[call'[q].request].status = Running
               /\ generations'[call'[q].request] = 0
               /\ task'[call'[q].request].pc = "none"
               /\ \A z \in Calls : Admitted(z)' /\ call'[z].request = call'[q].request => z = q
    <3>1. CASE q = p
      BY <2>1, <3>1, <1>1, <1>2, <1>5, <1>6, <1>7, <1>8, <1>9 DEF OnceInv, TypeInv, TypeOK
    <3>2. CASE q # p
      <4>1. Admitted(q) /\ call'[q].request = call[q].request /\ call[q].request # r
        BY <2>1, <3>2, <1>6, <1>8, <1>9
      <4>2. call[q].request \in Requests
        BY <4>1 DEF OnceInv, TypeInv, CallShape, Admitted
      <4>3. receipt'[call[q].request] = receipt[call[q].request]
        BY <4>1, <4>2, <1>2 DEF OnceInv, TypeInv, TypeOK
      <4>4. \A z \in Calls : Admitted(z)' /\ call'[z].request = call'[q].request => z = q
        BY <4>1, <1>6, <1>7, <1>9 DEF OnceInv, AdmittedInv
      <4> QED BY <4>1, <4>3, <4>4 DEF OnceInv, AdmittedInv
    <3> QED BY <3>1, <3>2
  <2> QED BY <2>1 DEF AdmittedInv
<1> QED BY <1>4, <1>10

(* A step that changes rows but no admitted one, no task and no handler's  *)
(* right to generate.                                                      *)
LEMMA QuietCalls ==
  ASSUME OnceInv, NEW p \in Calls, NEW a, NEW k, Answer(p, a, k), a # "admitted",
         call[p].pc \in {"waiting", "orphan"}
  PROVE  \A q \in Calls :
            Admitted(q)' => Admitted(q) /\ call'[q].request = call[q].request
<1>1. ~Admitted(p)'
  BY DEF Answer, Admitted, OnceInv, TypeInv, TypeOK, Handlers, Idle
<1>2. \A q \in Calls : q # p => call'[q] = call[q]
  BY DEF Answer, OnceInv, TypeInv, TypeOK
<1> QED BY <1>1, <1>2 DEF Admitted

(* No other closure makes a row executable. *)
LEMMA ClosureOnce ==
  ASSUME OnceInv, NEW p \in Calls, RunClosure(p)
  PROVE  SpentInv' /\ AdmittedInv'
<1>1. /\ UNCHANGED <<task, generations>> /\ call[p].pc \in {"waiting", "orphan"}
      /\ TypeInv /\ CallShape /\ call[p] \in Handlers
  BY DEF RunClosure, OnceInv, TypeInv, TypeOK
<1>2. ASSUME NEW a, NEW k, Answer(p, a, k), a # "admitted", UNCHANGED receipt
      PROVE  SpentInv' /\ AdmittedInv'
  BY <1>1, <1>2, QuietCalls, QuietStep
<1>3. \A r \in Requests : ReceiptAnswer(receipt[r], call[p].owner) # "admitted"
  BY <1>1, ReceiptAnswers DEF TypeInv, TypeOK, Statuses, Settled, Running
<1>4. CASE AdmitClosure(p)
  <2> DEFINE r == call[p].request
             c == call[p].connection
             h == Hash(c, call[p].owner, call[p].body)
  <2>1. /\ call[p].op = "post"
        /\ AdmitKnown(p, r, h) \/ AdmitRefused(p, r, c) \/ AdmitNew(p, r, c, h)
    BY <1>4 DEF AdmitClosure
  <2>2. h \in Connections \X Owners \X Bodies /\ r \in Requests
    BY <2>1, <1>1 DEF CallShape, Hash, Locking
  <2>3. CASE AdmitKnown(p, r, h)
    BY <2>3, <2>2, <1>2, <1>3 DEF AdmitKnown, durable
  <2>4. CASE AdmitRefused(p, r, c)
    BY <2>4, <1>2 DEF AdmitRefused, durable
  <2>5. CASE AdmitNew(p, r, c, h)
    BY <2>1, <2>2, <2>5, <1>1, AdmissionOnce
  <2> QED BY <2>1, <2>3, <2>4, <2>5
<1>5. CASE FenceClosure(p)
  <2> DEFINE r == call[p].request
             o == call[p].owner
             row == Fenced(receipt[r], o)
  <2>1. /\ r \in Requests /\ o \in Owners
        /\ receipt' = [receipt EXCEPT ![r] = row]
        /\ Answer(p, ReceiptAnswer(row, o), None)
    BY <1>5, <1>1 DEF FenceClosure, CallShape, TypeInv, TypeOK
  <2>2. row \in Receipts
    BY <2>1 DEF Fenced, Tombstone, Receipts, Statuses, Settled, Hashes, OnceInv, TypeInv, TypeOK
  <2>3. ReceiptAnswer(row, o) # "admitted"
    BY <2>2, ReceiptAnswers DEF Statuses, Settled, Running
  <2>4. \A q \in Calls : Admitted(q)' => Admitted(q) /\ call'[q].request = call[q].request
    BY <2>1, <2>3, <1>1, QuietCalls
  <2>5. CASE receipt[r].status # "absent"
    <3>1. UNCHANGED receipt
      BY <2>1, <2>5 DEF Fenced, TypeInv, TypeOK, OnceInv
    <3> QED BY <3>1, <2>4, <1>1, QuietStep
  <2>6. CASE receipt[r].status = "absent"
    <3>1. row.status = "failed" /\ row.hash = FenceHash
      BY <2>6 DEF Fenced, Tombstone
    <3>2. generations[r] = 0 /\ task[r].pc = "none"
      BY <2>1, <2>6 DEF OnceInv, SpentInv, Running
    <3>3. SpentInv'
      BY <2>1, <3>1, <3>2, <1>1 DEF OnceInv, TypeInv, TypeOK, SpentInv, Running
    <3>4. ASSUME NEW q \in Calls, Admitted(q)'
          PROVE  /\ receipt'[call'[q].request].status = Running
                 /\ generations'[call'[q].request] = 0
                 /\ task'[call'[q].request].pc = "none"
                 /\ \A z \in Calls : Admitted(z)' /\ call'[z].request = call'[q].request => z = q
      <4>1. Admitted(q) /\ call'[q].request = call[q].request
        BY <2>4, <3>4
      <4>2. call[q].request \in Requests /\ call[q].request # r
        BY <4>1, <2>6, <1>1 DEF OnceInv, AdmittedInv, CallShape, Admitted, Running
      <4>3. receipt'[call[q].request] = receipt[call[q].request]
        BY <4>2, <2>1, <1>1 DEF TypeInv, TypeOK
      <4>4. \A z \in Calls : Admitted(z)' /\ call'[z].request = call'[q].request => z = q
        BY <4>1, <2>4 DEF OnceInv, AdmittedInv
      <4> QED BY <4>1, <4>3, <4>4, <1>1 DEF OnceInv, AdmittedInv
    <3> QED BY <3>3, <3>4 DEF AdmittedInv
  <2> QED BY <2>5, <2>6
<1>6. CASE GetClosure(p)
  <2>1. call[p].request \in Requests
    BY <1>6, <1>1 DEF GetClosure, CallShape
  <2> QED BY <2>1, <1>6, <1>2, <1>3 DEF GetClosure, durable
<1>7. CASE DisconnectClosure(p)
  <2>1. PICK a \in {"ok", "notFound"} : Answer(p, a, None)
    BY <1>7 DEF DisconnectClosure
  <2> QED BY <2>1, <1>7, <1>2 DEF DisconnectClosure
<1>8. CASE ClaimClosure(p)
  <2>1. PICK a, k : Answer(p, a, k) /\ a # "admitted"
    BY <1>8 DEF ClaimClosure
  <2> QED BY <2>1, <1>8, <1>2 DEF ClaimClosure
<1> QED BY <1>4, <1>5, <1>6, <1>7, <1>8 DEF RunClosure

(* The spawn moves the right to generate from the handler to its task. *)
LEMMA ResumeOnce ==
  ASSUME OnceInv, NEW p \in Calls, Resume(p)
  PROVE  SpentInv' /\ AdmittedInv'
<1> DEFINE r == call[p].request
<1>1. /\ UNCHANGED <<receipt, generations>> /\ TypeInv /\ CallShape
      /\ call' = [call EXCEPT ![p] = Idle]
  BY DEF Resume, OnceInv, TypeInv, durable
<1>2. /\ ~Admitted(p)'
      /\ \A q \in Calls : q # p => call'[q] = call[q]
      /\ \A q \in Calls : Admitted(q)' => q # p /\ Admitted(q) /\ call'[q].request = call[q].request
  BY <1>1 DEF TypeInv, TypeOK, Admitted, Idle
<1>3. CASE Admitted(p)
  <2> DEFINE new == [NoTask EXCEPT !.pc = "ready", !.connection = call[p].connection,
                                   !.credential = call[p].credential]
  <2>1. task' = [task EXCEPT ![r] = new]
    BY <1>3 DEF Resume, Admitted
  <2>2. new.pc = "ready"
    BY DEF NoTask
  <2> HIDE DEF new
  <2>3. r \in Requests
    BY <1>3, <1>1 DEF Admitted, CallShape
  <2>4. receipt[r].status = Running /\ generations[r] = 0
    BY <1>3 DEF OnceInv, AdmittedInv
  <2>5. SpentInv'
    BY <2>1, <2>2, <2>3, <2>4, <1>1 DEF TypeInv, TypeOK, OnceInv, SpentInv
  <2>6. ASSUME NEW q \in Calls, Admitted(q)'
        PROVE  /\ receipt'[call'[q].request].status = Running
               /\ generations'[call'[q].request] = 0
               /\ task'[call'[q].request].pc = "none"
               /\ \A z \in Calls : Admitted(z)' /\ call'[z].request = call'[q].request => z = q
    <3>1. q # p /\ Admitted(q) /\ call'[q].request = call[q].request
      BY <1>2, <2>6
    <3>2. call[q].request \in Requests /\ call[q].request # r
      BY <3>1, <1>1, <1>3 DEF OnceInv, AdmittedInv, Admitted, CallShape
    <3>3. task'[call[q].request] = task[call[q].request]
      BY <3>2, <2>1, <1>1 DEF TypeInv, TypeOK
    <3>4. \A z \in Calls : Admitted(z)' /\ call'[z].request = call'[q].request => z = q
      BY <3>1, <1>2 DEF OnceInv, AdmittedInv
    <3> QED BY <3>1, <3>3, <3>4, <1>1 DEF OnceInv, AdmittedInv
  <2> QED BY <2>5, <2>6 DEF AdmittedInv
<1>4. CASE ~Admitted(p)
  <2>1. UNCHANGED task
    BY <1>4 DEF Resume, Admitted
  <2> QED BY <2>1, <1>1, <1>2, QuietStep
<1> QED BY <1>3, <1>4

(* A task acts alone on its request: no handler is admitted for it.        *)
LEMMA TaskAlone ==
  ASSUME OnceInv, NEW r \in Requests, task[r].pc # "none",
         NEW p \in Calls, Admitted(p)
  PROVE  call[p].request \in Requests /\ call[p].request # r
<1>1. call[p].request \in Requests
  BY DEF OnceInv, TypeInv, CallShape, Admitted
<1>2. task[call[p].request].pc = "none"
  BY DEF OnceInv, AdmittedInv
<1> QED BY <1>1, <1>2

(* A step of a detached task keeps both: only "ready" may dispatch. *)
LEMMA TaskOnce ==
  ASSUME OnceInv, NEW r \in Requests, TaskStep(r)
  PROVE  SpentInv' /\ AdmittedInv'
<1>1. /\ UNCHANGED call /\ task[r].pc # "none" /\ TypeInv /\ CallShape
      /\ receipt[r].status = Running /\ receipt[r].hash # FenceHash
      /\ \A q \in Calls : Admitted(q)' <=> Admitted(q)
  BY DEF TaskStep, TaskRefresh, TaskDispatch, TaskEnd, TaskSave, TaskSaveFails, OnceInv,
         TypeInv, SpentInv, Admitted
<1>2. ASSUME SpentInv',
             \A q \in Requests \ {r} : /\ receipt'[q] = receipt[q]
                                      /\ generations'[q] = generations[q]
                                      /\ task'[q] = task[q]
      PROVE  AdmittedInv'
  BY <1>1, <1>2, TaskAlone DEF OnceInv, AdmittedInv
<1>3. ASSUME NEW received \in BOOLEAN, TaskRefresh(r, received)
      PROVE  SpentInv' /\ AdmittedInv'
  <2>1. UNCHANGED <<receipt, generations>>
    BY <1>3 DEF TaskRefresh, durable
  <2>2. \A q \in Requests : task'[q].pc = task[q].pc
    BY <1>3, <1>1 DEF TaskRefresh, TypeInv, TypeOK, Tasks
  <2> QED BY <2>1, <2>2, <1>1, QuietStep
<1>4. CASE TaskDispatch(r)
  <2>1. /\ task[r].pc = "ready" /\ UNCHANGED receipt
        /\ task' = [task EXCEPT ![r] = [task[r] EXCEPT !.pc = "sent"]]
        /\ generations' = [generations EXCEPT ![r] = generations[r] + 1]
    BY <1>4, <1>1 DEF TaskDispatch, durable, TypeInv, TypeOK
  <2>2. generations[r] = 0 /\ [task[r] EXCEPT !.pc = "sent"].pc = "sent"
    BY <2>1, <1>1 DEF OnceInv, SpentInv, TypeInv, TypeOK, Tasks
  <2>3. SpentInv'
    BY <2>1, <2>2, <1>1 DEF OnceInv, SpentInv, TypeInv, TypeOK
  <2> QED BY <2>1, <2>3, <1>1, <1>2 DEF TypeInv, TypeOK
<1>5. ASSUME NEW outcome, TaskEnd(r, outcome)
      PROVE  SpentInv' /\ AdmittedInv'
  <2>1. UNCHANGED <<receipt, generations>>
    BY <1>5 DEF TaskEnd, durable
  <2>2. \A q \in Requests : /\ task'[q].pc # "none" => task[q].pc # "none"
                            /\ task'[q].pc = "ready" => task[q].pc = "ready"
    BY <1>5, <1>1 DEF TaskEnd, TypeInv, TypeOK, Tasks
  <2> QED BY <2>1, <2>2, <1>1, QuietStep
<1>6. CASE TaskSave(r)
  <2> DEFINE s == SettledStatus(receipt[r].status, task[r].outcome)
  <2>1. /\ receipt' = [receipt EXCEPT ![r] = [receipt[r] EXCEPT !.status = s]]
        /\ task' = [task EXCEPT ![r] = NoTask]
        /\ UNCHANGED generations
    BY <1>6, <1>1 DEF TaskSave, TypeInv, TypeOK
  <2>2. receipt[r] \in Receipts /\ s \in {"succeeded", "failed"}
    BY <1>1 DEF TypeInv, TypeOK, SettledStatus, Tasks
  <2> HIDE DEF s
  <2>3. /\ [receipt[r] EXCEPT !.status = s].hash = receipt[r].hash
        /\ [receipt[r] EXCEPT !.status = s].status = s
    BY <2>2 DEF Receipts
  <2>4. SpentInv'
    BY <2>1, <2>2, <2>3, <1>1, NoTaskTypes DEF OnceInv, SpentInv, TypeInv, TypeOK, Running
  <2> QED BY <2>1, <2>4, <1>1, <1>2 DEF TypeInv, TypeOK
<1>7. CASE TaskSaveFails(r)
  <2>1. UNCHANGED <<receipt, generations>> /\ task' = [task EXCEPT ![r] = NoTask]
    BY <1>7 DEF TaskSaveFails, durable
  <2>2. \A q \in Requests : /\ task'[q].pc # "none" => task[q].pc # "none"
                            /\ task'[q].pc = "ready" => task[q].pc = "ready"
    BY <2>1, <1>1, NoTaskTypes DEF TypeInv, TypeOK
  <2> QED BY <2>1, <2>2, <1>1, QuietStep
<1> QED BY <1>3, <1>4, <1>5, <1>6, <1>7 DEF TaskStep

(* A restart removes every executor. *)
LEMMA RestartOnce ==
  ASSUME OnceInv, Restart
  PROVE  SpentInv' /\ AdmittedInv'
<1>1. \A r \in Requests : /\ receipt'[r] = Sealed(receipt[r]) /\ receipt[r] \in Receipts
                          /\ task'[r] = NoTask
                          /\ generations'[r] = generations[r]
  BY DEF Restart, OnceInv, TypeInv, TypeOK
<1>2. \A r \in Requests : /\ Sealed(receipt[r]).hash = receipt[r].hash
                          /\ Sealed(receipt[r]).status # Running
                          /\ Sealed(receipt[r]).status = "absent" => receipt[r].status = "absent"
  BY <1>1 DEF Sealed, Receipts, Running
<1>3. SpentInv'
  BY <1>1, <1>2, NoTaskTypes DEF OnceInv, SpentInv
<1>4. \A p \in Calls : ~Admitted(p)'
  BY DEF Restart, Admitted, Idle
<1> QED BY <1>3, <1>4 DEF AdmittedInv

(* OnceInv reads only these variables. *)
LEMMA StutterOnce ==
  ASSUME OnceInv, UNCHANGED vars
  PROVE  OnceInv'
<1>1. UNCHANGED <<receipt, connection, cooling, locked, call, task, check, generations,
                  issued, lost, told, crashes, storeErrors>>
  BY DEF vars
<1>2. TypeOK'
  BY <1>1 DEF OnceInv, TypeInv, TypeOK
<1>3. CallShape' /\ RowShape'
  BY <1>1 DEF OnceInv, TypeInv, CallShape, RowShape
<1>4. SpentInv' /\ AdmittedInv'
  BY <1>1 DEF OnceInv, SpentInv, AdmittedInv, Admitted
<1> QED BY <1>2, <1>3, <1>4 DEF OnceInv, TypeInv

(* OnceInv is inductive. *)
LEMMA StepOnce == OnceInv /\ [Next]_vars => OnceInv'
<1> SUFFICES ASSUME OnceInv, [Next]_vars PROVE OnceInv'
  OBVIOUS
<1>1. TypeInv /\ CallShape
  BY DEF OnceInv, TypeInv
<1>2. ASSUME NEW p \in Calls, NEW c, Arrived(c), Begin(p, c)
      PROVE  OnceInv'
  <2>1. UNCHANGED <<receipt, generations, task>> /\ call' = [call EXCEPT ![p] = c]
    BY <1>2 DEF Begin, durable
  <2>2. \A q \in Calls : Admitted(q)' => Admitted(q) /\ call'[q].request = call[q].request
    BY <2>1, <1>1, <1>2 DEF Admitted, Arrived, TypeInv, TypeOK
  <2>3. TypeInv'
    BY <1>1, <1>2, BeginTypes
  <2> QED BY <2>1, <2>2, <2>3, <1>1, QuietStep DEF OnceInv
<1>3. ASSUME NEW p \in Calls, Acquire(p) \/ Cancel(p) \/ ClosureFails(p)
      PROVE  OnceInv'
  <2>1. UNCHANGED <<receipt, generations, task>>
    BY <1>3 DEF Acquire, Cancel, ClosureFails, durable
  <2>2. TypeInv'
    BY <1>1, <1>3, AcquireTypes, CancelTypes, ClosureFailsTypes
  <2>3. CASE Acquire(p) \/ Cancel(p)
    <3>1. \A q \in Calls : Admitted(q)' => Admitted(q) /\ call'[q].request = call[q].request
      BY <2>3, <1>1 DEF Acquire, Cancel, Admitted, Idle, TypeInv, TypeOK, Handlers
    <3> QED BY <3>1, <2>1, <2>2, <1>1, QuietStep DEF OnceInv
  <2>4. CASE ClosureFails(p)
    <3>1. \A q \in Calls : Admitted(q)' => Admitted(q) /\ call'[q].request = call[q].request
      BY <2>4, QuietCalls DEF ClosureFails
    <3> QED BY <3>1, <2>1, <2>2, <1>1, QuietStep DEF OnceInv
  <2> QED BY <1>3, <2>3, <2>4
<1>4. ASSUME NEW p \in Calls, RunClosure(p)
      PROVE  OnceInv'
  BY <1>1, <1>4, RunClosureTypes, ClosureOnce DEF OnceInv
<1>5. ASSUME NEW p \in Calls, Resume(p)
      PROVE  OnceInv'
  <2>1. call[p].answer = "admitted" => receipt[call[p].request].status # "absent"
    BY <1>5 DEF Resume, OnceInv, AdmittedInv, Admitted, Running
  <2> QED BY <2>1, <1>1, <1>5, ResumeTypes, ResumeOnce DEF OnceInv
<1>6. ASSUME NEW p \in Calls, CallStep(p)
      PROVE  OnceInv'
  <2>1. CASE \/ PostRequest(p)
             \/ DeleteConnection(p)
             \/ RecheckConnection(p)
             \/ FenceRequest(p)
             \/ GetRequest(p)
    BY <2>1, <1>1, <1>2, Arrivals
  <2> QED BY <1>6, <2>1, <1>3, <1>4, <1>5 DEF CallStep
<1>7. ASSUME NEW r \in Requests, TaskStep(r)
      PROVE  OnceInv'
  <2>1. TypeInv'
    BY <1>1, <1>7, TaskRefreshTypes, TaskDispatchTypes, TaskEndTypes, TaskSaveTypes,
       TaskSaveFailsTypes DEF TaskStep
  <2> QED BY <2>1, <1>7, TaskOnce DEF OnceInv
<1>8. ASSUME NEW c \in Connections, CheckStep(c)
      PROVE  OnceInv'
  <2>1. UNCHANGED <<receipt, call, task, generations>>
    BY <1>8 DEF CheckStep, CheckRefresh, CheckSave, CheckSaveFails, CoolDown, durable
  <2>2. SpentInv' /\ AdmittedInv'
    BY <2>1 DEF OnceInv, SpentInv, AdmittedInv, Admitted
  <2> QED BY <2>2, <1>1, <1>8, CheckStepTypes DEF OnceInv
<1>9. ASSUME Restart
      PROVE  OnceInv'
  BY <1>1, <1>9, RestartTypes, RestartOnce DEF OnceInv
<1> QED BY <1>6, <1>7, <1>8, <1>9, StutterOnce DEF Next

(* OnceInv holds in every reachable state. *)
LEMMA OnceAlways == Spec => []OnceInv
  BY InitOnce, StepOnce, PTL DEF Spec

(* The rows, the handlers in progress and the detached tasks always have   *)
(* the shape the code's tables and futures give them.                      *)
THEOREM TypeCorrect == Spec => []TypeOK
<1>1. OnceInv => TypeOK
  BY DEF OnceInv, TypeInv
<1> QED BY <1>1, OnceAlways, PTL

(* However many handlers race, are dropped or are cut off by a restart, a  *)
(* request ID is generated at most once: post_request's one promise to the *)
(* backend that pays for it.                                               *)
THEOREM GeneratedAtMostOnce == Spec => []AtMostOneGeneration
<1>1. OnceInv => AtMostOneGeneration
  BY DEF OnceInv, SpentInv, AtMostOneGeneration
<1> QED BY <1>1, OnceAlways, PTL

(* A request ID that fence_request sealed has not generated and never      *)
(* will, so the hold released on its answer was not owed.                  *)
THEOREM FenceHolds == Spec => []FencedNeverGenerates
<1>1. OnceInv => FencedNeverGenerates
  BY DEF OnceInv, SpentInv, FencedNeverGenerates
<1> QED BY <1>1, OnceAlways, PTL

------------------------------------------------------------------------------
(* A generation that succeeded was sent.                                   *)
SentInv ==
    \A r \in Requests :
        task[r].pc = "sent" \/ (task[r].pc = "done" /\ task[r].outcome = "succeeded")
            => generations[r] > 0

(* No task has sent anything at the start. *)
LEMMA InitSent == Init => SentInv
  BY DEF Init, SentInv, NoTask

(* A task past its dispatch stays counted in generations. *)
LEMMA StepSent == TypeInv /\ SentInv /\ [Next]_vars => SentInv'
<1> SUFFICES ASSUME TypeInv, SentInv, [Next]_vars PROVE SentInv'
  OBVIOUS
<1>1. /\ task \in [Requests -> Tasks] /\ generations \in [Requests -> Nat]
      /\ call \in [Calls -> Handlers]
  BY DEF TypeInv, TypeOK
<1>2. ASSUME UNCHANGED generations,
             \A r \in Requests : task'[r] = task[r] \/ task'[r].pc \in {"none", "ready"}
      PROVE  SentInv'
  BY <1>2 DEF SentInv
<1>3. ASSUME NEW p \in Calls, Resume(p)
      PROVE  SentInv'
  <2> DEFINE new == [NoTask EXCEPT !.pc = "ready", !.connection = call[p].connection,
                                   !.credential = call[p].credential]
  <2>1. UNCHANGED generations
        /\ (task' = task \/ task' = [task EXCEPT ![call[p].request] = new])
    BY <1>3 DEF Resume
  <2>2. new.pc = "ready"
    BY DEF NoTask
  <2> HIDE DEF new
  <2> QED BY <2>1, <2>2, <1>1, <1>2
<1>4. ASSUME NEW p \in Calls, CallStep(p), ~Resume(p)
      PROVE  SentInv'
  <2>1. UNCHANGED <<task, generations>>
    BY <1>4 DEF CallStep, PostRequest, DeleteConnection, RecheckConnection, FenceRequest,
                GetRequest, Begin, Acquire, Cancel, RunClosure, ClosureFails
  <2> QED BY <2>1, <1>2
<1>5. ASSUME NEW r \in Requests, TaskStep(r)
      PROVE  SentInv'
  <2>1. ASSUME NEW received \in BOOLEAN, TaskRefresh(r, received)
        PROVE  SentInv'
    <3>1. /\ UNCHANGED generations
          /\ \A q \in Requests : /\ task'[q].pc = task[q].pc
                                 /\ task'[q].outcome = task[q].outcome
      BY <2>1, <1>1 DEF TaskRefresh, Tasks
    <3> QED BY <3>1 DEF SentInv
  <2>2. CASE TaskDispatch(r)
    <3>1. /\ generations' = [generations EXCEPT ![r] = generations[r] + 1]
          /\ \A q \in Requests : q # r => task'[q] = task[q]
      BY <2>2, <1>1 DEF TaskDispatch
    <3> QED BY <3>1, <1>1 DEF SentInv
  <2>3. ASSUME NEW outcome \in {"succeeded", "failed"}, TaskEnd(r, outcome)
        PROVE  SentInv'
    <3>1. /\ UNCHANGED generations
          /\ task'[r].outcome = outcome /\ task'[r].pc = "done"
          /\ outcome = "succeeded" => task[r].pc = "sent"
          /\ \A q \in Requests : q # r => task'[q] = task[q]
      BY <2>3, <1>1 DEF TaskEnd, Tasks
    <3> QED BY <3>1 DEF SentInv
  <2>4. CASE TaskSave(r) \/ TaskSaveFails(r)
    <3>1. UNCHANGED generations /\ task' = [task EXCEPT ![r] = NoTask]
      BY <2>4 DEF TaskSave, TaskSaveFails
    <3> QED BY <3>1, <1>1, <1>2, NoTaskTypes
  <2> QED BY <1>5, <2>1, <2>2, <2>3, <2>4 DEF TaskStep
<1>6. ASSUME NEW c \in Connections, CheckStep(c)
      PROVE  SentInv'
  BY <1>2, <1>6 DEF CheckStep, CheckRefresh, CheckSave, CheckSaveFails, CoolDown
<1>7. CASE Restart
  BY <1>2, <1>7, NoTaskTypes DEF Restart
<1>8. CASE UNCHANGED vars
  BY <1>2, <1>8 DEF vars
<1> QED BY <1>3, <1>4, <1>5, <1>6, <1>7, <1>8 DEF Next

(* The initial states of the endpoint map to the ledger's. *)
LEMMA InitLedger == Init => Ledger!Init
  BY DEF Init, Ledger!Init, NoReceipt

(* A step that changes neither the rows nor the dispatches is a stutter.   *)
LEMMA LedgerStutter ==
  ASSUME UNCHANGED <<receipt, generations>>
  PROVE  UNCHANGED Ledger!vars
  BY DEF Ledger!vars

(* An action of one request is a step of the ledger. *)
LEMMA LedgerStep ==
  ASSUME NEW r \in Requests,
         \/ Ledger!Admit(r)
         \/ Ledger!Fence(r)
         \/ Ledger!Dispatch(r)
         \/ \E s \in {"succeeded", "failed"} : Ledger!Settle(r, s)
  PROVE  [Ledger!Next]_(Ledger!vars)
  BY DEF Ledger!Next

(* A closure is an Admit, a Fence or a stutter of the ledger. *)
LEMMA ClosureRefines ==
  ASSUME TypeInv, NEW p \in Calls, RunClosure(p)
  PROVE  [Ledger!Next]_(Ledger!vars)
<1>1. /\ receipt \in [Requests -> Receipts] /\ UNCHANGED generations
      /\ call[p].pc \in {"waiting", "orphan"}
      /\ call[p].op \in {"post", "get", "fence"} => call[p].request \in Requests
  BY DEF RunClosure, TypeInv, TypeOK, CallShape
<1>2. ASSUME UNCHANGED receipt
      PROVE  [Ledger!Next]_(Ledger!vars)
  BY <1>1, <1>2, LedgerStutter
<1>3. CASE AdmitClosure(p)
  <2> DEFINE c == call[p].connection
             h == Hash(c, call[p].owner, call[p].body)
             row == [status |-> Running, owner |-> call[p].owner, hash |-> h]
  <2>1. PICK r \in Requests : r = call[p].request
    BY <1>1, <1>3 DEF AdmitClosure
  <2>2. AdmitKnown(p, r, h) \/ AdmitRefused(p, r, c) \/ AdmitNew(p, r, c, h)
    BY <1>3, <2>1 DEF AdmitClosure, AdmitKnown, AdmitRefused, AdmitNew, Unknown
  <2>3. CASE AdmitKnown(p, r, h) \/ AdmitRefused(p, r, c)
    BY <2>3, <1>2 DEF AdmitKnown, AdmitRefused, durable
  <2>4. CASE AdmitNew(p, r, c, h)
    <3>1. /\ receipt[r].status = "absent" /\ row.status = "running"
          /\ receipt' = [receipt EXCEPT ![r] = row]
      BY <2>4 DEF AdmitNew, Unknown, Running
    <3> HIDE DEF row
    <3>2. Ledger!Admit(r)
      BY <3>1, <1>1 DEF Ledger!Admit
    <3> QED BY <3>2, LedgerStep
  <2> QED BY <2>2, <2>3, <2>4
<1>4. CASE FenceClosure(p)
  <2>1. PICK r \in Requests : r = call[p].request
    BY <1>1, <1>4 DEF FenceClosure
  <2> DEFINE row == Fenced(receipt[r], call[p].owner)
  <2>2. receipt' = [receipt EXCEPT ![r] = row]
    BY <1>4, <2>1 DEF FenceClosure
  <2>3. CASE receipt[r].status = "absent"
    <3>1. row.status = "failed"
      BY <2>3 DEF Fenced, Tombstone
    <3> HIDE DEF row
    <3>2. Ledger!Fence(r)
      BY <2>2, <2>3, <3>1, <1>1 DEF Ledger!Fence
    <3> QED BY <3>2, LedgerStep
  <2>4. CASE receipt[r].status # "absent"
    BY <2>2, <2>4, <1>1, <1>2 DEF Fenced
  <2> QED BY <2>3, <2>4
<1>5. CASE GetClosure(p) \/ DisconnectClosure(p) \/ ClaimClosure(p)
  BY <1>5, <1>2 DEF GetClosure, DisconnectClosure, ClaimClosure, durable
<1> QED BY <1>3, <1>4, <1>5 DEF RunClosure

(* A task's step is a Dispatch, a Settle or a stutter of the ledger. *)
LEMMA TaskRefines ==
  ASSUME OnceInv, SentInv, NEW r \in Requests, TaskStep(r)
  PROVE  [Ledger!Next]_(Ledger!vars)
<1>1. /\ task[r].pc # "none" /\ receipt[r].status = "running"
      /\ receipt \in [Requests -> Receipts] /\ task \in [Requests -> Tasks]
      /\ generations \in [Requests -> Nat]
  BY DEF TaskStep, TaskRefresh, TaskDispatch, TaskEnd, TaskSave, TaskSaveFails, OnceInv,
         TypeInv, TypeOK, SpentInv, Running
<1>2. CASE TaskDispatch(r)
  <2>1. /\ generations[r] = 0 /\ UNCHANGED receipt
        /\ generations' = [generations EXCEPT ![r] = generations[r] + 1]
    BY <1>2 DEF TaskDispatch, OnceInv, SpentInv, durable
  <2>2. Ledger!Dispatch(r)
    BY <2>1, <1>1 DEF Ledger!Dispatch
  <2> QED BY <2>2, LedgerStep
<1>3. CASE TaskSave(r)
  <2>1. PICK s \in {"succeeded", "failed"} : s = task[r].outcome
    BY <1>1 DEF Tasks
  <2>2. /\ receipt' = [receipt EXCEPT ![r] = [receipt[r] EXCEPT !.status = s]]
        /\ UNCHANGED generations /\ task[r].pc = "done"
    BY <1>1, <1>3, <2>1 DEF TaskSave, SettledStatus, Running
  <2>3. s = "succeeded" => generations[r] > 0
    BY <2>1, <2>2 DEF SentInv
  <2>4. [receipt[r] EXCEPT !.status = s].status = s
    BY <1>1 DEF Receipts
  <2>5. Ledger!Settle(r, s)
    BY <2>2, <2>3, <2>4, <1>1 DEF Ledger!Settle
  <2> QED BY <2>5, LedgerStep
<1>4. CASE ~TaskDispatch(r) /\ ~TaskSave(r)
  <2>1. UNCHANGED <<receipt, generations>>
    BY <1>4 DEF TaskStep, TaskRefresh, TaskEnd, TaskSaveFails, durable
  <2> QED BY <2>1, LedgerStutter
<1> QED BY <1>2, <1>3, <1>4

(* Every step of the endpoint is a step of the ledger or a stutter. *)
LEMMA StepLedger == OnceInv /\ SentInv /\ [Next]_vars => [Ledger!Next]_(Ledger!vars)
<1> SUFFICES ASSUME OnceInv, SentInv, [Next]_vars PROVE [Ledger!Next]_(Ledger!vars)
  OBVIOUS
<1>1. ASSUME NEW p \in Calls, CallStep(p)
      PROVE  [Ledger!Next]_(Ledger!vars)
  <2>1. CASE RunClosure(p)
    BY <2>1, ClosureRefines DEF OnceInv
  <2>2. CASE ~RunClosure(p)
    <3>1. UNCHANGED <<receipt, generations>>
      BY <1>1, <2>2 DEF CallStep, PostRequest, DeleteConnection, RecheckConnection,
         FenceRequest, GetRequest, Begin, Acquire, Cancel, ClosureFails, Resume, durable
    <3> QED BY <3>1, LedgerStutter
  <2> QED BY <2>1, <2>2
<1>2. ASSUME NEW r \in Requests, TaskStep(r)
      PROVE  [Ledger!Next]_(Ledger!vars)
  BY <1>2, TaskRefines
<1>3. ASSUME NEW c \in Connections, CheckStep(c)
      PROVE  [Ledger!Next]_(Ledger!vars)
  <2>1. UNCHANGED <<receipt, generations>>
    BY <1>3 DEF CheckStep, CheckRefresh, CheckSave, CheckSaveFails, CoolDown, durable
  <2> QED BY <2>1, LedgerStutter
<1>4. CASE Restart
  <2>1. /\ UNCHANGED generations
        /\ \A r \in Requests : receipt'[r].status = IF receipt[r].status = "running"
                                                    THEN "indeterminate" ELSE receipt[r].status
    BY <1>4 DEF Restart, Sealed, Running, OnceInv, TypeInv, TypeOK, Receipts
  <2>2. Ledger!Restart
    BY <2>1 DEF Ledger!Restart
  <2> QED BY <2>2 DEF Ledger!Next
<1>5. CASE UNCHANGED vars
  BY <1>5, LedgerStutter DEF vars
<1> QED BY <1>1, <1>2, <1>3, <1>4, <1>5 DEF Next

(* The handlers, their orphaned closures, the detached tasks and restarts  *)
(* together implement the ledger the backend relies on.                    *)
THEOREM ImplementsLedger == Spec => LedgerSpec
<1>1. OnceInv => TypeInv
  BY DEF OnceInv
<1>2. Spec => []SentInv
  BY <1>1, InitSent, StepSent, OnceAlways, PTL DEF Spec
<1>3. Spec => Ledger!Spec
  BY <1>2, InitLedger, StepLedger, OnceAlways, PTL DEF Spec, Ledger!Spec
<1> QED BY <1>3 DEF LedgerSpec

------------------------------------------------------------------------------
(* What a row says of an answer given to owner o.                          *)
Truth(row, o, a) ==
    row.owner = o /\ row.status # "absent" /\ (a \in Settled => row.status = a)

(* Every answer given was true of its row, and so is every answer that a   *)
(* closure has committed and its handler has yet to give.                  *)
ToldInv ==
    /\ \A r \in Requests : receipt[r].status = "absent" => receipt[r].owner = None
    /\ \A t \in told : Truth(receipt[t[1]], t[2], t[3])
    /\ \A p \in Calls : call[p].pc = "ready" /\ call[p].answer \in Statuses =>
            Truth(receipt[call[p].request], call[p].owner, call[p].answer)

(* A row keeps its owner, stays present, and is settled once. *)
RowKept(r) ==
    /\ receipt[r].status # "absent" =>
            /\ receipt'[r].owner = receipt[r].owner /\ receipt'[r].status # "absent"
            /\ receipt[r].status \in Settled => receipt'[r].status = receipt[r].status
    /\ receipt'[r].status = "absent" => receipt'[r].owner = receipt[r].owner

(* A closure keeps every row: it inserts an absent one and changes no other. *)
LEMMA ClosureRows ==
  ASSUME TypeInv, NEW p \in Calls, RunClosure(p), NEW r \in Requests
  PROVE  RowKept(r)
<1>1. /\ receipt \in [Requests -> Receipts]
      /\ call[p].pc \in {"waiting", "orphan"}
      /\ call[p].op \in {"post", "get", "fence"} => call[p].request \in Requests
  BY DEF RunClosure, TypeInv, TypeOK, CallShape
<1>2. CASE UNCHANGED receipt
  BY <1>2 DEF RowKept
<1>3. CASE AdmitClosure(p) /\ ~UNCHANGED receipt
  <2>1. PICK h : AdmitNew(p, call[p].request, call[p].connection, h)
    BY <1>3 DEF AdmitClosure, AdmitKnown, AdmitRefused, durable
  <2>2. receipt[call[p].request].status = "absent" /\ call[p].request \in Requests
    BY <2>1, <1>1, <1>3 DEF AdmitNew, Unknown, AdmitClosure
  <2> QED BY <2>1, <2>2, <1>1 DEF AdmitNew, RowKept, Running
<1>4. CASE FenceClosure(p)
  BY <1>1, <1>4 DEF FenceClosure, Fenced, Tombstone, RowKept
<1> QED BY <1>2, <1>3, <1>4 DEF RunClosure, GetClosure, DisconnectClosure, ClaimClosure, durable

(* Every step keeps every row. *)
LEMMA RowsKeptByAll ==
  ASSUME OnceInv, [Next]_vars, NEW r \in Requests
  PROVE  RowKept(r)
<1>1. receipt \in [Requests -> Receipts] /\ task \in [Requests -> Tasks]
  BY DEF OnceInv, TypeInv, TypeOK
<1>2. CASE UNCHANGED receipt
  BY <1>2 DEF RowKept
<1>3. ASSUME NEW p \in Calls, CallStep(p), ~UNCHANGED receipt
      PROVE  RowKept(r)
  <2>1. RunClosure(p)
    BY <1>3 DEF CallStep, PostRequest, DeleteConnection, RecheckConnection, FenceRequest, GetRequest,
       Begin, Acquire, Cancel, ClosureFails, Resume, durable
  <2> QED BY <2>1, ClosureRows DEF OnceInv
<1>4. ASSUME NEW q \in Requests, TaskStep(q), ~UNCHANGED receipt
      PROVE  RowKept(r)
  <2>1. receipt' = [receipt EXCEPT ![q].status = SettledStatus(@, task[q].outcome)]
    BY <1>4 DEF TaskStep, TaskRefresh, TaskDispatch, TaskEnd, TaskSave, TaskSaveFails, durable
  <2> QED BY <2>1, <1>1 DEF SettledStatus, RowKept, Receipts, Tasks, Settled, Running
<1>5. CASE Restart
  BY <1>1, <1>5 DEF Restart, Sealed, RowKept, Receipts, Settled, Running
<1> QED BY <1>2, <1>3, <1>4, <1>5
     DEF Next, vars, durable, CheckStep, CheckRefresh, CheckSave, CheckSaveFails, CoolDown

(* What was true of a row stays true while the row is kept. *)
LEMMA TruthKept ==
  ASSUME NEW r \in Requests, RowKept(r), NEW o, NEW a, Truth(receipt[r], o, a)
  PROVE  Truth(receipt'[r], o, a)
  BY DEF RowKept, Truth

(* What the readers are told stays true as long as each new answer is. *)
LEMMA ToldKept ==
  ASSUME OnceInv, ToldInv, [Next]_vars,
         \A t \in told' : t \in told \/ Truth(receipt'[t[1]], t[2], t[3]),
         \A p \in Calls : call'[p].pc = "ready" /\ call'[p].answer \in Statuses =>
            call'[p] = call[p] \/ Truth(receipt'[call'[p].request], call'[p].owner, call'[p].answer)
  PROVE  ToldInv'
<1>1. told \subseteq Requests \X Owners \X Statuses
  BY DEF OnceInv, TypeInv, TypeOK
<1>2. ASSUME NEW t \in told'
      PROVE  Truth(receipt'[t[1]], t[2], t[3])
  <2>1. CASE t \in told
    <3>1. t[1] \in Requests /\ Truth(receipt[t[1]], t[2], t[3])
      BY <1>1, <2>1 DEF ToldInv
    <3> QED BY <3>1, RowsKeptByAll, TruthKept
  <2> QED BY <2>1
<1>3. ASSUME NEW p \in Calls, call'[p].pc = "ready", call'[p].answer \in Statuses
      PROVE  Truth(receipt'[call'[p].request], call'[p].owner, call'[p].answer)
  <2>1. CASE call'[p] = call[p]
    <3>1. call[p].request \in Requests
      BY <1>3, <2>1 DEF OnceInv, TypeInv, CallShape
    <3>2. Truth(receipt[call[p].request], call[p].owner, call[p].answer)
      BY <1>3, <2>1 DEF ToldInv
    <3>3. RowKept(call[p].request)
      BY <3>1, RowsKeptByAll
    <3>4. Truth(receipt'[call[p].request], call[p].owner, call[p].answer)
      BY <3>2, <3>3 DEF RowKept, Truth
    <3> QED BY <2>1, <3>4
  <2> QED BY <1>3, <2>1
<1>4. \A r \in Requests : receipt'[r].status = "absent" => receipt'[r].owner = None
  <2>1. \A r \in Requests : RowKept(r) BY RowsKeptByAll
  <2> QED BY <2>1 DEF RowKept, ToldInv
<1> QED BY <1>2, <1>3, <1>4 DEF ToldInv

(* A closure answers a status only to the owner of the row it read. *)
LEMMA ClosureTells ==
  ASSUME TypeInv, ToldInv, NEW p \in Calls, RunClosure(p)
  PROVE  /\ call'[p].pc = "ready" /\ call'[p].answer \in Statuses =>
                Truth(receipt'[call'[p].request], call'[p].owner, call'[p].answer)
         /\ \A q \in Calls : q # p => call'[q] = call[q]
<1>1. /\ receipt \in [Requests -> Receipts] /\ call \in [Calls -> Handlers]
      /\ call[p].pc \in {"waiting", "orphan"} /\ call[p].owner \in Owners /\ call[p].owner # None
      /\ call[p].op \in {"post", "get", "fence"} => call[p].request \in Requests
  BY InferxAssumption DEF RunClosure, TypeInv, TypeOK, CallShape
<1>2. ASSUME NEW a, NEW k, Answer(p, a, k),
             a \in Statuses => Truth(receipt'[call[p].request], call[p].owner, a)
      PROVE  /\ call'[p].pc = "ready" /\ call'[p].answer \in Statuses =>
                    Truth(receipt'[call'[p].request], call'[p].owner, call'[p].answer)
             /\ \A q \in Calls : q # p => call'[q] = call[q]
  <2>1. \A q \in Calls : q # p => call'[q] = call[q]
    BY <1>1, <1>2 DEF Answer
  <2>2. call'[p].pc = "ready" =>
            call'[p].answer = a /\ call'[p].request = call[p].request /\ call'[p].owner = call[p].owner
    BY <1>1, <1>2 DEF Answer, Handlers, Idle
  <2> QED BY <1>2, <2>1, <2>2
<1>3. ASSUME NEW row \in Receipts, row.status = "absent" => row.owner # call[p].owner,
             ReceiptAnswer(row, call[p].owner) \in Statuses
      PROVE  Truth(row, call[p].owner, ReceiptAnswer(row, call[p].owner))
  BY <1>3 DEF ReceiptAnswer, Truth, Statuses, Settled, Running
<1>4. \A r \in Requests : receipt[r].status = "absent" => receipt[r].owner # call[p].owner
  BY <1>1 DEF ToldInv
<1>5. ASSUME NEW a \in {"conflict", "notFound", "ok", "claimed", "admitted", "unsupportedModel"}, NEW k,
             Answer(p, a, k)
      PROVE  /\ call'[p].pc = "ready" /\ call'[p].answer \in Statuses =>
                    Truth(receipt'[call'[p].request], call'[p].owner, call'[p].answer)
             /\ \A q \in Calls : q # p => call'[q] = call[q]
  <2>1. a \notin Statuses BY DEF Statuses, Settled, Running
  <2> QED BY <1>2, <1>5, <2>1
<1>6. CASE AdmitClosure(p)
  <2> DEFINE r == call[p].request
             c == call[p].connection
             h == Hash(c, call[p].owner, call[p].body)
  <2>1. AdmitKnown(p, r, h) \/ AdmitRefused(p, r, c) \/ AdmitNew(p, r, c, h)
    BY <1>6 DEF AdmitClosure
  <2>2. CASE AdmitKnown(p, r, h)
    <3>1. r \in Requests /\ UNCHANGED receipt
      BY <1>1, <1>6, <2>2 DEF AdmitClosure, AdmitKnown, durable
    <3>2. \/ Answer(p, "conflict", None)
          \/ Answer(p, ReceiptAnswer(receipt[r], call[p].owner), None)
      BY <2>2 DEF AdmitKnown
    <3>3. receipt[r] \in Receipts BY <1>1, <3>1
    <3>4. CASE Answer(p, "conflict", None) BY <1>5, <3>4
    <3>5. CASE Answer(p, ReceiptAnswer(receipt[r], call[p].owner), None)
      BY <1>2, <1>3, <1>4, <3>1, <3>3, <3>5
    <3> QED BY <3>2, <3>4, <3>5
  <2>3. CASE AdmitRefused(p, r, c)
    BY <2>3, <1>5 DEF AdmitRefused
  <2>4. CASE AdmitNew(p, r, c, h)
    BY <2>4, <1>5 DEF AdmitNew
  <2> QED BY <2>1, <2>2, <2>3, <2>4
<1>7. CASE FenceClosure(p)
  <2> DEFINE r == call[p].request
             o == call[p].owner
             row == Fenced(receipt[r], o)
  <2>1. /\ r \in Requests /\ receipt' = [receipt EXCEPT ![r] = row]
        /\ Answer(p, ReceiptAnswer(row, o), None)
    BY <1>7, <1>1 DEF FenceClosure
  <2>2. row \in Receipts /\ row.status # "absent"
    BY <2>1, <1>1 DEF Fenced, Tombstone, Receipts, Statuses, Settled, Hashes
  <2>3. receipt'[r] = row BY <2>1, <1>1
  <2> HIDE DEF row
  <2> QED BY <1>2, <1>3, <2>1, <2>2, <2>3
<1>8. CASE GetClosure(p)
  <2>1. /\ call[p].request \in Requests /\ UNCHANGED receipt
        /\ Answer(p, ReceiptAnswer(receipt[call[p].request], call[p].owner), None)
    BY <1>1, <1>8 DEF GetClosure, durable
  <2> QED BY <1>1, <1>2, <1>3, <1>4, <2>1
<1>9. CASE DisconnectClosure(p) \/ ClaimClosure(p)
  BY <1>9, <1>5 DEF DisconnectClosure, ClaimClosure
<1> QED BY <1>6, <1>7, <1>8, <1>9 DEF RunClosure

(* Nothing has been told at the start. *)
LEMMA InitTold == Init => ToldInv
  BY DEF Init, ToldInv, NoReceipt, Idle

(* Every step keeps what was told true. *)
LEMMA StepTold == OnceInv /\ ToldInv /\ [Next]_vars => ToldInv'
<1> SUFFICES ASSUME OnceInv, ToldInv, [Next]_vars PROVE ToldInv'
  OBVIOUS
<1>1. call \in [Calls -> Handlers] /\ TypeInv
  BY DEF OnceInv, TypeInv, TypeOK
<1>2. ASSUME UNCHANGED told,
             \A p \in Calls : call'[p] = call[p] \/ call'[p].pc # "ready" \/ call'[p].answer \notin Statuses
      PROVE  ToldInv'
  BY <1>2, ToldKept
<1>3. ASSUME NEW p \in Calls, RunClosure(p)
      PROVE  ToldInv'
  <2>1. UNCHANGED told BY <1>3 DEF RunClosure
  <2> QED BY <1>1, <1>3, <2>1, ClosureTells, ToldKept
<1>4. ASSUME NEW p \in Calls, Resume(p)
      PROVE  ToldInv'
  <2>1. /\ \A t \in told' : t \in told \/ (call[p].answer \in Statuses
                                           /\ t = <<call[p].request, call[p].owner, call[p].answer>>)
        /\ UNCHANGED receipt /\ call[p].pc = "ready"
    BY <1>4 DEF Resume, durable
  <2>2. \A t \in told' : t \in told \/ Truth(receipt'[t[1]], t[2], t[3])
    BY <2>1 DEF ToldInv
  <2>3. \A q \in Calls : call'[q] = call[q] \/ call'[q].pc # "ready"
    BY <1>1, <1>4 DEF Resume, Idle
  <2> QED BY <2>2, <2>3, ToldKept
<1>5. ASSUME NEW p \in Calls, CallStep(p), ~RunClosure(p), ~Resume(p)
      PROVE  ToldInv'
  <2>1. CASE \/ PostRequest(p)
             \/ DeleteConnection(p)
             \/ RecheckConnection(p)
             \/ FenceRequest(p)
             \/ GetRequest(p)
    <3>1. PICK c : Arrived(c) /\ Begin(p, c)
      BY <1>1, <2>1, Arrivals
    <3> QED BY <1>1, <1>2, <3>1 DEF Begin, Arrived
  <2>2. CASE Acquire(p) \/ Cancel(p)
    BY <1>1, <1>2, <2>2 DEF Acquire, Cancel, Idle, Handlers
  <2>3. CASE ClosureFails(p)
    <3>1. "error" \notin Statuses BY DEF Statuses, Settled, Running
    <3> QED BY <1>1, <1>2, <2>3, <3>1 DEF ClosureFails, Answer, Idle, Handlers
  <2> QED BY <1>5, <2>1, <2>2, <2>3 DEF CallStep
<1>6. ASSUME NEW r \in Requests, TaskSave(r)
      PROVE  ToldInv'
  <2> DEFINE s == SettledStatus(receipt[r].status, task[r].outcome)
  <2>1. /\ receipt' = [receipt EXCEPT ![r] = [receipt[r] EXCEPT !.status = s]]
        /\ told' = told \cup {<<r, receipt[r].owner, s>>}
        /\ UNCHANGED call
    BY <1>1, <1>6 DEF TaskSave, TypeInv, TypeOK
  <2>2. receipt[r] \in Receipts /\ s \in {"succeeded", "failed"}
    BY <1>6 DEF TaskSave, OnceInv, SpentInv, TypeInv, TypeOK, SettledStatus, Tasks
  <2> HIDE DEF s
  <2>3. Truth(receipt'[r], receipt[r].owner, s)
    BY <1>1, <2>1, <2>2 DEF TypeInv, TypeOK, Receipts, Truth
  <2> QED BY <2>1, <2>3, ToldKept
<1>7. ASSUME NEW r \in Requests, TaskStep(r), ~TaskSave(r)
      PROVE  ToldInv'
  BY <1>2, <1>7 DEF TaskStep, TaskRefresh, TaskDispatch, TaskEnd, TaskSaveFails
<1>8. ASSUME NEW c \in Connections, CheckStep(c)
      PROVE  ToldInv'
  BY <1>2, <1>8 DEF CheckStep, CheckRefresh, CheckSave, CheckSaveFails, CoolDown
<1>9. CASE Restart
  BY <1>2, <1>9 DEF Restart, Idle
<1>10. CASE UNCHANGED vars
  BY <1>2, <1>10 DEF vars
<1> QED BY <1>3, <1>4, <1>5, <1>6, <1>7, <1>8, <1>9, <1>10 DEF Next

(* What a seller was told of a request stays true and was his to know,     *)
(* whatever posts, fences, reads, saves and restarts come after.           *)
THEOREM ToldForGood == Spec => []Told
<1>1. ToldInv => Told
  BY DEF ToldInv, Told, Truth, ToldSettledStays, ToldOnlyToOwner
<1> QED BY <1>1, InitTold, StepTold, OnceAlways, PTL DEF Spec

(***************************************************************************)
(* The connection's lock: its holders exclude each other and no            *)
(* refresh-token rotation is lost between them.                            *)
(***************************************************************************)

(* What holds the lock of connection c: a handler, a detached execution or *)
(* a detached recheck.                                                     *)
CallOn(p, c) == HoldsLock(p) /\ call[p].connection = c
TaskOn(r, c) == task[r].pc # "none" /\ task[r].connection = c

(* Each excludes the others, and a lock that is held has a holder.         *)
OneHolder(c) ==
    /\ \A p \in Calls : CallOn(p, c) =>
          /\ c \in locked /\ ~check[c].running
          /\ \A q \in Calls : CallOn(q, c) => q = p
          /\ \A r \in Requests : ~TaskOn(r, c)
    /\ \A r \in Requests : TaskOn(r, c) =>
          /\ c \in locked /\ ~check[c].running
          /\ \A q \in Requests : TaskOn(q, c) => q = r
    /\ check[c].running => c \in locked
    /\ c \in locked =>
          \/ \E p \in Calls : CallOn(p, c)
          \/ \E r \in Requests : TaskOn(r, c)
          \/ check[c].running
LockInv == \A c \in Connections : OneHolder(c)

(* The credential that a holder is to work with. *)
Handed(p) == call[p].pc = "ready" /\ Detaches(call[p].answer)

(* While its connection is registered and no rotation was lost, whoever    *)
(* may use the credential has the newest one.                              *)
Newest(c) ==
    connection[c].status = "registered" /\ c \notin lost =>
        /\ (\A r \in Requests : ~TaskOn(r, c)) /\ ~check[c].running => connection[c].credential = issued[c]
        /\ \A r \in Requests : TaskOn(r, c) => task[r].credential = issued[c]
        /\ check[c].running => check[c].credential = issued[c]
        /\ \A p \in Calls : Handed(p) /\ call[p].connection = c => call[p].credential = issued[c]
NewestInv == \A c \in Connections : Newest(c)

(* An execution works for the owner of its connection. *)
OwnerInv ==
    /\ \A r \in Requests : task[r].pc # "none" =>
            receipt[r].owner = connection[task[r].connection].owner
    /\ \A p \in Calls : Admitted(p) =>
            /\ receipt[call[p].request].owner = call[p].owner
            /\ connection[call[p].connection].owner = call[p].owner

HeldInv == OnceInv /\ LockInv /\ NewestInv /\ OwnerInv /\ DisconnectErases

------------------------------------------------------------------------------
(* The holders of one connection are the set Holders(c).                   *)
LEMMA HoldersCount ==
  ASSUME LockInv, NEW c \in Connections
  PROVE  Cardinality(Holders(c)) = (IF c \in locked THEN 1 ELSE 0)
<1>1. \A x \in Holders(c) :
         \/ \E p \in Calls : x = <<"call", p>> /\ CallOn(p, c)
         \/ \E r \in Requests : x = <<"task", r>> /\ TaskOn(r, c)
         \/ x = <<"check", c>> /\ check[c].running
  BY DEF Holders, CallOn, TaskOn
<1>2. CASE c \notin locked
  <2>1. Holders(c) = {} BY <1>1, <1>2 DEF LockInv, OneHolder
  <2> QED BY <1>2, <2>1, FS_EmptySet
<1>3. CASE c \in locked
  <2>1. PICK x : x \in Holders(c)
    <3>1. \A p \in Calls : CallOn(p, c) => <<"call", p>> \in Holders(c) BY DEF Holders, CallOn
    <3>2. \A r \in Requests : TaskOn(r, c) => <<"task", r>> \in Holders(c) BY DEF Holders, TaskOn
    <3>3. check[c].running => <<"check", c>> \in Holders(c) BY DEF Holders
    <3> QED BY <1>3, <3>1, <3>2, <3>3 DEF LockInv, OneHolder
  <2>2. \A y \in Holders(c) : y = x BY <1>1, <2>1 DEF LockInv, OneHolder
  <2>3. Holders(c) = {x} BY <2>1, <2>2
  <2> QED BY <1>3, <2>3, FS_Singleton
<1> QED BY <1>2, <1>3

(* The lock, when nothing of it moves. *)
LEMMA SameHolders ==
  ASSUME LockInv, UNCHANGED <<locked>>,
         \A p \in Calls : (HoldsLock(p)' <=> HoldsLock(p))
                          /\ (HoldsLock(p) => call'[p].connection = call[p].connection),
         \A r \in Requests : (task'[r].pc = "none" <=> task[r].pc = "none")
                          /\ (task[r].pc # "none" => task'[r].connection = task[r].connection),
         \A c \in Connections : check'[c].running = check[c].running
  PROVE  LockInv'
<1> SUFFICES ASSUME NEW c \in Connections PROVE OneHolder(c)'
  BY DEF LockInv
<1>1. \A p \in Calls : CallOn(p, c)' <=> CallOn(p, c) BY DEF CallOn
<1>2. \A r \in Requests : TaskOn(r, c)' <=> TaskOn(r, c) BY DEF TaskOn
<1>3. OneHolder(c) BY DEF LockInv
<1> QED BY <1>1, <1>2, <1>3 DEF OneHolder

(* The lock of connection c, when only it moves. *)
LEMMA OtherHolders ==
  ASSUME LockInv, NEW c \in Connections, OneHolder(c)',
         \A d \in Connections : d # c => (d \in locked' <=> d \in locked) /\ check'[d].running = check[d].running,
         \A d \in Connections, p \in Calls : d # c => (CallOn(p, d)' <=> CallOn(p, d)),
         \A d \in Connections, r \in Requests : d # c => (TaskOn(r, d)' <=> TaskOn(r, d))
  PROVE  LockInv'
<1> SUFFICES ASSUME NEW d \in Connections, d # c PROVE OneHolder(d)'
  BY DEF LockInv
<1>1. OneHolder(d) BY DEF LockInv
<1> QED BY <1>1 DEF OneHolder

(* A handler that returns or is dropped releases what it held. *)
LEMMA CallReleases ==
  ASSUME TypeInv, LockInv, NEW p \in Calls, ~HoldsLock(p)', locked' = Unlocked(p), UNCHANGED <<task, check>>,
         \A q \in Calls : q # p => call'[q] = call[q]
  PROVE  LockInv'
<1>1. \A d \in Connections, q \in Calls : q # p => (CallOn(q, d)' <=> CallOn(q, d))
  BY DEF CallOn, HoldsLock
<1>2. \A d \in Connections : ~CallOn(p, d)'
  BY DEF CallOn
<1>3. \A d \in Connections, r \in Requests : TaskOn(r, d)' <=> TaskOn(r, d)
  BY DEF TaskOn
<1>4. HoldsLock(p) => call[p].connection \in Connections
  BY DEF HoldsLock, TypeInv, CallShape
<1>5. ASSUME NEW d \in Connections PROVE OneHolder(d)'
  <2>1. OneHolder(d) BY DEF LockInv
  <2>2. CASE CallOn(p, d)
    <3>1. locked' = locked \ {d} BY <2>2 DEF CallOn, Unlocked
    <3> QED BY <1>1, <1>2, <1>3, <2>1, <2>2, <3>1 DEF OneHolder
  <2>3. CASE ~CallOn(p, d)
    <3>1. d \in locked' <=> d \in locked BY <1>4, <2>3 DEF CallOn, Unlocked
    <3>2. \A q \in Calls : CallOn(q, d)' <=> CallOn(q, d) BY <1>1, <1>2, <2>3
    <3> QED BY <1>3, <2>1, <3>1, <3>2 DEF OneHolder
  <2> QED BY <2>2, <2>3
<1> QED BY <1>5 DEF LockInv

(* The end of an execution releases its connection's lock. *)
LEMMA TaskReleases ==
  ASSUME TypeInv, LockInv, NEW r \in Requests, task[r].pc # "none",
         task' = [task EXCEPT ![r] = NoTask], locked' = locked \ {task[r].connection}, UNCHANGED <<call, check>>
  PROVE  LockInv'
<1>1. \A d \in Connections, q \in Calls : CallOn(q, d)' <=> CallOn(q, d)
  BY DEF CallOn, HoldsLock
<1>2. /\ \A d \in Connections, q \in Requests : q # r => (TaskOn(q, d)' <=> TaskOn(q, d))
      /\ \A d \in Connections : ~TaskOn(r, d)'
  BY NoTaskTypes DEF TaskOn, TypeInv, TypeOK
<1>3. ASSUME NEW d \in Connections PROVE OneHolder(d)'
  <2>1. OneHolder(d) BY DEF LockInv
  <2>2. CASE d = task[r].connection
    <3>1. TaskOn(r, d) BY <2>2 DEF TaskOn
    <3> QED BY <1>1, <1>2, <2>1, <2>2, <3>1 DEF OneHolder
  <2>3. CASE d # task[r].connection
    <3>1. \A q \in Requests : TaskOn(q, d)' <=> TaskOn(q, d) BY <1>2, <2>3 DEF TaskOn
    <3> QED BY <1>1, <2>1, <2>3, <3>1 DEF OneHolder
  <2> QED BY <2>2, <2>3
<1> QED BY <1>3 DEF LockInv

(* So does the end of a recheck. *)
LEMMA CheckReleases ==
  ASSUME TypeInv, LockInv, NEW c \in Connections, check[c].running,
         check' = [check EXCEPT ![c] = NoCheck], locked' = locked \ {c}, UNCHANGED <<call, task>>
  PROVE  LockInv'
<1>1. \A d \in Connections, q \in Calls : CallOn(q, d)' <=> CallOn(q, d)
  BY DEF CallOn, HoldsLock
<1>2. \A d \in Connections, q \in Requests : TaskOn(q, d)' <=> TaskOn(q, d)
  BY DEF TaskOn
<1>3. ~check'[c].running /\ \A d \in Connections : d # c => check'[d] = check[d]
  BY DEF NoCheck, TypeInv, TypeOK
<1>4. OneHolder(c)'
  <2>1. OneHolder(c) BY DEF LockInv
  <2> QED BY <1>1, <1>2, <1>3, <2>1 DEF OneHolder
<1> QED BY <1>1, <1>2, <1>3, <1>4, OtherHolders

(* The guard that a handler moves into the task it spawns. *)
LEMMA GuardToTask ==
  ASSUME OnceInv, LockInv, NEW p \in Calls, Admitted(p), NEW k,
         task' = [task EXCEPT ![call[p].request] =
                    [NoTask EXCEPT !.pc = "ready", !.connection = call[p].connection, !.credential = k]],
         call' = [call EXCEPT ![p] = Idle], UNCHANGED <<locked, check>>
  PROVE  LockInv'
<1>0. call[p].op = "post" /\ call[p].connection \in Connections /\ call[p].request \in Requests
  BY DEF Admitted, OnceInv, TypeInv, CallShape, Locking
<1> PICK c \in Connections, r \in Requests : c = call[p].connection /\ r = call[p].request
  BY <1>0
<1> DEFINE new == [NoTask EXCEPT !.pc = "ready", !.connection = c, !.credential = k]
<1>1. CallOn(p, c) /\ call \in [Calls -> Handlers] /\ task \in [Requests -> Tasks]
  BY <1>0 DEF Admitted, OnceInv, TypeInv, TypeOK, Locking, CallOn, HoldsLock
<1>2. task[r].pc = "none" BY DEF OnceInv, AdmittedInv
<1>3. new.pc = "ready" /\ new.connection = c BY DEF NoTask
<1>4. task' = [task EXCEPT ![r] = new] OBVIOUS
<1> HIDE DEF new
<1>5. /\ \A d \in Connections, q \in Calls : q # p => (CallOn(q, d)' <=> CallOn(q, d))
      /\ \A d \in Connections : ~CallOn(p, d)'
  BY <1>1 DEF CallOn, HoldsLock, Idle
<1>6. /\ \A d \in Connections, q \in Requests : q # r => (TaskOn(q, d)' <=> TaskOn(q, d))
      /\ \A d \in Connections : TaskOn(r, d)' <=> d = c
      /\ \A d \in Connections : ~TaskOn(r, d)
  BY <1>1, <1>2, <1>3, <1>4 DEF TaskOn
<1>7. \A d \in Connections : d # c => ~CallOn(p, d) BY DEF CallOn
<1>8. OneHolder(c)'
  <2>1. OneHolder(c) BY <1>1 DEF LockInv
  <2> QED BY <1>1, <1>5, <1>6, <2>1 DEF OneHolder
<1> QED BY <1>1, <1>5, <1>6, <1>7, <1>8, OtherHolders

(* The guard that a handler moves into the recheck it spawns. *)
LEMMA GuardToCheck ==
  ASSUME TypeInv, LockInv, NEW p \in Calls, call[p].pc = "ready", call[p].answer = "claimed", NEW k,
         check' = [check EXCEPT ![call[p].connection] = [running |-> TRUE, credential |-> k]],
         call' = [call EXCEPT ![p] = Idle], UNCHANGED <<locked, task>>
  PROVE  LockInv'
<1> PICK c \in Connections : c = call[p].connection
  BY DEF TypeInv, CallShape, Locking
<1>1. CallOn(p, c) /\ call \in [Calls -> Handlers] /\ check \in [Connections -> Checks]
  BY DEF TypeInv, TypeOK, CallShape, Locking, CallOn, HoldsLock
<1>2. /\ \A d \in Connections, q \in Calls : q # p => (CallOn(q, d)' <=> CallOn(q, d))
      /\ \A d \in Connections : ~CallOn(p, d)'
  BY <1>1 DEF CallOn, HoldsLock, Idle
<1>3. \A d \in Connections, q \in Requests : TaskOn(q, d)' <=> TaskOn(q, d)
  BY DEF TaskOn
<1>4. check'[c].running /\ \A d \in Connections : d # c => check'[d] = check[d]
  BY <1>1
<1>5. \A d \in Connections : d # c => ~CallOn(p, d) BY DEF CallOn
<1>6. OneHolder(c)'
  <2>1. OneHolder(c) BY <1>1 DEF LockInv
  <2> QED BY <1>1, <1>2, <1>3, <1>4, <2>1 DEF OneHolder
<1>7. \A d \in Connections, q \in Calls : d # c => (CallOn(q, d)' <=> CallOn(q, d))
  BY <1>2, <1>5
<1>8. \A d \in Connections : d # c => (d \in locked' <=> d \in locked) /\ check'[d].running = check[d].running
  BY <1>4
<1>9. c \in Connections /\ \A d \in Connections, q \in Requests : d # c => (TaskOn(q, d)' <=> TaskOn(q, d))
  BY <1>3
<1> QED BY <1>6, <1>7, <1>8, <1>9, OtherHolders

(* An answer leaves a live handler's guard where it is. *)
LEMMA AnswerHolds ==
  ASSUME TypeInv, LockInv, NEW p \in Calls, NEW a, NEW k, Answer(p, a, k), call[p].pc \in {"waiting", "orphan"},
         UNCHANGED <<locked, task, check>>
  PROVE  LockInv'
<1>1. /\ \A q \in Calls : q # p => call'[q] = call[q]
      /\ HoldsLock(p)' <=> HoldsLock(p)
      /\ HoldsLock(p) => call'[p].connection = call[p].connection
  BY DEF Answer, HoldsLock, Idle, TypeInv, TypeOK, Handlers
<1> QED BY <1>1, SameHolders DEF HoldsLock

(* The lock at every step of a handler. *)
LEMMA CallLock ==
  ASSUME OnceInv, LockInv, NEW p \in Calls, CallStep(p)
  PROVE  LockInv'
<1>1. call \in [Calls -> Handlers] /\ TypeInv
  BY DEF OnceInv, TypeInv, TypeOK
<1>2. CASE \/ PostRequest(p)
           \/ DeleteConnection(p)
           \/ RecheckConnection(p)
           \/ FenceRequest(p)
           \/ GetRequest(p)
  <2>1. ASSUME NEW c, Begin(p, c), c.pc = "locking" \/ c.op \notin Locking
        PROVE  LockInv'
    <3>1. ~HoldsLock(p) /\ ~HoldsLock(p)' /\ \A q \in Calls : q # p => call'[q] = call[q]
      BY <1>1, <2>1 DEF Begin, HoldsLock
    <3>2. UNCHANGED <<locked, task, check>> BY <2>1 DEF Begin
    <3> QED BY <1>1, <3>1, <3>2, CallReleases DEF Unlocked
  <2>2. CASE PostRequest(p)
    <3>1. PICK r \in Requests, c \in Connections, o \in Owners, b \in Bodies :
            Begin(p, [Idle EXCEPT !.pc = "locking", !.op = "post", !.request = r,
                                  !.connection = c, !.owner = o, !.body = b])
      BY <2>2 DEF PostRequest
    <3> QED BY <2>1, <3>1 DEF Idle
  <2>3. CASE DeleteConnection(p)
    <3>1. PICK c \in Connections, o \in Owners :
            Begin(p, [Idle EXCEPT !.pc = "locking", !.op = "disconnect", !.connection = c, !.owner = o])
      BY <2>3 DEF DeleteConnection
    <3> QED BY <2>1, <3>1 DEF Idle
  <2>4. CASE RecheckConnection(p)
    <3>1. PICK c \in Connections :
            Begin(p, [Idle EXCEPT !.pc = "locking", !.op = "recheck", !.connection = c,
                                  !.owner = connection[c].owner])
      BY <2>4 DEF RecheckConnection
    <3> QED BY <2>1, <3>1 DEF Idle
  <2>5. CASE FenceRequest(p)
    <3>1. PICK r \in Requests, o \in Owners :
            Begin(p, [Idle EXCEPT !.pc = "waiting", !.op = "fence", !.request = r, !.owner = o])
      BY <2>5 DEF FenceRequest
    <3> QED BY <2>1, <3>1 DEF Idle, Locking
  <2>6. CASE GetRequest(p)
    <3>1. PICK r \in Requests, o \in Owners :
            Begin(p, [Idle EXCEPT !.pc = "waiting", !.op = "get", !.request = r, !.owner = o])
      BY <2>6 DEF GetRequest
    <3> QED BY <2>1, <3>1 DEF Idle, Locking
  <2> QED BY <1>2, <2>2, <2>3, <2>4, <2>5, <2>6
<1>3. CASE Acquire(p)
  <2>1. call[p].connection \in Connections /\ call[p].op \in Locking /\ call[p].pc = "locking"
    BY <1>1, <1>3 DEF Acquire, TypeInv, CallShape
  <2> PICK c \in Connections : c = call[p].connection
    BY <2>1
  <2>2. /\ CallOn(p, c)' /\ \A d \in Connections : d # c => ~CallOn(p, d)' /\ ~CallOn(p, d)
        /\ \A d \in Connections, q \in Calls : q # p => (CallOn(q, d)' <=> CallOn(q, d))
        /\ \A d \in Connections, r \in Requests : TaskOn(r, d)' <=> TaskOn(r, d)
        /\ c \notin locked /\ locked' = locked \cup {c} /\ UNCHANGED check
    BY <1>1, <1>3, <2>1 DEF Acquire, CallOn, TaskOn, HoldsLock, Handlers
  <2>3. OneHolder(c)'
    <3>1. OneHolder(c) BY <2>1 DEF LockInv
    <3> QED BY <2>2, <3>1 DEF OneHolder
  <2> QED BY <2>1, <2>2, <2>3, OtherHolders
<1>4. CASE Cancel(p)
  <2>1. ~HoldsLock(p)' /\ \A q \in Calls : q # p => call'[q] = call[q]
    BY <1>1, <1>4 DEF Cancel, HoldsLock, Idle, Handlers
  <2> QED BY <1>1, <1>4, <2>1, CallReleases DEF Cancel
<1>5. CASE RunClosure(p) \/ ClosureFails(p)
  <2>1. PICK a, k : Answer(p, a, k)
    BY <1>5 DEF RunClosure, AdmitClosure, AdmitKnown, AdmitRefused, AdmitNew, FenceClosure, GetClosure,
       DisconnectClosure, ClaimClosure, ClosureFails
  <2> QED BY <1>1, <1>5, <2>1, AnswerHolds DEF RunClosure, ClosureFails
<1>6. CASE Resume(p)
  <2>1. CASE Admitted(p)
    <3>1. /\ task' = [task EXCEPT ![call[p].request] =
                        [NoTask EXCEPT !.pc = "ready", !.connection = call[p].connection,
                                       !.credential = call[p].credential]]
          /\ call' = [call EXCEPT ![p] = Idle] /\ UNCHANGED <<locked, check>>
      BY <1>6, <2>1 DEF Resume, Admitted, Detaches
    <3> QED BY <2>1, <3>1, GuardToTask
  <2>2. CASE call[p].answer = "claimed"
    <3>1. /\ check' = [check EXCEPT ![call[p].connection] = [running |-> TRUE, credential |-> call[p].credential]]
          /\ call' = [call EXCEPT ![p] = Idle] /\ UNCHANGED <<locked, task>> /\ call[p].pc = "ready"
      BY <1>6, <2>2 DEF Resume, Detaches
    <3> QED BY <1>1, <2>2, <3>1, GuardToCheck
  <2>3. CASE ~Detaches(call[p].answer)
    <3>1. /\ locked' = Unlocked(p) /\ UNCHANGED <<task, check>> /\ call' = [call EXCEPT ![p] = Idle]
      BY <1>6, <2>3 DEF Resume, Detaches
    <3>2. ~HoldsLock(p)' /\ \A q \in Calls : q # p => call'[q] = call[q]
      BY <1>1, <3>1 DEF HoldsLock, Idle
    <3> QED BY <1>1, <3>1, <3>2, CallReleases
  <2> QED BY <1>6, <2>1, <2>2, <2>3 DEF Detaches, Admitted, Resume
<1> QED BY <1>2, <1>3, <1>4, <1>5, <1>6 DEF CallStep

(* The lock at every step. *)
LEMMA StepLock ==
  ASSUME OnceInv, LockInv, [Next]_vars
  PROVE  LockInv'
<1>1. task \in [Requests -> Tasks] /\ check \in [Connections -> Checks] /\ TypeInv
  BY DEF OnceInv, TypeInv, TypeOK
<1>2. ASSUME UNCHANGED <<locked, call>>,
             \A r \in Requests : (task'[r].pc = "none" <=> task[r].pc = "none")
                          /\ (task[r].pc # "none" => task'[r].connection = task[r].connection),
             \A c \in Connections : check'[c].running = check[c].running
      PROVE  LockInv'
  BY <1>2, SameHolders DEF HoldsLock
<1>3. ASSUME NEW r \in Requests, TaskStep(r)
      PROVE  LockInv'
  <2>1. ASSUME NEW received \in BOOLEAN, TaskRefresh(r, received) PROVE LockInv'
    <3>1. \A q \in Requests : task'[q].pc = task[q].pc /\ task'[q].connection = task[q].connection
      BY <1>1, <2>1 DEF TaskRefresh, Tasks
    <3> QED BY <1>2, <2>1, <3>1 DEF TaskRefresh
  <2>2. CASE TaskDispatch(r)
    <3>1. \A q \in Requests : (task'[q].pc = "none" <=> task[q].pc = "none")
                              /\ task'[q].connection = task[q].connection
      BY <1>1, <2>2 DEF TaskDispatch, Tasks
    <3> QED BY <1>2, <2>2, <3>1 DEF TaskDispatch
  <2>3. ASSUME NEW outcome, TaskEnd(r, outcome) PROVE LockInv'
    <3>1. \A q \in Requests : (task'[q].pc = "none" <=> task[q].pc = "none")
                              /\ task'[q].connection = task[q].connection
      BY <1>1, <2>3 DEF TaskEnd, Tasks
    <3> QED BY <1>2, <2>3, <3>1 DEF TaskEnd
  <2>4. CASE TaskSave(r) \/ TaskSaveFails(r)
    <3>1. /\ task[r].pc # "none" /\ task' = [task EXCEPT ![r] = NoTask]
          /\ locked' = locked \ {task[r].connection} /\ UNCHANGED <<call, check>>
      BY <2>4 DEF TaskSave, TaskSaveFails
    <3> QED BY <1>1, <3>1, TaskReleases
  <2> QED BY <1>3, <2>1, <2>2, <2>3, <2>4 DEF TaskStep
<1>4. ASSUME NEW c \in Connections, CheckStep(c)
      PROVE  LockInv'
  <2>1. ASSUME NEW received \in BOOLEAN, CheckRefresh(c, received) PROVE LockInv'
    <3>1. \A d \in Connections : check'[d].running = check[d].running
      BY <1>1, <2>1 DEF CheckRefresh, Checks
    <3> QED BY <1>2, <2>1, <3>1 DEF CheckRefresh
  <2>2. CASE CheckSave(c) \/ CheckSaveFails(c)
    BY <1>1, <2>2, CheckReleases DEF CheckSave, CheckSaveFails
  <2>3. CASE CoolDown(c)
    BY <1>2, <2>3 DEF CoolDown
  <2> QED BY <1>4, <2>1, <2>2, <2>3 DEF CheckStep
<1>5. CASE Restart
  BY <1>5, NoTaskTypes DEF Restart, LockInv, OneHolder, CallOn, TaskOn, HoldsLock, Idle, NoCheck
<1>6. CASE UNCHANGED vars
  BY <1>2, <1>6 DEF vars
<1> QED BY <1>3, <1>4, <1>5, <1>6, CallLock DEF Next


------------------------------------------------------------------------------
(* The newest credential of connection d, when nothing of it moves.        *)
LEMMA SameNewest ==
  ASSUME NEW d \in Connections, Newest(d),
         connection'[d].status = "registered" => connection[d].status = "registered"
                                                 /\ connection'[d].credential = connection[d].credential,
         issued'[d] = issued[d], d \in lost => d \in lost', check'[d] = check[d],
         \A r \in Requests : (TaskOn(r, d)' <=> TaskOn(r, d))
                             /\ (TaskOn(r, d) => task'[r].credential = task[r].credential),
         \A p \in Calls : Handed(p)' /\ call'[p].connection = d => call'[p] = call[p]
  PROVE  Newest(d)'
<1>1. \A p \in Calls : Handed(p)' /\ call'[p].connection = d
                        => Handed(p) /\ call[p].connection = d /\ call'[p].credential = call[p].credential
  BY DEF Handed
<1> QED BY <1>1 DEF Newest

(* A step of a handler that is handed no credential. *)
LEMMA CallsNewest ==
  ASSUME NewestInv, UNCHANGED <<issued, lost, task, check>>,
         \A d \in Connections : connection'[d].status = "registered" => connection'[d] = connection[d],
         \A p \in Calls : Handed(p)' => call'[p] = call[p]
  PROVE  NewestInv'
<1> SUFFICES ASSUME NEW d \in Connections PROVE Newest(d)'
  BY DEF NewestInv
<1>1. Newest(d) BY DEF NewestInv
<1>2. \A r \in Requests : TaskOn(r, d)' <=> TaskOn(r, d) BY DEF TaskOn
<1> QED BY <1>1, <1>2, SameNewest

(* An answer that hands over no credential. *)
LEMMA AnswerUnhanded ==
  ASSUME TypeInv, NEW p \in Calls, NEW a, NEW k, Answer(p, a, k), call[p].pc \in {"waiting", "orphan"},
         ~Detaches(a)
  PROVE  \A q \in Calls : Handed(q)' => call'[q] = call[q]
<1>1. \A q \in Calls : q # p => call'[q] = call[q]
  BY DEF Answer, TypeInv, TypeOK
<1>2. ~Handed(p)'
  BY DEF Answer, TypeInv, TypeOK, Handlers, Handed, Idle
<1> QED BY <1>1, <1>2

(* A handler that holds the lock of its connection alone is handed the     *)
(* credential of the row.                                                  *)
LEMMA AnswerHands ==
  ASSUME TypeInv, LockInv, NewestInv, NEW p \in Calls, NEW a, call[p].op \in Locking,
         Answer(p, a, connection[call[p].connection].credential), call[p].pc \in {"waiting", "orphan"},
         UNCHANGED <<connection, issued, lost, task, check>>
  PROVE  NewestInv'
<1>1. call[p].connection \in Connections
  BY DEF TypeInv, CallShape
<1> PICK c \in Connections : c = call[p].connection
  BY <1>1
<1>2. \A q \in Calls : q # p => call'[q] = call[q]
  BY DEF Answer, TypeInv, TypeOK
<1>3. Handed(p)' => call[p].pc = "waiting" /\ call'[p].connection = c
                    /\ call'[p].credential = connection[c].credential
  BY DEF Answer, TypeInv, TypeOK, Handlers, Handed, Idle
<1>4. \A d \in Connections, r \in Requests : TaskOn(r, d)' <=> TaskOn(r, d)
  BY DEF TaskOn
<1>5. ASSUME NEW d \in Connections PROVE Newest(d)'
  <2>1. Newest(d) BY DEF NewestInv
  <2>2. CASE Handed(p)' /\ d = c
    <3>1. CallOn(p, c) BY <1>3, <2>2 DEF CallOn, HoldsLock
    <3>2. (\A r \in Requests : ~TaskOn(r, c)) /\ ~check[c].running
      BY <3>1 DEF LockInv, OneHolder
    <3>3. \A q \in Calls : q # p /\ Handed(q)' /\ call'[q].connection = c
                            => Handed(q) /\ call[q].connection = c /\ call'[q].credential = call[q].credential
      BY <1>2 DEF Handed
    <3> QED BY <1>3, <1>4, <2>1, <2>2, <3>2, <3>3 DEF Newest
  <2>3. CASE ~(Handed(p)' /\ d = c)
    <3>1. \A q \in Calls : Handed(q)' /\ call'[q].connection = d => call'[q] = call[q]
      BY <1>2, <1>3, <2>3
    <3> QED BY <1>4, <2>1, <3>1, SameNewest
  <2> QED BY <2>2, <2>3
<1> QED BY <1>5 DEF NewestInv

(* The credential at every closure. *)
LEMMA ClosureNewest ==
  ASSUME TypeInv, LockInv, NewestInv, NEW p \in Calls, RunClosure(p)
  PROVE  NewestInv'
<1>1. call[p].pc \in {"waiting", "orphan"} /\ UNCHANGED <<issued, lost, task, check>>
  BY DEF RunClosure
<1>2. ASSUME NEW a, NEW k, Answer(p, a, k), ~Detaches(a),
             \A d \in Connections : connection'[d].status = "registered" => connection'[d] = connection[d]
      PROVE  NewestInv'
  BY <1>1, <1>2, AnswerUnhanded, CallsNewest
<1>3. \A s : ReceiptAnswer(s, call[p].owner) \in {"notFound", s.status}
  BY DEF ReceiptAnswer
<1>4. \A r \in Requests : receipt[r].status \in Statuses
  BY DEF TypeInv, TypeOK, Receipts
<1>5. \A s \in Statuses : ~Detaches(s)
  BY DEF Statuses, Settled, Running, Detaches
<1>6. CASE AdmitClosure(p)
  <2>1. call[p].op = "post" /\ call[p].request \in Requests
    BY <1>1, <1>6 DEF AdmitClosure, TypeInv, CallShape
  <2>2. ASSUME NEW h, AdmitNew(p, call[p].request, call[p].connection, h) PROVE NewestInv'
    BY <1>1, <2>1, <2>2, AnswerHands DEF AdmitNew, Locking
  <2>3. ASSUME NEW h, AdmitKnown(p, call[p].request, h) PROVE NewestInv'
    <3>1. PICK a : Answer(p, a, None)
                   /\ (a = "conflict" \/ a = ReceiptAnswer(receipt[call[p].request], call[p].owner))
      BY <2>3 DEF AdmitKnown
    <3>2. ~Detaches(a)
      BY <1>3, <1>4, <1>5, <2>1, <3>1 DEF Detaches
    <3> QED BY <1>2, <2>3, <3>1, <3>2 DEF AdmitKnown, durable
  <2>4. CASE AdmitRefused(p, call[p].request, call[p].connection)
    BY <1>2, <2>4 DEF AdmitRefused, durable, Detaches
  <2> QED BY <1>6, <2>2, <2>3, <2>4 DEF AdmitClosure
<1>7. CASE FenceClosure(p)
  <2>1. call[p].request \in Requests
    BY <1>1, <1>7 DEF FenceClosure, TypeInv, CallShape
  <2>2. Fenced(receipt[call[p].request], call[p].owner).status \in Statuses
    BY <1>4, <2>1 DEF Fenced, Tombstone, Statuses, Settled
  <2>3. ~Detaches(ReceiptAnswer(Fenced(receipt[call[p].request], call[p].owner), call[p].owner))
    BY <1>3, <1>5, <2>2 DEF Detaches
  <2> QED BY <1>2, <1>7, <2>3 DEF FenceClosure
<1>8. CASE GetClosure(p)
  <2>1. call[p].request \in Requests
    BY <1>1, <1>8 DEF GetClosure, TypeInv, CallShape
  <2>2. ~Detaches(ReceiptAnswer(receipt[call[p].request], call[p].owner))
    BY <1>3, <1>4, <1>5, <2>1 DEF Detaches
  <2> QED BY <1>2, <1>8, <2>2 DEF GetClosure, durable
<1>9. CASE DisconnectClosure(p)
  <2>1. \A d \in Connections : connection'[d].status = "registered" => connection'[d] = connection[d]
    BY <1>9 DEF DisconnectClosure, TypeInv, TypeOK, ConnectionRows
  <2> QED BY <1>2, <1>9, <2>1 DEF DisconnectClosure, Detaches
<1>10. CASE ClaimClosure(p)
  <2>1. CASE Answer(p, "claimed", connection[call[p].connection].credential)
    BY <1>1, <1>10, <2>1, AnswerHands DEF ClaimClosure, Locking
  <2>2. CASE Answer(p, "ok", None)
    BY <1>2, <1>10, <2>2 DEF ClaimClosure, Detaches
  <2> QED BY <1>10, <2>1, <2>2 DEF ClaimClosure
<1> QED BY <1>6, <1>7, <1>8, <1>9, <1>10 DEF RunClosure

(* The hand-over of a credential: with its handler gone, the task or the   *)
(* recheck that took the guard is the one that has it.                     *)
LEMMA ResumeNewest ==
  ASSUME OnceInv, LockInv, LockInv', NewestInv, NEW p \in Calls, Resume(p)
  PROVE  NewestInv'
<1>1. /\ call \in [Calls -> Handlers] /\ task \in [Requests -> Tasks] /\ check \in [Connections -> Checks]
      /\ call' = [call EXCEPT ![p] = Idle] /\ UNCHANGED <<connection, issued, lost>>
      /\ call[p].pc = "ready" /\ TypeInv
  BY DEF Resume, durable, OnceInv, TypeInv, TypeOK
<1>2. \A q \in Calls : Handed(q)' => call'[q] = call[q]
  BY <1>1 DEF Handed, Idle
<1>3. CASE Admitted(p)
  <2>1. call[p].request \in Requests /\ call[p].connection \in Connections /\ call[p].op \in Locking
    BY <1>1, <1>3 DEF Admitted, TypeInv, CallShape, Locking
  <2> PICK c \in Connections, r \in Requests : c = call[p].connection /\ r = call[p].request
    BY <2>1
  <2> DEFINE new == [NoTask EXCEPT !.pc = "ready", !.connection = c, !.credential = call[p].credential]
  <2>2. new.pc = "ready" /\ new.connection = c /\ new.credential = call[p].credential
    BY DEF NoTask
  <2>3. task' = [task EXCEPT ![r] = new] /\ UNCHANGED check
    BY <1>3 DEF Resume, Admitted
  <2> HIDE DEF new
  <2>4. task[r].pc = "none"
    BY <1>3 DEF OnceInv, AdmittedInv
  <2>5. /\ TaskOn(r, c)' /\ task'[r].credential = call[p].credential
        /\ \A d \in Connections : d # c => ~TaskOn(r, d)' /\ ~TaskOn(r, d)
        /\ \A d \in Connections, q \in Requests : q # r => (TaskOn(q, d)' <=> TaskOn(q, d)) /\ task'[q] = task[q]
    BY <1>1, <2>2, <2>3, <2>4 DEF TaskOn
  <2>6. Newest(c)'
    <3>1. CallOn(p, c) /\ Handed(p)
      BY <1>1, <1>3, <2>1 DEF CallOn, HoldsLock, Handed, Detaches, Admitted
    <3>2. OneHolder(c)' /\ OneHolder(c) /\ Newest(c)
      BY DEF LockInv, NewestInv
    <3>3. \A q \in Requests : TaskOn(q, c)' => q = r
      BY <2>5, <3>2 DEF OneHolder
    <3>4. ~check'[c].running
      BY <2>5, <3>2 DEF OneHolder
    <3>5. \A q \in Calls : Handed(q)' /\ call'[q].connection = c => Handed(q) /\ call[q] = call'[q]
      BY <1>2 DEF Handed
    <3>6. connection'[c].status = "registered" /\ c \notin lost' => call[p].credential = issued[c]
      BY <1>1, <3>1, <3>2 DEF Newest
    <3> QED BY <1>1, <2>5, <3>2, <3>3, <3>4, <3>5, <3>6 DEF Newest
  <2>7. ASSUME NEW d \in Connections, d # c PROVE Newest(d)'
    <3>1. Newest(d) BY DEF NewestInv
    <3>2. \A q \in Requests : (TaskOn(q, d)' <=> TaskOn(q, d))
                             /\ (TaskOn(q, d) => task'[q].credential = task[q].credential)
      BY <2>5, <2>7
    <3> QED BY <1>1, <1>2, <2>3, <3>1, <3>2, SameNewest
  <2> QED BY <2>6, <2>7 DEF NewestInv
<1>4. CASE call[p].answer = "claimed"
  <2>1. call[p].connection \in Connections /\ call[p].op \in Locking
    BY <1>1, <1>4 DEF TypeInv, CallShape, Locking
  <2> PICK c \in Connections : c = call[p].connection
    BY <2>1
  <2>2. /\ check'[c].running /\ check'[c].credential = call[p].credential
        /\ \A d \in Connections : d # c => check'[d] = check[d]
        /\ UNCHANGED task
    BY <1>1, <1>4 DEF Resume
  <2>3. \A d \in Connections, q \in Requests : TaskOn(q, d)' <=> TaskOn(q, d)
    BY <2>2 DEF TaskOn
  <2>4. Newest(c)'
    <3>1. CallOn(p, c) /\ Handed(p)
      BY <1>1, <1>4, <2>1 DEF CallOn, HoldsLock, Handed, Detaches
    <3>2. OneHolder(c) /\ Newest(c)
      BY DEF LockInv, NewestInv
    <3>3. \A q \in Requests : ~TaskOn(q, c)'
      BY <2>3, <3>1, <3>2 DEF OneHolder
    <3>5. \A q \in Calls : Handed(q)' /\ call'[q].connection = c => Handed(q) /\ call[q] = call'[q]
      BY <1>2 DEF Handed
    <3>6. connection'[c].status = "registered" /\ c \notin lost' => call[p].credential = issued[c]
      BY <1>1, <3>1, <3>2 DEF Newest
    <3> QED BY <1>1, <2>2, <3>2, <3>3, <3>5, <3>6 DEF Newest
  <2>5. ASSUME NEW d \in Connections, d # c PROVE Newest(d)'
    <3>1. Newest(d) BY DEF NewestInv
    <3> QED BY <1>1, <1>2, <2>2, <2>3, <2>5, <3>1, SameNewest
  <2> QED BY <2>4, <2>5 DEF NewestInv
<1>5. CASE ~Detaches(call[p].answer)
  BY <1>1, <1>2, <1>5, CallsNewest DEF Resume, Detaches
<1> QED BY <1>1, <1>3, <1>4, <1>5 DEF Detaches, Admitted

(* The credential at every step of a handler. *)
LEMMA CallNewest ==
  ASSUME OnceInv, LockInv, LockInv', NewestInv, NEW p \in Calls, CallStep(p)
  PROVE  NewestInv'
<1>1. call \in [Calls -> Handlers] /\ TypeInv
  BY DEF OnceInv, TypeInv, TypeOK
<1>2. ASSUME UNCHANGED <<connection, issued, lost, task, check>>,
             \A q \in Calls : Handed(q)' => call'[q] = call[q]
      PROVE  NewestInv'
  BY <1>2, CallsNewest
<1>3. CASE \/ PostRequest(p)
           \/ DeleteConnection(p)
           \/ RecheckConnection(p)
           \/ FenceRequest(p)
           \/ GetRequest(p)
  <2>1. PICK c : Arrived(c) /\ Begin(p, c)
    BY <1>1, <1>3, Arrivals
  <2> QED BY <1>1, <1>2, <2>1 DEF Begin, Arrived, Handed, durable
<1>4. CASE Acquire(p)
  BY <1>1, <1>2, <1>4 DEF Acquire, Handed, durable, Handlers
<1>5. CASE Cancel(p)
  BY <1>1, <1>2, <1>5 DEF Cancel, Handed, durable, Handlers, Idle
<1>6. CASE ClosureFails(p)
  <2>1. \A q \in Calls : Handed(q)' => call'[q] = call[q]
    BY <1>1, <1>6, AnswerUnhanded DEF ClosureFails, Detaches
  <2> QED BY <1>2, <1>6, <2>1 DEF ClosureFails, durable
<1>7. CASE RunClosure(p)
  BY <1>1, <1>7, ClosureNewest
<1>8. CASE Resume(p)
  BY <1>8, ResumeNewest
<1> QED BY <1>3, <1>4, <1>5, <1>6, <1>7, <1>8 DEF CallStep

------------------------------------------------------------------------------
(* Whoever works on a connection as its task does so alone. *)
LEMMA TaskSole ==
  ASSUME OnceInv, LockInv, NEW r \in Requests, task[r].pc # "none"
  PROVE  /\ task[r].connection \in Connections
         /\ ~check[task[r].connection].running
         /\ \A q \in Requests : TaskOn(q, task[r].connection) => q = r
         /\ \A p \in Calls : ~(Handed(p) /\ call[p].connection = task[r].connection)
<1>1. task[r].connection \in Connections /\ TaskOn(r, task[r].connection)
  BY DEF OnceInv, TypeInv, RowShape, TaskOn
<1>2. \A p \in Calls : Handed(p) /\ call[p].connection = task[r].connection => CallOn(p, task[r].connection)
  BY DEF Handed, Detaches, CallOn, HoldsLock, OnceInv, TypeInv, CallShape, Locking
<1> QED BY <1>1, <1>2 DEF LockInv, OneHolder

(* So does its recheck. *)
LEMMA CheckSole ==
  ASSUME OnceInv, LockInv, NEW c \in Connections, check[c].running
  PROVE  /\ \A q \in Requests : ~TaskOn(q, c)
         /\ \A p \in Calls : ~(Handed(p) /\ call[p].connection = c)
<1>1. \A p \in Calls : Handed(p) /\ call[p].connection = c => CallOn(p, c)
  BY DEF Handed, Detaches, CallOn, HoldsLock, OnceInv, TypeInv, CallShape, Locking
<1> QED BY <1>1 DEF LockInv, OneHolder

(* Where the row stands after a save: only a registered row takes it. *)
LEMMA Stored ==
  ASSUME TypeInv, NEW c \in Connections, NEW o, NEW k, Store(c, o, k)
  PROVE  /\ \A d \in Connections : d # c => connection'[d] = connection[d]
         /\ connection'[c].status = connection[c].status /\ connection'[c].owner = connection[c].owner
         /\ connection[c].status = "disconnected" => connection'[c] = connection[c]
         /\ connection[c].status = "registered" /\ connection[c].owner = o => connection'[c].credential = k
  BY DEF Store, Storable, TypeInv, TypeOK, ConnectionRows

(* The credential at every step of an execution. *)
LEMMA TaskNewest ==
  ASSUME OnceInv, LockInv, NewestInv, OwnerInv, NEW r \in Requests, TaskStep(r)
  PROVE  NewestInv'
<1>1. /\ task \in [Requests -> Tasks] /\ TypeInv /\ task[r].pc # "none"
      /\ issued \in [Connections -> 0..MaxRotations]
  BY DEF OnceInv, TypeInv, TypeOK, TaskStep, TaskRefresh, TaskDispatch, TaskEnd, TaskSave, TaskSaveFails
<1> PICK c \in Connections : c = task[r].connection
  BY <1>1, TaskSole
<1>2. /\ ~check[c].running /\ TaskOn(r, c) /\ \A d \in Connections : d # c => ~TaskOn(r, d)
      /\ \A q \in Requests : TaskOn(q, c) => q = r
      /\ \A p \in Calls : ~(Handed(p) /\ call[p].connection = c)
  BY <1>1, TaskSole DEF TaskOn
<1>3. Newest(c) BY DEF NewestInv
<1>4. UNCHANGED <<call, check>> /\ \A q \in Requests : q # r => task'[q] = task[q]
  BY <1>1 DEF TaskStep, TaskRefresh, TaskDispatch, TaskEnd, TaskSave, TaskSaveFails
<1>5. \A p \in Calls : ~(Handed(p)' /\ call'[p].connection = c)
  BY <1>2, <1>4 DEF Handed
<1>6. \A d \in Connections, q \in Requests : q # r => (TaskOn(q, d)' <=> TaskOn(q, d))
  BY <1>4 DEF TaskOn
<1>7. \A d \in Connections : d # c => ~TaskOn(r, d)'
  BY <1>1 DEF TaskStep, TaskRefresh, TaskDispatch, TaskEnd, TaskSave, TaskSaveFails, TaskOn, Tasks, NoTask
<1>8. ASSUME \A d \in Connections : d # c => connection'[d] = connection[d] /\ issued'[d] = issued[d],
             lost \subseteq lost', Newest(c)'
      PROVE  NewestInv'
  <2> SUFFICES ASSUME NEW d \in Connections, d # c PROVE Newest(d)'
    BY <1>8 DEF NewestInv
  <2>1. Newest(d) BY DEF NewestInv
  <2>2. \A q \in Requests : (TaskOn(q, d)' <=> TaskOn(q, d))
                            /\ (TaskOn(q, d) => task'[q].credential = task[q].credential)
    BY <1>2, <1>4, <1>6, <1>7
  <2> QED BY <1>4, <1>8, <2>1, <2>2, SameNewest
<1>9. ASSUME NEW received \in BOOLEAN, TaskRefresh(r, received) PROVE NewestInv'
  <2>1. /\ task[r].credential = issued[c] /\ issued' = [issued EXCEPT ![c] = issued[c] + 1]
        /\ UNCHANGED connection /\ lost \subseteq lost'
    BY <1>1, <1>9 DEF TaskRefresh, durable
  <2>2. c \notin lost' => task' = [task EXCEPT ![r] = [task[r] EXCEPT !.credential = task[r].credential + 1]]
    BY <1>1, <1>9 DEF TaskRefresh
  <2>3. TaskOn(r, c)'
    BY <1>1, <1>2, <1>9 DEF TaskRefresh, TaskOn, Tasks
  <2>4. c \notin lost' => task'[r].credential = issued'[c]
    BY <1>1, <2>1, <2>2 DEF Tasks
  <2>5. Newest(c)'
    BY <1>2, <1>4, <1>5, <1>6, <2>3, <2>4 DEF Newest
  <2> QED BY <1>1, <1>8, <2>1, <2>5
<1>10. ASSUME TaskDispatch(r) \/ \E outcome \in {"succeeded", "failed"} : TaskEnd(r, outcome) PROVE NewestInv'
  <2>1. /\ task'[r].connection = task[r].connection /\ task'[r].credential = task[r].credential
        /\ task'[r].pc # "none" /\ UNCHANGED <<connection, issued, lost>>
    BY <1>1, <1>10 DEF TaskDispatch, TaskEnd, Tasks, durable
  <2>2. TaskOn(r, c)' BY <1>1, <2>1 DEF TaskOn
  <2>3. Newest(c)'
    BY <1>2, <1>3, <1>4, <1>5, <1>6, <2>1, <2>2 DEF Newest
  <2> QED BY <1>8, <2>1, <2>3
<1>11. CASE TaskSave(r)
  <2>1. /\ Store(c, receipt[r].owner, task[r].credential) /\ UNCHANGED <<issued, lost>>
        /\ task' = [task EXCEPT ![r] = NoTask]
    BY <1>11 DEF TaskSave
  <2>2. connection[c].owner = receipt[r].owner
    BY <1>1 DEF OwnerInv
  <2>3. /\ \A d \in Connections : d # c => connection'[d] = connection[d]
        /\ connection'[c].status = connection[c].status
        /\ connection[c].status = "registered" => connection'[c].credential = task[r].credential
    BY <1>1, <2>1, <2>2, Stored
  <2>4. \A q \in Requests : ~TaskOn(q, c)'
    BY <1>1, <1>2, <1>6, <2>1, NoTaskTypes DEF TaskOn
  <2>5. Newest(c)'
    BY <1>2, <1>3, <1>4, <1>5, <2>1, <2>3, <2>4 DEF Newest
  <2> QED BY <1>8, <2>1, <2>3, <2>5
<1>12. CASE TaskSaveFails(r)
  <2>1. /\ lost \subseteq lost' /\ UNCHANGED <<connection, issued>> /\ task' = [task EXCEPT ![r] = NoTask]
        /\ c \notin lost' => c \notin lost /\ task[r].credential = connection[c].credential
    BY <1>12 DEF TaskSaveFails, durable
  <2>2. \A q \in Requests : ~TaskOn(q, c)'
    BY <1>1, <1>2, <1>6, <2>1, NoTaskTypes DEF TaskOn
  <2>3. Newest(c)'
    BY <1>2, <1>3, <1>4, <1>5, <2>1, <2>2 DEF Newest
  <2> QED BY <1>8, <2>1, <2>3
<1> QED BY <1>9, <1>10, <1>11, <1>12 DEF TaskStep

(* The credential at every step of a recheck. *)
LEMMA CheckNewest ==
  ASSUME OnceInv, LockInv, NewestInv, NEW c \in Connections, CheckStep(c)
  PROVE  NewestInv'
<1>1. check \in [Connections -> Checks] /\ issued \in [Connections -> 0..MaxRotations] /\ TypeInv
  BY DEF OnceInv, TypeInv, TypeOK
<1>2. Newest(c) BY DEF NewestInv
<1>3. /\ UNCHANGED <<call, task>> /\ \A d \in Connections : d # c => check'[d] = check[d]
      /\ \A d \in Connections, q \in Requests : TaskOn(q, d)' <=> TaskOn(q, d)
  BY <1>1 DEF CheckStep, CheckRefresh, CheckSave, CheckSaveFails, CoolDown, TaskOn
<1>4. ASSUME \A d \in Connections : d # c => connection'[d] = connection[d] /\ issued'[d] = issued[d],
             lost \subseteq lost', Newest(c)'
      PROVE  NewestInv'
  <2> SUFFICES ASSUME NEW d \in Connections, d # c PROVE Newest(d)'
    BY <1>4 DEF NewestInv
  <2>1. Newest(d) BY DEF NewestInv
  <2> QED BY <1>3, <1>4, <2>1, SameNewest
<1>5. ASSUME check[c].running
      PROVE  /\ \A q \in Requests : ~TaskOn(q, c)'
             /\ \A p \in Calls : ~(Handed(p)' /\ call'[p].connection = c)
  BY <1>3, <1>5, CheckSole DEF Handed
<1>6. ASSUME NEW received \in BOOLEAN, CheckRefresh(c, received) PROVE NewestInv'
  <2>1. /\ check[c].running /\ check[c].credential = issued[c] /\ lost \subseteq lost'
        /\ issued' = [issued EXCEPT ![c] = issued[c] + 1] /\ UNCHANGED connection
    BY <1>1, <1>6 DEF CheckRefresh, durable
  <2>2. c \notin lost' => check' = [check EXCEPT ![c] = [check[c] EXCEPT !.credential = check[c].credential + 1]]
    BY <1>1, <1>6 DEF CheckRefresh
  <2>3. check'[c].running
    BY <1>1, <1>6 DEF CheckRefresh, Checks
  <2>4. c \notin lost' => check'[c].credential = issued'[c]
    BY <1>1, <2>1, <2>2 DEF Checks
  <2>5. Newest(c)'
    BY <1>5, <2>1, <2>3, <2>4 DEF Newest
  <2> QED BY <1>1, <1>4, <2>1, <2>5
<1>7. CASE CheckSave(c)
  <2>1. /\ Store(c, connection[c].owner, check[c].credential) /\ check[c].running
        /\ check' = [check EXCEPT ![c] = NoCheck] /\ UNCHANGED <<issued, lost>>
    BY <1>7 DEF CheckSave
  <2>2. /\ \A d \in Connections : d # c => connection'[d] = connection[d]
        /\ connection'[c].status = connection[c].status
        /\ connection[c].status = "registered" => connection'[c].credential = check[c].credential
    BY <1>1, <2>1, Stored
  <2>3. ~check'[c].running
    BY <1>1, <2>1 DEF NoCheck
  <2>4. Newest(c)'
    BY <1>2, <1>5, <2>1, <2>2, <2>3 DEF Newest
  <2> QED BY <1>4, <2>1, <2>2, <2>4
<1>8. CASE CheckSaveFails(c)
  <2>1. /\ lost \subseteq lost' /\ UNCHANGED <<connection, issued>> /\ check[c].running
        /\ check' = [check EXCEPT ![c] = NoCheck]
        /\ c \notin lost' => c \notin lost /\ check[c].credential = connection[c].credential
    BY <1>8 DEF CheckSaveFails, durable
  <2>2. ~check'[c].running
    BY <1>1, <2>1 DEF NoCheck
  <2>3. Newest(c)'
    BY <1>2, <1>5, <2>1, <2>2 DEF Newest
  <2> QED BY <1>4, <2>1, <2>3
<1>9. CASE CoolDown(c)
  BY <1>9, CallsNewest DEF CoolDown
<1> QED BY <1>6, <1>7, <1>8, <1>9 DEF CheckStep

(* The credential at every step. *)
LEMMA StepNewest ==
  ASSUME OnceInv, LockInv, LockInv', NewestInv, OwnerInv, [Next]_vars
  PROVE  NewestInv'
<1>1. CASE Restart
  <2>1. /\ \A p \in Calls : ~Handed(p)'
        /\ \A d \in Connections : ~check'[d].running /\ \A r \in Requests : ~TaskOn(r, d)'
        /\ \A d \in Connections : d \notin lost' => connection'[d].credential = issued'[d]
    BY <1>1 DEF Restart, Handed, TaskOn, Idle, NoTask, NoCheck
  <2> QED BY <2>1 DEF NewestInv, Newest
<1>2. CASE UNCHANGED vars
  BY <1>2, CallsNewest DEF vars
<1> QED BY <1>1, <1>2, CallNewest, TaskNewest, CheckNewest DEF Next

------------------------------------------------------------------------------
(* A row never changes hands, and a disconnected one takes no credential.  *)
LEMMA ConnectionsKept ==
  ASSUME OnceInv, DisconnectErases, [Next]_vars
  PROVE  DisconnectErases' /\ \A c \in Connections : connection'[c].owner = connection[c].owner
<1>1. connection \in [Connections -> ConnectionRows] /\ TypeInv
  BY DEF OnceInv, TypeInv, TypeOK
<1>2. CASE UNCHANGED connection
  BY <1>2 DEF DisconnectErases
<1>3. ASSUME NEW c \in Connections, NEW o, NEW k, Store(c, o, k)
      PROVE  DisconnectErases' /\ \A d \in Connections : connection'[d].owner = connection[d].owner
  <2>1. \A d \in Connections : /\ connection'[d].owner = connection[d].owner
                               /\ connection'[d].status = connection[d].status
                               /\ connection[d].status = "disconnected" => connection'[d] = connection[d]
    BY <1>1, <1>3, Stored
  <2> QED BY <2>1 DEF DisconnectErases
<1>4. ASSUME NEW p \in Calls, CallStep(p), ~UNCHANGED connection
      PROVE  DisconnectErases' /\ \A d \in Connections : connection'[d].owner = connection[d].owner
  <2>1. DisconnectClosure(p)
    BY <1>4 DEF CallStep, PostRequest, DeleteConnection, RecheckConnection, FenceRequest, GetRequest, Begin,
       Acquire, Cancel, ClosureFails, Resume, RunClosure, AdmitClosure, AdmitKnown, AdmitRefused, AdmitNew,
       FenceClosure, GetClosure, ClaimClosure, durable
  <2>2. connection' = [connection EXCEPT ![call[p].connection].status = "disconnected",
                                         ![call[p].connection].credential = None]
    BY <1>4, <2>1 DEF DisconnectClosure
  <2>3. \A d \in Connections : /\ connection'[d].owner = connection[d].owner
                               /\ connection'[d] = connection[d] \/ connection'[d].credential = None
    BY <1>1, <2>2 DEF ConnectionRows
  <2> QED BY <2>3 DEF DisconnectErases
<1>5. ASSUME NEW r \in Requests, TaskStep(r), ~UNCHANGED connection
      PROVE  DisconnectErases' /\ \A d \in Connections : connection'[d].owner = connection[d].owner
  <2>1. /\ Store(task[r].connection, receipt[r].owner, task[r].credential)
        /\ task[r].connection \in Connections
    BY <1>1, <1>5 DEF TaskStep, TaskRefresh, TaskDispatch, TaskEnd, TaskSave, TaskSaveFails, durable,
       TypeInv, RowShape
  <2> QED BY <1>3, <2>1
<1>6. ASSUME NEW c \in Connections, CheckStep(c), ~UNCHANGED connection
      PROVE  DisconnectErases' /\ \A d \in Connections : connection'[d].owner = connection[d].owner
  <2>1. Store(c, connection[c].owner, check[c].credential)
    BY <1>6 DEF CheckStep, CheckRefresh, CheckSave, CheckSaveFails, CoolDown, durable
  <2> QED BY <1>3, <2>1
<1> QED BY <1>2, <1>4, <1>5, <1>6 DEF Next, vars, Restart

(* A post is admitted to a connection of its owner, and its task works for *)
(* that owner.                                                             *)
LEMMA StepOwner ==
  ASSUME OnceInv, OnceInv', DisconnectErases, OwnerInv, [Next]_vars
  PROVE  OwnerInv'
<1>1. /\ call \in [Calls -> Handlers] /\ task \in [Requests -> Tasks] /\ receipt \in [Requests -> Receipts]
      /\ TypeInv /\ \A c \in Connections : connection'[c].owner = connection[c].owner
  BY ConnectionsKept DEF OnceInv, TypeInv, TypeOK
<1>2. ASSUME NEW r \in Requests, receipt[r].status # "absent"
      PROVE  receipt'[r].owner = receipt[r].owner
  BY <1>2, RowsKeptByAll DEF RowKept
<1>3. ASSUME NEW r \in Requests, task[r].pc # "none"
      PROVE  receipt'[r].owner = connection'[task[r].connection].owner
  <2>1. receipt[r].status # "absent" /\ task[r].connection \in Connections
    BY <1>1, <1>3 DEF TypeInv, RowShape
  <2> QED BY <1>1, <1>2, <1>3, <2>1 DEF OwnerInv
<1>4. ASSUME NEW p \in Calls, Admitted(p)
      PROVE  /\ receipt'[call[p].request].owner = call[p].owner
             /\ connection'[call[p].connection].owner = call[p].owner
             /\ call[p].request \in Requests /\ call[p].connection \in Connections
  <2>1. /\ call[p].request \in Requests /\ call[p].connection \in Connections
        /\ receipt[call[p].request].status # "absent"
    BY <1>1, <1>4 DEF Admitted, TypeInv, CallShape, Locking, OnceInv, AdmittedInv, Running
  <2> QED BY <1>1, <1>2, <1>4, <2>1 DEF OwnerInv
<1>5. ASSUME \A q \in Requests : task'[q].pc # "none" =>
                        task[q].pc # "none" /\ task'[q].connection = task[q].connection,
             \A q \in Calls : Admitted(q)' => call'[q] = call[q]
      PROVE  OwnerInv'
  <2>1. \A q \in Calls : Admitted(q)' => Admitted(q) BY <1>5 DEF Admitted
  <2> QED BY <1>3, <1>4, <1>5, <2>1 DEF OwnerInv
<1>6. ASSUME NEW p \in Calls, NEW h, NEW r, r = call[p].request, call[p].op = "post",
             AdmitNew(p, r, call[p].connection, h), call[p].pc \in {"waiting", "orphan"}, UNCHANGED task
      PROVE  OwnerInv'
  <2>1. /\ r \in Requests /\ receipt'[r].owner = call[p].owner
        /\ call[p].connection \in Connections /\ connection'[call[p].connection].owner = call[p].owner
    BY <1>1, <1>6 DEF TypeInv, CallShape, Locking, AdmitNew, Serving
  <2>2. \A q \in Calls : q # p => call'[q] = call[q]
    BY <1>1, <1>6 DEF AdmitNew, Answer
  <2>3. Admitted(p)' => /\ call'[p].request = r /\ call'[p].connection = call[p].connection
                        /\ call'[p].owner = call[p].owner
    BY <1>1, <1>6 DEF AdmitNew, Answer, Admitted, Handlers, Idle
  <2>4. ASSUME NEW q \in Calls, q # p, Admitted(q)'
        PROVE  /\ receipt'[call'[q].request].owner = call'[q].owner
               /\ connection'[call'[q].connection].owner = call'[q].owner
    BY <1>4, <2>2, <2>4 DEF Admitted
  <2> QED BY <1>3, <1>6, <2>1, <2>3, <2>4 DEF OwnerInv
<1>7. ASSUME NEW p \in Calls, CallStep(p) PROVE OwnerInv'
  <2>1. CASE \/ PostRequest(p)
             \/ DeleteConnection(p)
             \/ RecheckConnection(p)
             \/ FenceRequest(p)
             \/ GetRequest(p)
    <3>1. PICK c : Arrived(c) /\ Begin(p, c)
      BY <1>1, <2>1, Arrivals
    <3> QED BY <1>1, <1>5, <3>1 DEF Begin, Arrived, Admitted
  <2>2. CASE Acquire(p) \/ Cancel(p)
    BY <1>1, <1>5, <2>2 DEF Acquire, Cancel, Admitted, Idle, Handlers
  <2>3. ASSUME NEW a, NEW k, Answer(p, a, k), call[p].pc \in {"waiting", "orphan"}, a # "admitted", UNCHANGED task
        PROVE  OwnerInv'
    <3>1. \A q \in Calls : Admitted(q)' => call'[q] = call[q]
      BY <1>1, <2>3 DEF Answer, Admitted, Idle, Handlers
    <3> QED BY <1>5, <2>3, <3>1
  <2>4. CASE ClosureFails(p)
    BY <2>3, <2>4 DEF ClosureFails
  <2>5. CASE RunClosure(p)
    <3>1. call[p].pc \in {"waiting", "orphan"} /\ UNCHANGED task BY <2>5 DEF RunClosure
    <3>2. \A r \in Requests : \A o : ReceiptAnswer(receipt[r], o) # "admitted"
      BY <1>1 DEF ReceiptAnswer, Receipts, Statuses, Settled, Running
    <3>3. CASE AdmitClosure(p)
      <4>1. call[p].op = "post" /\ call[p].request \in Requests
        BY <1>1, <3>1, <3>3 DEF AdmitClosure, TypeInv, CallShape
      <4>2. ASSUME NEW h, AdmitKnown(p, call[p].request, h) PROVE OwnerInv'
        <5>1. PICK a : Answer(p, a, None)
                       /\ (a = "conflict" \/ a = ReceiptAnswer(receipt[call[p].request], call[p].owner))
          BY <4>2 DEF AdmitKnown
        <5>2. a # "admitted" BY <3>2, <4>1, <5>1
        <5> QED BY <2>3, <3>1, <5>1, <5>2
      <4>3. CASE AdmitRefused(p, call[p].request, call[p].connection)
        BY <2>3, <3>1, <4>3 DEF AdmitRefused
      <4>4. ASSUME NEW h, AdmitNew(p, call[p].request, call[p].connection, h) PROVE OwnerInv'
        BY <1>6, <3>1, <4>1, <4>4
      <4> QED BY <3>3, <4>2, <4>3, <4>4 DEF AdmitClosure
    <3>4. CASE FenceClosure(p)
      <4>1. call[p].request \in Requests
        BY <1>1, <3>1, <3>4 DEF FenceClosure, TypeInv, CallShape
      <4>2. ReceiptAnswer(Fenced(receipt[call[p].request], call[p].owner), call[p].owner) # "admitted"
        BY <1>1, <4>1 DEF Fenced, Tombstone, ReceiptAnswer, Receipts, Statuses, Settled, Running
      <4> QED BY <2>3, <3>1, <3>4, <4>2 DEF FenceClosure
    <3>5. CASE GetClosure(p)
      <4>1. call[p].request \in Requests
        BY <1>1, <3>1, <3>5 DEF GetClosure, TypeInv, CallShape
      <4> QED BY <2>3, <3>1, <3>2, <3>5, <4>1 DEF GetClosure
    <3>6. CASE DisconnectClosure(p) \/ ClaimClosure(p)
      BY <2>3, <3>1, <3>6 DEF DisconnectClosure, ClaimClosure
    <3> QED BY <2>5, <3>3, <3>4, <3>5, <3>6 DEF RunClosure
  <2>6. CASE Resume(p)
    <3>1. \A q \in Calls : Admitted(q)' => call'[q] = call[q]
      BY <1>1, <2>6 DEF Resume, Admitted, Idle
    <3>2. CASE ~Admitted(p)
      BY <1>1, <1>5, <2>6, <3>1, <3>2 DEF Resume, Admitted
    <3>3. CASE Admitted(p)
      <4>1. /\ \A q \in Requests : q # call[p].request => task'[q] = task[q]
            /\ task'[call[p].request].connection = call[p].connection
        BY <1>1, <1>4, <2>6, <3>3 DEF Resume, Admitted, NoTask
      <4>2. \A q \in Calls : Admitted(q)' => Admitted(q)
        BY <3>1 DEF Admitted
      <4>3. ASSUME NEW q \in Requests, task'[q].pc # "none"
            PROVE  receipt'[q].owner = connection'[task'[q].connection].owner
        BY <1>3, <1>4, <3>3, <4>1, <4>3
      <4>4. ASSUME NEW q \in Calls, Admitted(q)'
            PROVE  /\ receipt'[call'[q].request].owner = call'[q].owner
                   /\ connection'[call'[q].connection].owner = call'[q].owner
        BY <1>4, <3>1, <4>2, <4>4
      <4> QED BY <4>3, <4>4 DEF OwnerInv
    <3> QED BY <3>2, <3>3
  <2> QED BY <1>7, <2>1, <2>2, <2>4, <2>5, <2>6 DEF CallStep
<1>8. ASSUME NEW r \in Requests, TaskStep(r) PROVE OwnerInv'
  <2>1. UNCHANGED call
    BY <1>8 DEF TaskStep, TaskRefresh, TaskDispatch, TaskEnd, TaskSave, TaskSaveFails
  <2>2. \A q \in Requests : task'[q].pc # "none" => task[q].pc # "none" /\ task'[q].connection = task[q].connection
    BY <1>1, <1>8, NoTaskTypes
       DEF TaskStep, TaskRefresh, TaskDispatch, TaskEnd, TaskSave, TaskSaveFails, Tasks
  <2> QED BY <1>5, <2>1, <2>2
<1>9. ASSUME NEW c \in Connections, CheckStep(c) PROVE OwnerInv'
  BY <1>5, <1>9 DEF CheckStep, CheckRefresh, CheckSave, CheckSaveFails, CoolDown
<1>10. CASE Restart
  BY <1>5, <1>10 DEF Restart, Admitted, Idle, NoTask
<1>11. CASE UNCHANGED vars
  BY <1>5, <1>11 DEF vars
<1> QED BY <1>7, <1>8, <1>9, <1>10, <1>11 DEF Next

------------------------------------------------------------------------------
(* Nobody holds a lock at the start, and every row has the first token.    *)
LEMMA InitHeld == Init => HeldInv
<1> SUFFICES ASSUME Init PROVE HeldInv
  OBVIOUS
<1>1. /\ \A p \in Calls : call[p].pc = "idle"
      /\ \A r \in Requests : task[r].pc = "none"
      /\ \A c \in Connections : /\ ~check[c].running /\ c \notin locked /\ issued[c] = 0
                                /\ connection[c].status = "registered" /\ connection[c].credential = 0
  BY DEF Init, Idle, NoTask, NoCheck
<1>2. LockInv
  BY <1>1 DEF LockInv, OneHolder, CallOn, TaskOn, HoldsLock
<1>3. NewestInv
  BY <1>1 DEF NewestInv, Newest, TaskOn, Handed
<1>4. OwnerInv /\ DisconnectErases
  BY <1>1 DEF OwnerInv, DisconnectErases, Admitted
<1> QED BY <1>2, <1>3, <1>4, InitOnce DEF HeldInv

(* Every step keeps the inductive invariant. *)
LEMMA StepHeld == HeldInv /\ [Next]_vars => HeldInv'
<1> SUFFICES ASSUME HeldInv, [Next]_vars PROVE HeldInv'
  OBVIOUS
<1>1. OnceInv' BY StepOnce DEF HeldInv
<1>2. LockInv' BY StepLock DEF HeldInv
<1>3. NewestInv' BY <1>2, StepNewest DEF HeldInv
<1>4. OwnerInv' BY <1>1, StepOwner DEF HeldInv
<1>5. DisconnectErases' BY ConnectionsKept DEF HeldInv
<1> QED BY <1>1, <1>2, <1>3, <1>4, <1>5 DEF HeldInv

(* The lock of a connection does what it is for: whoever works on it works *)
(* alone from the admission to the save, across the hand-over of the guard *)
(* to the detached task, so no rotated refresh token is lost between two   *)
(* of them and none is written into a disconnected row.                    *)
THEOREM LockHolds == Spec => []LockProtects
<1>1. HeldInv => LockProtects
  <2> SUFFICES ASSUME HeldInv PROVE LockProtects
    OBVIOUS
  <2>1. LockExclusive BY HoldersCount DEF HeldInv, LockExclusive
  <2>2. RotationKept BY DEF HeldInv, LockInv, OneHolder, NewestInv, Newest, RotationKept
  <2> QED BY <2>1, <2>2 DEF HeldInv, LockProtects
<1> QED BY <1>1, InitHeld, StepHeld, PTL DEF Spec
=============================================================================
