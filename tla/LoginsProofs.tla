-------------------------- MODULE LoginsProofs -------------------------------
(***************************************************************************)
(* Proofs about the device logins and the InferX connections               *)
(* (DeviceLogin, InferxConnections), for any number of flows, calls and    *)
(* connections.                                                            *)
(*                                                                         *)
(* The inductive invariant is LoginInv.  Its parts are the types and the   *)
(* stages of a call (Typed, Shapes), the marks and tokens of the table     *)
(* (PollInv), the locks (LocksHeld, GateHeld), which flow serves which     *)
(* connection (UsedOnce), and who may register it (SellInv).               *)
(***************************************************************************)
EXTENDS InferxConnections, FiniteSetTheorems, TLAPS

(* Records. *)
FlowRecs == [status : {"pending", "selecting", "approved", "failed", "expired"},
             token : BOOLEAN, chosen : BOOLEAN, polling : BOOLEAN, fresh : BOOLEAN, due : BOOLEAN]
RowStatuses == {"none", "pending", "registered", "failed", "expired", "disconnected"}
RowRecs == [status : RowStatuses, flow : Flows \cup {None}, cred : Logins \cup {None}, gen : Nat,
            user : Users \cup {None}]
CallRecs == [op : {"none", "poll", "register", "put", "get", "delete", "import"}, pc : Stages,
             f : Logins \cup {None}, row : Conns \cup {None},
             ans : {"none", "pending", "token", "refused", "expired", "failed"},
             seen : FlowRecs \cup RowRecs, alive : BOOLEAN, gen : Nat]

(* The declared types of the variables. *)
Typed ==
    /\ kind \in Kinds
    /\ phase \in [Flows -> {"new", "in", "out"}]
    /\ flow \in [Flows -> FlowRecs]
    /\ host \in [Flows -> {"waiting", "authorized", "denied", "issued"}]
    /\ call \in [Calls -> CallRecs]
    /\ entries \in [Flows -> Nat]
    /\ gate \in Calls \cup {None}
    /\ spent \subseteq Flows
    /\ consumer \in {"dashboard", "inferx"}
    /\ row \in [Conns -> RowRecs]
    /\ lock \in [Conns -> Calls \cup {None}]
    /\ rdue \in [Conns -> BOOLEAN]
    /\ who \in [Logins -> Users]
    /\ current \in [Logins -> Nat]
    /\ adrift \subseteq Conns

(* The stages of a poll of the table, of a login on the dashboard, and the *)
(* stages at which a call works for a flow of the table.                   *)
Polls == InPoll \cup {"poll", "polled", "unknown"}
OnDashboard == Polls \cup {"idle", "registering", "initialising", "discarding"}
OnFlow == Polls \cup {"registering", "initialising", "discarding", "save", "saved", "claim", "register",
                      "stored", "refused"}
(* What a call is, by its stage and by the consumer of the table. *)
Shaped(x) ==
    /\ x.pc = "idle" => x = Idle
    /\ ~x.alive => x.pc \in Closures
    /\ x.pc \in OnFlow => x.f \in Flows
    /\ x.pc \in InPoll \cup {"polled"} => x.seen \in FlowRecs
    /\ x.pc \in {"decide", "reserved", "saved"} => x.seen \in RowRecs
    /\ x.pc \in {"verify", "verified"} => x.op = "import" \/ x.f \in Flows
    /\ x.pc = "settle" => x.ans \in {"failed", "expired"}
    /\ x.pc \in {"register", "claim"} => x.op = "poll"
    /\ x.pc \in {"registering", "initialising"} => x.op = "register"
    /\ consumer = "dashboard" => x.row = None /\ x.pc \in OnDashboard
    /\ consumer = "inferx" =>
          /\ x.pc # "idle" => x.row \in Conns /\ x.op \notin {"none", "register"}
          /\ x.pc \notin {"registering", "initialising", "discarding"}
          /\ x.pc \in Polls => x.op = "poll"
Shapes == \A c \in Calls : Shaped(call[c])

(* A flow's mark is held by its one poll, whose clone is of the flow.      *)
Polling(c, f) == call[c].pc \in InPoll /\ call[c].f = f
OnePolling(f) ==
    /\ phase[f] = "new" => flow[f] = NewFlow /\ host[f] = "waiting" /\ f \notin spent
    /\ \A c \in Calls : Polling(c, f) =>
          /\ phase[f] # "new"
          /\ InTable(f) => /\ flow[f].polling /\ flow[f].status = "pending"
                           /\ call[c].seen.polling /\ call[c].seen.status = "pending"
                           /\ call[c].seen.token = flow[f].token
          /\ \A d \in Calls : Polling(d, f) => d = c
    /\ InTable(f) /\ flow[f].polling => \E c \in Calls : Polling(c, f)
    /\ host[f] = "issued" /\ InTable(f) /\ f \notin spent =>
          \/ flow[f].token
          \/ \E c \in Calls : Polling(c, f) /\ call[c].pc = "answered" /\ call[c].ans = "token"
PollInv == \A f \in Flows : OnePolling(f)

(* The part that speaks of the table of flows alone. *)
DeviceInv == Typed /\ Shapes /\ PollInv /\ RegisteredOnce

(* connection_lock(i) is held by the call at work on i, and by no other.   *)
(* A closure whose client left works without it.                           *)
Working(c) == call[c].alive /\ call[c].pc \notin {"idle", "locking"} /\ call[c].row # None
LocksHeld ==
    /\ \A c \in Calls : Working(c) => lock[call[c].row] = c
    /\ \A i \in Conns : lock[i] # None => Working(lock[i]) /\ call[lock[i]].row = i
GateHeld == gate # None => call[gate].pc = "initialising"

(* A flow serves one connection for good: the one whose row, credential or *)
(* handler names it.                                                       *)
CallUses(x, t) == x.f = t \/ (x.pc \in {"decide", "reserved", "saved"} /\ x.seen.flow = t)
Uses(i, t) ==
    \/ row[i].flow = t
    \/ row[i].cred = t
    \/ \E c \in Calls : call[c].row = i /\ CallUses(call[c], t)
UsedOnce ==
    \A t \in Flows, i \in Conns : Uses(i, t) =>
        phase[t] # "new" /\ \A j \in Conns : Uses(j, t) => j = i

(* Only a pending row has a flow, and a disconnected one has nothing. *)
RowInv ==
    \A i \in Conns :
        /\ row[i].flow # None => row[i].status = "pending"
        /\ row[i].status = "disconnected" => row[i].cred = None

(* A call that may yet verify, or register, the login of its connection,   *)
(* and one that did verify it.  While the newest token of the login is     *)
(* known not to be lost: the connection is not on sale yet, a handler is   *)
(* still there to register it, and a rotated token is with that handler.   *)
Verifying(c) == call[c].op = "poll" /\ call[c].pc \in Polls \cup {"verify", "verified", "register"}
Holding(c) == call[c].op = "poll" /\ call[c].pc \in {"verified", "register"}
NotYetSold ==
    \A c \in Calls : Verifying(c) /\ call[c].row \in Conns \ adrift =>
        row[call[c].row].status \notin {"none", "registered"}
Orphaned == \A c \in Calls : call[c].pc = "register" /\ ~call[c].alive => call[c].row \in adrift
Unborn == \A t \in Flows : phase[t] = "new" => current[t] = 0
Unrotated ==
    \A i \in Conns \ adrift, t \in Flows :
        row[i].status \in {"none", "pending"} /\ Uses(i, t) =>
            \/ current[t] = 0
            \/ \E c \in Calls : /\ Holding(c) /\ call[c].row = i /\ call[c].f = t
                                /\ call[c].gen = current[t]
NewestToken ==
    \A c \in Calls : Holding(c) /\ call[c].row \in Conns \ adrift /\ row[call[c].row].status = "pending" =>
        call[c].gen = current[call[c].f]
SellInv ==
    NotYetSold /\ Orphaned /\ Unborn /\ Unrotated /\ NewestToken /\ OneSeller /\ CredentialFresh

(* The inductive invariant. *)
LoginInv == DeviceInv /\ LocksHeld /\ GateHeld /\ UsedOnce /\ RowInv /\ SellInv

------------------------------------------------------------------------------
(* The empty slot and the empty rows. *)
LEMMA Empties == Idle \in CallRecs /\ Shaped(Idle) /\ NewFlow \in FlowRecs /\ NoRow \in RowRecs
<1>1. NewFlow \in FlowRecs /\ NoRow \in RowRecs
  BY DEF NewFlow, FlowRecs, NoRow, RowRecs, RowStatuses
<1>2. Idle \in CallRecs
  BY <1>1 DEF Idle, CallRecs, Stages
<1>3. Shaped(Idle)
  BY <1>1 DEF Idle, Shaped, OnFlow, Polls, InPoll, OnDashboard, Closures
<1> QED BY <1>1, <1>2, <1>3

(* One call moves. *)
LEMMA CallMoves ==
  ASSUME Typed, Shapes, NEW c \in Calls, UNCHANGED consumer, NEW x \in CallRecs, Shaped(x),
         call' = [call EXCEPT ![c] = x]
  PROVE  call' \in [Calls -> CallRecs] /\ Shapes'
<1>1. call' \in [Calls -> CallRecs] BY DEF Typed
<1>2. call'[c] = x /\ \A d \in Calls : d # c => call'[d] = call[d] BY DEF Typed
<1> QED BY <1>1, <1>2 DEF Shapes, Shaped

(* The calls at every step of a poll. *)
LEMMA PollShapes ==
  ASSUME Typed, Shapes, NEW c \in Calls, UNCHANGED consumer, PollStep(c)
  PROVE  call' \in [Calls -> CallRecs] /\ Shapes'
<1> DEFINE x == call[c]
           Goal == call' \in [Calls -> CallRecs] /\ Shapes'
<1>1. x \in CallRecs /\ Shaped(x) /\ call \in [Calls -> CallRecs] /\ flow \in [Flows -> FlowRecs]
  BY DEF Typed, Shapes
<1>2. x.pc \in Polls
  BY DEF PollStep, PollEarly, PollUnknown, PollExpires, PollClaims, HostAnswers, HostUnheard, ReceivePlain, ReceiveToken,
     Discover, Polls, InPoll
<1>3. x.f \in Flows /\ flow[x.f] \in FlowRecs
  BY <1>1, <1>2 DEF Shaped, OnFlow
<1>4. ASSUME NEW p \in Polls, NEW a \in {"none", "pending", "token", "refused", "expired", "failed"}, NEW s,
             p \in InPoll \cup {"polled"} => s \in FlowRecs, s \in FlowRecs \cup RowRecs, x.alive,
             call' = [call EXCEPT ![c] = [x EXCEPT !.pc = p, !.seen = s, !.ans = a]]
      PROVE  Goal
  <2>1. [x EXCEPT !.pc = p, !.seen = s, !.ans = a] \in CallRecs
    <3>1. p \in Stages BY <1>4 DEF Stages, Polls, InPoll
    <3> QED BY <1>1, <1>4, <3>1 DEF CallRecs
  <2>2. Shaped([x EXCEPT !.pc = p, !.seen = s, !.ans = a])
    BY <1>1, <1>2, <1>4 DEF Shaped, CallRecs, OnFlow, Polls, InPoll, Closures, OnDashboard
  <2> QED BY <1>4, <2>1, <2>2, CallMoves
<1>5. x.alive
  BY <1>1, <1>2 DEF Shaped, Polls, InPoll, Closures
<1>6. x.ans \in {"none", "pending", "token", "refused", "expired", "failed"} /\ x.seen \in FlowRecs \cup RowRecs
  BY <1>1 DEF CallRecs
<1>7. x.pc \in InPoll => x.seen \in FlowRecs
  BY <1>1 DEF Shaped
<1>8. ASSUME NEW r \in FlowRecs, Polled(c, r) PROVE Goal
  <2>1. call' = [call EXCEPT ![c] = [x EXCEPT !.pc = "polled", !.seen = r, !.ans = x.ans]]
    BY <1>1, <1>8 DEF Polled, CallRecs
  <2> QED BY <1>4, <1>5, <1>6, <2>1 DEF Polls
<1>9. ASSUME NEW r \in FlowRecs, Publish(c, r) PROVE Goal
  <2>1. [r EXCEPT !.polling = FALSE, !.due = FALSE] \in FlowRecs
    BY DEF FlowRecs
  <2> QED BY <1>8, <1>9, <2>1 DEF Publish
<1>10. CASE PollEarly(c)
  BY <1>3, <1>8, <1>10 DEF PollEarly
<1>11. CASE PollUnknown(c)
  <2>1. call' = [call EXCEPT ![c] = [x EXCEPT !.pc = "unknown", !.seen = x.seen, !.ans = x.ans]]
    BY <1>1, <1>11 DEF PollUnknown, Go, CallRecs
  <2>2. "unknown" \in Polls /\ "unknown" \notin InPoll \cup {"polled"}
    BY DEF Polls, InPoll
  <2> QED BY <1>4, <1>5, <1>6, <2>1, <2>2
<1>12. CASE PollExpires(c)
  <2>1. [flow[x.f] EXCEPT !.status = "expired", !.token = FALSE] \in FlowRecs
    BY <1>3 DEF FlowRecs
  <2> QED BY <1>8, <1>12, <2>1 DEF PollExpires
<1>13. CASE PollClaims(c)
  <2>1. [flow[x.f] EXCEPT !.polling = TRUE] \in FlowRecs
    BY <1>3 DEF FlowRecs
  <2>2. PICK p \in {"discovering", "asking"} :
          call' = [call EXCEPT ![c] = [x EXCEPT !.pc = p, !.seen = [flow[x.f] EXCEPT !.polling = TRUE],
                                                !.ans = x.ans]]
    BY <1>1, <1>13 DEF PollClaims, CallRecs
  <2>3. p \in Polls BY DEF Polls, InPoll
  <2> DEFINE s == [flow[x.f] EXCEPT !.polling = TRUE]
  <2>4. s \in FlowRecs /\ call' = [call EXCEPT ![c] = [x EXCEPT !.pc = p, !.seen = s, !.ans = x.ans]]
    BY <2>1, <2>2
  <2> HIDE DEF s
  <2> QED BY <1>4, <1>5, <1>6, <2>3, <2>4
<1>14. CASE HostAnswers(c)
  <2>0. PICK a \in {"pending", "token", "refused"} : call' = [call EXCEPT ![c].pc = "answered", ![c].ans = a]
    BY <1>14 DEF HostAnswers
  <2>1. call' = [call EXCEPT ![c] = [x EXCEPT !.pc = "answered", !.seen = x.seen, !.ans = a]]
    BY <1>1, <2>0 DEF CallRecs
  <2>2. x.seen \in FlowRecs BY <1>7, <1>14 DEF HostAnswers, InPoll
  <2> QED BY <1>4, <1>5, <2>1, <2>2 DEF Polls, InPoll
<1>18. CASE HostUnheard(c)
  <2>1. call' = [call EXCEPT ![c] = [x EXCEPT !.pc = "answered", !.seen = x.seen, !.ans = "refused"]]
    BY <1>1, <1>18 DEF HostUnheard, CallRecs
  <2>2. x.seen \in FlowRecs BY <1>7, <1>18 DEF HostUnheard, InPoll
  <2> QED BY <1>4, <1>5, <2>1, <2>2 DEF Polls, InPoll
<1>15. CASE ReceivePlain(c)
  <2>1. x.seen \in FlowRecs BY <1>7, <1>15 DEF ReceivePlain, InPoll
  <2>2. PICK r \in FlowRecs : Publish(c, r)
    <3>1. [x.seen EXCEPT !.fresh = flow[x.f].fresh] \in FlowRecs
      BY <1>3, <2>1 DEF FlowRecs
    <3>2. [[x.seen EXCEPT !.fresh = flow[x.f].fresh] EXCEPT !.status = "approved", !.token = TRUE] \in FlowRecs
      BY <3>1 DEF FlowRecs
    <3>3. [[x.seen EXCEPT !.fresh = flow[x.f].fresh] EXCEPT !.status = "failed"] \in FlowRecs
      BY <3>1 DEF FlowRecs
    <3> QED BY <1>15, <3>1, <3>2, <3>3 DEF ReceivePlain
  <2> QED BY <1>9, <2>2
<1>16. CASE ReceiveToken(c)
  <2>1. x.seen \in FlowRecs BY <1>7, <1>16 DEF ReceiveToken, InPoll
  <2>2. [x.seen EXCEPT !.token = TRUE, !.fresh = TRUE] \in FlowRecs
    BY <2>1 DEF FlowRecs
  <2>3. call' = [call EXCEPT ![c] = [x EXCEPT !.pc = "discovering",
                                              !.seen = [x.seen EXCEPT !.token = TRUE, !.fresh = TRUE],
                                              !.ans = x.ans]]
    BY <1>1, <1>16 DEF ReceiveToken, CallRecs
  <2>4. "discovering" \in Polls BY DEF Polls, InPoll
  <2> QED BY <1>4, <1>5, <1>6, <2>2, <2>3, <2>4
<1>17. CASE Discover(c)
  <2>1. x.seen \in FlowRecs BY <1>7, <1>17 DEF Discover, InPoll
  <2>2. PICK r \in FlowRecs : Publish(c, r)
    <3> DEFINE s == [x.seen EXCEPT !.fresh = flow[x.f].fresh]
    <3>1. s \in FlowRecs
      BY <1>3, <2>1 DEF FlowRecs
    <3>2. /\ [s EXCEPT !.status = "approved", !.chosen = TRUE] \in FlowRecs
          /\ [s EXCEPT !.status = "selecting", !.fresh = TRUE] \in FlowRecs
          /\ [s EXCEPT !.status = "failed", !.token = FALSE] \in FlowRecs
      BY <3>1 DEF FlowRecs
    <3> QED BY <1>17, <3>2 DEF Discover
  <2> QED BY <1>9, <2>2
<1> QED BY <1>10, <1>11, <1>12, <1>13, <1>14, <1>15, <1>16, <1>17, <1>18 DEF PollStep

(* The calls at every step of the dashboard. *)
LEMMA DashboardShapes ==
  ASSUME Typed, Shapes, NEW c \in Calls, UNCHANGED consumer, consumer = "dashboard",
         DashboardBegins(c) \/ DashboardSteps(c)
  PROVE  call' \in [Calls -> CallRecs] /\ Shapes'
<1> DEFINE x == call[c]
           Goal == call' \in [Calls -> CallRecs] /\ Shapes'
<1>1. x \in CallRecs /\ Shaped(x) /\ call \in [Calls -> CallRecs] /\ flow \in [Flows -> FlowRecs]
  BY DEF Typed, Shapes
<1>2. ASSUME UNCHANGED call PROVE Goal
  BY <1>2, <1>1 DEF Shapes, Shaped
<1>3. ASSUME Finish(c) PROVE Goal
  BY <1>3, Empties, CallMoves DEF Finish
<1>4. ASSUME NEW p \in {"registering", "initialising", "discarding"}, Go(c, p), x.f \in Flows, x.pc # "idle",
             p \in {"registering", "initialising"} => x.op = "register"
      PROVE  Goal
  <2>1. call' = [call EXCEPT ![c] = [x EXCEPT !.pc = p]] BY <1>4 DEF Go
  <2>2. [x EXCEPT !.pc = p] \in CallRecs BY <1>1 DEF CallRecs, Stages
  <2>3. x.alive BY <1>1 DEF Shaped, OnDashboard, Closures, Polls, InPoll
  <2>4. Shaped([x EXCEPT !.pc = p])
    BY <1>1, <1>4, <2>3 DEF Shaped, CallRecs, OnFlow, Polls, InPoll, Closures, OnDashboard
  <2> QED BY <2>1, <2>2, <2>4, CallMoves
<1>5. CASE DashboardBegins(c)
  <2>1. CASE StartLogin(c) \/ Cancel(c)
    BY <1>2, <2>1 DEF StartLogin, Cancel
  <2>2. CASE PollOrRegister(c)
    <3>1. PICK f \in Flows, op \in {"poll", "register"} :
            call' = [call EXCEPT ![c] = [Idle EXCEPT !.op = op, !.f = f, !.pc = "poll"]]
      BY <2>2 DEF PollOrRegister, Begin
    <3>2. [Idle EXCEPT !.op = op, !.f = f, !.pc = "poll"] \in CallRecs
      BY Empties DEF CallRecs, Stages, Logins
    <3>3. Shaped([Idle EXCEPT !.op = op, !.f = f, !.pc = "poll"])
      BY DEF Shaped, Idle, OnFlow, Polls, InPoll, Closures, OnDashboard
    <3> QED BY <3>1, <3>2, <3>3, CallMoves
  <2> QED BY <1>5, <2>1, <2>2 DEF DashboardBegins
<1>6. CASE SelectProfile(c)
  <2> DEFINE r == [flow[x.f] EXCEPT !.status = "approved", !.chosen = TRUE]
  <2>1. x.pc = "polled" /\ x.op = "register" /\ x.f \in Flows /\ flow[x.f] \in FlowRecs
    BY <1>1, <1>6 DEF SelectProfile, Shaped, OnFlow, Polls
  <2>2. r \in FlowRecs BY <2>1 DEF FlowRecs
  <2>3. call' = [call EXCEPT ![c] = [x EXCEPT !.pc = "registering", !.seen = r]]
    BY <1>1, <1>6 DEF SelectProfile
  <2> HIDE DEF r
  <2>4. [x EXCEPT !.pc = "registering", !.seen = r] \in CallRecs
    BY <1>1, <2>2 DEF CallRecs, Stages
  <2>5. Shaped([x EXCEPT !.pc = "registering", !.seen = r])
    BY <1>1, <2>1 DEF Shaped, CallRecs, OnFlow, Polls, InPoll, Closures, OnDashboard
  <2> QED BY <2>3, <2>4, <2>5, CallMoves
<1>7. CASE RegisterApproved(c)
  BY <1>1, <1>4, <1>7 DEF RegisterApproved, Shaped, OnFlow, Polls
<1>8. CASE AnswerPoll(c) \/ DiscardLogin(c) \/ DropDashboard(c)
  BY <1>3, <1>8 DEF AnswerPoll, DiscardLogin, DropDashboard
<1>9. CASE RegisterLocked(c) \/ RegisterDone(c)
  <2>1. x.pc \in {"registering", "initialising"} /\ x.f \in Flows /\ x.op = "register"
    BY <1>1, <1>9 DEF RegisterLocked, RegisterDone, Shaped, OnFlow
  <2>2. CASE Go(c, "discarding")
    BY <1>4, <2>1, <2>2
  <2>3. CASE x.pc = "registering" /\ Go(c, "initialising")
    BY <1>4, <2>1, <2>3
  <2> QED BY <1>9, <2>1, <2>2, <2>3 DEF RegisterLocked, RegisterDone
<1> QED BY <1>5, <1>6, <1>7, <1>8, <1>9 DEF DashboardSteps


(* The call after a verification that left it generation g. *)
Verified(x, t, g) == [x EXCEPT !.pc = "verified", !.f = t, !.gen = g]

(* What a verification leaves. *)
LEMMA VerifyMoves ==
  ASSUME Typed, NEW c \in Calls, NEW t, Verify(c, t)
  PROVE  /\ \E g \in Nat : call' = [call EXCEPT ![c] = Verified(call[c], t, g)]
         /\ current' \in [Logins -> Nat]
<1>1. PICK g \in 0..MaxRotations, h \in 0..MaxRotations :
        /\ current' = [current EXCEPT ![t] = IF h > 0 THEN h ELSE @]
        /\ h > 0 => current[t] = 0
        /\ call' = [call EXCEPT ![c].pc = "verified", ![c].f = t, ![c].gen = g]
  BY DEF Verify, AfterRotation
<1>2. g \in Nat /\ h \in Nat BY ConnectionsAssumption
<1>3. call \in [Calls -> CallRecs] /\ current \in [Logins -> Nat] BY DEF Typed
<1>4. current' \in [Logins -> Nat] BY <1>1, <1>2, <1>3
<1>5. call' = [call EXCEPT ![c] = Verified(call[c], t, g)]
  BY <1>1, <1>3 DEF Verified
<1> QED BY <1>2, <1>4, <1>5

(* The calls at every step of InferX. *)
LEMMA InferxShapes ==
  ASSUME Typed, Shapes, NEW c \in Calls, UNCHANGED consumer, consumer = "inferx", InferxSteps(c)
  PROVE  call' \in [Calls -> CallRecs] /\ Shapes'
<1> DEFINE x == call[c]
           Goal == call' \in [Calls -> CallRecs] /\ Shapes'
<1>1. /\ x \in CallRecs /\ Shaped(x) /\ call \in [Calls -> CallRecs]
      /\ flow \in [Flows -> FlowRecs] /\ row \in [Conns -> RowRecs] /\ current \in [Logins -> Nat]
  BY DEF Typed, Shapes
<1>2. ASSUME Finish(c) PROVE Goal
  BY <1>2, Empties, CallMoves DEF Finish
<1>3. ASSUME NEW y, x.alive => y \in CallRecs /\ Shaped(y), Done(c, y) PROVE Goal
  BY <1>3, Empties, CallMoves DEF Done
<1>4. x.pc # "idle" => x.row \in Conns /\ row[x.row] \in RowRecs /\ x.op \notin {"none", "register"}
  BY <1>1 DEF Shaped
<1>5. ASSUME NEW p \in {"reserve", "delete", "read", "starting", "update", "answer", "decide", "reserved", "poll",
                        "saved", "settled", "stored", "refused", "verify", "settle"},
             NEW y \in CallRecs, y.pc = p, y.op = x.op, y.row = x.row, y.alive = x.alive, x.alive, x.pc # "idle",
             p \in OnFlow => y.f \in Flows,
             p \in {"decide", "reserved", "saved"} => y.seen \in RowRecs,
             p = "verify" => x.op = "import" \/ y.f \in Flows,
             p = "poll" => x.op = "poll",
             p = "settle" => y.ans \in {"failed", "expired"}
      PROVE  Shaped(y)
  BY <1>1, <1>5 DEF Shaped, OnFlow, Polls, InPoll, Closures, OnDashboard
<1>6. ASSUME NEW p \in {"reserve", "delete", "read", "starting", "update", "answer", "verify"},
             Go(c, p), x.alive, x.pc # "idle", p = "verify" => x.op = "import" \/ x.f \in Flows
      PROVE  Goal
  <2>1. call' = [call EXCEPT ![c] = [x EXCEPT !.pc = p]] BY <1>6 DEF Go
  <2>2. [x EXCEPT !.pc = p] \in CallRecs BY <1>1 DEF CallRecs, Stages, Closures
  <2>3. Shaped([x EXCEPT !.pc = p])
    BY <1>1, <1>6, <2>2 DEF Shaped, CallRecs, OnFlow, Polls, InPoll, Closures, OnDashboard
  <2> QED BY <2>1, <2>2, <2>3, CallMoves
<1>7. ASSUME NEW s \in {"failed", "expired"}, SettleAs(c, s), x.alive, x.pc # "idle" PROVE Goal
  <2>1. call' = [call EXCEPT ![c] = [x EXCEPT !.pc = "settle", !.ans = s]] BY <1>1, <1>7 DEF SettleAs
  <2>2. [x EXCEPT !.pc = "settle", !.ans = s] \in CallRecs
    <3>1. "settle" \in Stages BY DEF Stages, Closures
    <3> QED BY <1>1, <1>7, <3>1 DEF CallRecs
  <2>3. Shaped([x EXCEPT !.pc = "settle", !.ans = s])
    BY <1>1, <1>7 DEF Shaped, CallRecs, OnFlow, Polls, InPoll, Closures, OnDashboard
  <2> QED BY <2>1, <2>2, <2>3, CallMoves
<1>8. CASE Arrive(c)
  <2>1. PICK op \in {"put", "poll", "get", "delete", "import"}, i \in Conns :
          call' = [call EXCEPT ![c] = [Idle EXCEPT !.op = op, !.row = i, !.pc = "locking"]]
    BY <1>8 DEF Arrive
  <2>2. [Idle EXCEPT !.op = op, !.row = i, !.pc = "locking"] \in CallRecs
    BY Empties DEF CallRecs, Stages
  <2>3. Shaped([Idle EXCEPT !.op = op, !.row = i, !.pc = "locking"])
    BY DEF Shaped, Idle, OnFlow, Polls, InPoll, Closures, OnDashboard
  <2> QED BY <2>1, <2>2, <2>3, CallMoves
<1>9. CASE Acquire(c)
  <2>1. PICK p \in {"reserve", "delete", "read"} : Go(c, p)
    BY <1>9 DEF Acquire
  <2>2. x.alive /\ x.pc # "idle" BY <1>1, <1>9 DEF Acquire, Shaped, Closures
  <2> QED BY <1>6, <2>1, <2>2
<1>10. CASE Drop(c)
  <2>1. CASE x.pc \in Closures
    <3>1. call' = [call EXCEPT ![c] = [x EXCEPT !.alive = FALSE]] BY <1>1, <1>10, <2>1 DEF Drop
    <3>2. [x EXCEPT !.alive = FALSE] \in CallRecs BY <1>1 DEF CallRecs
    <3>3. Shaped([x EXCEPT !.alive = FALSE])
      BY <1>1, <2>1 DEF Shaped, CallRecs, OnFlow, Polls, InPoll, Closures, OnDashboard
    <3> QED BY <3>1, <3>2, <3>3, CallMoves
  <2>2. CASE x.pc \notin Closures
    <3>1. Finish(c) BY <1>1, <1>10, <2>2 DEF Drop, Finish
    <3> QED BY <1>2, <3>1
  <2> QED BY <2>1, <2>2
<1>11. CASE Read(c)
  <2> DEFINE y == [x EXCEPT !.pc = "decide", !.seen = row[x.row]]
  <2>1. y \in CallRecs /\ y.seen = row[x.row] /\ y.pc = "decide" /\ y.op = x.op /\ y.row = x.row /\ y.alive = x.alive
    BY <1>1, <1>4, <1>11 DEF Read, CallRecs, Stages
  <2>2. Done(c, y) /\ x.pc # "idle" BY <1>11 DEF Read
  <2> HIDE DEF y
  <2>3. x.alive => Shaped(y) BY <1>4, <1>5, <2>1, <2>2 DEF OnFlow, Polls, InPoll
  <2> QED BY <1>3, <2>1, <2>2, <2>3
<1>12. CASE Settle(c)
  <2> DEFINE y == [x EXCEPT !.pc = "settled", !.f = row[x.row].flow]
  <2>1. y \in CallRecs /\ y.pc = "settled" /\ y.op = x.op /\ y.row = x.row /\ y.alive = x.alive
    BY <1>1, <1>4, <1>12 DEF Settle, CallRecs, Stages, RowRecs, Logins
  <2>2. Done(c, y) /\ x.pc # "idle" BY <1>12 DEF Settle
  <2> HIDE DEF y
  <2>3. x.alive => Shaped(y) BY <1>4, <1>5, <2>1, <2>2 DEF OnFlow, Polls, InPoll
  <2> QED BY <1>3, <2>1, <2>2, <2>3
<1>13. CASE Settled(c) \/ PutEnds(c) \/ Answer(c)
  BY <1>2, <1>13 DEF Settled, PutEnds, Answer, Return
<1>14. CASE Reserve(c)
  <2> DEFINE r == IF row[x.row].status = "none" THEN [NoRow EXCEPT !.status = "pending"] ELSE row[x.row]
             y == [x EXCEPT !.pc = "reserved", !.seen = r]
  <2>1. r \in RowRecs
    BY <1>1, <1>4, <1>14 DEF Reserve, RowRecs, RowStatuses, NoRow
  <2>2. Done(c, y) /\ x.pc # "idle" BY <1>14 DEF Reserve
  <2> HIDE DEF r
  <2>3. y \in CallRecs /\ y.seen = r /\ y.pc = "reserved" /\ y.op = x.op /\ y.row = x.row /\ y.alive = x.alive
    BY <1>1, <2>1 DEF CallRecs, Stages
  <2> HIDE DEF y
  <2>4. x.alive => Shaped(y) BY <1>4, <1>5, <2>1, <2>2, <2>3 DEF OnFlow, Polls, InPoll
  <2> QED BY <1>3, <2>2, <2>3, <2>4
<1>15. CASE PutDecides(c)
  <2>1. x.alive /\ x.pc # "idle" BY <1>1, <1>15 DEF PutDecides, Shaped, Closures
  <2>2. SettleAs(c, "expired") \/ Return(c) \/ Go(c, "starting")
    BY <1>15 DEF PutDecides
  <2> QED BY <1>2, <1>6, <1>7, <2>1, <2>2 DEF Return
<1>16. CASE StartFlow(c)
  <2>1. x.alive /\ x.pc # "idle" BY <1>1, <1>16 DEF StartFlow, Shaped, Closures
  <2>2. ASSUME NEW f \in Flows, call' = [call EXCEPT ![c].pc = "save", ![c].f = f] PROVE Goal
    <3>1. call' = [call EXCEPT ![c] = [x EXCEPT !.pc = "save", !.f = f]] BY <1>1, <2>2
    <3>2. [x EXCEPT !.pc = "save", !.f = f] \in CallRecs BY <1>1 DEF CallRecs, Stages, Closures, Logins
    <3>3. Shaped([x EXCEPT !.pc = "save", !.f = f])
      BY <1>1, <2>1 DEF Shaped, CallRecs, OnFlow, Polls, InPoll, Closures, OnDashboard
    <3> QED BY <3>1, <3>2, <3>3, CallMoves
  <2> QED BY <1>2, <1>16, <2>2 DEF StartFlow, Return
<1>17. CASE SaveFlow(c)
  <2>0. x.f \in Flows /\ x.pc = "save" BY <1>1, <1>17 DEF SaveFlow, Shaped, OnFlow
  <2> DEFINE i == x.row
             free == row[i].status = "pending" /\ row[i].flow = None
             r == IF free THEN [row[i] EXCEPT !.flow = call[c].f] ELSE row[i]
             y == [x EXCEPT !.pc = "saved", !.seen = r]
  <2>1. r \in RowRecs
    BY <1>1, <1>4, <2>0 DEF RowRecs
  <2>2. Done(c, y) BY <1>17 DEF SaveFlow
  <2> HIDE DEF r
  <2>3. /\ y \in CallRecs /\ y.seen = r /\ y.pc = "saved" /\ y.op = x.op
        /\ y.row = x.row /\ y.alive = x.alive /\ y.f = x.f
    BY <1>1, <2>1 DEF CallRecs, Stages
  <2> HIDE DEF y
  <2>4. x.alive => Shaped(y) BY <1>4, <1>5, <2>0, <2>1, <2>2, <2>3
  <2> QED BY <1>3, <2>2, <2>3, <2>4
<1>18. CASE PollDecides(c)
  <2>1. x.alive /\ x.pc = "decide" /\ x.seen \in RowRecs BY <1>1, <1>18 DEF PollDecides, Shaped, Closures
  <2>2. CASE SettleAs(c, "expired") \/ Return(c)
    BY <1>2, <1>7, <2>1, <2>2 DEF Return
  <2>3. CASE ~(SettleAs(c, "expired") \/ Return(c))
    <3>1. /\ call' = [call EXCEPT ![c] = [x EXCEPT !.pc = "claim", !.f = x.seen.flow]]
          /\ ~Expired(x.seen) /\ x.seen.status = "pending" /\ x.op = "poll"
      BY <1>1, <1>18, <2>3 DEF PollDecides
    <3>2. x.seen.flow \in Flows
      BY <2>1, <3>1 DEF Expired, RowRecs
    <3>3. [x EXCEPT !.pc = "claim", !.f = x.seen.flow] \in CallRecs
      BY <1>1, <3>2 DEF CallRecs, Stages, Closures, Logins
    <3>4. Shaped([x EXCEPT !.pc = "claim", !.f = x.seen.flow])
      BY <1>1, <2>1, <3>1, <3>2 DEF Shaped, CallRecs, OnFlow, Polls, InPoll, Closures, OnDashboard
    <3> QED BY <3>1, <3>3, <3>4, CallMoves
  <2> QED BY <2>2, <2>3
<1>19. CASE Claim(c)
  <2>1. x.pc = "claim" /\ x.f \in Flows /\ x.op = "poll" BY <1>1, <1>19 DEF Claim, Shaped, OnFlow
  <2>2. PICK p \in {"poll", "answer"} : Done(c, [x EXCEPT !.pc = p])
    BY <1>19 DEF Claim
  <2> DEFINE y == [x EXCEPT !.pc = p]
  <2>3. y \in CallRecs /\ y.pc = p /\ y.op = x.op /\ y.row = x.row /\ y.alive = x.alive /\ y.f = x.f
    BY <1>1 DEF CallRecs, Stages
  <2> HIDE DEF y
  <2>4. x.alive => Shaped(y) BY <1>4, <1>5, <2>1, <2>3
  <2> QED BY <1>3, <2>2, <2>3, <2>4 DEF y
<1>20. CASE InferxPolled(c)
  <2>1. x.alive /\ x.pc # "idle" /\ x.f \in Flows
    BY <1>1, <1>20 DEF InferxPolled, Shaped, Closures, OnFlow, Polls
  <2> QED BY <1>6, <1>7, <1>20, <2>1 DEF InferxPolled
<1>21. CASE UpdateDue(c) \/ Delete(c) \/ Insert(c)
  <2> DEFINE y == [x EXCEPT !.pc = "answer"]
  <2>1. Done(c, y) /\ x.pc # "idle" BY <1>21 DEF UpdateDue, Delete, Insert
  <2>2. y \in CallRecs /\ y.pc = "answer" /\ y.op = x.op /\ y.row = x.row /\ y.alive = x.alive
    BY <1>1 DEF CallRecs, Stages
  <2> HIDE DEF y
  <2>3. x.alive => Shaped(y) BY <1>4, <1>5, <2>1, <2>2 DEF OnFlow, Polls, InPoll
  <2> QED BY <1>3, <2>1, <2>2, <2>3
<1>22. ASSUME NEW t \in Logins, Verify(c, t), x.pc = "verify", x.op = "import" \/ t \in Flows PROVE Goal
  <2>1. x.alive BY <1>1, <1>22 DEF Shaped, Closures
  <2>2. PICK g \in Nat : call' = [call EXCEPT ![c] = Verified(x, t, g)]
    BY <1>22, VerifyMoves
  <2> DEFINE y == Verified(x, t, g)
  <2>3. call' = [call EXCEPT ![c] = y] BY <2>2
  <2>4. y \in CallRecs BY <1>1, <1>22 DEF CallRecs, Stages, Verified
  <2>5. Shaped(y)
    BY <1>1, <1>22, <2>1 DEF Verified, Shaped, CallRecs, OnFlow, Polls, InPoll, Closures, OnDashboard
  <2> QED BY <2>3, <2>4, <2>5, CallMoves
<1>23. CASE VerifyPolled(c)
  <2>1. x.f \in Flows BY <1>1, <1>23 DEF VerifyPolled, Shaped
  <2> QED BY <1>22, <1>23, <2>1 DEF VerifyPolled, Logins
<1>24. CASE VerifyImport(c)
  BY <1>22, <1>24 DEF VerifyImport, Logins
<1>28. ASSUME NEW p \in {"register", "insert"}, x.pc = "verified", Go(c, p), p = "register" => x.op = "poll"
       PROVE  Goal
  <2>1. x.alive BY <1>1, <1>28 DEF Shaped, Closures
  <2>2. call' = [call EXCEPT ![c] = [x EXCEPT !.pc = p]] BY <1>28 DEF Go
  <2>3. [x EXCEPT !.pc = p] \in CallRecs BY <1>1 DEF CallRecs, Stages, Closures
  <2>4. Shaped([x EXCEPT !.pc = p])
    BY <1>1, <1>28, <2>1 DEF Shaped, CallRecs, OnFlow, Polls, InPoll, Closures, OnDashboard
  <2> QED BY <2>2, <2>3, <2>4, CallMoves
<1>29. CASE PollVerified(c)
  <2>1. x.alive /\ x.pc = "verified" /\ x.pc # "idle" /\ x.op = "poll"
    BY <1>1, <1>29 DEF PollVerified, Shaped, Closures
  <2>2. Go(c, "register") \/ SettleAs(c, "failed") BY <1>29 DEF PollVerified
  <2> QED BY <1>7, <1>28, <2>1, <2>2
<1>30. CASE ImportVerified(c)
  <2>1. x.pc = "verified" BY <1>30 DEF ImportVerified
  <2>2. Go(c, "insert") \/ Return(c) BY <1>30 DEF ImportVerified
  <2> QED BY <1>2, <1>28, <2>1, <2>2 DEF Return
<1>25. CASE RegisterRow(c)
  <2>1. x.pc = "register" /\ x.f \in Flows BY <1>1, <1>25 DEF RegisterRow, Shaped, OnFlow
  <2>2. PICK p \in {"stored", "refused"} : Done(c, [x EXCEPT !.pc = p])
    BY <1>25 DEF RegisterRow
  <2> DEFINE y == [x EXCEPT !.pc = p]
  <2>3. y \in CallRecs /\ y.pc = p /\ y.op = x.op /\ y.row = x.row /\ y.alive = x.alive /\ y.f = x.f
    BY <1>1 DEF CallRecs, Stages
  <2> HIDE DEF y
  <2>4. x.alive => Shaped(y) BY <1>4, <1>5, <2>1, <2>3
  <2> QED BY <1>3, <2>2, <2>3, <2>4 DEF y
<1>26. CASE RegisterEnds(c)
  <2>1. x.alive /\ x.pc # "idle" BY <1>1, <1>26 DEF RegisterEnds, Shaped, Closures
  <2> QED BY <1>2, <1>7, <1>26, <2>1 DEF RegisterEnds, Return
<1>27. CASE ImportDecides(c)
  <2>1. x.alive /\ x.pc # "idle" BY <1>1, <1>27 DEF ImportDecides, Shaped, Closures
  <2> QED BY <1>2, <1>6, <1>27, <2>1 DEF ImportDecides, Return
<1> QED BY <1>8, <1>9, <1>10, <1>11, <1>12, <1>13, <1>14, <1>15, <1>16, <1>17, <1>18, <1>19, <1>20, <1>21,
           <1>23, <1>24, <1>25, <1>26, <1>27, <1>29, <1>30 DEF InferxSteps

------------------------------------------------------------------------------
(* The calls at every step. *)
LEMMA StepShapes ==
  ASSUME Typed, Shapes, [Next]_vars
  PROVE  call' \in [Calls -> CallRecs] /\ Shapes' /\ UNCHANGED <<kind, consumer, who>>
<1>1. UNCHANGED <<kind, consumer, who>>
  <2>1. ASSUME NEW c \in Calls, PollStep(c) PROVE UNCHANGED kind
    BY <2>1 DEF dvars, PollStep, PollEarly, PollUnknown, PollExpires, PollClaims, HostAnswers, HostUnheard, ReceivePlain,
       ReceiveToken, Discover
  <2>2. ASSUME NEW c \in Calls, DashboardBegins(c) PROVE UNCHANGED kind
    BY <2>2 DEF dvars, DashboardBegins, StartLogin, Register, PollOrRegister, Cancel
  <2>3. ASSUME NEW c \in Calls, DashboardSteps(c) PROVE UNCHANGED kind
    BY <2>3 DEF dvars, DashboardSteps, SelectProfile, RegisterApproved, AnswerPoll, RegisterLocked, RegisterDone,
       DiscardLogin, DropDashboard
  <2>4. ASSUME NEW c \in Calls, InferxSteps(c) PROVE UNCHANGED <<kind, consumer, who>>
    BY <2>4 DEF dvars, ivars, Register, InferxSteps, Arrive, Acquire, Drop, Read, Settle, Settled, Reserve,
       PutDecides, StartFlow, SaveFlow, PutEnds, PollDecides, Claim, InferxPolled, UpdateDue, VerifyPolled, PollVerified,
       RegisterRow, RegisterEnds, Delete, Answer, ImportDecides, VerifyImport, ImportVerified, Insert
  <2> QED BY <2>1, <2>2, <2>3, <2>4
          DEF Next, vars, dvars, ivars, World, WindowCloses, PollDue, Decide, RowDue
<1>2. CASE UNCHANGED call
  BY <1>1, <1>2 DEF Typed, Shapes, Shaped
<1> QED BY <1>1, <1>2, PollShapes, DashboardShapes, InferxShapes
        DEF Next, vars, World, WindowCloses, PollDue, Decide, RowDue

(* A flow is registered once and leaves the table once. *)
PhaseMoves ==
    /\ phase' \in [Flows -> {"new", "in", "out"}]
    /\ \A f \in Flows : \/ phase'[f] = phase[f]
                        \/ phase[f] = "new" /\ phase'[f] = "in"
                        \/ phase[f] = "in" /\ phase'[f] = "out"

(* So it moves at every step. *)
LEMMA StepPhase ==
  ASSUME Typed, Shapes, [Next]_vars
  PROVE  PhaseMoves
<1>1. phase \in [Flows -> {"new", "in", "out"}] /\ row \in [Conns -> RowRecs]
  BY DEF Typed
<1>2. CASE UNCHANGED phase
  BY <1>1, <1>2 DEF PhaseMoves
<1>3. ASSUME NEW f, phase' = Discarded(f) PROVE PhaseMoves
  BY <1>1, <1>3 DEF PhaseMoves, Discarded
<1>4. ASSUME NEW f \in Flows, NEW old, Register(f, old) PROVE PhaseMoves
  BY <1>1, <1>4 DEF PhaseMoves, Register, InTable
<1>5. ASSUME NEW c \in Calls, PollStep(c) PROVE UNCHANGED phase
  BY <1>5 DEF PollStep, PollEarly, PollUnknown, PollExpires, PollClaims, HostAnswers, HostUnheard, ReceivePlain, ReceiveToken,
     Discover, Publish, Put, Share, dvars
<1>6. ASSUME NEW c \in Calls, DashboardBegins(c) PROVE PhaseMoves
  BY <1>2, <1>3, <1>4, <1>6 DEF DashboardBegins, StartLogin, PollOrRegister, Cancel, dvars
<1>7. ASSUME NEW c \in Calls, DashboardSteps(c) PROVE PhaseMoves
  BY <1>2, <1>3, <1>7 DEF DashboardSteps, SelectProfile, RegisterApproved, AnswerPoll, RegisterLocked, RegisterDone,
     DiscardLogin, DropDashboard, dvars
<1>8. ASSUME NEW c \in Calls, InferxSteps(c) PROVE PhaseMoves
  <2>1. CASE Settled(c) \/ PutEnds(c) \/ RegisterEnds(c) \/ Delete(c)
    BY <1>2, <1>3, <2>1 DEF Settled, PutEnds, RegisterEnds, Delete
  <2>2. CASE StartFlow(c)
    BY <1>2, <1>4, <2>2 DEF StartFlow, dvars
  <2>3. CASE ~(Settled(c) \/ PutEnds(c) \/ RegisterEnds(c) \/ Delete(c) \/ StartFlow(c))
    BY <1>2, <1>8, <2>3 DEF InferxSteps, Arrive, Acquire, Drop, Read, Settle, Reserve, PutDecides, SaveFlow,
       PollDecides, Claim, InferxPolled, UpdateDue, VerifyPolled, PollVerified, RegisterRow, Answer, ImportDecides,
       VerifyImport, ImportVerified, Insert, dvars
  <2> QED BY <2>1, <2>2, <2>3
<1> QED BY <1>2, <1>5, <1>6, <1>7, <1>8
        DEF Next, vars, dvars, World, WindowCloses, PollDue, Decide, RowDue

(* The table, the host and the accounts. *)
LEMMA StepDevice ==
  ASSUME Typed, Shapes, [Next]_vars
  PROVE  /\ flow' \in [Flows -> FlowRecs]
         /\ host' \in [Flows -> {"waiting", "authorized", "denied", "issued"}]
         /\ entries' \in [Flows -> Nat] /\ gate' \in Calls \cup {None} /\ spent' \subseteq Flows
<1> DEFINE Goal == /\ flow' \in [Flows -> FlowRecs]
                   /\ host' \in [Flows -> {"waiting", "authorized", "denied", "issued"}]
                   /\ entries' \in [Flows -> Nat] /\ gate' \in Calls \cup {None} /\ spent' \subseteq Flows
<1>1. /\ flow \in [Flows -> FlowRecs]
      /\ host \in [Flows -> {"waiting", "authorized", "denied", "issued"}]
      /\ entries \in [Flows -> Nat] /\ gate \in Calls \cup {None} /\ spent \subseteq Flows
      /\ call \in [Calls -> CallRecs]
  BY DEF Typed
<1>2. CASE UNCHANGED <<flow, host, entries, gate, spent>>
  BY <1>1, <1>2
<1>3. ASSUME NEW f \in Flows, WindowCloses(f) \/ PollDue(f) \/ Decide(f) PROVE Goal
  <2>1. CASE WindowCloses(f) \/ PollDue(f)
    <3>1. [flow[f] EXCEPT !.fresh = FALSE] \in FlowRecs /\ [flow[f] EXCEPT !.due = TRUE] \in FlowRecs
      BY <1>1 DEF FlowRecs
    <3>2. PICK r \in FlowRecs : flow' = [flow EXCEPT ![f] = r]
      BY <2>1, <3>1 DEF WindowCloses, PollDue
    <3> QED BY <1>1, <2>1, <3>2 DEF WindowCloses, PollDue
  <2>2. CASE Decide(f)
    BY <1>1, <2>2 DEF Decide
  <2> QED BY <1>3, <2>1, <2>2
<1>4. \A c \in Calls : call[c].pc \in Polls => call[c].f \in Flows
  BY DEF Shapes, Shaped, OnFlow
<1>5. \A c \in Calls : call[c].pc \in InPoll => call[c].seen \in FlowRecs
  BY DEF Shapes, Shaped
<1>6. ASSUME NEW c \in Calls, NEW r \in FlowRecs, Publish(c, r) \/ Put(call[c].f, r)
      PROVE  flow' \in [Flows -> FlowRecs]
  <2>1. [r EXCEPT !.polling = FALSE, !.due = FALSE] \in FlowRecs
    BY DEF FlowRecs
  <2> QED BY <1>1, <1>6, <2>1 DEF Publish, Put
<1>7. ASSUME NEW c \in Calls, PollStep(c) PROVE Goal
  <2>1. CASE PollEarly(c) \/ PollUnknown(c)
    BY <1>2, <2>1 DEF PollEarly, PollUnknown, dvars
  <2>2. CASE PollExpires(c) \/ PollClaims(c)
    <3>1. call[c].f \in Flows BY <1>4, <2>2 DEF PollExpires, PollClaims, Polls
    <3>2. \A r \in FlowRecs : /\ [r EXCEPT !.status = "expired", !.token = FALSE] \in FlowRecs
                            /\ [r EXCEPT !.polling = TRUE] \in FlowRecs
      BY DEF FlowRecs
    <3>3. PICK r \in FlowRecs : flow' = [flow EXCEPT ![call[c].f] = r]
      BY <1>1, <2>2, <3>1, <3>2 DEF PollExpires, PollClaims, Marked
    <3> QED BY <1>1, <2>2, <3>1, <3>3 DEF PollExpires, PollClaims
  <2>3. CASE HostAnswers(c)
    BY <1>1, <2>3 DEF HostAnswers
  <2>5. CASE HostUnheard(c)
    <3>1. call[c].f \in Flows BY <1>4, <2>5 DEF HostUnheard, Polls, InPoll
    <3> QED BY <1>1, <2>5, <3>1 DEF HostUnheard
  <2>4. CASE ReceivePlain(c) \/ ReceiveToken(c) \/ Discover(c)
    <3>1. call[c].f \in Flows /\ call[c].seen \in FlowRecs
      BY <1>4, <1>5, <2>4 DEF ReceivePlain, ReceiveToken, Discover, Polls, InPoll
    <3>2. flow[call[c].f].fresh \in BOOLEAN BY <1>1, <3>1 DEF FlowRecs
    <3> DEFINE s == [call[c].seen EXCEPT !.fresh = flow[call[c].f].fresh]
    <3>3. s \in FlowRecs BY <3>1, <3>2 DEF FlowRecs
    <3>4. /\ [s EXCEPT !.status = "approved", !.token = TRUE] \in FlowRecs
          /\ [s EXCEPT !.status = "approved", !.chosen = TRUE] \in FlowRecs
          /\ [s EXCEPT !.status = "selecting", !.fresh = TRUE] \in FlowRecs
          /\ [s EXCEPT !.status = "failed", !.token = FALSE] \in FlowRecs
          /\ [s EXCEPT !.status = "failed"] \in FlowRecs
      BY <3>3 DEF FlowRecs
    <3>5. [call[c].seen EXCEPT !.token = TRUE, !.fresh = TRUE] \in FlowRecs
      BY <3>1 DEF FlowRecs
    <3>6. CASE ReceivePlain(c)
      <4>1. flow' \in [Flows -> FlowRecs] BY <1>6, <3>3, <3>4, <3>6 DEF ReceivePlain
      <4> QED BY <1>1, <3>6, <4>1 DEF ReceivePlain
    <3>7. CASE ReceiveToken(c)
      <4>1. flow' \in [Flows -> FlowRecs] BY <1>6, <3>5, <3>7 DEF ReceiveToken, Share
      <4> QED BY <1>1, <3>7, <4>1 DEF ReceiveToken
    <3>8. CASE Discover(c)
      <4>1. flow' \in [Flows -> FlowRecs] BY <1>6, <3>4, <3>8 DEF Discover
      <4> QED BY <1>1, <3>1, <3>8, <4>1 DEF Discover
    <3> QED BY <2>4, <3>6, <3>7, <3>8
  <2> QED BY <1>7, <2>1, <2>2, <2>3, <2>4, <2>5 DEF PollStep
<1>8. ASSUME NEW c \in Calls, DropPoll(c), call[c].pc \in InPoll
      PROVE  flow' \in [Flows -> FlowRecs] /\ spent' \subseteq Flows
  <2>1. call[c].f \in Flows BY <1>4, <1>8 DEF Polls
  <2>2. \A r \in FlowRecs : [r EXCEPT !.polling = FALSE] \in FlowRecs BY DEF FlowRecs
  <2> QED BY <1>1, <1>8, <2>1, <2>2 DEF DropPoll, Unmarked
<1>9. ASSUME NEW c \in Calls, DashboardBegins(c) \/ DashboardSteps(c) PROVE Goal
  <2>1. CASE SelectProfile(c)
    <3> DEFINE r == [flow[call[c].f] EXCEPT !.status = "approved", !.chosen = TRUE]
    <3>1. \A s \in FlowRecs : [s EXCEPT !.status = "approved", !.chosen = TRUE] \in FlowRecs
      BY DEF FlowRecs
    <3>2. call[c].f \in Flows => r \in FlowRecs
      BY <1>1, <3>1
    <3>3. flow' = [flow EXCEPT ![call[c].f] = r] /\ UNCHANGED <<host, entries, gate, spent>>
      BY <2>1 DEF SelectProfile
    <3> HIDE DEF r
    <3> QED BY <1>1, <3>2, <3>3
  <2>2. CASE RegisterLocked(c) \/ RegisterDone(c)
    BY <1>1, <2>2 DEF RegisterLocked, RegisterDone
  <2>3. CASE DropDashboard(c)
    BY <1>1, <1>8, <2>3 DEF DropDashboard
  <2>4. CASE ~(SelectProfile(c) \/ RegisterLocked(c) \/ RegisterDone(c) \/ DropDashboard(c))
    BY <1>2, <1>9, <2>4 DEF DashboardBegins, DashboardSteps, StartLogin, Register, PollOrRegister, Cancel,
       RegisterApproved, AnswerPoll, DiscardLogin, dvars
  <2> QED BY <2>1, <2>2, <2>3, <2>4
<1>10. ASSUME NEW c \in Calls, InferxSteps(c) PROVE Goal
  <2>1. CASE Drop(c)
    BY <1>1, <1>8, <2>1 DEF Drop
  <2>2. CASE ~Drop(c)
    BY <1>2, <1>10, <2>2 DEF InferxSteps, Arrive, Acquire, Read, Settle, Settled, Reserve, PutDecides, StartFlow,
       Register, SaveFlow, PutEnds, PollDecides, Claim, InferxPolled, UpdateDue, VerifyPolled, PollVerified, RegisterRow,
       RegisterEnds, Delete, Answer, ImportDecides, VerifyImport, ImportVerified, Insert, dvars
  <2> QED BY <2>1, <2>2
<1> QED BY <1>2, <1>3, <1>7, <1>9, <1>10 DEF Next, vars, dvars, World, RowDue

(* Which steps lose the newest token of a login. *)
LEMMA AdriftGrows ==
  ASSUME NEW c \in Calls, InferxSteps(c)
  PROVE  /\ adrift' = adrift \/ (adrift' = adrift \cup {call[c].row} /\ call[c].op = "poll")
         /\ adrift' # adrift => call[c].pc \in {"verify", "verified", "register"}
<1>1. Lost(c) = adrift \/ (Lost(c) = adrift \cup {call[c].row} /\ call[c].op = "poll")
  BY DEF Lost
<1>2. Left(c) = adrift \/ (Left(c) = Lost(c) /\ call[c].pc \in {"verified", "register"})
  BY DEF Left
<1>3. CASE Drop(c) \/ PollVerified(c)
  BY <1>1, <1>2, <1>3 DEF Drop, PollVerified
<1>4. CASE VerifyPolled(c) \/ VerifyImport(c)
  BY <1>1, <1>4 DEF VerifyPolled, VerifyImport, Verify
<1>5. CASE RegisterRow(c)
  BY <1>1, <1>5 DEF RegisterRow
<1>6. CASE ~(Drop(c) \/ PollVerified(c) \/ VerifyPolled(c) \/ VerifyImport(c) \/ RegisterRow(c))
  <2>1. adrift' = adrift
    BY <1>6 DEF InferxSteps, Arrive, Acquire, Read, Settle, Settled, Reserve, PutDecides, StartFlow, SaveFlow,
       PutEnds, PollDecides, Claim, InferxPolled, UpdateDue, RegisterEnds, Delete, Answer, ImportDecides,
       ImportVerified, Insert, ivars
  <2> QED BY <2>1
<1> QED BY <1>3, <1>4, <1>5, <1>6

(* The connections. *)
LEMMA StepRows ==
  ASSUME Typed, Shapes, [Next]_vars
  PROVE  /\ row' \in [Conns -> RowRecs] /\ lock' \in [Conns -> Calls \cup {None}]
         /\ rdue' \in [Conns -> BOOLEAN] /\ current' \in [Logins -> Nat] /\ adrift' \subseteq Conns
<1> DEFINE Goal == /\ row' \in [Conns -> RowRecs] /\ lock' \in [Conns -> Calls \cup {None}]
                   /\ rdue' \in [Conns -> BOOLEAN] /\ current' \in [Logins -> Nat] /\ adrift' \subseteq Conns
<1>1. /\ row \in [Conns -> RowRecs] /\ lock \in [Conns -> Calls \cup {None}] /\ call \in [Calls -> CallRecs]
      /\ rdue \in [Conns -> BOOLEAN] /\ current \in [Logins -> Nat] /\ who \in [Logins -> Users]
      /\ adrift \subseteq Conns
  BY DEF Typed
<1>2. CASE UNCHANGED ivars
  BY <1>1, <1>2 DEF ivars
<1>3. ASSUME NEW i \in Conns, RowDue(i) PROVE Goal
  BY <1>1, <1>3 DEF RowDue
<1>4. ASSUME NEW c \in Calls, InferxSteps(c) PROVE Goal
  <2>1. lock' \in [Conns -> Calls \cup {None}]
    BY <1>1, <1>4 DEF InferxSteps, Arrive, Acquire, Drop, Read, Settle, Settled, Reserve, PutDecides, StartFlow,
       SaveFlow, PutEnds, PollDecides, Claim, InferxPolled, UpdateDue, VerifyPolled, PollVerified, RegisterRow,
       RegisterEnds, Delete, Answer, ImportDecides, VerifyImport, ImportVerified, Insert, dvars, ivars, Unlocked, Return, SettleAs,
       Verify
  <2>2. rdue' \in [Conns -> BOOLEAN]
    BY <1>1, <1>4 DEF InferxSteps, Arrive, Acquire, Drop, Read, Settle, Settled, Reserve, PutDecides, StartFlow,
       SaveFlow, PutEnds, PollDecides, Claim, InferxPolled, UpdateDue, VerifyPolled, PollVerified, RegisterRow,
       RegisterEnds, Delete, Answer, ImportDecides, VerifyImport, ImportVerified, Insert, dvars, ivars
  <2>3. current' \in [Logins -> Nat]
    <3>1. ASSUME NEW v, Verify(c, v) PROVE current' \in [Logins -> Nat]
      BY <3>1, VerifyMoves
    <3>2. CASE VerifyPolled(c) \/ VerifyImport(c)
      BY <3>1, <3>2 DEF VerifyPolled, VerifyImport
    <3>3. CASE ~(VerifyPolled(c) \/ VerifyImport(c))
      BY <1>1, <1>4, <3>3 DEF InferxSteps, Arrive, Acquire, Drop, Read, Settle, Settled, Reserve, PutDecides,
         StartFlow, SaveFlow, PutEnds, PollDecides, Claim, InferxPolled, UpdateDue, PollVerified, RegisterRow,
         RegisterEnds, Delete, Answer, ImportDecides, ImportVerified, Insert, ivars
    <3> QED BY <3>2, <3>3
  <2>5. adrift' \subseteq Conns
    <3>1. adrift' = adrift \/ (adrift' = adrift \cup {call[c].row} /\ call[c].op = "poll")
      BY <1>4, AdriftGrows
    <3>2. adrift' # adrift => call[c].pc \in {"verify", "verified", "register"}
      BY <1>4, AdriftGrows
    <3>3. call[c].pc \in {"verify", "verified", "register"} => call[c].row \in Conns \/ consumer = "dashboard"
      BY DEF Shapes, Shaped, Typed
    <3>4. consumer = "dashboard" => call[c].pc \notin {"verify", "verified", "register"}
      BY DEF Shapes, Shaped, OnDashboard, Polls, InPoll
    <3> QED BY <1>1, <3>1, <3>2, <3>3, <3>4
  <2>4. row' \in [Conns -> RowRecs]
    <3>1. CASE UNCHANGED row
      BY <1>1, <3>1
    <3>2. ASSUME NEW i \in Conns, NEW r \in RowRecs, row' = [row EXCEPT ![i] = r] PROVE row' \in [Conns -> RowRecs]
      BY <1>1, <3>2
    <3>3. [NoRow EXCEPT !.status = "disconnected"] \in RowRecs /\ [NoRow EXCEPT !.status = "pending"] \in RowRecs
      BY Empties DEF RowRecs, RowStatuses
    <3>4. CASE Settle(c)
      <4>0. call[c].ans \in {"failed", "expired"} BY <3>4 DEF Settle, Shapes, Shaped
      <4>3. \A r \in RowRecs : SetStatus(r, call[c].ans) \in RowRecs
        BY <4>0 DEF SetStatus, RowRecs, RowStatuses
      <4>1. call[c].row \in Conns => SetStatus(row[call[c].row], call[c].ans) \in RowRecs
        BY <1>1, <4>3
      <4>2. row' = [row EXCEPT ![call[c].row] = SetStatus(row[call[c].row], call[c].ans)]
        BY <1>1, <3>4 DEF Settle
      <4> QED BY <1>1, <4>1, <4>2
    <3>5. CASE Reserve(c)
      BY <1>1, <3>3, <3>5 DEF Reserve
    <3>6. CASE SaveFlow(c)
      <4>1. call[c].f \in Flows BY <3>6 DEF SaveFlow, Shapes, Shaped, OnFlow
      <4>2. \A r \in RowRecs : [r EXCEPT !.flow = call[c].f] \in RowRecs
        BY <4>1 DEF RowRecs, Logins
      <4>3. \/ row' = [row EXCEPT ![call[c].row] = [row[call[c].row] EXCEPT !.flow = call[c].f]]
            \/ row' = [row EXCEPT ![call[c].row] = row[call[c].row]]
        BY <3>6 DEF SaveFlow
      <4> QED BY <1>1, <4>2, <4>3
    <3>7. CASE RegisterRow(c)
      <4>1. call[c].f \in Logins BY <3>7 DEF RegisterRow, Shapes, Shaped, OnFlow, Logins
      <4>2. [status |-> "registered", flow |-> None, cred |-> call[c].f, gen |-> call[c].gen,
             user |-> who[call[c].f]] \in RowRecs
        BY <1>1, <4>1 DEF RowRecs, RowStatuses, CallRecs
      <4> QED BY <1>1, <3>7, <4>2 DEF RegisterRow
    <3>8. CASE Delete(c)
      BY <1>1, <3>3, <3>8 DEF Delete
    <3>9. CASE Insert(c)
      <4>1. [status |-> "registered", flow |-> None, cred |-> Imported, gen |-> call[c].gen,
             user |-> who[Imported]] \in RowRecs
        BY <1>1 DEF RowRecs, RowStatuses, CallRecs, Logins
      <4> QED BY <1>1, <3>9, <4>1 DEF Insert
    <3>10. CASE ~(Settle(c) \/ Reserve(c) \/ SaveFlow(c) \/ RegisterRow(c) \/ Delete(c) \/ Insert(c))
      BY <1>4, <3>1, <3>10 DEF InferxSteps, Arrive, Acquire, Drop, Read, Settled, PutDecides, StartFlow, PutEnds,
         PollDecides, Claim, InferxPolled, UpdateDue, VerifyPolled, PollVerified, RegisterEnds, Answer, ImportDecides,
         VerifyImport, ImportVerified, ivars
    <3> QED BY <3>4, <3>5, <3>6, <3>7, <3>8, <3>9, <3>10
  <2> QED BY <2>1, <2>2, <2>3, <2>4, <2>5
<1> QED BY <1>2, <1>3, <1>4 DEF Next, vars

(* The types at every step. *)
LEMMA StepTyped ==
  ASSUME Typed, Shapes, [Next]_vars
  PROVE  Typed' /\ Shapes'
<1>1. phase' \in [Flows -> {"new", "in", "out"}] BY StepPhase DEF PhaseMoves
<1> QED BY <1>1, StepShapes, StepDevice, StepRows DEF Typed

(* How a handler's step moves its call: it goes on under its lock, its     *)
(* future ends and frees the lock, or a closure commits whose handler is   *)
(* gone.                                                                   *)
GoesOn(c) ==
    /\ call[c].alive /\ call'[c].alive /\ lock' = lock
    /\ call'[c].row = call[c].row /\ call'[c].op = call[c].op
    /\ call[c].pc \notin {"idle", "locking"} \cup InPoll
    /\ call'[c].pc \notin {"idle", "locking"} \cup InPoll
Returns(c) == call[c].pc \notin InPoll /\ call'[c] = Idle /\ lock' = Unlocked(c)
Dies(c) == ~call[c].alive /\ call'[c] = Idle /\ lock' = lock

(* Every step of a handler but its first two and its drop is one of these. *)
LEMMA Frames ==
  ASSUME Typed, Shapes, NEW c \in Calls, InferxSteps(c), ~Arrive(c), ~Acquire(c), ~Drop(c)
  PROVE  GoesOn(c) \/ Returns(c) \/ Dies(c)
<1> DEFINE x == call[c]
           Goal == GoesOn(c) \/ Returns(c) \/ Dies(c)
<1>1. x \in CallRecs /\ call \in [Calls -> CallRecs]
  BY DEF Typed
<1>2. ~x.alive => x.pc \in Closures
  BY DEF Shapes, Shaped
<1>3. ASSUME x.pc \in Closures, lock' = lock, NEW p \in Stages \ ({"idle", "locking"} \cup InPoll),
             NEW z, Done(c, z), z.pc = p, z.alive = x.alive, z.row = x.row, z.op = x.op
      PROVE  Goal
  <2>1. call'[c] = IF x.alive THEN z ELSE Idle BY <1>1, <1>3 DEF Done
  <2>2. x.pc \notin {"idle", "locking"} \cup InPoll BY <1>3 DEF Closures, InPoll
  <2> QED BY <1>3, <2>1, <2>2 DEF GoesOn, Dies
<1>4. ASSUME x.pc \notin Closures, Return(c), x.pc \notin InPoll PROVE Goal
  BY <1>1, <1>4 DEF Return, Finish, Returns
<1>5. ASSUME x.pc \notin Closures \cup {"idle", "locking"} \cup InPoll, lock' = lock,
             NEW p \in Stages \ ({"idle", "locking"} \cup InPoll),
             NEW z, call' = [call EXCEPT ![c] = z], z.pc = p, z.alive = x.alive, z.row = x.row, z.op = x.op
      PROVE  Goal
  <2>1. call'[c] = z BY <1>1, <1>5
  <2> QED BY <1>2, <1>5, <2>1 DEF GoesOn
<1>6. \A s : SettleAs(c, s) /\ x.pc \notin Closures \cup {"idle", "locking"} \cup InPoll => Goal
  <2> SUFFICES ASSUME NEW s, SettleAs(c, s), x.pc \notin Closures \cup {"idle", "locking"} \cup InPoll PROVE Goal
    OBVIOUS
  <2> DEFINE z == [x EXCEPT !.pc = "settle", !.ans = s]
  <2>1. call' = [call EXCEPT ![c] = z] /\ lock' = lock BY <1>1 DEF SettleAs
  <2>2. z.pc = "settle" /\ z.alive = x.alive /\ z.row = x.row /\ z.op = x.op BY <1>1 DEF CallRecs
  <2>3. "settle" \in Stages \ ({"idle", "locking"} \cup InPoll) BY DEF Stages, Closures, InPoll
  <2> HIDE DEF z
  <2> QED BY <1>5, <2>1, <2>2, <2>3
<1>7. \A p \in Stages \ ({"idle", "locking"} \cup InPoll) :
         Go(c, p) /\ lock' = lock /\ x.pc \notin Closures \cup {"idle", "locking"} \cup InPoll => Goal
  <2> SUFFICES ASSUME NEW p \in Stages \ ({"idle", "locking"} \cup InPoll), Go(c, p), lock' = lock,
                      x.pc \notin Closures \cup {"idle", "locking"} \cup InPoll
               PROVE Goal
    OBVIOUS
  <2> DEFINE z == [x EXCEPT !.pc = p]
  <2>1. call' = [call EXCEPT ![c] = z] BY <1>1 DEF Go
  <2>2. z.pc = p /\ z.alive = x.alive /\ z.row = x.row /\ z.op = x.op BY <1>1 DEF CallRecs
  <2> HIDE DEF z
  <2> QED BY <1>5, <2>1, <2>2
<1>8. /\ {"decide", "settled", "reserved", "saved", "poll", "answer", "stored", "refused", "starting", "save",
          "claim", "verify", "verified", "update", "register", "insert"} \subseteq Stages \ ({"idle", "locking"} \cup InPoll)
      /\ Closures \cap ({"idle", "locking"} \cup InPoll) = {}
  BY DEF Stages, Closures, InPoll
<1>9. CASE VerifyPolled(c) \/ VerifyImport(c)
  <2>1. PICK t, n : call' = [call EXCEPT ![c].pc = "verified", ![c].f = t, ![c].gen = n]
    BY <1>9 DEF VerifyPolled, VerifyImport, Verify
  <2> DEFINE z == [x EXCEPT !.pc = "verified", !.f = t, !.gen = n]
  <2>2. call' = [call EXCEPT ![c] = z] BY <1>1, <2>1
  <2>3. z.pc = "verified" /\ z.alive = x.alive /\ z.row = x.row /\ z.op = x.op BY <1>1 DEF CallRecs
  <2>4. x.pc \notin Closures \cup {"idle", "locking"} \cup InPoll /\ lock' = lock
    BY <1>9 DEF VerifyPolled, VerifyImport, Closures, InPoll
  <2> HIDE DEF z
  <2> QED BY <1>5, <1>8, <2>2, <2>3, <2>4
<1>10. CASE PollVerified(c) \/ ImportVerified(c)
  <2>1. x.pc \notin Closures \cup {"idle", "locking"} \cup InPoll
    BY <1>10 DEF PollVerified, ImportVerified, Closures, InPoll
  <2>2. \/ Return(c)
        \/ \E s : SettleAs(c, s)
        \/ \E p \in {"register", "insert"} : Go(c, p) /\ lock' = lock
    BY <1>10 DEF PollVerified, ImportVerified
  <2> QED BY <1>4, <1>6, <1>7, <1>8, <2>1, <2>2
<1>12. CASE Read(c)
  <2> DEFINE z == [x EXCEPT !.pc = "decide", !.seen = row[x.row]]
  <2>1. Done(c, z) /\ lock' = lock /\ x.pc \in Closures
    BY <1>12 DEF Read, ivars, Closures
  <2>2. z.pc = "decide" /\ z.alive = x.alive /\ z.row = x.row /\ z.op = x.op
    BY <1>1 DEF CallRecs
  <2> HIDE DEF z
  <2> QED BY <1>3, <1>8, <2>1, <2>2
<1>13. CASE Settle(c)
  <2> DEFINE z == [x EXCEPT !.pc = "settled", !.f = row[x.row].flow]
  <2>1. Done(c, z) /\ lock' = lock /\ x.pc \in Closures
    BY <1>13 DEF Settle, ivars, Closures
  <2>2. z.pc = "settled" /\ z.alive = x.alive /\ z.row = x.row /\ z.op = x.op
    BY <1>1 DEF CallRecs
  <2> HIDE DEF z
  <2> QED BY <1>3, <1>8, <2>1, <2>2
<1>14. CASE Reserve(c)
  <2> PICK r : Done(c, [x EXCEPT !.pc = "reserved", !.seen = r]) BY <1>14 DEF Reserve
  <2> DEFINE z == [x EXCEPT !.pc = "reserved", !.seen = r]
  <2>1. Done(c, z) /\ lock' = lock /\ x.pc \in Closures
    BY <1>14 DEF Reserve, ivars, Closures
  <2>2. z.pc = "reserved" /\ z.alive = x.alive /\ z.row = x.row /\ z.op = x.op
    BY <1>1 DEF CallRecs
  <2> HIDE DEF z
  <2> QED BY <1>3, <1>8, <2>1, <2>2
<1>15. CASE SaveFlow(c)
  <2> PICK r : Done(c, [x EXCEPT !.pc = "saved", !.seen = r]) BY <1>15 DEF SaveFlow
  <2> DEFINE z == [x EXCEPT !.pc = "saved", !.seen = r]
  <2>1. Done(c, z) /\ lock' = lock /\ x.pc \in Closures
    BY <1>15 DEF SaveFlow, ivars, Closures
  <2>2. z.pc = "saved" /\ z.alive = x.alive /\ z.row = x.row /\ z.op = x.op
    BY <1>1 DEF CallRecs
  <2> HIDE DEF z
  <2> QED BY <1>3, <1>8, <2>1, <2>2
<1>16. CASE Claim(c) \/ UpdateDue(c) \/ RegisterRow(c) \/ Delete(c) \/ Insert(c)
  <2>1. lock' = lock /\ x.pc \in Closures /\
        \E p \in {"poll", "answer", "stored", "refused"} : Done(c, [x EXCEPT !.pc = p])
    BY <1>16 DEF Claim, UpdateDue, RegisterRow, Delete, Insert, Closures
  <2> PICK p \in {"poll", "answer", "stored", "refused"} : Done(c, [x EXCEPT !.pc = p]) BY <2>1
  <2> DEFINE z == [x EXCEPT !.pc = p]
  <2>2. z.pc = p /\ z.alive = x.alive /\ z.row = x.row /\ z.op = x.op BY <1>1 DEF CallRecs
  <2>3. Done(c, z) OBVIOUS
  <2> HIDE DEF z
  <2> QED BY <1>3, <1>8, <2>1, <2>2, <2>3
<1>17. CASE Settled(c) \/ PutEnds(c) \/ Answer(c)
  <2>1. x.pc \notin Closures \cup InPoll /\ Return(c)
    BY <1>17 DEF Settled, PutEnds, Answer, Closures, InPoll
  <2> QED BY <1>4, <2>1
<1>18. CASE PutDecides(c) \/ ImportDecides(c) \/ InferxPolled(c) \/ RegisterEnds(c)
  <2>1. x.pc \notin Closures \cup {"idle", "locking"} \cup InPoll
    BY <1>18 DEF PutDecides, ImportDecides, InferxPolled, RegisterEnds, Closures, InPoll
  <2>2. \/ Return(c)
        \/ \E s : SettleAs(c, s)
        \/ \E p \in {"starting", "verify", "update"} : Go(c, p) /\ lock' = lock
    BY <1>18 DEF PutDecides, ImportDecides, InferxPolled, RegisterEnds
  <2> QED BY <1>4, <1>6, <1>7, <1>8, <2>1, <2>2
<1>19. ASSUME NEW g, NEW p \in {"save", "claim"}, call' = [call EXCEPT ![c].pc = p, ![c].f = g], lock' = lock,
              x.pc \notin Closures \cup {"idle", "locking"} \cup InPoll
       PROVE  Goal
  <2> DEFINE z == [x EXCEPT !.pc = p, !.f = g]
  <2>1. call' = [call EXCEPT ![c] = z] BY <1>1, <1>19
  <2>2. z.pc = p /\ z.alive = x.alive /\ z.row = x.row /\ z.op = x.op BY <1>1 DEF CallRecs
  <2> HIDE DEF z
  <2> QED BY <1>5, <1>8, <1>19, <2>1, <2>2
<1>20. CASE StartFlow(c) \/ PollDecides(c)
  <2>1. x.pc \notin Closures \cup {"idle", "locking"} \cup InPoll
    BY <1>20 DEF StartFlow, PollDecides, Closures, InPoll
  <2>2. \/ Return(c)
        \/ \E s : SettleAs(c, s)
        \/ \E g : \E p \in {"save", "claim"} : call' = [call EXCEPT ![c].pc = p, ![c].f = g] /\ lock' = lock
    BY <1>20 DEF StartFlow, PollDecides
  <2> QED BY <1>4, <1>6, <1>19, <2>1, <2>2
<1> QED
  BY <1>9, <1>10, <1>12, <1>13, <1>14, <1>15, <1>16, <1>17, <1>18, <1>20 DEF InferxSteps

(* A step of a handler moves its own call. *)
LEMMA OneMoves ==
  ASSUME Typed, NEW c \in Calls, DashboardBegins(c) \/ DashboardSteps(c) \/ InferxSteps(c)
  PROVE  \A d \in Calls : d # c => call'[d] = call[d]
<1>1. call \in [Calls -> CallRecs] BY DEF Typed
<1>2. CASE DashboardBegins(c) \/ DashboardSteps(c)
  BY <1>1, <1>2 DEF DashboardBegins, DashboardSteps, StartLogin, PollOrRegister, Begin, Cancel, SelectProfile,
     RegisterApproved, AnswerPoll, RegisterLocked, RegisterDone, DiscardLogin, DropDashboard, Go, Finish
<1>3. CASE InferxSteps(c)
  <2>1. ASSUME NEW v, Verify(c, v) PROVE \A d \in Calls : d # c => call'[d] = call[d]
    BY <1>1, <2>1 DEF Verify
  <2>2. CASE VerifyPolled(c) \/ VerifyImport(c)
    BY <2>1, <2>2 DEF VerifyPolled, VerifyImport
  <2>3. CASE Arrive(c) \/ Acquire(c) \/ Drop(c) \/ Read(c) \/ Settle(c) \/ Settled(c) \/ Reserve(c) \/ PutDecides(c)
             \/ StartFlow(c) \/ SaveFlow(c) \/ PutEnds(c)
    BY <1>1, <2>3 DEF Arrive, Acquire, Drop, Read, Settle, Settled, Reserve, PutDecides, StartFlow, SaveFlow,
       PutEnds, Go, Done, Return, Finish, SettleAs
  <2>4. CASE PollDecides(c) \/ Claim(c) \/ InferxPolled(c) \/ UpdateDue(c) \/ RegisterRow(c) \/ RegisterEnds(c)
             \/ Delete(c) \/ Answer(c) \/ ImportDecides(c) \/ Insert(c) \/ PollVerified(c) \/ ImportVerified(c)
    BY <1>1, <2>4 DEF PollDecides, Claim, InferxPolled, UpdateDue, RegisterRow, RegisterEnds, Delete, Answer,
       ImportDecides, Insert, PollVerified, ImportVerified, Go, Done, Return, Finish, SettleAs
  <2> QED BY <1>3, <2>2, <2>3, <2>4 DEF InferxSteps
<1> QED BY <1>2, <1>3

------------------------------------------------------------------------------
(* The marks of the table. *)

(* A flow that a step leaves alone: its polls, if any, did not move. *)
LEMMA OtherFlows ==
  ASSUME PhaseMoves, NEW g \in Flows, OnePolling(g), flow'[g] = flow[g], host'[g] = host[g],
         g \in spent' <=> g \in spent,
         \A c \in Calls : Polling(c, g)' \/ Polling(c, g) => call'[c] = call[c]
  PROVE  OnePolling(g)'
<1>1. \A c \in Calls : Polling(c, g)' <=> Polling(c, g)
  BY DEF Polling
<1>2. phase'[g] = "new" => phase[g] = "new"
  BY DEF PhaseMoves
<1>3. phase[g] # "new" => phase'[g] # "new"
  BY DEF PhaseMoves
<1>4. phase'[g] = "in" => phase[g] = "in" \/ (phase[g] = "new" /\ flow[g] = NewFlow /\ host[g] = "waiting")
  BY DEF PhaseMoves, OnePolling
<1>5. ~NewFlow.polling BY DEF NewFlow
<1>6. \A c \in Calls : Polling(c, g) => phase[g] # "new" BY DEF OnePolling
<1>7. (phase[g] = "new" => flow[g] = NewFlow /\ host[g] = "waiting" /\ g \notin spent)' BY <1>2 DEF OnePolling
<1>8. (\A c \in Calls : Polling(c, g) =>
          /\ phase[g] # "new"
          /\ InTable(g) => /\ flow[g].polling /\ flow[g].status = "pending"
                           /\ call[c].seen.polling /\ call[c].seen.status = "pending"
                           /\ call[c].seen.token = flow[g].token
          /\ \A d \in Calls : Polling(d, g) => d = c)'
  BY <1>1, <1>3, <1>4, <1>6 DEF OnePolling, InTable
<1>9. (InTable(g) /\ flow[g].polling => \E c \in Calls : Polling(c, g))'
  BY <1>1, <1>4, <1>5 DEF OnePolling, InTable
<1>10. (host[g] = "issued" /\ InTable(g) /\ g \notin spent =>
          \/ flow[g].token
          \/ \E c \in Calls : Polling(c, g) /\ call[c].pc = "answered" /\ call[c].ans = "token")'
  BY <1>1, <1>4 DEF OnePolling, InTable
<1> QED BY <1>7, <1>8, <1>9, <1>10 DEF OnePolling

(* A step that neither moves a poll nor changes a flow. *)
LEMMA QuietPolls ==
  ASSUME PollInv, PhaseMoves, UNCHANGED <<flow, host, spent>>,
         \A c \in Calls : call[c].pc \in InPoll \/ call'[c].pc \in InPoll => call'[c] = call[c]
  PROVE  PollInv'
<1> SUFFICES ASSUME NEW g \in Flows PROVE OnePolling(g)'
  BY DEF PollInv
<1>1. \A c \in Calls : Polling(c, g)' \/ Polling(c, g) => call'[c] = call[c]
  BY DEF Polling
<1> QED BY <1>1, OtherFlows DEF PollInv

(* A step of call c on flow f. *)
LEMMA OneFlow ==
  ASSUME PollInv, PhaseMoves, NEW f \in Flows, NEW c \in Calls,
         \A d \in Calls : d # c => call'[d] = call[d],
         call[c].pc \in InPoll => call[c].f = f, call'[c].pc \in InPoll => call'[c].f = f,
         \A g \in Flows : g # f => flow'[g] = flow[g] /\ host'[g] = host[g] /\ (g \in spent' <=> g \in spent),
         OnePolling(f)'
  PROVE  PollInv'
<1> SUFFICES ASSUME NEW g \in Flows, g # f PROVE OnePolling(g)'
  BY DEF PollInv
<1>1. \A d \in Calls : Polling(d, g)' \/ Polling(d, g) => call'[d] = call[d]
  BY DEF Polling
<1> QED BY <1>1, OtherFlows DEF PollInv

(* The only poll of a flow. *)
LEMMA SolePoll ==
  ASSUME Typed, Shapes, PollInv, NEW c \in Calls, call[c].pc \in InPoll
  PROVE  LET f == call[c].f IN
         /\ f \in Flows /\ phase[f] # "new" /\ call[c].seen \in FlowRecs /\ flow[f] \in FlowRecs
         /\ \A d \in Calls : Polling(d, f) => d = c
         /\ InTable(f) => /\ flow[f].polling /\ flow[f].status = "pending"
                          /\ call[c].seen.polling /\ call[c].seen.status = "pending"
                          /\ call[c].seen.token = flow[f].token
         /\ host[f] = "issued" /\ InTable(f) /\ f \notin spent =>
              flow[f].token \/ (call[c].pc = "answered" /\ call[c].ans = "token")
<1>1. call[c].f \in Flows /\ call[c].seen \in FlowRecs
  BY DEF Shapes, Shaped, OnFlow, Polls
<1> PICK f \in Flows : f = call[c].f BY <1>1
<1>2. flow[f] \in FlowRecs BY DEF Typed
<1>3. Polling(c, f) BY DEF Polling
<1>4. OnePolling(f) BY DEF PollInv
<1> QED BY <1>1, <1>2, <1>3, <1>4 DEF OnePolling

(* A flow whose poll ended, or was dropped, with what its clone says of the token. *)
LEMMA PollEnds ==
  ASSUME Typed, Shapes, PollInv, PhaseMoves, UNCHANGED phase, NEW c \in Calls, call[c].pc \in InPoll,
         \A d \in Calls : d # c => call'[d] = call[d], call'[c].pc \notin InPoll,
         NEW f \in Flows, f = call[c].f, UNCHANGED host,
         \A g \in Flows : g # f => flow'[g] = flow[g] /\ (g \in spent' <=> g \in spent),
         ~InTable(f) => flow'[f] = flow[f], InTable(f) => ~flow'[f].polling,
         f \in spent => f \in spent',
         InTable(f) /\ f \notin spent' => /\ flow[f].token => flow'[f].token
                                          /\ call[c].pc = "answered" /\ call[c].ans = "token" => flow'[f].token
  PROVE  PollInv'
<1>1. /\ phase[f] # "new" /\ \A d \in Calls : Polling(d, f) => d = c
      /\ host[f] = "issued" /\ InTable(f) /\ f \notin spent =>
              flow[f].token \/ (call[c].pc = "answered" /\ call[c].ans = "token")
  BY SolePoll
<1>2. \A d \in Calls : ~Polling(d, f)'
  BY <1>1 DEF Polling
<1>3. InTable(f)' <=> InTable(f) BY DEF InTable
<1>4. OnePolling(f)'
  BY <1>1, <1>2, <1>3 DEF OnePolling
<1> QED BY <1>4, OneFlow

(* The clock and the person at the browser. *)
LEMMA WorldPolls ==
  ASSUME Typed, Shapes, PollInv, PhaseMoves, World
  PROVE  PollInv'
<1> PICK f \in Flows : WindowCloses(f) \/ PollDue(f) \/ Decide(f)
  BY DEF World
<1>1. flow \in [Flows -> FlowRecs] /\ host \in [Flows -> {"waiting", "authorized", "denied", "issued"}]
  BY DEF Typed
<1>2. /\ UNCHANGED <<phase, call, spent>> /\ InTable(f)
      /\ \A g \in Flows : g # f => flow'[g] = flow[g] /\ host'[g] = host[g]
  BY <1>1 DEF WindowCloses, PollDue, Decide
<1>3. /\ flow'[f].polling = flow[f].polling /\ flow'[f].status = flow[f].status /\ flow'[f].token = flow[f].token
      /\ host'[f] = "issued" <=> host[f] = "issued"
  <2>1. CASE WindowCloses(f) \/ PollDue(f)
    BY <1>1, <2>1 DEF WindowCloses, PollDue, FlowRecs
  <2>2. CASE Decide(f)
    BY <1>1, <2>2 DEF Decide
  <2> QED BY <2>1, <2>2
<1>4. OnePolling(f)'
  <2>1. OnePolling(f) BY DEF PollInv
  <2>2. \A c \in Calls : Polling(c, f)' <=> Polling(c, f) BY <1>2 DEF Polling
  <2> QED BY <1>2, <1>3, <2>1, <2>2 DEF OnePolling, InTable
<1>5. ASSUME NEW g \in Flows, g # f PROVE OnePolling(g)'
  BY <1>2, <1>5, OtherFlows DEF PollInv, Polling
<1> QED BY <1>4, <1>5 DEF PollInv

(* The table at every step of a poll. *)
LEMMA PollPolls ==
  ASSUME Typed, Shapes, PollInv, PhaseMoves, NEW c \in Calls, PollStep(c)
  PROVE  PollInv'
<1> DEFINE x == call[c]
<1>1. /\ call \in [Calls -> CallRecs] /\ flow \in [Flows -> FlowRecs] /\ x \in CallRecs
      /\ host \in [Flows -> {"waiting", "authorized", "denied", "issued"}]
  BY DEF Typed
<1>2. x.pc \in Polls
  BY DEF PollStep, PollEarly, PollUnknown, PollExpires, PollClaims, HostAnswers, HostUnheard, ReceivePlain, ReceiveToken,
     Discover, Polls, InPoll
<1>3. x.f \in Flows
  BY <1>2 DEF Shapes, Shaped, OnFlow
<1> PICK f \in Flows : f = x.f BY <1>3
<1>4. flow[f] \in FlowRecs /\ OnePolling(f) BY <1>1 DEF PollInv
<1>5. \A d \in Calls : d # c => call'[d] = call[d]
  BY <1>1 DEF PollStep, PollEarly, PollUnknown, PollExpires, PollClaims, HostAnswers, HostUnheard, ReceivePlain, ReceiveToken,
     Discover, Polled, Go, Publish
<1>6. CASE PollEarly(c) \/ PollUnknown(c)
  <2>1. x.pc \notin InPoll /\ call'[c].pc \notin InPoll /\ UNCHANGED <<flow, host, spent>>
    BY <1>1, <1>6 DEF PollEarly, PollUnknown, Polled, Go, InPoll, dvars, CallRecs
  <2> QED BY <1>5, <2>1, QuietPolls
<1>7. CASE PollExpires(c)
  <2>1. x.pc \notin InPoll /\ call'[c].pc \notin InPoll
    BY <1>1, <1>7 DEF PollExpires, Polled, InPoll, CallRecs
  <2>2. /\ \A g \in Flows : g # f => flow'[g] = flow[g] /\ (g \in spent' <=> g \in spent)
        /\ UNCHANGED <<phase, host>> /\ InTable(f) /\ ~flow[f].polling
        /\ f \notin spent' => f \notin spent /\ ~flow[f].token
    BY <1>1, <1>7 DEF PollExpires, Early
  <2>3. flow'[f].polling = flow[f].polling
    BY <1>1, <1>4, <1>7 DEF PollExpires, FlowRecs
  <2>4. \A d \in Calls : ~Polling(d, f)' /\ ~Polling(d, f)
    BY <1>4, <1>5, <2>1, <2>2 DEF OnePolling, Polling
  <2>5. OnePolling(f)'
    BY <1>4, <2>2, <2>3, <2>4 DEF OnePolling, InTable
  <2> QED BY <1>5, <2>1, <2>2, <2>5, OneFlow
<1>8. CASE PollClaims(c)
  <2>1. x.pc \notin InPoll /\ call'[c].pc \in InPoll /\ call'[c].f = f /\ call'[c].pc # "answered"
    BY <1>1, <1>8 DEF PollClaims, InPoll, CallRecs
  <2>2. /\ \A g \in Flows : g # f => flow'[g] = flow[g]
        /\ UNCHANGED <<phase, host, spent>> /\ InTable(f) /\ ~flow[f].polling /\ flow[f].status = "pending"
    BY <1>1, <1>4, <1>8 DEF PollClaims, Early, Marked, FlowRecs
  <2>3. flow'[f].polling /\ flow'[f].status = flow[f].status /\ flow'[f].token = flow[f].token
    BY <1>1, <1>4, <1>8 DEF PollClaims, Marked, FlowRecs
  <2>4. call'[c].seen.polling /\ call'[c].seen.status = flow[f].status /\ call'[c].seen.token = flow[f].token
    <3>1. call'[c].seen = [flow[f] EXCEPT !.polling = TRUE] BY <1>1, <1>8 DEF PollClaims, CallRecs
    <3> QED BY <1>4, <3>1 DEF FlowRecs
  <2>5. \A d \in Calls : ~Polling(d, f)
    BY <1>4, <2>2 DEF OnePolling
  <2>6. Polling(c, f)' /\ \A d \in Calls : Polling(d, f)' => d = c
    BY <1>5, <2>1, <2>5 DEF Polling
  <2>7. OnePolling(f)'
    BY <1>4, <2>2, <2>3, <2>4, <2>5, <2>6 DEF OnePolling, InTable
  <2> QED BY <1>5, <2>1, <2>2, <2>7, OneFlow
<1>9. CASE HostAnswers(c)
  <2>1. /\ x.pc = "asking" /\ x.pc \in InPoll /\ UNCHANGED <<phase, flow, spent>>
    BY <1>9 DEF HostAnswers, InPoll
  <2>2. /\ call'[c].pc = "answered" /\ call'[c].pc \in InPoll /\ call'[c].f = f /\ call'[c].seen = x.seen
        /\ \A g \in Flows : g # f => host'[g] = host[g]
        /\ host'[f] = host[f] \/ (host'[f] = "issued" /\ call'[c].ans = "token")
    BY <1>1, <1>9 DEF HostAnswers, CallRecs, InPoll
  <2>3. \A d \in Calls : Polling(d, f) <=> d = c
    BY <2>1, SolePoll DEF Polling
  <2>4. \A d \in Calls : Polling(d, f)' <=> d = c
    BY <1>5, <2>2, <2>3 DEF Polling
  <2>5. phase[f] # "new" BY <2>1, SolePoll
  <2>6. OnePolling(f)'
    BY <1>4, <2>1, <2>2, <2>3, <2>4, <2>5 DEF OnePolling, InTable
  <2> QED BY <1>5, <2>1, <2>2, <2>6, OneFlow
<1>17. CASE HostUnheard(c)
  <2>1. /\ x.pc = "asking" /\ x.pc \in InPoll /\ UNCHANGED <<phase, flow>>
        /\ spent' = spent \cup {f}
    BY <1>17 DEF HostUnheard, InPoll
  <2>2. /\ call'[c].pc = "answered" /\ call'[c].pc \in InPoll /\ call'[c].f = f /\ call'[c].seen = x.seen
        /\ \A g \in Flows : g # f => host'[g] = host[g]
    BY <1>1, <1>17 DEF HostUnheard, CallRecs, InPoll
  <2>3. \A d \in Calls : Polling(d, f) <=> d = c
    BY <2>1, SolePoll DEF Polling
  <2>4. \A d \in Calls : Polling(d, f)' <=> d = c
    BY <1>5, <2>2, <2>3 DEF Polling
  <2>5. phase[f] # "new" BY <2>1, SolePoll
  <2>6. OnePolling(f)'
    BY <1>4, <2>1, <2>2, <2>3, <2>4, <2>5 DEF OnePolling, InTable
  <2> QED BY <1>5, <2>1, <2>2, <2>6, OneFlow
<1>10. CASE ReceiveToken(c)
  <2>1. x.pc \in InPoll /\ UNCHANGED <<phase, host, spent>>
    BY <1>10 DEF ReceiveToken, InPoll, Share, Put
  <2>2. /\ call'[c].pc = "discovering" /\ call'[c].pc \in InPoll /\ call'[c].f = f
        /\ call'[c].seen = [x.seen EXCEPT !.token = TRUE, !.fresh = TRUE]
        /\ \A g \in Flows : g # f => flow'[g] = flow[g]
        /\ flow'[f] = IF InTable(f) THEN call'[c].seen ELSE flow[f]
    BY <1>1, <1>10 DEF ReceiveToken, CallRecs, InPoll, Share, Put
  <2>3. /\ \A d \in Calls : Polling(d, f) <=> d = c
        /\ x.seen \in FlowRecs /\ phase[f] # "new"
        /\ InTable(f) => x.seen.polling /\ x.seen.status = "pending"
    BY <2>1, SolePoll DEF Polling
  <2>4. \A d \in Calls : Polling(d, f)' <=> d = c
    BY <1>5, <2>2, <2>3 DEF Polling
  <2>5. InTable(f) => call'[c].seen.polling /\ call'[c].seen.status = "pending" /\ call'[c].seen.token
    <3>1. \A r \in FlowRecs : LET q == [r EXCEPT !.token = TRUE, !.fresh = TRUE]
                              IN  q.polling = r.polling /\ q.status = r.status /\ q.token
      BY DEF FlowRecs
    <3> QED BY <2>2, <2>3, <3>1
  <2>6. OnePolling(f)'
    BY <2>1, <2>2, <2>3, <2>4, <2>5 DEF OnePolling, InTable
  <2> QED BY <1>5, <2>1, <2>2, <2>6, OneFlow
<1>11. ASSUME NEW r \in FlowRecs, Publish(c, r), x.pc \in InPoll, UNCHANGED host,
              \A g \in Flows : g # f => (g \in spent' <=> g \in spent), spent \subseteq spent',
              f \notin spent' => r.token \/ (r.token = x.seen.token /\ ~(x.pc = "answered" /\ x.ans = "token"))
       PROVE  PollInv'
  <2> DEFINE p == [r EXCEPT !.polling = FALSE, !.due = FALSE]
  <2>1. p \in FlowRecs /\ ~p.polling /\ p.token = r.token
    BY <1>11 DEF FlowRecs
  <2>2. /\ \A g \in Flows : g # f => flow'[g] = flow[g]
        /\ flow'[f] = IF InTable(f) THEN p ELSE flow[f]
        /\ UNCHANGED phase
    BY <1>1, <1>11 DEF Publish, Put
  <2> HIDE DEF p
  <2>3. call'[c].pc \notin InPoll
    BY <1>1, <1>11 DEF Publish, Polled, CallRecs, InPoll
  <2>4. InTable(f) => x.seen.token = flow[f].token
    BY <1>11, SolePoll
  <2> QED BY <1>5, <1>11, <2>1, <2>2, <2>3, <2>4, PollEnds
<1>12. x.pc \in InPoll => x.seen \in FlowRecs
  BY SolePoll
<1> DEFINE s == [x.seen EXCEPT !.fresh = flow[f].fresh]
<1>13. x.seen \in FlowRecs => s \in FlowRecs /\ s.token = x.seen.token
  BY <1>4 DEF FlowRecs
<1>14. s \in FlowRecs =>
      /\ [s EXCEPT !.status = "approved", !.token = TRUE] \in FlowRecs
      /\ [s EXCEPT !.status = "approved", !.token = TRUE].token
      /\ [s EXCEPT !.status = "approved", !.chosen = TRUE] \in FlowRecs
      /\ [s EXCEPT !.status = "approved", !.chosen = TRUE].token = s.token
      /\ [s EXCEPT !.status = "selecting", !.fresh = TRUE] \in FlowRecs
      /\ [s EXCEPT !.status = "selecting", !.fresh = TRUE].token = s.token
      /\ [s EXCEPT !.status = "failed", !.token = FALSE] \in FlowRecs
      /\ [s EXCEPT !.status = "failed"] \in FlowRecs
      /\ [s EXCEPT !.status = "failed"].token = s.token
  BY DEF FlowRecs
<1>15. CASE ReceivePlain(c)
  <2>1. x.pc \in InPoll /\ UNCHANGED <<host, spent>> BY <1>15 DEF ReceivePlain, InPoll
  <2>2. \/ x.ans = "pending" /\ Publish(c, s)
        \/ x.ans = "token" /\ Publish(c, [s EXCEPT !.status = "approved", !.token = TRUE])
        \/ x.ans \notin {"pending", "token"} /\ Publish(c, [s EXCEPT !.status = "failed"])
    BY <1>15 DEF ReceivePlain
  <2> HIDE DEF s
  <2> QED BY <1>11, <1>12, <1>13, <1>14, <2>1, <2>2
<1>16. CASE Discover(c)
  <2>1. x.pc \in InPoll /\ UNCHANGED host /\ x.pc = "discovering" BY <1>16 DEF Discover, InPoll
  <2>2. \/ Publish(c, [s EXCEPT !.status = "approved", !.chosen = TRUE]) /\ spent' = spent
        \/ Publish(c, [s EXCEPT !.status = "selecting", !.fresh = TRUE]) /\ spent' = spent
        \/ Publish(c, [s EXCEPT !.status = "failed", !.token = FALSE]) /\ spent' = spent \cup {f}
    BY <1>16 DEF Discover
  <2> HIDE DEF s
  <2> QED BY <1>11, <1>12, <1>13, <1>14, <2>1, <2>2
<1> QED BY <1>6, <1>7, <1>8, <1>9, <1>10, <1>15, <1>16, <1>17 DEF PollStep

(* A poll whose future is dropped. *)
LEMMA DroppedPolls ==
  ASSUME Typed, Shapes, PollInv, PhaseMoves, UNCHANGED <<phase, host>>, NEW c \in Calls, call[c].pc \in InPoll,
         DropPoll(c), call' = [call EXCEPT ![c] = Idle]
  PROVE  PollInv'
<1>1. call \in [Calls -> CallRecs] /\ flow \in [Flows -> FlowRecs] BY DEF Typed
<1>2. call[c].f \in Flows /\ flow[call[c].f] \in FlowRecs BY SolePoll
<1> PICK f \in Flows : f = call[c].f BY <1>2
<1>3. call'[c].pc \notin InPoll /\ \A d \in Calls : d # c => call'[d] = call[d]
  BY <1>1 DEF Idle, InPoll
<1>4. /\ \A g \in Flows : g # f => flow'[g] = flow[g] /\ (g \in spent' <=> g \in spent)
      /\ ~InTable(f) => flow'[f] = flow[f]
      /\ f \in spent => f \in spent'
      /\ call[c].pc = "answered" /\ call[c].ans = "token" => f \in spent'
  BY <1>1 DEF DropPoll, Unmarked
<1>5. InTable(f) => ~flow'[f].polling /\ flow'[f].token = flow[f].token
  BY <1>1, <1>2 DEF DropPoll, Unmarked, FlowRecs
<1> QED BY <1>3, <1>4, <1>5, PollEnds

(* The choice of a profile: no poll of a flow that waits for one. *)
LEMMA ChosenPolls ==
  ASSUME Typed, Shapes, PollInv, PhaseMoves, NEW c \in Calls, SelectProfile(c)
  PROVE  PollInv'
<1>1. call \in [Calls -> CallRecs] /\ flow \in [Flows -> FlowRecs] BY DEF Typed
<1>2. call[c].f \in Flows BY DEF SelectProfile, Shapes, Shaped, OnFlow, Polls
<1> PICK f \in Flows : f = call[c].f BY <1>2
<1>3. flow[f] \in FlowRecs /\ OnePolling(f) BY <1>1 DEF PollInv
<1>4. /\ \A g \in Flows : g # f => flow'[g] = flow[g]
      /\ UNCHANGED <<phase, host, spent>>
      /\ InTable(f) /\ flow[f].status = "selecting" /\ flow[f].token
      /\ call[c].pc \notin InPoll
  BY <1>1 DEF SelectProfile, InPoll
<1>5. flow'[f].token = flow[f].token /\ flow'[f].polling = flow[f].polling
  BY <1>1, <1>3 DEF SelectProfile, FlowRecs
<1>6. call'[c].pc \notin InPoll /\ \A d \in Calls : d # c => call'[d] = call[d]
  BY <1>1 DEF SelectProfile, InPoll, CallRecs
<1>7. \A d \in Calls : ~Polling(d, f)
  BY <1>3, <1>4 DEF OnePolling
<1>8. \A d \in Calls : ~Polling(d, f)'
  BY <1>6, <1>7 DEF Polling
<1>9. OnePolling(f)'
  BY <1>3, <1>4, <1>5, <1>7, <1>8 DEF OnePolling, InTable
<1> QED BY <1>4, <1>6, <1>9, OneFlow

(* The dashboard's handlers. *)
LEMMA DashboardPolls ==
  ASSUME Typed, Shapes, PollInv, PhaseMoves, NEW c \in Calls, DashboardBegins(c) \/ DashboardSteps(c)
  PROVE  PollInv'
<1>1. call \in [Calls -> CallRecs] BY DEF Typed
<1>2. \A d \in Calls : d # c => call'[d] = call[d] BY OneMoves
<1>3. CASE SelectProfile(c)
  BY <1>3, ChosenPolls
<1>4. CASE DropDashboard(c) /\ call[c].pc \in InPoll
  BY <1>4, DroppedPolls DEF DropDashboard, Finish, InPoll
<1>5. CASE DropDashboard(c) /\ call[c].pc \notin InPoll
  <2>1. call'[c].pc \notin InPoll /\ UNCHANGED <<flow, host, spent>>
    BY <1>1, <1>5 DEF DropDashboard, Finish, Idle, InPoll
  <2> QED BY <1>2, <1>5, <2>1, QuietPolls
<1>6. CASE DashboardBegins(c)
  <2>1. /\ UNCHANGED <<flow, host, spent>>
        /\ call' = call \/ (call[c].pc = "idle" /\ call'[c].pc = "poll")
    BY <1>1, <1>6 DEF DashboardBegins, StartLogin, Register, PollOrRegister, Begin, Cancel, Idle, dvars
  <2> QED BY <1>2, <2>1, QuietPolls DEF InPoll
<1>7. CASE RegisterApproved(c) \/ AnswerPoll(c) \/ RegisterLocked(c) \/ RegisterDone(c) \/ DiscardLogin(c)
  <2>1. UNCHANGED <<flow, host, spent>>
    BY <1>7 DEF RegisterApproved, AnswerPoll, RegisterLocked, RegisterDone, DiscardLogin, dvars
  <2>2. call[c].pc \notin InPoll /\ call'[c].pc \notin InPoll
    BY <1>1, <1>7 DEF RegisterApproved, AnswerPoll, RegisterLocked, RegisterDone, DiscardLogin, Go, Finish, Idle,
       InPoll, CallRecs
  <2> QED BY <1>2, <2>1, <2>2, QuietPolls
<1> QED BY <1>3, <1>4, <1>5, <1>6, <1>7 DEF DashboardSteps

(* The handlers of InferX. *)
LEMMA InferxPolls ==
  ASSUME Typed, Shapes, PollInv, PhaseMoves, NEW c \in Calls, InferxSteps(c)
  PROVE  PollInv'
<1>1. call \in [Calls -> CallRecs] BY DEF Typed
<1>2. \A d \in Calls : d # c => call'[d] = call[d] BY OneMoves
<1>3. CASE Drop(c) /\ call[c].pc \in InPoll
  <2>1. call' = [call EXCEPT ![c] = Idle] BY <1>3 DEF Drop, InPoll, Closures
  <2> QED BY <1>3, <2>1, DroppedPolls DEF Drop
<1>4. CASE Drop(c) /\ call[c].pc \notin InPoll
  <2>1. call'[c].pc \notin InPoll /\ UNCHANGED <<flow, host, spent>>
    BY <1>1, <1>4 DEF Drop, Idle, InPoll, CallRecs
  <2> QED BY <1>2, <1>4, <2>1, QuietPolls
<1>5. CASE ~Drop(c)
  <2>1. UNCHANGED <<flow, host, spent>>
    BY <1>5 DEF InferxSteps, Arrive, Acquire, Read, Settle, Settled, Reserve, PutDecides, StartFlow,
       Register, SaveFlow, PutEnds, PollDecides, Claim, InferxPolled, UpdateDue, VerifyPolled, PollVerified, RegisterRow,
       RegisterEnds, Delete, Answer, ImportDecides, VerifyImport, ImportVerified, Insert, dvars
  <2>2. call[c].pc \notin InPoll /\ call'[c].pc \notin InPoll
    <3>1. CASE Arrive(c)
      BY <1>1, <3>1 DEF Arrive, Idle, InPoll
    <3>2. CASE Acquire(c)
      BY <1>1, <3>2 DEF Acquire, Go, InPoll, CallRecs
    <3>3. CASE ~Arrive(c) /\ ~Acquire(c)
      <4>1. GoesOn(c) \/ Returns(c) \/ Dies(c) BY <1>5, <3>3, Frames
      <4>2. Dies(c) => call[c].pc \notin InPoll BY DEF Dies, Shapes, Shaped, Closures, InPoll
      <4>3. Idle.pc \notin InPoll BY DEF Idle, InPoll
      <4> QED BY <4>1, <4>2, <4>3 DEF GoesOn, Returns, Dies
    <3> QED BY <3>1, <3>2, <3>3
  <2> QED BY <1>2, <2>1, <2>2, QuietPolls
<1> QED BY <1>3, <1>4, <1>5

(* The marks at every step. *)
LEMMA StepPolls ==
  ASSUME Typed, Shapes, PollInv, [Next]_vars
  PROVE  PollInv'
<1>1. PhaseMoves BY StepPhase
<1>2. CASE UNCHANGED <<call, flow, host, spent>>
  BY <1>1, <1>2, QuietPolls
<1>3. \A i \in Conns : RowDue(i) => UNCHANGED <<call, flow, host, spent>>
  BY DEF RowDue, dvars
<1>4. UNCHANGED vars => UNCHANGED <<call, flow, host, spent>>
  BY DEF vars, dvars
<1> QED BY <1>1, <1>2, <1>3, <1>4, WorldPolls, PollPolls, DashboardPolls, InferxPolls DEF Next

(* The check and the stored source are one step under the mutation gate. *)
LEMMA StepRegisters ==
  ASSUME Typed, Shapes, RegisteredOnce, [Next]_vars
  PROVE  RegisteredOnce'
<1>1. entries \in [Flows -> Nat] BY DEF Typed
<1>2. CASE UNCHANGED entries
  BY <1>2 DEF RegisteredOnce
<1>3. ASSUME NEW c \in Calls, RegisterLocked(c) PROVE RegisteredOnce'
  <2>1. call[c].f \in Flows BY <1>3 DEF RegisterLocked, Shapes, Shaped, OnFlow
  <2> QED BY <1>1, <1>3, <2>1 DEF RegisterLocked, Registered, RegisteredOnce
<1>4. World \/ UNCHANGED vars \/ (\E i \in Conns : RowDue(i)) => UNCHANGED entries
  BY DEF World, WindowCloses, PollDue, Decide, vars, dvars, RowDue
<1>5. ASSUME NEW c \in Calls, PollStep(c) PROVE UNCHANGED entries
  BY <1>5 DEF dvars, PollStep, PollEarly, PollUnknown, PollExpires, PollClaims, HostAnswers, HostUnheard, ReceivePlain,
     ReceiveToken, Discover
<1>6. ASSUME NEW c \in Calls, DashboardBegins(c) \/ DashboardSteps(c), ~RegisterLocked(c) PROVE UNCHANGED entries
  BY <1>6 DEF DashboardBegins, DashboardSteps, StartLogin, Register, PollOrRegister, Cancel, SelectProfile,
     RegisterApproved, AnswerPoll, RegisterDone, DiscardLogin, DropDashboard, dvars
<1>7. ASSUME NEW c \in Calls, InferxSteps(c) PROVE UNCHANGED entries
  BY <1>7 DEF InferxSteps, Arrive, Acquire, Drop, Read, Settle, Settled, Reserve, PutDecides, StartFlow,
     Register, SaveFlow, PutEnds, PollDecides, Claim, InferxPolled, UpdateDue, VerifyPolled, PollVerified, RegisterRow,
     RegisterEnds, Delete, Answer, ImportDecides, VerifyImport, ImportVerified, Insert, dvars
<1> QED BY <1>2, <1>3, <1>4, <1>5, <1>6, <1>7 DEF Next


------------------------------------------------------------------------------
(* The locks. *)

(* A step of a poll keeps what its call is. *)
LEMMA PollKeeps ==
  ASSUME Typed, NEW c \in Calls, PollStep(c)
  PROVE  /\ call[c].pc \in InPoll \cup {"poll"} /\ call'[c].pc \in InPoll \cup {"polled", "unknown"}
         /\ call'[c].row = call[c].row /\ call'[c].op = call[c].op /\ call'[c].alive = call[c].alive
         /\ call'[c].f = call[c].f /\ call'[c].gen = call[c].gen /\ UNCHANGED gate
         /\ \A d \in Calls : d # c => call'[d] = call[d]
<1>1. call \in [Calls -> CallRecs] /\ call[c] \in CallRecs BY DEF Typed
<1>2. CASE PollEarly(c) \/ PollUnknown(c) \/ PollExpires(c)
  BY <1>1, <1>2 DEF PollEarly, PollUnknown, PollExpires, Polled, Go, dvars, InPoll, CallRecs
<1>3. CASE PollClaims(c) \/ HostAnswers(c) \/ HostUnheard(c) \/ ReceiveToken(c)
  BY <1>1, <1>3 DEF PollClaims, HostAnswers, HostUnheard, ReceiveToken, InPoll, CallRecs
<1>4. CASE ReceivePlain(c) \/ Discover(c)
  <2>1. PICK r : call' = [call EXCEPT ![c].pc = "polled", ![c].seen = r]
    BY <1>4 DEF ReceivePlain, Discover, Publish, Polled
  <2> QED BY <1>1, <1>4, <2>1 DEF ReceivePlain, Discover, InPoll, CallRecs
<1> QED BY <1>2, <1>3, <1>4 DEF PollStep

(* A call that stays at work, or stays out of it. *)
LEMMA LockStays ==
  ASSUME Typed, LocksHeld, NEW c \in Calls, \A d \in Calls : d # c => call'[d] = call[d], UNCHANGED lock,
         Working(c)' <=> Working(c), Working(c) => call'[c].row = call[c].row
  PROVE  LocksHeld'
<1>1. lock \in [Conns -> Calls \cup {None}] BY DEF Typed
<1>2. \A d \in Calls : /\ Working(d)' <=> Working(d)
                       /\ Working(d) => call'[d].row = call[d].row
  BY DEF Working
<1> QED BY <1>1, <1>2 DEF LocksHeld

(* A call that ends and leaves no lock. *)
LEMMA LockLeft ==
  ASSUME Typed, Typed', LocksHeld, NEW c \in Calls, \A d \in Calls : d # c => call'[d] = call[d],
         lock' = Unlocked(c), ~Working(c)'
  PROVE  LocksHeld'
<1>1. lock \in [Conns -> Calls \cup {None}] /\ call \in [Calls -> CallRecs] BY DEF Typed
<1>2. \A d \in Calls : d # c => /\ Working(d)' <=> Working(d)
                                /\ call'[d].row = call[d].row
  BY DEF Working
<1>3. \A i \in Conns : lock'[i] = IF lock[i] = c THEN None ELSE lock[i]
  BY DEF Unlocked
<1>4. c # None BY DeviceAssumption
<1>5. ASSUME NEW d \in Calls, Working(d)' PROVE lock'[call'[d].row] = d
  <2>1. d # c BY <1>5
  <2>2. Working(d) /\ call'[d].row = call[d].row BY <1>2, <1>5, <2>1
  <2>3. call[d].row \in Conns BY <1>1, <2>2 DEF Working, CallRecs
  <2> QED BY <1>3, <2>1, <2>2, <2>3 DEF LocksHeld
<1>6. ASSUME NEW i \in Conns, lock'[i] # None PROVE (Working(lock[i]) /\ call[lock[i]].row = i)'
  <2>1. lock'[i] = lock[i] /\ lock[i] # c /\ lock[i] # None BY <1>3, <1>6
  <2> PICK d \in Calls : d = lock[i] BY <1>1, <2>1
  <2>2. Working(d) /\ call[d].row = i BY <2>1 DEF LocksHeld
  <2> QED BY <1>2, <2>1, <2>2 DEF Working
<1> QED BY <1>5, <1>6 DEF LocksHeld

(* connection_lock(i) is taken by a call that comes to work on i. *)
LEMMA LockTaken ==
  ASSUME Typed, LocksHeld, NEW c \in Calls, \A d \in Calls : d # c => call'[d] = call[d], NEW i \in Conns,
         ~Working(c), lock[i] = None, lock' = [lock EXCEPT ![i] = c], Working(c)', call'[c].row = i
  PROVE  LocksHeld'
<1>1. lock \in [Conns -> Calls \cup {None}] BY DEF Typed
<1>2. \A d \in Calls : d # c => /\ Working(d)' <=> Working(d)
                                /\ call'[d].row = call[d].row
  BY DEF Working
<1>3. \A j \in Conns : lock[j] # c BY DeviceAssumption DEF LocksHeld
<1>4. \A d \in Calls : Working(d) => call[d].row # i BY DeviceAssumption DEF LocksHeld
<1>5. ASSUME NEW d \in Calls, Working(d)' PROVE lock'[call'[d].row] = d
  <2>1. CASE d = c BY <1>1, <2>1
  <2>2. CASE d # c
    <3>1. Working(d) /\ call'[d].row = call[d].row /\ call[d].row # i BY <1>2, <1>4, <1>5, <2>2
    <3> QED BY <1>1, <3>1 DEF LocksHeld
  <2> QED BY <2>1, <2>2
<1>6. ASSUME NEW j \in Conns, lock'[j] # None PROVE (Working(lock[j]) /\ call[lock[j]].row = j)'
  <2>1. CASE j = i BY <1>1, <2>1
  <2>2. CASE j # i
    <3>1. lock'[j] = lock[j] BY <1>1, <2>2
    <3> PICK d \in Calls : d = lock[j] BY <1>1, <1>6, <3>1
    <3>2. d # c /\ Working(d) /\ call[d].row = j BY <1>3, <1>6, <3>1 DEF LocksHeld
    <3> QED BY <1>2, <3>1, <3>2 DEF Working
  <2> QED BY <2>1, <2>2
<1> QED BY <1>5, <1>6 DEF LocksHeld

(* The locks of the connections at every step. *)
LEMMA StepLocksHeld ==
  ASSUME Typed, Shapes, LocksHeld, [Next]_vars
  PROVE  LocksHeld'
<1>1. Typed' /\ Shapes' BY StepTyped
<1>2. CASE UNCHANGED <<call, lock>>
  BY <1>2 DEF LocksHeld, Working
<1>3. ASSUME NEW c \in Calls, PollStep(c), UNCHANGED lock PROVE LocksHeld'
  <2>1. Working(c)' <=> Working(c)
    BY <1>3, PollKeeps DEF Working, InPoll
  <2> QED BY <1>3, <2>1, PollKeeps, LockStays
<1>4. ASSUME consumer = "dashboard", UNCHANGED <<consumer, lock>> PROVE LocksHeld'
  <2>1. \A d \in Calls : ~Working(d) /\ ~Working(d)'
    BY <1>1, <1>4 DEF Shapes, Shaped, Working
  <2>2. lock \in [Conns -> Calls \cup {None}] BY DEF Typed
  <2> QED BY <1>4, <2>1, <2>2 DEF LocksHeld
<1>5. ASSUME consumer = "inferx", NEW c \in Calls, InferxSteps(c) PROVE LocksHeld'
  <2>1. \A d \in Calls : d # c => call'[d] = call[d] BY <1>5, OneMoves
  <2>2. call \in [Calls -> CallRecs] BY DEF Typed
  <2>3. CASE Arrive(c)
    <3>1. ~Working(c) /\ ~Working(c)' /\ UNCHANGED lock
      BY <2>2, <2>3 DEF Arrive, ivars, Working, Idle
    <3> QED BY <2>1, <3>1, LockStays
  <2>4. CASE Acquire(c)
    <3>1. call[c].alive /\ call[c].pc = "locking" /\ call[c].row \in Conns /\ call[c].row # None
      BY <1>5, <2>4, ConnectionsAssumption DEF Acquire, Shapes, Shaped, Closures
    <3>2. call'[c].alive /\ call'[c].pc \notin {"idle", "locking"} /\ call'[c].row = call[c].row
      BY <2>2, <2>4, <3>1 DEF Acquire, Go, CallRecs
    <3>3. Working(c)' /\ ~Working(c) BY <3>1, <3>2 DEF Working
    <3>4. lock[call[c].row] = None /\ lock' = [lock EXCEPT ![call[c].row] = c]
      BY <2>4 DEF Acquire
    <3> QED BY <2>1, <3>1, <3>2, <3>3, <3>4, LockTaken
  <2>5. CASE Drop(c)
    <3>1. ~Working(c)'
      BY <2>2, <2>5 DEF Drop, Working, Idle, CallRecs
    <3> QED BY <1>1, <2>1, <2>5, <3>1, LockLeft DEF Drop
  <2>6. CASE GoesOn(c)
    <3>1. Working(c)' <=> Working(c)
      BY <2>6 DEF GoesOn, Working
    <3> QED BY <2>1, <2>6, <3>1, LockStays DEF GoesOn
  <2>7. CASE Returns(c)
    <3>1. ~Working(c)'
      BY <2>7 DEF Returns, Working, Idle
    <3> QED BY <1>1, <2>1, <2>7, <3>1, LockLeft DEF Returns
  <2>8. CASE Dies(c)
    <3>1. ~Working(c)' /\ ~Working(c)
      BY <2>8 DEF Dies, Working, Idle
    <3> QED BY <2>1, <2>8, <3>1, LockStays DEF Dies
  <2> QED BY <1>5, <2>3, <2>4, <2>5, <2>6, <2>7, <2>8, Frames
<1>6. (World /\ UNCHANGED ivars) \/ UNCHANGED vars \/ (\E i \in Conns : RowDue(i)) => UNCHANGED <<call, lock>>
  BY DEF World, WindowCloses, PollDue, Decide, vars, ivars, RowDue
<1> QED BY <1>2, <1>3, <1>4, <1>5, <1>6 DEF Next, ivars

(* The mutation gate of the dashboard at every step. *)
LEMMA StepGate ==
  ASSUME Typed, Shapes, GateHeld, [Next]_vars
  PROVE  GateHeld'
<1>1. call \in [Calls -> CallRecs] /\ gate \in Calls \cup {None} BY DEF Typed
<1>2. CASE UNCHANGED <<call, gate>>
  BY <1>2 DEF GateHeld
<1>3. ASSUME NEW c \in Calls, UNCHANGED gate, call[c].pc # "initialising",
             \A d \in Calls : d # c => call'[d] = call[d]
      PROVE  GateHeld'
  BY <1>1, <1>3 DEF GateHeld
<1>4. ASSUME NEW c \in Calls, PollStep(c) PROVE GateHeld'
  BY <1>3, <1>4, PollKeeps DEF InPoll
<1>5. ASSUME NEW c \in Calls, DashboardBegins(c) \/ DashboardSteps(c) PROVE GateHeld'
  <2>1. \A d \in Calls : d # c => call'[d] = call[d] BY <1>5, OneMoves
  <2>2. CASE RegisterDone(c) \/ (DropDashboard(c) /\ gate' = None)
    BY <2>2 DEF RegisterDone, GateHeld
  <2>3. CASE DropDashboard(c) /\ gate' # None
    <3>1. UNCHANGED gate /\ call[c].pc # "initialising" BY <2>3 DEF DropDashboard, InPoll
    <3> QED BY <1>3, <2>1, <3>1
  <2>4. CASE RegisterLocked(c)
    <3>1. CASE Registered(call[c].f)
      <4>1. UNCHANGED gate /\ call[c].pc # "initialising" BY <2>4, <3>1 DEF RegisterLocked
      <4> QED BY <1>3, <2>1, <4>1
    <3>2. CASE ~Registered(call[c].f)
      <4>1. gate' = c /\ call'[c].pc = "initialising" BY <1>1, <2>4, <3>2 DEF RegisterLocked, Go, CallRecs
      <4> QED BY <4>1 DEF GateHeld
    <3> QED BY <3>1, <3>2
  <2>5. CASE DashboardBegins(c) \/ SelectProfile(c) \/ RegisterApproved(c) \/ AnswerPoll(c) \/ DiscardLogin(c)
    <3>1. UNCHANGED gate /\ call[c].pc # "initialising"
      BY <2>5 DEF DashboardBegins, StartLogin, Register, PollOrRegister, Begin, Cancel, SelectProfile,
         RegisterApproved, AnswerPoll, DiscardLogin, dvars
    <3> QED BY <1>3, <2>1, <3>1
  <2> QED BY <1>5, <2>2, <2>3, <2>4, <2>5 DEF DashboardSteps
<1>6. ASSUME consumer = "inferx", NEW c \in Calls, InferxSteps(c) PROVE GateHeld'
  <2>1. \A d \in Calls : d # c => call'[d] = call[d] BY <1>6, OneMoves
  <2>2. call[c].pc # "initialising" BY <1>6 DEF Shapes, Shaped
  <2>3. UNCHANGED gate
    BY <1>6 DEF InferxSteps, Arrive, Acquire, Drop, Read, Settle, Settled, Reserve, PutDecides, StartFlow,
       Register, SaveFlow, PutEnds, PollDecides, Claim, InferxPolled, UpdateDue, VerifyPolled, PollVerified, RegisterRow,
       RegisterEnds, Delete, Answer, ImportDecides, VerifyImport, ImportVerified, Insert, dvars
  <2> QED BY <1>3, <2>1, <2>2, <2>3
<1>7. World \/ UNCHANGED vars \/ (\E i \in Conns : RowDue(i)) => UNCHANGED <<call, gate>>
  BY DEF World, WindowCloses, PollDue, Decide, vars, dvars, RowDue
<1> QED BY <1>2, <1>4, <1>5, <1>6, <1>7 DEF Next

------------------------------------------------------------------------------
(* Flows and connections. *)

(* Where a handler of InferX takes the login it works for: from its        *)
(* connection's row, or from the table when it starts a flow.              *)
Given(c, y) == \A t \in Flows : CallUses(y, t) => CallUses(call[c], t) \/ row[call[c].row].flow = t

(* So does every step but the start of a flow. *)
LEMMA CallGives ==
  ASSUME Typed, Shapes, NEW c \in Calls, InferxSteps(c), ~StartFlow(c)
  PROVE  Given(c, call'[c])
<1> DEFINE x == call[c]
<1>1. x \in CallRecs /\ call \in [Calls -> CallRecs] /\ row \in [Conns -> RowRecs]
  BY DEF Typed
<1>2. Given(c, Idle)
  BY DeviceAssumption DEF Given, CallUses, Idle
<1>3. \A y : y.f = x.f /\ (y.pc \in {"decide", "reserved", "saved"} => y.seen.flow \in {row[x.row].flow, x.f, None})
         => Given(c, y)
  BY DeviceAssumption DEF Given, CallUses
<1>4. \A y : y.pc \notin {"decide", "reserved", "saved"} /\ y.f \in {None, Imported, row[x.row].flow} => Given(c, y)
  BY DeviceAssumption, ConnectionsAssumption DEF Given, CallUses
<1>5. ASSUME NEW z, Done(c, z), Given(c, z) PROVE Given(c, call'[c])
  BY <1>1, <1>2, <1>5 DEF Done
<1>6. ASSUME Return(c) PROVE Given(c, call'[c])
  BY <1>1, <1>2, <1>6 DEF Return, Finish
<1>7. ASSUME NEW s, SettleAs(c, s) PROVE Given(c, call'[c])
  <2>1. call'[c].f = x.f /\ call'[c].pc = "settle" BY <1>1, <1>7 DEF SettleAs, CallRecs
  <2> QED BY <1>3, <2>1
<1>8. ASSUME NEW p \in {"reserve", "delete", "read", "starting", "verify", "update", "register", "insert"}, Go(c, p)
      PROVE  Given(c, call'[c])
  <2>1. call'[c].f = x.f /\ call'[c].pc = p BY <1>1, <1>8 DEF Go, CallRecs
  <2> QED BY <1>3, <2>1
<1>9. CASE Arrive(c)
  <2>1. call'[c].f = None /\ call'[c].pc = "locking" BY <1>1, <1>9 DEF Arrive, Idle
  <2> QED BY <1>4, <2>1
<1>10. CASE Acquire(c)
  BY <1>8, <1>10 DEF Acquire
<1>11. CASE Drop(c)
  <2>1. call'[c] = Idle \/ (call'[c].f = x.f /\ call'[c].pc = x.pc /\ x.pc \in Closures)
    BY <1>1, <1>11 DEF Drop, CallRecs
  <2> QED BY <1>2, <1>3, <2>1 DEF Closures
<1>12. CASE Read(c)
  <2> DEFINE z == [x EXCEPT !.pc = "decide", !.seen = row[x.row]]
  <2>1. Done(c, z) BY <1>12 DEF Read
  <2>2. z.f = x.f /\ z.seen.flow = row[x.row].flow BY <1>1 DEF CallRecs
  <2> HIDE DEF z
  <2> QED BY <1>3, <1>5, <2>1, <2>2
<1>13. CASE Settle(c)
  <2> DEFINE z == [x EXCEPT !.pc = "settled", !.f = row[x.row].flow]
  <2>1. Done(c, z) BY <1>13 DEF Settle
  <2>2. z.f = row[x.row].flow /\ z.pc = "settled" BY <1>1 DEF CallRecs
  <2> HIDE DEF z
  <2> QED BY <1>4, <1>5, <2>1, <2>2
<1>14. CASE Reserve(c)
  <2> DEFINE r == IF row[x.row].status = "none" THEN [NoRow EXCEPT !.status = "pending"] ELSE row[x.row]
             z == [x EXCEPT !.pc = "reserved", !.seen = r]
  <2>1. Done(c, z) BY <1>14 DEF Reserve
  <2>2. r.flow \in {None, row[x.row].flow} BY DEF NoRow
  <2> HIDE DEF r
  <2>3. z.f = x.f /\ z.seen = r BY <1>1 DEF CallRecs
  <2> HIDE DEF z
  <2> QED BY <1>3, <1>5, <2>1, <2>2, <2>3
<1>15. CASE SaveFlow(c)
  <2> DEFINE i == x.row
             r == IF row[i].status = "pending" /\ row[i].flow = None THEN [row[i] EXCEPT !.flow = x.f] ELSE row[i]
             z == [x EXCEPT !.pc = "saved", !.seen = r]
  <2>1. Done(c, z) BY <1>15 DEF SaveFlow
  <2>2. i \in Conns
    BY <1>1, <1>15 DEF SaveFlow, Shapes, Shaped, OnDashboard, Polls, InPoll, Typed
  <2>3. r.flow \in {x.f, row[i].flow} BY <1>1, <2>2 DEF RowRecs
  <2> HIDE DEF r
  <2>4. z.f = x.f /\ z.seen = r BY <1>1 DEF CallRecs
  <2> HIDE DEF z
  <2> QED BY <1>3, <1>5, <2>1, <2>3, <2>4
<1>16. CASE Claim(c) \/ UpdateDue(c) \/ RegisterRow(c) \/ Delete(c) \/ Insert(c)
  <2>1. \E p \in {"poll", "answer", "stored", "refused"} : Done(c, [x EXCEPT !.pc = p])
    BY <1>16 DEF Claim, UpdateDue, RegisterRow, Delete, Insert
  <2> PICK p \in {"poll", "answer", "stored", "refused"} : Done(c, [x EXCEPT !.pc = p]) BY <2>1
  <2> DEFINE z == [x EXCEPT !.pc = p]
  <2>2. z.pc = p /\ z.f = x.f BY <1>1 DEF CallRecs
  <2>3. Done(c, z) OBVIOUS
  <2> HIDE DEF z
  <2> QED BY <1>3, <1>5, <2>2, <2>3
<1>17. CASE Settled(c) \/ PutEnds(c) \/ Answer(c)
  BY <1>6, <1>17 DEF Settled, PutEnds, Answer
<1>18. CASE PutDecides(c) \/ ImportDecides(c) \/ InferxPolled(c) \/ RegisterEnds(c)
  BY <1>6, <1>7, <1>8, <1>18 DEF PutDecides, ImportDecides, InferxPolled, RegisterEnds
<1>19. CASE PollDecides(c)
  <2>1. CASE call' = [call EXCEPT ![c].pc = "claim", ![c].f = x.seen.flow]
    <3>1. call'[c].f = x.seen.flow /\ call'[c].pc = "claim" /\ x.pc = "decide"
      BY <1>1, <1>19, <2>1 DEF PollDecides, CallRecs
    <3> QED BY <3>1 DEF Given, CallUses
  <2> QED BY <1>6, <1>7, <1>19, <2>1 DEF PollDecides
<1>20. ASSUME NEW t, t \in {x.f, Imported}, Verify(c, t) PROVE Given(c, call'[c])
  <2>1. PICK n : call' = [call EXCEPT ![c].pc = "verified", ![c].f = t, ![c].gen = n]
    BY <1>20 DEF Verify
  <2>2. call'[c].f = t /\ call'[c].pc = "verified" BY <1>1, <2>1 DEF CallRecs
  <2> QED BY <1>3, <1>4, <1>20, <2>2
<1>21. CASE VerifyPolled(c) \/ VerifyImport(c)
  BY <1>20, <1>21 DEF VerifyPolled, VerifyImport
<1>22. CASE PollVerified(c) \/ ImportVerified(c)
  BY <1>6, <1>7, <1>8, <1>22 DEF PollVerified, ImportVerified
<1> QED
  BY <1>9, <1>10, <1>11, <1>12, <1>13, <1>14, <1>15, <1>16, <1>17, <1>18, <1>19, <1>21, <1>22 DEF InferxSteps

(* Where a row takes its flow and its credential: from the handler. *)
LEMMA RowGives ==
  ASSUME Typed, Shapes, NEW c \in Calls, InferxSteps(c), consumer = "inferx"
  PROVE  /\ \A i \in Conns : i # call[c].row => row'[i] = row[i]
         /\ call[c].row \in Conns =>
              \A t \in Flows : row'[call[c].row].flow = t \/ row'[call[c].row].cred = t =>
                 row[call[c].row].flow = t \/ row[call[c].row].cred = t \/ call[c].f = t
<1>1. row \in [Conns -> RowRecs] BY DEF Typed
<1>2. CASE UNCHANGED row
  BY <1>2
<1>3. ASSUME NEW r, row' = [row EXCEPT ![call[c].row] = r]
      PROVE  /\ \A i \in Conns : i # call[c].row => row'[i] = row[i]
             /\ call[c].row \in Conns => row'[call[c].row] = r
  BY <1>1, <1>3
<1>4. NoRow.flow = None /\ NoRow.cred = None /\ None \notin Flows
  BY DeviceAssumption DEF NoRow
<1>5. CASE Settle(c)
  <2>1. \A r \in RowRecs : LET q == SetStatus(r, call[c].ans)
                           IN  q.flow \in {None, r.flow} /\ q.cred \in {None, r.cred}
    BY DEF SetStatus, RowRecs
  <2> QED BY <1>1, <1>3, <1>4, <1>5, <2>1 DEF Settle
<1>6. CASE Reserve(c) \/ Delete(c)
  <2> DEFINE p == [NoRow EXCEPT !.status = "pending"]
             q == [NoRow EXCEPT !.status = "disconnected"]
  <2>1. p.flow = None /\ p.cred = None /\ q.flow = None /\ q.cred = None
    BY DEF NoRow
  <2>2. \E r \in {row[call[c].row], p, q} : row' = [row EXCEPT ![call[c].row] = r]
    BY <1>6 DEF Reserve, Delete
  <2>3. \A r \in {row[call[c].row], p, q} : row' = [row EXCEPT ![call[c].row] = r] =>
           /\ \A i \in Conns : i # call[c].row => row'[i] = row[i]
           /\ call[c].row \in Conns => row'[call[c].row] = r
    BY <1>1
  <2> HIDE DEF p, q
  <2> QED BY <1>4, <2>1, <2>2, <2>3
<1>7. CASE SaveFlow(c)
  <2>1. \A r \in RowRecs : \A f : [r EXCEPT !.flow = f].flow = f /\ [r EXCEPT !.flow = f].cred = r.cred
    BY DEF RowRecs
  <2> QED BY <1>1, <1>3, <1>7, <2>1 DEF SaveFlow
<1>8. CASE RegisterRow(c)
  BY <1>2, <1>3, <1>4, <1>8 DEF RegisterRow
<1>9. CASE Insert(c)
  BY <1>2, <1>3, <1>4, <1>9, ConnectionsAssumption DEF Insert
<1>10. CASE ~(Settle(c) \/ Reserve(c) \/ SaveFlow(c) \/ RegisterRow(c) \/ Delete(c) \/ Insert(c))
  BY <1>2, <1>10 DEF InferxSteps, Arrive, Acquire, Drop, Read, Settled, PutDecides, StartFlow, PutEnds,
     PollDecides, Claim, InferxPolled, UpdateDue, VerifyPolled, PollVerified, RegisterEnds, Answer, ImportDecides,
     VerifyImport, ImportVerified, ivars
<1> QED BY <1>5, <1>6, <1>7, <1>8, <1>9, <1>10

(* A step leaves a flow to the connection it serves; device_login::start *)
(* gives a connection a flow that served none.                           *)
LEMMA UsesKept ==
  ASSUME Typed, Typed', Shapes, UsedOnce, PhaseMoves,
         \A t \in Flows, i \in Conns : Uses(i, t)' =>
             Uses(i, t) \/ (phase[t] = "new" /\ phase'[t] # "new" /\ \A j \in Conns : Uses(j, t)' => j = i)
  PROVE  UsedOnce'
<1> SUFFICES ASSUME NEW t \in Flows, NEW i \in Conns, Uses(i, t)'
             PROVE  phase'[t] # "new" /\ \A j \in Conns : Uses(j, t)' => j = i
  BY DEF UsedOnce
<1>1. CASE Uses(i, t)
  <2>1. phase[t] # "new" /\ \A j \in Conns : Uses(j, t) => j = i
    BY <1>1 DEF UsedOnce
  <2>2. phase'[t] # "new"
    BY <2>1 DEF PhaseMoves
  <2> QED BY <2>1, <2>2
<1>2. CASE ~Uses(i, t)
  BY <1>2
<1> QED BY <1>1, <1>2

(* Which flow a step of a handler brings to its connection: none it did    *)
(* not use, or the one it starts.                                          *)
LEMMA UsesMove ==
  ASSUME Typed, Shapes, consumer = "inferx", NEW c \in Calls, InferxSteps(c)
  PROVE  \A t \in Flows, i \in Conns :
            Uses(i, t)' => Uses(i, t) \/ (phase[t] = "new" /\ phase'[t] # "new" /\ i = call[c].row)
<1> DEFINE Goal == \A t \in Flows, i \in Conns :
              Uses(i, t)' => Uses(i, t) \/ (phase[t] = "new" /\ phase'[t] # "new" /\ i = call[c].row)
<1>1. call \in [Calls -> CallRecs] /\ row \in [Conns -> RowRecs] BY DEF Typed
<1>2. \A d \in Calls : d # c => call'[d] = call[d] BY OneMoves
<1>3. ~\E t \in Flows : CallUses(Idle, t)
  BY DeviceAssumption DEF CallUses, Idle
<1>4. \A i \in Conns, t \in Flows : CallUses(call'[c], t) /\ call'[c].row = i => call[c].row = i
  <2>1. CASE Arrive(c)
    <3>1. call'[c].f = None /\ call'[c].pc = "locking" BY <1>1, <2>1 DEF Arrive, Idle
    <3> QED BY <3>1, DeviceAssumption DEF CallUses
  <2>2. CASE Acquire(c)
    <3>1. call'[c].row = call[c].row BY <1>1, <2>2 DEF Acquire, Go, CallRecs
    <3> QED BY <3>1
  <2>3. CASE Drop(c)
    <3>1. call'[c] = Idle \/ call'[c].row = call[c].row BY <1>1, <2>3 DEF Drop, CallRecs
    <3> QED BY <1>3, <3>1
  <2> QED BY <1>3, <2>1, <2>2, <2>3, Frames DEF GoesOn, Returns, Dies
<1>5. ASSUME NEW i \in Conns, NEW t \in Flows, row'[i].flow = t \/ row'[i].cred = t PROVE Uses(i, t)
  <2>1. CASE i # call[c].row
    <3>1. row'[i] = row[i] BY <2>1, RowGives
    <3> QED BY <1>5, <3>1 DEF Uses
  <2>2. CASE i = call[c].row
    <3>1. row[i].flow = t \/ row[i].cred = t \/ call[c].f = t BY <1>5, <2>2, RowGives
    <3> QED BY <2>2, <3>1 DEF Uses, CallUses
  <2> QED BY <2>1, <2>2
<1>6. CASE ~StartFlow(c)
  <2>1. ASSUME NEW i \in Conns, NEW t \in Flows, CallUses(call'[c], t), call'[c].row = i PROVE Uses(i, t)
    <3>1. call[c].row = i BY <1>4, <2>1
    <3>2. CallUses(call[c], t) \/ row[i].flow = t
      BY <1>6, <2>1, <3>1, CallGives DEF Given
    <3> QED BY <3>1, <3>2 DEF Uses
  <2>2. ASSUME NEW t \in Flows, NEW i \in Conns, Uses(i, t)' PROVE Uses(i, t)
    <3>1. CASE row'[i].flow = t \/ row'[i].cred = t BY <1>5, <3>1
    <3>2. CASE CallUses(call'[c], t) /\ call'[c].row = i BY <2>1, <3>2
    <3>3. CASE \E d \in Calls : d # c /\ call'[d].row = i /\ CallUses(call'[d], t)
      BY <1>2, <3>3 DEF Uses
    <3> QED BY <2>2, <3>1, <3>2, <3>3 DEF Uses
  <2> QED BY <2>2
<1>7. CASE StartFlow(c)
  <2>1. row' = row BY <1>7 DEF StartFlow
  <2>2. CASE call'[c] = Idle
    <3>1. \A t \in Flows, i \in Conns : Uses(i, t)' => Uses(i, t) BY <1>2, <1>3, <2>1, <2>2 DEF Uses
    <3> QED BY <3>1
  <2>3. CASE call'[c] # Idle
    <3>1. PICK f \in Flows : /\ \E old \in SUBSET Flows : Register(f, old)
                             /\ call' = [call EXCEPT ![c].pc = "save", ![c].f = f]
      BY <1>1, <1>7, <2>3 DEF StartFlow, Return, Finish
    <3>2. phase[f] = "new" /\ phase'[f] # "new" BY <3>1 DEF Register
    <3>3. call'[c].pc = "save" /\ call'[c].f = f /\ call'[c].row = call[c].row
      BY <1>1, <3>1 DEF CallRecs
    <3>4. \A t \in Flows : CallUses(call'[c], t) => t = f BY <3>3 DEF CallUses
    <3>5. \A t \in Flows, i \in Conns : Uses(i, t)' => Uses(i, t) \/ (t = f /\ i = call[c].row)
      BY <1>2, <2>1, <3>3, <3>4 DEF Uses
    <3> QED BY <3>2, <3>5
  <2> QED BY <2>2, <2>3
<1> QED BY <1>6, <1>7

(* Flows and connections at every step. *)
LEMMA StepUses ==
  ASSUME Typed, Shapes, UsedOnce, [Next]_vars
  PROVE  UsedOnce'
<1>1. Typed' /\ Shapes' /\ PhaseMoves BY StepTyped, StepPhase
<1>2. call \in [Calls -> CallRecs] /\ row \in [Conns -> RowRecs] BY DEF Typed
<1>3. ASSUME \A t \in Flows, i \in Conns : Uses(i, t)' => Uses(i, t) PROVE UsedOnce'
  BY <1>1, <1>3, UsesKept
<1>4. CASE UNCHANGED <<call, row>>
  BY <1>3, <1>4 DEF Uses
<1>5. ASSUME NEW c \in Calls, PollStep(c), UNCHANGED row PROVE UsedOnce'
  <2>1. \A t \in Flows, i \in Conns : call'[c].row = i /\ CallUses(call'[c], t) =>
           call[c].row = i /\ CallUses(call[c], t)
    BY <1>5, PollKeeps DEF CallUses, InPoll
  <2> QED BY <1>3, <1>5, <2>1, PollKeeps DEF Uses
<1>6. ASSUME consumer = "dashboard", UNCHANGED <<consumer, row>> PROVE UsedOnce'
  <2>1. \A d \in Calls : call'[d].row \notin Conns
    BY <1>1, <1>6, ConnectionsAssumption DEF Shapes, Shaped
  <2> QED BY <1>3, <1>6, <2>1 DEF Uses
<1>7. ASSUME consumer = "inferx", NEW c \in Calls, InferxSteps(c) PROVE UsedOnce'
  <2>1. \A t \in Flows, i \in Conns :
           Uses(i, t)' => Uses(i, t) \/ (phase[t] = "new" /\ phase'[t] # "new" /\ i = call[c].row)
    BY <1>7, UsesMove
  <2>2. \A t \in Flows, i \in Conns : phase[t] = "new" => ~Uses(i, t) BY DEF UsedOnce
  <2> QED BY <1>1, <2>1, <2>2, UsesKept
<1>8. (World /\ UNCHANGED ivars) \/ UNCHANGED vars \/ (\E i \in Conns : RowDue(i)) => UNCHANGED <<call, row>>
  BY DEF World, WindowCloses, PollDue, Decide, vars, ivars, RowDue
<1> QED BY <1>4, <1>5, <1>6, <1>7, <1>8 DEF Next, ivars

------------------------------------------------------------------------------
(* Verification and sale. *)

(* How a call comes to verify a login, or to register one. *)
LEMMA Verifiers ==
  ASSUME Typed, Shapes, NEW c \in Calls, InferxSteps(c),
         call'[c].pc \in Polls \cup {"verify", "verified", "register"}
  PROVE  \/ Claim(c) /\ call[c].alive /\ call'[c].pc = "poll" /\ row[call[c].row].status = "pending"
         \/ InferxPolled(c) /\ call'[c].pc = "verify"
         \/ ImportDecides(c) /\ call'[c].pc = "verify"
         \/ (VerifyPolled(c) \/ VerifyImport(c)) /\ call'[c].pc = "verified"
         \/ PollVerified(c) /\ Go(c, "register") /\ call'[c].pc = "register"
         \/ /\ Drop(c) /\ call[c].pc = "register" /\ call'[c].pc = "register"
            /\ call'[c].f = call[c].f /\ call'[c].gen = call[c].gen
            /\ call'[c].row = call[c].row /\ call'[c].op = call[c].op
<1> DEFINE x == call[c]
           Off(y) == y.pc \notin Polls \cup {"verify", "verified", "register"}
<1>1. x \in CallRecs /\ call \in [Calls -> CallRecs]
  BY DEF Typed
<1>2. Off(Idle) BY DEF Idle, Polls, InPoll
<1>3. \A y : y.pc \in {"locking", "reserve", "delete", "read", "decide", "settled", "reserved", "saved", "settle",
                       "starting", "save", "claim", "answer", "update", "stored", "refused", "insert"} => Off(y)
  BY DEF Polls, InPoll
<1>4. ASSUME NEW z, Done(c, z) PROVE call'[c] = Idle \/ (x.alive /\ call'[c] = z)
  BY <1>1, <1>4 DEF Done
<1>5. ASSUME Return(c) PROVE Off(call'[c])
  BY <1>1, <1>2, <1>5 DEF Return, Finish
<1>6. ASSUME NEW s, SettleAs(c, s) PROVE Off(call'[c])
  <2>1. call'[c].pc = "settle" BY <1>1, <1>6 DEF SettleAs, CallRecs
  <2> QED BY <1>3, <2>1
<1>7. ASSUME NEW p \in {"reserve", "delete", "read", "starting", "update", "insert"}, Go(c, p) PROVE Off(call'[c])
  <2>1. call'[c].pc = p BY <1>1, <1>7 DEF Go, CallRecs
  <2> QED BY <1>3, <2>1
<1> HIDE DEF Off
<1>8. CASE Arrive(c)
  <2>1. call'[c].pc = "locking" BY <1>1, <1>8 DEF Arrive, Idle
  <2> QED BY <1>3, <2>1 DEF Off
<1>9. CASE Acquire(c)
  BY <1>7, <1>9 DEF Acquire, Off
<1>10. CASE Drop(c)
  <2>1. CASE x.pc \in Closures
    <3> DEFINE z == [x EXCEPT !.alive = FALSE]
    <3>1. call'[c] = z BY <1>1, <1>10, <2>1 DEF Drop
    <3>2. z.pc = x.pc /\ z.f = x.f /\ z.gen = x.gen /\ z.row = x.row /\ z.op = x.op BY <1>1 DEF CallRecs
    <3> HIDE DEF z
    <3> QED BY <1>10, <2>1, <3>1, <3>2 DEF Closures, Polls, InPoll
  <2>2. CASE x.pc \notin Closures
    <3>1. call'[c] = Idle BY <1>1, <1>10, <2>2 DEF Drop
    <3> QED BY <1>2, <3>1 DEF Off
  <2> QED BY <2>1, <2>2
<1>11. CASE Read(c) \/ Reserve(c) \/ SaveFlow(c)
  <2>1. \E p \in {"decide", "reserved", "saved"} : \E s : Done(c, [x EXCEPT !.pc = p, !.seen = s])
    BY <1>11 DEF Read, Reserve, SaveFlow
  <2> PICK p \in {"decide", "reserved", "saved"} : \E s : Done(c, [x EXCEPT !.pc = p, !.seen = s]) BY <2>1
  <2> PICK s : Done(c, [x EXCEPT !.pc = p, !.seen = s]) OBVIOUS
  <2> DEFINE z == [x EXCEPT !.pc = p, !.seen = s]
  <2>2. z.pc = p BY <1>1 DEF CallRecs
  <2>3. Done(c, z) OBVIOUS
  <2> HIDE DEF z
  <2> QED BY <1>2, <1>3, <1>4, <2>2, <2>3 DEF Off
<1>12. CASE Settle(c)
  <2> DEFINE z == [x EXCEPT !.pc = "settled", !.f = row[x.row].flow]
  <2>1. Done(c, z) BY <1>12 DEF Settle
  <2>2. z.pc = "settled" BY <1>1 DEF CallRecs
  <2> HIDE DEF z
  <2> QED BY <1>2, <1>3, <1>4, <2>1, <2>2 DEF Off
<1>13. CASE UpdateDue(c) \/ RegisterRow(c) \/ Delete(c) \/ Insert(c)
  <2>1. \E p \in {"answer", "stored", "refused"} : Done(c, [x EXCEPT !.pc = p])
    BY <1>13 DEF UpdateDue, RegisterRow, Delete, Insert
  <2> PICK p \in {"answer", "stored", "refused"} : Done(c, [x EXCEPT !.pc = p]) BY <2>1
  <2> DEFINE z == [x EXCEPT !.pc = p]
  <2>2. z.pc = p BY <1>1 DEF CallRecs
  <2>3. Done(c, z) OBVIOUS
  <2> HIDE DEF z
  <2> QED BY <1>2, <1>3, <1>4, <2>2, <2>3 DEF Off
<1>14. CASE Claim(c)
  <2> DEFINE won == row[x.row].status = "pending" /\ rdue[x.row]
             z == [x EXCEPT !.pc = IF won THEN "poll" ELSE "answer"]
  <2>1. Done(c, z) BY <1>14 DEF Claim
  <2>2. z.pc = IF won THEN "poll" ELSE "answer" BY <1>1 DEF CallRecs
  <2> HIDE DEF z
  <2> QED BY <1>2, <1>3, <1>4, <1>14, <2>1, <2>2 DEF Off
<1>15. CASE Settled(c) \/ PutEnds(c) \/ Answer(c)
  BY <1>5, <1>15 DEF Settled, PutEnds, Answer, Off
<1>16. CASE PutDecides(c) \/ RegisterEnds(c)
  BY <1>5, <1>6, <1>7, <1>16 DEF PutDecides, RegisterEnds, Off
<1>17. CASE ImportDecides(c) \/ InferxPolled(c)
  <2>1. Go(c, "verify") => call'[c].pc = "verify" BY <1>1 DEF Go, CallRecs
  <2> QED BY <1>5, <1>6, <1>7, <1>17, <2>1 DEF ImportDecides, InferxPolled, Off
<1>18. ASSUME NEW g, NEW p \in {"save", "claim"}, call' = [call EXCEPT ![c].pc = p, ![c].f = g] PROVE Off(call'[c])
  <2>1. call'[c].pc = p BY <1>1, <1>18 DEF CallRecs
  <2> QED BY <1>3, <2>1
<1>19. CASE StartFlow(c) \/ PollDecides(c)
  <2>1. \/ Return(c)
        \/ \E s : SettleAs(c, s)
        \/ \E g : \E p \in {"save", "claim"} : call' = [call EXCEPT ![c].pc = p, ![c].f = g]
    BY <1>19 DEF StartFlow, PollDecides
  <2> QED BY <1>5, <1>6, <1>18, <2>1 DEF Off
<1>20. CASE VerifyPolled(c) \/ VerifyImport(c)
  <2>1. PICK t : Verify(c, t)
    BY <1>20 DEF VerifyPolled, VerifyImport
  <2>2. PICK n \in Nat : call' = [call EXCEPT ![c] = Verified(x, t, n)]
    BY <2>1, VerifyMoves
  <2>3. call'[c].pc = "verified" BY <1>1, <2>2 DEF CallRecs, Verified
  <2> QED BY <1>20, <2>3
<1>21. CASE PollVerified(c)
  <2>1. Go(c, "register") => call'[c].pc = "register" BY <1>1 DEF Go, CallRecs
  <2> QED BY <1>6, <1>21, <2>1 DEF PollVerified, Off
<1>22. CASE ImportVerified(c)
  BY <1>5, <1>7, <1>22 DEF ImportVerified, Off
<1> QED
  BY <1>8, <1>9, <1>10, <1>11, <1>12, <1>13, <1>14, <1>15, <1>16, <1>17, <1>19, <1>20, <1>21, <1>22
  DEF InferxSteps

(* How a row changes. *)
RowMoves(c, i) ==
    LET s == row[i]
        r == row'[i]
    IN  \/ r = s
        \/ s.status = "none" /\ r.status = "pending" /\ r.flow = None /\ r.cred = None
        \/ s.status = "pending" /\ r.status \in {"failed", "expired"} /\ r.flow = None /\ r.cred = None
        \/ s.status = "pending" /\ r.status = "pending" /\ r.cred = s.cred
        \/ r.status = "disconnected" /\ r.flow = None /\ r.cred = None
        \/ /\ RegisterRow(c) /\ i = call[c].row /\ ~Conflict(i, r.user)
           /\ s.status = "pending" /\ r.status = "registered" /\ r.flow = None
           /\ r.cred = call[c].f /\ r.gen = call[c].gen
        \/ /\ Insert(c) /\ ~Conflict(i, r.user)
           /\ s.status = "none" /\ r.status = "registered" /\ r.flow = None /\ r.cred = Imported

(* Every row at every step of a handler. *)
LEMMA InferxRows ==
  ASSUME Typed, Shapes, NEW c \in Calls, InferxSteps(c), NEW i \in Conns
  PROVE  RowMoves(c, i)
<1>1. row \in [Conns -> RowRecs] BY DEF Typed
<1>2. CASE row'[i] = row[i]
  BY <1>2 DEF RowMoves
<1>3. ASSUME NEW r, row' = [row EXCEPT ![call[c].row] = r], i # call[c].row PROVE row'[i] = row[i]
  BY <1>1, <1>3
<1>4. ASSUME NEW r, row' = [row EXCEPT ![call[c].row] = r], i = call[c].row PROVE row'[i] = r
  BY <1>1, <1>4
<1>5. CASE Settle(c)
  <2>1. call[c].ans \in {"failed", "expired"} BY <1>5 DEF Settle, Shapes, Shaped
  <2>2. \A r \in RowRecs : LET q == SetStatus(r, call[c].ans)
                           IN  \/ q = r
                               \/ /\ r.status = "pending" /\ q.status = call[c].ans
                                  /\ q.flow = None /\ q.cred = None
    BY DEF SetStatus, RowRecs
  <2>3. row' = [row EXCEPT ![call[c].row] = SetStatus(row[call[c].row], call[c].ans)] BY <1>5 DEF Settle
  <2>4. CASE i = call[c].row
    <3>1. row'[i] = SetStatus(row[i], call[c].ans) BY <1>4, <2>3, <2>4
    <3> QED BY <1>1, <2>1, <2>2, <3>1 DEF RowMoves
  <2> QED BY <1>2, <1>3, <2>3, <2>4
<1>6. CASE Reserve(c)
  <2> DEFINE q == [NoRow EXCEPT !.status = "pending"]
  <2>1. q.status = "pending" /\ q.flow = None /\ q.cred = None BY DEF NoRow
  <2>2. row' = [row EXCEPT ![call[c].row] = IF row[call[c].row].status = "none" THEN q ELSE row[call[c].row]]
    BY <1>6 DEF Reserve
  <2> HIDE DEF q
  <2>3. i = call[c].row => row'[i] = IF row[i].status = "none" THEN q ELSE row[i]
    BY <1>4, <2>2
  <2> QED BY <1>2, <1>3, <2>1, <2>2, <2>3 DEF RowMoves
<1>7. CASE SaveFlow(c)
  <2>1. \A r \in RowRecs : \A f : [r EXCEPT !.flow = f].status = r.status /\ [r EXCEPT !.flow = f].cred = r.cred
    BY DEF RowRecs
  <2> DEFINE q == [row[call[c].row] EXCEPT !.flow = call[c].f]
  <2>2. \/ row' = [row EXCEPT ![call[c].row] = q] /\ row[call[c].row].status = "pending"
        \/ row' = [row EXCEPT ![call[c].row] = row[call[c].row]]
    BY <1>7 DEF SaveFlow
  <2>3. i = call[c].row => q.status = row[i].status /\ q.cred = row[i].cred
    BY <1>1, <2>1
  <2> HIDE DEF q
  <2> QED BY <1>2, <1>3, <1>4, <2>2, <2>3 DEF RowMoves
<1>8. CASE Delete(c)
  <2> DEFINE q == [NoRow EXCEPT !.status = "disconnected"]
  <2>1. q.status = "disconnected" /\ q.flow = None /\ q.cred = None BY DEF NoRow
  <2>2. row' = [row EXCEPT ![call[c].row] = q] BY <1>8 DEF Delete
  <2> HIDE DEF q
  <2> QED BY <1>2, <1>3, <1>4, <2>1, <2>2 DEF RowMoves
<1>9. CASE RegisterRow(c)
  <2>1. CASE i = call[c].row
    <3>1. row'[i] = row[i] \/ (/\ row'[i] = [status |-> "registered", flow |-> None, cred |-> call[c].f,
                                            gen |-> call[c].gen, user |-> who[call[c].f]]
                              /\ ~Conflict(i, who[call[c].f]) /\ row[i].status = "pending")
      BY <1>2, <1>4, <1>9, <2>1 DEF RegisterRow, MayRegister
    <3> QED BY <1>9, <2>1, <3>1 DEF RowMoves
  <2> QED BY <1>2, <1>3, <1>9, <2>1 DEF RegisterRow
<1>10. CASE Insert(c)
  <2>1. CASE i = call[c].row
    <3>1. row'[i] = row[i] \/ (/\ row'[i] = [status |-> "registered", flow |-> None, cred |-> Imported,
                                            gen |-> call[c].gen, user |-> who[Imported]]
                              /\ ~Conflict(i, who[Imported]) /\ row[i].status = "none")
      BY <1>2, <1>4, <1>10, <2>1 DEF Insert
    <3> QED BY <1>10, <3>1 DEF RowMoves
  <2> QED BY <1>2, <1>3, <1>10, <2>1 DEF Insert
<1>11. CASE ~(Settle(c) \/ Reserve(c) \/ SaveFlow(c) \/ RegisterRow(c) \/ Delete(c) \/ Insert(c))
  BY <1>2, <1>11 DEF InferxSteps, Arrive, Acquire, Drop, Read, Settled, PutDecides, StartFlow, PutEnds,
     PollDecides, Claim, InferxPolled, UpdateDue, VerifyPolled, PollVerified, RegisterEnds, Answer, ImportDecides,
     VerifyImport, ImportVerified, ivars
<1> QED BY <1>5, <1>6, <1>7, <1>8, <1>9, <1>10, <1>11

(* Which verification rotates which token, and what it leaves the handler. *)
LEMMA Rotations ==
  ASSUME Typed, Shapes, NEW c \in Calls, InferxSteps(c)
  PROVE  /\ \/ UNCHANGED current
            \/ VerifyPolled(c) /\ \A t \in Logins : t # call[c].f => current'[t] = current[t]
            \/ VerifyImport(c) /\ \A t \in Logins : t # Imported => current'[t] = current[t]
         /\ VerifyPolled(c) =>
              LET f == call[c].f IN
              /\ call'[c].pc = "verified" /\ call'[c].f = f /\ call'[c].row = call[c].row
              /\ call'[c].op = call[c].op /\ f \in Flows /\ UNCHANGED row
              /\ \/ call[c].row \in adrift'
                 \/ current'[f] = current[f] /\ call'[c].gen = 0
                 \/ current'[f] = call'[c].gen
<1>1. call[c] \in CallRecs /\ call \in [Calls -> CallRecs] /\ current \in [Logins -> Nat]
  BY DEF Typed
<1>2. CASE VerifyImport(c)
  <2>1. ~VerifyPolled(c) BY <1>2 DEF VerifyPolled, VerifyImport
  <2>2. \A t \in Logins : t # Imported => current'[t] = current[t]
    BY <1>1, <1>2 DEF VerifyImport, Verify
  <2> QED BY <1>2, <2>1, <2>2
<1>3. CASE VerifyPolled(c)
  <2> DEFINE f == call[c].f
  <2>1. \A t \in Logins : t # f => current'[t] = current[t]
    BY <1>1, <1>3 DEF VerifyPolled, Verify
  <2>2. f \in Flows /\ f \in Logins /\ UNCHANGED row
    BY <1>3 DEF VerifyPolled, Shapes, Shaped, Logins
  <2>3. PICK g \in 0..MaxRotations, h \in 0..MaxRotations :
          /\ g <= h
          /\ current' = [current EXCEPT ![f] = IF h > 0 THEN h ELSE @]
          /\ adrift' = IF g < h THEN Lost(c) ELSE adrift
          /\ call' = [call EXCEPT ![c].pc = "verified", ![c].f = f, ![c].gen = g]
    BY <1>3 DEF VerifyPolled, Verify, AfterRotation
  <2>4. /\ call'[c].pc = "verified" /\ call'[c].f = f /\ call'[c].row = call[c].row
        /\ call'[c].op = call[c].op /\ call'[c].gen = g
    BY <1>1, <2>3 DEF CallRecs
  <2>5. current'[f] = IF h > 0 THEN h ELSE current[f]
    BY <1>1, <2>2, <2>3
  <2>6. g < h => call[c].row \in adrift'
    BY <1>3, <2>3 DEF Lost, VerifyPolled
  <2>7. g \in Nat /\ h \in Nat BY ConnectionsAssumption
  <2>8. \/ call[c].row \in adrift'
        \/ current'[f] = current[f] /\ call'[c].gen = 0
        \/ current'[f] = call'[c].gen
    BY <2>3, <2>4, <2>5, <2>6, <2>7
  <2> QED BY <1>3, <2>1, <2>2, <2>4, <2>8
<1>4. CASE ~VerifyPolled(c) /\ ~VerifyImport(c)
  BY <1>4 DEF InferxSteps, Arrive, Acquire, Drop, Read, Settle, Settled, Reserve, PutDecides, StartFlow, SaveFlow,
     PutEnds, PollDecides, Claim, InferxPolled, UpdateDue, PollVerified, RegisterRow, RegisterEnds, Delete, Answer,
     ImportDecides, ImportVerified, Insert, ivars
<1> QED BY <1>2, <1>3, <1>4

(* A call that verifies did so before the step, or just claimed its row. *)
LEMMA StillVerifying ==
  ASSUME Typed, Shapes, NEW c \in Calls, InferxSteps(c), Verifying(c)'
  PROVE  /\ call'[c].row = call[c].row /\ UNCHANGED row
         /\ Verifying(c) \/ (Claim(c) /\ call[c].alive /\ call'[c].pc = "poll" /\ row[call[c].row].status = "pending")
<1>1. call'[c].op = "poll" /\ call'[c].pc \in Polls \cup {"verify", "verified", "register"} BY DEF Verifying
<1>2. call'[c].pc # "idle" /\ Idle.pc = "idle" BY <1>1 DEF Polls, InPoll, Idle
<1>3. ASSUME ~Drop(c), ~Arrive(c), ~Acquire(c) PROVE call'[c].row = call[c].row /\ call'[c].op = call[c].op
  BY <1>2, <1>3, Frames DEF GoesOn, Returns, Dies
<1>4. CASE Claim(c) /\ call[c].alive /\ call'[c].pc = "poll" /\ row[call[c].row].status = "pending"
  <2>1. ~Drop(c) /\ ~Arrive(c) /\ ~Acquire(c)
    BY <1>2, <1>4 DEF Claim, Drop, Arrive, Acquire, Closures, Typed, CallRecs
  <2> QED BY <1>3, <1>4, <2>1 DEF Claim
<1>5. CASE InferxPolled(c) \/ ImportDecides(c) \/ VerifyPolled(c) \/ VerifyImport(c) \/ PollVerified(c)
  <2>1. call[c].alive /\ call[c].pc \notin {"idle", "locking"} \cup InPoll \cup Closures
    BY <1>5 DEF InferxPolled, ImportDecides, VerifyPolled, VerifyImport, PollVerified, Closures, InPoll, Shapes,
       Shaped
  <2>2. ~Drop(c) /\ ~Arrive(c) /\ ~Acquire(c)
    BY <1>2, <2>1 DEF Drop, Arrive, Acquire, Typed
  <2>3. UNCHANGED row /\ (InferxPolled(c) \/ VerifyPolled(c) \/ PollVerified(c) => Verifying(c))
    BY <1>5 DEF InferxPolled, ImportDecides, VerifyPolled, VerifyImport, PollVerified, Verifying, Polls
  <2>4. ~ImportDecides(c) /\ ~VerifyImport(c)
    BY <1>1, <1>3, <2>2 DEF ImportDecides, VerifyImport
  <2> QED BY <1>3, <1>5, <2>2, <2>3, <2>4
<1>6. CASE /\ Drop(c) /\ call[c].pc = "register" /\ call'[c].pc = "register"
           /\ call'[c].row = call[c].row /\ call'[c].op = call[c].op
  BY <1>1, <1>6 DEF Drop, Verifying
<1> QED BY <1>1, <1>4, <1>5, <1>6, Verifiers

(* A call that holds a verified login held it before the step, or just     *)
(* verified it.                                                            *)
LEMMA StillHolding ==
  ASSUME Typed, Shapes, NEW c \in Calls, InferxSteps(c), Holding(c)'
  PROVE  VerifyPolled(c) \/ (Holding(c) /\ call'[c].f = call[c].f /\ call'[c].gen = call[c].gen)
<1>1. call'[c].op = "poll" /\ call'[c].pc \in {"verified", "register"} BY DEF Holding
<1>2. call \in [Calls -> CallRecs] /\ call[c] \in CallRecs BY DEF Typed
<1>3. CASE VerifyImport(c)
  <2>1. PICK t, n : call' = [call EXCEPT ![c].pc = "verified", ![c].f = t, ![c].gen = n]
    BY <1>3 DEF VerifyImport, Verify
  <2>2. call'[c].op = call[c].op BY <1>2, <2>1 DEF CallRecs
  <2> QED BY <1>1, <1>3, <2>2 DEF VerifyImport
<1>4. CASE PollVerified(c) /\ Go(c, "register")
  <2>1. call'[c].f = call[c].f /\ call'[c].gen = call[c].gen BY <1>2, <1>4 DEF Go, CallRecs
  <2> QED BY <1>4, <2>1 DEF PollVerified, Holding
<1>5. CASE /\ Drop(c) /\ call[c].pc = "register"
           /\ call'[c].f = call[c].f /\ call'[c].gen = call[c].gen /\ call'[c].op = call[c].op
  BY <1>1, <1>5 DEF Holding
<1>6. {"verified", "register"} \subseteq Polls \cup {"verify", "verified", "register"}
      /\ {"verified", "register"} \cap (Polls \cup {"verify"}) = {}
  BY DEF Polls, InPoll
<1>7. "poll" \in Polls BY DEF Polls
<1> QED BY <1>1, <1>3, <1>4, <1>5, <1>6, <1>7, Verifiers

(* What is lost stays lost. *)
LEMMA StaysLost ==
  ASSUME NEW c \in Calls, InferxSteps(c)
  PROVE  adrift \subseteq adrift'
BY AdriftGrows

(* A handler that verifies a login of its connection is the only call that *)
(* does, as long as no registration outlived its handler: the others wait  *)
(* for the lock.                                                           *)
LEMMA SoleVerifier ==
  ASSUME Typed, Shapes, LocksHeld, Orphaned, consumer = "inferx", NEW c \in Calls, NEW d \in Calls,
         call[c].row = call[d].row, call[c].row \notin adrift, Verifying(c), Verifying(d)
  PROVE  d = c
<1>1. call[c].pc \notin {"idle", "locking"} /\ call[d].pc \notin {"idle", "locking"}
  BY DEF Verifying, Polls, InPoll
<1>2. call[c].row \in Conns /\ call[c].row # None
  BY <1>1, ConnectionsAssumption DEF Shapes, Shaped
<1>3. \A e \in {c, d} : call[e].alive
  BY DEF Verifying, Orphaned, Shapes, Shaped, Closures, Polls, InPoll
<1> QED BY <1>1, <1>2, <1>3 DEF Working, LocksHeld

(* What is verified is not on sale yet. *)
LEMMA StepNotYetSold ==
  ASSUME Typed, Shapes, LocksHeld, Orphaned, NotYetSold, consumer = "inferx", NEW c \in Calls, InferxSteps(c)
  PROVE  NotYetSold'
<1> SUFFICES ASSUME NEW d \in Calls, Verifying(d)', call'[d].row \in Conns \ adrift'
             PROVE  row'[call'[d].row].status \notin {"none", "registered"}
  BY DEF NotYetSold
<1>1. \A e \in Calls : e # c => call'[e] = call[e] BY OneMoves
<1>2. call'[d].row \in Conns \ adrift BY StaysLost
<1>3. CASE d = c
  BY <1>2, <1>3, StillVerifying DEF NotYetSold
<1>4. CASE d # c
  <2>1. Verifying(d) /\ call'[d].row = call[d].row BY <1>1, <1>4 DEF Verifying
  <2> PICK i \in Conns : i = call[d].row BY <1>2, <2>1
  <2>2. row[i].status \notin {"none", "registered"} BY <1>2, <2>1 DEF NotYetSold
  <2>3. ~(RegisterRow(c) /\ i = call[c].row)
    <3> SUFFICES ASSUME RegisterRow(c), i = call[c].row PROVE FALSE
      OBVIOUS
    <3>1. Verifying(c) BY DEF RegisterRow, Verifying, Shapes, Shaped
    <3> QED BY <1>2, <1>4, <2>1, <3>1, SoleVerifier
  <2>4. RowMoves(c, i) BY InferxRows
  <2> QED BY <2>1, <2>2, <2>3, <2>4 DEF RowMoves
<1> QED BY <1>3, <1>4

(* A registration that outlives its handler. *)
LEMMA StepOrphaned ==
  ASSUME Typed, Shapes, Orphaned, consumer = "inferx", NEW c \in Calls, InferxSteps(c)
  PROVE  Orphaned'
<1> SUFFICES ASSUME NEW d \in Calls, call'[d].pc = "register", ~call'[d].alive
             PROVE  call'[d].row \in adrift'
  BY DEF Orphaned
<1>1. \A e \in Calls : e # c => call'[e] = call[e] BY OneMoves
<1>2. call \in [Calls -> CallRecs] /\ call[c] \in CallRecs BY DEF Typed
<1>3. CASE d # c
  BY <1>1, <1>3, StaysLost DEF Orphaned
<1>4. CASE d = c
  <2>1. CASE PollVerified(c) /\ Go(c, "register")
    <3>1. call'[c].alive = call[c].alive BY <1>2, <2>1 DEF Go, CallRecs
    <3>2. call[c].alive BY <2>1 DEF PollVerified, Shapes, Shaped, Closures
    <3> QED BY <1>4, <3>1, <3>2
  <2>2. CASE Drop(c) /\ call[c].pc = "register" /\ call'[c].row = call[c].row
    <3>1. call[c].op = "poll" BY <2>2 DEF Shapes, Shaped
    <3> QED BY <1>4, <2>2, <3>1 DEF Drop, Left, Lost
  <2>3. "register" \in Polls \cup {"verify", "verified", "register"} /\ "register" \notin {"poll", "verify", "verified"}
    OBVIOUS
  <2> QED BY <1>4, <2>1, <2>2, <2>3, Verifiers
<1> QED BY <1>3, <1>4

(* A login that is verified for a connection is rotated by no other call. *)
LEMMA OtherLogins ==
  ASSUME Typed, Shapes, UsedOnce, consumer = "inferx", NEW c \in Calls, InferxSteps(c),
         NEW i \in Conns, NEW t \in Flows, Uses(i, t), current'[t] # current[t]
  PROVE  VerifyPolled(c) /\ call[c].row = i /\ call[c].f = t
<1>1. t \in Logins /\ t # Imported BY ConnectionsAssumption DEF Logins
<1>2. VerifyPolled(c) /\ call[c].f = t BY <1>1, Rotations
<1>3. call[c].row \in Conns BY <1>2 DEF VerifyPolled, Shapes, Shaped
<1>4. Uses(call[c].row, t) BY <1>2 DEF Uses, CallUses
<1> QED BY <1>2, <1>3, <1>4 DEF UsedOnce

(* A login that was not started has its first token. *)
LEMMA StepUnborn ==
  ASSUME Typed, Shapes, UsedOnce, PhaseMoves, Unborn, consumer = "inferx", NEW c \in Calls, InferxSteps(c)
  PROVE  Unborn'
<1> SUFFICES ASSUME NEW t \in Flows, phase'[t] = "new" PROVE current'[t] = 0
  BY DEF Unborn
<1>1. phase[t] = "new" /\ current[t] = 0 BY DEF PhaseMoves, Unborn
<1>2. t \in Logins /\ t # Imported BY ConnectionsAssumption DEF Logins
<1>3. CASE VerifyPolled(c) /\ call[c].f = t
  <2>1. call[c].row \in Conns BY <1>3 DEF VerifyPolled, Shapes, Shaped
  <2>2. Uses(call[c].row, t) BY <1>3 DEF Uses, CallUses
  <2> QED BY <1>1, <2>1, <2>2 DEF UsedOnce
<1> QED BY <1>1, <1>2, <1>3, Rotations

(* A rotated token is with the handler that verified, until it is sold or  *)
(* lost.                                                                   *)
LEMMA StepUnrotated ==
  ASSUME Typed, Shapes, LocksHeld, UsedOnce, Orphaned, Unborn, Unrotated, consumer = "inferx",
         NEW c \in Calls, InferxSteps(c)
  PROVE  Unrotated'
<1> SUFFICES ASSUME NEW i \in Conns \ adrift', NEW t \in Flows, row'[i].status \in {"none", "pending"}, Uses(i, t)'
             PROVE  \/ current'[t] = 0
                    \/ \E d \in Calls : /\ Holding(d)' /\ call'[d].row = i /\ call'[d].f = t
                                        /\ call'[d].gen = current'[t]
  BY DEF Unrotated
<1>1. \A e \in Calls : e # c => call'[e] = call[e] BY OneMoves
<1>2. i \in Conns \ adrift BY StaysLost
<1>3. row[i].status \in {"none", "pending"}
  <2>1. RowMoves(c, i) BY InferxRows
  <2> QED BY <2>1 DEF RowMoves
<1>4. call \in [Calls -> CallRecs] /\ call[c] \in CallRecs /\ current \in [Logins -> Nat] BY DEF Typed
<1>5. t \in Logins /\ t # Imported BY ConnectionsAssumption DEF Logins
<1>6. CASE ~Uses(i, t)
  <2>1. phase[t] = "new" BY <1>6, UsesMove
  <2>2. current[t] = 0 BY <2>1 DEF Unborn
  <2>3. ~(VerifyPolled(c) /\ call[c].f = t)
    <3> SUFFICES ASSUME VerifyPolled(c), call[c].f = t PROVE FALSE
      OBVIOUS
    <3>1. call[c].row \in Conns BY DEF VerifyPolled, Shapes, Shaped
    <3>2. Uses(call[c].row, t) BY DEF Uses, CallUses
    <3> QED BY <2>1, <3>1, <3>2 DEF UsedOnce
  <2> QED BY <1>5, <2>2, <2>3, Rotations
<1>7. CASE Uses(i, t) /\ current'[t] # current[t]
  <2>1. VerifyPolled(c) /\ call[c].row = i /\ call[c].f = t BY <1>7, OtherLogins
  <2>2. /\ call'[c].pc = "verified" /\ call'[c].f = t /\ call'[c].row = i /\ call'[c].op = "poll"
        /\ current'[t] = call'[c].gen
    BY <1>2, <1>7, <2>1, Rotations DEF VerifyPolled
  <2> QED BY <2>2 DEF Holding
<1>8. CASE Uses(i, t) /\ current'[t] = current[t] /\ current[t] # 0
  <2> PICK d \in Calls : Holding(d) /\ call[d].row = i /\ call[d].f = t /\ call[d].gen = current[t]
    BY <1>2, <1>3, <1>8 DEF Unrotated
  <2>1. CASE d # c
    BY <1>1, <1>8, <2>1 DEF Holding
  <2>2. CASE d = c
    <3>1. call[c].op = "poll" /\ call[c].pc \in {"verified", "register"} /\ call[c].gen # 0
      BY <1>8, <2>2 DEF Holding
    <3>2. ~Drop(c)
      BY <1>2, <2>2, <3>1, <1>4 DEF Drop, Left, Lost, CallRecs
    <3>3. ~RegisterRow(c)
      <4> SUFFICES ASSUME RegisterRow(c) PROVE FALSE
        OBVIOUS
      <4>1. Lost(c) = adrift \cup {i} BY <2>2, <3>1 DEF Lost
      <4>2. ~Conflict(i, who[t]) /\ MayRegister(i)
        BY <2>2, <3>1, <4>1 DEF RegisterRow
      <4>3. row'[i].status = "registered"
        BY <1>4, <2>2, <4>2 DEF RegisterRow, Typed
      <4> QED BY <4>3
    <3>4. PollVerified(c)
      BY <3>1, <3>2, <3>3 DEF InferxSteps, Arrive, Acquire, Read, Settle, Settled, Reserve, PutDecides, StartFlow,
         SaveFlow, PutEnds, PollDecides, Claim, InferxPolled, UpdateDue, VerifyPolled, RegisterEnds, Delete, Answer,
         ImportDecides, VerifyImport, ImportVerified, Insert
    <3>5. Go(c, "register")
      <4> SUFFICES ASSUME adrift' = Left(c) PROVE FALSE
        BY <3>4 DEF PollVerified
      <4>1. call[c].pc = "verified" /\ call[c].gen > 0
        BY <1>4, <3>1, <3>4 DEF PollVerified, CallRecs
      <4>2. i \in adrift' BY <2>2, <3>1, <4>1 DEF Left, Lost
      <4> QED BY <4>2
    <3>6. /\ call'[c].pc = "register" /\ call'[c].op = call[c].op /\ call'[c].row = call[c].row
          /\ call'[c].f = call[c].f /\ call'[c].gen = call[c].gen
      BY <1>4, <3>5 DEF Go, CallRecs
    <3>7. Holding(c)' BY <3>1, <3>6 DEF Holding
    <3> QED BY <1>8, <2>2, <3>6, <3>7
  <2> QED BY <2>1, <2>2
<1> QED BY <1>6, <1>7, <1>8

(* What is about to be registered is the newest token. *)
LEMMA StepNewestToken ==
  ASSUME Typed, Shapes, LocksHeld, UsedOnce, NotYetSold, Orphaned, Unrotated, NewestToken, consumer = "inferx",
         NEW c \in Calls, InferxSteps(c)
  PROVE  NewestToken'
<1> SUFFICES ASSUME NEW d \in Calls, Holding(d)', call'[d].row \in Conns \ adrift',
                    row'[call'[d].row].status = "pending"
             PROVE  call'[d].gen = current'[call'[d].f]
  BY DEF NewestToken
<1>1. \A e \in Calls : e # c => call'[e] = call[e] BY OneMoves
<1>2. call'[d].row = call[d].row
  <2>1. d = c => Verifying(c)' BY DEF Holding, Verifying
  <2> QED BY <1>1, <2>1, StillVerifying
<1> PICK i \in Conns : i = call[d].row BY <1>2
<1>3. i \notin adrift /\ i \notin adrift' BY <1>2, StaysLost
<1>4. Verifying(d)
  <2>1. d # c => Verifying(d) BY <1>1 DEF Holding, Verifying
  <2>2. d = c => VerifyPolled(c) \/ Holding(c) BY StillHolding
  <2> QED BY <2>1, <2>2 DEF Holding, Verifying, VerifyPolled
<1>5. row[i].status = "pending"
  <2>1. RowMoves(c, i) BY InferxRows
  <2>2. row[i].status # "none" BY <1>3, <1>4 DEF NotYetSold
  <2> QED BY <1>2, <2>1, <2>2 DEF RowMoves
<1>6. CASE d = c /\ VerifyPolled(c)
  <2> PICK t \in Flows : t = call[c].f BY <1>6, Rotations
  <2>1. Uses(i, t) BY <1>6 DEF Uses, CallUses
  <2>2. ~Holding(c) BY <1>6 DEF Holding, VerifyPolled
  <2>3. \A e \in Calls : Holding(e) /\ call[e].row = i => e = c
    <3> SUFFICES ASSUME NEW e \in Calls, Holding(e), call[e].row = i PROVE e = c
      OBVIOUS
    <3>1. Verifying(e) BY DEF Holding, Verifying
    <3> QED BY <1>3, <1>4, <1>6, <3>1, SoleVerifier
  <2>4. current[t] = 0 BY <1>3, <1>5, <2>1, <2>2, <2>3 DEF Unrotated
  <2> QED BY <1>3, <1>6, <2>4, Rotations
<1>7. CASE ~(d = c /\ VerifyPolled(c))
  <2>1. Holding(d) /\ call'[d].f = call[d].f /\ call'[d].gen = call[d].gen
    BY <1>1, <1>7, StillHolding DEF Holding
  <2> PICK t \in Flows : t = call[d].f
    BY <2>1 DEF Holding, Shapes, Shaped, OnFlow
  <2>2. Uses(i, t) BY DEF Uses, CallUses
  <2>3. current'[t] = current[t]
    <3> SUFFICES ASSUME current'[t] # current[t] PROVE FALSE
      OBVIOUS
    <3>1. VerifyPolled(c) /\ call[c].row = i BY <2>2, OtherLogins
    <3>2. Verifying(c) BY <3>1 DEF VerifyPolled, Verifying
    <3> QED BY <1>3, <1>4, <1>7, <3>1, <3>2, SoleVerifier
  <2> QED BY <1>3, <1>5, <2>1, <2>3 DEF NewestToken
<1> QED BY <1>6, <1>7

(* No two connections sell one identity. *)
LEMMA StepOneSeller ==
  ASSUME Typed, Shapes, OneSeller, consumer = "inferx", NEW c \in Calls, InferxSteps(c)
  PROVE  OneSeller'
<1>1. \A k \in Conns : RowMoves(c, k) BY InferxRows
<1>2. \A k \in Conns : k # call[c].row => row'[k] = row[k] BY RowGives
<1>3. ASSUME NEW i \in Conns, NEW j \in Conns, i # j, row'[i].status = "registered", row'[j].status = "registered",
             row'[j] = row[j]
      PROVE  row'[i].user # row'[j].user
  <2>1. row'[i] = row[i] \/ ~Conflict(i, row'[i].user) BY <1>1, <1>3 DEF RowMoves
  <2> QED BY <1>3, <2>1 DEF OneSeller, Conflict
<1> QED BY <1>2, <1>3 DEF OneSeller

(* A registered connection holds the newest token of its login. *)
LEMMA StepCredentialFresh ==
  ASSUME Typed, Shapes, UsedOnce, NotYetSold, NewestToken, CredentialFresh, consumer = "inferx",
         NEW c \in Calls, InferxSteps(c)
  PROVE  CredentialFresh'
<1> SUFFICES ASSUME NEW i \in Conns \ adrift', row'[i].status = "registered", row'[i].cred \in Flows
             PROVE  row'[i].gen = current'[row'[i].cred]
  BY DEF CredentialFresh
<1>0. i \in Conns \ adrift BY StaysLost
<1>1. CASE row'[i] = row[i]
  <2>1. Uses(i, row[i].cred) BY DEF Uses
  <2>2. ~(VerifyPolled(c) /\ call[c].row = i)
    BY <1>0, <1>1 DEF VerifyPolled, Verifying, NotYetSold
  <2>3. current'[row[i].cred] = current[row[i].cred]
    BY <1>0, <1>1, <2>1, <2>2, OtherLogins
  <2> QED BY <1>0, <1>1, <2>3 DEF CredentialFresh
<1>2. CASE /\ RegisterRow(c) /\ i = call[c].row /\ row[i].status = "pending"
           /\ row'[i].cred = call[c].f /\ row'[i].gen = call[c].gen
  <2>1. Holding(c) BY <1>2 DEF RegisterRow, Holding, Shapes, Shaped
  <2>2. current' = current BY <1>2 DEF RegisterRow
  <2> QED BY <1>0, <1>2, <2>1, <2>2 DEF NewestToken
<1>3. row'[i].cred # Imported BY ConnectionsAssumption
<1>4. RowMoves(c, i) BY InferxRows
<1> QED BY <1>1, <1>2, <1>3, <1>4 DEF RowMoves

(* Sale and verification at every step. *)
LEMMA StepSell ==
  ASSUME Typed, Shapes, LocksHeld, UsedOnce, SellInv, [Next]_vars
  PROVE  SellInv'
<1>1. NotYetSold /\ Orphaned /\ Unborn /\ Unrotated /\ NewestToken /\ OneSeller /\ CredentialFresh
  BY DEF SellInv
<1>2. SUFFICES /\ NotYetSold' /\ Orphaned' /\ Unborn' /\ Unrotated' /\ NewestToken'
               /\ OneSeller' /\ CredentialFresh'
  BY DEF SellInv
<1>3. Typed' /\ Shapes' /\ PhaseMoves BY StepTyped, StepPhase
<1>4. ASSUME UNCHANGED <<row, current, adrift>>
      PROVE  Unborn' /\ OneSeller' /\ CredentialFresh'
  BY <1>1, <1>3, <1>4 DEF Unborn, OneSeller, CredentialFresh, PhaseMoves
<1>5. ASSUME UNCHANGED <<row, current, adrift>>,
             \A d \in Calls : /\ call'[d].row = call[d].row /\ call'[d].f = call[d].f /\ call'[d].gen = call[d].gen
                              /\ call'[d].op = call[d].op /\ call'[d].alive = call[d].alive
                              /\ call'[d].pc \in {"verified", "register"} <=> call[d].pc \in {"verified", "register"}
                              /\ call'[d].pc = "register" <=> call[d].pc = "register"
                              /\ Verifying(d)' => Verifying(d),
             \A t \in Flows, i \in Conns : Uses(i, t)' => Uses(i, t)
      PROVE  NotYetSold' /\ Orphaned' /\ Unrotated' /\ NewestToken'
  <2>1. \A d \in Calls : Holding(d)' <=> Holding(d) BY <1>5 DEF Holding
  <2>2. NotYetSold' /\ Orphaned' BY <1>1, <1>5 DEF NotYetSold, Orphaned
  <2>3. Unrotated'
    <3> SUFFICES ASSUME NEW i \in Conns \ adrift, NEW t \in Flows, row[i].status \in {"none", "pending"}, Uses(i, t)
                 PROVE  \/ current[t] = 0
                        \/ \E d \in Calls : /\ Holding(d)' /\ call'[d].row = i /\ call'[d].f = t
                                            /\ call'[d].gen = current[t]
      BY <1>5 DEF Unrotated
    <3> QED BY <1>1, <1>5, <2>1 DEF Unrotated
  <2>4. NewestToken' BY <1>1, <1>5, <2>1 DEF NewestToken
  <2> QED BY <2>2, <2>3, <2>4
<1>6. ASSUME UNCHANGED <<call, row, current, adrift>> PROVE NotYetSold' /\ Orphaned' /\ Unrotated' /\ NewestToken'
  <2>1. \A t \in Flows, i \in Conns : Uses(i, t)' <=> Uses(i, t) BY <1>6 DEF Uses
  <2>2. \A d \in Calls : Verifying(d)' <=> Verifying(d) BY <1>6 DEF Verifying
  <2> QED BY <1>5, <1>6, <2>1, <2>2
<1>7. ASSUME NEW c \in Calls, PollStep(c), UNCHANGED <<row, current, adrift>>
      PROVE  NotYetSold' /\ Orphaned' /\ Unrotated' /\ NewestToken'
  <2>1. /\ \A d \in Calls : d # c => call'[d] = call[d]
        /\ call[c].pc \in InPoll \cup {"poll"} /\ call'[c].pc \in InPoll \cup {"polled", "unknown"}
        /\ call'[c].row = call[c].row /\ call'[c].op = call[c].op /\ call'[c].alive = call[c].alive
        /\ call'[c].f = call[c].f /\ call'[c].gen = call[c].gen
    BY <1>7, PollKeeps
  <2>2. \A d \in Calls : /\ call'[d].row = call[d].row /\ call'[d].f = call[d].f /\ call'[d].gen = call[d].gen
                         /\ call'[d].op = call[d].op /\ call'[d].alive = call[d].alive
    BY <2>1
  <2>3. \A d \in Calls : /\ call'[d].pc \in {"verified", "register"} <=> call[d].pc \in {"verified", "register"}
                         /\ call'[d].pc = "register" <=> call[d].pc = "register"
    BY <2>1 DEF InPoll
  <2>4. \A d \in Calls : Verifying(d)' => Verifying(d)
    BY <2>1 DEF Verifying, Polls
  <2>5. \A t \in Flows, i \in Conns : Uses(i, t)' => Uses(i, t)
    <3>1. \A d \in Calls, t \in Flows : CallUses(call'[d], t) => CallUses(call[d], t)
      BY <2>1 DEF CallUses, InPoll
    <3> QED BY <1>7, <2>2, <3>1 DEF Uses
  <2> QED BY <1>5, <1>7, <2>2, <2>3, <2>4, <2>5
<1>8. ASSUME consumer = "dashboard", UNCHANGED <<consumer, row, current, adrift>>
      PROVE  NotYetSold' /\ Orphaned' /\ Unrotated' /\ NewestToken'
  <2>1. \A d \in Calls : /\ call'[d].row \notin Conns /\ call'[d].pc \notin {"verified", "register"}
                         /\ call[d].row \notin Conns
    BY <1>3, <1>8, ConnectionsAssumption DEF Shapes, Shaped, OnDashboard, Polls, InPoll
  <2>2. Unrotated'
    <3> SUFFICES ASSUME NEW i \in Conns \ adrift, NEW t \in Flows, row[i].status \in {"none", "pending"}, Uses(i, t)'
                 PROVE  current[t] = 0
      BY <1>8 DEF Unrotated
    <3>1. Uses(i, t) BY <1>8, <2>1 DEF Uses
    <3> QED BY <1>1, <2>1, <3>1 DEF Unrotated
  <2> QED BY <2>1, <2>2 DEF NotYetSold, Orphaned, NewestToken, Holding
<1>9. ASSUME consumer = "inferx", NEW c \in Calls, InferxSteps(c)
      PROVE  /\ NotYetSold' /\ Orphaned' /\ Unborn' /\ Unrotated' /\ NewestToken'
             /\ OneSeller' /\ CredentialFresh'
  BY <1>1, <1>3, <1>9, StepNotYetSold, StepOrphaned, StepUnborn, StepUnrotated, StepNewestToken, StepOneSeller,
     StepCredentialFresh
<1>10. (World /\ UNCHANGED ivars) \/ UNCHANGED vars \/ (\E i \in Conns : RowDue(i)) =>
           UNCHANGED <<call, row, current, adrift>>
  BY DEF World, WindowCloses, PollDue, Decide, vars, ivars, RowDue
<1> QED BY <1>4, <1>6, <1>7, <1>8, <1>9, <1>10 DEF Next, ivars

(* Every row moves as RowMoves says. *)
RowsMove == \A i \in Conns : row'[i] = row[i] \/ \E c \in Calls : RowMoves(c, i)

(* So at every step. *)
LEMMA StepRowsMove ==
  ASSUME Typed, Shapes, [Next]_vars
  PROVE  RowsMove
<1>1. CASE UNCHANGED row BY <1>1 DEF RowsMove
<1>2. ASSUME NEW c \in Calls, InferxSteps(c) PROVE RowsMove
  BY <1>2, InferxRows DEF RowsMove
<1> QED BY <1>1, <1>2 DEF Next, vars, ivars, RowDue

(* A flow leaves its row with the pending status. *)
LEMMA StepRowInv ==
  ASSUME Typed, Shapes, RowInv, [Next]_vars
  PROVE  RowInv'
<1>1. RowsMove BY StepRowsMove
<1> SUFFICES ASSUME NEW i \in Conns
             PROVE  /\ row'[i].flow # None => row'[i].status = "pending"
                    /\ row'[i].status = "disconnected" => row'[i].cred = None
  BY DEF RowInv
<1>2. /\ row[i].flow # None => row[i].status = "pending"
      /\ row[i].status = "disconnected" => row[i].cred = None
  BY DEF RowInv
<1> QED BY <1>1, <1>2 DEF RowsMove, RowMoves

(* The initial states. *)
LEMMA InitDevice == Init => DeviceInv
<1> SUFFICES ASSUME Init PROVE DeviceInv
  OBVIOUS
<1> USE DEF Init, DeviceInit
<1>1. Typed
  BY Empties, ConnectionsAssumption DEF Typed, Logins
<1>2. Shapes
  BY Empties DEF Shapes
<1>3. PollInv
  BY DEF PollInv, OnePolling, Polling, InTable, Idle, InPoll
<1>4. RegisteredOnce
  BY DEF RegisteredOnce
<1> QED BY <1>1, <1>2, <1>3, <1>4 DEF DeviceInv

(* Every step keeps what is known of the table. *)
LEMMA StepDeviceInv == DeviceInv /\ [Next]_vars => DeviceInv'
  BY StepTyped, StepPolls, StepRegisters DEF DeviceInv

(* What is known of the table holds throughout. *)
LEMMA DeviceAlways == Spec => []DeviceInv
<1> QED BY InitDevice, StepDeviceInv, PTL DEF Spec

(* What is known of the table gives the two properties of it. *)
LEMMA OnePollOnly ==
  ASSUME DeviceInv
  PROVE  PollsExclusive /\ GrantedOnce
<1>1. ASSUME NEW f \in Flows PROVE Cardinality({c \in Calls : call[c].f = f /\ call[c].pc \in InPoll}) <= 1
  <2> DEFINE S == {c \in Calls : Polling(c, f)}
  <2>1. S = {c \in Calls : call[c].f = f /\ call[c].pc \in InPoll} BY DEF Polling
  <2>2. \A c, d \in S : c = d BY DEF DeviceInv, PollInv, OnePolling
  <2>3. CASE S = {}
    BY <2>1, <2>3, FS_EmptySet
  <2>4. CASE S # {}
    <3> PICK c : c \in S BY <2>4
    <3>1. S = {c} BY <2>2
    <3>2. Cardinality(S) = 1 BY <3>1, FS_Singleton
    <3> HIDE DEF S
    <3> QED BY <2>1, <3>2
  <2> QED BY <2>3, <2>4
<1>2. MarkHeld
  BY DEF DeviceInv, PollInv, OnePolling, Polling, MarkHeld
<1>3. TokenKept
  BY DEF DeviceInv, PollInv, OnePolling, Polling, TokenKept
<1> QED BY <1>1, <1>2, <1>3 DEF PollsExclusive, OnePoll, GrantedOnce, DeviceInv

(* Two polls never ask the host about one device code at the same time,    *)
(* and a mark in the table always belongs to a poll in flight: the mark is *)
(* set under the lock that found the poll due, and PollMark gives it back  *)
(* with a dropped future.                                                  *)
THEOREM OnePollAtATime == Spec => []PollsExclusive
<1> QED BY DeviceAlways, OnePollOnly, PTL

(* A login whose token arrived keeps it while its flow is registered,      *)
(* whatever polls are dropped on the way, and racing registrations store   *)
(* one account for it.  What the host's lost answer, or a poll dropped     *)
(* while it received, takes away is in spent.                              *)
THEOREM OneAccountPerGrant == Spec => []GrantedOnce
<1> QED BY DeviceAlways, OnePollOnly, PTL

------------------------------------------------------------------------------
(* The connections of InferX. *)

(* The initial states. *)
LEMMA InitLogins == Init => LoginInv
<1> SUFFICES ASSUME Init PROVE LoginInv
  OBVIOUS
<1>1. DeviceInv BY InitDevice
<1>2. /\ \A c \in Calls : call[c] = Idle
      /\ \A i \in Conns : row[i] = NoRow /\ lock[i] = None
      /\ gate = None
  BY DEF Init, DeviceInit
<1>3. Idle.pc = "idle" /\ Idle.f = None /\ NoRow.status = "none" /\ NoRow.flow = None /\ NoRow.cred = None
  BY DEF Idle, NoRow
<1>4. LocksHeld /\ GateHeld
  BY <1>2, <1>3 DEF LocksHeld, GateHeld, Working
<1>5. UsedOnce
  BY <1>2, <1>3, DeviceAssumption DEF UsedOnce, Uses, CallUses
<1>6. RowInv
  BY <1>2, <1>3 DEF RowInv
<1>7. SellInv
  <2>1. \A t \in Flows : current[t] = 0 BY DEF Init, Logins
  <2>2. \A c \in Calls : ~Verifying(c) /\ ~Holding(c) /\ call[c].pc # "register"
    BY <1>2, <1>3 DEF Verifying, Holding, Polls, InPoll
  <2>3. OneSeller /\ CredentialFresh BY <1>2, <1>3 DEF OneSeller, CredentialFresh
  <2> QED BY <2>1, <2>2, <2>3 DEF SellInv, NotYetSold, Orphaned, Unborn, Unrotated, NewestToken
<1> QED BY <1>1, <1>4, <1>5, <1>6, <1>7 DEF LoginInv

(* The invariant at every step. *)
LEMMA StepLogins == LoginInv /\ [Next]_vars => LoginInv'
<1> SUFFICES ASSUME LoginInv, [Next]_vars PROVE LoginInv'
  OBVIOUS
<1> USE DEF LoginInv
<1>1. DeviceInv' BY StepDeviceInv
<1>2. Typed /\ Shapes BY DEF DeviceInv
<1> QED BY <1>1, <1>2, StepLocksHeld, StepGate, StepUses, StepRowInv, StepSell

(* The invariant holds throughout. *)
LEMMA LoginsAlways == Spec => []LoginInv
<1> QED BY InitLogins, StepLogins, PTL DEF Spec

(* The invariant gives the types, and that what is on sale is sold once. *)
LEMMA SoldInside == LoginInv => SoldOnce
<1> SUFFICES ASSUME LoginInv PROVE SoldOnce
  OBVIOUS
<1>1. Typed /\ LocksHeld /\ GateHeld /\ RowInv /\ OneSeller /\ CredentialFresh
  BY DEF LoginInv, DeviceInv, SellInv
<1>2. \A f \in Flows : flow[f].status \in {"pending", "selecting", "approved", "failed", "expired"}
  BY <1>1 DEF Typed, FlowRecs
<1>3. \A c \in Calls : call[c].pc \in Stages
  BY <1>1 DEF Typed, CallRecs
<1>4. \A i \in Conns : row[i].status \in {"none", "pending", "registered", "failed", "expired", "disconnected"}
  BY <1>1 DEF Typed, RowRecs, RowStatuses
<1>5. \A i \in Conns : lock[i] # None => call[lock[i]].row = i /\ call[lock[i]].alive /\ call[lock[i]].pc # "idle"
  BY <1>1 DEF LocksHeld, Working
<1>6. \A i \in Conns : row[i].flow # None => row[i].status = "pending"
  BY <1>1 DEF RowInv
<1>7. TypeOK
  BY <1>1, <1>2, <1>3, <1>4, <1>5, <1>6 DEF TypeOK, Typed, GateHeld
<1> QED BY <1>1, <1>7 DEF SoldOnce

(* No upstream identity is on sale through two connections, though a       *)
(* registration may outlive its handler and the lock; and what a           *)
(* connection stores is the refresh token the host accepts, unless the     *)
(* newest one was lost, which happens only as CredentialFresh says.        *)
THEOREM SoldOnceOnly == Spec => []SoldOnce
<1> QED BY LoginsAlways, SoldInside, PTL

(* No flow that left the table and no connection that was disconnected     *)
(* comes back, not even by a closure whose client is gone.                 *)
THEOREM GoneForGood == Spec => GoneStaysGone
<1>1. LoginInv /\ [Next]_vars => [\A f \in Flows : phase[f] = "out" => phase'[f] = "out"]_phase
  <2> SUFFICES ASSUME LoginInv, [Next]_vars, NEW f \in Flows, phase[f] = "out" PROVE phase'[f] = "out"
    OBVIOUS
  <2>1. PhaseMoves BY StepPhase DEF LoginInv, DeviceInv
  <2> QED BY <2>1 DEF PhaseMoves
<1>2. LoginInv /\ [Next]_vars =>
        [\A i \in Conns : row[i].status = "disconnected" =>
            row'[i].status = "disconnected" /\ row'[i].cred = None]_row
  <2> SUFFICES ASSUME LoginInv, [Next]_vars, NEW i \in Conns, row[i].status = "disconnected"
               PROVE  row'[i].status = "disconnected" /\ row'[i].cred = None
    OBVIOUS
  <2>1. RowsMove BY StepRowsMove DEF LoginInv, DeviceInv
  <2>2. row[i].cred = None BY DEF LoginInv, RowInv
  <2> QED BY <2>1, <2>2 DEF RowsMove, RowMoves
<1> QED BY <1>1, <1>2, LoginsAlways, PTL DEF Spec, GoneStaysGone, NotRevived, DisconnectedStays
==============================================================================
