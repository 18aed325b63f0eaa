---------------------------- MODULE DeviceLogin ----------------------------
(***************************************************************************)
(* Device-authorization logins (device_login.rs) and their registration    *)
(* from the dashboard (routes_dashboard.rs).                               *)
(*                                                                         *)
(* FLOWS is one table behind one mutex; a poll clones a flow, talks to the *)
(* authorization host without the mutex and publishes its clone.  A poll's *)
(* future may be dropped at each of its awaits.  Time is abstracted to two *)
(* facts per flow: whether its window is open and whether a poll is due.   *)
(* The three kinds of login differ in what the approval still needs: an    *)
(* organization's login (idc) must discover, and maybe choose, a profile.  *)
(* The actions below are the table's operations; InferxConnections adds    *)
(* the second consumer and the specification.                              *)
(***************************************************************************)
EXTENDS Naturals, FiniteSets

CONSTANTS
    Flows,     \* identifiers of device flows
    Calls,     \* concurrent handler futures
    None,
    Kinds,     \* kinds of login offered: a subset of {"social", "builder", "idc"}
    MaxCalls   \* bound: handler calls

ASSUME DeviceAssumption ==
    /\ None \notin Flows \cup Calls
    /\ Kinds \subseteq {"social", "builder", "idc"}
    /\ MaxCalls \in Nat

VARIABLES
    kind,      \* the kind of login of this behaviour
    phase,     \* phase[f]: "new", "in" the table or "out" of it
    flow,      \* flow[f]: status, token, chosen, polling, fresh, due
    host,      \* host[f]: what the authorization host did with the code
    call,      \* call[c]: what a handler is doing
    entries,   \* entries[f]: account sources stored for the login
    gate,      \* the call that holds the pool's mutation gate, or None
    spent,     \* flows whose token was given up or lost on its way: see TokenKept
    budget     \* calls left

dvars == <<kind, phase, flow, host, entries, gate, spent>>

NewFlow == [status |-> "pending", token |-> FALSE, chosen |-> FALSE,
            polling |-> FALSE, fresh |-> TRUE, due |-> FALSE]
Idle == [op |-> "none", pc |-> "idle", f |-> None, row |-> None, ans |-> "none",
         seen |-> NewFlow, alive |-> TRUE, gen |-> 0]

Go(c, pc) == call' = [call EXCEPT ![c].pc = pc]
InTable(f) == phase[f] = "in"

DeviceInit ==
    /\ kind \in Kinds
    /\ phase = [f \in Flows |-> "new"]
    /\ flow = [f \in Flows |-> NewFlow]
    /\ host = [f \in Flows |-> "waiting"]
    /\ call = [c \in Calls |-> Idle]
    /\ entries = [f \in Flows |-> 0]
    /\ gate = None
    /\ spent = {}
    /\ budget = MaxCalls

----------------------------------------------------------------------------
(* The table.                                                              *)

\* start_with_config registers the flow and drops those long past their window.
Register(f, old) ==
    /\ phase[f] = "new"
    /\ old \subseteq {g \in Flows : InTable(g) /\ ~flow[g].fresh}
    /\ phase' = [g \in Flows |-> IF g = f THEN "in" ELSE IF g \in old THEN "out" ELSE phase[g]]
    /\ UNCHANGED <<kind, flow, host, entries, gate, spent>>

\* put publishes only while the flow is still registered.
Put(f, r) ==
    /\ flow' = IF InTable(f) THEN [flow EXCEPT ![f] = r] ELSE flow
    /\ phase' = phase

Discarded(f) == [phase EXCEPT ![f] = IF @ = "in" THEN "out" ELSE @]

\* The clock: a window closes, a poll becomes due.
WindowCloses(f) ==
    /\ InTable(f) /\ flow[f].fresh
    /\ flow' = [flow EXCEPT ![f].fresh = FALSE]
    /\ UNCHANGED <<kind, phase, host, call, entries, gate, spent, budget>>
PollDue(f) ==
    /\ InTable(f) /\ flow[f].status = "pending" /\ ~flow[f].due
    /\ flow' = [flow EXCEPT ![f].due = TRUE]
    /\ UNCHANGED <<kind, phase, host, call, entries, gate, spent, budget>>

\* The person at the browser approves or denies.
Decide(f) ==
    /\ InTable(f) /\ host[f] = "waiting"
    /\ \E d \in {"authorized", "denied"} : host' = [host EXCEPT ![f] = d]
    /\ UNCHANGED <<kind, phase, flow, call, entries, gate, spent, budget>>

----------------------------------------------------------------------------
(* poll: call c polls the flow call[c].f and continues at "polled".        *)

Polled(c, r) == call' = [call EXCEPT ![c].pc = "polled", ![c].seen = r]

\* Answered from the table: a poll in flight, not due yet, or already settled.
Early(w) ==
    \/ w.polling
    \/ w.status = "pending" /\ w.fresh /\ ~w.due
    \/ w.status \in {"approved", "failed", "expired"}
    \/ w.status = "selecting" /\ w.fresh
PollEarly(c) ==
    /\ call[c].pc = "poll"
    /\ InTable(call[c].f)
    /\ Early(flow[call[c].f])
    /\ Polled(c, flow[call[c].f])
    /\ UNCHANGED <<dvars, budget>>

PollUnknown(c) ==
    /\ call[c].pc = "poll"
    /\ ~InTable(call[c].f)
    /\ Go(c, "unknown")
    /\ UNCHANGED <<dvars, budget>>

PollExpires(c) ==
    LET f == call[c].f
        r == [flow[f] EXCEPT !.status = "expired", !.token = FALSE]
    IN  /\ call[c].pc = "poll"
        /\ InTable(f) /\ ~Early(flow[f]) /\ ~flow[f].fresh
        /\ flow' = [flow EXCEPT ![f] = r]
        /\ spent' = IF flow[f].token THEN spent \cup {f} ELSE spent
        /\ Polled(c, r)
        /\ UNCHANGED <<kind, phase, host, entries, gate, budget>>

\* Mutant: the poll does not mark the flow.
Mutant_Unmarked(f) == flow
\* The mark is set under the same lock that found the poll due.
Marked(f) == [flow EXCEPT ![f].polling = TRUE]
PollClaims(c) ==
    LET f == call[c].f IN
    /\ call[c].pc = "poll"
    /\ InTable(f) /\ ~Early(flow[f]) /\ flow[f].fresh
    /\ flow' = Marked(f)
    /\ call' = [call EXCEPT ![c].seen = [flow[f] EXCEPT !.polling = TRUE],
                            ![c].pc = IF kind = "idc" /\ flow[f].token THEN "discovering" ELSE "asking"]
    /\ UNCHANGED <<kind, phase, host, entries, gate, spent, budget>>

\* The host answers: it hands the token of a device code out once.
HostAnswers(c) ==
    LET f == call[c].f IN
    /\ call[c].pc = "asking"
    /\ \E a \in {"pending", "token", "refused"} :
        /\ a = "pending" => host[f] = "waiting"
        /\ a = "token" => host[f] = "authorized"
        /\ host' = [host EXCEPT ![f] = IF a = "token" THEN "issued" ELSE @]
        /\ call' = [call EXCEPT ![c].pc = "answered", ![c].ans = a]
    /\ UNCHANGED <<kind, phase, flow, entries, gate, spent, budget>>

\* The host hands the token out, and its answer does not arrive (20 s) or cannot be
\* read: to the poll that is a refusal.
HostUnheard(c) ==
    LET f == call[c].f IN
    /\ call[c].pc = "asking"
    /\ host[f] = "authorized"
    /\ host' = [host EXCEPT ![f] = "issued"]
    /\ call' = [call EXCEPT ![c].pc = "answered", ![c].ans = "refused"]
    /\ spent' = spent \cup {f}
    /\ UNCHANGED <<kind, phase, flow, entries, gate, budget>>

\* The end of a poll: the clone, with the mark cleared, goes back to the table.
\* Its window is the table's own unless the poll extended it.
Publish(c, r) ==
    LET f == call[c].f
        p == [r EXCEPT !.polling = FALSE, !.due = FALSE]
    IN Put(f, p) /\ Polled(c, p)

ReceivePlain(c) ==
    LET f == call[c].f
        r == [call[c].seen EXCEPT !.fresh = flow[f].fresh]
    IN  /\ call[c].pc = "answered"
        /\ call[c].ans = "token" => kind # "idc"
        /\ Publish(c, CASE call[c].ans = "pending" -> r
                        [] call[c].ans = "token" -> [r EXCEPT !.status = "approved", !.token = TRUE]
                        [] OTHER -> [r EXCEPT !.status = "failed"])
        /\ UNCHANGED <<kind, host, entries, gate, spent, budget>>

\* Mutant: the token stays in the future that received it until discovery ends.
Mutant_KeepsToken(f, r) == flow' = flow /\ phase' = phase
\* The organization's token is kept in the shared flow before the discovery.
Share(f, r) == Put(f, r)
ReceiveToken(c) ==
    LET f == call[c].f
        r == [call[c].seen EXCEPT !.token = TRUE, !.fresh = TRUE]
    IN  /\ call[c].pc = "answered"
        /\ call[c].ans = "token" /\ kind = "idc"
        /\ Share(f, r)
        /\ call' = [call EXCEPT ![c].pc = "discovering", ![c].seen = r]
        /\ UNCHANGED <<kind, host, entries, gate, spent, budget>>

\* discover_into: one profile, several, or none.
Discover(c) ==
    LET f == call[c].f
        r == [call[c].seen EXCEPT !.fresh = flow[f].fresh]
    IN  /\ call[c].pc = "discovering"
        /\ \/ /\ Publish(c, [r EXCEPT !.status = "approved", !.chosen = TRUE])
              /\ spent' = spent
           \/ /\ Publish(c, [r EXCEPT !.status = "selecting", !.fresh = TRUE])
              /\ spent' = spent
           \/ /\ Publish(c, [r EXCEPT !.status = "failed", !.token = FALSE])
              /\ spent' = spent \cup {f}
        /\ UNCHANGED <<kind, host, entries, gate, budget>>

\* PollMark::drop: a poll whose future is dropped gives its mark back.
Unmarked(f) == IF InTable(f) THEN [flow EXCEPT ![f].polling = FALSE] ELSE flow
InPoll == {"asking", "answered", "discovering"}
DropPoll(c) ==
    LET f == call[c].f IN
    /\ flow' = Unmarked(f)
    /\ spent' = IF call[c].pc = "answered" /\ call[c].ans = "token" THEN spent \cup {f} ELSE spent

----------------------------------------------------------------------------
(* The dashboard: start, poll, register with a profile, cancel.            *)

Begin(c, op, f) ==
    /\ call[c].pc = "idle"
    /\ budget > 0
    /\ budget' = budget - 1
    /\ call' = [call EXCEPT ![c] = [Idle EXCEPT !.op = op, !.f = f, !.pc = "poll"]]

StartLogin(c) ==
    /\ budget > 0
    /\ call[c].pc = "idle"
    /\ budget' = budget - 1
    /\ \E f \in Flows, old \in SUBSET Flows : Register(f, old)
    /\ UNCHANGED call

PollOrRegister(c) ==
    /\ \E f \in Flows, op \in {"poll", "register"} : phase[f] # "new" /\ Begin(c, op, f)
    /\ UNCHANGED dvars

Cancel(c) ==
    /\ budget > 0
    /\ call[c].pc = "idle"
    /\ budget' = budget - 1
    /\ \E f \in Flows : InTable(f) /\ phase' = Discarded(f)
    /\ UNCHANGED <<kind, flow, host, call, entries, gate, spent>>

Finish(c) == call' = [call EXCEPT ![c] = Idle]

\* register_device_login after its poll: choose a profile if one is to be chosen.
SelectProfile(c) ==
    LET f == call[c].f
        r == [flow[f] EXCEPT !.status = "approved", !.chosen = TRUE]
    IN  /\ call[c].op = "register" /\ call[c].pc = "polled"
        /\ call[c].seen.status = "selecting"
        /\ InTable(f) /\ flow[f].status = "selecting" /\ flow[f].fresh /\ flow[f].token
        /\ flow' = [flow EXCEPT ![f] = r]
        /\ call' = [call EXCEPT ![c].pc = "registering", ![c].seen = r]
        /\ UNCHANGED <<kind, phase, host, entries, gate, spent, budget>>

RegisterApproved(c) ==
    /\ call[c].op = "register" /\ call[c].pc = "polled"
    /\ call[c].seen.status = "approved"
    /\ Go(c, "registering")
    /\ UNCHANGED <<dvars, budget>>

\* The handlers that end with the poll, and the refusals of register.
AnswerPoll(c) ==
    /\ call[c].op \in {"poll", "register"}
    /\ \/ call[c].pc = "unknown"
       \/ call[c].pc = "polled" /\ (call[c].op = "register" => call[c].seen.status # "approved")
    /\ Finish(c)
    /\ UNCHANGED <<dvars, budget>>

\* register: the check and the stored source are one step under the mutation gate.
Registered(f) == entries[f] > 0
RegisterLocked(c) ==
    LET f == call[c].f IN
    /\ call[c].pc = "registering"
    /\ gate = None
    /\ IF Registered(f)
       THEN /\ Go(c, "discarding")
            /\ UNCHANGED <<entries, gate>>
       ELSE /\ entries' = [entries EXCEPT ![f] = @ + 1]
            /\ gate' = c
            /\ Go(c, "initialising")
    /\ UNCHANGED <<kind, phase, flow, host, spent, budget>>

\* initialize_account and the save, then the gate is free.
RegisterDone(c) ==
    /\ call[c].pc = "initialising"
    /\ gate' = None
    /\ Go(c, "discarding")
    /\ UNCHANGED <<kind, phase, flow, host, entries, spent, budget>>

DiscardLogin(c) ==
    /\ call[c].pc = "discarding"
    /\ phase' = Discarded(call[c].f)
    /\ Finish(c)
    /\ UNCHANGED <<kind, flow, host, entries, gate, spent, budget>>

\* A client leaves: the future ends at its await, with the guards it holds.
DropDashboard(c) ==
    /\ call[c].op \in {"poll", "register"}
    /\ \/ call[c].pc \in InPoll /\ DropPoll(c) /\ UNCHANGED gate
       \/ call[c].pc = "registering" /\ UNCHANGED <<flow, spent, gate>>
       \/ call[c].pc = "initialising" /\ gate' = None /\ UNCHANGED <<flow, spent>>
    /\ Finish(c)
    /\ UNCHANGED <<kind, phase, host, entries, budget>>

PollStep(c) ==
    \/ PollEarly(c) \/ PollUnknown(c) \/ PollExpires(c) \/ PollClaims(c)
    \/ HostAnswers(c) \/ HostUnheard(c) \/ ReceivePlain(c) \/ ReceiveToken(c) \/ Discover(c)
DashboardBegins(c) == StartLogin(c) \/ PollOrRegister(c) \/ Cancel(c)
DashboardSteps(c) ==
    \/ SelectProfile(c) \/ RegisterApproved(c) \/ AnswerPoll(c)
    \/ RegisterLocked(c) \/ RegisterDone(c) \/ DiscardLogin(c) \/ DropDashboard(c)
World == \E f \in Flows : WindowCloses(f) \/ PollDue(f) \/ Decide(f)

----------------------------------------------------------------------------
(* Properties.                                                             *)

\* Two polls never ask the host about one device code at the same time, whoever
\* started them (dashboard tabs, register, InferX).
OnePoll ==
    \A f \in Flows : Cardinality({c \in Calls : call[c].f = f /\ call[c].pc \in InPoll}) <= 1

\* A mark in the table always belongs to a poll in flight: no dropped future leaves a
\* flow that every later poll returns early from.
MarkHeld ==
    \A f \in Flows : InTable(f) /\ flow[f].polling =>
        \E c \in Calls : call[c].f = f /\ call[c].pc \in InPoll

\* A flow is marked exactly while one poll of it is in flight.
PollsExclusive == OnePoll /\ MarkHeld

\* The host gives a token once.  While its flow is registered the token is not lost to a
\* second poll, a dropped discovery or a stale clone; it is given up only when discovery
\* finds nothing, when the window closes, when the host's answer is lost on its way, or
\* with the future that was just receiving it.
TokenKept ==
    \A f \in Flows : host[f] = "issued" /\ InTable(f) /\ f \notin spent =>
        \/ flow[f].token
        \/ \E c \in Calls : call[c].f = f /\ call[c].pc = "answered" /\ call[c].ans = "token"

\* One login becomes at most one account source, however many registrations race.
RegisteredOnce == \A f \in Flows : entries[f] <= 1

\* A login whose token arrived ends in one account: it is not dropped on the way to
\* its registration, but for what TokenKept lists, and never registered twice.
GrantedOnce == TokenKept /\ RegisteredOnce

\* A cancelled or registered login does not come back to the table.
NotRevived == [][\A f \in Flows : phase[f] = "out" => phase'[f] = "out"]_phase
=============================================================================
