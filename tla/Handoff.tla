------------------------------ MODULE Handoff ------------------------------
(***************************************************************************)
(* The blue-green handoff: the deploy script (deploy/bluegreen/deploy.sh)  *)
(* drives two slots that share one store.  One slot is named the runtime   *)
(* writer in the store; only its account state reaches the durable         *)
(* document.  A slot refuses new work while it is quiesced.                *)
(*                                                                         *)
(* Modelled: the path of the script from the first writer claim to the     *)
(* last proof, its rollback, the handoff routes, the admission of requests *)
(* (routes under /v1/ and account mutations alike), the background saver,  *)
(* the boot of a process and its final flush.  A request is abstracted to  *)
(* the one thing the handoff must not lose: the outcome it leaves in the   *)
(* memory of its slot.  Not modelled: the one-time migration from an image *)
(* without handoff routes, and image builds.                               *)
(***************************************************************************)
EXTENDS Naturals, FiniteSets

CONSTANTS
    Slots,        \* the two slots
    Requests,     \* requests, each with one outcome
    None,         \* no slot
    StandbyUsed,  \* an operator runs an endpoint test on the standby's own port
    MaxDeploys,   \* bound: runs of the script
    MaxCrashes,   \* bound: deaths of a slot's process
    MaxNotes      \* bound: background results that only mark the state dirty

ASSUME SlotsAssumption ==
    /\ IsFiniteSet(Slots) /\ Cardinality(Slots) = 2 /\ None \notin Slots
    /\ StandbyUsed \in BOOLEAN

VARIABLES
    writer,    \* runtime_writer.slot
    doc,       \* outcomes in account_runtime.state_json
    edge,      \* the slot HAProxy sends new connections to
    worker,    \* a slot an older HAProxy worker still sends to, or None
    active,    \* the active_slot file
    proc,      \* proc[s]: "down", "booting", "loaded", "up" or "leaving"
    wanted,    \* wanted[s]: the container is restarted when its process dies
    quiesced, dirty,  \* AppState.quiesced and AccountManager.dirty of each slot
    mem,       \* mem[s]: outcomes in the pool of slot s
    reload,    \* reload[s]: the pool is emptied and not yet read back
    save,      \* save[s]: the snapshot being written under the mutation gate
    drain,     \* drain[s]: where a quiesce request of slot s is
    call,      \* call[r]: [pc, slot] of each request
    script,    \* [pc, cur, next] of the deploy script
    budget,    \* deploys, crashes and notes left
    clean,     \* no crash and no failure since the standby started
    lost       \* outcomes that died with a process or with a rollback

store == <<writer, doc>>
ops == <<edge, worker, active>>
slots == <<proc, wanted, quiesced, dirty, mem, reload, save, drain>>
ghosts == <<clean, lost>>
vars == <<store, ops, slots, call, script, budget, ghosts>>

NoSave == [by |-> "none", doc |-> {}]
Other(s) == CHOOSE t \in Slots : t # s
Counted(s) == {r \in Requests : call[r].slot = s /\ call[r].pc \in {"counted", "serving", "noted"}}
Alive(s) == {r \in Requests : call[r].slot = s /\ call[r].pc \in {"checked", "counted", "serving", "noted"}}
Listening(s) == proc[s] = "up"

TypeOK ==
    /\ writer \in Slots /\ edge \in Slots /\ active \in Slots
    /\ worker \in Slots \cup {None}
    /\ doc \subseteq Requests /\ lost \subseteq Requests
    /\ proc \in [Slots -> {"down", "booting", "loaded", "up", "leaving"}]
    /\ wanted \in [Slots -> BOOLEAN] /\ quiesced \in [Slots -> BOOLEAN]
    /\ dirty \in [Slots -> BOOLEAN] /\ reload \in [Slots -> BOOLEAN]
    /\ mem \in [Slots -> SUBSET Requests]
    /\ save \in [Slots -> [by : {"none", "timer", "quiesce", "exit"}, doc : SUBSET Requests]]
    /\ drain \in [Slots -> {"none", "waiting", "saving", "ok", "refused"}]
    /\ \A r \in Requests :
        /\ call[r].pc \in {"new", "checked", "counted", "serving", "noted", "answered", "gone"}
        /\ call[r].slot \in Slots \cup {None}
        /\ (call[r].slot = None) = (call[r].pc = "new")
    /\ clean \in BOOLEAN

Init ==
    \E s \in Slots :
        /\ writer = s /\ edge = s /\ active = s
        /\ worker = None
        /\ doc = {}
        /\ proc = [t \in Slots |-> IF t = s THEN "up" ELSE "down"]
        /\ wanted = [t \in Slots |-> t = s]
        /\ quiesced = [t \in Slots |-> FALSE]
        /\ dirty = [t \in Slots |-> FALSE]
        /\ mem = [t \in Slots |-> {}]
        /\ reload = [t \in Slots |-> FALSE]
        /\ save = [t \in Slots |-> NoSave]
        /\ drain = [t \in Slots |-> "none"]
        /\ call = [r \in Requests |-> [pc |-> "new", slot |-> None]]
        /\ script = [pc |-> "idle", cur |-> s, next |-> Other(s)]
        /\ budget = [deploys |-> MaxDeploys, crashes |-> MaxCrashes, notes |-> MaxNotes]
        /\ clean = TRUE
        /\ lost = {}

----------------------------------------------------------------------------
(* Admission: data_plane_middleware and InflightGuard.                     *)

At(r, s, pc) == call' = [call EXCEPT ![r] = [pc |-> pc, slot |-> s]]

\* The first check of `quiesced`.
Arrive(r) ==
    /\ call[r].pc = "new"
    /\ \E s \in {edge, worker} \ {None} :
        At(r, s, IF Listening(s) /\ ~quiesced[s] THEN "checked" ELSE "gone")
    /\ UNCHANGED <<store, ops, slots, script, budget, ghosts>>

\* InflightGuard::enter.
Count(r) ==
    /\ call[r].pc = "checked"
    /\ At(r, call[r].slot, "counted")
    /\ UNCHANGED <<store, ops, slots, script, budget, ghosts>>

\* Mutant: the first check alone.
Mutant_OneCheck(s) == TRUE
\* The check after the request counted itself closes the race with a quiesce.
SecondCheck(s) == ~quiesced[s]
Recheck(r) ==
    /\ call[r].pc = "counted"
    /\ At(r, call[r].slot, IF SecondCheck(call[r].slot) THEN "serving" ELSE "gone")
    /\ UNCHANGED <<store, ops, slots, script, budget, ghosts>>

\* The outcome reaches the pool; a pool that is being read back forgets it.
Note(r) ==
    LET s == call[r].slot IN
    /\ call[r].pc = "serving"
    /\ At(r, s, "noted")
    /\ mem' = [mem EXCEPT ![s] = IF reload[s] THEN @ ELSE @ \cup {r}]
    /\ lost' = IF reload[s] THEN lost \cup {r} ELSE lost
    /\ dirty' = [dirty EXCEPT ![s] = TRUE]
    /\ UNCHANGED <<store, ops, proc, wanted, quiesced, reload, save, drain, script, budget, clean>>

\* InflightGuard::drop: with the end of the answer, or with the client that left.
Leave(r) ==
    /\ call[r].pc \in {"serving", "noted"}
    /\ At(r, call[r].slot, IF call[r].pc = "noted" THEN "answered" ELSE "gone")
    /\ UNCHANGED <<store, ops, slots, script, budget, ghosts>>

----------------------------------------------------------------------------
(* Saving: save_state under the mutation gate.  The flag and the snapshot  *)
(* are one step here; PoolState splits them.                               *)

StartSave(s, by) ==
    /\ save[s] = NoSave
    /\ save' = [save EXCEPT ![s] = [by |-> by, doc |-> mem[s]]]
    /\ dirty' = [dirty EXCEPT ![s] = FALSE]

\* The saver of spawn_background; it does not look at `quiesced`.
SaverFires(s) ==
    /\ proc[s] \in {"up", "leaving"}
    /\ dirty[s]
    /\ StartSave(s, "timer")
    /\ UNCHANGED <<store, ops, proc, wanted, quiesced, mem, reload, drain, call, script, budget, ghosts>>

\* Mutant: any slot's save is written.
Mutant_Ungated(s) == TRUE
\* save_runtime_state: the insert is conditional on the writer row.
MayWrite(s) == writer = s
FinishSave(s) ==
    /\ save[s] # NoSave
    /\ doc' = IF MayWrite(s) THEN save[s].doc ELSE doc
    /\ dirty' = [dirty EXCEPT ![s] = @ \/ ~MayWrite(s)]
    /\ save' = [save EXCEPT ![s] = NoSave]
    /\ drain' = [drain EXCEPT ![s] =
                    IF save[s].by = "quiesce" /\ @ = "saving"
                    THEN IF MayWrite(s) THEN "ok" ELSE "refused" ELSE @]
    /\ IF save[s].by = "exit"
       THEN /\ proc' = [proc EXCEPT ![s] = "down"]
            /\ mem' = [mem EXCEPT ![s] = {}]
       ELSE UNCHANGED <<proc, mem>>
    /\ lost' = IF clean THEN lost ELSE lost \cup ((doc \cup mem[s]) \ (doc' \cup mem'[s]))
    /\ UNCHANGED <<writer, ops, wanted, quiesced, reload, call, script, budget, clean>>

\* A usage poll or an endpoint test initialises an account and marks the pool dirty.
\* On a quiesced slot it is one begun before, or a test asked of the slot's own port,
\* whose route is not gated.
BackgroundNote(s) ==
    /\ proc[s] = "up"
    /\ StandbyUsed \/ ~quiesced[s] \/ s = script.cur
    /\ ~dirty[s]
    /\ budget.notes > 0
    /\ budget' = [budget EXCEPT !.notes = @ - 1]
    /\ dirty' = [dirty EXCEPT ![s] = TRUE]
    /\ UNCHANGED <<store, ops, proc, wanted, quiesced, mem, reload, save, drain, call, script, ghosts>>

----------------------------------------------------------------------------
(* The handoff routes.                                                     *)

\* Mutant: the quiesce saves at once.
Mutant_NoWait(s) == TRUE
\* handoff_quiesce: refuse new work, wait for the counted work, then save.
Drained(s) == Counted(s) = {}
QuiesceSaves(s) ==
    /\ drain[s] = "waiting"
    /\ Drained(s)
    /\ drain' = [drain EXCEPT ![s] = "saving"]
    /\ StartSave(s, "quiesce")
    /\ UNCHANGED <<store, ops, proc, wanted, quiesced, mem, reload, call, script, budget, ghosts>>

\* handoff_activate, after reload_durable_state emptied the pool: read it back,
\* then accept work.
ReadBack(s) == doc
ActivateEnds(s) ==
    /\ reload[s]
    /\ mem' = [mem EXCEPT ![s] = ReadBack(s)]
    /\ reload' = [reload EXCEPT ![s] = FALSE]
    /\ quiesced' = [quiesced EXCEPT ![s] = FALSE]
    /\ UNCHANGED <<store, ops, proc, wanted, dirty, save, drain, call, script, budget, ghosts>>

----------------------------------------------------------------------------
(* The process of a slot.                                                  *)

\* A process that ends takes its requests, its memory and its handlers along.
Gone(s) == [r \in Requests |->
    IF r \in Alive(s)
    THEN [call[r] EXCEPT !.pc = IF @ = "noted" THEN "answered" ELSE "gone"]
    ELSE call[r]]
Fresh(s) ==
    /\ call' = Gone(s)
    /\ mem' = [mem EXCEPT ![s] = {}]
    /\ reload' = [reload EXCEPT ![s] = FALSE]
    /\ save' = [save EXCEPT ![s] = NoSave]
    /\ drain' = [drain EXCEPT ![s] = "none"]
    /\ dirty' = [dirty EXCEPT ![s] = FALSE]
    /\ lost' = lost \cup (mem[s] \ doc)

Crash(s) ==
    /\ proc[s] # "down"
    /\ budget.crashes > 0
    /\ budget' = [budget EXCEPT !.crashes = @ - 1]
    /\ proc' = [proc EXCEPT ![s] = IF wanted[s] THEN "booting" ELSE "down"]
    /\ quiesced' = [quiesced EXCEPT ![s] = FALSE]
    /\ Fresh(s)
    /\ clean' = FALSE
    /\ UNCHANGED <<store, ops, wanted, script>>

\* serve: a slot that is not the writer starts quiesced, with the stored pool.
StandbyAtBoot(s) == writer # s
Boot(s) ==
    /\ proc[s] = "booting"
    /\ proc' = [proc EXCEPT ![s] = "loaded"]
    /\ quiesced' = [quiesced EXCEPT ![s] = StandbyAtBoot(s)]
    /\ mem' = [mem EXCEPT ![s] = doc]
    /\ UNCHANGED <<store, ops, wanted, dirty, reload, save, drain, call, script, budget, ghosts>>

Listen(s) ==
    /\ proc[s] = "loaded"
    /\ proc' = [proc EXCEPT ![s] = "up"]
    /\ UNCHANGED <<store, ops, wanted, quiesced, dirty, mem, reload, save, drain, call, script, budget, ghosts>>

\* serve_until_shutdown has drained; the final flush saves once more.
Exit(s) ==
    /\ proc[s] = "leaving"
    /\ Alive(s) = {}
    /\ StartSave(s, "exit")
    /\ UNCHANGED <<store, ops, proc, wanted, quiesced, mem, reload, drain, call, script, budget, ghosts>>

\* docker stop kills a container that does not leave in time.
Killed(s) ==
    /\ proc[s] = "leaving"
    /\ proc' = [proc EXCEPT ![s] = "down"]
    /\ Fresh(s)
    /\ UNCHANGED <<store, ops, wanted, quiesced, script, budget, clean>>

\* The HAProxy worker of before the last reload ends.
WorkerEnds ==
    /\ worker # None
    /\ worker' = None
    /\ UNCHANGED <<store, edge, active, slots, call, script, budget, ghosts>>

----------------------------------------------------------------------------
(* The script.  Step(a, b) moves it from a to b.                           *)

cur == script.cur
next == script.next
Step(a, b) == script.pc = a /\ script' = [script EXCEPT !.pc = b]

Deploy ==
    /\ script.pc \in {"idle", "done", "failed", "dead"}
    /\ budget.deploys > 0
    /\ budget' = [budget EXCEPT !.deploys = @ - 1]
    /\ script' = [pc |-> "claim", cur |-> active, next |-> Other(active)]
    /\ UNCHANGED <<store, ops, slots, call, ghosts>>

\* set_runtime_writer, before and after the old slot is drained.
SetWriter(a, b, s) ==
    /\ Step(a, b)
    /\ writer' = s
    /\ UNCHANGED <<doc, ops, slots, call, budget, ghosts>>
Claim == SetWriter("claim", "ask", cur)
HandOver == SetWriter("handover", "activate", next)

\* handoff_status: 200 of handoff_ready.
Ready(s) == Listening(s) /\ ~quiesced[s]
Ask ==
    /\ Ready(cur)
    /\ Step("ask", "start")
    /\ UNCHANGED <<store, ops, slots, call, budget, ghosts>>

\* A slot whose pool lost nothing of the document to an earlier rollback.
Knows(s) ==
    /\ doc \subseteq mem[s] /\ save[s].doc \subseteq mem[s]
    /\ save[s] # NoSave => doc \subseteq save[s].doc

\* compose up --force-recreate of the idle slot.
StartStandby ==
    /\ Step("start", "health")
    /\ proc' = [proc EXCEPT ![next] = "booting"]
    /\ wanted' = [wanted EXCEPT ![next] = TRUE]
    /\ Fresh(next)
    /\ clean' = Knows(cur)
    /\ UNCHANGED <<store, ops, quiesced, budget>>

Health ==
    /\ Listening(next)
    /\ Step("health", "quiesce")
    /\ UNCHANGED <<store, ops, slots, call, budget, ghosts>>

PostQuiesce ==
    /\ Listening(cur)
    /\ Step("quiesce", "draining")
    /\ quiesced' = [quiesced EXCEPT ![cur] = TRUE]
    /\ drain' = [drain EXCEPT ![cur] = "waiting"]
    /\ UNCHANGED <<store, ops, proc, wanted, dirty, mem, reload, save, call, budget, ghosts>>

QuiesceAnswered ==
    /\ drain[cur] = "ok"
    /\ Step("draining", "handover")
    /\ drain' = [drain EXCEPT ![cur] = "none"]
    /\ UNCHANGED <<store, ops, proc, wanted, quiesced, dirty, mem, reload, save, call, budget, ghosts>>

\* handoff_activate: only the writer; reload_durable_state empties the pool first.
MayActivate(s) == writer = s
Activate(s) ==
    /\ Listening(s)
    /\ MayActivate(s)
    /\ ~reload[s]
    /\ reload' = [reload EXCEPT ![s] = TRUE]
    /\ mem' = [mem EXCEPT ![s] = {}]
    /\ lost' = lost \cup (mem[s] \ doc)
    /\ UNCHANGED <<store, ops, proc, wanted, quiesced, dirty, save, drain, call, budget, clean>>
PostActivate == Step("activate", "activating") /\ Activate(next)

WaitReady ==
    /\ ~reload[next]
    /\ Ready(next)
    /\ Step("activating", "flip")
    /\ UNCHANGED <<store, ops, slots, call, budget, ghosts>>

\* render_haproxy_cfg and soft_reload_edge; the older worker may linger.
PointEdge(a, b, s) ==
    /\ Step(a, b)
    /\ edge' = s
    /\ worker' = IF edge = s THEN worker ELSE edge
    /\ UNCHANGED <<store, active, slots, call, budget, ghosts>>
Flip == PointEdge("flip", "prove", next)

\* prove_slot, then write_active.
Prove ==
    /\ Step("prove", "stop")
    /\ Listening(edge) /\ edge = next
    /\ active' = next
    /\ UNCHANGED <<store, edge, worker, slots, call, budget, ghosts>>

\* compose stop: serve_until_shutdown quiesces the slot.
StopOld ==
    /\ Step("stop", "last")
    /\ wanted' = [wanted EXCEPT ![cur] = FALSE]
    /\ proc' = [proc EXCEPT ![cur] = CASE @ = "up" -> "leaving" [] OTHER -> "down"]
    /\ quiesced' = [quiesced EXCEPT ![cur] = TRUE]
    /\ UNCHANGED <<store, ops, dirty, mem, reload, save, drain, call, budget, ghosts>>

LastProof ==
    /\ proc[cur] = "down"
    /\ Listening(edge) /\ edge = next
    /\ Step("last", "done")
    /\ UNCHANGED <<store, ops, slots, call, budget, ghosts>>

\* Any wait, post or proof may fail or time out; a dropped quiesce stops waiting.
MayFail == {"claim", "ask", "health", "quiesce", "draining", "handover", "activate",
            "activating", "flip", "prove", "last"}
Fail ==
    /\ script.pc \in MayFail
    /\ script.pc = "activating" => ~reload[next]
    /\ script' = [script EXCEPT !.pc = "rbUp"]
    /\ drain' = [drain EXCEPT ![cur] = "none"]
    /\ clean' = FALSE
    /\ UNCHANGED <<store, ops, proc, wanted, quiesced, dirty, mem, reload, save, call, budget, lost>>

\* rollback_deploy.  A writer claim that times out ends the script on the spot.
RollbackUp ==
    /\ Step("rbUp", "rbWriter")
    /\ wanted' = [wanted EXCEPT ![cur] = TRUE]
    /\ proc' = [proc EXCEPT ![cur] = IF @ = "down" THEN "booting" ELSE @]
    /\ proc[cur] # "leaving"
    /\ UNCHANGED <<store, ops, quiesced, dirty, mem, reload, save, drain, call, budget, ghosts>>
RollbackWriter == SetWriter("rbWriter", "rbActivate", cur)
RollbackDies ==
    /\ Step("rbWriter", "dead")
    /\ UNCHANGED <<store, ops, slots, call, budget, ghosts>>
RollbackActivate == Step("rbActivate", "rbEdge") /\ Activate(cur)
RollbackSkips ==
    /\ ~(Listening(cur) /\ MayActivate(cur))
    /\ Step("rbActivate", "rbEdge")
    /\ UNCHANGED <<store, ops, slots, call, budget, ghosts>>
RollbackEdge == ~reload[cur] /\ PointEdge("rbEdge", "rbFile", cur)
RollbackFile ==
    /\ Step("rbFile", "failed")
    /\ active' = cur
    /\ UNCHANGED <<store, edge, worker, slots, call, budget, ghosts>>

Script ==
    \/ Deploy \/ Claim \/ Ask \/ StartStandby \/ Health \/ PostQuiesce \/ QuiesceAnswered
    \/ HandOver \/ PostActivate \/ WaitReady \/ Flip \/ Prove \/ StopOld \/ LastProof
    \/ Fail \/ RollbackUp \/ RollbackWriter \/ RollbackDies \/ RollbackActivate
    \/ RollbackSkips \/ RollbackEdge \/ RollbackFile

RequestStep(r) == Arrive(r) \/ Count(r) \/ Recheck(r) \/ Note(r) \/ Leave(r)
SlotStep(s) ==
    \/ SaverFires(s) \/ FinishSave(s) \/ BackgroundNote(s) \/ QuiesceSaves(s) \/ ActivateEnds(s)
    \/ Crash(s) \/ Boot(s) \/ Listen(s) \/ Exit(s) \/ Killed(s)

Next ==
    \/ Script
    \/ WorkerEnds
    \/ \E r \in Requests : RequestStep(r)
    \/ \E s \in Slots : SlotStep(s)

Spec == Init /\ [][Next]_vars

----------------------------------------------------------------------------
(* Properties.                                                             *)

Activated == {"flip", "prove", "stop", "last", "done"}

\* Once the new slot is ready, every outcome the old slot ever noted is in the new
\* slot's pool: the drain, the final save, the writer row and the reload leave no
\* gap.  Excepted: what a crash or a rollback cost (`clean`, `lost`).
HandedOver ==
    script.pc \in Activated /\ clean =>
        \A r \in Requests :
            call[r].pc = "answered" /\ r \notin lost => r \in mem[next]

\* Only the slot that owns the durable document works on a request, at every step of
\* a handoff that has met neither a crash nor a failure.
OwnerServes ==
    clean => \A r \in Requests : call[r].pc = "serving" => call[r].slot = writer

\* The slots' states are the ones their processes reach, and one of them serves.
OneSlotServes == TypeOK /\ OwnerServes

\* A save never takes an outcome out of the durable document, whichever slot's saver
\* it is and however late it runs, with the exceptions of HandedOver.
DocumentGrows == [][clean' => doc \subseteq doc']_vars

\* The claim of the rollback's log line (deploy.sh): writer, HAProxy and active slot
\* are restored, so the slot that gets the traffic accepts it.
RollbackServes ==
    script.pc = "failed" /\ edge = cur /\ proc[cur] = "up" => ~quiesced[cur]
=============================================================================
