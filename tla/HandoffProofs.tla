---------------------------- MODULE HandoffProofs -----------------------------
(***************************************************************************)
(* Proofs about Handoff, for any number of requests, deploys, crashes and  *)
(* failures: one slot serves (OneSlotServes), nothing the old slot noted   *)
(* is missing from the new one (HandedOver), and no save takes an outcome  *)
(* out of the document (DocumentGrows), from one inductive invariant.      *)
(***************************************************************************)
EXTENDS Handoff, FiniteSetTheorems, TLAPS

Procs == {"down", "booting", "loaded", "up", "leaving"}
Places == {"new", "checked", "counted", "serving", "noted", "answered", "gone"}
Drains == {"none", "waiting", "saving", "ok", "refused"}
Saves == [by : {"none", "timer", "quiesce", "exit"}, doc : SUBSET Requests]
CallRecs == [pc : Places, slot : Slots \cup {None}]
ToOld == {"ask", "start", "health", "quiesce", "draining", "handover"}
ToNew == {"activate", "activating", "flip", "prove", "stop", "last", "done"}
Back == {"rbUp", "rbWriter", "rbActivate", "rbEdge", "rbFile", "failed", "dead"}
PCs == {"idle", "claim"} \cup ToOld \cup ToNew \cup Back
Scripts == [pc : PCs, cur : Slots, next : Slots]

Typed ==
    /\ writer \in Slots /\ edge \in Slots /\ active \in Slots
    /\ worker \in Slots \cup {None}
    /\ doc \in SUBSET Requests /\ lost \in SUBSET Requests
    /\ proc \in [Slots -> Procs]
    /\ wanted \in [Slots -> BOOLEAN] /\ quiesced \in [Slots -> BOOLEAN]
    /\ dirty \in [Slots -> BOOLEAN] /\ reload \in [Slots -> BOOLEAN]
    /\ mem \in [Slots -> SUBSET Requests]
    /\ save \in [Slots -> Saves]
    /\ drain \in [Slots -> Drains]
    /\ call \in [Requests -> CallRecs]
    /\ \A r \in Requests : call[r].slot = None <=> call[r].pc = "new"
    /\ script \in Scripts /\ script.next # script.cur
    /\ clean \in BOOLEAN

\* The writer is the slot the script made it; a rollback or a crash is never clean.
Roles ==
    /\ script.pc \in ToOld \cup {"rbActivate", "rbEdge", "rbFile", "failed"} => writer = script.cur
    /\ script.pc \in ToNew => writer = script.next
    /\ script.pc \in {"stop", "last", "done"} => active = script.next
    /\ script.pc = "idle" => writer = active
    /\ script.pc \in Back => ~clean
    /\ script.pc = "claim" /\ clean => writer = script.cur

\* What a slot may have under way in each state of its process.
Live(s) == proc[s] \in {"up", "leaving"}
Unused(s) == \A r \in Requests :
    call[r].slot = s => call[r].pc \notin {"checked", "counted", "serving", "noted"}
Process(s) ==
    /\ ~Live(s) => save[s] = NoSave /\ Unused(s) /\ drain[s] = "none" /\ ~reload[s]
    /\ reload[s] =>
          /\ mem[s] = {} /\ proc[s] = "up"
          /\ (script.pc = "activating" /\ s = script.next) \/ (script.pc = "rbEdge" /\ s = script.cur)
    /\ proc[s] = "leaving" => script.pc \in {"last", "rbUp"} /\ s = script.cur
    /\ drain[s] # "none" => script.pc = "draining" /\ s = script.cur
    /\ drain[s] = "saving" => save[s].by = "quiesce"
    /\ save[s].by = "exit" => proc[s] = "leaving" /\ Unused(s)
    /\ save[s].by = "none" => save[s] = NoSave
Processes == \A s \in Slots : Process(s)

\* The outcomes that the handoff must not lose; each is in the document or in the memory of a
\* process that still has its final save to come.
Noted(r) == call[r].pc \in {"noted", "answered"} /\ r \notin lost
AllIn(known) == \A r \in Requests : Noted(r) => r \in known
Accounted == \A r \in Requests : Noted(r) => r \in doc \/ \E s \in Slots : Live(s) /\ r \in mem[s]

\* Without an accident, work is admitted only by the writer, whose process is up but when it
\* boots again before the standby is healthy; and a slot that is drained works on nothing.
OnlyWriter == \A s \in Slots : proc[s] \in {"loaded", "up"} /\ ~quiesced[s] => s = writer
Work(r) ==
    /\ call[r].pc \in {"checked", "counted"} => call[r].slot = writer \/ quiesced[call[r].slot]
    /\ call[r].pc = "serving" => call[r].slot = writer
Running ==
    /\ script.pc \notin {"health", "quiesce"} => proc[writer] = "up"
    /\ script.pc \in {"draining", "handover"} => quiesced[script.cur]
    /\ script.pc \in {"quiesce", "draining", "handover"} => proc[script.next] = "up"
DrainedOld ==
    script.pc = "handover" \/ (script.pc = "draining" /\ drain[script.cur] \in {"saving", "ok", "refused"})
NoWorkLeft == DrainedOld => \A r \in Requests : call[r].slot = script.cur => call[r].pc # "serving"
Owned == clean => OnlyWriter /\ (\A r \in Requests : Work(r)) /\ Running /\ NoWorkLeft

IOwn == Typed /\ Roles /\ Processes /\ Owned

\* Where the new slot has not been read back yet.
Reading == script.pc = "activate" \/ (script.pc = "activating" /\ reload[script.next])
Standby == script.pc \in {"health", "quiesce", "draining", "handover"} \/ Reading

\* Without an accident, the writer knows what the document has and all that was noted; while no
\* slot does, the document does, nobody works, and nothing of the new slot's is left to be written.
WriterKnows == ~Reading => Knows(writer) /\ AllIn(mem[writer])
DocumentKnows ==
    /\ Reading \/ script.pc = "handover" \/ (script.pc = "draining" /\ drain[script.cur] = "ok") =>
          AllIn(doc)
    /\ script.pc = "draining" /\ drain[script.cur] = "saving" => AllIn(save[script.cur].doc)
Untouched ==
    /\ Standby => save[script.next] = NoSave /\ ~dirty[script.next] /\ mem[script.next] \subseteq doc
    /\ script.pc = "health" => proc[script.next] \in {"booting", "loaded", "up"}
Closed == Reading => quiesced[script.next] /\ \A r \in Requests : call[r].pc # "serving"
Known == clean => WriterKnows /\ DocumentKnows /\ Untouched /\ Closed

IInv == IOwn /\ Accounted /\ Known

----------------------------------------------------------------------------
(* The slots, and what each kind of step changes.                          *)

LEMMA TwoSlots ==
    /\ \A s \in Slots : Other(s) \in Slots /\ Other(s) # s
    /\ \A s, t, u \in Slots : s # t => u = s \/ u = t
  <1>1. \A s \in Slots : \E t \in Slots : t # s
    <2> SUFFICES ASSUME NEW s \in Slots, \A t \in Slots : t = s PROVE FALSE
      OBVIOUS
    <2>1. Slots = {s} OBVIOUS
    <2> QED BY <2>1, FS_Singleton, SlotsAssumption
  <1>2. \A s, t, u \in Slots : s # t => u = s \/ u = t
    <2> SUFFICES ASSUME NEW s \in Slots, NEW t \in Slots, NEW u \in Slots, s # t, u # s, u # t PROVE FALSE
      OBVIOUS
    <2>1. IsFiniteSet({s, t, u}) /\ Cardinality({s, t, u}) = 3
      <3>1. IsFiniteSet({}) /\ Cardinality({}) = 0 BY FS_EmptySet
      <3>2. IsFiniteSet({s}) /\ Cardinality({s}) = 1 BY FS_Singleton
      <3>3. IsFiniteSet({s} \cup {t}) /\ Cardinality({s} \cup {t}) = 2 BY <3>2, FS_AddElement
      <3>4. IsFiniteSet(({s} \cup {t}) \cup {u}) /\ Cardinality(({s} \cup {t}) \cup {u}) = 3
        BY <3>3, FS_AddElement
      <3>5. ({s} \cup {t}) \cup {u} = {s, t, u} OBVIOUS
      <3> QED BY <3>4, <3>5
    <2>2. Cardinality({s, t, u}) <= Cardinality(Slots)
      BY FS_Subset, SlotsAssumption
    <2> QED BY <2>1, <2>2, SlotsAssumption
  <1> QED BY <1>1, <1>2 DEF Other

LEMMA AtCall ==
    ASSUME Typed, NEW r \in Requests, NEW s \in Slots, NEW pc \in Places \ {"new"}, At(r, s, pc)
    PROVE  /\ call' \in [Requests -> CallRecs]
           /\ call'[r].pc = pc /\ call'[r].slot = s
           /\ \A q \in Requests : q # r => call'[q] = call[q]
           /\ \A q \in Requests : call'[q].slot = None <=> call'[q].pc = "new"
  <1>1. call' \in [Requests -> CallRecs] BY DEF Typed, At, CallRecs
  <1>2. call'[r].pc = pc /\ call'[r].slot = s /\ \A q \in Requests : q # r => call'[q] = call[q]
    BY DEF Typed, At
  <1>3. s # None BY SlotsAssumption
  <1> QED BY <1>1, <1>2, <1>3 DEF Typed, Places

LEMMA StepScript ==
    ASSUME Typed, NEW a, NEW b \in PCs, Step(a, b)
    PROVE  /\ script' \in Scripts /\ script'.next # script'.cur
           /\ script.pc = a /\ script'.pc = b /\ script'.cur = script.cur /\ script'.next = script.next
  BY DEF Typed, Step, Scripts

LEMMA EndedSlot ==
    ASSUME Typed, NEW s \in Slots, Fresh(s)
    PROVE  /\ call' \in [Requests -> CallRecs]
           /\ \A r \in Requests :
                 /\ call'[r].slot = call[r].slot
                 /\ call[r].slot # s => call'[r].pc = call[r].pc
                 /\ call[r].slot = s => call'[r].pc \in {call[r].pc, "answered", "gone"}
                 /\ call[r].slot = s => call'[r].pc \notin {"checked", "counted", "serving", "noted"}
                 /\ call'[r].pc \in {"noted", "answered"} <=> call[r].pc \in {"noted", "answered"}
                 /\ call'[r].slot = None <=> call'[r].pc = "new"
  <1>1. \A r \in Requests : call[r] \in CallRecs BY DEF Typed
  <1>2. \A r \in Requests : call'[r] =
             IF call[r].slot = s /\ call[r].pc \in {"checked", "counted", "serving", "noted"}
             THEN [call[r] EXCEPT !.pc = IF @ = "noted" THEN "answered" ELSE "gone"]
             ELSE call[r]
    BY DEF Fresh, Gone, Alive
  <1>3. \A r \in Requests : call'[r] \in CallRecs BY <1>1, <1>2 DEF CallRecs, Places
  <1>4. DOMAIN call' = Requests /\ call' = [r \in Requests |-> call'[r]] BY DEF Fresh, Gone
  <1>5. call' \in [Requests -> CallRecs] BY <1>3, <1>4
  <1>6. ASSUME NEW r \in Requests
        PROVE  /\ call'[r].slot = call[r].slot
               /\ call[r].slot # s => call'[r].pc = call[r].pc
               /\ call[r].slot = s => call'[r].pc \in {call[r].pc, "answered", "gone"}
               /\ call[r].slot = s => call'[r].pc \notin {"checked", "counted", "serving", "noted"}
               /\ call'[r].pc \in {"noted", "answered"} <=> call[r].pc \in {"noted", "answered"}
               /\ call'[r].pc = "new" <=> call[r].pc = "new"
    BY <1>1, <1>2 DEF CallRecs, Places
  <1> QED BY <1>5, <1>6 DEF Typed

LEMMA EndedSlotState ==
    ASSUME Typed, NEW s \in Slots, Fresh(s)
    PROVE  /\ mem' \in [Slots -> SUBSET Requests] /\ mem'[s] = {}
           /\ \A t \in Slots : t # s => mem'[t] = mem[t] /\ reload'[t] = reload[t] /\ save'[t] = save[t]
                                         /\ drain'[t] = drain[t] /\ dirty'[t] = dirty[t]
           /\ reload' \in [Slots -> BOOLEAN] /\ ~reload'[s]
           /\ save' \in [Slots -> Saves] /\ save'[s] = NoSave
           /\ drain' \in [Slots -> Drains] /\ drain'[s] = "none"
           /\ dirty' \in [Slots -> BOOLEAN] /\ ~dirty'[s]
           /\ lost' \in SUBSET Requests /\ lost' = lost \cup (mem[s] \ doc)
  BY DEF Typed, Fresh, Saves, NoSave, Drains

LEMMA StartedSave ==
    ASSUME Typed, NEW s \in Slots, NEW by \in {"timer", "quiesce", "exit"}, StartSave(s, by)
    PROVE  /\ save[s] = NoSave
           /\ save' \in [Slots -> Saves] /\ save'[s].by = by /\ save'[s].doc = mem[s] /\ save'[s] # NoSave
           /\ \A t \in Slots : t # s => save'[t] = save[t]
           /\ dirty' \in [Slots -> BOOLEAN] /\ \A t \in Slots : t # s => dirty'[t] = dirty[t]
  BY DEF Typed, StartSave, Saves, NoSave

LEMMA CallProcesses ==
    ASSUME Typed, Processes, NEW r \in Requests, \A q \in Requests : q # r => call'[q] = call[q],
           call'[r].pc \in {"checked", "counted", "serving", "noted"} =>
              \/ proc[call'[r].slot] = "up"
              \/ call[r].slot = call'[r].slot /\ call[r].pc \in {"checked", "counted", "serving", "noted"},
           \A t \in Slots : reload[t] => mem'[t] = mem[t],
           UNCHANGED <<script, proc, reload, save, drain>>
    PROVE  Processes'
  <1> SUFFICES ASSUME NEW t \in Slots PROVE Process(t)'
    BY DEF Processes
  <1>1. Process(t) BY DEF Processes
  <1>2. Unused(t) /\ proc[t] # "up" => Unused(t)' BY DEF Unused
  <1> QED BY <1>1, <1>2 DEF Process, Live

LEMMA CallOwned ==
    ASSUME Owned, NEW r \in Requests, \A q \in Requests : q # r => call'[q] = call[q],
           clean => /\ call'[r].pc \in {"checked", "counted"} =>
                          call'[r].slot = writer \/ quiesced[call'[r].slot]
                    /\ call'[r].pc = "serving" => call'[r].slot = writer /\ ~quiesced[call'[r].slot],
           UNCHANGED <<script, clean, writer, proc, quiesced, drain>>
    PROVE  Owned'
  <1> SUFFICES ASSUME clean PROVE OnlyWriter' /\ (\A q \in Requests : Work(q)') /\ Running' /\ NoWorkLeft'
    BY DEF Owned
  <1>1. OnlyWriter' /\ Running' BY DEF Owned, OnlyWriter, Running
  <1>2. ASSUME NEW q \in Requests PROVE Work(q)'
    <2>1. CASE q = r BY <2>1 DEF Owned, Work
    <2>2. CASE q # r BY <2>2 DEF Owned, Work
    <2> QED BY <2>1, <2>2
  <1>3. NoWorkLeft' BY DEF Owned, NoWorkLeft, DrainedOld, Running
  <1> QED BY <1>1, <1>2, <1>3

LEMMA SlotProcesses ==
    ASSUME Processes, NEW s \in Slots, Process(s)', UNCHANGED script,
           \A t \in Slots : t # s => proc'[t] = proc[t] /\ save'[t] = save[t] /\ drain'[t] = drain[t]
                                     /\ reload'[t] = reload[t] /\ mem'[t] = mem[t],
           \A r \in Requests : call'[r].slot = call[r].slot
                               /\ (call[r].slot # s => call'[r].pc = call[r].pc)
    PROVE  Processes'
  <1> SUFFICES ASSUME NEW t \in Slots, t # s PROVE Process(t)'
    BY DEF Processes
  <1>1. Process(t) BY DEF Processes
  <1>2. Unused(t) => Unused(t)' BY DEF Unused
  <1>3. proc'[t] = proc[t] /\ save'[t] = save[t] /\ drain'[t] = drain[t] /\ reload'[t] = reload[t] /\ mem'[t] = mem[t]
    OBVIOUS
  <1> QED BY <1>1, <1>2, <1>3 DEF Process, Live

LEMMA InitOwn == Init => IOwn
  <1> SUFFICES ASSUME NEW s \in Slots, Init!(s) PROVE IOwn
    BY DEF Init
  <1> QED BY TwoSlots, SlotsAssumption DEF IOwn, Typed, Roles, Processes, Process, Owned,
     OnlyWriter, Work, Running, NoWorkLeft, DrainedOld, Live, Unused, NoSave, Procs, Places,
     Drains, Saves, CallRecs, ToOld, ToNew, Back, PCs, Scripts

LEMMA ArriveOwn == ASSUME IOwn, NEW r \in Requests, Arrive(r) PROVE IOwn'
  <1>1. PICK s \in Slots, pc \in {"checked", "gone"} :
             At(r, s, pc) /\ (pc = "checked" => proc[s] = "up" /\ ~quiesced[s])
    BY DEF Arrive, Listening, IOwn, Typed
  <1>2. /\ call' \in [Requests -> CallRecs]
        /\ call'[r].pc = pc /\ call'[r].slot = s
        /\ \A q \in Requests : q # r => call'[q] = call[q]
        /\ \A q \in Requests : call'[q].slot = None <=> call'[q].pc = "new"
    BY <1>1, AtCall DEF IOwn, Places
  <1>3. call[r].pc = "new"
    BY DEF Arrive
  <1>4. Typed' BY <1>1, <1>2, <1>3, TwoSlots DEF Arrive, Listening, store, ops, slots, ghosts, IOwn, Typed,
    Procs, Drains, Saves
  <1>5. Roles' BY <1>1, <1>2, <1>3, TwoSlots DEF Arrive, Listening, store, ops, slots, ghosts, IOwn, Roles,
    ToOld, ToNew, Back
  <1>6. Processes' BY <1>1, <1>2, <1>3, CallProcesses DEF Arrive, Listening, store, ops, slots, ghosts, IOwn
  <1>7. Owned' BY <1>1, <1>2, <1>3, CallOwned DEF Arrive, Listening, store, ops, slots, ghosts, IOwn, Typed,
    Owned, Work, OnlyWriter
  <1> QED BY <1>4, <1>5, <1>6, <1>7 DEF IOwn

LEMMA CountOwn == ASSUME IOwn, NEW r \in Requests, Count(r) PROVE IOwn'
  <1>1. call[r].pc = "checked" /\ call[r].slot \in Slots
    BY DEF Count, IOwn, Typed, CallRecs
  <1>2. /\ call' \in [Requests -> CallRecs]
        /\ call'[r].pc = "counted" /\ call'[r].slot = call[r].slot
        /\ \A q \in Requests : q # r => call'[q] = call[q]
        /\ \A q \in Requests : call'[q].slot = None <=> call'[q].pc = "new"
    BY <1>1, AtCall DEF IOwn, Places, Count
  <1>3. Typed' BY <1>1, <1>2, TwoSlots DEF Count, store, ops, slots, ghosts, IOwn, Typed, Procs, Drains,
    Saves
  <1>4. Roles' BY <1>1, <1>2, TwoSlots DEF Count, store, ops, slots, ghosts, IOwn, Roles, ToOld, ToNew, Back
  <1>5. Processes' BY <1>1, <1>2, CallProcesses DEF Count, store, ops, slots, ghosts, IOwn
  <1>6. Owned' BY <1>1, <1>2, CallOwned DEF Count, store, ops, slots, ghosts, IOwn, Typed, Owned, Work,
    OnlyWriter
  <1> QED BY <1>3, <1>4, <1>5, <1>6 DEF IOwn

LEMMA RecheckOwn == ASSUME IOwn, NEW r \in Requests, Recheck(r) PROVE IOwn'
  <1>1. call[r].pc = "counted" /\ call[r].slot \in Slots
    BY DEF Recheck, IOwn, Typed, CallRecs
  <1>2. PICK pc \in {"serving", "gone"} : At(r, call[r].slot, pc) /\ (pc = "serving" => ~quiesced[call[r].slot])
    BY DEF Recheck, SecondCheck
  <1>3. /\ call' \in [Requests -> CallRecs]
        /\ call'[r].pc = pc /\ call'[r].slot = call[r].slot
        /\ \A q \in Requests : q # r => call'[q] = call[q]
        /\ \A q \in Requests : call'[q].slot = None <=> call'[q].pc = "new"
    BY <1>1, <1>2, AtCall DEF IOwn, Places
  <1>4. Typed' BY <1>1, <1>2, <1>3, TwoSlots DEF Recheck, SecondCheck, store, ops, slots, ghosts, IOwn,
    Typed, Procs, Drains, Saves
  <1>5. Roles' BY <1>1, <1>2, <1>3, TwoSlots DEF Recheck, SecondCheck, store, ops, slots, ghosts, IOwn,
    Roles, ToOld, ToNew, Back
  <1>6. Processes' BY <1>1, <1>2, <1>3, CallProcesses DEF Recheck, SecondCheck, store, ops, slots, ghosts,
    IOwn
  <1>7. Owned' BY <1>1, <1>2, <1>3, CallOwned DEF Recheck, SecondCheck, store, ops, slots, ghosts, IOwn,
    Typed, Owned, Work, OnlyWriter
  <1> QED BY <1>4, <1>5, <1>6, <1>7 DEF IOwn

LEMMA NoteOwn == ASSUME IOwn, NEW r \in Requests, Note(r) PROVE IOwn'
  <1>1. call[r].pc = "serving" /\ call[r].slot \in Slots
    BY DEF Note, IOwn, Typed, CallRecs
  <1>2. /\ call' \in [Requests -> CallRecs]
        /\ call'[r].pc = "noted" /\ call'[r].slot = call[r].slot
        /\ \A q \in Requests : q # r => call'[q] = call[q]
        /\ \A q \in Requests : call'[q].slot = None <=> call'[q].pc = "new"
    BY <1>1, AtCall DEF IOwn, Places, Note
  <1>3. /\ mem' \in [Slots -> SUBSET Requests] /\ lost' \in SUBSET Requests /\ dirty' \in [Slots -> BOOLEAN]
        /\ \A t \in Slots : reload[t] => mem'[t] = mem[t]
    BY <1>1 DEF Note, IOwn, Typed
  <1>4. Typed' BY <1>1, <1>2, <1>3, TwoSlots DEF Note, store, ops, slots, ghosts, IOwn, Typed, Procs,
    Drains, Saves
  <1>5. Roles' BY <1>1, <1>2, <1>3, TwoSlots DEF Note, store, ops, slots, ghosts, IOwn, Roles, ToOld, ToNew,
    Back
  <1>6. Processes' BY <1>1, <1>2, <1>3, CallProcesses DEF Note, store, ops, slots, ghosts, IOwn
  <1>7. Owned' BY <1>1, <1>2, <1>3, CallOwned DEF Note, store, ops, slots, ghosts, IOwn, Typed, Owned, Work,
    OnlyWriter
  <1> QED BY <1>4, <1>5, <1>6, <1>7 DEF IOwn

LEMMA LeaveOwn == ASSUME IOwn, NEW r \in Requests, Leave(r) PROVE IOwn'
  <1>1. call[r].pc \in {"serving", "noted"} /\ call[r].slot \in Slots
    BY DEF Leave, IOwn, Typed, CallRecs
  <1>2. PICK pc \in {"answered", "gone"} : At(r, call[r].slot, pc)
    BY DEF Leave
  <1>3. /\ call' \in [Requests -> CallRecs]
        /\ call'[r].pc = pc /\ call'[r].slot = call[r].slot
        /\ \A q \in Requests : q # r => call'[q] = call[q]
        /\ \A q \in Requests : call'[q].slot = None <=> call'[q].pc = "new"
    BY <1>1, <1>2, AtCall DEF IOwn, Places
  <1>4. Typed' BY <1>1, <1>2, <1>3, TwoSlots DEF Leave, store, ops, slots, ghosts, IOwn, Typed, Procs,
    Drains, Saves
  <1>5. Roles' BY <1>1, <1>2, <1>3, TwoSlots DEF Leave, store, ops, slots, ghosts, IOwn, Roles, ToOld,
    ToNew, Back
  <1>6. Processes' BY <1>1, <1>2, <1>3, CallProcesses DEF Leave, store, ops, slots, ghosts, IOwn
  <1>7. Owned' BY <1>1, <1>2, <1>3, CallOwned DEF Leave, store, ops, slots, ghosts, IOwn, Typed, Owned,
    Work, OnlyWriter
  <1> QED BY <1>4, <1>5, <1>6, <1>7 DEF IOwn

LEMMA SaverFiresOwn == ASSUME IOwn, NEW s \in Slots, SaverFires(s) PROVE IOwn'
  <1>1. /\ save[s] = NoSave
        /\ save' \in [Slots -> Saves] /\ save'[s].by = "timer" /\ save'[s].doc = mem[s] /\ save'[s] # NoSave
        /\ \A t \in Slots : t # s => save'[t] = save[t]
        /\ dirty' \in [Slots -> BOOLEAN]
    BY StartedSave DEF SaverFires, IOwn
  <1>2. Typed' BY <1>1, TwoSlots DEF SaverFires, store, ops, slots, ghosts, IOwn, Typed, Procs, Drains,
    Saves
  <1>3. Roles' BY <1>1, TwoSlots DEF SaverFires, store, ops, slots, ghosts, IOwn, Roles, ToOld, ToNew, Back
  <1>4. Processes'
    <2>1. Process(s)' BY <1>1, TwoSlots DEF SaverFires, store, ops, slots, ghosts, IOwn, Typed, Processes,
      Process, Live, Unused, NoSave, Saves
    <2> QED BY <2>1, <1>1, SlotProcesses DEF SaverFires, store, ops, slots, ghosts, IOwn, Typed
  <1>5. Owned' BY <1>1, TwoSlots DEF SaverFires, store, ops, slots, ghosts, IOwn, Typed, Roles, Processes,
    Process, Live, Unused, Owned, OnlyWriter, Work, Running, NoWorkLeft, DrainedOld, ToOld, ToNew, Back
  <1> QED BY <1>2, <1>3, <1>4, <1>5 DEF IOwn

LEMMA QuiesceSavesOwn == ASSUME IOwn, NEW s \in Slots, QuiesceSaves(s) PROVE IOwn'
  <1>1. /\ save[s] = NoSave
        /\ save' \in [Slots -> Saves] /\ save'[s].by = "quiesce" /\ save'[s].doc = mem[s] /\ save'[s] # NoSave
        /\ \A t \in Slots : t # s => save'[t] = save[t]
        /\ dirty' \in [Slots -> BOOLEAN]
    BY StartedSave DEF QuiesceSaves, IOwn
  <1>2. Typed' BY <1>1, TwoSlots DEF QuiesceSaves, Drained, Counted, store, ops, slots, ghosts, IOwn, Typed,
    Procs, Drains, Saves
  <1>3. Roles' BY <1>1, TwoSlots DEF QuiesceSaves, Drained, Counted, store, ops, slots, ghosts, IOwn, Roles,
    ToOld, ToNew, Back
  <1>4. Processes'
    <2>1. Process(s)' BY <1>1, TwoSlots DEF QuiesceSaves, Drained, Counted, store, ops, slots, ghosts, IOwn,
      Typed, Processes, Process, Live, Unused, NoSave, Saves
    <2> QED BY <2>1, <1>1, SlotProcesses DEF QuiesceSaves, Drained, Counted, store, ops, slots, ghosts,
      IOwn, Typed
  <1>5. Owned' BY <1>1, TwoSlots DEF QuiesceSaves, Drained, Counted, store, ops, slots, ghosts, IOwn, Typed,
    Roles, Processes, Process, Live, Unused, Owned, OnlyWriter, Work, Running, NoWorkLeft, DrainedOld,
    ToOld, ToNew, Back
  <1> QED BY <1>2, <1>3, <1>4, <1>5 DEF IOwn

LEMMA ExitOwn == ASSUME IOwn, NEW s \in Slots, Exit(s) PROVE IOwn'
  <1>1. /\ save[s] = NoSave
        /\ save' \in [Slots -> Saves] /\ save'[s].by = "exit" /\ save'[s].doc = mem[s] /\ save'[s] # NoSave
        /\ \A t \in Slots : t # s => save'[t] = save[t]
        /\ dirty' \in [Slots -> BOOLEAN]
    BY StartedSave DEF Exit, IOwn
  <1>2. Typed' BY <1>1, TwoSlots DEF Exit, Alive, store, ops, slots, ghosts, IOwn, Typed, Procs, Drains,
    Saves
  <1>3. Roles' BY <1>1, TwoSlots DEF Exit, Alive, store, ops, slots, ghosts, IOwn, Roles, ToOld, ToNew, Back
  <1>4. Processes'
    <2>1. Process(s)' BY <1>1, TwoSlots DEF Exit, Alive, store, ops, slots, ghosts, IOwn, Typed, Processes,
      Process, Live, Unused, NoSave, Saves
    <2> QED BY <2>1, <1>1, SlotProcesses DEF Exit, Alive, store, ops, slots, ghosts, IOwn, Typed
  <1>5. Owned' BY <1>1, TwoSlots DEF Exit, Alive, store, ops, slots, ghosts, IOwn, Typed, Roles, Processes,
    Process, Live, Unused, Owned, OnlyWriter, Work, Running, NoWorkLeft, DrainedOld, ToOld, ToNew, Back
  <1> QED BY <1>2, <1>3, <1>4, <1>5 DEF IOwn

LEMMA BackgroundNoteOwn == ASSUME IOwn, NEW s \in Slots, BackgroundNote(s) PROVE IOwn'
  <1>1. Typed' BY TwoSlots DEF BackgroundNote, store, ops, slots, ghosts, IOwn, Typed, Procs, Drains, Saves
  <1>2. Roles' BY TwoSlots DEF BackgroundNote, store, ops, slots, ghosts, IOwn, Roles, ToOld, ToNew, Back
  <1>3. Processes'
    <2>1. Process(s)' BY TwoSlots DEF BackgroundNote, store, ops, slots, ghosts, IOwn, Typed, Processes,
      Process, Live, Unused, NoSave, Saves
    <2> QED BY <2>1, SlotProcesses DEF BackgroundNote, store, ops, slots, ghosts, IOwn, Typed
  <1>4. Owned' BY TwoSlots DEF BackgroundNote, store, ops, slots, ghosts, IOwn, Typed, Roles, Processes,
    Process, Live, Unused, Owned, OnlyWriter, Work, Running, NoWorkLeft, DrainedOld, ToOld, ToNew, Back
  <1> QED BY <1>1, <1>2, <1>3, <1>4 DEF IOwn

LEMMA ActivateEndsOwn == ASSUME IOwn, NEW s \in Slots, ActivateEnds(s) PROVE IOwn'
  <1>1. Typed' BY TwoSlots DEF ActivateEnds, ReadBack, store, ops, slots, ghosts, IOwn, Typed, Procs,
    Drains, Saves
  <1>2. Roles' BY TwoSlots DEF ActivateEnds, ReadBack, store, ops, slots, ghosts, IOwn, Roles, ToOld, ToNew,
    Back
  <1>3. Processes'
    <2>1. Process(s)' BY TwoSlots DEF ActivateEnds, ReadBack, store, ops, slots, ghosts, IOwn, Typed,
      Processes, Process, Live, Unused, NoSave, Saves
    <2> QED BY <2>1, SlotProcesses DEF ActivateEnds, ReadBack, store, ops, slots, ghosts, IOwn, Typed
  <1>4. Owned' BY TwoSlots DEF ActivateEnds, ReadBack, store, ops, slots, ghosts, IOwn, Typed, Roles,
    Processes, Process, Live, Unused, Owned, OnlyWriter, Work, Running, NoWorkLeft, DrainedOld, ToOld,
    ToNew, Back
  <1> QED BY <1>1, <1>2, <1>3, <1>4 DEF IOwn

LEMMA CrashOwn == ASSUME IOwn, NEW s \in Slots, Crash(s) PROVE IOwn'
  <1>1. /\ call' \in [Requests -> CallRecs]
        /\ \A r \in Requests :
              /\ call'[r].slot = call[r].slot
              /\ call[r].slot # s => call'[r].pc = call[r].pc
              /\ call[r].slot = s => call'[r].pc \notin {"checked", "counted", "serving", "noted"}
              /\ call'[r].slot = None <=> call'[r].pc = "new"
    BY EndedSlot DEF Crash, IOwn
  <1>2. /\ mem' \in [Slots -> SUBSET Requests] /\ mem'[s] = {}
        /\ \A t \in Slots : t # s => mem'[t] = mem[t] /\ reload'[t] = reload[t] /\ save'[t] = save[t]
                                      /\ drain'[t] = drain[t]
        /\ reload' \in [Slots -> BOOLEAN] /\ ~reload'[s]
        /\ save' \in [Slots -> Saves] /\ save'[s] = NoSave
        /\ drain' \in [Slots -> Drains] /\ drain'[s] = "none"
        /\ dirty' \in [Slots -> BOOLEAN] /\ lost' \in SUBSET Requests
    BY EndedSlotState DEF Crash, IOwn
  <1>3. Typed' BY <1>1, <1>2 DEF Crash, store, ops, IOwn, Typed, Procs
  <1>4. Roles' BY DEF Crash, store, ops, IOwn, Roles
  <1>5. Processes'
    <2>1. proc'[s] \in {"booting", "down"} /\ \A t \in Slots : t # s => proc'[t] = proc[t]
      BY DEF Crash, IOwn, Typed
    <2>2. Unused(s)' BY <1>1 DEF Unused
    <2>3. Process(s)' BY <1>2, <2>1, <2>2 DEF Process, Live, NoSave
    <2> QED BY <1>1, <1>2, <2>1, <2>3, SlotProcesses DEF Crash, IOwn
  <1>6. Owned' BY DEF Crash, Owned
  <1> QED BY <1>3, <1>4, <1>5, <1>6 DEF IOwn

LEMMA KilledOwn == ASSUME IOwn, NEW s \in Slots, Killed(s) PROVE IOwn'
  <1>1. /\ call' \in [Requests -> CallRecs]
        /\ \A r \in Requests :
              /\ call'[r].slot = call[r].slot
              /\ call[r].slot # s => call'[r].pc = call[r].pc
              /\ call[r].slot = s => call'[r].pc \notin {"checked", "counted", "serving", "noted"}
              /\ call'[r].slot = None <=> call'[r].pc = "new"
    BY EndedSlot DEF Killed, IOwn
  <1>2. /\ mem' \in [Slots -> SUBSET Requests] /\ mem'[s] = {}
        /\ \A t \in Slots : t # s => mem'[t] = mem[t] /\ reload'[t] = reload[t] /\ save'[t] = save[t]
                                      /\ drain'[t] = drain[t]
        /\ reload' \in [Slots -> BOOLEAN] /\ ~reload'[s]
        /\ save' \in [Slots -> Saves] /\ save'[s] = NoSave
        /\ drain' \in [Slots -> Drains] /\ drain'[s] = "none"
        /\ dirty' \in [Slots -> BOOLEAN] /\ lost' \in SUBSET Requests
    BY EndedSlotState DEF Killed, IOwn
  <1>3. Typed' BY <1>1, <1>2 DEF Killed, store, ops, IOwn, Typed, Procs
  <1>4. Roles' BY DEF Killed, store, ops, IOwn, Roles
  <1>5. Processes'
    <2>1. proc'[s] \in {"booting", "down"} /\ \A t \in Slots : t # s => proc'[t] = proc[t]
      BY DEF Killed, IOwn, Typed
    <2>2. Unused(s)' BY <1>1 DEF Unused
    <2>3. Process(s)' BY <1>2, <2>1, <2>2 DEF Process, Live, NoSave
    <2> QED BY <1>1, <1>2, <2>1, <2>3, SlotProcesses DEF Killed, IOwn
  <1>6. Owned'
    <2> SUFFICES ASSUME clean PROVE OnlyWriter' /\ (\A q \in Requests : Work(q)') /\ Running' /\ NoWorkLeft'
      BY DEF Owned, Killed
    <2>1. script.pc = "last" /\ s = script.cur
      BY DEF Killed, IOwn, Processes, Process, Roles, Back
    <2>2. writer # s BY <2>1 DEF IOwn, Typed, Roles, ToNew
    <2>3. OnlyWriter' /\ Running' BY <2>1, <2>2 DEF Killed, store, IOwn, Typed, Owned, OnlyWriter, Running
    <2>4. ASSUME NEW q \in Requests PROVE Work(q)'
      BY <1>1 DEF Killed, store, IOwn, Owned, Work
    <2>5. NoWorkLeft' BY <2>1 DEF Killed, NoWorkLeft, DrainedOld
    <2> QED BY <2>3, <2>4, <2>5
  <1> QED BY <1>3, <1>4, <1>5, <1>6 DEF IOwn

LEMMA BootOwn == ASSUME IOwn, NEW s \in Slots, Boot(s) PROVE IOwn'
  <1>1. Typed' BY DEF Boot, StandbyAtBoot, store, ops, ghosts, IOwn, Typed, Procs
  <1>2. Roles' BY DEF Boot, store, ops, ghosts, IOwn, Roles
  <1>3. /\ proc[s] = "booting" /\ proc'[s] = "loaded" /\ (quiesced'[s] <=> writer # s)
        /\ \A t \in Slots : t # s => proc'[t] = proc[t] /\ quiesced'[t] = quiesced[t] /\ mem'[t] = mem[t]
        /\ UNCHANGED <<writer, script, clean, call, save, drain, reload>>
    BY DEF Boot, StandbyAtBoot, store, ghosts, IOwn, Typed
  <1>4. Unused(s) BY <1>3 DEF IOwn, Processes, Process, Live
  <1>5. Processes'
    <2>1. Process(s)' BY <1>3, <1>4 DEF IOwn, Processes, Process, Live, Unused
    <2> QED BY <1>3, <2>1, SlotProcesses DEF IOwn
  <1>6. Owned'
    <2> SUFFICES ASSUME clean PROVE OnlyWriter' /\ (\A q \in Requests : Work(q)') /\ Running' /\ NoWorkLeft'
      BY <1>3 DEF Owned
    <2>1. OnlyWriter' BY <1>3 DEF IOwn, Owned, OnlyWriter
    <2>2. ASSUME NEW q \in Requests PROVE Work(q)'
      <3>1. call[q].pc \in {"checked", "counted"} => call[q].slot # s BY <1>4 DEF Unused
      <3>2. call[q].slot \in Slots \cup {None} BY DEF IOwn, Typed, CallRecs
      <3>3. call[q].slot = None => call[q].pc = "new" BY DEF IOwn, Typed
      <3> QED BY <1>3, <3>1, <3>2, <3>3 DEF IOwn, Owned, Work
    <2>3. script.pc \notin {"draining", "handover"}
      BY <1>3, TwoSlots DEF IOwn, Typed, Scripts, Owned, Running, Roles, ToOld
    <2>4. Running' BY <1>3, <2>3 DEF IOwn, Typed, Scripts, Owned, Running
    <2>5. NoWorkLeft' BY <1>3 DEF IOwn, Owned, NoWorkLeft, DrainedOld
    <2> QED BY <2>1, <2>2, <2>4, <2>5
  <1> QED BY <1>1, <1>2, <1>5, <1>6 DEF IOwn

LEMMA ListenOwn == ASSUME IOwn, NEW s \in Slots, Listen(s) PROVE IOwn'
  <1>1. Typed' BY TwoSlots DEF Listen, store, ops, slots, ghosts, IOwn, Typed, Procs, Drains, Saves
  <1>2. Roles' BY TwoSlots DEF Listen, store, ops, slots, ghosts, IOwn, Roles, ToOld, ToNew, Back
  <1>3. Processes'
    <2>1. Process(s)' BY TwoSlots DEF Listen, store, ops, slots, ghosts, IOwn, Typed, Processes, Process,
      Live, Unused, NoSave, Saves
    <2> QED BY <2>1, SlotProcesses DEF Listen, store, ops, slots, ghosts, IOwn, Typed
  <1>4. Owned' BY TwoSlots DEF Listen, store, ops, slots, ghosts, IOwn, Typed, Roles, Processes, Process,
    Live, Unused, Owned, OnlyWriter, Work, Running, NoWorkLeft, DrainedOld, ToOld, ToNew, Back
  <1> QED BY <1>1, <1>2, <1>3, <1>4 DEF IOwn

LEMMA FinishSaveOwn == ASSUME IOwn, NEW s \in Slots, FinishSave(s) PROVE IOwn'
  <1>1. /\ save[s] # NoSave /\ save' \in [Slots -> Saves] /\ save'[s] = NoSave
        /\ doc' \in SUBSET Requests /\ dirty' \in [Slots -> BOOLEAN] /\ drain' \in [Slots -> Drains]
        /\ drain'[s] \in {drain[s], "ok", "refused"} /\ (drain'[s] # drain[s] => drain[s] = "saving")
        /\ drain'[s] # "saving"
        /\ \A t \in Slots : t # s => save'[t] = save[t] /\ drain'[t] = drain[t]
        /\ UNCHANGED <<writer, script, clean, call, reload, quiesced, wanted, edge, worker, active>>
    <2>1. doc' \in SUBSET Requests BY DEF FinishSave, IOwn, Typed, Saves
    <2>2. save' \in [Slots -> Saves] /\ save'[s] = NoSave /\ \A t \in Slots : t # s => save'[t] = save[t]
      BY DEF FinishSave, IOwn, Typed, Saves, NoSave
    <2>3. dirty' \in [Slots -> BOOLEAN]
      BY DEF FinishSave, MayWrite, IOwn, Typed
    <2>4. /\ drain' \in [Slots -> Drains] /\ drain'[s] \in {drain[s], "ok", "refused"}
          /\ (drain'[s] # drain[s] => drain[s] = "saving")
          /\ drain'[s] # "saving"
          /\ \A t \in Slots : t # s => drain'[t] = drain[t]
      BY DEF FinishSave, IOwn, Typed, Drains, Processes, Process
    <2> QED BY <2>1, <2>2, <2>3, <2>4 DEF FinishSave, ops
  <1>2. /\ proc' \in [Slots -> Procs] /\ mem' \in [Slots -> SUBSET Requests]
        /\ \A t \in Slots : t # s => proc'[t] = proc[t] /\ mem'[t] = mem[t]
        /\ \/ save[s].by # "exit" /\ proc' = proc /\ mem' = mem
           \/ save[s].by = "exit" /\ proc'[s] = "down" /\ mem'[s] = {}
    BY DEF FinishSave, IOwn, Typed, Procs
  <1>3. lost' \in SUBSET Requests BY <1>1, <1>2 DEF FinishSave, IOwn, Typed
  <1>4. Typed' BY <1>1, <1>2, <1>3 DEF IOwn, Typed
  <1>5. Roles' BY <1>1 DEF IOwn, Roles
  <1>6. Processes'
    <2>1. Process(s) BY DEF IOwn, Processes
    <2>2. Process(s)' BY <1>1, <1>2, <2>1 DEF Process, Live, Unused, NoSave
    <2> QED BY <1>1, <1>2, <2>2, SlotProcesses DEF IOwn
  <1>7. Owned'
    <2> SUFFICES ASSUME clean PROVE OnlyWriter' /\ (\A q \in Requests : Work(q)') /\ Running' /\ NoWorkLeft'
      BY <1>1 DEF Owned
    <2>1. save[s].by = "exit" => script.pc = "last" /\ s # writer
      BY DEF IOwn, Typed, Processes, Process, Roles, Back, ToNew
    <2>2. OnlyWriter' /\ Running' BY <1>1, <1>2, <2>1 DEF IOwn, Typed, Owned, OnlyWriter, Running
    <2>3. ASSUME NEW q \in Requests PROVE Work(q)' BY <1>1 DEF IOwn, Owned, Work
    <2>4. NoWorkLeft' BY <1>1 DEF IOwn, Typed, Scripts, Owned, NoWorkLeft, DrainedOld
    <2> QED BY <2>2, <2>3, <2>4
  <1> QED BY <1>4, <1>5, <1>6, <1>7 DEF IOwn

LEMMA WorkerEndsOwn == ASSUME IOwn, WorkerEnds PROVE IOwn'
  <1>1. Typed' BY TwoSlots DEF WorkerEnds, store, ops, slots, ghosts, IOwn, Typed, Procs, Drains, Saves
  <1>2. Roles' BY TwoSlots DEF WorkerEnds, store, ops, slots, ghosts, IOwn, Roles, ToOld, ToNew, Back
  <1>3. Processes' BY TwoSlots DEF WorkerEnds, store, ops, slots, ghosts, IOwn, Processes, Process, Live,
    Unused
  <1>4. Owned' BY TwoSlots DEF WorkerEnds, store, ops, slots, ghosts, IOwn, Owned, OnlyWriter, Work,
    Running, NoWorkLeft, DrainedOld
  <1> QED BY <1>1, <1>2, <1>3, <1>4 DEF IOwn

----------------------------------------------------------------------------
(* The steps of the script.                                                *)

LEMMA ClaimOwn == ASSUME IOwn, Claim PROVE IOwn'
  <1>1. /\ script' \in Scripts /\ script'.next # script'.cur
        /\ script.pc = "claim" /\ script'.pc = "ask"
        /\ script'.cur = script.cur /\ script'.next = script.next
    BY StepScript DEF Claim, SetWriter, IOwn, PCs, ToOld, ToNew, Back
  <1>2. Typed' BY <1>1 DEF Claim, SetWriter, cur, next, store, ops, slots, ghosts, IOwn, Typed, Scripts,
    Procs, Drains, Saves
  <1>3. Roles' BY <1>1 DEF Claim, SetWriter, cur, next, store, ops, slots, ghosts, IOwn, Roles, ToOld,
    ToNew, Back
  <1>4. Processes'
    <2> SUFFICES ASSUME NEW t \in Slots PROVE Process(t)'
      BY DEF Processes
    <2>1. Process(t) BY DEF IOwn, Processes
    <2>2. Unused(t) => Unused(t)' BY DEF Claim, SetWriter, cur, next, store, ops, slots, ghosts, Unused
    <2> QED BY <1>1, <2>1, <2>2, TwoSlots DEF Claim, SetWriter, cur, next, store, ops, slots, ghosts, IOwn,
      Typed, Scripts, Process, Live, NoSave
  <1>5. Owned'
    <2> SUFFICES ASSUME clean PROVE OnlyWriter' /\ (\A q \in Requests : Work(q)') /\ Running' /\ NoWorkLeft'
      BY DEF Owned, Claim, SetWriter, cur, next, store, ops, slots, ghosts
    <2>1. OnlyWriter' BY <1>1, TwoSlots DEF Claim, SetWriter, cur, next, store, ops, slots, ghosts, IOwn,
      Typed, Scripts, CallRecs, Roles, ToOld, ToNew, Owned, OnlyWriter, Running
    <2>2. ASSUME NEW q \in Requests PROVE Work(q)'
      BY <1>1, TwoSlots DEF Claim, SetWriter, cur, next, store, ops, slots, ghosts, IOwn, Typed, Scripts,
        CallRecs, Roles, ToOld, ToNew, Owned, Work, Running, NoWorkLeft, DrainedOld
    <2>3. Running' BY <1>1, TwoSlots DEF Claim, SetWriter, cur, next, store, ops, slots, ghosts, IOwn,
      Typed, Scripts, CallRecs, Roles, ToOld, ToNew, Owned, OnlyWriter, Running
    <2>4. NoWorkLeft' BY <1>1 DEF Claim, SetWriter, cur, next, store, ops, slots, ghosts, IOwn, Typed,
      Scripts, CallRecs, Roles, ToOld, ToNew, Owned, NoWorkLeft, DrainedOld
    <2> QED BY <2>1, <2>2, <2>3, <2>4
  <1> QED BY <1>2, <1>3, <1>4, <1>5 DEF IOwn

LEMMA HandOverOwn == ASSUME IOwn, HandOver PROVE IOwn'
  <1>1. /\ script' \in Scripts /\ script'.next # script'.cur
        /\ script.pc = "handover" /\ script'.pc = "activate"
        /\ script'.cur = script.cur /\ script'.next = script.next
    BY StepScript DEF HandOver, SetWriter, IOwn, PCs, ToOld, ToNew, Back
  <1>2. Typed' BY <1>1 DEF HandOver, SetWriter, cur, next, store, ops, slots, ghosts, IOwn, Typed, Scripts,
    Procs, Drains, Saves
  <1>3. Roles' BY <1>1 DEF HandOver, SetWriter, cur, next, store, ops, slots, ghosts, IOwn, Roles, ToOld,
    ToNew, Back
  <1>4. Processes'
    <2> SUFFICES ASSUME NEW t \in Slots PROVE Process(t)'
      BY DEF Processes
    <2>1. Process(t) BY DEF IOwn, Processes
    <2>2. Unused(t) => Unused(t)' BY DEF HandOver, SetWriter, cur, next, store, ops, slots, ghosts, Unused
    <2> QED BY <1>1, <2>1, <2>2, TwoSlots DEF HandOver, SetWriter, cur, next, store, ops, slots, ghosts,
      IOwn, Typed, Scripts, Process, Live, NoSave
  <1>5. Owned'
    <2> SUFFICES ASSUME clean PROVE OnlyWriter' /\ (\A q \in Requests : Work(q)') /\ Running' /\ NoWorkLeft'
      BY DEF Owned, HandOver, SetWriter, cur, next, store, ops, slots, ghosts
    <2>1. OnlyWriter' BY <1>1, TwoSlots DEF HandOver, SetWriter, cur, next, store, ops, slots, ghosts, IOwn,
      Typed, Scripts, CallRecs, Roles, ToOld, ToNew, Owned, OnlyWriter, Running
    <2>2. ASSUME NEW q \in Requests PROVE Work(q)'
      BY <1>1, TwoSlots DEF HandOver, SetWriter, cur, next, store, ops, slots, ghosts, IOwn, Typed, Scripts,
        CallRecs, Roles, ToOld, ToNew, Owned, Work, Running, NoWorkLeft, DrainedOld
    <2>3. Running' BY <1>1, TwoSlots DEF HandOver, SetWriter, cur, next, store, ops, slots, ghosts, IOwn,
      Typed, Scripts, CallRecs, Roles, ToOld, ToNew, Owned, OnlyWriter, Running
    <2>4. NoWorkLeft' BY <1>1 DEF HandOver, SetWriter, cur, next, store, ops, slots, ghosts, IOwn, Typed,
      Scripts, CallRecs, Roles, ToOld, ToNew, Owned, NoWorkLeft, DrainedOld
    <2> QED BY <2>1, <2>2, <2>3, <2>4
  <1> QED BY <1>2, <1>3, <1>4, <1>5 DEF IOwn

LEMMA AskOwn == ASSUME IOwn, Ask PROVE IOwn'
  <1>1. /\ script' \in Scripts /\ script'.next # script'.cur
        /\ script.pc = "ask" /\ script'.pc = "start"
        /\ script'.cur = script.cur /\ script'.next = script.next
    BY StepScript DEF Ask, IOwn, PCs, ToOld, ToNew, Back
  <1>2. Typed' BY <1>1 DEF Ask, Ready, Listening, cur, next, store, ops, slots, ghosts, IOwn, Typed,
    Scripts, Procs, Drains, Saves
  <1>3. Roles' BY <1>1 DEF Ask, Ready, Listening, cur, next, store, ops, slots, ghosts, IOwn, Roles, ToOld,
    ToNew, Back
  <1>4. Processes'
    <2> SUFFICES ASSUME NEW t \in Slots PROVE Process(t)'
      BY DEF Processes
    <2>1. Process(t) BY DEF IOwn, Processes
    <2>2. Unused(t) => Unused(t)' BY DEF Ask, Ready, Listening, cur, next, store, ops, slots, ghosts, Unused
    <2> QED BY <1>1, <2>1, <2>2, TwoSlots DEF Ask, Ready, Listening, cur, next, store, ops, slots, ghosts,
      IOwn, Typed, Scripts, Process, Live, NoSave
  <1>5. Owned'
    <2> SUFFICES ASSUME clean PROVE OnlyWriter' /\ (\A q \in Requests : Work(q)') /\ Running' /\ NoWorkLeft'
      BY DEF Owned, Ask, Ready, Listening, cur, next, store, ops, slots, ghosts
    <2>1. OnlyWriter' BY <1>1, TwoSlots DEF Ask, Ready, Listening, cur, next, store, ops, slots, ghosts,
      IOwn, Typed, Scripts, CallRecs, Roles, ToOld, ToNew, Owned, OnlyWriter, Running
    <2>2. ASSUME NEW q \in Requests PROVE Work(q)'
      BY <1>1, TwoSlots DEF Ask, Ready, Listening, cur, next, store, ops, slots, ghosts, IOwn, Typed,
        Scripts, CallRecs, Roles, ToOld, ToNew, Owned, Work, Running, NoWorkLeft, DrainedOld
    <2>3. Running' BY <1>1, TwoSlots DEF Ask, Ready, Listening, cur, next, store, ops, slots, ghosts, IOwn,
      Typed, Scripts, CallRecs, Roles, ToOld, ToNew, Owned, OnlyWriter, Running
    <2>4. NoWorkLeft' BY <1>1 DEF Ask, Ready, Listening, cur, next, store, ops, slots, ghosts, IOwn, Typed,
      Scripts, CallRecs, Roles, ToOld, ToNew, Owned, NoWorkLeft, DrainedOld
    <2> QED BY <2>1, <2>2, <2>3, <2>4
  <1> QED BY <1>2, <1>3, <1>4, <1>5 DEF IOwn

LEMMA HealthOwn == ASSUME IOwn, Health PROVE IOwn'
  <1>1. /\ script' \in Scripts /\ script'.next # script'.cur
        /\ script.pc = "health" /\ script'.pc = "quiesce"
        /\ script'.cur = script.cur /\ script'.next = script.next
    BY StepScript DEF Health, IOwn, PCs, ToOld, ToNew, Back
  <1>2. Typed' BY <1>1 DEF Health, Listening, cur, next, store, ops, slots, ghosts, IOwn, Typed, Scripts,
    Procs, Drains, Saves
  <1>3. Roles' BY <1>1 DEF Health, Listening, cur, next, store, ops, slots, ghosts, IOwn, Roles, ToOld,
    ToNew, Back
  <1>4. Processes'
    <2> SUFFICES ASSUME NEW t \in Slots PROVE Process(t)'
      BY DEF Processes
    <2>1. Process(t) BY DEF IOwn, Processes
    <2>2. Unused(t) => Unused(t)' BY DEF Health, Listening, cur, next, store, ops, slots, ghosts, Unused
    <2> QED BY <1>1, <2>1, <2>2, TwoSlots DEF Health, Listening, cur, next, store, ops, slots, ghosts, IOwn,
      Typed, Scripts, Process, Live, NoSave
  <1>5. Owned'
    <2> SUFFICES ASSUME clean PROVE OnlyWriter' /\ (\A q \in Requests : Work(q)') /\ Running' /\ NoWorkLeft'
      BY DEF Owned, Health, Listening, cur, next, store, ops, slots, ghosts
    <2>1. OnlyWriter' BY <1>1, TwoSlots DEF Health, Listening, cur, next, store, ops, slots, ghosts, IOwn,
      Typed, Scripts, CallRecs, Roles, ToOld, ToNew, Owned, OnlyWriter, Running
    <2>2. ASSUME NEW q \in Requests PROVE Work(q)'
      BY <1>1, TwoSlots DEF Health, Listening, cur, next, store, ops, slots, ghosts, IOwn, Typed, Scripts,
        CallRecs, Roles, ToOld, ToNew, Owned, Work, Running, NoWorkLeft, DrainedOld
    <2>3. Running' BY <1>1, TwoSlots DEF Health, Listening, cur, next, store, ops, slots, ghosts, IOwn,
      Typed, Scripts, CallRecs, Roles, ToOld, ToNew, Owned, OnlyWriter, Running
    <2>4. NoWorkLeft' BY <1>1 DEF Health, Listening, cur, next, store, ops, slots, ghosts, IOwn, Typed,
      Scripts, CallRecs, Roles, ToOld, ToNew, Owned, NoWorkLeft, DrainedOld
    <2> QED BY <2>1, <2>2, <2>3, <2>4
  <1> QED BY <1>2, <1>3, <1>4, <1>5 DEF IOwn

LEMMA PostQuiesceOwn == ASSUME IOwn, PostQuiesce PROVE IOwn'
  <1>1. /\ script' \in Scripts /\ script'.next # script'.cur
        /\ script.pc = "quiesce" /\ script'.pc = "draining"
        /\ script'.cur = script.cur /\ script'.next = script.next
    BY StepScript DEF PostQuiesce, IOwn, PCs, ToOld, ToNew, Back
  <1>2. Typed' BY <1>1 DEF PostQuiesce, Listening, cur, next, store, ops, slots, ghosts, IOwn, Typed,
    Scripts, Procs, Drains, Saves
  <1>3. Roles' BY <1>1 DEF PostQuiesce, Listening, cur, next, store, ops, slots, ghosts, IOwn, Roles, ToOld,
    ToNew, Back
  <1>4. Processes'
    <2> SUFFICES ASSUME NEW t \in Slots PROVE Process(t)'
      BY DEF Processes
    <2>1. Process(t) BY DEF IOwn, Processes
    <2>2. Unused(t) => Unused(t)' BY DEF PostQuiesce, Listening, cur, next, store, ops, slots, ghosts, Unused
    <2> QED BY <1>1, <2>1, <2>2, TwoSlots DEF PostQuiesce, Listening, cur, next, store, ops, slots, ghosts,
      IOwn, Typed, Scripts, Process, Live, NoSave
  <1>5. Owned'
    <2> SUFFICES ASSUME clean PROVE OnlyWriter' /\ (\A q \in Requests : Work(q)') /\ Running' /\ NoWorkLeft'
      BY DEF Owned, PostQuiesce, Listening, cur, next, store, ops, slots, ghosts
    <2>1. OnlyWriter' BY <1>1, TwoSlots DEF PostQuiesce, Listening, cur, next, store, ops, slots, ghosts,
      IOwn, Typed, Scripts, CallRecs, Roles, ToOld, ToNew, Owned, OnlyWriter, Running
    <2>2. ASSUME NEW q \in Requests PROVE Work(q)'
      BY <1>1, TwoSlots DEF PostQuiesce, Listening, cur, next, store, ops, slots, ghosts, IOwn, Typed,
        Scripts, CallRecs, Roles, ToOld, ToNew, Owned, Work, Running, NoWorkLeft, DrainedOld
    <2>3. Running' BY <1>1, TwoSlots DEF PostQuiesce, Listening, cur, next, store, ops, slots, ghosts, IOwn,
      Typed, Scripts, CallRecs, Roles, ToOld, ToNew, Owned, OnlyWriter, Running
    <2>4. NoWorkLeft' BY <1>1 DEF PostQuiesce, Listening, cur, next, store, ops, slots, ghosts, IOwn, Typed,
      Scripts, CallRecs, Roles, ToOld, ToNew, Owned, NoWorkLeft, DrainedOld
    <2> QED BY <2>1, <2>2, <2>3, <2>4
  <1> QED BY <1>2, <1>3, <1>4, <1>5 DEF IOwn

LEMMA QuiesceAnsweredOwn == ASSUME IOwn, QuiesceAnswered PROVE IOwn'
  <1>1. /\ script' \in Scripts /\ script'.next # script'.cur
        /\ script.pc = "draining" /\ script'.pc = "handover"
        /\ script'.cur = script.cur /\ script'.next = script.next
    BY StepScript DEF QuiesceAnswered, IOwn, PCs, ToOld, ToNew, Back
  <1>2. Typed' BY <1>1 DEF QuiesceAnswered, cur, next, store, ops, slots, ghosts, IOwn, Typed, Scripts,
    Procs, Drains, Saves
  <1>3. Roles' BY <1>1 DEF QuiesceAnswered, cur, next, store, ops, slots, ghosts, IOwn, Roles, ToOld, ToNew,
    Back
  <1>4. Processes'
    <2> SUFFICES ASSUME NEW t \in Slots PROVE Process(t)'
      BY DEF Processes
    <2>1. Process(t) BY DEF IOwn, Processes
    <2>2. Unused(t) => Unused(t)' BY DEF QuiesceAnswered, cur, next, store, ops, slots, ghosts, Unused
    <2> QED BY <1>1, <2>1, <2>2, TwoSlots DEF QuiesceAnswered, cur, next, store, ops, slots, ghosts, IOwn,
      Typed, Scripts, Process, Live, NoSave
  <1>5. Owned'
    <2> SUFFICES ASSUME clean PROVE OnlyWriter' /\ (\A q \in Requests : Work(q)') /\ Running' /\ NoWorkLeft'
      BY DEF Owned, QuiesceAnswered, cur, next, store, ops, slots, ghosts
    <2>1. OnlyWriter' BY <1>1, TwoSlots DEF QuiesceAnswered, cur, next, store, ops, slots, ghosts, IOwn,
      Typed, Scripts, CallRecs, Roles, ToOld, ToNew, Owned, OnlyWriter, Running
    <2>2. ASSUME NEW q \in Requests PROVE Work(q)'
      BY <1>1, TwoSlots DEF QuiesceAnswered, cur, next, store, ops, slots, ghosts, IOwn, Typed, Scripts,
        CallRecs, Roles, ToOld, ToNew, Owned, Work, Running, NoWorkLeft, DrainedOld
    <2>3. Running' BY <1>1, TwoSlots DEF QuiesceAnswered, cur, next, store, ops, slots, ghosts, IOwn, Typed,
      Scripts, CallRecs, Roles, ToOld, ToNew, Owned, OnlyWriter, Running
    <2>4. NoWorkLeft' BY <1>1 DEF QuiesceAnswered, cur, next, store, ops, slots, ghosts, IOwn, Typed,
      Scripts, CallRecs, Roles, ToOld, ToNew, Owned, NoWorkLeft, DrainedOld
    <2> QED BY <2>1, <2>2, <2>3, <2>4
  <1> QED BY <1>2, <1>3, <1>4, <1>5 DEF IOwn

LEMMA WaitReadyOwn == ASSUME IOwn, WaitReady PROVE IOwn'
  <1>1. /\ script' \in Scripts /\ script'.next # script'.cur
        /\ script.pc = "activating" /\ script'.pc = "flip"
        /\ script'.cur = script.cur /\ script'.next = script.next
    BY StepScript DEF WaitReady, IOwn, PCs, ToOld, ToNew, Back
  <1>2. Typed' BY <1>1 DEF WaitReady, Ready, Listening, cur, next, store, ops, slots, ghosts, IOwn, Typed,
    Scripts, Procs, Drains, Saves
  <1>3. Roles' BY <1>1 DEF WaitReady, Ready, Listening, cur, next, store, ops, slots, ghosts, IOwn, Roles,
    ToOld, ToNew, Back
  <1>4. Processes'
    <2> SUFFICES ASSUME NEW t \in Slots PROVE Process(t)'
      BY DEF Processes
    <2>1. Process(t) BY DEF IOwn, Processes
    <2>2. Unused(t) => Unused(t)'
      BY DEF WaitReady, Ready, Listening, cur, next, store, ops, slots, ghosts, Unused
    <2> QED BY <1>1, <2>1, <2>2, TwoSlots DEF WaitReady, Ready, Listening, cur, next, store, ops, slots,
      ghosts, IOwn, Typed, Scripts, Process, Live, NoSave
  <1>5. Owned'
    <2> SUFFICES ASSUME clean PROVE OnlyWriter' /\ (\A q \in Requests : Work(q)') /\ Running' /\ NoWorkLeft'
      BY DEF Owned, WaitReady, Ready, Listening, cur, next, store, ops, slots, ghosts
    <2>1. OnlyWriter' BY <1>1, TwoSlots DEF WaitReady, Ready, Listening, cur, next, store, ops, slots,
      ghosts, IOwn, Typed, Scripts, CallRecs, Roles, ToOld, ToNew, Owned, OnlyWriter, Running
    <2>2. ASSUME NEW q \in Requests PROVE Work(q)'
      BY <1>1, TwoSlots DEF WaitReady, Ready, Listening, cur, next, store, ops, slots, ghosts, IOwn, Typed,
        Scripts, CallRecs, Roles, ToOld, ToNew, Owned, Work, Running, NoWorkLeft, DrainedOld
    <2>3. Running' BY <1>1, TwoSlots DEF WaitReady, Ready, Listening, cur, next, store, ops, slots, ghosts,
      IOwn, Typed, Scripts, CallRecs, Roles, ToOld, ToNew, Owned, OnlyWriter, Running
    <2>4. NoWorkLeft' BY <1>1 DEF WaitReady, Ready, Listening, cur, next, store, ops, slots, ghosts, IOwn,
      Typed, Scripts, CallRecs, Roles, ToOld, ToNew, Owned, NoWorkLeft, DrainedOld
    <2> QED BY <2>1, <2>2, <2>3, <2>4
  <1> QED BY <1>2, <1>3, <1>4, <1>5 DEF IOwn

LEMMA FlipOwn == ASSUME IOwn, Flip PROVE IOwn'
  <1>1. /\ script' \in Scripts /\ script'.next # script'.cur
        /\ script.pc = "flip" /\ script'.pc = "prove"
        /\ script'.cur = script.cur /\ script'.next = script.next
    BY StepScript DEF Flip, PointEdge, IOwn, PCs, ToOld, ToNew, Back
  <1>2. Typed' BY <1>1 DEF Flip, PointEdge, cur, next, store, ops, slots, ghosts, IOwn, Typed, Scripts,
    Procs, Drains, Saves
  <1>3. Roles' BY <1>1 DEF Flip, PointEdge, cur, next, store, ops, slots, ghosts, IOwn, Roles, ToOld, ToNew,
    Back
  <1>4. Processes'
    <2> SUFFICES ASSUME NEW t \in Slots PROVE Process(t)'
      BY DEF Processes
    <2>1. Process(t) BY DEF IOwn, Processes
    <2>2. Unused(t) => Unused(t)' BY DEF Flip, PointEdge, cur, next, store, ops, slots, ghosts, Unused
    <2> QED BY <1>1, <2>1, <2>2, TwoSlots DEF Flip, PointEdge, cur, next, store, ops, slots, ghosts, IOwn,
      Typed, Scripts, Process, Live, NoSave
  <1>5. Owned'
    <2> SUFFICES ASSUME clean PROVE OnlyWriter' /\ (\A q \in Requests : Work(q)') /\ Running' /\ NoWorkLeft'
      BY DEF Owned, Flip, PointEdge, cur, next, store, ops, slots, ghosts
    <2>1. OnlyWriter' BY <1>1, TwoSlots DEF Flip, PointEdge, cur, next, store, ops, slots, ghosts, IOwn,
      Typed, Scripts, CallRecs, Roles, ToOld, ToNew, Owned, OnlyWriter, Running
    <2>2. ASSUME NEW q \in Requests PROVE Work(q)'
      BY <1>1, TwoSlots DEF Flip, PointEdge, cur, next, store, ops, slots, ghosts, IOwn, Typed, Scripts,
        CallRecs, Roles, ToOld, ToNew, Owned, Work, Running, NoWorkLeft, DrainedOld
    <2>3. Running' BY <1>1, TwoSlots DEF Flip, PointEdge, cur, next, store, ops, slots, ghosts, IOwn, Typed,
      Scripts, CallRecs, Roles, ToOld, ToNew, Owned, OnlyWriter, Running
    <2>4. NoWorkLeft' BY <1>1 DEF Flip, PointEdge, cur, next, store, ops, slots, ghosts, IOwn, Typed,
      Scripts, CallRecs, Roles, ToOld, ToNew, Owned, NoWorkLeft, DrainedOld
    <2> QED BY <2>1, <2>2, <2>3, <2>4
  <1> QED BY <1>2, <1>3, <1>4, <1>5 DEF IOwn

LEMMA ProveOwn == ASSUME IOwn, Prove PROVE IOwn'
  <1>1. /\ script' \in Scripts /\ script'.next # script'.cur
        /\ script.pc = "prove" /\ script'.pc = "stop"
        /\ script'.cur = script.cur /\ script'.next = script.next
    BY StepScript DEF Prove, IOwn, PCs, ToOld, ToNew, Back
  <1>2. Typed' BY <1>1 DEF Prove, cur, next, store, ops, slots, ghosts, IOwn, Typed, Scripts, Procs, Drains,
    Saves
  <1>3. Roles' BY <1>1 DEF Prove, cur, next, store, ops, slots, ghosts, IOwn, Roles, ToOld, ToNew, Back
  <1>4. Processes'
    <2> SUFFICES ASSUME NEW t \in Slots PROVE Process(t)'
      BY DEF Processes
    <2>1. Process(t) BY DEF IOwn, Processes
    <2>2. Unused(t) => Unused(t)' BY DEF Prove, cur, next, store, ops, slots, ghosts, Unused
    <2> QED BY <1>1, <2>1, <2>2, TwoSlots DEF Prove, cur, next, store, ops, slots, ghosts, IOwn, Typed,
      Scripts, Process, Live, NoSave
  <1>5. Owned'
    <2> SUFFICES ASSUME clean PROVE OnlyWriter' /\ (\A q \in Requests : Work(q)') /\ Running' /\ NoWorkLeft'
      BY DEF Owned, Prove, cur, next, store, ops, slots, ghosts
    <2>1. OnlyWriter' BY <1>1, TwoSlots DEF Prove, cur, next, store, ops, slots, ghosts, IOwn, Typed,
      Scripts, CallRecs, Roles, ToOld, ToNew, Owned, OnlyWriter, Running
    <2>2. ASSUME NEW q \in Requests PROVE Work(q)'
      BY <1>1, TwoSlots DEF Prove, cur, next, store, ops, slots, ghosts, IOwn, Typed, Scripts, CallRecs,
        Roles, ToOld, ToNew, Owned, Work, Running, NoWorkLeft, DrainedOld
    <2>3. Running' BY <1>1, TwoSlots DEF Prove, cur, next, store, ops, slots, ghosts, IOwn, Typed, Scripts,
      CallRecs, Roles, ToOld, ToNew, Owned, OnlyWriter, Running
    <2>4. NoWorkLeft' BY <1>1 DEF Prove, cur, next, store, ops, slots, ghosts, IOwn, Typed, Scripts,
      CallRecs, Roles, ToOld, ToNew, Owned, NoWorkLeft, DrainedOld
    <2> QED BY <2>1, <2>2, <2>3, <2>4
  <1> QED BY <1>2, <1>3, <1>4, <1>5 DEF IOwn

LEMMA StopOldOwn == ASSUME IOwn, StopOld PROVE IOwn'
  <1>1. /\ script' \in Scripts /\ script'.next # script'.cur
        /\ script.pc = "stop" /\ script'.pc = "last"
        /\ script'.cur = script.cur /\ script'.next = script.next
    BY StepScript DEF StopOld, IOwn, PCs, ToOld, ToNew, Back
  <1>2. Typed' BY <1>1 DEF StopOld, cur, next, store, ops, slots, ghosts, IOwn, Typed, Scripts, Procs,
    Drains, Saves
  <1>3. Roles' BY <1>1 DEF StopOld, cur, next, store, ops, slots, ghosts, IOwn, Roles, ToOld, ToNew, Back
  <1>4. Processes'
    <2> SUFFICES ASSUME NEW t \in Slots PROVE Process(t)'
      BY DEF Processes
    <2>1. Process(t) BY DEF IOwn, Processes
    <2>2. Unused(t) => Unused(t)' BY DEF StopOld, cur, next, store, ops, slots, ghosts, Unused
    <2> QED BY <1>1, <2>1, <2>2, TwoSlots DEF StopOld, cur, next, store, ops, slots, ghosts, IOwn, Typed,
      Scripts, Process, Live, NoSave
  <1>5. Owned'
    <2> SUFFICES ASSUME clean PROVE OnlyWriter' /\ (\A q \in Requests : Work(q)') /\ Running' /\ NoWorkLeft'
      BY DEF Owned, StopOld, cur, next, store, ops, slots, ghosts
    <2>1. OnlyWriter' BY <1>1, TwoSlots DEF StopOld, cur, next, store, ops, slots, ghosts, IOwn, Typed,
      Scripts, CallRecs, Roles, ToOld, ToNew, Owned, OnlyWriter, Running
    <2>2. ASSUME NEW q \in Requests PROVE Work(q)'
      BY <1>1, TwoSlots DEF StopOld, cur, next, store, ops, slots, ghosts, IOwn, Typed, Scripts, CallRecs,
        Roles, ToOld, ToNew, Owned, Work, Running, NoWorkLeft, DrainedOld
    <2>3. Running' BY <1>1, TwoSlots DEF StopOld, cur, next, store, ops, slots, ghosts, IOwn, Typed,
      Scripts, CallRecs, Roles, ToOld, ToNew, Owned, OnlyWriter, Running
    <2>4. NoWorkLeft' BY <1>1 DEF StopOld, cur, next, store, ops, slots, ghosts, IOwn, Typed, Scripts,
      CallRecs, Roles, ToOld, ToNew, Owned, NoWorkLeft, DrainedOld
    <2> QED BY <2>1, <2>2, <2>3, <2>4
  <1> QED BY <1>2, <1>3, <1>4, <1>5 DEF IOwn

LEMMA LastProofOwn == ASSUME IOwn, LastProof PROVE IOwn'
  <1>1. /\ script' \in Scripts /\ script'.next # script'.cur
        /\ script.pc = "last" /\ script'.pc = "done"
        /\ script'.cur = script.cur /\ script'.next = script.next
    BY StepScript DEF LastProof, IOwn, PCs, ToOld, ToNew, Back
  <1>2. Typed' BY <1>1 DEF LastProof, cur, next, store, ops, slots, ghosts, IOwn, Typed, Scripts, Procs,
    Drains, Saves
  <1>3. Roles' BY <1>1 DEF LastProof, cur, next, store, ops, slots, ghosts, IOwn, Roles, ToOld, ToNew, Back
  <1>4. Processes'
    <2> SUFFICES ASSUME NEW t \in Slots PROVE Process(t)'
      BY DEF Processes
    <2>1. Process(t) BY DEF IOwn, Processes
    <2>2. Unused(t) => Unused(t)' BY DEF LastProof, cur, next, store, ops, slots, ghosts, Unused
    <2> QED BY <1>1, <2>1, <2>2, TwoSlots DEF LastProof, cur, next, store, ops, slots, ghosts, IOwn, Typed,
      Scripts, Process, Live, NoSave
  <1>5. Owned'
    <2> SUFFICES ASSUME clean PROVE OnlyWriter' /\ (\A q \in Requests : Work(q)') /\ Running' /\ NoWorkLeft'
      BY DEF Owned, LastProof, cur, next, store, ops, slots, ghosts
    <2>1. OnlyWriter' BY <1>1, TwoSlots DEF LastProof, cur, next, store, ops, slots, ghosts, IOwn, Typed,
      Scripts, CallRecs, Roles, ToOld, ToNew, Owned, OnlyWriter, Running
    <2>2. ASSUME NEW q \in Requests PROVE Work(q)'
      BY <1>1, TwoSlots DEF LastProof, cur, next, store, ops, slots, ghosts, IOwn, Typed, Scripts, CallRecs,
        Roles, ToOld, ToNew, Owned, Work, Running, NoWorkLeft, DrainedOld
    <2>3. Running' BY <1>1, TwoSlots DEF LastProof, cur, next, store, ops, slots, ghosts, IOwn, Typed,
      Scripts, CallRecs, Roles, ToOld, ToNew, Owned, OnlyWriter, Running
    <2>4. NoWorkLeft' BY <1>1 DEF LastProof, cur, next, store, ops, slots, ghosts, IOwn, Typed, Scripts,
      CallRecs, Roles, ToOld, ToNew, Owned, NoWorkLeft, DrainedOld
    <2> QED BY <2>1, <2>2, <2>3, <2>4
  <1> QED BY <1>2, <1>3, <1>4, <1>5 DEF IOwn

LEMMA RollbackUpOwn == ASSUME IOwn, RollbackUp PROVE IOwn'
  <1>1. /\ script' \in Scripts /\ script'.next # script'.cur
        /\ script.pc = "rbUp" /\ script'.pc = "rbWriter"
        /\ script'.cur = script.cur /\ script'.next = script.next
    BY StepScript DEF RollbackUp, IOwn, PCs, ToOld, ToNew, Back
  <1>2. Typed' BY <1>1 DEF RollbackUp, cur, next, store, ops, slots, ghosts, IOwn, Typed, Scripts, Procs,
    Drains, Saves
  <1>3. Roles' BY <1>1 DEF RollbackUp, cur, next, store, ops, slots, ghosts, IOwn, Roles, ToOld, ToNew, Back
  <1>4. Processes'
    <2> SUFFICES ASSUME NEW t \in Slots PROVE Process(t)'
      BY DEF Processes
    <2>1. Process(t) BY DEF IOwn, Processes
    <2>2. Unused(t) => Unused(t)' BY DEF RollbackUp, cur, next, store, ops, slots, ghosts, Unused
    <2> QED BY <1>1, <2>1, <2>2, TwoSlots DEF RollbackUp, cur, next, store, ops, slots, ghosts, IOwn, Typed,
      Scripts, Process, Live, NoSave
  <1>5. Owned' BY <1>1 DEF RollbackUp, ghosts, IOwn, Roles, Back, Owned
  <1> QED BY <1>2, <1>3, <1>4, <1>5 DEF IOwn

LEMMA RollbackWriterOwn == ASSUME IOwn, RollbackWriter PROVE IOwn'
  <1>1. /\ script' \in Scripts /\ script'.next # script'.cur
        /\ script.pc = "rbWriter" /\ script'.pc = "rbActivate"
        /\ script'.cur = script.cur /\ script'.next = script.next
    BY StepScript DEF RollbackWriter, SetWriter, IOwn, PCs, ToOld, ToNew, Back
  <1>2. Typed' BY <1>1 DEF RollbackWriter, SetWriter, cur, next, store, ops, slots, ghosts, IOwn, Typed,
    Scripts, Procs, Drains, Saves
  <1>3. Roles' BY <1>1 DEF RollbackWriter, SetWriter, cur, next, store, ops, slots, ghosts, IOwn, Roles,
    ToOld, ToNew, Back
  <1>4. Processes'
    <2> SUFFICES ASSUME NEW t \in Slots PROVE Process(t)'
      BY DEF Processes
    <2>1. Process(t) BY DEF IOwn, Processes
    <2>2. Unused(t) => Unused(t)'
      BY DEF RollbackWriter, SetWriter, cur, next, store, ops, slots, ghosts, Unused
    <2> QED BY <1>1, <2>1, <2>2, TwoSlots DEF RollbackWriter, SetWriter, cur, next, store, ops, slots,
      ghosts, IOwn, Typed, Scripts, Process, Live, NoSave
  <1>5. Owned' BY <1>1 DEF RollbackWriter, SetWriter, ghosts, IOwn, Roles, Back, Owned
  <1> QED BY <1>2, <1>3, <1>4, <1>5 DEF IOwn

LEMMA RollbackDiesOwn == ASSUME IOwn, RollbackDies PROVE IOwn'
  <1>1. /\ script' \in Scripts /\ script'.next # script'.cur
        /\ script.pc = "rbWriter" /\ script'.pc = "dead"
        /\ script'.cur = script.cur /\ script'.next = script.next
    BY StepScript DEF RollbackDies, IOwn, PCs, ToOld, ToNew, Back
  <1>2. Typed' BY <1>1 DEF RollbackDies, cur, next, store, ops, slots, ghosts, IOwn, Typed, Scripts, Procs,
    Drains, Saves
  <1>3. Roles' BY <1>1 DEF RollbackDies, cur, next, store, ops, slots, ghosts, IOwn, Roles, ToOld, ToNew,
    Back
  <1>4. Processes'
    <2> SUFFICES ASSUME NEW t \in Slots PROVE Process(t)'
      BY DEF Processes
    <2>1. Process(t) BY DEF IOwn, Processes
    <2>2. Unused(t) => Unused(t)' BY DEF RollbackDies, cur, next, store, ops, slots, ghosts, Unused
    <2> QED BY <1>1, <2>1, <2>2, TwoSlots DEF RollbackDies, cur, next, store, ops, slots, ghosts, IOwn,
      Typed, Scripts, Process, Live, NoSave
  <1>5. Owned' BY <1>1 DEF RollbackDies, ghosts, IOwn, Roles, Back, Owned
  <1> QED BY <1>2, <1>3, <1>4, <1>5 DEF IOwn

LEMMA RollbackSkipsOwn == ASSUME IOwn, RollbackSkips PROVE IOwn'
  <1>1. /\ script' \in Scripts /\ script'.next # script'.cur
        /\ script.pc = "rbActivate" /\ script'.pc = "rbEdge"
        /\ script'.cur = script.cur /\ script'.next = script.next
    BY StepScript DEF RollbackSkips, IOwn, PCs, ToOld, ToNew, Back
  <1>2. Typed' BY <1>1 DEF RollbackSkips, cur, next, store, ops, slots, ghosts, IOwn, Typed, Scripts, Procs,
    Drains, Saves
  <1>3. Roles' BY <1>1 DEF RollbackSkips, cur, next, store, ops, slots, ghosts, IOwn, Roles, ToOld, ToNew,
    Back
  <1>4. Processes'
    <2> SUFFICES ASSUME NEW t \in Slots PROVE Process(t)'
      BY DEF Processes
    <2>1. Process(t) BY DEF IOwn, Processes
    <2>2. Unused(t) => Unused(t)' BY DEF RollbackSkips, cur, next, store, ops, slots, ghosts, Unused
    <2> QED BY <1>1, <2>1, <2>2, TwoSlots DEF RollbackSkips, cur, next, store, ops, slots, ghosts, IOwn,
      Typed, Scripts, Process, Live, NoSave
  <1>5. Owned' BY <1>1 DEF RollbackSkips, ghosts, IOwn, Roles, Back, Owned
  <1> QED BY <1>2, <1>3, <1>4, <1>5 DEF IOwn

LEMMA RollbackEdgeOwn == ASSUME IOwn, RollbackEdge PROVE IOwn'
  <1>1. /\ script' \in Scripts /\ script'.next # script'.cur
        /\ script.pc = "rbEdge" /\ script'.pc = "rbFile"
        /\ script'.cur = script.cur /\ script'.next = script.next
    BY StepScript DEF RollbackEdge, PointEdge, IOwn, PCs, ToOld, ToNew, Back
  <1>2. Typed' BY <1>1 DEF RollbackEdge, PointEdge, cur, next, store, ops, slots, ghosts, IOwn, Typed,
    Scripts, Procs, Drains, Saves
  <1>3. Roles' BY <1>1 DEF RollbackEdge, PointEdge, cur, next, store, ops, slots, ghosts, IOwn, Roles,
    ToOld, ToNew, Back
  <1>4. Processes'
    <2> SUFFICES ASSUME NEW t \in Slots PROVE Process(t)'
      BY DEF Processes
    <2>1. Process(t) BY DEF IOwn, Processes
    <2>2. Unused(t) => Unused(t)' BY DEF RollbackEdge, PointEdge, cur, next, store, ops, slots, ghosts, Unused
    <2> QED BY <1>1, <2>1, <2>2, TwoSlots DEF RollbackEdge, PointEdge, cur, next, store, ops, slots, ghosts,
      IOwn, Typed, Scripts, Process, Live, NoSave
  <1>5. Owned' BY <1>1 DEF RollbackEdge, PointEdge, ghosts, IOwn, Roles, Back, Owned
  <1> QED BY <1>2, <1>3, <1>4, <1>5 DEF IOwn

LEMMA RollbackFileOwn == ASSUME IOwn, RollbackFile PROVE IOwn'
  <1>1. /\ script' \in Scripts /\ script'.next # script'.cur
        /\ script.pc = "rbFile" /\ script'.pc = "failed"
        /\ script'.cur = script.cur /\ script'.next = script.next
    BY StepScript DEF RollbackFile, IOwn, PCs, ToOld, ToNew, Back
  <1>2. Typed' BY <1>1 DEF RollbackFile, cur, next, store, ops, slots, ghosts, IOwn, Typed, Scripts, Procs,
    Drains, Saves
  <1>3. Roles' BY <1>1 DEF RollbackFile, cur, next, store, ops, slots, ghosts, IOwn, Roles, ToOld, ToNew,
    Back
  <1>4. Processes'
    <2> SUFFICES ASSUME NEW t \in Slots PROVE Process(t)'
      BY DEF Processes
    <2>1. Process(t) BY DEF IOwn, Processes
    <2>2. Unused(t) => Unused(t)' BY DEF RollbackFile, cur, next, store, ops, slots, ghosts, Unused
    <2> QED BY <1>1, <2>1, <2>2, TwoSlots DEF RollbackFile, cur, next, store, ops, slots, ghosts, IOwn,
      Typed, Scripts, Process, Live, NoSave
  <1>5. Owned' BY <1>1 DEF RollbackFile, ghosts, IOwn, Roles, Back, Owned
  <1> QED BY <1>2, <1>3, <1>4, <1>5 DEF IOwn

LEMMA PostActivateOwn == ASSUME IOwn, PostActivate PROVE IOwn'
  <1>1. /\ script' \in Scripts /\ script'.next # script'.cur
        /\ script.pc = "activate" /\ script'.pc = "activating"
        /\ script'.cur = script.cur /\ script'.next = script.next
    BY StepScript DEF PostActivate, IOwn, PCs, ToOld, ToNew, Back
  <1>2. Typed' BY <1>1 DEF PostActivate, Activate, MayActivate, Listening, cur, next, store, ops, slots,
    ghosts, IOwn, Typed, Scripts, Procs, Drains, Saves
  <1>3. Roles' BY <1>1 DEF PostActivate, Activate, MayActivate, Listening, cur, next, store, ops, slots,
    ghosts, IOwn, Roles, ToOld, ToNew, Back
  <1>4. Processes'
    <2> SUFFICES ASSUME NEW t \in Slots PROVE Process(t)'
      BY DEF Processes
    <2>1. Process(t) BY DEF IOwn, Processes
    <2>2. Unused(t) => Unused(t)'
      BY DEF PostActivate, Activate, MayActivate, Listening, cur, next, store, ops, slots, ghosts, Unused
    <2> QED BY <1>1, <2>1, <2>2, TwoSlots DEF PostActivate, Activate, MayActivate, Listening, cur, next,
      store, ops, slots, ghosts, IOwn, Typed, Scripts, Process, Live, NoSave
  <1>5. Owned'
    <2> SUFFICES ASSUME clean PROVE OnlyWriter' /\ (\A q \in Requests : Work(q)') /\ Running' /\ NoWorkLeft'
      BY DEF Owned, PostActivate, Activate, MayActivate, Listening, cur, next, store, ops, slots, ghosts
    <2>1. OnlyWriter' BY <1>1, TwoSlots DEF PostActivate, Activate, MayActivate, Listening, cur, next,
      store, ops, slots, ghosts, IOwn, Typed, Scripts, CallRecs, Roles, ToOld, ToNew, Owned, OnlyWriter,
      Running
    <2>2. ASSUME NEW q \in Requests PROVE Work(q)'
      BY <1>1, TwoSlots DEF PostActivate, Activate, MayActivate, Listening, cur, next, store, ops, slots,
        ghosts, IOwn, Typed, Scripts, CallRecs, Roles, ToOld, ToNew, Owned, Work, Running, NoWorkLeft,
        DrainedOld
    <2>3. Running' BY <1>1, TwoSlots DEF PostActivate, Activate, MayActivate, Listening, cur, next, store,
      ops, slots, ghosts, IOwn, Typed, Scripts, CallRecs, Roles, ToOld, ToNew, Owned, OnlyWriter, Running
    <2>4. NoWorkLeft' BY <1>1 DEF PostActivate, Activate, MayActivate, Listening, cur, next, store, ops,
      slots, ghosts, IOwn, Typed, Scripts, CallRecs, Roles, ToOld, ToNew, Owned, NoWorkLeft, DrainedOld
    <2> QED BY <2>1, <2>2, <2>3, <2>4
  <1> QED BY <1>2, <1>3, <1>4, <1>5 DEF IOwn

LEMMA RollbackActivateOwn == ASSUME IOwn, RollbackActivate PROVE IOwn'
  <1>1. /\ script' \in Scripts /\ script'.next # script'.cur
        /\ script.pc = "rbActivate" /\ script'.pc = "rbEdge"
        /\ script'.cur = script.cur /\ script'.next = script.next
    BY StepScript DEF RollbackActivate, IOwn, PCs, ToOld, ToNew, Back
  <1>2. Typed' BY <1>1 DEF RollbackActivate, Activate, MayActivate, Listening, cur, next, store, ops, slots,
    ghosts, IOwn, Typed, Scripts, Procs, Drains, Saves
  <1>3. Roles' BY <1>1 DEF RollbackActivate, Activate, MayActivate, Listening, cur, next, store, ops, slots,
    ghosts, IOwn, Roles, ToOld, ToNew, Back
  <1>4. Processes'
    <2> SUFFICES ASSUME NEW t \in Slots PROVE Process(t)'
      BY DEF Processes
    <2>1. Process(t) BY DEF IOwn, Processes
    <2>2. Unused(t) => Unused(t)'
      BY DEF RollbackActivate, Activate, MayActivate, Listening, cur, next, store, ops, slots, ghosts, Unused
    <2> QED BY <1>1, <2>1, <2>2, TwoSlots DEF RollbackActivate, Activate, MayActivate, Listening, cur, next,
      store, ops, slots, ghosts, IOwn, Typed, Scripts, Process, Live, NoSave
  <1>5. Owned' BY <1>1 DEF RollbackActivate, Activate, ghosts, IOwn, Roles, Back, Owned
  <1> QED BY <1>2, <1>3, <1>4, <1>5 DEF IOwn

LEMMA DeployOwn == ASSUME IOwn, Deploy PROVE IOwn'
  <1>1. /\ script' \in Scripts /\ script'.next # script'.cur
        /\ script'.pc = "claim" /\ script'.cur = active /\ script'.next = Other(active)
        /\ script.pc \in {"idle", "done", "failed", "dead"}
        /\ UNCHANGED <<store, ops, slots, call, clean, lost>>
    BY TwoSlots DEF Deploy, ghosts, IOwn, Typed, Scripts, PCs
  <1>2. Typed' BY <1>1 DEF store, ops, slots, IOwn, Typed
  <1>3. Roles' BY <1>1 DEF store, IOwn, Roles, ToOld, ToNew, Back
  <1>4. Processes'
    <2> SUFFICES ASSUME NEW t \in Slots PROVE Process(t)'
      BY DEF Processes
    <2>1. Process(t) BY DEF IOwn, Processes
    <2>2. Unused(t) => Unused(t)' BY <1>1 DEF Unused
    <2> QED BY <1>1, <2>1, <2>2 DEF slots, Process, Live
  <1>5. Owned'
    <2> SUFFICES ASSUME clean PROVE OnlyWriter' /\ (\A q \in Requests : Work(q)') /\ Running' /\ NoWorkLeft'
      BY <1>1 DEF Owned
    <2> QED BY <1>1 DEF store, slots, IOwn, Owned, OnlyWriter, Work, Running, NoWorkLeft, DrainedOld
  <1> QED BY <1>2, <1>3, <1>4, <1>5 DEF IOwn

LEMMA StartStandbyOwn == ASSUME IOwn, StartStandby PROVE IOwn'
  <1> DEFINE s == script.next
  <1>1. /\ script' \in Scripts /\ script'.next # script'.cur
        /\ script.pc = "start" /\ script'.pc = "health" /\ script'.cur = script.cur /\ script'.next = s
    BY StepScript DEF StartStandby, IOwn, PCs, ToOld, ToNew, Back
  <1>2. s \in Slots /\ script.cur \in Slots /\ s # script.cur /\ writer = script.cur /\ Fresh(s)
    BY <1>1 DEF StartStandby, next, IOwn, Typed, Scripts, Roles, ToOld
  <1>3. /\ call' \in [Requests -> CallRecs]
        /\ \A r \in Requests :
              /\ call'[r].slot = call[r].slot
              /\ call[r].slot # s => call'[r].pc = call[r].pc
              /\ call[r].slot = s => call'[r].pc \notin {"checked", "counted", "serving", "noted"}
              /\ call'[r].slot = None <=> call'[r].pc = "new"
    BY <1>2, EndedSlot DEF IOwn
  <1>4. /\ mem' \in [Slots -> SUBSET Requests] /\ mem'[s] = {}
        /\ \A t \in Slots : t # s => mem'[t] = mem[t] /\ reload'[t] = reload[t] /\ save'[t] = save[t]
                                      /\ drain'[t] = drain[t]
        /\ reload' \in [Slots -> BOOLEAN] /\ ~reload'[s]
        /\ save' \in [Slots -> Saves] /\ save'[s] = NoSave
        /\ drain' \in [Slots -> Drains] /\ drain'[s] = "none"
        /\ dirty' \in [Slots -> BOOLEAN] /\ lost' \in SUBSET Requests
    BY <1>2, EndedSlotState DEF IOwn
  <1>5. /\ proc' \in [Slots -> Procs] /\ proc'[s] = "booting" /\ \A t \in Slots : t # s => proc'[t] = proc[t]
        /\ wanted' \in [Slots -> BOOLEAN] /\ clean' \in BOOLEAN /\ UNCHANGED <<store, ops, quiesced>>
    BY <1>2 DEF StartStandby, next, IOwn, Typed, Procs, Knows
  <1> HIDE DEF s
  <1>6. Typed' BY <1>1, <1>3, <1>4, <1>5 DEF store, ops, IOwn, Typed
  <1>7. Roles' BY <1>1, <1>2, <1>5 DEF store, IOwn, Roles, ToOld, ToNew, Back
  <1>8. Processes'
    <2> SUFFICES ASSUME NEW t \in Slots PROVE Process(t)'
      BY DEF Processes
    <2>1. Process(t) BY DEF IOwn, Processes
    <2>2. CASE t = s BY <1>3, <1>4, <1>5, <2>2 DEF Process, Live, Unused, NoSave
    <2>3. CASE t # s
      <3>1. Unused(t) => Unused(t)' BY <1>3, <2>3 DEF Unused
      <3> QED BY <1>1, <1>4, <1>5, <2>1, <2>3, <3>1 DEF Process, Live
    <2> QED BY <2>2, <2>3
  <1>9. Owned'
    <2>1. \A t \in Slots : t # s => t = writer BY <1>2, TwoSlots
    <2>2. OnlyWriter' BY <1>5, <2>1 DEF store, OnlyWriter
    <2>3. ASSUME NEW q \in Requests PROVE Work(q)'
      <3>1. call'[q].slot \in Slots \cup {None} BY <1>3 DEF CallRecs
      <3> QED BY <1>3, <1>5, <2>1, <3>1 DEF store, Work
    <2>4. Running' /\ NoWorkLeft' BY <1>1 DEF Running, NoWorkLeft, DrainedOld
    <2> QED BY <2>2, <2>3, <2>4 DEF Owned
  <1> QED BY <1>6, <1>7, <1>8, <1>9 DEF IOwn

LEMMA FailOwn == ASSUME IOwn, Fail PROVE IOwn'
  <1>1. /\ script' \in Scripts /\ script'.next # script'.cur /\ script'.pc = "rbUp"
        /\ script'.cur = script.cur /\ script'.next = script.next
        /\ script.pc \in MayFail /\ (script.pc = "activating" => ~reload[script.next])
        /\ drain' = [drain EXCEPT ![script.cur] = "none"] /\ clean' = FALSE
        /\ UNCHANGED <<store, ops, proc, wanted, quiesced, dirty, mem, reload, save, call, lost>>
    BY DEF Fail, cur, next, IOwn, Typed, Scripts, PCs, Back
  <1>2. Typed'
    <2>1. drain' \in [Slots -> Drains] BY <1>1 DEF IOwn, Typed, Drains
    <2> QED BY <1>1, <2>1 DEF store, ops, IOwn, Typed
  <1>3. Roles' BY <1>1 DEF store, IOwn, Roles, ToOld, ToNew, Back
  <1>4. Processes'
    <2> SUFFICES ASSUME NEW t \in Slots PROVE Process(t)'
      BY DEF Processes
    <2>1. Process(t) BY DEF IOwn, Processes
    <2>2. Unused(t) => Unused(t)' BY <1>1 DEF Unused
    <2>3. drain'[t] = "none" BY <1>1, <2>1 DEF IOwn, Typed, Process
    <2> QED BY <1>1, <2>1, <2>2, <2>3 DEF Process, Live, MayFail
  <1>5. Owned' BY <1>1 DEF Owned
  <1> QED BY <1>2, <1>3, <1>4, <1>5 DEF IOwn

LEMMA StepOwn == IOwn /\ [Next]_vars => IOwn'
  <1> SUFFICES ASSUME IOwn, [Next]_vars PROVE IOwn'
    OBVIOUS
  <1>1. ASSUME NEW r \in Requests, RequestStep(r) PROVE IOwn'
    BY <1>1, ArriveOwn, CountOwn, RecheckOwn, NoteOwn, LeaveOwn DEF RequestStep
  <1>2. ASSUME NEW s \in Slots, SlotStep(s) PROVE IOwn'
    BY <1>2, SaverFiresOwn, FinishSaveOwn, BackgroundNoteOwn, QuiesceSavesOwn, ActivateEndsOwn, CrashOwn, BootOwn,
       ListenOwn, ExitOwn, KilledOwn DEF SlotStep
  <1>3. CASE Script
    <2>1. CASE \/ Deploy \/ Claim \/ Ask \/ StartStandby \/ Health \/ PostQuiesce \/ QuiesceAnswered
               \/ HandOver \/ PostActivate \/ WaitReady \/ Flip \/ Prove \/ StopOld \/ LastProof
      BY <2>1, DeployOwn, ClaimOwn, AskOwn, StartStandbyOwn, HealthOwn, PostQuiesceOwn, QuiesceAnsweredOwn,
         HandOverOwn, PostActivateOwn, WaitReadyOwn, FlipOwn, ProveOwn, StopOldOwn, LastProofOwn
    <2>2. CASE \/ Fail \/ RollbackUp \/ RollbackWriter \/ RollbackDies \/ RollbackActivate
               \/ RollbackSkips \/ RollbackEdge \/ RollbackFile
      BY <2>2, FailOwn, RollbackUpOwn, RollbackWriterOwn, RollbackDiesOwn, RollbackActivateOwn, RollbackSkipsOwn,
         RollbackEdgeOwn, RollbackFileOwn
    <2> QED BY <1>3, <2>1, <2>2 DEF Script
  <1>4. CASE WorkerEnds BY <1>4, WorkerEndsOwn
  <1>5. CASE UNCHANGED vars
    <2>1. UNCHANGED <<store, ops, slots, call, script, ghosts>> BY <1>5 DEF vars
    <2>2. Typed' /\ Roles' BY <2>1 DEF store, ops, slots, ghosts, IOwn, Typed, Roles
    <2>3. Processes' BY <2>1 DEF slots, IOwn, Processes, Process, Live, Unused
    <2>4. Owned'
      BY <2>1 DEF store, slots, ghosts, IOwn, Owned, OnlyWriter, Work, Running, NoWorkLeft, DrainedOld
    <2> QED BY <2>2, <2>3, <2>4 DEF IOwn
  <1> QED BY <1>1, <1>2, <1>3, <1>4, <1>5 DEF Next

LEMMA OwnInvariant == Spec => []IOwn
  BY InitOwn, StepOwn, PTL DEF Spec

\* The slots' states are those their processes reach, and without a crash or a failed step only
\* the slot that owns the document works on a request (data_plane_middleware, the handoff routes
\* and the script's order).
THEOREM OneSlot == Spec => []OneSlotServes
  <1>1. IOwn => OneSlotServes
    <2> SUFFICES ASSUME IOwn PROVE OneSlotServes
      OBVIOUS
    <2>1. TypeOK
      BY DEF IOwn, Typed, TypeOK, Procs, Drains, Saves, CallRecs, Places
    <2>2. OwnerServes BY DEF IOwn, Owned, Work, OwnerServes
    <2> QED BY <2>1, <2>2 DEF OneSlotServes
  <1> QED BY <1>1, OwnInvariant, PTL

----------------------------------------------------------------------------
(* Where the outcomes are.                                                 *)

LEMMA StillAccounted ==
    ASSUME Accounted, \A r \in Requests : Noted(r)' => Noted(r),
           \A r \in Requests, s \in Slots :
              (r \in doc \/ (Live(s) /\ r \in mem[s])) /\ r \notin lost' => r \in doc' \/ (Live(s)' /\ r \in mem'[s])
    PROVE  Accounted'
  <1> SUFFICES ASSUME NEW r \in Requests, Noted(r)'
               PROVE  r \in doc' \/ \E s \in Slots : Live(s)' /\ r \in mem'[s]
    BY DEF Accounted
  <1>1. Noted(r) /\ r \notin lost' BY DEF Noted
  <1>2. CASE r \in doc
    <2>1. PICK s \in Slots : TRUE BY TwoSlots, FS_EmptySet, SlotsAssumption
    <2> QED BY <1>1, <1>2, <2>1
  <1>3. CASE r \notin doc
    <2>1. PICK s \in Slots : Live(s) /\ r \in mem[s] BY <1>1, <1>3 DEF Accounted
    <2> QED BY <1>1, <2>1
  <1> QED BY <1>2, <1>3

LEMMA SameAccounted ==
    ASSUME Accounted, \A r \in Requests : Noted(r)' => Noted(r), UNCHANGED <<doc, mem>>,
           \A s \in Slots : Live(s) => Live(s)'
    PROVE  Accounted'
  BY DEF Accounted

LEMMA AtNoted ==
    ASSUME Typed, NEW r \in Requests, NEW s \in Slots, NEW pc \in Places \ {"new"}, At(r, s, pc),
           pc = "answered" => call[r].pc = "noted", pc # "noted", UNCHANGED lost
    PROVE  \A q \in Requests : Noted(q)' => Noted(q)
  BY AtCall DEF Noted

LEMMA SameKnown ==
    ASSUME Known, \A r \in Requests : Noted(r)' => Noted(r), Closed',
           UNCHANGED <<doc, mem, save, drain, reload, writer, script, clean>>,
           dirty'[script.next] => dirty[script.next],
           proc'[script.next] = proc[script.next] \/ proc'[script.next] \in {"loaded", "up"}
    PROVE  Known'
  <1> SUFFICES ASSUME clean PROVE WriterKnows' /\ DocumentKnows' /\ Untouched'
    BY DEF Known
  <1>1. Reading' <=> Reading BY DEF Reading
  <1>2. \A known : AllIn(known) => \A r \in Requests : Noted(r)' => r \in known BY DEF AllIn
  <1>3. WriterKnows' BY <1>1, <1>2 DEF Known, WriterKnows, Knows, AllIn
  <1>4. DocumentKnows' BY <1>1, <1>2 DEF Known, DocumentKnows, AllIn
  <1>5. Untouched' BY <1>1 DEF Known, Untouched, Standby
  <1> QED BY <1>3, <1>4, <1>5

LEMMA Kept == ASSUME UNCHANGED <<call, lost>> PROVE \A r \in Requests : Noted(r)' => Noted(r)
  BY DEF Noted

LEMMA EndedKept == ASSUME Typed, NEW s \in Slots, Fresh(s) PROVE \A r \in Requests : Noted(r)' => Noted(r)
  BY EndedSlot, EndedSlotState DEF Noted

LEMMA EndedAccounted ==
    ASSUME Typed, Accounted, NEW s \in Slots, Fresh(s), UNCHANGED doc,
           \A t \in Slots : t # s /\ Live(t) => Live(t)'
    PROVE  Accounted'
  BY EndedKept, EndedSlotState, StillAccounted

----------------------------------------------------------------------------
(* The requests.                                                           *)

LEMMA ArriveAll == ASSUME IInv, NEW r \in Requests, Arrive(r) PROVE Accounted' /\ Known'
  <1>1. PICK s \in Slots, pc \in {"checked", "gone"} : At(r, s, pc)
    BY DEF Arrive, Listening, IInv, IOwn, Typed
  <1>2. \A q \in Requests : Noted(q)' => Noted(q)
    BY <1>1, AtNoted DEF Arrive, ghosts, IInv, IOwn, Places
  <1>3. Closed' \/ ~clean
    BY <1>1, AtCall DEF Arrive, store, slots, ghosts, IInv, IOwn, Places, Known, Closed, Reading
  <1> QED BY <1>2, <1>3, SameAccounted, SameKnown DEF Arrive, store, slots, ghosts, IInv, Known, Live

LEMMA CountAll == ASSUME IInv, NEW r \in Requests, Count(r) PROVE Accounted' /\ Known'
  <1>1. call[r].slot \in Slots BY DEF Count, IInv, IOwn, Typed, CallRecs
  <1>2. \A q \in Requests : Noted(q)' => Noted(q)
    BY <1>1, AtNoted DEF Count, ghosts, IInv, IOwn, Places
  <1>3. Closed' \/ ~clean
    BY <1>1, AtCall DEF Count, store, slots, ghosts, IInv, IOwn, Places, Known, Closed, Reading
  <1> QED BY <1>2, <1>3, SameAccounted, SameKnown DEF Count, store, slots, ghosts, IInv, Known, Live

LEMMA RecheckAll == ASSUME IInv, NEW r \in Requests, Recheck(r) PROVE Accounted' /\ Known'
  <1>1. call[r].slot \in Slots /\ call[r].pc = "counted" BY DEF Recheck, IInv, IOwn, Typed, CallRecs
  <1>2. PICK pc \in {"serving", "gone"} : At(r, call[r].slot, pc) /\ (pc = "serving" => ~quiesced[call[r].slot])
    BY DEF Recheck, SecondCheck
  <1>3. \A q \in Requests : Noted(q)' => Noted(q)
    BY <1>1, <1>2, AtNoted DEF Recheck, ghosts, IInv, IOwn, Places
  <1>4. clean /\ Reading => quiesced[call[r].slot]
    <2>1. Reading => writer = script.next BY DEF Reading, IInv, IOwn, Roles, ToNew
    <2> QED BY <1>1, <2>1 DEF IInv, IOwn, Owned, Work, Known, Closed
  <1>5. Closed' \/ ~clean
    BY <1>1, <1>2, <1>4, AtCall DEF Recheck, store, slots, ghosts, IInv, IOwn, Places, Known, Closed, Reading
  <1> QED BY <1>3, <1>5, SameAccounted, SameKnown DEF Recheck, store, slots, ghosts, IInv, Known, Live

LEMMA LeaveAll == ASSUME IInv, NEW r \in Requests, Leave(r) PROVE Accounted' /\ Known'
  <1>1. call[r].slot \in Slots BY DEF Leave, IInv, IOwn, Typed, CallRecs
  <1>2. PICK pc \in {"answered", "gone"} : At(r, call[r].slot, pc) /\ (pc = "answered" => call[r].pc = "noted")
    BY DEF Leave
  <1>3. \A q \in Requests : Noted(q)' => Noted(q)
    BY <1>1, <1>2, AtNoted DEF Leave, ghosts, IInv, IOwn, Places
  <1>4. Closed' \/ ~clean
    BY <1>1, <1>2, AtCall DEF Leave, store, slots, ghosts, IInv, IOwn, Places, Known, Closed, Reading
  <1> QED BY <1>3, <1>4, SameAccounted, SameKnown DEF Leave, store, slots, ghosts, IInv, Known, Live

LEMMA NoteAll == ASSUME IInv, NEW r \in Requests, Note(r) PROVE Accounted' /\ Known'
  <1> DEFINE s == call[r].slot
  <1>1. call[r].pc = "serving" /\ s \in Slots BY DEF Note, IInv, IOwn, Typed, CallRecs
  <1>2. /\ call'[r].pc = "noted" /\ call'[r].slot = s /\ \A q \in Requests : q # r => call'[q] = call[q]
    BY <1>1, AtCall DEF Note, IInv, IOwn, Places
  <1>3. /\ UNCHANGED <<doc, writer, proc, script, clean, save, drain, reload, quiesced>>
        /\ \A t \in Slots : mem[t] \subseteq mem'[t] /\ (t # s => mem'[t] = mem[t] /\ dirty'[t] = dirty[t])
        /\ \A t \in Slots : mem'[t] \subseteq mem[t] \cup {r}
        /\ ~reload[s] => r \in mem'[s] /\ lost' = lost
        /\ reload[s] => r \in lost'
        /\ lost \subseteq lost'
    BY <1>1 DEF Note, store, IInv, IOwn, Typed
  <1>4. Live(s) BY <1>1 DEF IInv, IOwn, Processes, Process, Unused
  <1> HIDE DEF s
  <1>5. \A q \in Requests : Noted(q)' => Noted(q) \/ (q = r /\ ~reload[s])
    BY <1>2, <1>3 DEF Noted
  <1>6. Accounted' BY <1>1, <1>3, <1>4, <1>5 DEF Accounted, IInv, Live
  <1>7. Known'
    <2> SUFFICES ASSUME clean PROVE WriterKnows' /\ DocumentKnows' /\ Untouched' /\ Closed'
      BY <1>3 DEF Known
    <2>1. s = writer /\ ~Reading
      BY <1>1 DEF s, IInv, IOwn, Owned, Work, Known, Closed
    <2>2. ~Reading' BY <1>3, <2>1 DEF Reading
    <2>3. Knows(writer)' BY <1>1, <1>3, <2>1 DEF IInv, Known, WriterKnows, Knows
    <2>4. ~reload[s] BY <1>1, <2>1 DEF IInv, IOwn, Processes, Process, Roles, Back, Reading
    <2>5. AllIn(mem[writer])' BY <1>1, <1>3, <1>5, <2>1, <2>4 DEF IInv, Known, WriterKnows, AllIn
    <2>6. ~DrainedOld
      <3>1. script.pc \in {"draining", "handover"} => s = script.cur
        BY <2>1 DEF IInv, IOwn, Roles, ToOld
      <3> QED BY <1>1, <3>1 DEF s, IInv, IOwn, Owned, NoWorkLeft, DrainedOld
    <2>7. DocumentKnows' BY <1>3, <2>2, <2>6 DEF DocumentKnows, DrainedOld
    <2>8. Untouched'
      <3>1. Standby => script.next # s /\ script.next \in Slots
        BY <2>1 DEF Standby, IInv, IOwn, Typed, Roles, ToOld, Scripts
      <3> QED BY <1>3, <2>1, <2>2, <3>1 DEF IInv, Known, Untouched, Standby
    <2>9. Closed' BY <2>2 DEF Closed
    <2> QED BY <2>2, <2>3, <2>5, <2>7, <2>8, <2>9 DEF WriterKnows
  <1> QED BY <1>6, <1>7

----------------------------------------------------------------------------
(* The slots.                                                              *)

LEMMA SaverFiresAll == ASSUME IInv, ~StandbyUsed, NEW s \in Slots, SaverFires(s) PROVE Accounted' /\ Known'
  <1>1. /\ save[s] = NoSave /\ dirty[s]
        /\ save'[s].by = "timer" /\ save'[s].doc = mem[s] /\ save'[s] # NoSave
        /\ \A t \in Slots : t # s => save'[t] = save[t] /\ dirty'[t] = dirty[t]
        /\ UNCHANGED <<doc, writer, proc, mem, reload, drain, script, clean, call, lost, quiesced>>
    BY StartedSave DEF SaverFires, IInv, IOwn, store, ghosts
  <1>2. Accounted' BY <1>1, Kept, SameAccounted DEF IInv, Live
  <1>3. Known'
    <2> SUFFICES ASSUME clean PROVE WriterKnows' /\ DocumentKnows' /\ Untouched' /\ Closed'
      BY <1>1 DEF Known
    <2>1. (Reading' <=> Reading) /\ (Standby' <=> Standby) /\ Closed'
      BY <1>1 DEF Reading, Standby, Closed, IInv, Known
    <2>2. \A known : AllIn(known) => AllIn(known)' BY <1>1 DEF AllIn, Noted
    <2>3. script.next \in Slots /\ script.cur \in Slots /\ writer \in Slots BY DEF IInv, IOwn, Typed, Scripts
    <2>4. WriterKnows'
      <3>1. CASE s = writer BY <1>1, <2>1, <2>2, <3>1 DEF IInv, Known, WriterKnows, Knows, AllIn, Noted
      <3>2. CASE s # writer BY <1>1, <2>1, <2>2, <2>3, <3>2 DEF IInv, Known, WriterKnows, Knows, AllIn, Noted
      <3> QED BY <3>1, <3>2
    <2>5. script.pc = "draining" /\ drain[script.cur] = "saving" => s # script.cur
      BY <1>1, <2>3 DEF IInv, IOwn, Processes, Process, NoSave
    <2>6. DocumentKnows' BY <1>1, <2>1, <2>3, <2>5 DEF IInv, Known, DocumentKnows, AllIn, Noted
    <2>7. Untouched' BY <1>1, <2>1, <2>3 DEF IInv, Known, Untouched
    <2> QED BY <2>1, <2>4, <2>6, <2>7
  <1> QED BY <1>2, <1>3

LEMMA QuiesceSavesAll == ASSUME IInv, NEW s \in Slots, QuiesceSaves(s) PROVE Accounted' /\ Known'
  <1>1. /\ save[s] = NoSave
        /\ save'[s].by = "quiesce" /\ save'[s].doc = mem[s] /\ save'[s] # NoSave
        /\ \A t \in Slots : t # s => save'[t] = save[t] /\ dirty'[t] = dirty[t]
        /\ drain[s] = "waiting" /\ drain'[s] = "saving"
        /\ UNCHANGED <<doc, writer, proc, mem, reload, script, clean, call, lost, quiesced>>
    BY StartedSave DEF QuiesceSaves, IInv, IOwn, Typed, store, ghosts
  <1>2. Accounted' BY <1>1, Kept, SameAccounted DEF IInv, Live
  <1>3. Known'
    <2> SUFFICES ASSUME clean PROVE WriterKnows' /\ DocumentKnows' /\ Untouched' /\ Closed'
      BY <1>1 DEF Known
    <2>1. script.pc = "draining" /\ s = script.cur /\ s = writer /\ s # script.next /\ script.next \in Slots
      BY <1>1 DEF IInv, IOwn, Typed, Scripts, Processes, Process, Roles, ToOld
    <2>2. ~Reading' /\ ~Reading BY <1>1, <2>1 DEF Reading
    <2>3. AllIn(mem[s]) /\ AllIn(mem[s])' BY <1>1, <2>1, <2>2 DEF IInv, Known, WriterKnows, AllIn, Noted
    <2>4. WriterKnows' BY <1>1, <2>1, <2>2, <2>3 DEF IInv, Known, WriterKnows, Knows
    <2>5. DocumentKnows' BY <1>1, <2>1, <2>2, <2>3 DEF DocumentKnows, AllIn, Noted
    <2>6. Untouched' BY <1>1, <2>1 DEF IInv, Known, Untouched, Standby
    <2> QED BY <2>2, <2>4, <2>5, <2>6 DEF Closed
  <1> QED BY <1>2, <1>3

LEMMA ExitAll == ASSUME IInv, NEW s \in Slots, Exit(s) PROVE Accounted' /\ Known'
  <1>1. /\ save[s] = NoSave /\ proc[s] = "leaving"
        /\ \A t \in Slots : t # s => save'[t] = save[t] /\ dirty'[t] = dirty[t]
        /\ UNCHANGED <<doc, writer, proc, mem, reload, drain, script, clean, call, lost, quiesced>>
    BY StartedSave DEF Exit, IInv, IOwn, store, ghosts
  <1>2. Accounted' BY <1>1, Kept, SameAccounted DEF IInv, Live
  <1>3. Known'
    <2> SUFFICES ASSUME clean PROVE WriterKnows' /\ DocumentKnows' /\ Untouched' /\ Closed'
      BY <1>1 DEF Known
    <2>1. script.pc = "last" /\ s # writer /\ writer \in Slots
      BY <1>1 DEF IInv, IOwn, Typed, Processes, Process, Roles, ToNew, Back
    <2>2. ~Reading' /\ ~Reading /\ ~Standby' BY <1>1, <2>1 DEF Reading, Standby
    <2>3. WriterKnows' BY <1>1, <2>1, <2>2 DEF IInv, Known, WriterKnows, Knows, AllIn, Noted
    <2>4. DocumentKnows' BY <1>1, <2>1, <2>2 DEF DocumentKnows
    <2>5. Untouched' BY <1>1, <2>1, <2>2 DEF Untouched
    <2> QED BY <2>2, <2>3, <2>4, <2>5 DEF Closed
  <1> QED BY <1>2, <1>3

LEMMA BackgroundNoteAll ==
    ASSUME IInv, ~StandbyUsed, NEW s \in Slots, BackgroundNote(s) PROVE Accounted' /\ Known'
  <1>1. UNCHANGED <<doc, writer, proc, mem, reload, save, drain, script, clean, call, lost, quiesced>>
    BY DEF BackgroundNote, store, ghosts
  <1>2. Accounted' BY <1>1, Kept, SameAccounted DEF IInv, Live
  <1>3. Known'
    <2> SUFFICES ASSUME clean PROVE WriterKnows' /\ DocumentKnows' /\ Untouched' /\ Closed'
      BY <1>1 DEF Known
    <2>1. (Reading' <=> Reading) /\ (Standby' <=> Standby) /\ Closed'
      BY <1>1 DEF Reading, Standby, Closed, IInv, Known
    <2>2. WriterKnows' BY <1>1, <2>1 DEF IInv, Known, WriterKnows, Knows, AllIn, Noted
    <2>3. DocumentKnows' BY <1>1, <2>1 DEF IInv, Known, DocumentKnows, AllIn, Noted
    <2>4. Standby => s # script.next
      <3> SUFFICES ASSUME Standby, s = script.next PROVE FALSE
        OBVIOUS
      <3>1. proc[s] = "up" /\ ~quiesced[s]
        BY DEF BackgroundNote, IInv, IOwn, Typed
      <3>2. s = writer BY <3>1 DEF IInv, IOwn, Owned, OnlyWriter
      <3>3. Reading BY <3>2 DEF Standby, IInv, IOwn, Typed, Roles, ToOld
      <3> QED BY <3>1, <3>3 DEF IInv, Known, Closed
    <2>5. Untouched' BY <1>1, <2>1, <2>4 DEF BackgroundNote, IInv, IOwn, Typed, Scripts, Known, Untouched
    <2> QED BY <2>1, <2>2, <2>3, <2>5
  <1> QED BY <1>2, <1>3

LEMMA ActivateEndsAll == ASSUME IInv, NEW s \in Slots, ActivateEnds(s) PROVE Accounted' /\ Known'
  <1>1. /\ reload[s] /\ mem'[s] = doc /\ ~reload'[s]
        /\ \A t \in Slots : t # s => mem'[t] = mem[t]
        /\ UNCHANGED <<doc, writer, proc, dirty, save, drain, script, clean, call, lost>>
    BY DEF ActivateEnds, ReadBack, store, ghosts, IInv, IOwn, Typed
  <1>2. mem[s] = {} BY <1>1 DEF IInv, IOwn, Processes, Process
  <1>3. Accounted' BY <1>1, <1>2, Kept, StillAccounted DEF IInv, Live
  <1>4. Known'
    <2> SUFFICES ASSUME clean PROVE WriterKnows' /\ DocumentKnows' /\ Untouched' /\ Closed'
      BY <1>1 DEF Known
    <2>1. script.pc = "activating" /\ s = script.next /\ s = writer
      BY <1>1 DEF IInv, IOwn, Processes, Process, Roles, ToNew, Back
    <2>2. Reading /\ Standby /\ ~Reading' /\ ~Standby' BY <1>1, <2>1 DEF Reading, Standby
    <2>3. AllIn(doc)' BY <1>1, <2>2 DEF IInv, Known, DocumentKnows, AllIn, Noted
    <2>4. WriterKnows' BY <1>1, <2>1, <2>2, <2>3 DEF IInv, Known, Untouched, WriterKnows, Knows, AllIn, NoSave
    <2> QED BY <1>1, <2>1, <2>2, <2>4 DEF DocumentKnows, Untouched, Closed
  <1> QED BY <1>3, <1>4

LEMMA CrashAll == ASSUME IInv, NEW s \in Slots, Crash(s) PROVE Accounted' /\ Known'
  <1>1. Accounted'
    <2>1. \A t \in Slots : t # s => proc'[t] = proc[t] BY DEF Crash, IInv, IOwn, Typed
    <2> QED BY <2>1, EndedAccounted DEF Crash, store, IInv, IOwn, Live
  <1>2. Known' BY DEF Crash, Known
  <1> QED BY <1>1, <1>2

LEMMA KilledAll == ASSUME IInv, NEW s \in Slots, Killed(s) PROVE Accounted' /\ Known'
  <1>1. /\ \A t \in Slots : t # s => proc'[t] = proc[t] /\ mem'[t] = mem[t] /\ save'[t] = save[t]
        /\ proc[s] = "leaving" /\ UNCHANGED <<doc, writer, script, clean, quiesced>>
    BY EndedSlotState DEF Killed, store, IInv, IOwn, Typed
  <1>2. Accounted' BY <1>1, EndedAccounted DEF Killed, IInv, IOwn, Live
  <1>3. Known'
    <2> SUFFICES ASSUME clean PROVE WriterKnows' /\ DocumentKnows' /\ Untouched' /\ Closed'
      BY <1>1 DEF Known
    <2>1. script.pc = "last" /\ s # writer /\ writer \in Slots
      BY <1>1 DEF IInv, IOwn, Typed, Processes, Process, Roles, ToNew, Back
    <2>2. ~Reading' /\ ~Reading /\ ~Standby' BY <1>1, <2>1 DEF Reading, Standby
    <2>3. \A r \in Requests : Noted(r)' => Noted(r) BY EndedKept DEF Killed, IInv, IOwn
    <2>4. WriterKnows' BY <1>1, <2>1, <2>2, <2>3 DEF IInv, Known, WriterKnows, Knows, AllIn
    <2> QED BY <1>1, <2>1, <2>2, <2>4 DEF DocumentKnows, Untouched, Closed
  <1> QED BY <1>2, <1>3

LEMMA BootAll == ASSUME IInv, NEW s \in Slots, Boot(s) PROVE Accounted' /\ Known'
  <1>1. /\ proc[s] = "booting" /\ proc'[s] = "loaded" /\ mem'[s] = doc /\ (quiesced'[s] <=> writer # s)
        /\ \A t \in Slots : t # s => proc'[t] = proc[t] /\ mem'[t] = mem[t] /\ quiesced'[t] = quiesced[t]
        /\ UNCHANGED <<doc, writer, dirty, save, drain, reload, script, clean, call, lost>>
    BY DEF Boot, StandbyAtBoot, store, ghosts, IInv, IOwn, Typed
  <1>2. Accounted' BY <1>1, Kept, StillAccounted DEF IInv, Live
  <1>3. Known'
    <2> SUFFICES ASSUME clean PROVE WriterKnows' /\ DocumentKnows' /\ Untouched' /\ Closed'
      BY <1>1 DEF Known
    <2>1. (Reading' <=> Reading) /\ (Standby' <=> Standby) BY <1>1 DEF Reading, Standby
    <2>2. script.next \in Slots /\ script.cur \in Slots /\ writer \in Slots /\ script.next # script.cur
      BY DEF IInv, IOwn, Typed, Scripts
    <2>3. s = writer => script.pc \in {"health", "quiesce"} /\ s = script.cur
      BY <1>1 DEF IInv, IOwn, Owned, Running, Roles, ToOld
    <2>4. save[s] = NoSave BY <1>1 DEF IInv, IOwn, Processes, Process, Live
    <2>5. ASSUME s = writer PROVE AllIn(doc)'
      <3>1. Standby /\ \A t \in Slots : t # s => t = script.next BY <2>2, <2>3, <2>5, TwoSlots DEF Standby
      <3>2. ~Live(s) BY <1>1 DEF Live
      <3> QED BY <1>1, <3>1, <3>2 DEF IInv, Accounted, Known, Untouched, AllIn, Noted
    <2>6. WriterKnows'
      <3>1. CASE s = writer BY <1>1, <2>4, <2>5, <3>1 DEF WriterKnows, Knows, AllIn, NoSave
      <3>2. CASE s # writer BY <1>1, <2>1, <2>2, <3>2 DEF IInv, Known, WriterKnows, Knows, AllIn, Noted
      <3> QED BY <3>1, <3>2
    <2>7. DocumentKnows' BY <1>1, <2>1 DEF IInv, Known, DocumentKnows, AllIn, Noted
    <2>8. Untouched' BY <1>1, <2>1, <2>2 DEF IInv, Known, Untouched
    <2>9. Closed'
      <3>1. Reading => s # script.next BY <1>1, <2>3 DEF Reading, IInv, IOwn, Roles, ToNew
      <3> QED BY <1>1, <2>1, <2>2, <3>1 DEF IInv, Known, Closed
    <2> QED BY <2>6, <2>7, <2>8, <2>9
  <1> QED BY <1>2, <1>3

LEMMA ListenAll == ASSUME IInv, NEW s \in Slots, Listen(s) PROVE Accounted' /\ Known'
  <1>1. /\ proc'[s] = "up" /\ proc[s] = "loaded" /\ \A t \in Slots : t # s => proc'[t] = proc[t]
        /\ UNCHANGED <<doc, writer, mem, dirty, save, drain, reload, script, clean, call, lost, quiesced>>
    BY DEF Listen, store, ghosts, IInv, IOwn, Typed
  <1>2. Accounted' BY <1>1, Kept, SameAccounted DEF IInv, Live
  <1>3. script.next \in Slots BY DEF IInv, IOwn, Typed, Scripts
  <1>4. clean => Closed' BY <1>1 DEF IInv, Known, Closed, Reading
  <1> QED BY <1>1, <1>2, <1>3, <1>4, Kept, SameKnown DEF IInv, Known

LEMMA FinishSaveAll ==
    ASSUME IInv, NEW s \in Slots, FinishSave(s)
    PROVE  Accounted' /\ Known' /\ (clean => doc \subseteq doc')
  <1>1. /\ save[s] # NoSave /\ save'[s] = NoSave
        /\ doc' = IF writer = s THEN save[s].doc ELSE doc
        /\ \A t \in Slots : t # s => save'[t] = save[t] /\ drain'[t] = drain[t] /\ dirty'[t] = dirty[t]
                                     /\ proc'[t] = proc[t] /\ mem'[t] = mem[t]
        /\ drain'[s] # drain[s] => drain[s] = "saving" /\ (drain'[s] = "ok" => writer = s)
        /\ drain'[s] # "saving"
        /\ UNCHANGED <<writer, script, clean, call, reload, quiesced>>
        /\ lost' = IF clean THEN lost ELSE lost \cup ((doc \cup mem[s]) \ (doc' \cup mem'[s]))
    BY DEF FinishSave, MayWrite, IInv, IOwn, Typed, Processes, Process
  <1>2. \/ save[s].by # "exit" /\ proc' = proc /\ mem' = mem
        \/ /\ save[s].by = "exit" /\ proc[s] = "leaving" /\ mem'[s] = {}
           /\ script.pc \in {"last", "rbUp"} /\ s = script.cur
    BY DEF FinishSave, IInv, IOwn, Typed, Processes, Process
  <1>3. \A r \in Requests : Noted(r)' => Noted(r) BY <1>1 DEF Noted
  <1>4. CASE ~clean
    <2>1. Known' BY <1>1, <1>4 DEF Known
    <2>2. ASSUME NEW r \in Requests, NEW t \in Slots, r \in doc \/ (Live(t) /\ r \in mem[t]), r \notin lost'
          PROVE  r \in doc' \/ \E u \in Slots : Live(u)' /\ r \in mem'[u]
      <3>1. CASE t # s /\ r \notin doc BY <1>1, <2>2, <3>1 DEF Live
      <3>2. CASE r \in doc \/ t = s
        <4>1. r \in doc' \cup mem'[s] BY <1>1, <1>4, <2>2, <3>2
        <4>2. r \in mem'[s] => proc' = proc /\ mem' = mem BY <1>2
        <4>3. Live(s) BY <1>1 DEF IInv, IOwn, Processes, Process
        <4> QED BY <4>1, <4>2, <4>3 DEF Live
      <3> QED BY <3>1, <3>2
    <2>3. Accounted'
      <3> SUFFICES ASSUME NEW r \in Requests, Noted(r)'
                   PROVE  r \in doc' \/ \E u \in Slots : Live(u)' /\ r \in mem'[u]
        BY DEF Accounted
      <3>1. r \notin lost' BY DEF Noted
      <3> QED BY <1>3, <2>2, <3>1 DEF IInv, Accounted
    <2> QED BY <1>4, <2>1, <2>3
  <1>5. CASE clean
    <2>1. script.next \in Slots /\ script.cur \in Slots /\ writer \in Slots /\ script.next # script.cur
      BY DEF IInv, IOwn, Typed, Scripts
    <2>2. Standby => s # script.next BY <1>1, <1>5 DEF IInv, Known, Untouched
    <2>3. ~Reading \/ s # writer
      BY <2>2 DEF Standby, Reading, IInv, IOwn, Roles, ToNew
    <2>4. doc \subseteq doc' BY <1>1, <1>5, <2>3 DEF IInv, Known, WriterKnows, Knows
    <2>5. save[s].by = "exit" => script.pc = "last" /\ s # writer /\ writer = script.next /\ proc[writer] = "up"
      BY <1>2, <1>5, <2>1 DEF IInv, IOwn, Roles, ToNew, Back, Owned, Running
    <2>6. Accounted'
      <3>1. CASE save[s].by # "exit" BY <1>1, <1>2, <1>3, <2>4, <3>1, StillAccounted DEF IInv, Live
      <3>2. CASE save[s].by = "exit"
        <4>1. AllIn(mem[writer]) BY <1>5, <2>5, <3>2 DEF IInv, Known, WriterKnows, Reading
        <4>2. Live(writer)' /\ mem'[writer] = mem[writer] BY <1>1, <2>1, <2>5, <3>2 DEF Live
        <4> QED BY <1>1, <1>3, <2>1, <4>1, <4>2 DEF Accounted, AllIn
      <3> QED BY <3>1, <3>2
    <2>7. (Reading' <=> Reading) /\ (Standby' <=> Standby) /\ Closed'
      BY <1>1, <1>5 DEF Reading, Standby, Closed, IInv, Known
    <2>8. WriterKnows'
      <3> SUFFICES ASSUME ~Reading PROVE Knows(writer)' /\ AllIn(mem[writer])'
        BY <2>7 DEF WriterKnows
      <3>1. Knows(writer) /\ AllIn(mem[writer]) BY <1>5 DEF IInv, Known, WriterKnows
      <3>2. mem'[writer] = mem[writer] BY <1>1, <1>2, <2>1, <2>5
      <3>3. AllIn(mem[writer])' BY <1>1, <1>3, <3>1, <3>2 DEF AllIn
      <3>4. CASE s = writer BY <1>1, <3>1, <3>2, <3>3, <3>4 DEF Knows, NoSave
      <3>5. CASE s # writer BY <1>1, <2>1, <3>1, <3>2, <3>3, <3>5 DEF Knows
      <3> QED BY <3>4, <3>5
    <2>9. DocumentKnows'
      <3>1. \A known : AllIn(known) /\ known \subseteq doc' => AllIn(doc)' BY <1>1, <1>3 DEF AllIn
      <3>2. ASSUME script.pc = "draining" PROVE script.cur = writer
        BY <3>2 DEF IInv, IOwn, Roles, ToOld
      <3>3. ASSUME script.pc = "draining", drain'[script.cur] = "ok" PROVE AllIn(doc)'
        <4>1. CASE drain[script.cur] = "ok" BY <1>5, <2>4, <3>1, <3>3, <4>1 DEF IInv, Known, DocumentKnows
        <4>2. CASE drain[script.cur] # "ok"
          <5>1. s = script.cur /\ drain[s] = "saving" BY <1>1, <2>1, <3>3, <4>2
          <5>2. AllIn(doc') BY <1>1, <1>5, <3>2, <3>3, <5>1 DEF IInv, Known, DocumentKnows
          <5> QED BY <3>1, <5>2
        <4> QED BY <4>1, <4>2
      <3>4. Reading \/ script.pc = "handover" => AllIn(doc)'
        BY <1>5, <2>4, <3>1 DEF IInv, Known, DocumentKnows
      <3>6. script' = script BY <1>1
      <3>7. (script.pc = "draining" /\ drain[script.cur] = "saving" => AllIn(save[script.cur].doc))'
        BY <1>1, <1>3, <1>5, <2>1, <3>6 DEF IInv, Known, DocumentKnows, AllIn
      <3> QED BY <2>7, <3>3, <3>4, <3>6, <3>7 DEF DocumentKnows
    <2>10. Untouched' BY <1>1, <1>2, <1>5, <2>1, <2>2, <2>4, <2>7 DEF IInv, Known, Untouched
    <2> QED BY <2>4, <2>6, <2>7, <2>8, <2>9, <2>10 DEF Known
  <1> QED BY <1>4, <1>5

----------------------------------------------------------------------------
(* The script.                                                             *)

LEMMA ClaimAll == ASSUME IInv, Claim PROVE Accounted' /\ Known'
  <1>1. script.pc = "claim" /\ script'.pc = "ask" /\ script'.cur = script.cur /\ script'.next = script.next
    BY StepScript DEF Claim, SetWriter, IInv, IOwn, PCs, ToOld, ToNew, Back
  <1>2. /\ UNCHANGED <<doc, proc, mem, dirty, save, drain, reload, clean, call, lost>>
        /\ clean => writer' = writer
    BY <1>1 DEF Claim, SetWriter, cur, store, slots, ghosts, IInv, IOwn, Roles, Step
  <1>3. Accounted' BY <1>2, Kept, SameAccounted DEF IInv, Live
  <1>4. Known'
    <2> SUFFICES ASSUME clean PROVE WriterKnows' /\ DocumentKnows' /\ Untouched' /\ Closed'
      BY <1>2 DEF Known
    <2>1. ~Reading /\ ~Reading' BY <1>1, <1>2 DEF Reading
    <2>2. WriterKnows' BY <1>2, <2>1 DEF IInv, Known, WriterKnows, Knows, AllIn, Noted
    <2>3. DocumentKnows' BY <1>1, <1>2, <2>1 DEF IInv, Known, DocumentKnows, AllIn, Noted
    <2>4. Untouched' BY <1>1, <1>2, <2>1 DEF IInv, Known, Untouched, Standby
    <2> QED BY <2>1, <2>2, <2>3, <2>4 DEF Closed
  <1> QED BY <1>3, <1>4

LEMMA AskAll == ASSUME IInv, Ask PROVE Accounted' /\ Known'
  <1>1. script.pc = "ask" /\ script'.pc = "start" /\ script'.cur = script.cur /\ script'.next = script.next
    BY StepScript DEF Ask, IInv, IOwn, PCs, ToOld, ToNew, Back
  <1>2. /\ UNCHANGED <<doc, writer, proc, mem, dirty, save, drain, reload, clean, call, lost>>
    BY <1>1 DEF Ask, store, slots, ghosts, IInv, IOwn, Step
  <1>3. Accounted' BY <1>2, Kept, SameAccounted DEF IInv, Live
  <1>4. Known'
    <2> SUFFICES ASSUME clean PROVE WriterKnows' /\ DocumentKnows' /\ Untouched' /\ Closed'
      BY <1>2 DEF Known
    <2>1. ~Reading /\ ~Reading' BY <1>1, <1>2 DEF Reading
    <2>2. WriterKnows' BY <1>2, <2>1 DEF IInv, Known, WriterKnows, Knows, AllIn, Noted
    <2>3. DocumentKnows' BY <1>1, <1>2, <2>1 DEF IInv, Known, DocumentKnows, AllIn, Noted
    <2>4. Untouched' BY <1>1, <1>2, <2>1 DEF IInv, Known, Untouched, Standby
    <2> QED BY <2>1, <2>2, <2>3, <2>4 DEF Closed
  <1> QED BY <1>3, <1>4

LEMMA HealthAll == ASSUME IInv, Health PROVE Accounted' /\ Known'
  <1>1. script.pc = "health" /\ script'.pc = "quiesce" /\ script'.cur = script.cur /\ script'.next = script.next
    BY StepScript DEF Health, IInv, IOwn, PCs, ToOld, ToNew, Back
  <1>2. /\ UNCHANGED <<doc, writer, proc, mem, dirty, save, drain, reload, clean, call, lost>>
    BY <1>1 DEF Health, Listening, next, store, slots, ghosts, IInv, IOwn, Step
  <1>3. Accounted' BY <1>2, Kept, SameAccounted DEF IInv, Live
  <1>4. Known'
    <2> SUFFICES ASSUME clean PROVE WriterKnows' /\ DocumentKnows' /\ Untouched' /\ Closed'
      BY <1>2 DEF Known
    <2>1. ~Reading /\ ~Reading' BY <1>1, <1>2 DEF Reading
    <2>2. WriterKnows' BY <1>2, <2>1 DEF IInv, Known, WriterKnows, Knows, AllIn, Noted
    <2>3. DocumentKnows' BY <1>1, <1>2, <2>1 DEF IInv, Known, DocumentKnows, AllIn, Noted
    <2>4. Untouched' BY <1>1, <1>2, <2>1 DEF Health, Listening, next, IInv, Known, Untouched, Standby
    <2> QED BY <2>1, <2>2, <2>3, <2>4 DEF Closed
  <1> QED BY <1>3, <1>4

LEMMA PostQuiesceAll == ASSUME IInv, PostQuiesce PROVE Accounted' /\ Known'
  <1>1. script.pc = "quiesce" /\ script'.pc = "draining" /\ script'.cur = script.cur /\ script'.next = script.next
    BY StepScript DEF PostQuiesce, IInv, IOwn, PCs, ToOld, ToNew, Back
  <1>2. /\ UNCHANGED <<doc, writer, proc, mem, dirty, save, reload, clean, call, lost>>
        /\ drain'[script.cur] = "waiting"
    BY <1>1 DEF PostQuiesce, cur, store, slots, ghosts, IInv, IOwn, Typed, Scripts, Step
  <1>3. Accounted' BY <1>2, Kept, SameAccounted DEF IInv, Live
  <1>4. Known'
    <2> SUFFICES ASSUME clean PROVE WriterKnows' /\ DocumentKnows' /\ Untouched' /\ Closed'
      BY <1>2 DEF Known
    <2>1. ~Reading /\ ~Reading' BY <1>1, <1>2 DEF Reading
    <2>2. WriterKnows' BY <1>2, <2>1 DEF IInv, Known, WriterKnows, Knows, AllIn, Noted
    <2>3. DocumentKnows' BY <1>1, <1>2, <2>1 DEF IInv, Known, DocumentKnows, AllIn, Noted
    <2>4. Untouched' BY <1>1, <1>2, <2>1 DEF IInv, Known, Untouched, Standby
    <2> QED BY <2>1, <2>2, <2>3, <2>4 DEF Closed
  <1> QED BY <1>3, <1>4

LEMMA QuiesceAnsweredAll == ASSUME IInv, QuiesceAnswered PROVE Accounted' /\ Known'
  <1>1. script.pc = "draining" /\ script'.pc = "handover" /\ script'.cur = script.cur /\ script'.next = script.next
    BY StepScript DEF QuiesceAnswered, IInv, IOwn, PCs, ToOld, ToNew, Back
  <1>2. /\ UNCHANGED <<doc, writer, proc, mem, dirty, save, reload, clean, call, lost>>
        /\ drain[script.cur] = "ok"
    BY <1>1 DEF QuiesceAnswered, cur, store, slots, ghosts, IInv, IOwn, Step
  <1>3. Accounted' BY <1>2, Kept, SameAccounted DEF IInv, Live
  <1>4. Known'
    <2> SUFFICES ASSUME clean PROVE WriterKnows' /\ DocumentKnows' /\ Untouched' /\ Closed'
      BY <1>2 DEF Known
    <2>1. ~Reading /\ ~Reading' BY <1>1, <1>2 DEF Reading
    <2>2. WriterKnows' BY <1>2, <2>1 DEF IInv, Known, WriterKnows, Knows, AllIn, Noted
    <2>3. DocumentKnows' BY <1>1, <1>2, <2>1 DEF IInv, Known, DocumentKnows, AllIn, Noted
    <2>4. Untouched' BY <1>1, <1>2, <2>1 DEF IInv, Known, Untouched, Standby
    <2> QED BY <2>1, <2>2, <2>3, <2>4 DEF Closed
  <1> QED BY <1>3, <1>4

LEMMA WaitReadyAll == ASSUME IInv, WaitReady PROVE Accounted' /\ Known'
  <1>1. script.pc = "activating" /\ script'.pc = "flip" /\ script'.cur = script.cur /\ script'.next = script.next
    BY StepScript DEF WaitReady, IInv, IOwn, PCs, ToOld, ToNew, Back
  <1>2. /\ UNCHANGED <<doc, writer, proc, mem, dirty, save, drain, reload, clean, call, lost>>
        /\ ~reload[script.next]
    BY <1>1 DEF WaitReady, next, store, slots, ghosts, IInv, IOwn, Step
  <1>3. Accounted' BY <1>2, Kept, SameAccounted DEF IInv, Live
  <1>4. Known'
    <2> SUFFICES ASSUME clean PROVE WriterKnows' /\ DocumentKnows' /\ Untouched' /\ Closed'
      BY <1>2 DEF Known
    <2>1. ~Reading /\ ~Reading' BY <1>1, <1>2 DEF Reading
    <2>2. WriterKnows' BY <1>2, <2>1 DEF IInv, Known, WriterKnows, Knows, AllIn, Noted
    <2>3. DocumentKnows' BY <1>1, <1>2, <2>1 DEF IInv, Known, DocumentKnows, AllIn, Noted
    <2>4. Untouched' BY <1>1, <1>2, <2>1 DEF IInv, Known, Untouched, Standby
    <2> QED BY <2>1, <2>2, <2>3, <2>4 DEF Closed
  <1> QED BY <1>3, <1>4

LEMMA FlipAll == ASSUME IInv, Flip PROVE Accounted' /\ Known'
  <1>1. script.pc = "flip" /\ script'.pc = "prove" /\ script'.cur = script.cur /\ script'.next = script.next
    BY StepScript DEF Flip, PointEdge, IInv, IOwn, PCs, ToOld, ToNew, Back
  <1>2. /\ UNCHANGED <<doc, writer, proc, mem, dirty, save, drain, reload, clean, call, lost>>
    BY <1>1 DEF Flip, PointEdge, store, slots, ghosts, IInv, IOwn, Step
  <1>3. Accounted' BY <1>2, Kept, SameAccounted DEF IInv, Live
  <1>4. Known'
    <2> SUFFICES ASSUME clean PROVE WriterKnows' /\ DocumentKnows' /\ Untouched' /\ Closed'
      BY <1>2 DEF Known
    <2>1. ~Reading /\ ~Reading' BY <1>1, <1>2 DEF Reading
    <2>2. WriterKnows' BY <1>2, <2>1 DEF IInv, Known, WriterKnows, Knows, AllIn, Noted
    <2>3. DocumentKnows' BY <1>1, <1>2, <2>1 DEF IInv, Known, DocumentKnows, AllIn, Noted
    <2>4. Untouched' BY <1>1, <1>2, <2>1 DEF IInv, Known, Untouched, Standby
    <2> QED BY <2>1, <2>2, <2>3, <2>4 DEF Closed
  <1> QED BY <1>3, <1>4

LEMMA ProveAll == ASSUME IInv, Prove PROVE Accounted' /\ Known'
  <1>1. script.pc = "prove" /\ script'.pc = "stop" /\ script'.cur = script.cur /\ script'.next = script.next
    BY StepScript DEF Prove, IInv, IOwn, PCs, ToOld, ToNew, Back
  <1>2. /\ UNCHANGED <<doc, writer, proc, mem, dirty, save, drain, reload, clean, call, lost>>
    BY <1>1 DEF Prove, store, slots, ghosts, IInv, IOwn, Step
  <1>3. Accounted' BY <1>2, Kept, SameAccounted DEF IInv, Live
  <1>4. Known'
    <2> SUFFICES ASSUME clean PROVE WriterKnows' /\ DocumentKnows' /\ Untouched' /\ Closed'
      BY <1>2 DEF Known
    <2>1. ~Reading /\ ~Reading' BY <1>1, <1>2 DEF Reading
    <2>2. WriterKnows' BY <1>2, <2>1 DEF IInv, Known, WriterKnows, Knows, AllIn, Noted
    <2>3. DocumentKnows' BY <1>1, <1>2, <2>1 DEF IInv, Known, DocumentKnows, AllIn, Noted
    <2>4. Untouched' BY <1>1, <1>2, <2>1 DEF IInv, Known, Untouched, Standby
    <2> QED BY <2>1, <2>2, <2>3, <2>4 DEF Closed
  <1> QED BY <1>3, <1>4

LEMMA LastProofAll == ASSUME IInv, LastProof PROVE Accounted' /\ Known'
  <1>1. script.pc = "last" /\ script'.pc = "done" /\ script'.cur = script.cur /\ script'.next = script.next
    BY StepScript DEF LastProof, IInv, IOwn, PCs, ToOld, ToNew, Back
  <1>2. /\ UNCHANGED <<doc, writer, proc, mem, dirty, save, drain, reload, clean, call, lost>>
    BY <1>1 DEF LastProof, store, slots, ghosts, IInv, IOwn, Step
  <1>3. Accounted' BY <1>2, Kept, SameAccounted DEF IInv, Live
  <1>4. Known'
    <2> SUFFICES ASSUME clean PROVE WriterKnows' /\ DocumentKnows' /\ Untouched' /\ Closed'
      BY <1>2 DEF Known
    <2>1. ~Reading /\ ~Reading' BY <1>1, <1>2 DEF Reading
    <2>2. WriterKnows' BY <1>2, <2>1 DEF IInv, Known, WriterKnows, Knows, AllIn, Noted
    <2>3. DocumentKnows' BY <1>1, <1>2, <2>1 DEF IInv, Known, DocumentKnows, AllIn, Noted
    <2>4. Untouched' BY <1>1, <1>2, <2>1 DEF IInv, Known, Untouched, Standby
    <2> QED BY <2>1, <2>2, <2>3, <2>4 DEF Closed
  <1> QED BY <1>3, <1>4

LEMMA DeployAll == ASSUME IInv, Deploy PROVE Accounted' /\ Known'
  <1>1. /\ script.pc \in {"idle", "done", "failed", "dead"} /\ script'.pc = "claim"
        /\ UNCHANGED <<doc, writer, proc, mem, dirty, save, drain, reload, clean, call, lost>>
    BY DEF Deploy, store, slots, ghosts
  <1>2. Accounted' BY <1>1, Kept, SameAccounted DEF IInv, Live
  <1>3. Known'
    <2> SUFFICES ASSUME clean PROVE WriterKnows' /\ DocumentKnows' /\ Untouched' /\ Closed'
      BY <1>1 DEF Known
    <2>1. ~Reading /\ ~Reading' /\ ~Standby' BY <1>1 DEF Reading, Standby
    <2>2. WriterKnows' BY <1>1, <2>1 DEF IInv, Known, WriterKnows, Knows, AllIn, Noted
    <2> QED BY <1>1, <2>1, <2>2 DEF DocumentKnows, Untouched, Closed
  <1> QED BY <1>2, <1>3

LEMMA StartStandbyAll == ASSUME IInv, StartStandby PROVE Accounted' /\ Known'
  <1> DEFINE s == script.next
  <1>1. /\ script.pc = "start" /\ script'.pc = "health" /\ script'.cur = script.cur /\ script'.next = s
    BY StepScript DEF StartStandby, IInv, IOwn, PCs, ToOld, ToNew, Back
  <1>2. s \in Slots /\ script.cur \in Slots /\ s # script.cur /\ writer = script.cur /\ Fresh(s)
    BY <1>1 DEF StartStandby, next, IInv, IOwn, Typed, Scripts, Roles, ToOld
  <1>3. /\ mem'[s] = {} /\ save'[s] = NoSave /\ ~dirty'[s] /\ lost' = lost \cup (mem[s] \ doc)
        /\ \A t \in Slots : t # s => mem'[t] = mem[t] /\ save'[t] = save[t]
    BY <1>2, EndedSlotState DEF IInv, IOwn
  <1>4. /\ proc'[s] = "booting" /\ \A t \in Slots : t # s => proc'[t] = proc[t]
        /\ clean' = Knows(script.cur) /\ UNCHANGED <<doc, writer>>
    BY <1>2 DEF StartStandby, next, cur, store, IInv, IOwn, Typed
  <1>5. \A r \in Requests : Noted(r)' => Noted(r) BY <1>2, EndedKept DEF IInv, IOwn
  <1> HIDE DEF s
  <1>6. Accounted' BY <1>2, <1>4, EndedAccounted DEF IInv, IOwn, Live
  <1>7. Known'
    <2> SUFFICES ASSUME Knows(script.cur) PROVE WriterKnows' /\ DocumentKnows' /\ Untouched' /\ Closed'
      BY <1>4 DEF Known
    <2>1. ~Reading' BY <1>1 DEF Reading
    <2>2. Knows(writer)' BY <1>2, <1>3, <1>4 DEF Knows
    <2>3. AllIn(mem[writer])'
      <3> SUFFICES ASSUME NEW r \in Requests, Noted(r)' PROVE r \in mem'[writer']
        BY DEF AllIn
      <3>1. Noted(r) /\ r \notin mem[s] \ doc BY <1>3, <1>5 DEF Noted
      <3>2. r \in doc \/ \E t \in Slots : t # s /\ r \in mem[t] BY <3>1 DEF IInv, Accounted
      <3>3. r \in mem[script.cur] BY <1>2, <3>2, TwoSlots DEF Knows
      <3> QED BY <1>2, <1>3, <1>4, <3>3
    <2>4. DocumentKnows' BY <1>1, <2>1 DEF DocumentKnows
    <2>5. Untouched' BY <1>1, <1>3, <1>4 DEF Untouched
    <2> QED BY <2>1, <2>2, <2>3, <2>4, <2>5 DEF WriterKnows, Closed
  <1> QED BY <1>6, <1>7

LEMMA HandOverAll == ASSUME IInv, HandOver PROVE Accounted' /\ Known'
  <1>1. script.pc = "handover" /\ script'.pc = "activate" /\ script'.cur = script.cur /\ script'.next = script.next
    BY StepScript DEF HandOver, SetWriter, IInv, IOwn, PCs, ToOld, ToNew, Back
  <1>2. UNCHANGED <<doc, proc, quiesced, mem, dirty, save, drain, reload, clean, call, lost>>
    BY DEF HandOver, SetWriter, slots, ghosts
  <1>3. Accounted' BY <1>2, Kept, SameAccounted DEF IInv, Live
  <1>4. Known'
    <2> SUFFICES ASSUME clean PROVE WriterKnows' /\ DocumentKnows' /\ Untouched' /\ Closed'
      BY <1>2 DEF Known
    <2>1. Reading' /\ Standby /\ Standby' BY <1>1 DEF Reading, Standby
    <2>2. writer = script.cur /\ script.next # writer /\ script.next \in Slots
      BY <1>1 DEF IInv, IOwn, Typed, Scripts, Roles, ToOld
    <2>3. DocumentKnows' BY <1>1, <1>2 DEF IInv, Known, DocumentKnows, AllIn, Noted
    <2>4. Untouched' BY <1>1, <1>2, <2>1 DEF IInv, Known, Untouched
    <2>5. quiesced[script.next] BY <1>1, <2>2 DEF IInv, IOwn, Owned, OnlyWriter, Running
    <2>6. \A r \in Requests : call[r].pc # "serving"
      BY <1>1, <2>2 DEF IInv, IOwn, Owned, Work, NoWorkLeft, DrainedOld
    <2> QED BY <1>1, <1>2, <2>1, <2>3, <2>4, <2>5, <2>6 DEF WriterKnows, Closed
  <1> QED BY <1>3, <1>4

LEMMA EmptiedSlot ==
    ASSUME Typed, NEW s \in Slots, Activate(s)
    PROVE  /\ reload'[s] /\ mem'[s] = {} /\ lost' = lost \cup (mem[s] \ doc)
           /\ \A t \in Slots : t # s => mem'[t] = mem[t] /\ reload'[t] = reload[t]
           /\ UNCHANGED <<doc, writer, proc, quiesced, dirty, save, drain, clean, call>>
  BY DEF Activate, store, Typed

LEMMA EmptiedAccounted == ASSUME Typed, Accounted, NEW s \in Slots, Activate(s) PROVE Accounted'
  <1>1. \A r \in Requests : Noted(r)' => Noted(r) BY EmptiedSlot DEF Noted
  <1> QED BY <1>1, EmptiedSlot, StillAccounted DEF Live

LEMMA PostActivateAll == ASSUME IInv, PostActivate PROVE Accounted' /\ Known'
  <1>1. script.pc = "activate" /\ script'.pc = "activating" /\ script'.cur = script.cur /\ script'.next = script.next
    BY StepScript DEF PostActivate, IInv, IOwn, PCs, ToOld, ToNew, Back
  <1>2. script.next \in Slots /\ Activate(script.next) BY DEF PostActivate, next, IInv, IOwn, Typed, Scripts
  <1>3. Accounted' BY <1>2, EmptiedAccounted DEF IInv, IOwn
  <1>4. /\ reload'[script.next] /\ mem'[script.next] = {} /\ lost \subseteq lost'
        /\ UNCHANGED <<doc, writer, quiesced, dirty, save, drain, clean, call>>
    BY <1>2, EmptiedSlot DEF IInv, IOwn
  <1>5. Known'
    <2> SUFFICES ASSUME clean PROVE WriterKnows' /\ DocumentKnows' /\ Untouched' /\ Closed'
      BY <1>4 DEF Known
    <2>1. Reading /\ Reading' /\ Standby BY <1>1, <1>4 DEF Reading, Standby
    <2>2. DocumentKnows' BY <1>1, <1>4, <2>1 DEF IInv, Known, DocumentKnows, AllIn, Noted
    <2>3. Untouched' BY <1>1, <1>4, <2>1 DEF IInv, Known, Untouched
    <2>4. Closed' BY <1>1, <1>4, <2>1 DEF IInv, Known, Closed
    <2> QED BY <2>1, <2>2, <2>3, <2>4 DEF WriterKnows
  <1> QED BY <1>3, <1>5

LEMMA StopOldAll == ASSUME IInv, StopOld PROVE Accounted' /\ Known'
  <1>1. script.pc = "stop" /\ script'.pc = "last" /\ script'.cur = script.cur /\ script'.next = script.next
    BY StepScript DEF StopOld, IInv, IOwn, PCs, ToOld, ToNew, Back
  <1>2. /\ UNCHANGED <<doc, writer, mem, dirty, save, drain, reload, clean, call, lost>>
        /\ script.cur \in Slots
    BY DEF StopOld, store, ghosts, IInv, IOwn, Typed, Scripts
  <1>3. \A s \in Slots : Live(s) => Live(s)'
    <2>1. proc[script.cur] # "leaving" BY <1>1, <1>2 DEF IInv, IOwn, Processes, Process
    <2>2. proc'[script.cur] = "leaving" \/ proc[script.cur] # "up" BY <1>2 DEF StopOld, cur, IInv, IOwn, Typed
    <2>3. \A t \in Slots : t # script.cur => proc'[t] = proc[t] BY <1>2 DEF StopOld, cur, IInv, IOwn, Typed
    <2> QED BY <2>1, <2>2, <2>3 DEF Live
  <1>4. Accounted' BY <1>2, <1>3, Kept, SameAccounted DEF IInv
  <1>5. Known'
    <2> SUFFICES ASSUME clean PROVE WriterKnows' /\ DocumentKnows' /\ Untouched' /\ Closed'
      BY <1>2 DEF Known
    <2>1. ~Reading /\ ~Reading' /\ ~Standby' BY <1>1 DEF Reading, Standby
    <2>2. WriterKnows' BY <1>2, <2>1 DEF IInv, Known, WriterKnows, Knows, AllIn, Noted
    <2> QED BY <1>1, <2>1, <2>2 DEF DocumentKnows, Untouched, Closed
  <1> QED BY <1>4, <1>5

LEMMA FailAll == ASSUME IInv, Fail PROVE Accounted' /\ Known'
  <1>1. UNCHANGED <<doc, mem, proc, call, lost>> /\ ~clean' BY DEF Fail, store
  <1> QED BY <1>1, Kept, SameAccounted DEF IInv, Live, Known

LEMMA RollbackAll ==
    ASSUME IInv, RollbackUp \/ RollbackWriter \/ RollbackDies \/ RollbackActivate
                 \/ RollbackSkips \/ RollbackEdge \/ RollbackFile
    PROVE  Accounted' /\ Known'
  <1>1. script.pc \in Back
    BY DEF RollbackUp, RollbackWriter, RollbackDies, RollbackActivate, RollbackSkips, RollbackEdge, RollbackFile,
           SetWriter, PointEdge, Step, Back
  <1>2. clean' = clean
    BY DEF RollbackUp, RollbackWriter, RollbackDies, RollbackActivate, RollbackSkips, RollbackEdge, RollbackFile,
           SetWriter, PointEdge, Activate, ghosts
  <1>3. Known' BY <1>1, <1>2 DEF IInv, IOwn, Roles, Known
  <1>4. ASSUME RollbackActivate PROVE Accounted'
    BY <1>4, EmptiedAccounted DEF RollbackActivate, cur, IInv, IOwn, Typed, Scripts
  <1>5. ASSUME RollbackUp PROVE Accounted'
    <2>1. UNCHANGED <<doc, mem, call, lost>> BY <1>5 DEF RollbackUp, store, ghosts
    <2>2. \A s \in Slots : Live(s) => Live(s)'
      BY <1>5 DEF RollbackUp, Live, IInv, IOwn, Typed
    <2> QED BY <2>1, <2>2, Kept, SameAccounted DEF IInv
  <1>6. ASSUME RollbackWriter \/ RollbackDies \/ RollbackSkips \/ RollbackEdge \/ RollbackFile PROVE Accounted'
    <2>1. UNCHANGED <<doc, mem, proc, call, lost>>
      BY <1>6 DEF RollbackWriter, RollbackDies, RollbackSkips, RollbackEdge, RollbackFile, SetWriter, PointEdge,
                  store, slots, ghosts
    <2> QED BY <2>1, Kept, SameAccounted DEF IInv, Live
  <1> QED BY <1>3, <1>4, <1>5, <1>6

LEMMA WorkerEndsAll == ASSUME IInv, WorkerEnds PROVE Accounted' /\ Known'
  <1>1. UNCHANGED <<store, slots, call, script, ghosts>> BY DEF WorkerEnds, store
  <1>2. clean => Closed' BY <1>1 DEF slots, ghosts, IInv, Known, Closed, Reading
  <1> QED BY <1>1, <1>2, Kept, SameAccounted, SameKnown DEF store, slots, ghosts, IInv, Live, Known

----------------------------------------------------------------------------
(* The invariant and the theorems.                                         *)

LEMMA InitAll == Init => IInv
  <1> SUFFICES ASSUME Init PROVE Accounted /\ Known
    BY InitOwn DEF IInv
  <1>1. /\ \A r \in Requests : call[r].pc = "new"
        /\ doc = {} /\ \A t \in Slots : mem[t] = {} /\ save[t] = NoSave
        /\ script.pc = "idle" /\ writer \in Slots
    BY DEF Init
  <1>2. \A r \in Requests : ~Noted(r) BY <1>1 DEF Noted
  <1>3. ~Reading /\ ~Standby BY <1>1 DEF Reading, Standby
  <1>4. WriterKnows BY <1>1, <1>2 DEF WriterKnows, Knows, AllIn, NoSave
  <1> QED BY <1>1, <1>2, <1>3, <1>4 DEF Accounted, Known, DocumentKnows, Untouched, Closed

LEMMA StepAll ==
    ASSUME ~StandbyUsed, IInv, [Next]_vars
    PROVE  IInv' /\ (clean' => doc \subseteq doc')
  <1> SUFFICES Accounted' /\ Known' /\ (clean' => doc \subseteq doc')
    BY StepOwn DEF IInv
  <1>1. ASSUME NEW r \in Requests, RequestStep(r) PROVE Accounted' /\ Known' /\ doc' = doc
    <2>1. Accounted' /\ Known' BY <1>1, ArriveAll, CountAll, RecheckAll, NoteAll, LeaveAll DEF RequestStep
    <2>2. doc' = doc BY <1>1 DEF RequestStep, Arrive, Count, Recheck, Note, Leave, store
    <2> QED BY <2>1, <2>2
  <1>2. ASSUME NEW s \in Slots, SlotStep(s) PROVE Accounted' /\ Known' /\ (clean' => doc \subseteq doc')
    <2>1. CASE FinishSave(s)
      <3>1. clean' = clean BY <2>1 DEF FinishSave
      <3> QED BY <2>1, <3>1, FinishSaveAll
    <2>2. CASE \/ SaverFires(s) \/ BackgroundNote(s) \/ QuiesceSaves(s) \/ ActivateEnds(s)
               \/ Crash(s) \/ Boot(s) \/ Listen(s) \/ Exit(s) \/ Killed(s)
      <3>1. Accounted' /\ Known'
        BY <2>2, SaverFiresAll, BackgroundNoteAll, QuiesceSavesAll, ActivateEndsAll, CrashAll, BootAll, ListenAll,
           ExitAll, KilledAll
      <3>2. doc' = doc
        BY <2>2 DEF SaverFires, BackgroundNote, QuiesceSaves, ActivateEnds, Crash, Boot, Listen, Exit, Killed, store
      <3> QED BY <3>1, <3>2
    <2> QED BY <1>2, <2>1, <2>2 DEF SlotStep
  <1>3. CASE Script
    <2>1. CASE \/ Deploy \/ Claim \/ Ask \/ StartStandby \/ Health \/ PostQuiesce \/ QuiesceAnswered
               \/ HandOver \/ PostActivate \/ WaitReady \/ Flip \/ Prove \/ StopOld \/ LastProof
      <3>1. Accounted' /\ Known'
        BY <2>1, DeployAll, ClaimAll, AskAll, StartStandbyAll, HealthAll, PostQuiesceAll, QuiesceAnsweredAll,
           HandOverAll, PostActivateAll, WaitReadyAll, FlipAll, ProveAll, StopOldAll, LastProofAll
      <3>2. doc' = doc
        BY <2>1 DEF Deploy, Claim, Ask, StartStandby, Health, PostQuiesce, QuiesceAnswered, HandOver, PostActivate,
                    WaitReady, Flip, Prove, StopOld, LastProof, SetWriter, PointEdge, Activate, store
      <3> QED BY <3>1, <3>2
    <2>2. CASE \/ Fail \/ RollbackUp \/ RollbackWriter \/ RollbackDies \/ RollbackActivate
               \/ RollbackSkips \/ RollbackEdge \/ RollbackFile
      <3>1. Accounted' /\ Known' BY <2>2, FailAll, RollbackAll
      <3>2. doc' = doc
        BY <2>2 DEF Fail, RollbackUp, RollbackWriter, RollbackDies, RollbackActivate, RollbackSkips, RollbackEdge,
                    RollbackFile, SetWriter, PointEdge, Activate, store
      <3> QED BY <3>1, <3>2
    <2> QED BY <1>3, <2>1, <2>2 DEF Script
  <1>4. CASE WorkerEnds
    <2>1. doc' = doc BY <1>4 DEF WorkerEnds, store
    <2> QED BY <1>4, <2>1, WorkerEndsAll
  <1>5. CASE UNCHANGED vars
    <2>1. UNCHANGED <<store, slots, call, script, ghosts>> BY <1>5 DEF vars
    <2>2. clean => Closed' BY <2>1 DEF slots, ghosts, IInv, Known, Closed, Reading
    <2> QED BY <2>1, <2>2, Kept, SameAccounted, SameKnown DEF store, slots, ghosts, IInv, Live, Known
  <1> QED BY <1>1, <1>2, <1>3, <1>4, <1>5 DEF Next

LEMMA AllInvariant == ASSUME ~StandbyUsed PROVE Spec => []IInv
  <1>1. IInv /\ [Next]_vars => IInv' BY StepAll
  <1> QED BY <1>1, InitAll, PTL DEF Spec

\* Once the new slot is ready, every outcome a request left in the old slot is in the new slot's
\* pool: nothing falls between the drain, the final save, the writer row and the reload (the
\* handoff routes and the script's order), as long as nobody tests an endpoint on the standby's
\* own port.
THEOREM NothingLost == ASSUME ~StandbyUsed PROVE Spec => []HandedOver
  <1>1. IInv => HandedOver
    <2> SUFFICES ASSUME IInv, script.pc \in Activated, clean, NEW r \in Requests,
                        call[r].pc = "answered", r \notin lost
                 PROVE  r \in mem[next]
      BY DEF HandedOver
    <2>1. ~Reading BY DEF Activated, Reading
    <2>2. writer = next BY DEF Activated, next, IInv, IOwn, Roles, ToNew
    <2>3. Noted(r) BY DEF Noted
    <2> QED BY <2>1, <2>2, <2>3 DEF IInv, Known, WriterKnows, AllIn
  <1> QED BY <1>1, AllInvariant, PTL

\* No save takes an outcome out of the durable document, whichever slot's it is and however late
\* it is written (save_runtime_state's condition on the writer row, and the read back before the
\* new slot may write), under the same hypothesis.
THEOREM DocumentOnlyGrows == ASSUME ~StandbyUsed PROVE Spec => DocumentGrows
  <1>1. IInv /\ [Next]_vars => [clean' => doc \subseteq doc']_vars BY StepAll
  <1> QED BY <1>1, AllInvariant, PTL DEF Spec, DocumentGrows

===============================================================================
