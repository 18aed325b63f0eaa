--------------------------- MODULE LocalFilesProofs ---------------------------
(***************************************************************************)
(* Proofs about what kiro-lb does to files of the machine it runs on.      *)
(*                                                                         *)
(* ClientSetup, for any number of clients, commands, edits, moves and      *)
(* deaths and of unlinks and syncs that fail: no edit of the user is lost  *)
(* (FilesKept), a journal answers for whatever a command leaves            *)
(* (RecoverableUntilTorn), and a command that says it undid its changes    *)
(* left none but one whose write took effect and failed (UndoneIsUndone).  *)
(* The invariant: every process's record belongs to its phase (Typed); one *)
(* command works at a time (Solo); what it changed is in its list, under   *)
(* way, taken back or such a write's (Reverts); and what it knows of the   *)
(* journal and of the files it plans for still holds (Accounted), until a  *)
(* rollback begins after the journal was saved for the last time.          *)
(*                                                                         *)
(* Updates, for any number of callers and of releases: what an install may *)
(* lose (UpdatesKept) and what it may replace (UpdatesForward), from one   *)
(* inductive invariant.                                                    *)
(***************************************************************************)
EXTENDS ClientSetup, Updates, TLAPS

----------------------------------------------------------------------------
(* Types.                                                                  *)

ClientFiles == [content : Contents, run : 0..MaxRuns]
JournalFiles == [content : States \ {EmptyState}, run : 0..MaxRuns]
AnyFile == ClientFiles \cup JournalFiles \cup {Absent}
FilesOf(t) == IF t = Journal THEN JournalFiles ELSE ClientFiles
ContentsOf(t) == IF t = Journal THEN States \ {EmptyState} ELSE Contents

Plans == [snapshot : Snapshot, expected : ClientFiles \cup {Absent}, parent : Dirs]
PlanMaps == UNION {[X -> Plans] : X \in SUBSET Clients}
Changes == [target : Clients, before : ClientFiles \cup {Absent}, parent : Dirs,
            after : ClientFiles \cup {Absent}]
WriteRecs == [step : StepNames, target : Targets, new : Contents \cup States \cup {Absent},
              expected : AnyFile, parent : Dirs, temp : AnyFile, ok : BOOLEAN,
              undone : BOOLEAN, late : BOOLEAN, locked : BOOLEAN]
Phases == {"idle", "locking", "locked", "journal", "commit", "final", "rollback", "rejournal",
           "rescue"}
ProcRecs == [at : Phases, cmd : {"none", "setup", "restore"}, run : 0..MaxRuns,
             clients : SUBSET Clients, version : Versions \cup {Absent}, lock : Int,
             directory : Dirs, journal : JournalFiles \cup {Absent}, state : States,
             recovery : States, plans : PlanMaps, todo : SUBSET Clients, applied : Seq(Changes),
             slipped : SUBSET Clients, rolledBack : BOOLEAN, w : WriteRecs, result : {"none", "undone"}]

\* w is a write to its target; it holds a temporary file between its renames.
WriteOK(w) ==
    /\ w.new \in ContentsOf(w.target) \cup {Absent}
    /\ w.expected \in FilesOf(w.target) \cup {Absent}
    /\ w.temp \in FilesOf(w.target) \cup {Absent}
    /\ w.step \in {"none", "check", "return", "rescuing", "rescued"} => w.temp = Absent
    /\ w.step \in {"compare", "undo", "recheck", "forward"} => w.temp # Absent
    /\ w.step = "rescuing" => w.new # Absent
    /\ w.late => w.step = "return" /\ ~w.ok

Resting == {"idle", "locking", "locked"}
SavePhases == {"journal", "final", "rejournal"}
ClientPhases == {"commit", "rollback"}
WriteSteps == StepNames \ {"none", "rescuing", "rescued"}

Known(s) == {s.installed, s.original} \cup s.recoverable
KnownFile(s, f) == f = Absent \/ f.content \in Known(s)
AsContent(s) == IF s = EmptyState THEN Absent ELSE s
ContentOf(f) == IF f = Absent THEN Absent ELSE f.content
Goal(r, c) ==
    IF r.cmd = "setup" THEN r.plans[c].snapshot.installed ELSE r.plans[c].snapshot.original

\* A state that says of the clients what an earlier one said, or forgets those of sel.
Follows(new, old, sel, all) ==
    /\ \A c \in DOMAIN new :
          /\ c \in DOMAIN old
          /\ new[c].original = old[c].original /\ new[c].installed = old[c].installed
          /\ c \notin sel => new[c] = old[c]
    /\ \A c \in DOMAIN old : all \/ c \notin sel => c \in DOMAIN new

\* What the record of a command says on its own: its plans and changes are of files that
\* its journal knows, and its write belongs to its phase.
PlanOK(r, c) ==
    /\ c \in DOMAIN r.recovery /\ r.plans[c].snapshot = r.recovery[c]
    /\ KnownFile(r.plans[c].snapshot, r.plans[c].expected)
ChangeOK(r, a) ==
    /\ a.target \in DOMAIN r.plans
    /\ a.before = r.plans[a.target].expected /\ a.parent = r.plans[a.target].parent
    /\ KnownFile(r.plans[a.target].snapshot, a.after)
    /\ a.before = Absent => a.after # Absent
RestOK(r) ==
    /\ r.at # "idle" => r.result = "none" /\ r.run # 0 /\ r.cmd # "none" /\ r.version \in Versions
    /\ r.at \in Resting => r.w = NoWrite /\ r.applied = <<>> /\ r.rolledBack /\ r.todo = {}
                             /\ r.slipped = {}
    /\ r.at = "rescue" => /\ r.w.target = Journal /\ r.w.step \in {"none", "rescuing", "rescued"}
                          /\ r.recovery # EmptyState
    /\ r.at \in {"rejournal", "rescue"} => r.applied = <<>>
SaveOK(r) ==
    r.at \in SavePhases =>
        /\ r.w.target = Journal /\ r.w.step \in WriteSteps
        /\ r.w.expected = r.journal
        /\ r.w.step # "return" => r.w.parent = r.directory
        /\ r.w.new = AsContent(IF r.at = "final" THEN r.state ELSE r.recovery)
        /\ r.w.new = Absent /\ r.w.expected = Absent => r.w.step = "return" /\ r.w.ok
ClientOK(r) ==
    r.at \in ClientPhases =>
        /\ r.w.target \in DOMAIN r.plans /\ r.w.step \in WriteSteps
        /\ r.w.step # "return" => r.w.parent = r.plans[r.w.target].parent
        /\ KnownFile(r.plans[r.w.target].snapshot, r.w.expected)
        /\ r.at = "commit" => /\ r.w.expected = r.plans[r.w.target].expected
                              /\ r.w.new = Goal(r, r.w.target)
        /\ r.at = "rollback" => r.w.new = ContentOf(r.plans[r.w.target].expected)
        /\ r.w.new = Absent /\ r.w.expected = Absent => r.w.step = "return" /\ r.w.ok
StateOK(r) ==
    /\ r.at = "journal" => r.cmd = "setup" /\ r.state = r.recovery /\ r.todo = DOMAIN r.plans
    /\ r.at \in {"commit", "final"} => Follows(r.state, r.recovery, DOMAIN r.plans, r.cmd = "setup")
    /\ r.at = "final" => r.todo = {}
PlansOK(r) ==
    /\ r.todo \subseteq DOMAIN r.plans
    /\ \A i \in 1..Len(r.applied) : ChangeOK(r, r.applied[i])
    /\ r.at \notin Resting =>
          /\ \A c \in DOMAIN r.plans : PlanOK(r, c)
          /\ r.cmd = "setup" => DOMAIN r.plans = r.clients
PhaseOK(r) == RestOK(r) /\ SaveOK(r) /\ ClientOK(r) /\ StateOK(r) /\ PlansOK(r)

ProcOK(r) == r \in ProcRecs /\ WriteOK(r.w) /\ PhaseOK(r)

Typed ==
    /\ file \in [Targets -> [Dirs -> AnyFile]]
    /\ \A t \in Targets, d \in Dirs : file[t][d] \in FilesOf(t) \cup {Absent}
    /\ dir \in [Targets -> Dirs] /\ lockFile \in Int
    /\ DOMAIN proc = Procs /\ \A p \in Procs : ProcOK(proc[p])
    /\ \A l \in left : l[1] \in Targets /\ l[2] \in FilesOf(l[1])
    /\ looked \in [Clients -> Dirs \cup {0}]
    /\ owed \subseteq Clients \X (0..MaxEdits) /\ chased \subseteq Clients \X (0..MaxEdits)
    /\ runs \in 0..MaxRuns /\ edits \in 0..MaxEdits /\ raced \in BOOLEAN /\ torn \in BOOLEAN

----------------------------------------------------------------------------
(* What the constants and the types say.                                   *)

LEMMA AbsentFacts ==
    /\ Absent \notin Contents /\ Absent \notin States
    /\ \A t \in Targets : Absent \notin FilesOf(t) /\ Absent \notin ContentsOf(t)
    /\ \A t \in Targets : \A f \in FilesOf(t) : f # Absent
    /\ \A x \in Contents \cup States, run \in 0..MaxRuns : Absent # File(x, run)
<1>1. /\ Absent \notin Contents /\ Absent \notin States
      /\ \A x \in Contents \cup States, run \in 0..MaxRuns : Absent # File(x, run)
  BY AbsentAssumption
<1>2. \A f \in ClientFiles : f = File(f.content, f.run) /\ f.content \in Contents /\ f.run \in 0..MaxRuns
  BY DEF ClientFiles, File
<1>3. \A f \in JournalFiles : f = File(f.content, f.run) /\ f.content \in States /\ f.run \in 0..MaxRuns
  BY DEF JournalFiles, File
<1>4. Absent \notin ClientFiles
  BY <1>1, <1>2
<1>5. Absent \notin JournalFiles
  BY <1>1, <1>3
<1> QED BY <1>1, <1>4, <1>5 DEF FilesOf, ContentsOf

LEMMA StateFacts ==
    /\ EmptyState \in States /\ DOMAIN EmptyState = {}
    /\ EmptyState # Absent
    /\ EmptyState \in PlanMaps
    /\ \A s \in States : DOMAIN s \subseteq Clients /\ s = [c \in DOMAIN s |-> s[c]]
                         /\ \A c \in DOMAIN s : s[c] \in Snapshot
    /\ \A s \in States : s = EmptyState <=> DOMAIN s = {}
<1>1. DOMAIN EmptyState = {} /\ EmptyState \in [{} -> Snapshot] /\ EmptyState \in [{} -> Plans]
  BY DEF EmptyState
<1>2. {} \in SUBSET Clients
  OBVIOUS
<1>3. EmptyState \in States /\ EmptyState \in PlanMaps
  BY <1>1, <1>2 DEF States, PlanMaps
<1>4. \A s \in States : /\ DOMAIN s \subseteq Clients /\ s = [c \in DOMAIN s |-> s[c]]
                        /\ \A c \in DOMAIN s : s[c] \in Snapshot
  BY DEF States
<1>5. ASSUME NEW s \in States, DOMAIN s = {}  PROVE s = EmptyState
  BY <1>4, <1>5 DEF EmptyState
<1> QED BY <1>1, <1>3, <1>4, <1>5, AbsentFacts

LEMMA PlanFacts ==
    \A m \in PlanMaps : DOMAIN m \subseteq Clients /\ \A c \in DOMAIN m : m[c] \in Plans
  BY DEF PlanMaps

LEMMA NumberFacts == MaxRuns \in Nat /\ MaxEdits \in Nat /\ MaxMoves \in Nat /\ 1 \in Dirs /\ Dirs \subseteq Nat
                     /\ 0 \notin Dirs
  BY ClientSetupAssumption DEF Dirs

LEMMA TargetFacts ==
    /\ Journal \in Targets /\ Clients \subseteq Targets /\ Journal \notin Clients
    /\ \A c \in Clients : c # Journal /\ FilesOf(c) = ClientFiles /\ ContentsOf(c) = Contents
    /\ FilesOf(Journal) = JournalFiles /\ ContentsOf(Journal) = States \ {EmptyState}
    /\ \A t \in Targets : FilesOf(t) \cup {Absent} \subseteq AnyFile
    /\ \A t \in Targets : ContentsOf(t) \cup {Absent} \subseteq Contents \cup States \cup {Absent}
  BY ClientSetupAssumption DEF Targets, FilesOf, ContentsOf, AnyFile

LEMMA FileMade ==
    ASSUME NEW t \in Targets, NEW x \in ContentsOf(t), NEW run \in 0..MaxRuns
    PROVE  File(x, run) \in FilesOf(t) /\ File(x, run) # Absent /\ File(x, run).content = x /\ File(x, run).run = run
  BY AbsentFacts DEF File, FilesOf, ContentsOf, ClientFiles, JournalFiles

LEMMA FileParts ==
    ASSUME NEW t \in Targets, NEW f \in FilesOf(t)
    PROVE  f.content \in ContentsOf(t) /\ f.run \in 0..MaxRuns /\ f # Absent
  BY AbsentFacts DEF FilesOf, ContentsOf, ClientFiles, JournalFiles

LEMMA NoWriteFacts ==
    /\ NoWrite \in WriteRecs /\ WriteOK(NoWrite)
    /\ NoWrite.step = "none" /\ NoWrite.target = Journal /\ NoWrite.temp = Absent /\ NoWrite.new = Absent
    /\ NoWrite.expected = Absent /\ NoWrite.parent = 1 /\ NoWrite.ok = FALSE /\ NoWrite.undone = TRUE
    /\ NoWrite.locked = FALSE /\ NoWrite.late = FALSE
  BY NumberFacts, TargetFacts DEF NoWrite, WriteRecs, WriteOK, StepNames, AnyFile

LEMMA IdleFacts ==
    /\ Idle \in ProcRecs /\ ProcOK(Idle) /\ Idle.at = "idle" /\ Idle.w = NoWrite /\ Idle.result = "none"
    /\ Idle.rolledBack = TRUE /\ Idle.slipped = {}
<1>1. 0 \in 0..MaxRuns /\ 1 \in Dirs /\ 0 \in Int
  BY NumberFacts
<1>2. Idle \in ProcRecs
  BY <1>1, NoWriteFacts, StateFacts DEF Idle, ProcRecs, Phases
<1>3. /\ Idle.at = "idle" /\ Idle.w = NoWrite /\ Idle.result = "none" /\ Idle.applied = <<>>
      /\ Idle.rolledBack = TRUE /\ Idle.todo = {} /\ Idle.slipped = {}
  BY DEF Idle
<1> QED BY <1>2, <1>3, NoWriteFacts
        DEF ProcOK, PhaseOK, RestOK, SaveOK, ClientOK, StateOK, PlansOK, Resting, SavePhases, ClientPhases

----------------------------------------------------------------------------
(* The steps of a write.                                                   *)

\* z is the write w at a step, with what it holds and what it is to return; a write that
\* took effect and returns an error says so.
WriteAt(z, w, step, temp, ok, undone) ==
    /\ z \in WriteRecs
    /\ z.step = step /\ z.temp = temp /\ z.ok = ok /\ z.undone = undone
    /\ z.target = w.target /\ z.new = w.new /\ z.expected = w.expected /\ z.parent = w.parent
    /\ z.locked = w.locked
    /\ z.late <=> w.late \/ (w.step = "unlink" /\ w.ok /\ ~ok)

LEMMA StepIs ==
    ASSUME NEW w \in WriteRecs, NEW step \in StepNames
    PROVE  WriteAt(Step(w, step), w, step, w.temp, w.ok, w.undone)
  BY ZenonT(30) DEF Step, WriteRecs, WriteAt

LEMMA StepTempIs ==
    ASSUME NEW w \in WriteRecs, NEW step \in StepNames, NEW f \in AnyFile
    PROVE  WriteAt([w EXCEPT !.step = step, !.temp = f], w, step, f, w.ok, w.undone)
  BY ZenonT(30) DEF WriteRecs, WriteAt

LEMMA StepOkIs ==
    ASSUME NEW w \in WriteRecs, NEW step \in StepNames, NEW b \in BOOLEAN, w.step # "unlink"
    PROVE  WriteAt([w EXCEPT !.step = step, !.ok = b], w, step, w.temp, b, w.undone)
  BY ZenonT(30) DEF WriteRecs, WriteAt

LEMMA StepTempOkIs ==
    ASSUME NEW w \in WriteRecs, NEW step \in StepNames, NEW f \in AnyFile, NEW b \in BOOLEAN,
           w.step # "unlink"
    PROVE  WriteAt([w EXCEPT !.step = step, !.temp = f, !.ok = b], w, step, f, b, w.undone)
  BY ZenonT(30) DEF WriteRecs, WriteAt

LEMMA ReturnedIs ==
    ASSUME NEW w \in WriteRecs, NEW b \in BOOLEAN, w.step # "unlink" \/ b = w.ok
    PROVE  WriteAt(Returned(w, b), w, "return", Absent, b, w.undone)
<1>1. "return" \in StepNames /\ Absent \in AnyFile
  BY DEF StepNames, AnyFile
<1> QED BY <1>1, ZenonT(30) DEF WriteRecs, WriteAt, Returned

LEMMA StuckIs ==
    ASSUME NEW w \in WriteRecs, w.step # "unlink"
    PROVE  WriteAt(Stuck(w), w, "return", Absent, FALSE, FALSE)
<1> DEFINE z == Returned(w, FALSE)
<1>1. WriteAt(z, w, "return", Absent, FALSE, w.undone)
  BY ReturnedIs
<1>2. Stuck(w) = [z EXCEPT !.undone = FALSE]
  BY DEF Stuck
<1> HIDE DEF z
<1> QED BY <1>1, <1>2, ZenonT(30) DEF WriteRecs, WriteAt

LEMMA LateIs ==
    ASSUME NEW w \in WriteRecs, w.step = "unlink", ~w.late
    PROVE  WriteAt(Late(w), w, "return", Absent, FALSE, w.undone)
<1> DEFINE z == [w EXCEPT !.step = "return", !.ok = FALSE, !.temp = Absent]  b == w.ok
           v == [z EXCEPT !.late = b]
<1>1. "return" \in StepNames /\ Absent \in AnyFile /\ b \in BOOLEAN
  BY DEF StepNames, AnyFile, WriteRecs
<1>2. Late(w) = v
  BY DEF Late, Returned
<1>3. /\ z \in WriteRecs /\ z.step = "return" /\ z.temp = Absent /\ z.ok = FALSE /\ z.undone = w.undone
      /\ z.target = w.target /\ z.new = w.new /\ z.expected = w.expected /\ z.parent = w.parent
      /\ z.locked = w.locked
  BY <1>1, ZenonT(30) DEF WriteRecs
<1> HIDE DEF z, b
<1>4. /\ v \in WriteRecs /\ v.step = "return" /\ v.temp = Absent /\ v.ok = FALSE /\ v.undone = w.undone
      /\ v.target = w.target /\ v.new = w.new /\ v.expected = w.expected /\ v.parent = w.parent
      /\ v.locked = w.locked /\ v.late = b
  BY <1>1, <1>3, ZenonT(30) DEF WriteRecs
<1> HIDE DEF v
<1> QED BY <1>2, <1>4 DEF WriteAt, b

\* z is the command r with the write v.
Writing(z, r, v) ==
    /\ z \in ProcRecs /\ z.w = v
    /\ z.at = r.at /\ z.cmd = r.cmd /\ z.run = r.run /\ z.clients = r.clients
    /\ z.version = r.version /\ z.lock = r.lock /\ z.directory = r.directory
    /\ z.journal = r.journal /\ z.state = r.state /\ z.recovery = r.recovery
    /\ z.plans = r.plans /\ z.todo = r.todo /\ z.applied = r.applied
    /\ z.slipped = r.slipped /\ z.rolledBack = r.rolledBack /\ z.result = r.result

LEMMA WritingIs ==
    ASSUME NEW r \in ProcRecs, NEW v \in WriteRecs
    PROVE  Writing([r EXCEPT !.w = v], r, v)
  BY ZenonT(30) DEF ProcRecs, Writing

\* A step of p's write: it goes to a step, with a temporary file and what it is to
\* return; the target holds f, and l, if any, stays behind.
Turned(p, step, temp, ok, undone) ==
    /\ DOMAIN proc' = Procs
    /\ Writing(proc'[p], proc[p], proc'[p].w)
    /\ WriteAt(proc'[p].w, proc[p].w, step, temp, ok, undone)
    /\ \A q \in Procs : q # p => proc'[q] = proc[q]
Holds(t, d, f) ==
    /\ file' \in [Targets -> [Dirs -> AnyFile]]
    /\ file'[t][d] = f
    /\ \A t2 \in Targets, d2 \in Dirs : t2 # t \/ d2 # d => file'[t2][d2] = file[t2][d2]
Turn(p, step, temp, ok, undone, f, l) ==
    /\ Turned(p, step, temp, ok, undone)
    /\ Holds(proc[p].w.target, proc[p].w.parent, f)
    /\ left' = IF l = Absent THEN left ELSE left \cup {<<proc[p].w.target, l>>}
    /\ UNCHANGED userVars

LEMMA BecomesIs ==
    ASSUME Typed, NEW p \in Procs, NEW v, Becomes(p, v),
           NEW step, NEW temp, NEW ok, NEW undone, WriteAt(v, proc[p].w, step, temp, ok, undone)
    PROVE  Turned(p, step, temp, ok, undone) /\ UNCHANGED userVars
<1>1. proc[p] \in ProcRecs /\ DOMAIN proc = Procs /\ v \in WriteRecs
  BY DEF Typed, ProcOK, WriteAt
<1> DEFINE z == [proc[p] EXCEPT !.w = v]
<1>2. Writing(z, proc[p], v)
  BY <1>1, WritingIs
<1>3. proc' = [proc EXCEPT ![p] = z] /\ UNCHANGED userVars
  BY DEF Becomes
<1> HIDE DEF z
<1>5. proc'[p] = z /\ DOMAIN proc' = Procs /\ \A q \in Procs : q # p => proc'[q] = proc[q]
  BY <1>1, <1>3
<1>6. z.w = v
  BY <1>2 DEF Writing
<1> QED BY <1>2, <1>3, <1>5, <1>6 DEF Turned

LEMMA FileAt ==
    ASSUME Typed, NEW t \in Targets, NEW d \in Dirs
    PROVE  file[t][d] \in FilesOf(t) \cup {Absent} /\ file[t][d] \in AnyFile
  BY DEF Typed

LEMMA PutIs ==
    ASSUME Typed, NEW w \in WriteRecs, NEW f \in AnyFile, Put(w, f)
    PROVE  Holds(w.target, w.parent, f)
  BY DEF Typed, Put, Holds, WriteRecs

LEMMA KeepIs ==
    ASSUME Typed, NEW w \in WriteRecs, UNCHANGED file
    PROVE  Holds(w.target, w.parent, Target(w))
  BY DEF Typed, Holds, WriteRecs, Target

LEMMA WriteTyped ==
    ASSUME Typed, NEW p \in Procs
    PROVE  /\ proc[p] \in ProcRecs /\ proc[p].w \in WriteRecs
           /\ proc[p].w.target \in Targets /\ proc[p].w.parent \in Dirs
           /\ proc[p].w.ok \in BOOLEAN /\ proc[p].w.undone \in BOOLEAN /\ proc[p].w.step \in StepNames
           /\ proc[p].w.temp \in FilesOf(proc[p].w.target) \cup {Absent} /\ proc[p].w.temp \in AnyFile
           /\ proc[p].w.expected \in FilesOf(proc[p].w.target) \cup {Absent}
           /\ proc[p].w.new \in ContentsOf(proc[p].w.target) \cup {Absent}
           /\ Target(proc[p].w) \in FilesOf(proc[p].w.target) \cup {Absent} /\ Target(proc[p].w) \in AnyFile
           /\ proc[p].w.new # Absent => /\ Staged(proc[p]) \in FilesOf(proc[p].w.target)
                                         /\ Staged(proc[p]) \in AnyFile
                                         /\ Staged(proc[p]) # Absent
                                         /\ Staged(proc[p]).content = proc[p].w.new
                                         /\ Staged(proc[p]).run = proc[p].run
<1> DEFINE r == proc[p]  w == r.w
<1>1. r \in ProcRecs /\ WriteOK(w)
  BY DEF Typed, ProcOK
<1>2. w \in WriteRecs /\ r.run \in 0..MaxRuns
  BY <1>1 DEF ProcRecs
<1>3. /\ w.target \in Targets /\ w.parent \in Dirs /\ w.ok \in BOOLEAN /\ w.undone \in BOOLEAN
      /\ w.step \in StepNames /\ w.temp \in AnyFile
  BY <1>2 DEF WriteRecs
<1>4. /\ w.temp \in FilesOf(w.target) \cup {Absent} /\ w.expected \in FilesOf(w.target) \cup {Absent}
      /\ w.new \in ContentsOf(w.target) \cup {Absent}
  BY <1>1 DEF WriteOK
<1>5. Target(w) \in FilesOf(w.target) \cup {Absent} /\ Target(w) \in AnyFile
  BY <1>3, FileAt DEF Target
<1>6. ASSUME w.new # Absent
      PROVE  /\ Staged(r) \in FilesOf(w.target) /\ Staged(r) \in AnyFile /\ Staged(r) # Absent
             /\ Staged(r).content = w.new /\ Staged(r).run = r.run
  <2>1. w.new \in ContentsOf(w.target)
    BY <1>4, <1>6
  <2>2. /\ File(w.new, r.run) \in FilesOf(w.target) /\ File(w.new, r.run) # Absent
        /\ File(w.new, r.run).content = w.new /\ File(w.new, r.run).run = r.run
    BY <1>2, <1>3, <2>1, FileMade
  <2> QED BY <2>2, <1>3, TargetFacts DEF Staged
<1> QED BY <1>1, <1>2, <1>3, <1>4, <1>5, <1>6

NewFile(r) == IF r.w.new = Absent THEN Absent ELSE Staged(r)

LEMMA CheckTurn ==
    ASSUME Typed, NEW p \in Procs, Check(p)
    PROVE  LET w == proc[p].w  T == Target(w) IN
           /\ w.step = "check"
           /\ \/ T = w.expected /\ Turn(p, "swap", NewFile(proc[p]), w.ok, w.undone, T, Absent)
              \/ Turn(p, "return", Absent, FALSE, w.undone, T, Absent)
<1> DEFINE r == proc[p]  w == r.w  T == Target(w)  f == NewFile(r)
           yes == [w EXCEPT !.step = "swap", !.temp = f]
<1>1. w \in WriteRecs /\ f \in AnyFile
  BY WriteTyped DEF NewFile, AnyFile
<1>2. w.step = "check" /\ UNCHANGED <<file, left>>
  BY DEF Check
<1>3. \/ T = w.expected /\ Becomes(p, yes)
      \/ Becomes(p, Returned(w, FALSE))
  BY DEF Check, NewFile
<1>4. "swap" \in StepNames
  BY DEF StepNames
<1>s. w.step # "unlink"
  BY <1>2
<1>5. WriteAt(yes, w, "swap", f, w.ok, w.undone) /\ WriteAt(Returned(w, FALSE), w, "return", Absent, FALSE, w.undone)
  BY <1>1, <1>s, <1>4, StepTempIs, ReturnedIs
<1>6. Holds(w.target, w.parent, T)
  BY <1>1, <1>2, KeepIs
<1> HIDE DEF yes, f
<1>7. CASE T = w.expected /\ Becomes(p, yes)
  <2>1. Turned(p, "swap", f, w.ok, w.undone) /\ UNCHANGED userVars
    BY <1>5, <1>7, BecomesIs
  <2> QED BY <1>2, <1>6, <1>7, <2>1 DEF Turn, f
<1>8. CASE Becomes(p, Returned(w, FALSE))
  <2>1. Turned(p, "return", Absent, FALSE, w.undone) /\ UNCHANGED userVars
    BY <1>5, <1>8, BecomesIs
  <2> QED BY <1>2, <1>6, <2>1 DEF Turn
<1> QED BY <1>3, <1>7, <1>8

LEMMA TurnIs ==
    ASSUME Typed, NEW p \in Procs, NEW v, Becomes(p, v),
           NEW step, NEW temp, NEW ok, NEW undone, WriteAt(v, proc[p].w, step, temp, ok, undone),
           NEW f, NEW l, Holds(proc[p].w.target, proc[p].w.parent, f),
           left' = IF l = Absent THEN left ELSE left \cup {<<proc[p].w.target, l>>}
    PROVE  Turn(p, step, temp, ok, undone, f, l)
  BY BecomesIs DEF Turn

LEMMA SwapTurn ==
    ASSUME Typed, NEW p \in Procs, Swap(p)
    PROVE  LET w == proc[p].w  T == Target(w) IN
           /\ w.step = "swap"
           /\ \/ /\ w.new # Absent /\ w.expected = Absent /\ T = Absent
                 /\ Turn(p, "parent", Absent, w.ok, w.undone, w.temp, Absent)
              \/ /\ w.new # Absent /\ w.expected # Absent /\ T # Absent
                 /\ Turn(p, "compare", T, w.ok, w.undone, w.temp, Absent)
              \/ /\ w.new = Absent /\ T # Absent
                 /\ Turn(p, "compare", T, w.ok, w.undone, Absent, Absent)
              \/ Turn(p, "return", Absent, FALSE, w.undone, T, Absent)
<1> DEFINE w == proc[p].w  T == Target(w)
           v1 == [w EXCEPT !.step = "parent", !.temp = Absent]
           v2 == [w EXCEPT !.step = "compare", !.temp = T]
           v3 == Returned(w, FALSE)
<1>1. w \in WriteRecs /\ w.temp \in AnyFile /\ T \in AnyFile /\ Absent \in AnyFile
  BY WriteTyped DEF AnyFile
<1>2. w.step = "swap" /\ left' = left
  BY DEF Swap
<1>3. \/ w.new # Absent /\ w.expected = Absent /\ T = Absent /\ Put(w, w.temp) /\ Becomes(p, v1)
      \/ w.new # Absent /\ w.expected # Absent /\ T # Absent /\ Put(w, w.temp) /\ Becomes(p, v2)
      \/ w.new = Absent /\ T # Absent /\ Put(w, Absent) /\ Becomes(p, v2)
      \/ Becomes(p, v3) /\ UNCHANGED file
  BY DEF Swap
<1>4. "parent" \in StepNames /\ "compare" \in StepNames
  BY DEF StepNames
<1>s. w.step # "unlink"
  BY <1>2
<1>5. /\ WriteAt(v1, w, "parent", Absent, w.ok, w.undone)
      /\ WriteAt(v2, w, "compare", T, w.ok, w.undone)
      /\ WriteAt(v3, w, "return", Absent, FALSE, w.undone)
  BY <1>1, <1>s, <1>4, StepTempIs, ReturnedIs
<1> HIDE DEF v1, v2, v3
<1>6. CASE w.new # Absent /\ w.expected = Absent /\ T = Absent /\ Put(w, w.temp) /\ Becomes(p, v1)
  <2>1. Holds(w.target, w.parent, w.temp)
    BY <1>1, <1>6, PutIs
  <2>2. Turn(p, "parent", Absent, w.ok, w.undone, w.temp, Absent)
    BY <1>2, <1>5, <1>6, <2>1, TurnIs
  <2> QED BY <1>2, <1>6, <2>2
<1>7. CASE w.new # Absent /\ w.expected # Absent /\ T # Absent /\ Put(w, w.temp) /\ Becomes(p, v2)
  <2>1. Holds(w.target, w.parent, w.temp)
    BY <1>1, <1>7, PutIs
  <2>2. Turn(p, "compare", T, w.ok, w.undone, w.temp, Absent)
    BY <1>2, <1>5, <1>7, <2>1, TurnIs
  <2> QED BY <1>2, <1>7, <2>2
<1>8. CASE w.new = Absent /\ T # Absent /\ Put(w, Absent) /\ Becomes(p, v2)
  <2>1. Holds(w.target, w.parent, Absent)
    BY <1>1, <1>8, PutIs
  <2>2. Turn(p, "compare", T, w.ok, w.undone, Absent, Absent)
    BY <1>2, <1>5, <1>8, <2>1, TurnIs
  <2> QED BY <1>2, <1>8, <2>2
<1>9. CASE Becomes(p, v3) /\ UNCHANGED file
  <2>1. Holds(w.target, w.parent, T)
    BY <1>1, <1>9, KeepIs
  <2>2. Turn(p, "return", Absent, FALSE, w.undone, T, Absent)
    BY <1>2, <1>5, <1>9, <2>1, TurnIs
  <2> QED BY <1>2, <2>2
<1> QED BY <1>3, <1>6, <1>7, <1>8, <1>9

LEMMA CompareTurn ==
    ASSUME Typed, NEW p \in Procs, Compare(p)
    PROVE  LET r == proc[p]  w == r.w  T == Target(w) IN
           /\ w.step = "compare"
           /\ \/ w.temp = w.expected /\ Turn(p, "parent", w.temp, w.ok, w.undone, T, Absent)
              \/ /\ w.temp # w.expected /\ (w.new = Absent \/ T = Staged(r))
                 /\ Turn(p, "undo", w.temp, w.ok, w.undone, T, Absent)
              \/ /\ w.temp # w.expected /\ w.new # Absent /\ T # Staged(r)
                 /\ Turn(p, "return", Absent, FALSE, w.undone, T, w.temp)
<1> DEFINE r == proc[p]  w == r.w  T == Target(w)
           v1 == Step(w, "parent")
           v2 == Step(w, "undo")
           v3 == Returned(w, FALSE)
<1>1. w \in WriteRecs /\ w.temp \in AnyFile /\ T \in AnyFile /\ Absent \in AnyFile
  BY WriteTyped DEF AnyFile
<1>2. w.step = "compare" /\ file' = file
  BY DEF Compare
<1>a. w.temp # Absent
  BY <1>2 DEF Typed, ProcOK, WriteOK
<1>3. \/ w.temp = w.expected /\ Becomes(p, v1) /\ left' = left
      \/ w.temp # w.expected /\ (w.new = Absent \/ T = Staged(r)) /\ Becomes(p, v2) /\ left' = left
      \/ w.temp # w.expected /\ w.new # Absent /\ T # Staged(r) /\ Leave(w) /\ Becomes(p, v3)
  BY DEF Compare, Matches
<1>4. "parent" \in StepNames /\ "undo" \in StepNames
  BY DEF StepNames
<1>s. w.step # "unlink"
  BY <1>2
<1>5. /\ WriteAt(v1, w, "parent", w.temp, w.ok, w.undone)
      /\ WriteAt(v2, w, "undo", w.temp, w.ok, w.undone)
      /\ WriteAt(v3, w, "return", Absent, FALSE, w.undone)
  BY <1>1, <1>s, <1>4, StepIs, ReturnedIs
<1>6. Holds(w.target, w.parent, T)
  BY <1>1, <1>2, KeepIs
<1> HIDE DEF v1, v2, v3
<1>7. CASE w.temp = w.expected /\ Becomes(p, v1) /\ left' = left
  <2>1. Turn(p, "parent", w.temp, w.ok, w.undone, T, Absent)
    BY <1>5, <1>6, <1>7, TurnIs
  <2> QED BY <1>2, <1>7, <2>1
<1>8. CASE w.temp # w.expected /\ (w.new = Absent \/ T = Staged(r)) /\ Becomes(p, v2) /\ left' = left
  <2>1. Turn(p, "undo", w.temp, w.ok, w.undone, T, Absent)
    BY <1>5, <1>6, <1>8, TurnIs
  <2> QED BY <1>2, <1>8, <2>1
<1>9. CASE w.temp # w.expected /\ w.new # Absent /\ T # Staged(r) /\ Leave(w) /\ Becomes(p, v3)
  <2>1. left' = IF w.temp = Absent THEN left ELSE left \cup {<<w.target, w.temp>>}
    BY <1>9, <1>a DEF Leave
  <2>2. Turn(p, "return", Absent, FALSE, w.undone, T, w.temp)
    BY <1>5, <1>6, <1>9, <2>1, TurnIs
  <2> QED BY <1>2, <1>9, <2>2
<1> QED BY <1>3, <1>7, <1>8, <1>9

LEMMA UndoTurn ==
    ASSUME Typed, NEW p \in Procs, Undo(p)
    PROVE  LET w == proc[p].w  T == Target(w) IN
           /\ w.step = "undo"
           /\ \/ /\ w.new # Absent /\ T # Absent
                 /\ Turn(p, "unlink", T, FALSE, w.undone, w.temp, Absent)
              \/ /\ w.new = Absent /\ T = Absent
                 /\ Turn(p, "return", Absent, FALSE, w.undone, w.temp, Absent)
              \/ /\ w.new = Absent /\ T # Absent
                 /\ Turn(p, "return", Absent, FALSE, w.undone, T, w.temp)
              \/ /\ w.new # Absent /\ T = Absent
                 /\ Turn(p, "return", Absent, FALSE, FALSE, T, w.temp)
<1> DEFINE w == proc[p].w  T == Target(w)
           v1 == [w EXCEPT !.step = "unlink", !.temp = T, !.ok = FALSE]
           v2 == Returned(w, FALSE)
           v3 == Stuck(w)
<1>1. w \in WriteRecs /\ w.temp \in AnyFile /\ T \in AnyFile /\ Absent \in AnyFile
  BY WriteTyped DEF AnyFile
<1>2. w.step = "undo"
  BY DEF Undo
<1>a. w.temp # Absent
  BY <1>2 DEF Typed, ProcOK, WriteOK
<1>3. \/ w.new # Absent /\ T # Absent /\ Put(w, w.temp) /\ Becomes(p, v1) /\ left' = left
      \/ w.new = Absent /\ T = Absent /\ Put(w, w.temp) /\ Becomes(p, v2) /\ left' = left
      \/ w.new = Absent /\ T # Absent /\ Leave(w) /\ Becomes(p, v2) /\ UNCHANGED file
      \/ w.new # Absent /\ T = Absent /\ Leave(w) /\ Becomes(p, v3) /\ UNCHANGED file
  BY DEF Undo
<1>4. "unlink" \in StepNames
  BY DEF StepNames
<1>s. w.step # "unlink"
  BY <1>2
<1>5. /\ WriteAt(v1, w, "unlink", T, FALSE, w.undone)
      /\ WriteAt(v2, w, "return", Absent, FALSE, w.undone)
      /\ WriteAt(v3, w, "return", Absent, FALSE, FALSE)
  BY <1>1, <1>s, <1>4, StepTempOkIs, ReturnedIs, StuckIs
<1>6. UNCHANGED file => Holds(w.target, w.parent, T)
  BY <1>1, KeepIs
<1>b. Put(w, w.temp) => Holds(w.target, w.parent, w.temp)
  BY <1>1, PutIs
<1>c. Leave(w) => left' = IF w.temp = Absent THEN left ELSE left \cup {<<w.target, w.temp>>}
  BY <1>a DEF Leave
<1> HIDE DEF v1, v2, v3
<1>7. CASE w.new # Absent /\ T # Absent /\ Put(w, w.temp) /\ Becomes(p, v1) /\ left' = left
  <2>1. Turn(p, "unlink", T, FALSE, w.undone, w.temp, Absent)
    BY <1>5, <1>b, <1>7, TurnIs
  <2> QED BY <1>2, <1>7, <2>1
<1>8. CASE w.new = Absent /\ T = Absent /\ Put(w, w.temp) /\ Becomes(p, v2) /\ left' = left
  <2>1. Turn(p, "return", Absent, FALSE, w.undone, w.temp, Absent)
    BY <1>5, <1>b, <1>8, TurnIs
  <2> QED BY <1>2, <1>8, <2>1
<1>9. CASE w.new = Absent /\ T # Absent /\ Leave(w) /\ Becomes(p, v2) /\ UNCHANGED file
  <2>1. Turn(p, "return", Absent, FALSE, w.undone, T, w.temp)
    BY <1>5, <1>6, <1>c, <1>9, TurnIs
  <2> QED BY <1>2, <1>9, <2>1
<1>10. CASE w.new # Absent /\ T = Absent /\ Leave(w) /\ Becomes(p, v3) /\ UNCHANGED file
  <2>1. Turn(p, "return", Absent, FALSE, FALSE, T, w.temp)
    BY <1>5, <1>6, <1>c, <1>10, TurnIs
  <2> QED BY <1>2, <1>10, <2>1
<1> QED BY <1>3, <1>7, <1>8, <1>9, <1>10

LEMMA VerifyParentTurn ==
    ASSUME Typed, NEW p \in Procs, VerifyParent(p)
    PROVE  LET w == proc[p].w  T == Target(w) IN
           /\ w.step = "parent"
           /\ \/ Turn(p, "unlink", w.temp, TRUE, w.undone, T, Absent)
              \/ Turn(p, "back", w.temp, w.ok, w.undone, T, Absent)
<1> DEFINE w == proc[p].w  T == Target(w)
           v1 == [w EXCEPT !.step = "unlink", !.ok = TRUE]
           v2 == Step(w, "back")
<1>1. w \in WriteRecs
  BY WriteTyped
<1>2. w.step = "parent" /\ UNCHANGED <<file, left>> /\ (Becomes(p, v1) \/ Becomes(p, v2))
  BY DEF VerifyParent
<1>4. "unlink" \in StepNames /\ "back" \in StepNames
  BY DEF StepNames
<1>s. w.step # "unlink"
  BY <1>2
<1>5. WriteAt(v1, w, "unlink", w.temp, TRUE, w.undone) /\ WriteAt(v2, w, "back", w.temp, w.ok, w.undone)
  BY <1>1, <1>s, <1>4, StepOkIs, StepIs
<1>6. Holds(w.target, w.parent, T)
  BY <1>1, <1>2, KeepIs
<1> HIDE DEF v1, v2
<1>7. Becomes(p, v1) => Turn(p, "unlink", w.temp, TRUE, w.undone, T, Absent)
  BY <1>2, <1>5, <1>6, TurnIs
<1>8. Becomes(p, v2) => Turn(p, "back", w.temp, w.ok, w.undone, T, Absent)
  BY <1>2, <1>5, <1>6, TurnIs
<1> QED BY <1>2, <1>7, <1>8

LEMMA BackTurn ==
    ASSUME Typed, NEW p \in Procs, Back(p)
    PROVE  LET w == proc[p].w  T == Target(w) IN
           /\ w.step = "back"
           /\ \/ /\ w.new # Absent /\ T # Absent
                 /\ Turn(p, "recheck", T, w.ok, w.undone, w.temp, Absent)
              \/ /\ w.new = Absent /\ T = Absent
                 /\ Turn(p, "return", Absent, FALSE, w.undone, w.temp, Absent)
              \/ /\ (w.new = Absent) <=> T # Absent
                 /\ Turn(p, "return", Absent, FALSE, FALSE, T, w.temp)
<1> DEFINE w == proc[p].w  T == Target(w)
           v1 == [w EXCEPT !.step = "recheck", !.temp = T]
           v2 == Returned(w, FALSE)
           v3 == Stuck(w)
<1>1. w \in WriteRecs /\ w.temp \in AnyFile /\ T \in AnyFile /\ Absent \in AnyFile
  BY WriteTyped DEF AnyFile
<1>2. w.step = "back"
  BY DEF Back
<1>3. \/ w.new # Absent /\ T # Absent /\ Put(w, w.temp) /\ Becomes(p, v1) /\ left' = left
      \/ w.new = Absent /\ T = Absent /\ Put(w, w.temp) /\ Becomes(p, v2) /\ left' = left
      \/ /\ (w.new = Absent) <=> T # Absent
         /\ (IF w.temp = Absent THEN left' = left ELSE Leave(w)) /\ Becomes(p, v3) /\ UNCHANGED file
  BY DEF Back
<1>4. "recheck" \in StepNames
  BY DEF StepNames
<1>s. w.step # "unlink"
  BY <1>2
<1>5. /\ WriteAt(v1, w, "recheck", T, w.ok, w.undone)
      /\ WriteAt(v2, w, "return", Absent, FALSE, w.undone)
      /\ WriteAt(v3, w, "return", Absent, FALSE, FALSE)
  BY <1>1, <1>s, <1>4, StepTempIs, ReturnedIs, StuckIs
<1>6. UNCHANGED file => Holds(w.target, w.parent, T)
  BY <1>1, KeepIs
<1>b. Put(w, w.temp) => Holds(w.target, w.parent, w.temp)
  BY <1>1, PutIs
<1> HIDE DEF v1, v2, v3
<1>7. CASE w.new # Absent /\ T # Absent /\ Put(w, w.temp) /\ Becomes(p, v1) /\ left' = left
  <2>1. Turn(p, "recheck", T, w.ok, w.undone, w.temp, Absent)
    BY <1>5, <1>b, <1>7, TurnIs
  <2> QED BY <1>2, <1>7, <2>1
<1>8. CASE w.new = Absent /\ T = Absent /\ Put(w, w.temp) /\ Becomes(p, v2) /\ left' = left
  <2>1. Turn(p, "return", Absent, FALSE, w.undone, w.temp, Absent)
    BY <1>5, <1>b, <1>8, TurnIs
  <2> QED BY <1>2, <1>8, <2>1
<1>9. CASE /\ (w.new = Absent) <=> T # Absent
           /\ (IF w.temp = Absent THEN left' = left ELSE Leave(w)) /\ Becomes(p, v3) /\ UNCHANGED file
  <2>1. left' = IF w.temp = Absent THEN left ELSE left \cup {<<w.target, w.temp>>}
    BY <1>9 DEF Leave
  <2>2. Turn(p, "return", Absent, FALSE, FALSE, T, w.temp)
    BY <1>5, <1>6, <1>9, <2>1, TurnIs
  <2> QED BY <1>2, <1>9, <2>2
<1> QED BY <1>3, <1>7, <1>8, <1>9

LEMMA RecheckTurn ==
    ASSUME Typed, NEW p \in Procs, Recheck(p)
    PROVE  LET r == proc[p]  w == r.w  T == Target(w) IN
           /\ w.step = "recheck"
           /\ \/ /\ w.temp = Staged(r) /\ (w.expected # Absent => T = w.expected)
                 /\ Turn(p, "unlink", w.temp, FALSE, w.undone, T, Absent)
              \/ /\ ~(w.temp = Staged(r) /\ (w.expected # Absent => T = w.expected))
                 /\ Turn(p, "forward", w.temp, w.ok, w.undone, T, Absent)
<1> DEFINE r == proc[p]  w == r.w  T == Target(w)
           v1 == [w EXCEPT !.step = "unlink", !.ok = FALSE]
           v2 == Step(w, "forward")
<1>1. w \in WriteRecs
  BY WriteTyped
<1>2. w.step = "recheck" /\ UNCHANGED <<file, left>> /\ Becomes(p, IF TakenBack(r) THEN v1 ELSE v2)
  BY DEF Recheck
<1>4. "unlink" \in StepNames /\ "forward" \in StepNames
  BY DEF StepNames
<1>s. w.step # "unlink"
  BY <1>2
<1>5. WriteAt(v1, w, "unlink", w.temp, FALSE, w.undone) /\ WriteAt(v2, w, "forward", w.temp, w.ok, w.undone)
  BY <1>1, <1>s, <1>4, StepOkIs, StepIs
<1>6. Holds(w.target, w.parent, T)
  BY <1>1, <1>2, KeepIs
<1> HIDE DEF v1, v2
<1>7. Becomes(p, v1) => Turn(p, "unlink", w.temp, FALSE, w.undone, T, Absent)
  BY <1>2, <1>5, <1>6, TurnIs
<1>8. Becomes(p, v2) => Turn(p, "forward", w.temp, w.ok, w.undone, T, Absent)
  BY <1>2, <1>5, <1>6, TurnIs
<1> QED BY <1>2, <1>7, <1>8 DEF TakenBack

LEMMA ForwardTurn ==
    ASSUME Typed, NEW p \in Procs, Forward(p)
    PROVE  LET w == proc[p].w  T == Target(w) IN
           /\ w.step = "forward"
           /\ \/ /\ w.expected # Absent /\ T # Absent
                 /\ Turn(p, "return", Absent, FALSE, FALSE, w.temp, T)
              \/ /\ w.expected = Absent /\ T = Absent
                 /\ Turn(p, "return", Absent, FALSE, FALSE, w.temp, Absent)
              \/ Turn(p, "return", Absent, FALSE, FALSE, T, w.temp)
<1> DEFINE w == proc[p].w  T == Target(w)  v == Stuck(w)
<1>1. w \in WriteRecs /\ w.temp \in AnyFile /\ T \in AnyFile /\ Absent \in AnyFile
  BY WriteTyped DEF AnyFile
<1>2. w.step = "forward" /\ Becomes(p, v)
  BY DEF Forward
<1>a. w.temp # Absent
  BY <1>2 DEF Typed, ProcOK, WriteOK
<1>3. \/ w.expected # Absent /\ T # Absent /\ Put(w, w.temp) /\ left' = left \cup {<<w.target, T>>}
      \/ w.expected = Absent /\ T = Absent /\ Put(w, w.temp) /\ left' = left
      \/ Leave(w) /\ UNCHANGED file
  BY DEF Forward
<1>s. w.step # "unlink"
  BY <1>2
<1>5. WriteAt(v, w, "return", Absent, FALSE, FALSE)
  BY <1>1, <1>s, StuckIs
<1>6. UNCHANGED file => Holds(w.target, w.parent, T)
  BY <1>1, KeepIs
<1>b. Put(w, w.temp) => Holds(w.target, w.parent, w.temp)
  BY <1>1, PutIs
<1> HIDE DEF v
<1>7. CASE w.expected # Absent /\ T # Absent /\ Put(w, w.temp) /\ left' = left \cup {<<w.target, T>>}
  <2>1. left' = IF T = Absent THEN left ELSE left \cup {<<w.target, T>>}
    BY <1>7
  <2>2. Turn(p, "return", Absent, FALSE, FALSE, w.temp, T)
    BY <1>2, <1>5, <1>b, <1>7, <2>1, TurnIs
  <2> QED BY <1>2, <1>7, <2>2
<1>8. CASE w.expected = Absent /\ T = Absent /\ Put(w, w.temp) /\ left' = left
  <2>2. Turn(p, "return", Absent, FALSE, FALSE, w.temp, Absent)
    BY <1>2, <1>5, <1>b, <1>8, TurnIs
  <2> QED BY <1>2, <1>8, <2>2
<1>9. CASE Leave(w) /\ UNCHANGED file
  <2>1. left' = IF w.temp = Absent THEN left ELSE left \cup {<<w.target, w.temp>>}
    BY <1>9, <1>a DEF Leave
  <2>2. Turn(p, "return", Absent, FALSE, FALSE, T, w.temp)
    BY <1>2, <1>5, <1>6, <1>9, <2>1, TurnIs
  <2> QED BY <1>2, <2>2
<1> QED BY <1>3, <1>7, <1>8, <1>9

LEMMA UnlinkTurn ==
    ASSUME Typed, NEW p \in Procs, Unlink(p)
    PROVE  LET w == proc[p].w IN
           w.step = "unlink" /\ Turn(p, "return", Absent, w.ok, w.undone, Target(w), Absent)
<1> DEFINE w == proc[p].w  v == Returned(w, w.ok)
<1>1. w \in WriteRecs /\ w.ok \in BOOLEAN
  BY WriteTyped
<1>2. w.step = "unlink" /\ UNCHANGED <<file, left>> /\ Becomes(p, v)
  BY DEF Unlink
<1>3. WriteAt(v, w, "return", Absent, w.ok, w.undone)
  BY <1>1, ReturnedIs
<1>4. Holds(w.target, w.parent, Target(w))
  BY <1>1, <1>2, KeepIs
<1> HIDE DEF v
<1>5. Turn(p, "return", Absent, w.ok, w.undone, Target(w), Absent)
  BY <1>2, <1>3, <1>4, TurnIs
<1> QED BY <1>2, <1>5

LEMMA UnlinkFailsTurn ==
    ASSUME Typed, NEW p \in Procs, UnlinkFails(p)
    PROVE  LET w == proc[p].w IN
           /\ w.step = "unlink"
           /\ \/ Turn(p, "return", Absent, FALSE, w.undone, Target(w), Absent)
              \/ Turn(p, "return", Absent, FALSE, w.undone, Target(w), w.temp)
<1> DEFINE w == proc[p].w  v == Late(w)
<1>1. w \in WriteRecs /\ WriteOK(w)
  BY WriteTyped DEF Typed, ProcOK
<1>2. w.step = "unlink" /\ UNCHANGED file /\ Becomes(p, v) /\ ((w.temp # Absent /\ Leave(w)) \/ UNCHANGED left)
  BY DEF UnlinkFails
<1>a. w.step = "unlink" /\ ~w.late
  BY <1>1, <1>2 DEF WriteOK
<1>3. WriteAt(v, w, "return", Absent, FALSE, w.undone)
  BY <1>1, <1>a, LateIs
<1>4. Holds(w.target, w.parent, Target(w))
  BY <1>1, <1>2, KeepIs
<1> HIDE DEF v
<1>5. CASE UNCHANGED left
  BY <1>2, <1>3, <1>4, <1>5, TurnIs
<1>6. CASE w.temp # Absent /\ Leave(w)
  <2>1. left' = IF w.temp = Absent THEN left ELSE left \cup {<<w.target, w.temp>>}
    BY <1>6 DEF Leave
  <2> QED BY <1>2, <1>3, <1>4, <2>1, TurnIs
<1> QED BY <1>2, <1>5, <1>6

----------------------------------------------------------------------------
(* The steps of a write keep the types.                                    *)

LEMMA PhaseOfWrite ==
    ASSUME NEW r, ProcOK(r), r.w.step \in WriteSteps
    PROVE  r.at \in SavePhases \cup ClientPhases
  BY NoWriteFacts DEF ProcOK, PhaseOK, RestOK, ProcRecs, Phases, Resting, SavePhases, ClientPhases, WriteSteps

\* The next step of w suits what w is to hold then, and the files are of its target's kind.
Fits(w, step, temp, f, l) ==
    /\ w.step \in WriteSteps \ {"return"} /\ step \in WriteSteps
    /\ {temp, f, l} \subseteq FilesOf(w.target) \cup {Absent}
    /\ step \in {"check", "return"} => temp = Absent
    /\ step \in {"compare", "undo", "recheck", "forward"} => temp # Absent
    /\ w.step = "unlink" => step = "return"

LEMMA TurnTyped ==
    ASSUME Typed, NEW p \in Procs, NEW step, NEW ok, NEW undone, NEW temp, NEW f, NEW l,
           Turn(p, step, temp, ok, undone, f, l), Fits(proc[p].w, step, temp, f, l)
    PROVE  Typed'
<1> DEFINE r == proc[p]  w == r.w  z == proc'[p]  v == z.w
<1>1. /\ ProcOK(r) /\ w.target \in Targets /\ w.parent \in Dirs
      /\ w.new \in ContentsOf(w.target) \cup {Absent} /\ w.expected \in FilesOf(w.target) \cup {Absent}
      /\ w.step \in WriteSteps \ {"return"} /\ step \in WriteSteps
      /\ temp \in FilesOf(w.target) \cup {Absent} /\ f \in FilesOf(w.target) \cup {Absent}
      /\ l \in FilesOf(w.target) \cup {Absent}
      /\ step \in {"check", "return"} => temp = Absent
      /\ step \in {"compare", "undo", "recheck", "forward"} => temp # Absent
      /\ (w.step = "unlink" => step = "return") /\ WriteOK(w)
  BY WriteTyped DEF Typed, Fits, ProcOK
<1>2. /\ DOMAIN proc' = Procs /\ Writing(z, r, v) /\ WriteAt(v, w, step, temp, ok, undone)
      /\ \A q \in Procs : q # p => proc'[q] = proc[q]
      /\ Holds(w.target, w.parent, f) /\ UNCHANGED userVars
      /\ left' = IF l = Absent THEN left ELSE left \cup {<<w.target, l>>}
  BY DEF Turn, Turned
<1>3. WriteOK(v)
  <2>1. ~w.late
    BY <1>1 DEF WriteOK
  <2>2. v.late => v.step = "return" /\ ~v.ok
    BY <1>1, <1>2, <2>1 DEF WriteAt
  <2> QED BY <1>1, <1>2, <2>2 DEF WriteAt, WriteOK, WriteSteps
<1>4. PhaseOK(z)
  <2>1. r.at \in SavePhases \cup ClientPhases
    BY <1>1, PhaseOfWrite
  <2>2. RestOK(z)
    BY <1>1, <1>2, <2>1 DEF ProcOK, PhaseOK, RestOK, Writing, Resting, SavePhases, ClientPhases
  <2>3. SaveOK(z)
    BY <1>1, <1>2 DEF ProcOK, PhaseOK, SaveOK, Writing, WriteAt
  <2>4. ClientOK(z)
    BY <1>1, <1>2 DEF ProcOK, PhaseOK, ClientOK, Writing, WriteAt, Goal
  <2>5. StateOK(z)
    BY <1>1, <1>2 DEF ProcOK, PhaseOK, StateOK, Writing
  <2>6. PlansOK(z)
    <3>1. PlansOK(r)
      BY <1>1 DEF ProcOK, PhaseOK
    <3>2. \A a : ChangeOK(r, a) => ChangeOK(z, a)
      BY <1>2 DEF ChangeOK, Writing
    <3>3. \A c : PlanOK(r, c) => PlanOK(z, c)
      BY <1>2 DEF PlanOK, Writing
    <3> QED BY <1>2, <3>1, <3>2, <3>3 DEF PlansOK, Writing
  <2> QED BY <2>2, <2>3, <2>4, <2>5, <2>6 DEF PhaseOK
<1>5. ProcOK(z)
  BY <1>2, <1>3, <1>4 DEF ProcOK, Writing
<1>6. \A q \in Procs : ProcOK(proc'[q])
  BY <1>2, <1>5 DEF Typed
<1>7. \A t \in Targets, d \in Dirs : file'[t][d] \in FilesOf(t) \cup {Absent}
  BY <1>1, <1>2 DEF Holds, Typed
<1>8. \A k \in left' : k[1] \in Targets /\ k[2] \in FilesOf(k[1])
  <2> TAKE k \in left'
  <2>1. CASE k \in left
    BY <2>1 DEF Typed
  <2>2. CASE k \notin left
    <3>1. l # Absent /\ k = <<w.target, l>>
      BY <1>2, <2>2
    <3>2. k[1] = w.target /\ k[2] = l
      BY <3>1
    <3> QED BY <1>1, <3>1, <3>2
  <2> QED BY <2>1, <2>2
<1> QED BY <1>2, <1>6, <1>7, <1>8 DEF Typed, userVars, historyVars, Holds

LEMMA NewFileTyped ==
    ASSUME Typed, NEW p \in Procs
    PROVE  NewFile(proc[p]) \in FilesOf(proc[p].w.target) \cup {Absent}
  BY WriteTyped DEF NewFile

LEMMA StepFacts ==
    /\ "check" \in WriteSteps /\ "swap" \in WriteSteps /\ "compare" \in WriteSteps /\ "undo" \in WriteSteps
    /\ "parent" \in WriteSteps /\ "back" \in WriteSteps /\ "recheck" \in WriteSteps
    /\ "forward" \in WriteSteps /\ "unlink" \in WriteSteps /\ "return" \in WriteSteps
    /\ "none" \notin WriteSteps /\ "rescuing" \notin WriteSteps /\ "rescued" \notin WriteSteps
  BY DEF WriteSteps, StepNames

\* A step of a write keeps the types.
LEMMA WriteStepTyped ==
    ASSUME Typed, NEW p \in Procs, WriteStep(p)
    PROVE  Typed' /\ proc[p].w.step \in WriteSteps \ {"return"}
<1> DEFINE w == proc[p].w  T == Target(w)  N == NewFile(proc[p])
<1>1. {w.temp, T, N, Absent} \subseteq FilesOf(w.target) \cup {Absent}
  BY WriteTyped, NewFileTyped
<1>2. w.step \in {"compare", "undo", "recheck", "forward"} => w.temp # Absent
  BY DEF Typed, ProcOK, WriteOK
<1> HIDE DEF N
<1>a. CASE Check(p)
  <2>1. w.step = "check" /\ w.step \in WriteSteps \ {"return"}
    BY <1>a, StepFacts, CheckTurn
  <2>2. Fits(w, "swap", N, T, Absent)
    BY <1>1, <1>2, <2>1, StepFacts DEF Fits
  <2>3. Turn(p, "swap", N, w.ok, w.undone, T, Absent) => Typed'
    BY <2>2, TurnTyped
  <2>4. Fits(w, "return", Absent, T, Absent)
    BY <1>1, <1>2, <2>1, StepFacts DEF Fits
  <2>5. Turn(p, "return", Absent, FALSE, w.undone, T, Absent) => Typed'
    BY <2>4, TurnTyped
  <2> QED BY <1>a, <2>1, <2>3, <2>5, CheckTurn DEF N
<1>b. CASE Swap(p)
  <2>1. w.step = "swap" /\ w.step \in WriteSteps \ {"return"}
    BY <1>b, StepFacts, SwapTurn
  <2>2. Fits(w, "parent", Absent, w.temp, Absent)
    BY <1>1, <1>2, <2>1, StepFacts DEF Fits
  <2>3. Turn(p, "parent", Absent, w.ok, w.undone, w.temp, Absent) => Typed'
    BY <2>2, TurnTyped
  <2>4. T # Absent => Fits(w, "compare", T, w.temp, Absent)
    BY <1>1, <1>2, <2>1, StepFacts DEF Fits
  <2>5. T # Absent /\ Turn(p, "compare", T, w.ok, w.undone, w.temp, Absent) => Typed'
    BY <2>4, TurnTyped
  <2>6. T # Absent => Fits(w, "compare", T, Absent, Absent)
    BY <1>1, <1>2, <2>1, StepFacts DEF Fits
  <2>7. T # Absent /\ Turn(p, "compare", T, w.ok, w.undone, Absent, Absent) => Typed'
    BY <2>6, TurnTyped
  <2>8. Fits(w, "return", Absent, T, Absent)
    BY <1>1, <1>2, <2>1, StepFacts DEF Fits
  <2>9. Turn(p, "return", Absent, FALSE, w.undone, T, Absent) => Typed'
    BY <2>8, TurnTyped
  <2> QED BY <1>b, <2>1, <2>3, <2>5, <2>7, <2>9, SwapTurn
<1>c. CASE Compare(p)
  <2>1. w.step = "compare" /\ w.step \in WriteSteps \ {"return"}
    BY <1>c, StepFacts, CompareTurn
  <2>2. Fits(w, "parent", w.temp, T, Absent)
    BY <1>1, <1>2, <2>1, StepFacts DEF Fits
  <2>3. Turn(p, "parent", w.temp, w.ok, w.undone, T, Absent) => Typed'
    BY <2>2, TurnTyped
  <2>4. Fits(w, "undo", w.temp, T, Absent)
    BY <1>1, <1>2, <2>1, StepFacts DEF Fits
  <2>5. Turn(p, "undo", w.temp, w.ok, w.undone, T, Absent) => Typed'
    BY <2>4, TurnTyped
  <2>6. Fits(w, "return", Absent, T, w.temp)
    BY <1>1, <1>2, <2>1, StepFacts DEF Fits
  <2>7. Turn(p, "return", Absent, FALSE, w.undone, T, w.temp) => Typed'
    BY <2>6, TurnTyped
  <2> QED BY <1>c, <2>1, <2>3, <2>5, <2>7, CompareTurn
<1>d. CASE Undo(p)
  <2>1. w.step = "undo" /\ w.step \in WriteSteps \ {"return"}
    BY <1>d, StepFacts, UndoTurn
  <2>2. Fits(w, "unlink", T, w.temp, Absent)
    BY <1>1, <1>2, <2>1, StepFacts DEF Fits
  <2>3. Turn(p, "unlink", T, FALSE, w.undone, w.temp, Absent) => Typed'
    BY <2>2, TurnTyped
  <2>4. Fits(w, "return", Absent, w.temp, Absent)
    BY <1>1, <1>2, <2>1, StepFacts DEF Fits
  <2>5. Turn(p, "return", Absent, FALSE, w.undone, w.temp, Absent) => Typed'
    BY <2>4, TurnTyped
  <2>6. Fits(w, "return", Absent, T, w.temp)
    BY <1>1, <1>2, <2>1, StepFacts DEF Fits
  <2>7. Turn(p, "return", Absent, FALSE, w.undone, T, w.temp) => Typed'
    BY <2>6, TurnTyped
  <2>8. Fits(w, "return", Absent, T, w.temp)
    BY <1>1, <1>2, <2>1, StepFacts DEF Fits
  <2>9. Turn(p, "return", Absent, FALSE, FALSE, T, w.temp) => Typed'
    BY <2>8, TurnTyped
  <2> QED BY <1>d, <2>1, <2>3, <2>5, <2>7, <2>9, UndoTurn
<1>e. CASE VerifyParent(p)
  <2>1. w.step = "parent" /\ w.step \in WriteSteps \ {"return"}
    BY <1>e, StepFacts, VerifyParentTurn
  <2>2. Fits(w, "unlink", w.temp, T, Absent)
    BY <1>1, <1>2, <2>1, StepFacts DEF Fits
  <2>3. Turn(p, "unlink", w.temp, TRUE, w.undone, T, Absent) => Typed'
    BY <2>2, TurnTyped
  <2>4. Fits(w, "back", w.temp, T, Absent)
    BY <1>1, <1>2, <2>1, StepFacts DEF Fits
  <2>5. Turn(p, "back", w.temp, w.ok, w.undone, T, Absent) => Typed'
    BY <2>4, TurnTyped
  <2> QED BY <1>e, <2>1, <2>3, <2>5, VerifyParentTurn
<1>f. CASE Back(p)
  <2>1. w.step = "back" /\ w.step \in WriteSteps \ {"return"}
    BY <1>f, StepFacts, BackTurn
  <2>2. T # Absent => Fits(w, "recheck", T, w.temp, Absent)
    BY <1>1, <1>2, <2>1, StepFacts DEF Fits
  <2>3. T # Absent /\ Turn(p, "recheck", T, w.ok, w.undone, w.temp, Absent) => Typed'
    BY <2>2, TurnTyped
  <2>4. Fits(w, "return", Absent, w.temp, Absent)
    BY <1>1, <1>2, <2>1, StepFacts DEF Fits
  <2>5. Turn(p, "return", Absent, FALSE, w.undone, w.temp, Absent) => Typed'
    BY <2>4, TurnTyped
  <2>6. Fits(w, "return", Absent, T, w.temp)
    BY <1>1, <1>2, <2>1, StepFacts DEF Fits
  <2>7. Turn(p, "return", Absent, FALSE, FALSE, T, w.temp) => Typed'
    BY <2>6, TurnTyped
  <2> QED BY <1>f, <2>1, <2>3, <2>5, <2>7, BackTurn
<1>g. CASE Recheck(p)
  <2>1. w.step = "recheck" /\ w.step \in WriteSteps \ {"return"}
    BY <1>g, StepFacts, RecheckTurn
  <2>2. Fits(w, "unlink", w.temp, T, Absent)
    BY <1>1, <1>2, <2>1, StepFacts DEF Fits
  <2>3. Turn(p, "unlink", w.temp, FALSE, w.undone, T, Absent) => Typed'
    BY <2>2, TurnTyped
  <2>4. Fits(w, "forward", w.temp, T, Absent)
    BY <1>1, <1>2, <2>1, StepFacts DEF Fits
  <2>5. Turn(p, "forward", w.temp, w.ok, w.undone, T, Absent) => Typed'
    BY <2>4, TurnTyped
  <2> QED BY <1>g, <2>1, <2>3, <2>5, RecheckTurn
<1>h. CASE Forward(p)
  <2>1. w.step = "forward" /\ w.step \in WriteSteps \ {"return"}
    BY <1>h, StepFacts, ForwardTurn
  <2>2. Fits(w, "return", Absent, w.temp, T)
    BY <1>1, <1>2, <2>1, StepFacts DEF Fits
  <2>3. Turn(p, "return", Absent, FALSE, FALSE, w.temp, T) => Typed'
    BY <2>2, TurnTyped
  <2>4. Fits(w, "return", Absent, w.temp, Absent)
    BY <1>1, <1>2, <2>1, StepFacts DEF Fits
  <2>5. Turn(p, "return", Absent, FALSE, FALSE, w.temp, Absent) => Typed'
    BY <2>4, TurnTyped
  <2>6. Fits(w, "return", Absent, T, w.temp)
    BY <1>1, <1>2, <2>1, StepFacts DEF Fits
  <2>7. Turn(p, "return", Absent, FALSE, FALSE, T, w.temp) => Typed'
    BY <2>6, TurnTyped
  <2> QED BY <1>h, <2>1, <2>3, <2>5, <2>7, ForwardTurn
<1>i. CASE Unlink(p)
  <2>1. w.step = "unlink" /\ w.step \in WriteSteps \ {"return"}
    BY <1>i, StepFacts, UnlinkTurn
  <2>2. Fits(w, "return", Absent, T, Absent)
    BY <1>1, <1>2, <2>1, StepFacts DEF Fits
  <2>3. Turn(p, "return", Absent, w.ok, w.undone, T, Absent) => Typed'
    BY <2>2, TurnTyped
  <2> QED BY <1>i, <2>1, <2>3, UnlinkTurn
<1>j. CASE UnlinkFails(p)
  <2>1. w.step = "unlink" /\ w.step \in WriteSteps \ {"return"}
    BY <1>j, StepFacts, UnlinkFailsTurn
  <2>2. Fits(w, "return", Absent, T, Absent)
    BY <1>1, <1>2, <2>1, StepFacts DEF Fits
  <2>3. Turn(p, "return", Absent, FALSE, w.undone, T, Absent) => Typed'
    BY <2>2, TurnTyped
  <2>4. Fits(w, "return", Absent, T, w.temp)
    BY <1>1, <1>2, <2>1, StepFacts DEF Fits
  <2>5. Turn(p, "return", Absent, FALSE, w.undone, T, w.temp) => Typed'
    BY <2>4, TurnTyped
  <2> QED BY <1>j, <2>1, <2>3, <2>5, UnlinkFailsTurn
<1> QED BY <1>a, <1>b, <1>c, <1>d, <1>e, <1>f, <1>g, <1>h, <1>i, <1>j DEF WriteStep

----------------------------------------------------------------------------
(* What the commands do between their writes.                              *)

\* v is a new write of x to t, or one that finds nothing to do.
NewWrite(v, t, x, expected, parent) ==
    /\ v \in WriteRecs /\ v.target = t /\ v.new = x /\ v.expected = expected /\ v.undone = TRUE
    /\ v.temp = Absent /\ v.late = FALSE
    /\ \/ v.step = "check" /\ v.parent = parent /\ v.ok = FALSE /\ (x # Absent \/ expected # Absent)
       \/ v.step = "return" /\ v.ok = TRUE /\ x = Absent /\ expected = Absent

LEMMA WriteIs ==
    ASSUME NEW t \in Targets, NEW x \in ContentsOf(t) \cup {Absent},
           NEW expected \in FilesOf(t) \cup {Absent}, NEW d \in Dirs, NEW locked \in BOOLEAN,
           x # Absent \/ expected # Absent
    PROVE  NewWrite(Write(t, x, expected, d, locked), t, x, expected, d)
<1>1. /\ "check" \in StepNames /\ x \in Contents \cup States \cup {Absent} /\ expected \in AnyFile
      /\ Absent \in AnyFile
  BY TargetFacts DEF StepNames, AnyFile
<1> DEFINE z == [NoWrite EXCEPT !.step = "check", !.target = t, !.new = x, !.expected = expected,
                               !.parent = d, !.locked = locked]
<1>2. /\ z \in WriteRecs /\ z.step = "check" /\ z.target = t /\ z.new = x /\ z.expected = expected
      /\ z.parent = d /\ z.temp = Absent /\ z.ok = FALSE /\ z.undone = TRUE /\ z.late = FALSE
  BY <1>1, NoWriteFacts, ZenonT(30) DEF WriteRecs
<1>3. Write(t, x, expected, d, locked) = z
  BY DEF Write
<1> QED BY <1>2, <1>3 DEF NewWrite

LEMMA NothingIs ==
    ASSUME NEW t \in Targets
    PROVE  NewWrite([Nothing(t) EXCEPT !.locked = TRUE], t, Absent, Absent, 1)
<1>1. "return" \in StepNames /\ Absent \in AnyFile /\ 1 \in Dirs
  BY NumberFacts DEF StepNames, AnyFile
<1> DEFINE y == [NoWrite EXCEPT !.step = "return", !.target = t, !.ok = TRUE]
<1>2. /\ y \in WriteRecs /\ y.step = "return" /\ y.target = t /\ y.new = Absent /\ y.expected = Absent
      /\ y.parent = 1 /\ y.temp = Absent /\ y.ok = TRUE /\ y.undone = TRUE /\ y.late = FALSE
  BY <1>1, NoWriteFacts, ZenonT(30) DEF WriteRecs
<1>3. Nothing(t) = y
  BY DEF Nothing
<1> HIDE DEF y
<1> DEFINE z == [y EXCEPT !.locked = TRUE]
<1>4. /\ z \in WriteRecs /\ z.step = "return" /\ z.target = t /\ z.new = Absent /\ z.expected = Absent
      /\ z.parent = 1 /\ z.temp = Absent /\ z.ok = TRUE /\ z.undone = TRUE /\ z.late = FALSE
  BY <1>2, ZenonT(30) DEF WriteRecs
<1> QED BY <1>3, <1>4 DEF NewWrite

LEMMA NothingFor ==
    ASSUME NEW v, NEW t, NEW d, NewWrite(v, t, Absent, Absent, 1)
    PROVE  NewWrite(v, t, Absent, Absent, d)
  BY DEF NewWrite

LEMMA SavingIs ==
    ASSUME NEW r \in ProcRecs, NEW s \in States
    PROVE  NewWrite(Saving(r, s), Journal, AsContent(s), r.journal, r.directory)
<1>1. r.journal \in JournalFiles \cup {Absent} /\ r.directory \in Dirs
  BY DEF ProcRecs
<1>2. AsContent(s) \in ContentsOf(Journal) \cup {Absent} /\ Journal \in Targets /\ FilesOf(Journal) = JournalFiles
  BY TargetFacts DEF AsContent
<1>3. s # EmptyState => AsContent(s) # Absent
  BY AbsentFacts DEF AsContent
<1>4. CASE s = EmptyState /\ r.journal = Absent
  <2>1. Saving(r, s) = [Nothing(Journal) EXCEPT !.locked = TRUE]
    BY <1>4 DEF Saving
  <2>2. NewWrite([Nothing(Journal) EXCEPT !.locked = TRUE], Journal, Absent, Absent, 1)
    BY <1>2, NothingIs
  <2> QED BY <1>4, <2>1, <2>2, NothingFor DEF AsContent
<1>5. CASE ~(s = EmptyState /\ r.journal = Absent)
  <2>1. Saving(r, s) = Write(Journal, AsContent(s), r.journal, r.directory, TRUE)
    BY <1>5 DEF Saving, AsContent
  <2> QED BY <1>1, <1>2, <1>3, <1>5, <2>1, WriteIs
<1> QED BY <1>4, <1>5

LEMMA NewWriteOK ==
    ASSUME NEW t \in Targets, NEW x \in ContentsOf(t) \cup {Absent},
           NEW expected \in FilesOf(t) \cup {Absent}, NEW d, NEW v, NewWrite(v, t, x, expected, d)
    PROVE  WriteOK(v) /\ v.step \in WriteSteps /\ v.temp = Absent
  BY StepFacts DEF NewWrite, WriteOK

\* z goes on with the command r.
Carries(z, r) ==
    /\ z \in ProcRecs
    /\ z.cmd = r.cmd /\ z.run = r.run /\ z.clients = r.clients /\ z.version = r.version
    /\ z.directory = r.directory /\ z.journal = r.journal /\ z.recovery = r.recovery
    /\ z.plans = r.plans /\ z.slipped = r.slipped /\ z.rolledBack = r.rolledBack /\ z.result = r.result

Cleared(r) ==
    [c \in DOMAIN r.state |-> IF r.cmd = "setup" /\ c \in r.clients
                              THEN [r.state[c] EXCEPT !.recoverable = {}] ELSE r.state[c]]

LEMMA ClearedIs ==
    ASSUME NEW r \in ProcRecs
    PROVE  /\ Cleared(r) \in States /\ DOMAIN Cleared(r) = DOMAIN r.state
           /\ \A c \in DOMAIN r.state :
                 /\ Cleared(r)[c].original = r.state[c].original
                 /\ Cleared(r)[c].installed = r.state[c].installed
                 /\ ~(r.cmd = "setup" /\ c \in r.clients) => Cleared(r)[c] = r.state[c]
<1>1. r.state \in States
  BY DEF ProcRecs
<1>2. \A s \in Snapshot : LET z == [s EXCEPT !.recoverable = {}] IN
        z \in Snapshot /\ z.original = s.original /\ z.installed = s.installed
  BY DEF Snapshot
<1>3. \A c \in DOMAIN r.state : r.state[c] \in Snapshot
  BY <1>1, StateFacts
<1>4. DOMAIN Cleared(r) = DOMAIN r.state /\ DOMAIN r.state \in SUBSET Clients
  BY <1>1, StateFacts DEF Cleared
<1>5. ASSUME NEW c \in DOMAIN r.state
      PROVE  /\ Cleared(r)[c] \in Snapshot
             /\ Cleared(r)[c].original = r.state[c].original
             /\ Cleared(r)[c].installed = r.state[c].installed
             /\ ~(r.cmd = "setup" /\ c \in r.clients) => Cleared(r)[c] = r.state[c]
  <2>1. Cleared(r)[c] = IF r.cmd = "setup" /\ c \in r.clients
                        THEN [r.state[c] EXCEPT !.recoverable = {}] ELSE r.state[c]
    BY DEF Cleared
  <2> QED BY <1>2, <1>3, <2>1
<1>6. Cleared(r) = [c \in DOMAIN r.state |-> Cleared(r)[c]]
  BY DEF Cleared
<1>7. Cleared(r) \in [DOMAIN r.state -> Snapshot]
  BY <1>5, <1>6
<1> QED BY <1>4, <1>5, <1>7 DEF States

\* What a command is after it turned to its next client, or to the last save.
LEMMA CommittingIs ==
    ASSUME NEW r \in ProcRecs, r.todo \subseteq DOMAIN r.plans
    PROVE  LET z == Committing(r) IN
           /\ Carries(z, r) /\ z.applied = r.applied
           /\ \/ /\ r.todo = {} /\ z.at = "final" /\ z.todo = {} /\ z.state = Cleared(r)
                 /\ NewWrite(z.w, Journal, AsContent(z.state), r.journal, r.directory)
              \/ \E c \in r.todo :
                 /\ z.at = "commit" /\ z.todo = r.todo \ {c} /\ z.state = r.state
                 /\ NewWrite(z.w, c, Goal(r, c), r.plans[c].expected, r.plans[c].parent)
                 /\ Goal(r, c) \in ContentsOf(c) \cup {Absent}
                 /\ r.plans[c].expected \in FilesOf(c) \cup {Absent}
<1>a. "final" \in Phases /\ "commit" \in Phases
  BY DEF Phases
<1>1. CASE r.todo = {}
  <2> DEFINE s == Cleared(r)  v == Saving(r, s)
             z == [r EXCEPT !.at = "final", !.state = s, !.w = v]
  <2>1. s \in States
    BY ClearedIs
  <2>2. NewWrite(v, Journal, AsContent(s), r.journal, r.directory)
    BY <2>1, SavingIs
  <2>3. v \in WriteRecs
    BY <2>2 DEF NewWrite
  <2>4. Committing(r) = z
    BY <1>1 DEF Committing, Cleared
  <2> HIDE DEF s, v
  <2>5. /\ Carries(z, r) /\ z.applied = r.applied /\ z.at = "final" /\ z.todo = r.todo
        /\ z.state = s /\ z.w = v
    BY <1>a, <2>1, <2>3, ZenonT(60) DEF ProcRecs, Carries
  <2> HIDE DEF z
  <2> QED BY <1>1, <2>2, <2>4, <2>5 DEF s
<1>2. CASE r.todo # {}
  <2> DEFINE c == CHOOSE k \in r.todo : TRUE
  <2>1. c \in r.todo /\ c \in DOMAIN r.plans
    BY <1>2
  <2>2. r.plans \in PlanMaps /\ r.todo \subseteq Clients
    BY DEF ProcRecs
  <2>3. r.plans[c] \in Plans /\ c \in Clients
    BY <2>1, <2>2, PlanFacts
  <2> DEFINE s == r.plans[c].snapshot
             g == IF r.cmd = "setup" THEN s.installed ELSE s.original
             v == IF g = Absent /\ r.plans[c].expected = Absent
                  THEN [Nothing(c) EXCEPT !.locked = TRUE]
                  ELSE Write(c, g, r.plans[c].expected, r.plans[c].parent, TRUE)
             z == [r EXCEPT !.at = "commit", !.todo = r.todo \ {c}, !.w = v]
  <2>4. Committing(r) = z
    BY <1>2 DEF Committing
  <2>5. /\ g \in ContentsOf(c) \cup {Absent} /\ c \in Targets
        /\ r.plans[c].expected \in FilesOf(c) \cup {Absent} /\ r.plans[c].parent \in Dirs
    <3>1. r.plans[c].expected \in ClientFiles \cup {Absent} /\ r.plans[c].parent \in Dirs /\ s \in Snapshot
      BY <2>3 DEF Plans
    <3>2. g \in Contents \cup {Absent}
      BY <3>1 DEF Snapshot, Contents
    <3> QED BY <2>3, <3>1, <3>2, TargetFacts
  <2>6. NewWrite(v, c, g, r.plans[c].expected, r.plans[c].parent)
    <3>1. CASE g = Absent /\ r.plans[c].expected = Absent
      BY <2>5, <3>1, NothingIs, NothingFor
    <3>2. CASE ~(g = Absent /\ r.plans[c].expected = Absent)
      BY <2>5, <3>2, WriteIs
    <3> QED BY <3>1, <3>2
  <2>7. v \in WriteRecs
    BY <2>6 DEF NewWrite
  <2>8. g = Goal(r, c)
    BY DEF Goal
  <2>b. r.todo \ {c} \in SUBSET Clients
    BY <2>2
  <2> HIDE DEF g, v, c
  <2>9. /\ Carries(z, r) /\ z.applied = r.applied /\ z.at = "commit" /\ z.todo = r.todo \ {c}
        /\ z.state = r.state /\ z.w = v
    BY <1>a, <2>b, <2>7, ZenonT(60) DEF ProcRecs, Carries
  <2> HIDE DEF z
  <2> QED BY <2>1, <2>4, <2>5, <2>6, <2>8, <2>9
<1> QED BY <1>1, <1>2

RollbackWrite(a) == Write(a.target, ContentOf(a.before), a.after, a.parent, FALSE)

LEMMA SeqFacts ==
    ASSUME NEW s \in Seq(Changes), s # <<>>
    PROVE  /\ Last(s) \in Changes /\ Last(s) = s[Len(s)] /\ Len(s) \in 1..Len(s)
           /\ Front(s) \in Seq(Changes) /\ Len(Front(s)) = Len(s) - 1
           /\ \A i \in 1..(Len(s) - 1) : Front(s)[i] = s[i]
<1>1. Len(s) \in Nat /\ Len(s) # 0
  OBVIOUS
<1>2. \A n \in Nat : n # 0 => n \in 1..n /\ n - 1 \in Nat /\ n - 1 \in 0..n /\ n - 1 <= n
  OBVIOUS
<1>3. Len(s) \in 1..Len(s) /\ Len(s) - 1 \in Nat /\ Len(s) - 1 <= Len(s)
  BY <1>1, <1>2
<1>4. Last(s) = s[Len(s)] /\ Last(s) \in Changes
  BY <1>3 DEF Last
<1>5. Front(s) = SubSeq(s, 1, Len(s) - 1)
  BY DEF Front
<1> DEFINE n == Len(s) - 1
<1>6. n \in Nat /\ n <= Len(s) /\ \A i \in 1..n : i \in 1..Len(s)
  BY <1>1, <1>3
<1> HIDE DEF n
<1>7. \A i \in 1..n : s[i] \in Changes
  BY <1>6
<1>8. SubSeq(s, 1, n) = [i \in 1..n |-> s[i]]
  BY <1>1, <1>6 
<1>9. SubSeq(s, 1, n) \in Seq(Changes) /\ Len(SubSeq(s, 1, n)) = n /\ \A i \in 1..n : SubSeq(s, 1, n)[i] = s[i]
  BY <1>6, <1>7, <1>8
<1> QED BY <1>3, <1>4, <1>5, <1>9 DEF n

\* A command between two of its writes.
Going(r) ==
    /\ r \in ProcRecs /\ r.result = "none" /\ r.run # 0 /\ r.cmd # "none" /\ r.version \in Versions
    /\ r.todo \subseteq DOMAIN r.plans
    /\ \A c \in DOMAIN r.plans : PlanOK(r, c)
    /\ r.cmd = "setup" => DOMAIN r.plans = r.clients
    /\ \A i \in 1..Len(r.applied) : ChangeOK(r, r.applied[i])

LEMMA CarriedOK ==
    ASSUME NEW r, NEW z, Carries(z, r)
    PROVE  /\ \A c : PlanOK(r, c) <=> PlanOK(z, c)
           /\ \A a : ChangeOK(r, a) <=> ChangeOK(z, a)
           /\ \A c : Goal(z, c) = Goal(r, c)
  BY DEF Carries, PlanOK, ChangeOK, Goal

LEMMA CommittingOK ==
    ASSUME NEW r, Going(r), Follows(r.state, r.recovery, DOMAIN r.plans, r.cmd = "setup")
    PROVE  ProcOK(Committing(r))
<1> DEFINE z == Committing(r)
<1>1. /\ Carries(z, r) /\ z.applied = r.applied
      /\ \/ /\ r.todo = {} /\ z.at = "final" /\ z.todo = {} /\ z.state = Cleared(r)
            /\ NewWrite(z.w, Journal, AsContent(z.state), r.journal, r.directory)
         \/ \E c \in r.todo :
            /\ z.at = "commit" /\ z.todo = r.todo \ {c} /\ z.state = r.state
            /\ NewWrite(z.w, c, Goal(r, c), r.plans[c].expected, r.plans[c].parent)
            /\ Goal(r, c) \in ContentsOf(c) \cup {Absent}
            /\ r.plans[c].expected \in FilesOf(c) \cup {Absent}
  BY CommittingIs DEF Going
<1> HIDE DEF z
<1>2. z \in ProcRecs /\ z.todo \subseteq DOMAIN r.plans /\ r \in ProcRecs
  BY <1>1 DEF Carries, Going
<1>3. PlansOK(z)
  <2>1. \A i \in 1..Len(z.applied) : ChangeOK(z, z.applied[i])
    BY <1>1, CarriedOK DEF Going
  <2>2. \A c \in DOMAIN z.plans : PlanOK(z, c)
    BY <1>1, CarriedOK DEF Going, Carries
  <2> QED BY <1>1, <1>2, <2>1, <2>2 DEF PlansOK, Going, Carries
<1>4. z.at \in {"final", "commit"}
  BY <1>1
<1>5. RestOK(z)
  BY <1>1, <1>4 DEF RestOK, Going, Carries, Resting
<1>6. CASE z.at = "final"
  <2>1. /\ r.todo = {} /\ z.todo = {} /\ z.state = Cleared(r)
        /\ NewWrite(z.w, Journal, AsContent(z.state), r.journal, r.directory)
    BY <1>1, <1>6
  <2>2. z.state \in States /\ z.journal \in JournalFiles \cup {Absent} /\ z.journal = r.journal
        /\ z.directory = r.directory
    BY <1>1, <1>2 DEF ProcRecs, Carries
  <2>3. AsContent(z.state) \in ContentsOf(Journal) \cup {Absent}
    BY <2>2, TargetFacts DEF AsContent
  <2>4. WriteOK(z.w) /\ z.w.step \in WriteSteps
    BY <2>1, <2>2, <2>3, TargetFacts, NewWriteOK
  <2>5. SaveOK(z)
    BY <1>6, <2>1, <2>2, <2>4 DEF SaveOK, NewWrite
  <2>6. ClientOK(z)
    BY <1>6 DEF ClientOK, ClientPhases
  <2>7. Follows(z.state, r.recovery, DOMAIN r.plans, r.cmd = "setup")
    BY <1>2, <2>1, ClearedIs DEF Follows, Going
  <2>8. StateOK(z)
    BY <1>1, <1>6, <2>1, <2>7 DEF StateOK, Carries
  <2> QED BY <1>2, <1>3, <1>5, <2>4, <2>5, <2>6, <2>8 DEF ProcOK, PhaseOK, z
<1>7. CASE z.at = "commit"
  <2>1. PICK c \in r.todo :
            /\ z.todo = r.todo \ {c} /\ z.state = r.state
            /\ NewWrite(z.w, c, Goal(r, c), r.plans[c].expected, r.plans[c].parent)
            /\ Goal(r, c) \in ContentsOf(c) \cup {Absent}
            /\ r.plans[c].expected \in FilesOf(c) \cup {Absent}
    BY <1>1, <1>7
  <2>2. c \in DOMAIN r.plans /\ c \in Clients /\ c \in Targets /\ z.plans = r.plans
    BY <1>1, TargetFacts DEF Going, ProcRecs, Carries
  <2>3. WriteOK(z.w) /\ z.w.step \in WriteSteps
    BY <2>1, <2>2, NewWriteOK
  <2>4. z.w.target = c
    BY <2>1 DEF NewWrite
  <2>5. SaveOK(z)
    BY <1>7 DEF SaveOK, SavePhases
  <2>6. KnownFile(r.plans[c].snapshot, r.plans[c].expected)
    BY <2>2 DEF Going, PlanOK
  <2>a. Goal(z, c) = Goal(r, c)
    BY <1>1, CarriedOK
  <2>7. ClientOK(z)
    BY <1>7, <2>1, <2>2, <2>3, <2>4, <2>6, <2>a DEF ClientOK, NewWrite
  <2>8. StateOK(z)
    BY <1>1, <1>7, <2>1 DEF StateOK, Carries
  <2> QED BY <1>2, <1>3, <1>5, <2>3, <2>5, <2>7, <2>8 DEF ProcOK, PhaseOK, z
<1> QED BY <1>4, <1>6, <1>7 DEF z

\* What a command is after it turned to its next change to take back.
LEMMA RollingBackIs ==
    ASSUME NEW r, Going(r)
    PROVE  LET z == RollingBack(r) IN
           /\ Carries(z, r) /\ z.todo = r.todo /\ z.state = r.state
           /\ \/ /\ r.applied = <<>> /\ z.at = "rejournal" /\ z.applied = <<>>
                 /\ NewWrite(z.w, Journal, AsContent(r.recovery), r.journal, r.directory)
              \/ /\ r.applied # <<>> /\ z.at = "rollback" /\ z.applied = Front(r.applied)
                 /\ LET a == Last(r.applied) IN
                    NewWrite(z.w, a.target, ContentOf(a.before), a.after, a.parent)
<1>a. "rejournal" \in Phases /\ "rollback" \in Phases /\ r \in ProcRecs
  BY DEF Phases, Going
<1>1. CASE r.applied = <<>>
  <2> DEFINE v == Saving(r, r.recovery)
             z == [r EXCEPT !.at = "rejournal", !.w = v]
  <2>1. r.recovery \in States
    BY <1>a DEF ProcRecs
  <2>2. NewWrite(v, Journal, AsContent(r.recovery), r.journal, r.directory)
    BY <1>a, <2>1, SavingIs
  <2>3. v \in WriteRecs
    BY <2>2 DEF NewWrite
  <2>4. RollingBack(r) = z
    BY <1>1 DEF RollingBack
  <2> HIDE DEF v
  <2>5. /\ Carries(z, r) /\ z.applied = r.applied /\ z.at = "rejournal" /\ z.todo = r.todo
        /\ z.state = r.state /\ z.w = v
    BY <1>a, <2>3, ZenonT(60) DEF ProcRecs, Carries
  <2> HIDE DEF z
  <2> QED BY <1>1, <2>2, <2>4, <2>5
<1>2. CASE r.applied # <<>>
  <2> DEFINE a == Last(r.applied)  front == Front(r.applied)  v == RollbackWrite(a)
             z == [r EXCEPT !.at = "rollback", !.applied = front, !.w = v]
  <2>1. r.applied \in Seq(Changes)
    BY <1>a DEF ProcRecs
  <2>2. a \in Changes /\ front \in Seq(Changes) /\ a = r.applied[Len(r.applied)] /\ Len(r.applied) \in 1..Len(r.applied)
    BY <1>2, <2>1, SeqFacts
  <2>3. ChangeOK(r, a)
    BY <2>2 DEF Going
  <2>4. /\ a.target \in Clients /\ a.before \in ClientFiles \cup {Absent} /\ a.parent \in Dirs
        /\ a.after \in ClientFiles \cup {Absent}
    BY <2>2 DEF Changes
  <2>5. /\ a.target \in Targets /\ ContentOf(a.before) \in ContentsOf(a.target) \cup {Absent}
        /\ a.after \in FilesOf(a.target) \cup {Absent}
        /\ a.before # Absent => ContentOf(a.before) # Absent
    BY <2>4, TargetFacts, AbsentFacts, FileParts DEF ContentOf
  <2>6. NewWrite(v, a.target, ContentOf(a.before), a.after, a.parent)
    <3>1. ContentOf(a.before) # Absent \/ a.after # Absent
      BY <2>3, <2>5 DEF ChangeOK
    <3> QED BY <2>4, <2>5, <3>1, WriteIs DEF RollbackWrite
  <2>7. v \in WriteRecs
    BY <2>6 DEF NewWrite
  <2>8. RollingBack(r) = z
    BY <1>2 DEF RollingBack, RollbackWrite, ContentOf
  <2> HIDE DEF v, front
  <2>9. /\ Carries(z, r) /\ z.applied = front /\ z.at = "rollback" /\ z.todo = r.todo
        /\ z.state = r.state /\ z.w = v
    BY <1>a, <2>2, <2>7, ZenonT(60) DEF ProcRecs, Carries
  <2> HIDE DEF z, a
  <2> QED BY <1>2, <2>6, <2>8, <2>9 DEF front, a
<1> QED BY <1>1, <1>2

LEMMA RollingBackOK ==
    ASSUME NEW r, Going(r)
    PROVE  ProcOK(RollingBack(r))
<1> DEFINE z == RollingBack(r)
<1>1. /\ Carries(z, r) /\ z.todo = r.todo /\ z.state = r.state
      /\ \/ /\ r.applied = <<>> /\ z.at = "rejournal" /\ z.applied = <<>>
            /\ NewWrite(z.w, Journal, AsContent(r.recovery), r.journal, r.directory)
         \/ /\ r.applied # <<>> /\ z.at = "rollback" /\ z.applied = Front(r.applied)
            /\ LET a == Last(r.applied) IN
               NewWrite(z.w, a.target, ContentOf(a.before), a.after, a.parent)
  BY RollingBackIs
<1> HIDE DEF z
<1>2. z \in ProcRecs /\ r \in ProcRecs /\ r.applied \in Seq(Changes) /\ r.recovery \in States
  BY <1>1 DEF Carries, Going, ProcRecs
<1>3. \A i \in 1..Len(z.applied) : ChangeOK(r, z.applied[i])
  <2>1. CASE z.applied = <<>>
    BY <2>1
  <2>2. CASE r.applied # <<>> /\ z.applied = Front(r.applied)
    <3>1. /\ Len(z.applied) = Len(r.applied) - 1
          /\ \A i \in 1..(Len(r.applied) - 1) : z.applied[i] = r.applied[i]
      BY <1>2, <2>2, SeqFacts
    <3>2. \A n \in Nat : \A i \in 1..(n - 1) : i \in 1..n
      OBVIOUS
    <3>3. Len(r.applied) \in Nat
      BY <1>2
    <3> QED BY <3>1, <3>2, <3>3 DEF Going
  <2> QED BY <1>1, <2>1, <2>2
<1>4. PlansOK(z)
  <2>1. \A i \in 1..Len(z.applied) : ChangeOK(z, z.applied[i])
    BY <1>1, <1>3, CarriedOK
  <2>2. \A c \in DOMAIN z.plans : PlanOK(z, c)
    BY <1>1, CarriedOK DEF Going, Carries
  <2> QED BY <1>1, <2>1, <2>2 DEF PlansOK, Going, Carries
<1>5. z.at \in {"rejournal", "rollback"}
  BY <1>1
<1>6. RestOK(z) /\ StateOK(z)
  BY <1>1, <1>5 DEF RestOK, StateOK, Going, Carries, Resting
<1>7. CASE z.at = "rejournal"
  <2>1. NewWrite(z.w, Journal, AsContent(r.recovery), r.journal, r.directory)
    BY <1>1, <1>7
  <2>2. /\ z.journal \in JournalFiles \cup {Absent} /\ z.journal = r.journal
        /\ z.directory = r.directory /\ z.recovery = r.recovery
    BY <1>1, <1>2 DEF ProcRecs, Carries
  <2>3. AsContent(r.recovery) \in ContentsOf(Journal) \cup {Absent}
    BY <1>2, TargetFacts DEF AsContent
  <2>4. WriteOK(z.w) /\ z.w.step \in WriteSteps
    BY <2>1, <2>2, <2>3, TargetFacts, NewWriteOK
  <2>5. SaveOK(z)
    BY <1>7, <2>1, <2>2, <2>4 DEF SaveOK, NewWrite
  <2>6. ClientOK(z)
    BY <1>7 DEF ClientOK, ClientPhases
  <2> QED BY <1>2, <1>4, <1>6, <2>4, <2>5, <2>6 DEF ProcOK, PhaseOK, z
<1>8. CASE z.at = "rollback"
  <2> DEFINE a == Last(r.applied)
  <2>1. r.applied # <<>> /\ NewWrite(z.w, a.target, ContentOf(a.before), a.after, a.parent)
    BY <1>1, <1>8
  <2>2. a \in Changes /\ a = r.applied[Len(r.applied)] /\ Len(r.applied) \in 1..Len(r.applied)
    BY <1>2, <2>1, SeqFacts
  <2>3. ChangeOK(r, a) /\ z.plans = r.plans
    BY <1>1, <2>2 DEF Going, Carries
  <2>4. /\ a.target \in Clients /\ a.before \in ClientFiles \cup {Absent} /\ a.parent \in Dirs
        /\ a.after \in ClientFiles \cup {Absent}
    BY <2>2 DEF Changes
  <2> HIDE DEF a
  <2>5. /\ a.target \in Targets /\ ContentOf(a.before) \in ContentsOf(a.target) \cup {Absent}
        /\ a.after \in FilesOf(a.target) \cup {Absent}
    BY <2>4, TargetFacts, AbsentFacts, FileParts DEF ContentOf
  <2>6. WriteOK(z.w) /\ z.w.step \in WriteSteps
    BY <2>1, <2>5, NewWriteOK
  <2>9. z.w.target = a.target
    BY <2>1 DEF NewWrite
  <2>7. SaveOK(z)
    BY <1>8 DEF SaveOK, SavePhases
  <2>8. ClientOK(z)
    BY <1>8, <2>1, <2>3, <2>6, <2>9 DEF ClientOK, NewWrite, ChangeOK
  <2> QED BY <1>2, <1>4, <1>6, <2>6, <2>7, <2>8 DEF ProcOK, PhaseOK, z
<1> QED BY <1>5, <1>7, <1>8 DEF z

----------------------------------------------------------------------------
(* The steps of a command keep the types.                                  *)

LEMMA FinishedIs ==
    ASSUME NEW result
    PROVE  /\ ProcOK(Finished(result)) /\ Finished(result).at = "idle" /\ Finished(result).w = NoWrite
           /\ Finished(result).result = IF result = "undone" THEN "undone" ELSE "none"
<1> DEFINE x == IF result = "undone" THEN result ELSE "none"
           z == [Idle EXCEPT !.result = x]
<1>1. x \in {"none", "undone"}
  OBVIOUS
<1> HIDE DEF x
<1>2. /\ z \in ProcRecs /\ z.at = "idle" /\ z.w = NoWrite /\ z.result = x /\ z.rolledBack = TRUE
      /\ z.applied = <<>> /\ z.todo = {} /\ z.slipped = {}
  <2>1. Idle.applied = <<>> /\ Idle.todo = {}
    BY DEF Idle
  <2> QED BY <1>1, <2>1, IdleFacts, ZenonT(30) DEF ProcRecs
<1>3. Finished(result) = z
  BY DEF Finished, x
<1> HIDE DEF z
<1>4. ProcOK(z)
  BY <1>2, NoWriteFacts
     DEF ProcOK, PhaseOK, RestOK, SaveOK, ClientOK, StateOK, PlansOK, Resting, SavePhases, ClientPhases
<1> QED BY <1>2, <1>3, <1>4 DEF x

LEMMA CommandTyped ==
    ASSUME Typed, NEW p \in Procs, NEW z, ProcOK(z), proc' = [proc EXCEPT ![p] = z],
           UNCHANGED <<file, left, dir, lockFile, owed, chased, edits>>, runs' \in 0..MaxRuns,
           looked' \in [Clients -> Dirs \cup {0}], torn' \in BOOLEAN, raced' \in BOOLEAN
    PROVE  /\ Typed' /\ proc'[p] = z
           /\ \A q \in Procs : q # p => proc'[q] = proc[q]
<1>1. DOMAIN proc = Procs
  BY DEF Typed
<1>2. proc'[p] = z /\ DOMAIN proc' = Procs /\ \A q \in Procs : q # p => proc'[q] = proc[q]
  BY <1>1
<1> QED BY <1>2 DEF Typed

LEMMA GoesTyped ==
    ASSUME Typed, NEW p \in Procs, NEW z, ProcOK(z), Goes(p, z)
    PROVE  /\ Typed' /\ proc'[p] = z
           /\ \A q \in Procs : q # p => proc'[q] = proc[q]
<1>1. /\ proc' = [proc EXCEPT ![p] = z]
      /\ UNCHANGED <<file, left, dir, lockFile, owed, chased, edits, runs, looked, torn, raced>>
  BY DEF Goes, userVars, historyVars
<1>2. runs' \in 0..MaxRuns /\ looked' \in [Clients -> Dirs \cup {0}] /\ torn' \in BOOLEAN /\ raced' \in BOOLEAN
  BY <1>1 DEF Typed
<1> QED BY <1>1, <1>2, CommandTyped

LEMMA StartTyped ==
    ASSUME Typed, NEW p \in Procs, NEW cmd \in Commands, NEW X \in Selections, NEW v \in Versions,
           Start(p, cmd, X, v)
    PROVE  /\ Typed' /\ proc[p].at = "idle" /\ proc'[p].at = "locking" /\ proc'[p].w = NoWrite
           /\ \A q \in Procs : q # p => proc'[q] = proc[q]
<1> DEFINE z == [Idle EXCEPT !.at = "locking", !.cmd = cmd, !.run = runs + 1, !.clients = X,
                             !.version = v, !.lock = lockFile]
<1>1. /\ proc[p].at = "idle" /\ proc' = [proc EXCEPT ![p] = z] /\ runs' = runs + 1 /\ runs < MaxRuns
      /\ UNCHANGED <<file, left, dir, lockFile, owed, chased, edits, looked, torn, raced>>
  BY DEF Start, historyVars
<1>2. runs + 1 \in 0..MaxRuns /\ runs + 1 # 0 /\ cmd \in {"none", "setup", "restore"} /\ cmd # "none"
      /\ X \in SUBSET Clients /\ lockFile \in Int /\ "locking" \in Phases
      /\ v \in Versions \cup {Absent} /\ v \in Versions
  BY <1>1, NumberFacts, ClientSetupAssumption DEF Typed, Phases
<1>3. Idle.applied = <<>> /\ Idle.todo = {}
  BY DEF Idle
<1> DEFINE n == runs + 1
<1>4. z = [Idle EXCEPT !.at = "locking", !.cmd = cmd, !.run = n, !.clients = X,
                             !.version = v, !.lock = lockFile] /\ n \in 0..MaxRuns
  BY <1>2
<1> HIDE DEF n
<1>5. /\ z \in ProcRecs /\ z.at = "locking" /\ z.w = NoWrite /\ z.result = "none" /\ z.rolledBack = TRUE
      /\ z.applied = <<>> /\ z.todo = {} /\ z.slipped = {} /\ z.run = n /\ z.cmd = cmd /\ z.version = v
  BY <1>2, <1>3, <1>4, IdleFacts, ZenonT(60) DEF ProcRecs
<1> HIDE DEF z
<1>6. ProcOK(z)
  BY <1>2, <1>5, NoWriteFacts
     DEF n, ProcOK, PhaseOK, RestOK, SaveOK, ClientOK, StateOK, PlansOK, Resting, SavePhases, ClientPhases
<1>7. /\ runs' \in 0..MaxRuns /\ looked' \in [Clients -> Dirs \cup {0}]
      /\ torn' \in BOOLEAN /\ raced' \in BOOLEAN
  BY <1>1, <1>2 DEF Typed
<1> QED BY <1>1, <1>5, <1>6, <1>7, CommandTyped

LEMMA LockTyped ==
    ASSUME Typed, NEW p \in Procs, Lock(p)
    PROVE  /\ Typed' /\ proc[p].at = "locking"
           /\ UNCHANGED <<file, left, dir, owed, chased, torn, looked>>
           /\ raced' = (raced \/ \E q \in Procs : Working(q))
           /\ \A q \in Procs : q # p => proc'[q] = proc[q]
           /\ proc'[p].w = NoWrite
           /\ \/ proc'[p].at = "idle" /\ proc'[p].result = "none"
              \/ /\ proc'[p].at = "locked" /\ proc'[p].directory = dir[Journal]
                 /\ proc'[p].journal = file[Journal][dir[Journal]]
<1> DEFINE r == proc[p]
           z == [r EXCEPT !.at = "locked", !.directory = dir[Journal], !.journal = Found(Journal)]
<1>1. /\ r.at = "locking" /\ UNCHANGED <<file, left, dir, lockFile, owed, chased, torn, looked, edits, runs>>
      /\ raced' = (raced \/ \E q \in Procs : Working(q))
      /\ \/ proc' = [proc EXCEPT ![p] = z]
         \/ proc' = [proc EXCEPT ![p] = Finished("failed")]
  BY DEF Lock
<1>2. ProcOK(r)
  BY DEF Typed
<1>3. /\ Found(Journal) \in JournalFiles \cup {Absent} /\ dir[Journal] \in Dirs /\ "locked" \in Phases
      /\ Found(Journal) = file[Journal][dir[Journal]]
  BY TargetFacts DEF Typed, Found, Phases
<1>4. /\ z \in ProcRecs /\ z.at = "locked" /\ z.w = r.w /\ z.result = r.result /\ z.rolledBack = r.rolledBack
      /\ z.applied = r.applied /\ z.todo = r.todo /\ z.slipped = r.slipped /\ z.run = r.run /\ z.cmd = r.cmd /\ z.version = r.version
      /\ z.directory = dir[Journal] /\ z.journal = Found(Journal)
  <2>1. r \in ProcRecs
    BY <1>2 DEF ProcOK
  <2> QED BY <1>3, <2>1, ZenonT(60) DEF ProcRecs
<1> HIDE DEF z
<1>5. ProcOK(z) /\ z.w = NoWrite
  BY <1>1, <1>2, <1>4
     DEF ProcOK, PhaseOK, RestOK, SaveOK, ClientOK, StateOK, PlansOK, Resting, SavePhases, ClientPhases
<1>6. /\ runs' \in 0..MaxRuns /\ looked' \in [Clients -> Dirs \cup {0}]
      /\ torn' \in BOOLEAN /\ raced' \in BOOLEAN
  BY <1>1 DEF Typed
<1>7. CASE proc' = [proc EXCEPT ![p] = z]
  <2>1. Typed' /\ proc'[p] = z /\ \A q \in Procs : q # p => proc'[q] = proc[q]
    BY <1>1, <1>5, <1>6, <1>7, CommandTyped
  <2> QED BY <1>1, <1>3, <1>4, <1>5, <2>1
<1>8. CASE proc' = [proc EXCEPT ![p] = Finished("failed")]
  <2>1. /\ ProcOK(Finished("failed")) /\ Finished("failed").at = "idle" /\ Finished("failed").w = NoWrite
        /\ Finished("failed").result = "none"
    BY FinishedIs
  <2>2. Typed' /\ proc'[p] = Finished("failed") /\ \A q \in Procs : q # p => proc'[q] = proc[q]
    BY <1>1, <1>6, <1>8, <2>1, CommandTyped
  <2> QED BY <1>1, <2>1, <2>2
<1> QED BY <1>1, <1>7, <1>8

LEMMA GoingIs ==
    ASSUME NEW r, ProcOK(r), r.at \notin Resting
    PROVE  Going(r)
  BY DEF ProcOK, PhaseOK, RestOK, PlansOK, Going, Resting

\* z is the same command as r.
Alike(z, r) ==
    /\ z \in ProcRecs /\ z.cmd = r.cmd /\ z.run = r.run /\ z.clients = r.clients /\ z.version = r.version
    /\ z.recovery = r.recovery /\ z.plans = r.plans /\ z.result = r.result /\ z.todo = r.todo
    /\ r.slipped \subseteq z.slipped

LEMMA GoingAlike ==
    ASSUME NEW r, NEW z, Going(r), Alike(z, r), \A i \in 1..Len(z.applied) : ChangeOK(r, z.applied[i])
    PROVE  Going(z)
<1>1. \A c : PlanOK(r, c) => PlanOK(z, c)
  BY DEF Alike, PlanOK
<1>2. \A a : ChangeOK(r, a) => ChangeOK(z, a)
  BY DEF Alike, ChangeOK
<1> QED BY <1>1, <1>2 DEF Going, Alike

----------------------------------------------------------------------------
(* What a command plans.                                                   *)

LEMMA JournalState ==
    ASSUME NEW f \in JournalFiles \cup {Absent}
    PROVE  StateOf(f) \in States /\ DOMAIN StateOf(f) \subseteq Clients
<1>1. StateOf(f) \in States
  BY StateFacts, AbsentFacts DEF StateOf, JournalFiles
<1> QED BY <1>1, StateFacts

\* What is planned for a client: its snapshot knows the client's file, and keeps what
\* the journal knew.
LEMMA PlannedIs ==
    ASSUME NEW s \in States, NEW c \in Clients, NEW v \in Versions,
           Found(c) \in ClientFiles \cup {Absent}
    PROVE  LET n == Planned(s, c, v) IN
           /\ n \in Snapshot /\ n.installed = Ours(v)
           /\ c \in DOMAIN s => n.original = s[c].original /\ Known(s[c]) \subseteq Known(n)
           /\ c \notin DOMAIN s => n.original = ContentOf(Found(c))
<1> DEFINE n == Planned(s, c, v)
<1>1. Ours(v) \in {Ours(u) : u \in Versions}
  OBVIOUS
<1>2. CASE c \in DOMAIN s
  <2>1. s[c] \in Snapshot
    BY <1>2, StateFacts
  <2>2. n = [original |-> s[c].original, installed |-> Ours(v),
             recoverable |-> s[c].recoverable \cup {s[c].installed}]
    BY <1>2 DEF Planned
  <2>3. /\ s[c].original \in Contents \cup {Absent} /\ s[c].installed \in {Ours(u) : u \in Versions}
        /\ s[c].recoverable \in SUBSET {Ours(u) : u \in Versions}
    BY <2>1 DEF Snapshot
  <2>4. n \in Snapshot
    BY <1>1, <2>2, <2>3 DEF Snapshot
  <2>5. n.original = s[c].original /\ n.installed = Ours(v) /\ n.recoverable = s[c].recoverable \cup {s[c].installed}
    BY <2>2
  <2> HIDE DEF n
  <2> QED BY <1>2, <2>4, <2>5 DEF Known, n
<1>3. CASE c \notin DOMAIN s
  <2>1. n = [original |-> ContentOf(Found(c)), installed |-> Ours(v), recoverable |-> {}]
    BY <1>3 DEF Planned, ContentOf
  <2>2. ContentOf(Found(c)) \in Contents \cup {Absent}
    BY AbsentFacts DEF ContentOf, ClientFiles
  <2>3. n \in Snapshot
    BY <1>1, <2>1, <2>2 DEF Snapshot
  <2> QED BY <1>3, <2>1, <2>3
<1> QED BY <1>2, <1>3

\* A state that says of the clients what another one said, and more of those of sel.
Extends(old, new, sel) ==
    /\ \A c \in DOMAIN old :
          /\ c \in DOMAIN new
          /\ new[c].original = old[c].original /\ Known(old[c]) \subseteq Known(new[c])
          /\ c \notin sel => new[c] = old[c]
    /\ \A c \in DOMAIN new : c \notin DOMAIN old => c \in sel

\* What the journal is to say of the clients (plan_install).
LEMMA SnapshotsIs ==
    ASSUME Typed, NEW p \in Procs, proc[p].at = "locked"
    PROVE  LET r == proc[p]  s == Snapshots(r)  loaded == StateOf(r.journal) IN
           /\ s \in States /\ DOMAIN s = DOMAIN loaded \cup Selected(r) /\ Selected(r) \subseteq Clients
           /\ loaded \in States
           /\ Extends(loaded, s, Selected(r))
           /\ r.cmd = "setup" => /\ Selected(r) = r.clients
                                 /\ \A c \in r.clients : s[c].installed = Ours(r.version)
           /\ r.cmd # "setup" => s = loaded
           /\ \A c \in Selected(r) \ DOMAIN loaded : s[c].original = ContentOf(Found(c))
<1> DEFINE r == proc[p]  s == Snapshots(r)  loaded == StateOf(r.journal)  X == Selected(r)
<1>1. ProcOK(r) /\ r \in ProcRecs /\ r.version \in Versions
  BY DEF Typed, ProcOK, PhaseOK, RestOK
<1>2. loaded \in States /\ DOMAIN loaded \subseteq Clients
  BY <1>1, JournalState DEF ProcRecs
<1>3. \A c \in DOMAIN loaded : loaded[c] \in Snapshot
  BY <1>2, StateFacts
<1>4. r.clients \subseteq Clients
  BY <1>1 DEF ProcRecs
<1>5. X \subseteq Clients /\ (r.cmd = "setup" => X = r.clients) /\ (r.cmd # "setup" => X \subseteq DOMAIN loaded)
  BY <1>4 DEF Selected
<1>6. \A c \in Clients : Found(c) \in ClientFiles \cup {Absent}
  BY TargetFacts, FileAt DEF Found, Typed
<1>7. /\ s = [c \in DOMAIN loaded \cup X |->
                 IF r.cmd = "setup" /\ c \in r.clients THEN Planned(loaded, c, r.version) ELSE loaded[c]]
      /\ DOMAIN s = DOMAIN loaded \cup X
  BY DEF Snapshots
<1>8. ASSUME NEW c \in DOMAIN s
      PROVE  /\ s[c] \in Snapshot
             /\ r.cmd = "setup" /\ c \in r.clients => s[c].installed = Ours(r.version)
             /\ ~(r.cmd = "setup" /\ c \in r.clients) => c \in DOMAIN loaded /\ s[c] = loaded[c]
             /\ c \in DOMAIN loaded => s[c].original = loaded[c].original /\ Known(loaded[c]) \subseteq Known(s[c])
             /\ c \notin DOMAIN loaded => s[c].original = ContentOf(Found(c))
  <2>1. CASE r.cmd = "setup" /\ c \in r.clients
    <3>1. s[c] = Planned(loaded, c, r.version) /\ c \in Clients
      BY <1>4, <1>7, <2>1
    <3> QED BY <1>1, <1>2, <1>6, <2>1, <3>1, PlannedIs
  <2>2. CASE ~(r.cmd = "setup" /\ c \in r.clients)
    <3>1. s[c] = loaded[c] /\ c \in DOMAIN loaded
      BY <1>5, <1>7, <2>2
    <3> QED BY <1>3, <2>2, <3>1
  <2> QED BY <2>1, <2>2
<1>9. s \in States
  <2>1. DOMAIN s \in SUBSET Clients
    BY <1>2, <1>5, <1>7
  <2>2. s \in [DOMAIN s -> Snapshot]
    BY <1>7, <1>8
  <2> QED BY <2>1, <2>2 DEF States
<1>10. r.cmd # "setup" => s = loaded
  <2>1. ASSUME r.cmd # "setup"  PROVE s = loaded
    <3>1. DOMAIN s = DOMAIN loaded
      BY <1>5, <1>7, <2>1
    <3>2. \A c \in DOMAIN s : s[c] = loaded[c]
      BY <1>8, <2>1
    <3> QED BY <1>2, <1>9, <3>1, <3>2, StateFacts
  <2> QED BY <2>1
<1>11. Extends(loaded, s, X)
  BY <1>5, <1>7, <1>8 DEF Extends
<1> QED BY <1>2, <1>5, <1>7, <1>8, <1>9, <1>10, <1>11

\* The command that is planned: it is for the clients X, whose files are known.
PlanFor(r, c) == [snapshot |-> Snapshots(r)[c], expected |-> Found(c), parent |-> dir[c]]
Embarks(z, r) ==
    /\ z \in ProcRecs
    /\ z.cmd = r.cmd /\ z.run = r.run /\ z.clients = r.clients /\ z.version = r.version
    /\ z.directory = r.directory /\ z.journal = r.journal /\ z.rolledBack /\ z.result = "none"
    /\ z.slipped = {} /\ z.recovery = Snapshots(r) /\ z.plans = [c \in Selected(r) |-> PlanFor(r, c)]
    /\ DOMAIN z.plans = Selected(r) /\ \A c \in Selected(r) : z.plans[c] = PlanFor(r, c)

LEMMA EmbarksGoing ==
    ASSUME Typed, NEW p \in Procs, proc[p].at = "locked", NEW z, Embarks(z, proc[p]), z.applied = <<>>,
           ~Refused(StateOf(proc[p].journal), Selected(proc[p])), z.todo \subseteq Selected(proc[p])
    PROVE  Going(z)
<1> DEFINE r == proc[p]  s == Snapshots(r)  loaded == StateOf(r.journal)  X == Selected(r)
<1>1. r.run # 0 /\ r.cmd # "none" /\ r.version \in Versions
  BY DEF Typed, ProcOK, PhaseOK, RestOK
<1>2. /\ s \in States /\ DOMAIN s = DOMAIN loaded \cup X
      /\ Extends(loaded, s, X) /\ (r.cmd = "setup" => X = r.clients)
      /\ \A c \in X \ DOMAIN loaded : s[c].original = ContentOf(Found(c))
  BY SnapshotsIs
<1>3. ASSUME NEW c \in X  PROVE PlanOK(z, c)
  <2>1. z.plans[c].snapshot = s[c] /\ z.plans[c].expected = Found(c) /\ z.recovery = s
    BY DEF Embarks, PlanFor
  <2>2. KnownFile(s[c], Found(c))
    <3>1. CASE c \in DOMAIN loaded
      <4>1. Accepts(loaded[c], Found(c))
        BY <3>1 DEF Refused
      <4>2. Known(loaded[c]) \subseteq Known(s[c])
        BY <1>2, <3>1 DEF Extends
      <4> QED BY <4>1, <4>2 DEF Accepts, KnownFile, Known
    <3>2. CASE c \notin DOMAIN loaded
      BY <1>2, <3>2 DEF KnownFile, Known, ContentOf
    <3> QED BY <3>1, <3>2
  <2> QED BY <1>2, <2>1, <2>2 DEF PlanOK
<1>4. \A i \in 1..Len(z.applied) : ChangeOK(z, z.applied[i])
  BY DEF ChangeOK
<1> QED BY <1>1, <1>2, <1>3, <1>4 DEF Going, Embarks

\* Nothing but the commands' own state changes, and that of p only.
Stays(p) ==
    /\ UNCHANGED <<file, left, dir, owed, chased, raced>>
    /\ \A q \in Procs : q # p => proc'[q] = proc[q]
Ended(z) == z.at = "idle" /\ z.w = NoWrite

LEMMA EndsTyped ==
    ASSUME Typed, NEW p \in Procs, NEW result, Goes(p, Finished(result))
    PROVE  /\ Typed' /\ Stays(p) /\ UNCHANGED <<torn, looked>> /\ Ended(proc'[p])
           /\ proc'[p].result = IF result = "undone" THEN "undone" ELSE "none"
<1>1. /\ ProcOK(Finished(result)) /\ Ended(Finished(result))
      /\ Finished(result).result = IF result = "undone" THEN "undone" ELSE "none"
  BY FinishedIs DEF Ended
<1>2. Typed' /\ proc'[p] = Finished(result) /\ \A q \in Procs : q # p => proc'[q] = proc[q]
  BY <1>1, GoesTyped
<1>3. UNCHANGED <<file, left, dir, owed, chased, raced, torn, looked>>
  BY DEF Goes, userVars, historyVars
<1> QED BY <1>1, <1>2, <1>3 DEF Stays

\* A command that goes on with z.
LEMMA GoesOn ==
    ASSUME Typed, NEW p \in Procs, NEW z, ProcOK(z), Goes(p, z)
    PROVE  Typed' /\ Stays(p) /\ UNCHANGED <<torn, looked>> /\ proc'[p] = z
<1>1. Typed' /\ proc'[p] = z /\ \A q \in Procs : q # p => proc'[q] = proc[q]
  BY GoesTyped
<1>2. UNCHANGED <<file, left, dir, owed, chased, raced, torn, looked>>
  BY DEF Goes, userVars, historyVars
<1> QED BY <1>1, <1>2 DEF Stays

\* The record that a restore commits with: its plans are made.
PlannedTo(r) == [r EXCEPT !.recovery = Snapshots(r), !.todo = Selected(r),
                         !.plans = [c \in Selected(r) |-> PlanFor(r, c)]]
WithState(r, s) == [r EXCEPT !.state = s]

LEMMA WithStateIs ==
    ASSUME NEW r \in ProcRecs, NEW s \in States
    PROVE  LET z == WithState(r, s) IN
           Alike(z, r) /\ z.state = s /\ z.applied = r.applied /\ z.at = r.at /\ z.w = r.w
           /\ z.journal = r.journal /\ z.directory = r.directory /\ z.rolledBack = r.rolledBack
           /\ z.slipped = r.slipped
<1> DEFINE z == [r EXCEPT !.state = s]
<1>1. /\ z \in ProcRecs /\ z.cmd = r.cmd /\ z.run = r.run /\ z.clients = r.clients /\ z.version = r.version
      /\ z.recovery = r.recovery /\ z.plans = r.plans /\ z.result = r.result /\ z.todo = r.todo
      /\ z.slipped = r.slipped
      /\ z.state = s /\ z.applied = r.applied /\ z.at = r.at /\ z.w = r.w
      /\ z.journal = r.journal /\ z.directory = r.directory /\ z.rolledBack = r.rolledBack
  BY ZenonT(60) DEF ProcRecs
<1> QED BY <1>1 DEF WithState, Alike

LEMMA PlannedToIs ==
    ASSUME Typed, NEW p \in Procs, proc[p].at = "locked"
    PROVE  LET r == proc[p]  z == PlannedTo(r) IN
           /\ Embarks(z, r) /\ z.applied = <<>> /\ z.todo = Selected(r) /\ z.at = "locked"
<1> DEFINE r == proc[p]  s == Snapshots(r)  X == Selected(r)  m == [c \in X |-> PlanFor(r, c)]
           z == [r EXCEPT !.recovery = s, !.todo = X, !.plans = m]
<1>1. r \in ProcRecs /\ r.result = "none" /\ r.applied = <<>> /\ r.rolledBack /\ r.slipped = {}
  BY DEF Typed, ProcOK, PhaseOK, RestOK, Resting
<1>2. s \in States /\ X \in SUBSET Clients
  BY SnapshotsIs
<1>3. m \in PlanMaps
  <2>1. \A c \in Clients : Found(c) \in ClientFiles \cup {Absent} /\ dir[c] \in Dirs
    BY TargetFacts, FileAt DEF Found, Typed
  <2>2. DOMAIN s = DOMAIN StateOf(r.journal) \cup X
    BY SnapshotsIs
  <2>3. \A c \in X : s[c] \in Snapshot
    BY <1>2, <2>2, StateFacts
  <2>4. \A c \in X : PlanFor(r, c) \in Plans
    BY <1>2, <2>1, <2>3 DEF PlanFor, Plans
  <2>5. m \in [X -> Plans]
    BY <2>4
  <2> QED BY <1>2, <2>5 DEF PlanMaps
<1>4. DOMAIN m = X /\ \A c \in X : m[c] = PlanFor(r, c)
  OBVIOUS
<1>5. PlannedTo(r) = z
  BY DEF PlannedTo
<1> HIDE DEF s, X, m
<1>6. /\ z \in ProcRecs /\ z.cmd = r.cmd /\ z.run = r.run /\ z.clients = r.clients /\ z.version = r.version
      /\ z.directory = r.directory /\ z.journal = r.journal /\ z.rolledBack = r.rolledBack
      /\ z.result = r.result /\ z.recovery = s /\ z.plans = m /\ z.applied = r.applied /\ z.todo = X
      /\ z.at = r.at /\ z.slipped = r.slipped
  BY <1>1, <1>2, <1>3, ZenonT(60) DEF ProcRecs
<1> HIDE DEF z
<1> QED BY <1>1, <1>4, <1>5, <1>6 DEF Embarks, m, X, s

\* A setup writes the journal first.
LEMMA JournalFirstIs ==
    ASSUME NEW r \in ProcRecs, NEW s \in States
    PROVE  LET z == [r EXCEPT !.at = "journal", !.state = s, !.w = Saving(r, s)] IN
           /\ Alike(z, r) /\ z.at = "journal" /\ z.state = s /\ z.applied = r.applied
           /\ z.slipped = r.slipped
           /\ z.journal = r.journal /\ z.directory = r.directory /\ z.rolledBack = r.rolledBack
           /\ NewWrite(z.w, Journal, AsContent(s), r.journal, r.directory)
<1> DEFINE v == Saving(r, s)  z == [r EXCEPT !.at = "journal", !.state = s, !.w = v]
<1>1. NewWrite(v, Journal, AsContent(s), r.journal, r.directory)
  BY SavingIs
<1>2. v \in WriteRecs /\ "journal" \in Phases
  BY <1>1 DEF NewWrite, Phases
<1> HIDE DEF v
<1>3. /\ z \in ProcRecs /\ z.cmd = r.cmd /\ z.run = r.run /\ z.clients = r.clients /\ z.version = r.version
      /\ z.recovery = r.recovery /\ z.plans = r.plans /\ z.result = r.result /\ z.todo = r.todo
      /\ z.slipped = r.slipped
      /\ z.at = "journal" /\ z.state = s /\ z.applied = r.applied /\ z.w = v
      /\ z.journal = r.journal /\ z.directory = r.directory /\ z.rolledBack = r.rolledBack
  BY <1>2, ZenonT(60) DEF ProcRecs
<1> HIDE DEF z
<1> QED BY <1>1, <1>3 DEF Alike, z, v

LEMMA FollowsItself ==
    ASSUME NEW s, NEW sel, NEW all
    PROVE  Follows(s, s, sel, all)
  BY DEF Follows

\* The file of the journal that a save writes or leaves.
LEMMA SavedIs ==
    ASSUME NEW r, ProcOK(r), r.at \in SavePhases
    PROVE  Saved(r) \in JournalFiles \cup {Absent}
<1>1. /\ r.journal \in JournalFiles \cup {Absent} /\ r.run \in 0..MaxRuns
      /\ r.w.new \in ContentsOf(Journal) \cup {Absent}
  BY DEF ProcOK, ProcRecs, WriteOK, PhaseOK, SaveOK
<1>2. r.w.new # Absent => Staged(r) \in JournalFiles
  BY <1>1, FileMade, TargetFacts DEF Staged
<1> QED BY <1>1, <1>2 DEF Saved

Saver(r) == [r EXCEPT !.journal = Saved(r)]
LEMMA SaverIs ==
    ASSUME NEW r, ProcOK(r), r.at \in SavePhases
    PROVE  LET z == Saver(r) IN
           /\ Alike(z, r) /\ z.at = r.at /\ z.state = r.state /\ z.applied = r.applied /\ z.w = r.w
           /\ z.journal = Saved(r) /\ z.directory = r.directory /\ z.rolledBack = r.rolledBack
           /\ z.lock = r.lock /\ Going(z) /\ z.slipped = r.slipped
<1> DEFINE j == Saved(r)  z == [r EXCEPT !.journal = j]
<1>1. r \in ProcRecs /\ j \in JournalFiles \cup {Absent} /\ r.at \notin Resting
  BY SavedIs DEF ProcOK, SavePhases, Resting
<1> HIDE DEF j
<1>2. /\ z \in ProcRecs /\ z.cmd = r.cmd /\ z.run = r.run /\ z.clients = r.clients /\ z.version = r.version
      /\ z.recovery = r.recovery /\ z.plans = r.plans /\ z.result = r.result /\ z.todo = r.todo
      /\ z.slipped = r.slipped
      /\ z.at = r.at /\ z.state = r.state /\ z.applied = r.applied /\ z.w = r.w
      /\ z.journal = j /\ z.directory = r.directory /\ z.rolledBack = r.rolledBack /\ z.lock = r.lock
  BY <1>1, ZenonT(60) DEF ProcRecs
<1>3. Saver(r) = z
  BY DEF Saver, j
<1> HIDE DEF z
<1>4. Going(r)
  BY <1>1, GoingIs
<1>5. Going(z)
  BY <1>2, <1>4, GoingAlike DEF Going, Alike
<1> QED BY <1>2, <1>3, <1>5 DEF Alike, j

WithOutcome(r, b) == [r EXCEPT !.rolledBack = b]
LEMMA WithOutcomeIs ==
    ASSUME NEW r, Going(r), NEW b \in BOOLEAN
    PROVE  LET z == WithOutcome(r, b) IN
           /\ Alike(z, r) /\ z.at = r.at /\ z.state = r.state /\ z.applied = r.applied /\ z.w = r.w
           /\ z.journal = r.journal /\ z.directory = r.directory /\ z.rolledBack = b /\ Going(z)
<1> DEFINE z == [r EXCEPT !.rolledBack = b]
<1>1. r \in ProcRecs
  BY DEF Going
<1>2. /\ z \in ProcRecs /\ z.cmd = r.cmd /\ z.run = r.run /\ z.clients = r.clients /\ z.version = r.version
      /\ z.recovery = r.recovery /\ z.plans = r.plans /\ z.result = r.result /\ z.todo = r.todo
      /\ z.slipped = r.slipped
      /\ z.at = r.at /\ z.state = r.state /\ z.applied = r.applied /\ z.w = r.w
      /\ z.journal = r.journal /\ z.directory = r.directory /\ z.rolledBack = b
  BY <1>1, ZenonT(60) DEF ProcRecs
<1>3. WithOutcome(r, b) = z
  BY DEF WithOutcome
<1> HIDE DEF z
<1>5. Going(z)
  BY <1>2, GoingAlike DEF Going, Alike
<1> QED BY <1>2, <1>3, <1>5 DEF Alike

\* What planning leaves: the command fails, or it is to write the journal or the first client.
Looks(r) == [c \in Clients |-> IF c \notin Selected(r) THEN looked[c]
                               ELSE IF Answered(r, c) THEN dir[c] ELSE 0]
MayPlan(r) ==
    /\ r.directory = dir[Journal] /\ file[Journal][dir[Journal]] = r.journal
    /\ ~Refused(StateOf(r.journal), Selected(r))
WritesFirst(z, r) ==
    /\ r.cmd = "setup" /\ Embarks(z, r) /\ z.at = "journal" /\ z.todo = Selected(r)
    /\ z.applied = <<>> /\ z.state = Snapshots(r)
    /\ NewWrite(z.w, Journal, AsContent(Snapshots(r)), r.journal, r.directory)
Restoring(r) == WithState(PlannedTo(r), Snapshots(r))

LEMMA RestoringIs ==
    ASSUME Typed, NEW p \in Procs, proc[p].at = "locked", ~Refused(StateOf(proc[p].journal), Selected(proc[p]))
    PROVE  LET r == proc[p]  z == Restoring(r) IN
           /\ Embarks(z, r) /\ z.applied = <<>> /\ z.todo = Selected(r) /\ z.state = Snapshots(r)
           /\ Going(z) /\ Follows(z.state, z.recovery, DOMAIN z.plans, z.cmd = "setup")
<1> DEFINE r == proc[p]  y == PlannedTo(r)  s == Snapshots(r)  z == WithState(y, s)
<1>1. Embarks(y, r) /\ y.applied = <<>> /\ y.todo = Selected(r)
  BY PlannedToIs
<1>2. s \in States
  BY SnapshotsIs
<1> HIDE DEF y, s
<1>3. /\ Alike(z, y) /\ z.state = s /\ z.applied = y.applied
      /\ z.journal = y.journal /\ z.directory = y.directory /\ z.rolledBack = y.rolledBack
      /\ z.slipped = y.slipped
  BY <1>1, <1>2, WithStateIs DEF Embarks
<1> HIDE DEF z
<1>4. Embarks(z, r) /\ z.applied = <<>> /\ z.todo = Selected(r)
  BY <1>1, <1>3 DEF Embarks, Alike
<1>5. Going(z)
  BY <1>4, EmbarksGoing
<1>6. z.state = z.recovery
  BY <1>3, <1>4 DEF Embarks, s
<1> QED BY <1>3, <1>4, <1>5, <1>6, FollowsItself DEF z, y, s, Restoring

\* What planning leaves.
LEMMA PlanTyped ==
    ASSUME Typed, NEW p \in Procs, Plan(p)
    PROVE  LET r == proc[p] IN
           /\ r.at = "locked" /\ Typed' /\ Stays(p) /\ UNCHANGED torn
           /\ \/ Ended(proc'[p]) /\ proc'[p].result = "none" /\ UNCHANGED looked
              \/ /\ MayPlan(r) /\ looked' = Looks(r)
                 /\ \/ WritesFirst(proc'[p], r)
                    \/ r.cmd # "setup" /\ proc'[p] = Committing(Restoring(r))
<1> DEFINE r == proc[p]  s == Snapshots(r)  X == Selected(r)  y == PlannedTo(r)
           z == [y EXCEPT !.at = "journal", !.state = s, !.w = Saving(y, s)]
<1>1. r.at = "locked" /\ UNCHANGED <<file, left, dir, lockFile, owed, chased, edits, runs, torn, raced>>
  BY DEF Plan
<1>2. \/ proc' = [proc EXCEPT ![p] = Finished("failed")] /\ UNCHANGED looked
      \/ MayPlan(r) /\ proc' = [proc EXCEPT ![p] = FirstOf(y, s)] /\ looked' = Looks(r)
  BY DEF Plan, MayPlan, Looks, DirectoryHeld, Found, PlannedTo, PlanFor
<1>3. runs' \in 0..MaxRuns /\ torn' \in BOOLEAN /\ raced' \in BOOLEAN /\ looked \in [Clients -> Dirs \cup {0}]
  BY <1>1 DEF Typed
<1>4. CASE proc' = [proc EXCEPT ![p] = Finished("failed")] /\ UNCHANGED looked
  <2>1. ProcOK(Finished("failed")) /\ Ended(Finished("failed")) /\ Finished("failed").result = "none"
    BY FinishedIs DEF Ended
  <2>2. Typed' /\ proc'[p] = Finished("failed") /\ \A q \in Procs : q # p => proc'[q] = proc[q]
    BY <1>1, <1>3, <1>4, <2>1, CommandTyped
  <2> QED BY <1>1, <1>4, <2>1, <2>2 DEF Stays
<1>5. CASE MayPlan(r) /\ proc' = [proc EXCEPT ![p] = FirstOf(y, s)] /\ looked' = Looks(r)
  <2>1. looked' \in [Clients -> Dirs \cup {0}]
    BY <1>3, <1>5, TargetFacts DEF Looks, Typed
  <2>2. ~Refused(StateOf(r.journal), X)
    BY <1>5 DEF MayPlan
  <2>3. y.cmd = r.cmd /\ y \in ProcRecs /\ y.journal = r.journal /\ y.directory = r.directory
        /\ Embarks(y, r) /\ y.applied = <<>> /\ y.todo = X
    BY <1>1, PlannedToIs DEF Embarks
  <2>4. CASE r.cmd = "setup"
    <3>1. FirstOf(y, s) = z
      BY <2>3, <2>4 DEF FirstOf
    <3>2. s \in States /\ X = r.clients
      BY <1>1, <2>4, SnapshotsIs
    <3>3. /\ Alike(z, y) /\ z.at = "journal" /\ z.state = s /\ z.applied = y.applied
          /\ z.slipped = y.slipped
          /\ z.journal = y.journal /\ z.directory = y.directory /\ z.rolledBack = y.rolledBack
          /\ NewWrite(z.w, Journal, AsContent(s), r.journal, r.directory)
      BY <2>3, <3>2, JournalFirstIs
    <3> HIDE DEF z, y, s, X
    <3>4. Embarks(z, r) /\ z.applied = <<>> /\ z.todo = X
      BY <2>3, <3>3 DEF Embarks, Alike
    <3>5. WritesFirst(z, r)
      BY <2>4, <3>3, <3>4 DEF WritesFirst, s, X
    <3>6. Going(z)
      BY <1>1, <2>2, <3>4, EmbarksGoing DEF X
    <3>7. ProcOK(z)
      <4>1. z.w.target = Journal /\ WriteOK(z.w) /\ z.w.step \in WriteSteps
        <5>1. r.journal \in JournalFiles \cup {Absent}
          BY <2>3, <3>3 DEF ProcRecs, Embarks, y
        <5>2. AsContent(s) \in ContentsOf(Journal) \cup {Absent}
          BY <3>2, TargetFacts DEF AsContent
        <5>3. NewWrite(z.w, Journal, AsContent(s), r.journal, r.directory)
          BY <3>3
        <5>4. WriteOK(z.w) /\ z.w.step \in WriteSteps
          BY <5>1, <5>2, <5>3, NewWriteOK, TargetFacts
        <5> QED BY <5>3, <5>4 DEF NewWrite
      <4>2. RestOK(z) /\ ClientOK(z)
        BY <3>3, <3>6 DEF RestOK, ClientOK, Going, Resting, ClientPhases
      <4>3. z.recovery = s /\ z.state = s /\ z.cmd = "setup" /\ z.todo = DOMAIN z.plans
            /\ z.journal = r.journal /\ z.directory = r.directory
        BY <2>4, <3>3, <3>4 DEF Embarks, s, X
      <4>4. SaveOK(z)
        BY <3>3, <4>1, <4>3 DEF SaveOK, NewWrite
      <4>5. StateOK(z)
        BY <3>3, <4>3 DEF StateOK
      <4>6. PlansOK(z)
        BY <3>6 DEF PlansOK, Going
      <4> QED BY <3>6, <4>1, <4>2, <4>4, <4>5, <4>6 DEF ProcOK, PhaseOK, Going
    <3>8. proc' = [proc EXCEPT ![p] = z]
      BY <1>5, <3>1 DEF z, y, s
    <3>9. Typed' /\ proc'[p] = z /\ \A q \in Procs : q # p => proc'[q] = proc[q]
      BY <1>1, <1>3, <2>1, <3>7, <3>8, CommandTyped
    <3> QED BY <1>1, <1>5, <3>5, <3>9 DEF Stays
  <2>5. CASE r.cmd # "setup"
    <3>1. FirstOf(y, s) = Committing(Restoring(r))
      BY <2>3, <2>5 DEF FirstOf, Restoring, WithState
    <3>2. ProcOK(Committing(Restoring(r)))
      BY <1>1, <2>2, RestoringIs, CommittingOK
    <3>8. proc' = [proc EXCEPT ![p] = Committing(Restoring(r))]
      BY <1>5, <3>1
    <3>9. Typed' /\ proc'[p] = Committing(Restoring(r)) /\ \A q \in Procs : q # p => proc'[q] = proc[q]
      BY <1>1, <1>3, <2>1, <3>2, <3>8, CommandTyped
    <3> QED BY <1>1, <1>5, <2>5, <3>9 DEF Stays
  <2> QED BY <2>4, <2>5
<1> QED BY <1>1, <1>2, <1>4, <1>5

LEMMA JournalReturnsTyped ==
    ASSUME Typed, NEW p \in Procs, JournalReturns(p)
    PROVE  LET r == proc[p] IN
           /\ r.at = "journal" /\ r.w.step = "return" /\ Typed' /\ Stays(p) /\ UNCHANGED <<torn, looked>>
           /\ \/ Ended(proc'[p]) /\ proc'[p].result = "none"
              \/ r.w.ok /\ proc'[p] = Committing(Saver(r))
<1> DEFINE r == proc[p]  z == Saver(r)
<1>1. r.at = "journal" /\ r.w.step = "return" /\ ProcOK(r)
  BY DEF JournalReturns, Continues, Typed
<1>2. /\ Alike(z, r) /\ z.state = r.state /\ z.w = r.w /\ Going(z)
  BY <1>1, SaverIs DEF SavePhases
<1>3. \/ r.w.ok /\ Goes(p, Committing(z))
      \/ Goes(p, Finished("failed"))
  <2>1. Goes(p, IF z.w.ok /\ DirectoryHeld(z) THEN Committing(z) ELSE Finished("failed"))
    BY DEF JournalReturns, Saver
  <2> QED BY <1>2, <2>1
<1>4. CASE r.w.ok /\ Goes(p, Committing(z))
  <2>1. r.state = r.recovery
    BY <1>1 DEF ProcOK, PhaseOK, StateOK
  <2>2. Follows(z.state, z.recovery, DOMAIN z.plans, z.cmd = "setup")
    BY <1>2, <2>1, FollowsItself DEF Alike
  <2>3. ProcOK(Committing(z))
    BY <1>2, <2>2, CommittingOK
  <2>4. Typed' /\ Stays(p) /\ UNCHANGED <<torn, looked>> /\ proc'[p] = Committing(z)
    BY <1>4, <2>3, GoesOn
  <2> QED BY <1>1, <1>4, <2>4
<1>5. CASE Goes(p, Finished("failed"))
  BY <1>1, <1>5, EndsTyped
<1> QED BY <1>3, <1>4, <1>5

ChangeMade(r) == [target |-> r.w.target, before |-> r.plans[r.w.target].expected,
                  parent |-> r.plans[r.w.target].parent, after |-> NewFile(r)]
Moved(r) == r.w.new # Absent \/ r.w.expected # Absent
Applied(r) == IF r.w.ok /\ Moved(r) THEN Append(r.applied, ChangeMade(r)) ELSE r.applied
Slipped(r) == IF r.w.late THEN r.slipped \cup {r.w.target} ELSE r.slipped
NextOf(r) == [r EXCEPT !.applied = Applied(r), !.slipped = Slipped(r), !.rolledBack = r.w.undone]
Without(s, c) == [k \in DOMAIN s \ {c} |-> s[k]]

LEMMA AppendFacts ==
    ASSUME NEW s \in Seq(Changes), NEW a \in Changes
    PROVE  /\ Append(s, a) \in Seq(Changes) /\ Len(Append(s, a)) = Len(s) + 1
           /\ Append(s, a)[Len(s) + 1] = a
           /\ \A i \in 1..Len(s) : Append(s, a)[i] = s[i] /\ i \in 1..Len(Append(s, a))
           /\ \A i \in 1..Len(Append(s, a)) : i \in 1..Len(s) \/ i = Len(s) + 1
           /\ Len(s) + 1 \in 1..Len(Append(s, a))
<1>1. \A n \in Nat : /\ \A i \in 1..(n + 1) : i \in 1..n \/ i = n + 1
                     /\ \A i \in 1..n : i \in 1..(n + 1)
                     /\ n + 1 \in 1..(n + 1)
  OBVIOUS
<1>2. Len(s) \in Nat
  OBVIOUS
<1>3. Append(s, a) \in Seq(Changes) /\ Len(Append(s, a)) = Len(s) + 1 /\ Append(s, a)[Len(s) + 1] = a
  OBVIOUS
<1>4. \A i \in 1..Len(s) : Append(s, a)[i] = s[i]
  OBVIOUS
<1> QED BY <1>1, <1>2, <1>3, <1>4

LEMMA NewFileOK ==
    ASSUME NEW r, ProcOK(r)
    PROVE  /\ NewFile(r) \in FilesOf(r.w.target) \cup {Absent} /\ r.w.target \in Targets
           /\ r.w.new # Absent => /\ NewFile(r) # Absent /\ NewFile(r).content = r.w.new
                                  /\ NewFile(r).run = r.run /\ NewFile(r) = Staged(r)
           /\ r.w.new = Absent => NewFile(r) = Absent
<1>1. /\ r.run \in 0..MaxRuns /\ r.w.new \in ContentsOf(r.w.target) \cup {Absent} /\ r.w.target \in Targets
  BY DEF ProcOK, ProcRecs, WriteOK, WriteRecs
<1>2. r.w.new # Absent =>
        /\ File(r.w.new, r.run) \in FilesOf(r.w.target) /\ File(r.w.new, r.run) # Absent
        /\ File(r.w.new, r.run).content = r.w.new /\ File(r.w.new, r.run).run = r.run
  BY <1>1, FileMade
<1> QED BY <1>1, <1>2 DEF NewFile, Staged

LEMMA NextOfIs ==
    ASSUME NEW r, ProcOK(r), r.at = "commit"
    PROVE  LET z == NextOf(r) IN
           /\ Alike(z, r) /\ z.at = r.at /\ z.state = r.state /\ z.applied = Applied(r) /\ z.w = r.w
           /\ z.journal = r.journal /\ z.directory = r.directory /\ z.rolledBack = r.w.undone /\ Going(z)
           /\ Moved(r) => ChangeMade(r) \in Changes /\ ChangeOK(r, ChangeMade(r))
           /\ r.applied \in Seq(Changes) /\ Applied(r) \in Seq(Changes)
           /\ r.w.target \in DOMAIN r.plans
           /\ z.slipped = Slipped(r)
<1> DEFINE c == r.w.target  a == ChangeMade(r)
<1>1. /\ r \in ProcRecs /\ r.at \notin Resting /\ r.applied \in Seq(Changes) /\ r.w \in WriteRecs
      /\ r.w.undone \in BOOLEAN /\ r.plans \in PlanMaps
  BY DEF ProcOK, ProcRecs, WriteRecs, Resting
<1>2. Going(r)
  BY <1>1, GoingIs
<1>3. /\ c \in DOMAIN r.plans /\ r.w.expected = r.plans[c].expected /\ r.w.new = Goal(r, c)
  BY DEF ProcOK, PhaseOK, ClientOK, ClientPhases
<1>4. /\ r.plans[c] \in Plans /\ c \in Clients
  BY <1>1, <1>3, PlanFacts
<1>5. /\ a.target = c /\ a.before = r.plans[c].expected /\ a.parent = r.plans[c].parent /\ a.after = NewFile(r)
  BY DEF ChangeMade
<1>6. a \in Changes
  <2>1. NewFile(r) \in ClientFiles \cup {Absent}
    BY <1>4, NewFileOK, TargetFacts
  <2>2. r.plans[c].expected \in ClientFiles \cup {Absent} /\ r.plans[c].parent \in Dirs
    BY <1>4 DEF Plans
  <2> QED BY <1>4, <2>1, <2>2 DEF Changes, ChangeMade
<1>7. ASSUME Moved(r)  PROVE ChangeOK(r, a)
  <2>1. KnownFile(r.plans[c].snapshot, NewFile(r))
    BY <1>3, NewFileOK DEF KnownFile, Known, Goal
  <2>2. a.before = Absent => a.after # Absent
    BY <1>3, <1>5, <1>7, NewFileOK DEF Moved
  <2> HIDE DEF a
  <2> QED BY <1>3, <1>5, <2>1, <2>2 DEF ChangeOK
<1> HIDE DEF a, c
<1> DEFINE s == Applied(r)  b == r.w.undone  k == Slipped(r)
           z == [r EXCEPT !.applied = s, !.slipped = k, !.rolledBack = b]
<1>8. s \in Seq(Changes) /\ \A i \in 1..Len(s) : ChangeOK(r, s[i])
  <2>1. CASE r.w.ok /\ Moved(r)
    <3>1. s = Append(r.applied, a)
      BY <2>1 DEF Applied, a
    <3>2. ChangeOK(r, a)
      BY <1>7, <2>1
    <3> HIDE DEF s
    <3> QED BY <1>1, <1>2, <1>6, <3>1, <3>2, AppendFacts DEF Going
  <2>2. CASE ~(r.w.ok /\ Moved(r))
    BY <1>1, <1>2, <2>2 DEF Applied, Going
  <2> QED BY <2>1, <2>2
<1>b. b \in BOOLEAN
  BY <1>1
<1>c. k \in SUBSET Clients /\ r.slipped \subseteq k /\ (r.w.late => r.w.target \in k)
  BY <1>1, <1>4 DEF Slipped, ProcRecs, c
<1> HIDE DEF s, b, k
<1>9. /\ z \in ProcRecs /\ z.cmd = r.cmd /\ z.run = r.run /\ z.clients = r.clients /\ z.version = r.version
      /\ z.recovery = r.recovery /\ z.plans = r.plans /\ z.result = r.result /\ z.todo = r.todo
      /\ z.slipped = k
      /\ z.at = r.at /\ z.state = r.state /\ z.applied = s /\ z.w = r.w
      /\ z.journal = r.journal /\ z.directory = r.directory /\ z.rolledBack = b
  BY <1>1, <1>8, <1>b, <1>c, ZenonT(60) DEF ProcRecs
<1>10. NextOf(r) = z
  BY DEF NextOf, s, b, k
<1> HIDE DEF z
<1>11. Going(z)
  BY <1>2, <1>8, <1>9, <1>c, GoingAlike DEF Alike
<1> QED BY <1>1, <1>3, <1>6, <1>7, <1>8, <1>9, <1>10, <1>11, <1>c DEF Alike, s, b, k, a, c

LEMMA WithoutIs ==
    ASSUME NEW s \in States, NEW c
    PROVE  /\ Without(s, c) \in States /\ DOMAIN Without(s, c) = DOMAIN s \ {c}
           /\ \A k \in DOMAIN s \ {c} : Without(s, c)[k] = s[k]
<1>1. \A k \in DOMAIN s : s[k] \in Snapshot
  BY StateFacts
<1>2. DOMAIN Without(s, c) = DOMAIN s \ {c} /\ \A k \in DOMAIN s \ {c} : Without(s, c)[k] = s[k]
  BY DEF Without
<1>3. Without(s, c) \in [DOMAIN s \ {c} -> Snapshot]
  BY <1>1 DEF Without
<1>4. DOMAIN s \ {c} \in SUBSET Clients
  BY StateFacts
<1> QED BY <1>2, <1>3, <1>4 DEF States

\* What a commit goes on with.
Proceeding(r) == IF r.cmd = "setup" THEN NextOf(r)
                 ELSE WithState(NextOf(r), Without(NextOf(r).state, r.w.target))

LEMMA ProceedingIs ==
    ASSUME NEW r, ProcOK(r), r.at = "commit"
    PROVE  LET z == Proceeding(r) IN
           /\ Alike(z, r) /\ z.at = r.at /\ z.applied = Applied(r)
           /\ z.journal = r.journal /\ z.directory = r.directory /\ z.rolledBack = r.w.undone /\ Going(z)
           /\ z.slipped = Slipped(r)
           /\ z.state = (IF r.cmd = "setup" THEN r.state ELSE Without(r.state, r.w.target))
           /\ Follows(z.state, z.recovery, DOMAIN z.plans, z.cmd = "setup")
<1> DEFINE y == NextOf(r)  z == Proceeding(r)
<1>1. /\ Alike(y, r) /\ y.at = r.at /\ y.state = r.state /\ y.applied = Applied(r)
      /\ y.journal = r.journal /\ y.directory = r.directory /\ y.rolledBack = r.w.undone /\ Going(y)
      /\ r.w.target \in DOMAIN r.plans /\ y.slipped = Slipped(r)
  BY NextOfIs
<1>2. Follows(r.state, r.recovery, DOMAIN r.plans, r.cmd = "setup")
  BY DEF ProcOK, PhaseOK, StateOK
<1>3. CASE r.cmd = "setup"
  <2>1. z = y
    BY <1>3 DEF Proceeding
  <2> HIDE DEF y, z
  <2> QED BY <1>1, <1>2, <1>3, <2>1 DEF y, z, Alike
<1>4. CASE r.cmd # "setup"
  <2> DEFINE s == Without(r.state, r.w.target)
  <2>1. z = WithState(y, s)
    BY <1>1, <1>4 DEF Proceeding
  <2>2. r.state \in States /\ y \in ProcRecs
    BY <1>1 DEF ProcOK, ProcRecs, Alike
  <2>3. /\ s \in States /\ DOMAIN s = DOMAIN r.state \ {r.w.target}
        /\ \A k \in DOMAIN r.state \ {r.w.target} : s[k] = r.state[k]
    BY <2>2, WithoutIs
  <2> HIDE DEF y, s, z
  <2>4. /\ Alike(z, y) /\ z.state = s /\ z.applied = y.applied /\ z.at = y.at /\ z.slipped = y.slipped
        /\ z.journal = y.journal /\ z.directory = y.directory /\ z.rolledBack = y.rolledBack
    BY <2>1, <2>2, <2>3, WithStateIs
  <2>5. Going(z)
    <3>1. \A i \in 1..Len(z.applied) : ChangeOK(y, z.applied[i])
      BY <1>1, <2>4 DEF Going
    <3> QED BY <1>1, <2>4, <3>1, GoingAlike
  <2>6. Follows(s, r.recovery, DOMAIN r.plans, FALSE)
    BY <1>1, <1>2, <1>4, <2>3 DEF Follows
  <2> QED BY <1>1, <1>4, <2>4, <2>5, <2>6 DEF y, z, s, Alike
<1> QED BY <1>3, <1>4

\* What a command is after the write of a client's file returned.
LEMMA CommitReturnsTyped ==
    ASSUME Typed, NEW p \in Procs, CommitReturns(p)
    PROVE  LET r == proc[p] IN
           /\ r.at = "commit" /\ r.w.step = "return" /\ Typed' /\ Stays(p) /\ UNCHANGED <<torn, looked>>
           /\ \/ proc'[p] = RollingBack(NextOf(r))
              \/ r.w.ok /\ proc'[p] = Committing(Proceeding(r))
<1> DEFINE r == proc[p]  y == NextOf(r)  z == Proceeding(r)
<1>1. r.at = "commit" /\ r.w.step = "return" /\ ProcOK(r)
  BY DEF CommitReturns, Continues, Typed
<1>2. \/ r.w.ok /\ Goes(p, Committing(z))
      \/ Goes(p, RollingBack(y))
  BY DEF CommitReturns, NextOf, Applied, Slipped, Moved, ChangeMade, NewFile, Proceeding, WithState, Without
<1>3. Going(y) /\ Going(z) /\ Follows(z.state, z.recovery, DOMAIN z.plans, z.cmd = "setup")
  BY <1>1, NextOfIs, ProceedingIs
<1> HIDE DEF y, z
<1>4. ProcOK(RollingBack(y)) /\ ProcOK(Committing(z))
  BY <1>3, RollingBackOK, CommittingOK
<1>5. CASE r.w.ok /\ Goes(p, Committing(z))
  <2>1. Typed' /\ Stays(p) /\ UNCHANGED <<torn, looked>> /\ proc'[p] = Committing(z)
    BY <1>4, <1>5, GoesOn
  <2> QED BY <1>1, <1>5, <2>1 DEF z
<1>6. CASE Goes(p, RollingBack(y))
  <2>1. Typed' /\ Stays(p) /\ UNCHANGED <<torn, looked>> /\ proc'[p] = RollingBack(y)
    BY <1>4, <1>6, GoesOn
  <2> QED BY <1>1, <2>1 DEF y
<1> QED BY <1>2, <1>5, <1>6

\* A command whose last save returns finds its directory moved, or that nothing was saved.
Aborting(r) == WithOutcome(Saver(r), r.w.undone)
LEMMA AbortingIs ==
    ASSUME NEW r, ProcOK(r), r.at = "final"
    PROVE  LET z == Aborting(r) IN
           /\ Alike(z, r) /\ z.at = r.at /\ z.state = r.state /\ z.applied = r.applied
           /\ z.journal = Saved(r) /\ z.directory = r.directory /\ z.rolledBack = r.w.undone /\ Going(z)
<1> DEFINE y == Saver(r)  b == r.w.undone
<1>1. /\ Alike(y, r) /\ y.at = r.at /\ y.state = r.state /\ y.applied = r.applied /\ y.w = r.w
      /\ y.journal = Saved(r) /\ y.directory = r.directory /\ Going(y)
  BY SaverIs DEF SavePhases
<1>2. b \in BOOLEAN
  BY DEF ProcOK, ProcRecs, WriteRecs
<1> HIDE DEF y, b
<1> DEFINE z == WithOutcome(y, b)
<1>3. /\ Alike(z, y) /\ z.at = y.at /\ z.state = y.state /\ z.applied = y.applied
      /\ z.journal = y.journal /\ z.directory = y.directory /\ z.rolledBack = b /\ Going(z)
  BY <1>1, <1>2, WithOutcomeIs
<1>4. Aborting(r) = z
  BY DEF Aborting, y, b
<1> HIDE DEF z
<1> QED BY <1>1, <1>3, <1>4 DEF Alike, b

LEMMA FinalReturnsTyped ==
    ASSUME Typed, NEW p \in Procs, FinalReturns(p)
    PROVE  LET r == proc[p] IN
           /\ r.at = "final" /\ r.w.step = "return" /\ Typed' /\ Stays(p) /\ UNCHANGED looked
           /\ torn => torn'
           /\ \/ Ended(proc'[p]) /\ proc'[p].result = "none" /\ r.w.ok
              \/ proc'[p] = RollingBack(Aborting(r)) /\ (torn' \/ (~r.w.ok /\ ~r.w.late))
<1> DEFINE r == proc[p]  y == Saver(r)  z == Aborting(r)
<1>1. r.at = "final" /\ r.w.step = "return" /\ ProcOK(r)
      /\ UNCHANGED <<file, left, dir, lockFile, owed, chased, raced, looked, edits, runs>>
  BY DEF FinalReturns, Continues, Typed
<1>2. y.w = r.w
  BY <1>1, SaverIs DEF SavePhases
<1>3. \/ /\ r.w.ok /\ DirectoryHeld(y) /\ proc' = [proc EXCEPT ![p] = Finished("done")]
      \/ ~(r.w.ok /\ DirectoryHeld(y)) /\ proc' = [proc EXCEPT ![p] = RollingBack(z)]
  BY <1>2 DEF FinalReturns, Saver, Aborting, WithOutcome
<1>4. torn' = (torn \/ r.w.late \/ (r.w.ok /\ ~DirectoryHeld(y)))
  BY <1>2 DEF FinalReturns, Saver
<1>5. Going(z)
  BY <1>1, AbortingIs
<1>6. /\ runs' \in 0..MaxRuns /\ looked' \in [Clients -> Dirs \cup {0}]
      /\ torn' \in BOOLEAN /\ raced' \in BOOLEAN
  BY <1>1, <1>4 DEF Typed
<1> HIDE DEF y, z
<1>7. CASE r.w.ok /\ DirectoryHeld(y) /\ proc' = [proc EXCEPT ![p] = Finished("done")]
  <2>1. ProcOK(Finished("done")) /\ Ended(Finished("done")) /\ Finished("done").result = "none"
    BY FinishedIs DEF Ended
  <2>2. Typed' /\ proc'[p] = Finished("done") /\ \A q \in Procs : q # p => proc'[q] = proc[q]
    BY <1>1, <1>6, <1>7, <2>1, CommandTyped
  <2> QED BY <1>1, <1>4, <1>7, <2>1, <2>2 DEF Stays
<1>8. CASE ~(r.w.ok /\ DirectoryHeld(y)) /\ proc' = [proc EXCEPT ![p] = RollingBack(z)]
  <2>1. ProcOK(RollingBack(z))
    BY <1>5, RollingBackOK
  <2>2. Typed' /\ proc'[p] = RollingBack(z) /\ \A q \in Procs : q # p => proc'[q] = proc[q]
    BY <1>1, <1>6, <1>8, <2>1, CommandTyped
  <2>3. (torn' \/ (~r.w.ok /\ ~r.w.late)) /\ (torn => torn')
    BY <1>4, <1>8
  <2> QED BY <1>1, <1>8, <2>2, <2>3 DEF Stays, z
<1> QED BY <1>3, <1>7, <1>8

RollingOn(r) == WithOutcome(r, r.rolledBack /\ r.w.ok)
LEMMA RollbackReturnsTyped ==
    ASSUME Typed, NEW p \in Procs, RollbackReturns(p)
    PROVE  LET r == proc[p]  z == RollingOn(r) IN
           /\ r.at = "rollback" /\ r.w.step = "return" /\ Typed' /\ Stays(p) /\ UNCHANGED <<torn, looked>>
           /\ proc'[p] = RollingBack(z)
           /\ Alike(z, r) /\ z.state = r.state /\ z.applied = r.applied
           /\ z.journal = r.journal /\ z.directory = r.directory
           /\ z.rolledBack = (r.rolledBack /\ r.w.ok) /\ Going(z)
<1> DEFINE r == proc[p]  b == (r.rolledBack /\ r.w.ok)  z == WithOutcome(r, b)
<1>1. r.at = "rollback" /\ r.w.step = "return" /\ ProcOK(r) /\ Goes(p, RollingBack(z))
  BY DEF RollbackReturns, Continues, Typed, WithOutcome
<1>2. Going(r)
  BY <1>1, GoingIs DEF Resting
<1>3. b \in BOOLEAN
  BY <1>1 DEF ProcOK, ProcRecs, WriteRecs
<1> HIDE DEF b
<1>4. /\ Alike(z, r) /\ z.state = r.state /\ z.applied = r.applied
      /\ z.journal = r.journal /\ z.directory = r.directory /\ z.rolledBack = b /\ Going(z)
  BY <1>2, <1>3, WithOutcomeIs
<1>5. ProcOK(RollingBack(z))
  BY <1>4, RollingBackOK
<1>6. Typed' /\ Stays(p) /\ UNCHANGED <<torn, looked>> /\ proc'[p] = RollingBack(z)
  BY <1>1, <1>5, GoesOn
<1>7. RollingOn(r) = z
  BY DEF RollingOn, b
<1> HIDE DEF z
<1> QED BY <1>1, <1>4, <1>6, <1>7 DEF b

RescueSteps == {"none", "rescuing", "rescued"}

\* A command that could not put the journal back where it was.
Rescue(z, r) ==
    /\ Alike(z, r) /\ z.at = "rescue" /\ z.applied = r.applied /\ z.rolledBack = r.rolledBack
    /\ z.directory = r.directory

\* A rescue holds no client's file and has nothing to take back.
LEMMA RescueOK ==
    ASSUME NEW r, Going(r), NEW z, Alike(z, r), z.at = "rescue", z.applied = <<>>,
           r.recovery # EmptyState, z.w.target = Journal, WriteOK(z.w), z.w.step \in RescueSteps
    PROVE  ProcOK(z)
<1>1. \A i \in 1..Len(z.applied) : ChangeOK(r, z.applied[i])
  BY DEF ChangeOK
<1>2. Going(z)
  BY <1>1, GoingAlike
<1>3. RestOK(z)
  BY <1>2 DEF RestOK, Going, Alike, Resting, RescueSteps
<1>4. SaveOK(z) /\ ClientOK(z) /\ StateOK(z)
  BY DEF SaveOK, ClientOK, StateOK, SavePhases, ClientPhases
<1>5. PlansOK(z)
  BY <1>2 DEF PlansOK, Going
<1> QED BY <1>2, <1>3, <1>4, <1>5 DEF ProcOK, PhaseOK, Going

ToRescue(r, v) == [r EXCEPT !.at = "rescue", !.w = v]
LEMMA ToRescueIs ==
    ASSUME NEW r \in ProcRecs, NEW v \in WriteRecs
    PROVE  LET z == ToRescue(r, v) IN Rescue(z, r) /\ z.w = v
<1> DEFINE z == [r EXCEPT !.at = "rescue", !.w = v]
<1>1. "rescue" \in Phases
  BY DEF Phases
<1>2. /\ z \in ProcRecs /\ z.cmd = r.cmd /\ z.run = r.run /\ z.clients = r.clients /\ z.version = r.version
      /\ z.recovery = r.recovery /\ z.plans = r.plans /\ z.result = r.result /\ z.todo = r.todo
      /\ z.slipped = r.slipped
      /\ z.at = "rescue" /\ z.applied = r.applied /\ z.w = v
      /\ z.directory = r.directory /\ z.rolledBack = r.rolledBack
  BY <1>1, ZenonT(60) DEF ProcRecs
<1> QED BY <1>2 DEF ToRescue, Rescue, Alike

LEMMA RejournalReturnsTyped ==
    ASSUME Typed, NEW p \in Procs, RejournalReturns(p)
    PROVE  LET r == proc[p]  z == proc'[p] IN
           /\ r.at = "rejournal" /\ r.w.step = "return" /\ Typed' /\ Stays(p) /\ UNCHANGED <<torn, looked>>
           /\ \/ Ended(z) /\ (z.result = "undone" => r.rolledBack)
              \/ Rescue(z, r) /\ z.applied = <<>> /\ z.w = NoWrite
<1> DEFINE r == proc[p]  y == Saver(r)  result == IF r.rolledBack THEN "undone" ELSE "failed"
           z == ToRescue(y, NoWrite)
<1>1. r.at = "rejournal" /\ r.w.step = "return" /\ ProcOK(r)
  BY DEF RejournalReturns, Continues, Typed
<1>2. /\ Alike(y, r) /\ y.applied = r.applied /\ y.directory = r.directory /\ y.rolledBack = r.rolledBack
      /\ Going(y)
  BY <1>1, SaverIs DEF SavePhases
<1>3. \/ Goes(p, Finished(result))
      \/ r.recovery # EmptyState /\ Goes(p, z)
  <2>1. y.recovery = r.recovery /\ y.rolledBack = r.rolledBack
    BY <1>2 DEF Alike
  <2>2. Goes(p, IF (y.w.ok /\ DirectoryHeld(y)) \/ y.recovery = EmptyState
                THEN Finished(IF y.rolledBack THEN "undone" ELSE "failed")
                ELSE [y EXCEPT !.at = "rescue", !.w = NoWrite])
    BY DEF RejournalReturns, Saver
  <2> QED BY <2>1, <2>2 DEF ToRescue
<1> HIDE DEF y
<1>4. CASE Goes(p, Finished(result))
  <2>1. /\ Typed' /\ Stays(p) /\ UNCHANGED <<torn, looked>> /\ Ended(proc'[p])
        /\ proc'[p].result = IF result = "undone" THEN "undone" ELSE "none"
    BY <1>4, EndsTyped
  <2> QED BY <1>1, <2>1
<1>5. CASE r.recovery # EmptyState /\ Goes(p, z)
  <2>1. Rescue(z, y) /\ z.w = NoWrite
    BY <1>2, NoWriteFacts, ToRescueIs DEF Alike
  <2> HIDE DEF z
  <2>2. r.applied = <<>>
    BY <1>1 DEF ProcOK, PhaseOK, RestOK
  <2>3. Rescue(z, r) /\ z.applied = <<>>
    BY <1>2, <2>1, <2>2 DEF Rescue, Alike
  <2>4. ProcOK(z)
    BY <1>2, <1>5, <2>1, <2>3, NoWriteFacts, RescueOK DEF Rescue, RescueSteps, Alike
  <2>5. Typed' /\ Stays(p) /\ UNCHANGED <<torn, looked>> /\ proc'[p] = z
    BY <1>5, <2>4, GoesOn
  <2> QED BY <1>1, <2>1, <2>3, <2>5
<1> QED BY <1>3, <1>4, <1>5

\* What a rescue is about to write: what the journal said.
RescueWrite(r) == [NoWrite EXCEPT !.step = "rescuing", !.parent = dir[Journal], !.new = r.recovery]
LEMMA RescueWriteIs ==
    ASSUME Typed, NEW r, ProcOK(r), r.recovery # EmptyState
    PROVE  LET v == RescueWrite(r) IN
           /\ v \in WriteRecs /\ WriteOK(v) /\ v.step = "rescuing" /\ v.target = Journal
           /\ v.parent = dir[Journal] /\ v.new = r.recovery /\ v.temp = Absent
<1> DEFINE d == dir[Journal]  x == r.recovery
           v == [NoWrite EXCEPT !.step = "rescuing", !.parent = d, !.new = x]
<1>1. /\ x \in States /\ x \in Contents \cup States \cup {Absent} /\ d \in Dirs /\ "rescuing" \in StepNames
      /\ x \in ContentsOf(Journal) /\ x # Absent
  BY TargetFacts, AbsentFacts DEF ProcOK, ProcRecs, Typed, StepNames
<1> HIDE DEF d, x
<1>2. /\ v \in WriteRecs /\ v.step = "rescuing" /\ v.target = Journal /\ v.parent = d /\ v.new = x
      /\ v.temp = Absent /\ v.expected = Absent /\ v.late = FALSE
  BY <1>1, NoWriteFacts, ZenonT(60) DEF WriteRecs
<1>3. RescueWrite(r) = v
  BY DEF RescueWrite, d, x
<1> HIDE DEF v
<1>4. WriteOK(v)
  BY <1>1, <1>2 DEF WriteOK
<1> QED BY <1>2, <1>3, <1>4 DEF d, x

WithWrite(r, v) == [r EXCEPT !.w = v]
LEMMA RescueReadsTyped ==
    ASSUME Typed, NEW p \in Procs, RescueReads(p)
    PROVE  LET r == proc[p]  z == proc'[p] IN
           /\ r.at = "rescue" /\ r.w.step = "none" /\ Typed' /\ Stays(p) /\ UNCHANGED <<torn, looked>>
           /\ \/ Ended(z) /\ z.result = "none"
              \/ Rescue(z, r) /\ z.w.step = "rescuing" /\ z.w.target = Journal /\ z.w.new = r.recovery
<1> DEFINE r == proc[p]  v == RescueWrite(r)  z == WithWrite(r, v)
<1>1. r.at = "rescue" /\ r.w.step = "none" /\ ProcOK(r)
  BY DEF RescueReads, Typed
<1>2. \/ Goes(p, Finished("failed"))
      \/ Goes(p, z)
  BY DEF RescueReads, WithWrite, RescueWrite
<1>3. CASE Goes(p, Finished("failed"))
  BY <1>1, <1>3, EndsTyped
<1>4. CASE Goes(p, z)
  <2>1. r.recovery # EmptyState /\ r.applied = <<>> /\ r \in ProcRecs
    BY <1>1 DEF ProcOK, PhaseOK, RestOK
  <2>2. /\ v \in WriteRecs /\ WriteOK(v) /\ v.step = "rescuing" /\ v.target = Journal
        /\ v.new = r.recovery
    BY <1>1, <2>1, RescueWriteIs
  <2> HIDE DEF v
  <2>3. Writing(z, r, v)
    BY <2>1, <2>2, WritingIs DEF WithWrite
  <2> HIDE DEF z
  <2>4. Rescue(z, r) /\ z.w = v
    BY <1>1, <2>3 DEF Writing, Rescue, Alike
  <2>5. Going(r)
    BY <1>1, GoingIs DEF Resting
  <2>6. ProcOK(z)
    BY <2>1, <2>2, <2>4, <2>5, RescueOK DEF Rescue, RescueSteps
  <2>7. Typed' /\ Stays(p) /\ UNCHANGED <<torn, looked>> /\ proc'[p] = z
    BY <1>4, <2>6, GoesOn
  <2> QED BY <1>1, <2>2, <2>4, <2>7
<1> QED BY <1>2, <1>3, <1>4

LEMMA RescueRenamesTyped ==
    ASSUME Typed, NEW p \in Procs, RescueRenames(p)
    PROVE  LET r == proc[p]  w == r.w  z == proc'[p] IN
           /\ r.at = "rescue" /\ w.step = "rescuing" /\ w.target = Journal /\ Typed' /\ UNCHANGED userVars
           /\ left' = left /\ \A q \in Procs : q # p => proc'[q] = proc[q]
           /\ \/ Ended(z) /\ z.result = "none" /\ UNCHANGED file
              \/ Rescue(z, r) /\ Target(w) = Absent /\ Holds(Journal, w.parent, Staged(r))
                 /\ z.w.temp = Absent /\ z.w.target = Journal
<1> DEFINE r == proc[p]  w == r.w
<1>1. r.at = "rescue" /\ w.step = "rescuing" /\ ProcOK(r) /\ UNCHANGED <<left, userVars>>
  BY DEF RescueRenames, Typed
<1>2. \/ Target(w) = Absent /\ Put(w, Staged(r)) /\ proc' = [proc EXCEPT ![p].w.step = "rescued"]
      \/ proc' = [proc EXCEPT ![p] = Finished("failed")] /\ UNCHANGED file
  BY DEF RescueRenames
<1>3. /\ r.recovery # EmptyState /\ r.applied = <<>> /\ r \in ProcRecs /\ w \in WriteRecs
      /\ w.target = Journal /\ WriteOK(w) /\ w.new # Absent /\ w.temp = Absent /\ w.parent \in Dirs
  BY <1>1 DEF ProcOK, PhaseOK, RestOK, ProcRecs, WriteOK, WriteRecs
<1>4. CASE proc' = [proc EXCEPT ![p] = Finished("failed")] /\ UNCHANGED file
  <2>1. Goes(p, Finished("failed"))
    BY <1>1, <1>4 DEF Goes
  <2>2. Typed' /\ Stays(p) /\ Ended(proc'[p]) /\ proc'[p].result = "none"
    BY <2>1, EndsTyped
  <2> QED BY <1>1, <1>3, <1>4, <2>2 DEF Stays
<1>5. CASE Target(w) = Absent /\ Put(w, Staged(r)) /\ proc' = [proc EXCEPT ![p].w.step = "rescued"]
  <2> DEFINE v == Step(w, "rescued")  z == WithWrite(r, v)
  <2>1. proc' = [proc EXCEPT ![p] = z] /\ DOMAIN proc = Procs
    BY <1>5 DEF WithWrite, Step, Typed
  <2>2. "rescued" \in StepNames
    BY DEF StepNames
  <2>3. WriteAt(v, w, "rescued", w.temp, w.ok, w.undone)
    BY <1>3, <2>2, StepIs
  <2>a. ~w.late /\ w.step # "unlink"
    BY <1>1, <1>3 DEF WriteOK
  <2>4. WriteOK(v) /\ v \in WriteRecs /\ v.target = Journal /\ v.step = "rescued" /\ v.temp = Absent
    BY <1>3, <2>3, <2>a DEF WriteAt, WriteOK
  <2> HIDE DEF v
  <2>5. Writing(z, r, v)
    BY <1>3, <2>4, WritingIs DEF WithWrite
  <2> HIDE DEF z
  <2>6. Rescue(z, r) /\ z.w = v
    BY <1>1, <2>5 DEF Writing, Rescue, Alike
  <2>7. Going(r)
    BY <1>1, GoingIs DEF Resting
  <2>8. ProcOK(z)
    BY <1>3, <2>4, <2>6, <2>7, RescueOK DEF Rescue, RescueSteps
  <2>9. proc'[p] = z /\ DOMAIN proc' = Procs /\ \A q \in Procs : q # p => proc'[q] = proc[q]
    BY <2>1
  <2>10. Staged(r) \in FilesOf(Journal) /\ Staged(r) \in AnyFile
    BY <1>3, WriteTyped
  <2>11. Holds(Journal, w.parent, Staged(r))
    BY <1>3, <1>5, <2>10, PutIs
  <2>12. \A t \in Targets, d \in Dirs : file'[t][d] \in FilesOf(t) \cup {Absent}
    <3> SUFFICES ASSUME NEW t \in Targets, NEW d \in Dirs  PROVE file'[t][d] \in FilesOf(t) \cup {Absent}
      OBVIOUS
    <3>1. file[t][d] \in FilesOf(t) \cup {Absent}
      BY FileAt
    <3>2. CASE t = Journal /\ d = w.parent
      BY <2>10, <2>11, <3>2 DEF Holds
    <3>3. CASE t # Journal \/ d # w.parent
      BY <2>11, <3>1, <3>3 DEF Holds
    <3> QED BY <3>2, <3>3
  <2>13. Typed'
    BY <1>1, <2>8, <2>9, <2>11, <2>12 DEF Typed, Holds, userVars, historyVars
  <2> QED BY <1>1, <1>3, <1>5, <2>4, <2>6, <2>9, <2>11, <2>13
<1> QED BY <1>2, <1>4, <1>5

LEMMA RescueVerifiesTyped ==
    ASSUME Typed, NEW p \in Procs, RescueVerifies(p)
    PROVE  LET r == proc[p]  z == proc'[p] IN
           /\ r.at = "rescue" /\ r.w.step = "rescued" /\ Typed' /\ Stays(p) /\ UNCHANGED <<torn, looked>>
           /\ Ended(z) /\ (z.result = "undone" => r.rolledBack)
<1> DEFINE r == proc[p]
           result == IF LockPathHeld(r) /\ r.w.parent = dir[Journal] /\ r.rolledBack THEN "undone" ELSE "failed"
<1>1. r.at = "rescue" /\ r.w.step = "rescued" /\ Goes(p, Finished(result))
  BY DEF RescueVerifies
<1>2. result = "undone" => r.rolledBack
  OBVIOUS
<1> HIDE DEF result
<1>3. /\ Typed' /\ Stays(p) /\ UNCHANGED <<torn, looked>> /\ Ended(proc'[p])
      /\ proc'[p].result = IF result = "undone" THEN "undone" ELSE "none"
  BY <1>1, EndsTyped
<1> QED BY <1>1, <1>2, <1>3

LEMMA CrashTyped ==
    ASSUME Typed, NEW p \in Procs, Crash(p)
    PROVE  /\ Typed' /\ proc[p].at # "idle" /\ Ended(proc'[p]) /\ proc'[p].result = "none"
           /\ UNCHANGED <<file, dir, lockFile, owed, chased, torn, raced, looked>>
           /\ \A q \in Procs : q # p => proc'[q] = proc[q]
           /\ left' = IF proc[p].w.temp = Absent THEN left
                      ELSE left \cup {<<proc[p].w.target, proc[p].w.temp>>}
<1> DEFINE r == proc[p]  w == r.w
<1>1. /\ r.at # "idle" /\ UNCHANGED <<file, dir, lockFile, owed, chased, torn, raced, looked, edits, runs>>
      /\ proc' = [proc EXCEPT ![p] = Idle]
      /\ left' = IF w.temp = Absent THEN left ELSE left \cup {<<w.target, w.temp>>}
  BY DEF Crash, historyVars, Leave
<1>2. DOMAIN proc' = Procs /\ proc'[p] = Idle /\ \A q \in Procs : q # p => proc'[q] = proc[q]
  BY <1>1 DEF Typed
<1>3. \A k \in left' : k[1] \in Targets /\ k[2] \in FilesOf(k[1])
  <2> TAKE k \in left'
  <2>1. CASE k \in left
    BY <2>1 DEF Typed
  <2>2. CASE k \notin left
    <3>1. w.temp # Absent /\ k = <<w.target, w.temp>>
      BY <1>1, <2>2
    <3>2. k[1] = w.target /\ k[2] = w.temp
      BY <3>1
    <3> QED BY <3>1, <3>2, WriteTyped
  <2> QED BY <2>1, <2>2
<1>4. Typed'
  BY <1>1, <1>2, <1>3, IdleFacts DEF Typed
<1> QED BY <1>1, <1>2, <1>4, IdleFacts DEF Ended

\* The user's file, after the user's step.
Edited(n, deleted) == IF deleted THEN Absent ELSE File(User(n), 0)
GivenUp(c, f) == {e \in owed : f # Absent /\ e[1] = c /\ User(e[2]) = f.content}

LEMMA EditTyped ==
    ASSUME Typed, NEW c \in Clients, NEW deleted \in BOOLEAN, Edit(c, deleted)
    PROVE  LET n == edits + 1  T == file[c][dir[c]]  N == Edited(n, deleted) IN
           /\ Typed' /\ n \in 0..MaxEdits /\ edits' = n /\ Holds(c, dir[c], N)
           /\ UNCHANGED <<proc, left, dir, torn, raced, looked>>
           /\ owed' = (owed \ GivenUp(c, T)) \cup (IF deleted THEN {} ELSE {<<c, n>>})
           /\ chased' = IF \E p \in Procs : /\ proc[p].w.step = "undo" /\ proc[p].w.target = c
                                            /\ proc[p].w.parent = dir[c]
                        THEN chased \cup {<<c, n>>} ELSE chased
           /\ N \in ClientFiles \cup {Absent}
           /\ IF deleted THEN N = Absent ELSE N # Absent /\ N.content = User(n) /\ N.run = 0
<1> DEFINE n == edits + 1  T == file[c][dir[c]]  N == Edited(n, deleted)
<1>1. /\ edits < MaxEdits /\ edits' = n /\ file' = [file EXCEPT ![c][dir[c]] = N]
      /\ UNCHANGED <<proc, left, dir, lockFile, torn, raced, looked, runs>>
      /\ owed' = (owed \ GivenUp(c, T)) \cup (IF deleted THEN {} ELSE {<<c, n>>})
      /\ chased' = IF \E p \in Procs : /\ proc[p].w.step = "undo" /\ proc[p].w.target = c
                                            /\ proc[p].w.parent = dir[c]
                        THEN chased \cup {<<c, n>>} ELSE chased
  BY DEF Edit, Edited, GivenUp, Found
<1>2. n \in 0..MaxEdits
  BY <1>1, NumberFacts DEF Typed
<1>3. c \in Targets /\ dir[c] \in Dirs /\ ContentsOf(c) = Contents /\ FilesOf(c) = ClientFiles
      /\ 0 \in 0..MaxRuns
  BY TargetFacts, NumberFacts DEF Typed
<1>4. User(n) \in Contents
  BY <1>2 DEF Contents
<1> HIDE DEF n
<1>5. /\ File(User(n), 0) \in ClientFiles /\ File(User(n), 0) # Absent
      /\ File(User(n), 0).content = User(n) /\ File(User(n), 0).run = 0
  BY <1>3, <1>4, FileMade
<1>6. IF deleted THEN N = Absent ELSE N # Absent /\ N.content = User(n) /\ N.run = 0
  BY <1>5 DEF Edited
<1>7. N \in ClientFiles \cup {Absent} /\ N \in AnyFile
  BY <1>5 DEF Edited, AnyFile
<1> HIDE DEF N
<1>8. Holds(c, dir[c], N)
  BY <1>1, <1>3, <1>7 DEF Holds, Typed
<1>9. \A t \in Targets, d \in Dirs : file'[t][d] \in FilesOf(t) \cup {Absent}
  BY <1>3, <1>7, <1>8 DEF Holds, Typed
<1>10. owed' \subseteq Clients \X (0..MaxEdits) /\ chased' \subseteq Clients \X (0..MaxEdits)
  BY <1>1, <1>2 DEF Typed, GivenUp
<1>11. Typed'
  BY <1>1, <1>2, <1>8, <1>9, <1>10 DEF Typed, Holds
<1> QED BY <1>1, <1>2, <1>6, <1>7, <1>8, <1>11 DEF n, N

LEMMA MoveTyped ==
    ASSUME Typed, NEW t \in Movable, NEW d \in Dirs, MoveDirectory(t, d)
    PROVE  Typed' /\ UNCHANGED <<file, proc, left, owed, chased, torn, raced, looked>>
<1>1. t \in Targets
  BY ClientSetupAssumption DEF Targets
<1>2. /\ UNCHANGED <<file, proc, left, lockFile, owed, chased, torn, raced, looked, runs, edits>>
      /\ dir' = [dir EXCEPT ![t] = d]
  BY DEF MoveDirectory, historyVars
<1>3. dir' \in [Targets -> Dirs]
  BY <1>1, <1>2 DEF Typed
<1> QED BY <1>2, <1>3 DEF Typed

LEMMA ReplaceTyped ==
    ASSUME Typed, ReplaceLock
    PROVE  Typed' /\ UNCHANGED <<file, proc, left, owed, chased, torn, raced, looked>>
<1>1. /\ UNCHANGED <<file, proc, left, dir, owed, chased, torn, raced, looked, runs, edits>>
      /\ lockFile' = lockFile + 1
  BY DEF ReplaceLock, historyVars
<1>2. lockFile' \in Int
  BY <1>1 DEF Typed
<1> QED BY <1>1, <1>2 DEF Typed

\* The types hold at the start ...
LEMMA InitTyped ==
    ASSUME Init
    PROVE  Typed
<1>1. PICK X \in SUBSET Clients :
           /\ file = [t \in Targets |-> [d \in Dirs |-> IF t \in X /\ d = 1 THEN File(User(0), 0) ELSE Absent]]
           /\ owed = {<<c, 0>> : c \in X}
  BY DEF Init
<1>2. 0 \in 0..MaxRuns /\ 0 \in 0..MaxEdits /\ 1 \in Dirs
  BY NumberFacts
<1>3. User(0) \in Contents
  BY <1>2 DEF Contents
<1>4. \A t \in X : t \in Targets /\ File(User(0), 0) \in FilesOf(t)
  BY <1>2, <1>3, FileMade, TargetFacts
<1>5. \A t \in Targets, d \in Dirs : file[t][d] \in FilesOf(t) \cup {Absent}
  BY <1>1, <1>4
<1>6. file \in [Targets -> [Dirs -> AnyFile]]
  <2>1. \A t \in Targets, d \in Dirs : file[t][d] \in AnyFile
    BY <1>5, TargetFacts
  <2>2. File(User(0), 0) \in AnyFile \/ X = {}
    BY <1>4, TargetFacts
  <2>3. Absent \in AnyFile
    BY DEF AnyFile
  <2> QED BY <1>1, <2>2, <2>3
<1>7. owed \subseteq Clients \X (0..MaxEdits)
  BY <1>1, <1>2
<1>8. dir \in [Targets -> Dirs] /\ looked \in [Clients -> Dirs \cup {0}] /\ lockFile \in Int
  BY <1>2 DEF Init
<1>9. DOMAIN proc = Procs /\ \A p \in Procs : ProcOK(proc[p])
  BY IdleFacts DEF Init
<1>10. runs \in 0..MaxRuns /\ edits \in 0..MaxEdits /\ left = {} /\ chased = {} /\ torn = FALSE /\ raced = FALSE
  BY <1>2 DEF Init
<1> QED BY <1>5, <1>6, <1>7, <1>8, <1>9, <1>10 DEF Typed

\* ... and after every step.
LEMMA TypedStep ==
    ASSUME Typed, [Next]_vars
    PROVE  Typed'
<1>1. ASSUME NEW p \in Procs, NEW cmd \in Commands, NEW X \in Selections, NEW v \in Versions, Start(p, cmd, X, v)
      PROVE  Typed'
  BY <1>1, StartTyped
<1>2. ASSUME NEW p \in Procs, WriteStep(p)  PROVE Typed'
  BY <1>2, WriteStepTyped
<1>3. ASSUME NEW p \in Procs, CommandStep(p)  PROVE Typed'
  BY <1>3, LockTyped, PlanTyped, JournalReturnsTyped, CommitReturnsTyped, FinalReturnsTyped, RollbackReturnsTyped,
     RejournalReturnsTyped, RescueReadsTyped, RescueRenamesTyped, RescueVerifiesTyped DEF CommandStep
<1>4. ASSUME NEW p \in Procs, Crash(p)  PROVE Typed'
  BY <1>4, CrashTyped
<1>5. ASSUME NEW c \in Clients, NEW deleted \in BOOLEAN, Edit(c, deleted)  PROVE Typed'
  BY <1>5, EditTyped
<1>6. ASSUME NEW t \in Movable, NEW d \in Dirs, MoveDirectory(t, d)  PROVE Typed'
  BY <1>6, MoveTyped
<1>7. CASE ReplaceLock
  BY <1>7, ReplaceTyped
<1>8. CASE UNCHANGED vars
  BY <1>8 DEF Typed, vars
<1> QED BY <1>1, <1>2, <1>3, <1>4, <1>5, <1>6, <1>7, <1>8 DEF Next

----------------------------------------------------------------------------
(* The steps of a write, said of the file T at its target: the next step,  *)
(* what it holds and is to return, the file f that is there then, and what *)
(* stays behind.                                                           *)

CheckMove(r, T, step, temp, ok, undone, f, l) ==
    /\ r.w.step = "check" /\ f = T /\ l = Absent /\ undone = r.w.undone
    /\ \/ T = r.w.expected /\ step = "swap" /\ temp = NewFile(r) /\ ok = r.w.ok
       \/ step = "return" /\ temp = Absent /\ ok = FALSE
SwapMove(r, T, step, temp, ok, undone, f, l) ==
    /\ r.w.step = "swap" /\ l = Absent /\ undone = r.w.undone
    /\ \/ /\ r.w.new # Absent /\ r.w.expected = Absent /\ T = Absent
          /\ step = "parent" /\ temp = Absent /\ ok = r.w.ok /\ f = r.w.temp
       \/ /\ r.w.new # Absent /\ r.w.expected # Absent /\ T # Absent
          /\ step = "compare" /\ temp = T /\ ok = r.w.ok /\ f = r.w.temp
       \/ /\ r.w.new = Absent /\ T # Absent
          /\ step = "compare" /\ temp = T /\ ok = r.w.ok /\ f = Absent
       \/ step = "return" /\ temp = Absent /\ ok = FALSE /\ f = T
CompareMove(r, T, step, temp, ok, undone, f, l) ==
    /\ r.w.step = "compare" /\ undone = r.w.undone /\ f = T
    /\ \/ /\ r.w.temp = r.w.expected
          /\ step = "parent" /\ temp = r.w.temp /\ ok = r.w.ok /\ l = Absent
       \/ /\ r.w.temp # r.w.expected /\ (r.w.new = Absent \/ T = Staged(r))
          /\ step = "undo" /\ temp = r.w.temp /\ ok = r.w.ok /\ l = Absent
       \/ /\ r.w.temp # r.w.expected /\ r.w.new # Absent /\ T # Staged(r)
          /\ step = "return" /\ temp = Absent /\ ok = FALSE /\ l = r.w.temp
UndoMove(r, T, step, temp, ok, undone, f, l) ==
    /\ r.w.step = "undo" /\ ok = FALSE
    /\ \/ /\ r.w.new # Absent /\ T # Absent
          /\ step = "unlink" /\ temp = T /\ undone = r.w.undone /\ f = r.w.temp /\ l = Absent
       \/ /\ r.w.new = Absent /\ T = Absent
          /\ step = "return" /\ temp = Absent /\ undone = r.w.undone /\ f = r.w.temp /\ l = Absent
       \/ /\ r.w.new = Absent /\ T # Absent
          /\ step = "return" /\ temp = Absent /\ undone = r.w.undone /\ f = T /\ l = r.w.temp
       \/ /\ r.w.new # Absent /\ T = Absent
          /\ step = "return" /\ temp = Absent /\ undone = FALSE /\ f = T /\ l = r.w.temp
VerifyMove(r, T, step, temp, ok, undone, f, l) ==
    /\ r.w.step = "parent" /\ undone = r.w.undone /\ temp = r.w.temp /\ f = T /\ l = Absent
    /\ \/ step = "unlink" /\ ok = TRUE
       \/ step = "back" /\ ok = r.w.ok
BackMove(r, T, step, temp, ok, undone, f, l) ==
    /\ r.w.step = "back"
    /\ \/ /\ r.w.new # Absent /\ T # Absent /\ step = "recheck" /\ temp = T /\ ok = r.w.ok
          /\ undone = r.w.undone /\ f = r.w.temp /\ l = Absent
       \/ /\ r.w.new = Absent /\ T = Absent /\ step = "return" /\ temp = Absent /\ ok = FALSE
          /\ undone = r.w.undone /\ f = r.w.temp /\ l = Absent
       \/ /\ (r.w.new = Absent) <=> T # Absent
          /\ step = "return" /\ temp = Absent /\ ok = FALSE /\ undone = FALSE /\ f = T /\ l = r.w.temp
RecheckMove(r, T, step, temp, ok, undone, f, l) ==
    /\ r.w.step = "recheck" /\ temp = r.w.temp /\ undone = r.w.undone /\ f = T /\ l = Absent
    /\ \/ /\ r.w.temp = Staged(r) /\ (r.w.expected # Absent => T = r.w.expected)
          /\ step = "unlink" /\ ok = FALSE
       \/ /\ ~(r.w.temp = Staged(r) /\ (r.w.expected # Absent => T = r.w.expected))
          /\ step = "forward" /\ ok = r.w.ok
ForwardMove(r, T, step, temp, ok, undone, f, l) ==
    /\ r.w.step = "forward" /\ step = "return" /\ temp = Absent /\ ok = FALSE /\ undone = FALSE
    /\ \/ r.w.expected # Absent /\ T # Absent /\ f = r.w.temp /\ l = T
       \/ r.w.expected = Absent /\ T = Absent /\ f = r.w.temp /\ l = Absent
       \/ f = T /\ l = r.w.temp
UnlinkMove(r, T, step, temp, ok, undone, f, l) ==
    /\ r.w.step = "unlink" /\ step = "return" /\ temp = Absent /\ undone = r.w.undone /\ f = T
    /\ \/ ok = r.w.ok /\ l = Absent
       \/ ok = FALSE /\ l \in {Absent, r.w.temp}
Moves(r, T, step, temp, ok, undone, f, l) ==
    \/ CheckMove(r, T, step, temp, ok, undone, f, l)
    \/ SwapMove(r, T, step, temp, ok, undone, f, l)
    \/ CompareMove(r, T, step, temp, ok, undone, f, l)
    \/ UndoMove(r, T, step, temp, ok, undone, f, l)
    \/ VerifyMove(r, T, step, temp, ok, undone, f, l)
    \/ BackMove(r, T, step, temp, ok, undone, f, l)
    \/ RecheckMove(r, T, step, temp, ok, undone, f, l)
    \/ ForwardMove(r, T, step, temp, ok, undone, f, l)
    \/ UnlinkMove(r, T, step, temp, ok, undone, f, l)
Wrote(p) ==
    \E step, temp, ok, undone, f, l :
        /\ Moves(proc[p], Target(proc[p].w), step, temp, ok, undone, f, l)
        /\ Turn(p, step, temp, ok, undone, f, l)

\* A step of a write is one of those moves.
LEMMA WroteIs ==
    ASSUME Typed, NEW p \in Procs, WriteStep(p)
    PROVE  Wrote(p)
<1> DEFINE r == proc[p]  w == r.w  T == Target(w)
           M(step, temp, ok, undone, f, l) == Moves(r, T, step, temp, ok, undone, f, l)
<1>1. \A step, temp, ok, undone, f, l :
        Moves(r, T, step, temp, ok, undone, f, l) /\ Turn(p, step, temp, ok, undone, f, l) => Wrote(p)
  BY DEF Wrote
<1>a. CASE Check(p)
  <2>1. w.step = "check"
    BY <1>a, CheckTurn
  <2>2. T = w.expected => Moves(r, T, "swap", NewFile(r), w.ok, w.undone, T, Absent)
    BY <2>1 DEF Moves, CheckMove
  <2>3. Moves(r, T, "return", Absent, FALSE, w.undone, T, Absent)
    BY <2>1 DEF Moves, CheckMove
  <2> QED BY <1>1, <1>a, <2>2, <2>3, CheckTurn
<1>b. CASE Swap(p)
  <2>1. w.step = "swap"
    BY <1>b, SwapTurn
  <2>2. w.new # Absent /\ w.expected = Absent /\ T = Absent =>
          Moves(r, T, "parent", Absent, w.ok, w.undone, w.temp, Absent)
    BY <2>1 DEF Moves, SwapMove
  <2>3. w.new # Absent /\ w.expected # Absent /\ T # Absent =>
          Moves(r, T, "compare", T, w.ok, w.undone, w.temp, Absent)
    BY <2>1 DEF Moves, SwapMove
  <2>4. w.new = Absent /\ T # Absent => Moves(r, T, "compare", T, w.ok, w.undone, Absent, Absent)
    BY <2>1 DEF Moves, SwapMove
  <2>5. Moves(r, T, "return", Absent, FALSE, w.undone, T, Absent)
    BY <2>1 DEF Moves, SwapMove
  <2> QED BY <1>1, <1>b, <2>2, <2>3, <2>4, <2>5, SwapTurn
<1>c. CASE Compare(p)
  <2>1. w.step = "compare"
    BY <1>c, CompareTurn
  <2>2. w.temp = w.expected => Moves(r, T, "parent", w.temp, w.ok, w.undone, T, Absent)
    BY <2>1 DEF Moves, CompareMove
  <2>3. w.temp # w.expected /\ (w.new = Absent \/ T = Staged(r)) =>
          Moves(r, T, "undo", w.temp, w.ok, w.undone, T, Absent)
    BY <2>1 DEF Moves, CompareMove
  <2>4. w.temp # w.expected /\ w.new # Absent /\ T # Staged(r) =>
          Moves(r, T, "return", Absent, FALSE, w.undone, T, w.temp)
    BY <2>1 DEF Moves, CompareMove
  <2> QED BY <1>1, <1>c, <2>2, <2>3, <2>4, CompareTurn
<1>d. CASE Undo(p)
  <2>1. w.step = "undo"
    BY <1>d, UndoTurn
  <2>2. w.new # Absent /\ T # Absent => Moves(r, T, "unlink", T, FALSE, w.undone, w.temp, Absent)
    BY <2>1 DEF Moves, UndoMove
  <2>3. w.new = Absent /\ T = Absent => Moves(r, T, "return", Absent, FALSE, w.undone, w.temp, Absent)
    BY <2>1 DEF Moves, UndoMove
  <2>4. w.new = Absent /\ T # Absent => Moves(r, T, "return", Absent, FALSE, w.undone, T, w.temp)
    BY <2>1 DEF Moves, UndoMove
  <2>5. w.new # Absent /\ T = Absent => Moves(r, T, "return", Absent, FALSE, FALSE, T, w.temp)
    BY <2>1 DEF Moves, UndoMove
  <2> QED BY <1>1, <1>d, <2>2, <2>3, <2>4, <2>5, UndoTurn
<1>e. CASE VerifyParent(p)
  <2>1. w.step = "parent"
    BY <1>e, VerifyParentTurn
  <2>2. Moves(r, T, "unlink", w.temp, TRUE, w.undone, T, Absent)
    BY <2>1 DEF Moves, VerifyMove
  <2>3. Moves(r, T, "back", w.temp, w.ok, w.undone, T, Absent)
    BY <2>1 DEF Moves, VerifyMove
  <2> QED BY <1>1, <1>e, <2>2, <2>3, VerifyParentTurn
<1>f. CASE Back(p)
  <2>1. w.step = "back"
    BY <1>f, BackTurn
  <2>2. w.new # Absent /\ T # Absent => Moves(r, T, "recheck", T, w.ok, w.undone, w.temp, Absent)
    BY <2>1 DEF Moves, BackMove
  <2>3. w.new = Absent /\ T = Absent => Moves(r, T, "return", Absent, FALSE, w.undone, w.temp, Absent)
    BY <2>1 DEF Moves, BackMove
  <2>4. ((w.new = Absent) <=> T # Absent) => Moves(r, T, "return", Absent, FALSE, FALSE, T, w.temp)
    BY <2>1 DEF Moves, BackMove
  <2> QED BY <1>1, <1>f, <2>2, <2>3, <2>4, BackTurn
<1>g. CASE Recheck(p)
  <2>1. w.step = "recheck"
    BY <1>g, RecheckTurn
  <2>2. w.temp = Staged(r) /\ (w.expected # Absent => T = w.expected) =>
          Moves(r, T, "unlink", w.temp, FALSE, w.undone, T, Absent)
    BY <2>1 DEF Moves, RecheckMove
  <2>3. ~(w.temp = Staged(r) /\ (w.expected # Absent => T = w.expected)) =>
          Moves(r, T, "forward", w.temp, w.ok, w.undone, T, Absent)
    BY <2>1 DEF Moves, RecheckMove
  <2> QED BY <1>1, <1>g, <2>2, <2>3, RecheckTurn
<1>h. CASE Forward(p)
  <2>1. w.step = "forward"
    BY <1>h, ForwardTurn
  <2>2. w.expected # Absent /\ T # Absent => Moves(r, T, "return", Absent, FALSE, FALSE, w.temp, T)
    BY <2>1 DEF Moves, ForwardMove
  <2>3. w.expected = Absent /\ T = Absent => Moves(r, T, "return", Absent, FALSE, FALSE, w.temp, Absent)
    BY <2>1 DEF Moves, ForwardMove
  <2>4. Moves(r, T, "return", Absent, FALSE, FALSE, T, w.temp)
    BY <2>1 DEF Moves, ForwardMove
  <2> QED BY <1>1, <1>h, <2>2, <2>3, <2>4, ForwardTurn
<1>i. CASE Unlink(p)
  <2>1. w.step = "unlink"
    BY <1>i, UnlinkTurn
  <2>2. Moves(r, T, "return", Absent, w.ok, w.undone, T, Absent)
    BY <2>1 DEF Moves, UnlinkMove
  <2> QED BY <1>1, <1>i, <2>2, UnlinkTurn
<1>j. CASE UnlinkFails(p)
  <2>1. w.step = "unlink"
    BY <1>j, UnlinkFailsTurn
  <2>2. Moves(r, T, "return", Absent, FALSE, w.undone, T, Absent)
    BY <2>1 DEF Moves, UnlinkMove
  <2>3. Moves(r, T, "return", Absent, FALSE, w.undone, T, w.temp)
    BY <2>1 DEF Moves, UnlinkMove
  <2> QED BY <1>1, <1>j, <2>2, <2>3, UnlinkFailsTurn
<1> QED BY <1>a, <1>b, <1>c, <1>d, <1>e, <1>f, <1>g, <1>h, <1>i, <1>j DEF WriteStep

----------------------------------------------------------------------------
(* One command at a time.                                                  *)

Solo == raced \/ \A p, q \in Procs : Working(p) /\ Working(q) => p = q

\* A second command works only when it has a lock file of its own, which raced records.
LEMMA SoloStep ==
    ASSUME Typed, Solo, [Next]_vars
    PROVE  Solo' /\ (raced => raced') /\ (torn => torn')
<1>1. ASSUME NEW p \in Procs, UNCHANGED raced, proc[p].at \notin {"idle", "locking"} \/ proc'[p].at \in {"idle", "locking"},
             \A q \in Procs : q # p => proc'[q] = proc[q]
      PROVE  Solo' /\ (raced => raced')
  BY <1>1 DEF Solo, Working
<1>2. ASSUME NEW p \in Procs, NEW cmd \in Commands, NEW X \in Selections, NEW v \in Versions, Start(p, cmd, X, v)
      PROVE  Solo' /\ (raced => raced') /\ (torn => torn')
  <2>1. proc'[p].at = "locking" /\ \A q \in Procs : q # p => proc'[q] = proc[q]
    BY <1>2, StartTyped
  <2>2. UNCHANGED <<raced, torn>>
    BY <1>2 DEF Start, historyVars
  <2> QED BY <1>1, <2>1, <2>2
<1>3. ASSUME NEW p \in Procs, WriteStep(p)  PROVE Solo' /\ (raced => raced') /\ (torn => torn')
  <2>1. PICK step, temp, ok, undone, f, l : Turn(p, step, temp, ok, undone, f, l)
    BY <1>3, WroteIs DEF Wrote
  <2>2. proc'[p].at = proc[p].at /\ (\A q \in Procs : q # p => proc'[q] = proc[q]) /\ UNCHANGED <<raced, torn>>
    BY <2>1 DEF Turn, Turned, Writing, userVars, historyVars
  <2> QED BY <1>1, <2>2
<1>4. ASSUME NEW p \in Procs, Lock(p)  PROVE Solo' /\ (raced => raced') /\ (torn => torn')
  <2>1. /\ UNCHANGED torn /\ raced' = (raced \/ \E q \in Procs : Working(q))
        /\ \A q \in Procs : q # p => proc'[q] = proc[q]
    BY <1>4, LockTyped
  <2> QED BY <2>1 DEF Solo, Working
<1>5. ASSUME NEW p \in Procs, CommandStep(p), ~Lock(p)  PROVE Solo' /\ (raced => raced') /\ (torn => torn')
  <2>1. /\ proc[p].at \notin {"idle", "locking"} /\ UNCHANGED raced /\ (torn => torn')
        /\ \A q \in Procs : q # p => proc'[q] = proc[q]
    <3>1. CASE Plan(p)
      BY <3>1, PlanTyped DEF Stays
    <3>2. CASE JournalReturns(p)
      BY <3>2, JournalReturnsTyped DEF Stays
    <3>3. CASE CommitReturns(p)
      BY <3>3, CommitReturnsTyped DEF Stays
    <3>4. CASE FinalReturns(p)
      BY <3>4, FinalReturnsTyped DEF Stays
    <3>5. CASE RollbackReturns(p)
      BY <3>5, RollbackReturnsTyped DEF Stays
    <3>6. CASE RejournalReturns(p)
      BY <3>6, RejournalReturnsTyped DEF Stays
    <3>7. CASE RescueReads(p)
      BY <3>7, RescueReadsTyped DEF Stays
    <3>8. CASE RescueRenames(p)
      BY <3>8, RescueRenamesTyped DEF userVars, historyVars
    <3>9. CASE RescueVerifies(p)
      BY <3>9, RescueVerifiesTyped DEF Stays
    <3> QED BY <1>5, <3>1, <3>2, <3>3, <3>4, <3>5, <3>6, <3>7, <3>8, <3>9 DEF CommandStep
  <2> QED BY <1>1, <2>1
<1>6. ASSUME NEW p \in Procs, Crash(p)  PROVE Solo' /\ (raced => raced') /\ (torn => torn')
  <2>1. Ended(proc'[p]) /\ UNCHANGED <<raced, torn>> /\ \A q \in Procs : q # p => proc'[q] = proc[q]
    BY <1>6, CrashTyped
  <2> QED BY <1>1, <2>1 DEF Ended
<1>7. ASSUME UNCHANGED <<proc, raced, torn>>  PROVE Solo' /\ (raced => raced') /\ (torn => torn')
  BY <1>7 DEF Solo, Working
<1>8. ASSUME NEW c \in Clients, NEW deleted \in BOOLEAN, Edit(c, deleted)
      PROVE  Solo' /\ (raced => raced') /\ (torn => torn')
  BY <1>7, <1>8 DEF Edit
<1>9. ASSUME NEW t \in Movable, NEW d \in Dirs, MoveDirectory(t, d)  PROVE Solo' /\ (raced => raced') /\ (torn => torn')
  BY <1>7, <1>9, MoveTyped
<1>10. CASE ReplaceLock
  BY <1>7, <1>10, ReplaceTyped
<1>11. CASE UNCHANGED vars
  BY <1>7, <1>11 DEF vars
<1> QED BY <1>2, <1>3, <1>4, <1>5, <1>6, <1>8, <1>9, <1>10, <1>11 DEF Next

----------------------------------------------------------------------------
(* All or nothing: what a command has changed is in the list of changes,   *)
(* or is being written, or has been taken back.                            *)

CleanFile(r, c, f) ==
    f # Absent /\ f.run = r.run =>
        r.plans[c].expected # Absent /\ f.content = r.plans[c].expected.content
InApplied(r, c) == \E i \in 1..Len(r.applied) : r.applied[i].target = c
PendingAt(r, step, ok, undone) ==
    \/ /\ r.at = "commit"
       /\ \/ step \in {"compare", "undo", "parent", "back", "recheck", "forward"}
          \/ step \in {"unlink", "return"} /\ ok /\ Moved(r)
          \/ step = "return" /\ ~undone
    \/ /\ r.at = "rollback"
       /\ \/ step \in {"check", "swap", "undo", "back", "recheck", "forward"}
          \/ step \in {"unlink", "return"} /\ ~ok
InSight(r, c, f) == InApplied(r, c) \/ c \in r.slipped \/ CleanFile(r, c, f)
UndoableAt(r, c, step, ok, undone, f) ==
    \/ ~r.rolledBack \/ InSight(r, c, f)
    \/ r.w.target = c /\ PendingAt(r, step, ok, undone)
Slips(r) == r.at = "commit" /\ r.w.step = "return" /\ r.w.late
Undoable(r, c, f) == UndoableAt(r, c, r.w.step, r.w.ok, r.w.undone, f) \/ (r.w.target = c /\ Slips(r))
HalfwayAt(r, step, temp, ok, undone, f) ==
    LET c == r.w.target IN
    /\ step = "swap" => temp = NewFile(r)
    /\ step \in {"parent", "back"} => temp = r.w.expected
    /\ step # "return" \/ ok => undone
    /\ r.at = "commit" =>
          /\ step \in {"check", "swap", "recheck"} => CleanFile(r, c, f)
          /\ step \in {"compare", "undo"} => CleanFile(r, c, temp)
          /\ step \in {"compare", "undo", "parent", "back"} => f = NewFile(r) \/ CleanFile(r, c, f)
Halfway(r, f) == HalfwayAt(r, r.w.step, r.w.temp, r.w.ok, r.w.undone, f)
Onward(r) ==
    r.at \in {"journal", "commit", "final"} =>
        /\ r.rolledBack /\ r.slipped = {}
        /\ \A c \in r.todo : ~InApplied(r, c)
        /\ r.at = "commit" => r.w.target \notin r.todo /\ ~InApplied(r, r.w.target)
ClientFile(fs, r, c) == fs[c][r.plans[c].parent]
Reverting(fs, r) ==
    /\ \A c \in DOMAIN r.plans : Undoable(r, c, ClientFile(fs, r, c))
    /\ Onward(r)
    /\ r.at \in ClientPhases => Halfway(r, ClientFile(fs, r, r.w.target))
Reverts == raced \/ \A p \in Procs : proc[p].at \notin Resting => Reverting(file, proc[p])

\* A move of a write keeps the change it makes in sight.
LEMMA RevMove ==
    ASSUME NEW r, ProcOK(r), r.at \in ClientPhases, r.w.step # "return", Onward(r),
           NEW T, Undoable(r, r.w.target, T), Halfway(r, T),
           NEW step, NEW temp, NEW ok, NEW undone, NEW f, NEW l,
           Moves(r, T, step, temp, ok, undone, f, l)
    PROVE  /\ \/ UndoableAt(r, r.w.target, step, ok, undone, f)
              \/ r.at = "commit" /\ r.w.step = "unlink" /\ step = "return" /\ r.w.ok /\ ~ok
           /\ HalfwayAt(r, step, temp, ok, undone, f)
<1> DEFINE c == r.w.target  plan == r.plans[c]
<1>1. r.at = "commit" \/ r.at = "rollback"
  BY DEF ClientPhases
<1>2. /\ r.at = "commit" => r.w.expected = plan.expected
      /\ r.at = "rollback" => r.w.new = ContentOf(plan.expected)
      /\ Moved(r)
  BY DEF ProcOK, PhaseOK, ClientOK, Moved
<1>3. r.w.new = Absent => NewFile(r) = Absent
  BY NewFileOK
<1>4. r.w.new # Absent => NewFile(r) # Absent /\ NewFile(r).content = r.w.new /\ NewFile(r) = Staged(r)
  BY NewFileOK
<1>5. r.at = "rollback" => CleanFile(r, c, NewFile(r))
  BY <1>2, <1>3, <1>4 DEF CleanFile, ContentOf
<1>6. CleanFile(r, c, Absent) /\ CleanFile(r, c, plan.expected)
  BY DEF CleanFile
<1>7. r.at = "commit" => r.rolledBack /\ ~InApplied(r, c)
  BY DEF Onward
<1>8. r.w.undone
  BY DEF Halfway, HalfwayAt
<1>9. /\ r.w.step = "swap" => r.w.temp = NewFile(r)
      /\ r.w.step \in {"parent", "back"} => r.w.temp = r.w.expected
      /\ r.at = "commit" =>
            /\ r.w.step \in {"check", "swap", "recheck"} => CleanFile(r, c, T)
            /\ r.w.step \in {"compare", "undo"} => CleanFile(r, c, r.w.temp)
            /\ r.w.step \in {"compare", "undo", "parent", "back"} => T = NewFile(r) \/ CleanFile(r, c, T)
  BY DEF Halfway, HalfwayAt
<1>10. \/ ~r.rolledBack \/ InApplied(r, c) \/ c \in r.slipped \/ CleanFile(r, c, T)
       \/ PendingAt(r, r.w.step, r.w.ok, r.w.undone)
  BY DEF Undoable, UndoableAt, InSight, Slips
<1>a. CASE CheckMove(r, T, step, temp, ok, undone, f, l)
  BY <1>1, <1>7, <1>8, <1>9, <1>10, <1>a DEF CheckMove, UndoableAt, InSight, HalfwayAt, PendingAt
<1>b. CASE SwapMove(r, T, step, temp, ok, undone, f, l)
  BY <1>1, <1>3, <1>4, <1>5, <1>6, <1>7, <1>8, <1>9, <1>10, <1>b DEF SwapMove, UndoableAt, InSight, HalfwayAt, PendingAt
<1>c. CASE CompareMove(r, T, step, temp, ok, undone, f, l)
  BY <1>1, <1>4, <1>7, <1>8, <1>9, <1>10, <1>c DEF CompareMove, UndoableAt, InSight, HalfwayAt, PendingAt
<1>d. CASE UndoMove(r, T, step, temp, ok, undone, f, l)
  BY <1>1, <1>3, <1>7, <1>8, <1>9, <1>10, <1>d DEF UndoMove, UndoableAt, InSight, HalfwayAt, PendingAt
<1>e. CASE VerifyMove(r, T, step, temp, ok, undone, f, l)
  BY <1>1, <1>2, <1>7, <1>8, <1>9, <1>10, <1>e DEF VerifyMove, UndoableAt, InSight, HalfwayAt, PendingAt
<1>f. CASE BackMove(r, T, step, temp, ok, undone, f, l)
  BY <1>1, <1>2, <1>6, <1>7, <1>8, <1>9, <1>10, <1>f DEF BackMove, UndoableAt, InSight, HalfwayAt, PendingAt
<1>g. CASE RecheckMove(r, T, step, temp, ok, undone, f, l)
  BY <1>1, <1>7, <1>8, <1>9, <1>10, <1>g DEF RecheckMove, UndoableAt, InSight, HalfwayAt, PendingAt
<1>h. CASE ForwardMove(r, T, step, temp, ok, undone, f, l)
  BY <1>1, <1>7, <1>8, <1>9, <1>10, <1>h DEF ForwardMove, UndoableAt, InSight, HalfwayAt, PendingAt
<1>i. CASE UnlinkMove(r, T, step, temp, ok, undone, f, l)
  BY <1>1, <1>7, <1>8, <1>9, <1>10, <1>i DEF UnlinkMove, UndoableAt, InSight, HalfwayAt, PendingAt
<1> QED BY <1>a, <1>b, <1>c, <1>d, <1>e, <1>f, <1>g, <1>h, <1>i DEF Moves

\* The command z is r with another write.
LEMMA WritingKeeps ==
    ASSUME NEW r, NEW z, Writing(z, r, z.w), z.w.new = r.w.new, z.w.expected = r.w.expected, z.w.target = r.w.target
    PROVE  /\ NewFile(z) = NewFile(r) /\ Staged(z) = Staged(r) /\ (Moved(z) <=> Moved(r))
           /\ \A c, f : CleanFile(z, c, f) <=> CleanFile(r, c, f)
           /\ \A c : InApplied(z, c) <=> InApplied(r, c)
           /\ \A fs, c : ClientFile(fs, z, c) = ClientFile(fs, r, c)
           /\ \A step, ok, undone : PendingAt(z, step, ok, undone) <=> PendingAt(r, step, ok, undone)
           /\ \A c, step, ok, undone, f : UndoableAt(z, c, step, ok, undone, f) <=> UndoableAt(r, c, step, ok, undone, f)
           /\ \A step, temp, ok, undone, f : HalfwayAt(z, step, temp, ok, undone, f) <=> HalfwayAt(r, step, temp, ok, undone, f)
           /\ Onward(r) => Onward(z)
<1>1. NewFile(z) = NewFile(r) /\ Staged(z) = Staged(r) /\ (Moved(z) <=> Moved(r))
  BY DEF Writing, NewFile, Staged, Moved
<1>2. \A c, f : CleanFile(z, c, f) <=> CleanFile(r, c, f)
  BY DEF Writing, CleanFile
<1>3. \A c : InApplied(z, c) <=> InApplied(r, c)
  BY DEF Writing, InApplied
<1>4. \A fs, c : ClientFile(fs, z, c) = ClientFile(fs, r, c)
  BY DEF Writing, ClientFile
<1>5. \A step, ok, undone : PendingAt(z, step, ok, undone) <=> PendingAt(r, step, ok, undone)
  BY <1>1 DEF Writing, PendingAt
<1>6. \A c, step, ok, undone, f : UndoableAt(z, c, step, ok, undone, f) <=> UndoableAt(r, c, step, ok, undone, f)
  BY <1>2, <1>3, <1>5 DEF Writing, UndoableAt, InSight
<1>7. \A step, temp, ok, undone, f : HalfwayAt(z, step, temp, ok, undone, f) <=> HalfwayAt(r, step, temp, ok, undone, f)
  BY <1>1, <1>2 DEF Writing, HalfwayAt
<1>8. Onward(r) => Onward(z)
  BY <1>3 DEF Writing, Onward
<1> QED BY <1>1, <1>2, <1>3, <1>4, <1>5, <1>6, <1>7, <1>8

\* So does a step of a write, for every client of the command.
LEMMA RevWrite ==
    ASSUME Typed, NEW p \in Procs, WriteStep(p), Reverting(file, proc[p])
    PROVE  Reverting(file', proc'[p])
<1> DEFINE r == proc[p]  w == r.w  T == Target(w)  z == proc'[p]
<1>1. PICK step, temp, ok, undone, f, l :
        Moves(r, T, step, temp, ok, undone, f, l) /\ Turn(p, step, temp, ok, undone, f, l)
  BY WroteIs DEF Wrote
<1>2. w.step \in WriteSteps \ {"return"} /\ ProcOK(r)
  BY WriteStepTyped DEF Typed
<1>3. /\ Writing(z, r, z.w) /\ z.w.new = w.new /\ z.w.expected = w.expected /\ z.w.target = w.target
      /\ z.w.step = step /\ z.w.temp = temp /\ z.w.ok = ok /\ z.w.undone = undone /\ z.w.parent = w.parent
      /\ z.at = r.at /\ z.plans = r.plans /\ (w.step = "unlink" /\ w.ok /\ ~ok => z.w.late)
      /\ Holds(w.target, w.parent, f)
  BY <1>1 DEF Turn, Turned, WriteAt, Writing
<1>4. r.at \in SavePhases \cup ClientPhases
  BY <1>2, PhaseOfWrite
<1>5. /\ w.target \in Targets /\ w.parent \in Dirs /\ r.plans \in PlanMaps
  BY <1>2 DEF ProcOK, ProcRecs, WriteRecs
<1>6. \A c \in DOMAIN r.plans : c \in Clients /\ c \in Targets /\ r.plans[c].parent \in Dirs
  BY <1>5, PlanFacts, TargetFacts DEF Plans
<1>7. ASSUME NEW c \in DOMAIN r.plans, c # w.target
      PROVE  Undoable(z, c, ClientFile(file', z, c))
  <2>1. ClientFile(file', r, c) = ClientFile(file, r, c)
    BY <1>3, <1>5, <1>6, <1>7 DEF Holds, ClientFile
  <2>2. UndoableAt(r, c, w.step, w.ok, w.undone, ClientFile(file, r, c))
    BY <1>7 DEF Reverting, Undoable
  <2>3. UndoableAt(r, c, step, ok, undone, ClientFile(file', r, c))
    BY <1>7, <2>1, <2>2 DEF UndoableAt
  <2> QED BY <1>3, <2>3, WritingKeeps DEF Undoable
<1>8. Onward(z)
  BY <1>3, WritingKeeps DEF Reverting
<1>9. CASE r.at \in SavePhases
  <2>1. w.target = Journal /\ Journal \notin DOMAIN r.plans /\ z.at \notin ClientPhases
    BY <1>2, <1>3, <1>6, <1>9, TargetFacts DEF ProcOK, PhaseOK, SaveOK, SavePhases, ClientPhases
  <2> QED BY <1>3, <1>7, <1>8, <2>1 DEF Reverting
<1>10. CASE r.at \in ClientPhases
  <2>1. w.target \in DOMAIN r.plans /\ w.parent = r.plans[w.target].parent
    BY <1>2, <1>10 DEF ProcOK, PhaseOK, ClientOK
  <2>2. ClientFile(file, r, w.target) = T /\ ClientFile(file', r, w.target) = f
    BY <1>3, <2>1 DEF ClientFile, Target, Holds
  <2>3. Undoable(r, w.target, T) /\ Halfway(r, T) /\ Onward(r)
    BY <1>10, <2>1, <2>2 DEF Reverting
  <2>4. /\ \/ UndoableAt(r, w.target, step, ok, undone, f)
           \/ r.at = "commit" /\ w.step = "unlink" /\ step = "return" /\ w.ok /\ ~ok
        /\ HalfwayAt(r, step, temp, ok, undone, f)
    BY <1>1, <1>2, <1>10, <2>3, RevMove
  <2>5. Undoable(z, w.target, ClientFile(file', z, w.target)) /\ Halfway(z, ClientFile(file', z, w.target))
    BY <1>3, <2>2, <2>4, WritingKeeps DEF Undoable, Halfway, Slips
  <2> QED BY <1>3, <1>7, <1>8, <2>5 DEF Reverting
<1> QED BY <1>4, <1>9, <1>10

\* The command z goes on with the plans and changes of y.
LEMMA CarriedReverts ==
    ASSUME NEW y, NEW z, Carries(z, y)
    PROVE  /\ \A c, f : CleanFile(z, c, f) <=> CleanFile(y, c, f)
           /\ \A fs, c : ClientFile(fs, z, c) = ClientFile(fs, y, c)
           /\ z.applied = y.applied => \A c : InApplied(z, c) <=> InApplied(y, c)
           /\ z.applied = y.applied => \A c, f : InSight(z, c, f) <=> InSight(y, c, f)
<1>1. \A c, f : CleanFile(z, c, f) <=> CleanFile(y, c, f)
  BY DEF Carries, CleanFile
<1>2. \A fs, c : ClientFile(fs, z, c) = ClientFile(fs, y, c)
  BY DEF Carries, ClientFile
<1>3. z.applied = y.applied => \A c : InApplied(z, c) <=> InApplied(y, c)
  BY DEF InApplied
<1>4. z.applied = y.applied => \A c, f : InSight(z, c, f) <=> InSight(y, c, f)
  BY <1>1, <1>3 DEF InSight, Carries
<1> QED BY <1>1, <1>2, <1>3, <1>4

LEMMA CommittingReverts ==
    ASSUME NEW fs, NEW y, Going(y), y.rolledBack, y.slipped = {}, \A c \in y.todo : ~InApplied(y, c),
           \A c \in DOMAIN y.plans : InSight(y, c, ClientFile(fs, y, c))
    PROVE  Reverting(fs, Committing(y))
<1> DEFINE z == Committing(y)
<1>1. /\ Carries(z, y) /\ z.applied = y.applied
      /\ \/ z.at = "final" /\ z.todo = {}
         \/ \E c \in y.todo : /\ z.at = "commit" /\ z.todo = y.todo \ {c}
                              /\ NewWrite(z.w, c, Goal(y, c), y.plans[c].expected, y.plans[c].parent)
  BY CommittingIs DEF Going
<1> HIDE DEF z
<1>2. z.rolledBack /\ z.plans = y.plans /\ z.slipped = {}
  BY <1>1 DEF Carries
<1>3. \A c \in DOMAIN z.plans : Undoable(z, c, ClientFile(fs, z, c))
  BY <1>1, <1>2, CarriedReverts DEF Undoable, UndoableAt
<1>4. CASE z.at = "final" /\ z.todo = {}
  BY <1>2, <1>3, <1>4 DEF Reverting, Onward, ClientPhases, z
<1>5. ASSUME NEW c \in y.todo, z.at = "commit", z.todo = y.todo \ {c},
             NewWrite(z.w, c, Goal(y, c), y.plans[c].expected, y.plans[c].parent)
      PROVE  Reverting(fs, z)
  <2>1. z.w.target = c /\ z.w.undone /\ z.w.step \in {"check", "return"} /\ c \in DOMAIN y.plans
    BY <1>5 DEF NewWrite, Going
  <2>2. ~InApplied(z, c) /\ CleanFile(z, c, ClientFile(fs, z, c))
    BY <1>1, <2>1, CarriedReverts DEF InSight
  <2>3. \A k \in z.todo : ~InApplied(z, k)
    BY <1>1, <1>5, CarriedReverts
  <2>4. Onward(z)
    BY <1>2, <1>5, <2>1, <2>2, <2>3 DEF Onward
  <2>5. Halfway(z, ClientFile(fs, z, z.w.target))
    BY <1>5, <2>1, <2>2 DEF Halfway, HalfwayAt
  <2> QED BY <1>3, <2>4, <2>5 DEF Reverting
<1> QED BY <1>1, <1>4, <1>5 DEF z

LEMMA RollingReverts ==
    ASSUME NEW fs, NEW y, Going(y),
           y.rolledBack => \A c \in DOMAIN y.plans : InSight(y, c, ClientFile(fs, y, c))
    PROVE  Reverting(fs, RollingBack(y))
<1> DEFINE z == RollingBack(y)
<1>1. /\ Carries(z, y)
      /\ \/ y.applied = <<>> /\ z.at = "rejournal" /\ z.applied = <<>>
         \/ /\ y.applied # <<>> /\ z.at = "rollback" /\ z.applied = Front(y.applied)
            /\ LET a == Last(y.applied) IN
               NewWrite(z.w, a.target, ContentOf(a.before), a.after, a.parent)
  BY RollingBackIs
<1> HIDE DEF z
<1>2. z.rolledBack = y.rolledBack /\ z.plans = y.plans /\ z.slipped = y.slipped
  BY <1>1 DEF Carries
<1>3. CASE y.applied = <<>> /\ z.at = "rejournal" /\ z.applied = <<>>
  <2>1. \A c : ~InApplied(y, c)
    BY <1>3 DEF InApplied
  <2>2. \A c \in DOMAIN z.plans : Undoable(z, c, ClientFile(fs, z, c))
    BY <1>1, <1>2, <2>1, CarriedReverts DEF Undoable, UndoableAt, InSight
  <2> QED BY <1>3, <2>2 DEF Reverting, Onward, ClientPhases, z
<1>4. CASE /\ y.applied # <<>> /\ z.at = "rollback" /\ z.applied = Front(y.applied)
           /\ LET a == Last(y.applied) IN
              NewWrite(z.w, a.target, ContentOf(a.before), a.after, a.parent)
  <2> DEFINE a == Last(y.applied)
  <2>1. y.applied \in Seq(Changes)
    BY DEF Going, ProcRecs
  <2>2. /\ a \in Changes /\ a = y.applied[Len(y.applied)] /\ Len(y.applied) \in 1..Len(y.applied)
        /\ Len(z.applied) = Len(y.applied) - 1
        /\ \A i \in 1..(Len(y.applied) - 1) : z.applied[i] = y.applied[i]
    BY <1>4, <2>1, SeqFacts
  <2>3. ChangeOK(y, a)
    BY <2>2 DEF Going
  <2>4. NewWrite(z.w, a.target, ContentOf(a.before), a.after, a.parent)
    BY <1>4
  <2>5. a.before \in ClientFiles \cup {Absent}
    BY <2>2 DEF Changes
  <2> HIDE DEF a
  <2>6. z.w.step = "check" /\ z.w.target = a.target /\ z.w.undone
    <3>1. a.before # Absent => ContentOf(a.before) # Absent
      BY <2>5, AbsentFacts DEF ContentOf, ClientFiles
    <3> QED BY <2>3, <2>4, <3>1 DEF NewWrite, ChangeOK
  <2>7. ASSUME NEW c, InApplied(y, c)  PROVE InApplied(z, c) \/ c = a.target
    <3>1. PICK i \in 1..Len(y.applied) : y.applied[i].target = c
      BY <2>7 DEF InApplied
    <3>2. Len(y.applied) \in Nat
      BY <2>1
    <3>3. \A n \in Nat : \A k \in 1..n : k = n \/ k \in 1..(n - 1)
      OBVIOUS
    <3>4. i = Len(y.applied) \/ i \in 1..(Len(y.applied) - 1)
      BY <3>2, <3>3
    <3>5. i \in 1..(Len(y.applied) - 1) => i \in 1..Len(z.applied) /\ z.applied[i].target = c
      BY <2>2, <3>1
    <3> QED BY <2>2, <3>1, <3>4, <3>5 DEF InApplied
  <2>8. PendingAt(z, z.w.step, z.w.ok, z.w.undone)
    BY <1>4, <2>6 DEF PendingAt
  <2>9. \A c \in DOMAIN z.plans : Undoable(z, c, ClientFile(fs, z, c))
    <3> SUFFICES ASSUME NEW c \in DOMAIN y.plans, y.rolledBack  PROVE Undoable(z, c, ClientFile(fs, z, c))
      BY <1>2 DEF Undoable, UndoableAt
    <3>1. InApplied(y, c) \/ c \in z.slipped \/ CleanFile(y, c, ClientFile(fs, y, c))
      BY <1>2 DEF InSight
    <3>2. Carries(z, y)
      BY <1>1
    <3>3. CleanFile(y, c, ClientFile(fs, y, c)) => CleanFile(z, c, ClientFile(fs, z, c))
      BY <3>2, CarriedReverts
    <3> QED BY <2>6, <2>7, <2>8, <3>1, <3>3 DEF Undoable, UndoableAt, InSight
  <2>10. Halfway(z, ClientFile(fs, z, z.w.target))
    BY <1>4, <2>6 DEF Halfway, HalfwayAt
  <2> QED BY <1>4, <2>9, <2>10 DEF Reverting, Onward, z
<1> QED BY <1>1, <1>3, <1>4

\* A command alike, with the same list of changes.
LEMMA AlikeReverts ==
    ASSUME NEW y, NEW r, Alike(y, r)
    PROVE  /\ \A c, f : CleanFile(y, c, f) <=> CleanFile(r, c, f)
           /\ \A fs, c : ClientFile(fs, y, c) = ClientFile(fs, r, c)
           /\ y.applied = r.applied => \A c : InApplied(y, c) <=> InApplied(r, c)
           /\ y.applied = r.applied => \A c, f : InSight(r, c, f) => InSight(y, c, f)
           /\ y.plans = r.plans /\ y.todo = r.todo
<1>1. \A c, f : CleanFile(y, c, f) <=> CleanFile(r, c, f)
  BY DEF Alike, CleanFile
<1>2. y.applied = r.applied => \A c : InApplied(y, c) <=> InApplied(r, c)
  BY DEF InApplied
<1> QED BY <1>1, <1>2 DEF Alike, ClientFile, InSight

\* Between its writes a command has its changes in the list, or none.
LEMMA Unpending ==
    ASSUME NEW fs, NEW r, Reverting(fs, r), r.rolledBack, r.at \notin ClientPhases,
           NEW c \in DOMAIN r.plans
    PROVE  InSight(r, c, ClientFile(fs, r, c))
  BY DEF Reverting, Undoable, UndoableAt, PendingAt, Slips, ClientPhases

LEMMA AppliedIs ==
    ASSUME NEW r, r.applied \in Seq(Changes), ChangeMade(r) \in Changes \/ ~Moved(r), NEW y, y.applied = Applied(r), NEW c
    PROVE  InApplied(y, c) <=> InApplied(r, c) \/ (r.w.ok /\ Moved(r) /\ c = r.w.target)
<1>1. CASE r.w.ok /\ Moved(r)
  <2> DEFINE a == ChangeMade(r)
  <2>1. y.applied = Append(r.applied, a) /\ a \in Changes
    BY <1>1 DEF Applied
  <2>2. a.target = r.w.target
    BY DEF ChangeMade
  <2> HIDE DEF a
  <2>3. /\ y.applied[Len(r.applied) + 1] = a /\ Len(r.applied) + 1 \in 1..Len(y.applied)
        /\ \A i \in 1..Len(r.applied) : y.applied[i] = r.applied[i] /\ i \in 1..Len(y.applied)
        /\ \A i \in 1..Len(y.applied) : i \in 1..Len(r.applied) \/ i = Len(r.applied) + 1
    BY <2>1, AppendFacts
  <2> QED BY <1>1, <2>2, <2>3 DEF InApplied
<1>2. CASE ~(r.w.ok /\ Moved(r))
  BY <1>2 DEF Applied, InApplied
<1> QED BY <1>1, <1>2

LEMMA RevPlan ==
    ASSUME Typed, NEW p \in Procs, Plan(p), proc'[p].at \notin Resting
    PROVE  Reverting(file', proc'[p])
<1> DEFINE r == proc[p]  z == proc'[p]
<1>1. /\ r.at = "locked" /\ file' = file
      /\ MayPlan(r) /\ (WritesFirst(z, r) \/ z = Committing(Restoring(r)))
  BY PlanTyped DEF Stays, Ended, Resting
<1>2. ASSUME NEW y, Embarks(y, r), NEW c \in DOMAIN y.plans
      PROVE  CleanFile(y, c, ClientFile(file, y, c))
  <2>1. y.plans[c].expected = Found(c) /\ y.plans[c].parent = dir[c]
    BY <1>2 DEF Embarks, PlanFor
  <2> QED BY <2>1 DEF CleanFile, ClientFile, Found
<1>3. CASE WritesFirst(z, r)
  <2>1. Embarks(z, r) /\ z.at = "journal" /\ z.applied = <<>> /\ z.rolledBack /\ z.slipped = {}
    BY <1>3 DEF WritesFirst, Embarks
  <2>2. \A c \in DOMAIN z.plans : Undoable(z, c, ClientFile(file, z, c))
    BY <1>2, <2>1 DEF Undoable, UndoableAt, InSight
  <2>3. \A c : ~InApplied(z, c)
    BY <2>1 DEF InApplied
  <2> QED BY <1>1, <2>1, <2>2, <2>3 DEF Reverting, Onward, ClientPhases
<1>4. CASE z = Committing(Restoring(r))
  <2> DEFINE y == Restoring(r)
  <2>1. /\ Embarks(y, r) /\ y.applied = <<>> /\ Going(y)
    BY <1>1, RestoringIs DEF MayPlan
  <2> HIDE DEF y
  <2>2. y.rolledBack /\ y.slipped = {} /\ \A c : ~InApplied(y, c)
    BY <2>1 DEF InApplied, Embarks
  <2>3. \A c \in DOMAIN y.plans : InSight(y, c, ClientFile(file, y, c))
    BY <1>2, <2>1 DEF InSight
  <2>4. Reverting(file, Committing(y))
    BY <2>1, <2>2, <2>3, CommittingReverts
  <2> QED BY <1>1, <1>4, <2>4 DEF y
<1> QED BY <1>1, <1>3, <1>4

LEMMA RevJournal ==
    ASSUME Typed, NEW p \in Procs, JournalReturns(p), proc'[p].at \notin Resting, Reverting(file, proc[p])
    PROVE  Reverting(file', proc'[p])
<1> DEFINE r == proc[p]  y == Saver(r)
<1>1. r.at = "journal" /\ file' = file /\ proc'[p] = Committing(y) /\ ProcOK(r)
  BY JournalReturnsTyped DEF Stays, Ended, Resting, Typed
<1>2. /\ Alike(y, r) /\ y.applied = r.applied /\ y.rolledBack = r.rolledBack /\ Going(y)
      /\ y.slipped = r.slipped
  BY <1>1, SaverIs DEF SavePhases
<1> HIDE DEF y
<1>3. r.rolledBack /\ r.slipped = {} /\ \A c \in r.todo : ~InApplied(r, c)
  BY <1>1 DEF Reverting, Onward
<1>4. \A c \in DOMAIN r.plans : InSight(r, c, ClientFile(file, r, c))
  BY <1>1, <1>3, Unpending DEF ClientPhases
<1>5. /\ y.rolledBack /\ \A c \in y.todo : ~InApplied(y, c)
      /\ \A c \in DOMAIN y.plans : InSight(y, c, ClientFile(file, y, c))
  BY <1>2, <1>3, <1>4, AlikeReverts
<1>6. Reverting(file, Committing(y))
  BY <1>2, <1>3, <1>5, CommittingReverts
<1> QED BY <1>1, <1>6

LEMMA RevCommit ==
    ASSUME Typed, NEW p \in Procs, CommitReturns(p), Reverting(file, proc[p])
    PROVE  Reverting(file', proc'[p])
<1> DEFINE r == proc[p]  w == r.w  x == NextOf(r)  y == Proceeding(r)
<1>1. /\ r.at = "commit" /\ w.step = "return" /\ file' = file /\ ProcOK(r)
      /\ \/ proc'[p] = RollingBack(x)
         \/ w.ok /\ proc'[p] = Committing(y)
  BY CommitReturnsTyped DEF Stays, Typed
<1>2. /\ Alike(x, r) /\ x.applied = Applied(r) /\ x.rolledBack = w.undone /\ Going(x)
      /\ x.slipped = Slipped(r)
      /\ Moved(r) => ChangeMade(r) \in Changes
      /\ r.applied \in Seq(Changes)
  BY <1>1, NextOfIs
<1>3. /\ Alike(y, r) /\ y.applied = Applied(r) /\ y.rolledBack = w.undone /\ Going(y)
      /\ y.slipped = Slipped(r)
  BY <1>1, ProceedingIs
<1> HIDE DEF x, y
<1>4. /\ r.rolledBack /\ r.slipped = {} /\ \A c \in r.todo : ~InApplied(r, c)
      /\ w.target \notin r.todo /\ ~InApplied(r, w.target)
  BY <1>1 DEF Reverting, Onward
<1>5. (w.ok => w.undone) /\ (w.ok => ~w.late)
  BY <1>1 DEF Reverting, Halfway, HalfwayAt, ClientPhases, ProcOK, WriteOK
<1>6. ASSUME w.undone, NEW c \in DOMAIN r.plans
      PROVE  \/ InApplied(r, c) \/ (w.ok /\ Moved(r) /\ c = w.target)
             \/ c \in Slipped(r) \/ CleanFile(r, c, ClientFile(file, r, c))
  <2>1. Undoable(r, c, ClientFile(file, r, c))
    BY DEF Reverting
  <2> QED BY <1>1, <1>4, <1>6, <2>1 DEF Undoable, UndoableAt, InSight, PendingAt, Slips, Slipped
<1>7. \A c : InApplied(x, c) <=> InApplied(r, c) \/ (w.ok /\ Moved(r) /\ c = w.target)
  BY <1>2, AppliedIs
<1>8. \A c : InApplied(y, c) <=> InApplied(r, c) \/ (w.ok /\ Moved(r) /\ c = w.target)
  BY <1>2, <1>3, AppliedIs
<1>9. CASE proc'[p] = RollingBack(x)
  <2>1. x.rolledBack => \A c \in DOMAIN x.plans : InSight(x, c, ClientFile(file, x, c))
    BY <1>2, <1>6, <1>7, AlikeReverts DEF InSight
  <2>2. Reverting(file, RollingBack(x))
    BY <1>2, <2>1, RollingReverts
  <2> QED BY <1>1, <1>9, <2>2
<1>10. CASE w.ok /\ proc'[p] = Committing(y)
  <2>1. y.rolledBack /\ y.slipped = {}
    BY <1>3, <1>4, <1>5, <1>10 DEF Slipped
  <2>2. \A c \in y.todo : ~InApplied(y, c)
    BY <1>3, <1>4, <1>8, AlikeReverts
  <2>3. \A c \in DOMAIN y.plans : InSight(y, c, ClientFile(file, y, c))
    BY <1>3, <1>5, <1>6, <1>8, <1>10, AlikeReverts DEF InSight
  <2>4. Reverting(file, Committing(y))
    BY <1>3, <2>1, <2>2, <2>3, CommittingReverts
  <2> QED BY <1>1, <1>10, <2>4
<1> QED BY <1>1, <1>9, <1>10

LEMMA RevFinal ==
    ASSUME Typed, NEW p \in Procs, FinalReturns(p), proc'[p].at \notin Resting, Reverting(file, proc[p])
    PROVE  Reverting(file', proc'[p])
<1> DEFINE r == proc[p]  y == Aborting(r)
<1>1. r.at = "final" /\ file' = file /\ proc'[p] = RollingBack(y) /\ ProcOK(r)
  BY FinalReturnsTyped DEF Stays, Ended, Resting, Typed
<1>2. Alike(y, r) /\ y.applied = r.applied /\ Going(y)
  BY <1>1, AbortingIs
<1> HIDE DEF y
<1>3. r.rolledBack
  BY <1>1 DEF Reverting, Onward
<1>4. \A c \in DOMAIN r.plans : InSight(r, c, ClientFile(file, r, c))
  BY <1>1, <1>3, Unpending DEF ClientPhases
<1>5. Reverting(file, RollingBack(y))
  BY <1>2, <1>4, AlikeReverts, RollingReverts
<1> QED BY <1>1, <1>5

LEMMA RevRollback ==
    ASSUME Typed, NEW p \in Procs, RollbackReturns(p), Reverting(file, proc[p])
    PROVE  Reverting(file', proc'[p])
<1> DEFINE r == proc[p]  w == r.w  y == RollingOn(r)
<1>1. /\ r.at = "rollback" /\ w.step = "return" /\ file' = file /\ proc'[p] = RollingBack(y)
      /\ Alike(y, r) /\ y.applied = r.applied /\ y.rolledBack = (r.rolledBack /\ w.ok) /\ Going(y)
  BY RollbackReturnsTyped DEF Stays
<1> HIDE DEF y
<1>2. ASSUME r.rolledBack /\ w.ok, NEW c \in DOMAIN r.plans
      PROVE  InSight(r, c, ClientFile(file, r, c))
  <2>1. Undoable(r, c, ClientFile(file, r, c))
    BY DEF Reverting
  <2> QED BY <1>1, <1>2, <2>1 DEF Undoable, UndoableAt, PendingAt, Slips
<1>3. y.rolledBack => \A c \in DOMAIN y.plans : InSight(y, c, ClientFile(file, y, c))
  <2>1. y.rolledBack => r.rolledBack /\ w.ok
    BY <1>1, Zenon
  <2>2. Alike(y, r) /\ y.applied = r.applied
    BY <1>1
  <2> QED BY <1>2, <2>1, <2>2, AlikeReverts
<1>4. Reverting(file, RollingBack(y))
  BY <1>1, <1>3, RollingReverts
<1> QED BY <1>1, <1>4

\* A command that has nothing left to take back.
LEMMA RevRescue ==
    ASSUME NEW fs, NEW r, Reverting(fs, r), r.at \in {"rejournal", "rescue"}, r.applied = <<>>,
           NEW z, Rescue(z, r)
    PROVE  Reverting(fs, z)
<1>1. \A c : ~InApplied(r, c)
  BY DEF InApplied
<1>2. /\ Alike(z, r) /\ z.at = "rescue" /\ z.rolledBack = r.rolledBack /\ z.plans = r.plans
  BY DEF Rescue, Alike
<1>3. \A c \in DOMAIN r.plans : ~r.rolledBack \/ c \in r.slipped \/ CleanFile(r, c, ClientFile(fs, r, c))
  BY <1>1, Unpending DEF ClientPhases, InSight
<1>a. r.slipped \subseteq z.slipped
  BY <1>2 DEF Alike
<1>4. \A c \in DOMAIN z.plans : Undoable(z, c, ClientFile(fs, z, c))
  BY <1>2, <1>3, <1>a, AlikeReverts DEF Undoable, UndoableAt, InSight
<1> QED BY <1>2, <1>4 DEF Reverting, Onward, ClientPhases

\* A file that another actor changed is not one of the command's.
LEMMA RevFrame ==
    ASSUME NEW fs, NEW gs, NEW r, Reverting(fs, r), ProcOK(r), r.at \notin Resting,
           \A c \in DOMAIN r.plans : \/ ClientFile(gs, r, c) = ClientFile(fs, r, c)
                                     \/ CleanFile(r, c, ClientFile(gs, r, c))
    PROVE  Reverting(gs, r)
<1>1. \A c \in DOMAIN r.plans : Undoable(r, c, ClientFile(gs, r, c))
  BY DEF Reverting, Undoable, UndoableAt, InSight
<1>2. ASSUME r.at \in ClientPhases  PROVE Halfway(r, ClientFile(gs, r, r.w.target))
  <2>1. r.w.target \in DOMAIN r.plans
    BY <1>2 DEF ProcOK, PhaseOK, ClientOK
  <2>2. Halfway(r, ClientFile(fs, r, r.w.target))
    BY <1>2 DEF Reverting
  <2> QED BY <2>1, <2>2 DEF Halfway, HalfwayAt
<1> QED BY <1>1, <1>2 DEF Reverting

LEMMA RevEdit ==
    ASSUME Typed, NEW c \in Clients, NEW deleted \in BOOLEAN, Edit(c, deleted),
           NEW p \in Procs, proc[p].at \notin Resting, Reverting(file, proc[p])
    PROVE  Reverting(file', proc[p])
<1> DEFINE r == proc[p]  N == Edited(edits + 1, deleted)
<1>1. Holds(c, dir[c], N) /\ (IF deleted THEN N = Absent ELSE N # Absent /\ N.content = User(edits + 1) /\ N.run = 0)
  BY EditTyped
<1> HIDE DEF N
<1>2. r.run # 0 /\ ProcOK(r) /\ r.plans \in PlanMaps
  BY DEF Typed, ProcOK, PhaseOK, RestOK, Resting, ProcRecs
<1>3. \A k : CleanFile(r, k, N)
  BY <1>1, <1>2 DEF CleanFile
<1>4. ASSUME NEW k \in DOMAIN r.plans
      PROVE  ClientFile(file', r, k) = ClientFile(file, r, k) \/ CleanFile(r, k, ClientFile(file', r, k))
  <2>1. k \in Targets /\ r.plans[k].parent \in Dirs
    BY <1>2, PlanFacts, TargetFacts DEF Plans
  <2> QED BY <1>1, <1>3, <2>1 DEF Holds, ClientFile
<1> QED BY <1>2, <1>4, RevFrame

\* No other process works while p does.
LEMMA SoloOthers ==
    ASSUME Solo, ~raced, NEW p \in Procs, NEW q \in Procs, q # p, Working(p)
    PROVE  proc[q].at \in Resting
  BY DEF Solo, Working, Resting

\* A command keeps sight of its changes between two writes.
LEMMA RevCommand ==
    ASSUME Typed, NEW p \in Procs, CommandStep(p), ~Lock(p), proc'[p].at \notin Resting, ~raced,
           proc[p].at \notin Resting => Reverting(file, proc[p])
    PROVE  Reverting(file', proc'[p])
<1>1. CASE Plan(p)
  BY <1>1, RevPlan
<1>2. CASE JournalReturns(p)
  <2>1. proc[p].at \notin Resting
    BY <1>2, JournalReturnsTyped DEF Resting
  <2> QED BY <1>2, <2>1, RevJournal
<1>3. CASE CommitReturns(p)
  <2>1. proc[p].at \notin Resting
    BY <1>3, CommitReturnsTyped DEF Resting
  <2> QED BY <1>3, <2>1, RevCommit
<1>4. CASE FinalReturns(p)
  <2>1. proc[p].at \notin Resting
    BY <1>4, FinalReturnsTyped DEF Resting
  <2> QED BY <1>4, <2>1, RevFinal
<1>5. CASE RollbackReturns(p)
  <2>1. proc[p].at \notin Resting
    BY <1>5, RollbackReturnsTyped DEF Resting
  <2> QED BY <1>5, <2>1, RevRollback
<1>a. proc[p].at \in {"rejournal", "rescue"} => proc[p].applied = <<>>
  BY DEF Typed, ProcOK, PhaseOK, RestOK
<1>6. CASE RejournalReturns(p)
  <2>1. proc[p].at = "rejournal" /\ Rescue(proc'[p], proc[p]) /\ file' = file
    BY <1>6, RejournalReturnsTyped DEF Ended, Resting, Stays
  <2>2. Reverting(file, proc[p])
    BY <2>1 DEF Resting
  <2>3. Reverting(file, proc'[p])
    BY <1>a, <2>1, <2>2, RevRescue
  <2> QED BY <2>1, <2>3
<1>7. CASE RescueReads(p)
  <2>1. proc[p].at = "rescue" /\ Rescue(proc'[p], proc[p]) /\ file' = file
    BY <1>7, RescueReadsTyped DEF Ended, Resting, Stays
  <2>2. Reverting(file, proc[p])
    BY <2>1 DEF Resting
  <2>3. Reverting(file, proc'[p])
    BY <1>a, <2>1, <2>2, RevRescue
  <2> QED BY <2>1, <2>3
<1>8. CASE RescueRenames(p)
  <2>1. /\ proc[p].at = "rescue" /\ Rescue(proc'[p], proc[p])
        /\ Holds(Journal, proc[p].w.parent, Staged(proc[p])) /\ Typed'
    BY <1>8, RescueRenamesTyped DEF Ended, Resting
  <2>2. Reverting(file, proc[p])
    BY <2>1 DEF Resting
  <2>3. Reverting(file, proc'[p])
    BY <1>a, <2>1, <2>2, RevRescue
  <2>4. \A c \in DOMAIN proc'[p].plans : ClientFile(file', proc'[p], c) = ClientFile(file, proc'[p], c)
    <3>1. ProcOK(proc'[p]) /\ proc'[p].plans \in PlanMaps
      BY <2>1 DEF Typed, ProcOK, ProcRecs
    <3>2. \A c \in DOMAIN proc'[p].plans : c \in Clients /\ c \in Targets /\ c # Journal /\ proc'[p].plans[c].parent \in Dirs
      BY <3>1, PlanFacts, TargetFacts DEF Plans
    <3> QED BY <2>1, <3>2 DEF Holds, ClientFile
  <2>5. ProcOK(proc'[p])
    BY <2>1 DEF Typed
  <2> QED BY <2>3, <2>4, <2>5, RevFrame
<1>9. CASE RescueVerifies(p)
  BY <1>9, RescueVerifiesTyped DEF Ended, Resting
<1> QED BY <1>1, <1>2, <1>3, <1>4, <1>5, <1>6, <1>7, <1>8, <1>9 DEF CommandStep

\* A step of a command is of one that works, and changes no other.
LEMMA CommandWorks ==
    ASSUME Typed, NEW p \in Procs, CommandStep(p), ~Lock(p)
    PROVE  Working(p) /\ \A q \in Procs : q # p => proc'[q] = proc[q]
<1>1. proc[p].at \notin {"idle", "locking"} /\ \A q \in Procs : q # p => proc'[q] = proc[q]
  <2>1. CASE Plan(p)
    BY <2>1, PlanTyped DEF Stays
  <2>2. CASE JournalReturns(p)
    BY <2>2, JournalReturnsTyped DEF Stays
  <2>3. CASE CommitReturns(p)
    BY <2>3, CommitReturnsTyped DEF Stays
  <2>4. CASE FinalReturns(p)
    BY <2>4, FinalReturnsTyped DEF Stays
  <2>5. CASE RollbackReturns(p)
    BY <2>5, RollbackReturnsTyped DEF Stays
  <2>6. CASE RejournalReturns(p)
    BY <2>6, RejournalReturnsTyped DEF Stays
  <2>7. CASE RescueReads(p)
    BY <2>7, RescueReadsTyped DEF Stays
  <2>8. CASE RescueRenames(p)
    BY <2>8, RescueRenamesTyped
  <2>9. CASE RescueVerifies(p)
    BY <2>9, RescueVerifiesTyped DEF Stays
  <2> QED BY <2>1, <2>2, <2>3, <2>4, <2>5, <2>6, <2>7, <2>8, <2>9 DEF CommandStep
<1> QED BY <1>1 DEF Working

\* So is a step of a write; its phase stays.
LEMMA WriteWorks ==
    ASSUME Typed, NEW p \in Procs, WriteStep(p)
    PROVE  /\ Working(p) /\ proc[p].at \notin Resting /\ proc'[p].at = proc[p].at /\ proc'[p].result = proc[p].result
           /\ \A q \in Procs : q # p => proc'[q] = proc[q]
           /\ UNCHANGED userVars
<1>1. proc[p].w.step \in WriteSteps /\ ProcOK(proc[p])
  BY WriteStepTyped DEF Typed
<1>2. proc[p].at \in SavePhases \cup ClientPhases
  BY <1>1, PhaseOfWrite
<1>3. PICK step, temp, ok, undone, f, l : Turn(p, step, temp, ok, undone, f, l)
  BY WroteIs DEF Wrote
<1> QED BY <1>2, <1>3 DEF Turn, Turned, Writing, Working, Resting, SavePhases, ClientPhases

\* Every step keeps a command's changes in sight.
LEMMA RevertsStep ==
    ASSUME Typed, Solo, Reverts, [Next]_vars
    PROVE  Reverts'
<1> SUFFICES ASSUME ~raced, ~raced', NEW q \in Procs, proc'[q].at \notin Resting  PROVE Reverting(file', proc'[q])
  BY SoloStep DEF Reverts
<1>a. proc[q].at \notin Resting => Reverting(file, proc[q])
  BY DEF Reverts
<1>1. ASSUME NEW p \in Procs, UNCHANGED file, proc'[p].at \in Resting, \A k \in Procs : k # p => proc'[k] = proc[k]
      PROVE  Reverting(file', proc'[q])
  BY <1>a, <1>1
<1>2. ASSUME NEW p \in Procs, Working(p), q # p, proc'[q] = proc[q]
      PROVE  FALSE
  BY <1>2, SoloOthers
<1>3. ASSUME NEW p \in Procs, NEW cmd \in Commands, NEW X \in Selections, NEW v \in Versions, Start(p, cmd, X, v)
      PROVE  Reverting(file', proc'[q])
  <2>1. proc'[p].at = "locking" /\ \A k \in Procs : k # p => proc'[k] = proc[k]
    BY <1>3, StartTyped
  <2>2. UNCHANGED file
    BY <1>3 DEF Start
  <2> QED BY <1>1, <2>1, <2>2 DEF Resting
<1>4. ASSUME NEW p \in Procs, WriteStep(p)  PROVE Reverting(file', proc'[q])
  <2>1. CASE q = p
    <3>1. proc[p].at \notin Resting
      BY <1>4, WriteWorks
    <3> QED BY <1>a, <1>4, <2>1, <3>1, RevWrite
  <2>2. CASE q # p
    BY <1>2, <1>4, <2>2, WriteWorks
  <2> QED BY <2>1, <2>2
<1>5. ASSUME NEW p \in Procs, Lock(p)  PROVE Reverting(file', proc'[q])
  <2>1. UNCHANGED file /\ proc'[p].at \in Resting /\ \A k \in Procs : k # p => proc'[k] = proc[k]
    BY <1>5, LockTyped DEF Resting
  <2> QED BY <1>1, <2>1
<1>6. ASSUME NEW p \in Procs, CommandStep(p), ~Lock(p)  PROVE Reverting(file', proc'[q])
  <2>1. CASE q = p
    BY <1>a, <1>6, <2>1, RevCommand
  <2>2. CASE q # p
    BY <1>2, <1>6, <2>2, CommandWorks
  <2> QED BY <2>1, <2>2
<1>7. ASSUME NEW p \in Procs, Crash(p)  PROVE Reverting(file', proc'[q])
  <2>1. UNCHANGED file /\ proc'[p].at \in Resting /\ \A k \in Procs : k # p => proc'[k] = proc[k]
    BY <1>7, CrashTyped DEF Ended, Resting
  <2> QED BY <1>1, <2>1
<1>8. ASSUME NEW c \in Clients, NEW deleted \in BOOLEAN, Edit(c, deleted)  PROVE Reverting(file', proc'[q])
  <2>1. proc' = proc
    BY <1>8 DEF Edit
  <2> QED BY <1>a, <1>8, <2>1, RevEdit
<1>9. ASSUME UNCHANGED <<file, proc>>  PROVE Reverting(file', proc'[q])
  BY <1>a, <1>9
<1>10. ASSUME NEW t \in Movable, NEW d \in Dirs, MoveDirectory(t, d)  PROVE Reverting(file', proc'[q])
  BY <1>9, <1>10, MoveTyped
<1>11. CASE ReplaceLock
  BY <1>9, <1>11, ReplaceTyped
<1>12. CASE UNCHANGED vars
  BY <1>9, <1>12 DEF vars
<1> QED BY <1>3, <1>4, <1>5, <1>6, <1>7, <1>8, <1>10, <1>11, <1>12 DEF Next

\* A command that ends by saying that it undid its changes has none left.
LEMMA UndoneStep ==
    ASSUME Typed, Solo, Reverts, [Next]_vars, NEW p \in Procs, proc[p].at # "idle",
           proc'[p].result = "undone", ~raced
    PROVE  LeavesNothing(p)
<1> DEFINE r == proc[p]  z == proc'[p]
<1>1. r.result = "none" /\ Typed' /\ (z.at # "idle" => z.result = "none")
  <2>1. Typed'
    BY TypedStep
  <2> QED BY <2>1 DEF Typed, ProcOK, PhaseOK, RestOK
<1>2. z.at = "idle" /\ z # r
  BY <1>1
<1>3. ASSUME r.at \in {"rejournal", "rescue"}, r.rolledBack  PROVE LeavesNothing(p)
  <2>1. Reverting(file, r) /\ r.applied = <<>>
    BY <1>3 DEF Reverts, Resting, Typed, ProcOK, PhaseOK, RestOK
  <2>2. \A c \in DOMAIN r.plans \ r.slipped : CleanFile(r, c, ClientFile(file, r, c))
    BY <1>3, <2>1, Unpending DEF InApplied, InSight, ClientPhases
  <2> QED BY <2>2 DEF LeavesNothing, CleanFile, ClientFile
<1>4. ASSUME NEW q \in Procs, q # p, z = r  PROVE LeavesNothing(p)
  BY <1>2, <1>4
<1>5. ASSUME NEW q \in Procs, NEW cmd \in Commands, NEW X \in Selections, NEW v \in Versions, Start(q, cmd, X, v)
      PROVE  LeavesNothing(p)
  BY <1>2, <1>5, StartTyped
<1>6. ASSUME NEW q \in Procs, WriteStep(q)  PROVE LeavesNothing(p)
  BY <1>1, <1>2, <1>6, WriteWorks
<1>7. ASSUME NEW q \in Procs, Lock(q)  PROVE LeavesNothing(p)
  BY <1>2, <1>7, LockTyped
<1>8. ASSUME NEW q \in Procs, CommandStep(q), ~Lock(q)  PROVE LeavesNothing(p)
  <2>1. q = p
    BY <1>2, <1>8, CommandWorks
  <2>2. ASSUME NEW y, Going(y), z = Committing(y) \/ z = RollingBack(y)  PROVE FALSE
    <3>1. Committing(y).at # "idle"
      BY <2>2, CommittingIs DEF Going
    <3>2. RollingBack(y).at # "idle"
      BY <2>2, RollingBackIs
    <3> QED BY <1>2, <2>2, <3>1, <3>2
  <2>a. ProcOK(r)
    BY DEF Typed
  <2>3. ~Plan(p)
    <3> SUFFICES ASSUME Plan(p)  PROVE FALSE
      OBVIOUS
    <3>1. r.at = "locked" /\ MayPlan(r) /\ (WritesFirst(z, r) \/ z = Committing(Restoring(r)))
      BY PlanTyped
    <3>2. Going(Restoring(r))
      BY <3>1, RestoringIs DEF MayPlan
    <3> QED BY <1>2, <2>2, <3>1, <3>2 DEF WritesFirst
  <2>4. ~JournalReturns(p)
    <3> SUFFICES ASSUME JournalReturns(p)  PROVE FALSE
      OBVIOUS
    <3>1. r.at = "journal" /\ z = Committing(Saver(r))
      BY JournalReturnsTyped
    <3>2. Going(Saver(r))
      BY <2>a, <3>1, SaverIs DEF SavePhases
    <3> QED BY <2>2, <3>1, <3>2
  <2>5. ~CommitReturns(p)
    <3> SUFFICES ASSUME CommitReturns(p)  PROVE FALSE
      OBVIOUS
    <3>1. r.at = "commit" /\ (z = RollingBack(NextOf(r)) \/ z = Committing(Proceeding(r)))
      BY CommitReturnsTyped
    <3>2. Going(NextOf(r)) /\ Going(Proceeding(r))
      BY <2>a, <3>1, NextOfIs, ProceedingIs
    <3> QED BY <2>2, <3>1, <3>2
  <2>6. ~FinalReturns(p)
    <3> SUFFICES ASSUME FinalReturns(p)  PROVE FALSE
      OBVIOUS
    <3>1. r.at = "final" /\ z = RollingBack(Aborting(r))
      BY FinalReturnsTyped
    <3>2. Going(Aborting(r))
      BY <2>a, <3>1, AbortingIs
    <3> QED BY <2>2, <3>1, <3>2
  <2>7. ~RollbackReturns(p)
    BY <2>2, RollbackReturnsTyped
  <2>8. CASE RejournalReturns(p)
    <3>1. r.at = "rejournal" /\ r.rolledBack
      BY <1>2, <2>8, RejournalReturnsTyped DEF Rescue
    <3> QED BY <1>3, <3>1
  <2>9. CASE RescueReads(p)
    BY <1>2, <2>9, RescueReadsTyped DEF Rescue
  <2>10. CASE RescueRenames(p)
    BY <1>2, <2>10, RescueRenamesTyped DEF Rescue
  <2>11. CASE RescueVerifies(p)
    <3>1. r.at = "rescue" /\ r.rolledBack
      BY <2>11, RescueVerifiesTyped
    <3> QED BY <1>3, <3>1
  <2> QED BY <1>8, <2>1, <2>3, <2>4, <2>5, <2>6, <2>7, <2>8, <2>9, <2>10, <2>11 DEF CommandStep
<1>9. ASSUME NEW q \in Procs, Crash(q)  PROVE LeavesNothing(p)
  BY <1>2, <1>9, CrashTyped
<1>10. ASSUME UNCHANGED proc  PROVE LeavesNothing(p)
  BY <1>2, <1>10
<1>11. ASSUME NEW c \in Clients, NEW deleted \in BOOLEAN, Edit(c, deleted)  PROVE LeavesNothing(p)
  BY <1>10, <1>11 DEF Edit
<1>12. ASSUME NEW t \in Movable, NEW d \in Dirs, MoveDirectory(t, d)  PROVE LeavesNothing(p)
  BY <1>10, <1>12, MoveTyped
<1>13. CASE ReplaceLock
  BY <1>10, <1>13, ReplaceTyped
<1>14. CASE UNCHANGED vars
  BY <1>10, <1>14 DEF vars
<1> QED BY <1>5, <1>6, <1>7, <1>8, <1>9, <1>11, <1>12, <1>13, <1>14 DEF Next

----------------------------------------------------------------------------
(* What a command knows of the journal and of the clients' files.          *)

\* A write of the journal: nobody else writes the file j.
JournalAt(r, step, temp, ok, j) ==
    /\ step \in {"check", "swap"} => j = r.journal
    /\ step = "swap" => temp = NewFile(r)
    /\ step \in {"compare", "parent", "back"} => j = NewFile(r) /\ temp = r.journal
    /\ step = "recheck" => j = r.journal /\ temp = NewFile(r) /\ r.w.new # Absent
    /\ step \notin {"undo", "forward"}
    /\ step = "unlink" => j = IF ok THEN NewFile(r) ELSE r.journal
    /\ step = "unlink" => temp = IF ok THEN r.journal ELSE NewFile(r)
    /\ step = "return" => j \in {r.journal, NewFile(r)} /\ (ok => j = NewFile(r))
JournalSeen(r, j) ==
    /\ r.at \in {"locked", "commit", "rollback"} => j = r.journal
    /\ r.at \in SavePhases => JournalAt(r, r.w.step, r.w.temp, r.w.ok, j)
    /\ r.at \in SavePhases /\ r.w.step = "return" /\ ~r.w.ok /\ ~r.w.late => j = r.journal
JournalSays(r) ==
    /\ r.at = "journal" => Extends(StateOf(r.journal), r.recovery, DOMAIN r.plans)
    /\ r.at \in {"commit", "rollback", "final", "rejournal"} => StateOf(r.journal) = r.recovery

\* A file of ours is one that the snapshot knows.
KnownOurs(s, f) == IsOurs(f) => f.content \in Known(s)
ChasedFile(c, f, ch) == f # Absent /\ \E m \in 0..MaxEdits : f.content = User(m) /\ <<c, m>> \in ch
\* If the user is owed x, then a path of the client holds it.
Secured(c, x, fc, ow) ==
    \A k \in 0..MaxEdits :
        x = User(k) /\ <<c, k>> \in ow => \E d \in Dirs : fc[d] # Absent /\ fc[d].content = x

PassedAt(r, c, step, ok) ==
    /\ r.at \in {"commit", "final"} /\ c \notin r.todo
    /\ r.at = "commit" /\ r.w.target = c =>
          \/ step \in {"compare", "parent"}
          \/ step \in {"unlink", "return"} /\ ok
Passed(r, c) == PassedAt(r, c, r.w.step, r.w.ok)
Done(r, c, fc, ow) ==
    LET f == fc[r.plans[c].parent] IN
    /\ IsOurs(f) => f.content = Goal(r, c)
    /\ r.cmd # "setup" => Secured(c, Goal(r, c), fc, ow)
Untouched(r, c, fc) ==
    LET f == fc[r.plans[c].parent] IN IsOurs(f) => f = r.plans[c].expected
PlanCore(r, c, fc, lk) ==
    /\ lk \in {0, r.plans[c].parent}
    /\ lk # 0 /\ r.cmd # "setup" => r.recovery[c].original \notin {Ours(v) : v \in Versions}
    /\ KnownOurs(r.recovery[c], fc[r.plans[c].parent])
PlanSeen(r, c, fc, lk, ow) ==
    /\ PlanCore(r, c, fc, lk)
    /\ r.at = "journal" =>
          c \in DOMAIN StateOf(r.journal) \/ Secured(c, r.recovery[c].original, fc, ow)
    /\ c \in r.todo /\ r.at \in {"journal", "commit"} => Untouched(r, c, fc)
    /\ Passed(r, c) => Done(r, c, fc, ow)
WriteSeenAt(r, step, temp, f, ch) ==
    LET c == r.w.target  s == r.recovery[c] IN
    /\ step = "swap" => temp = NewFile(r)
    /\ step \in {"compare", "undo", "recheck", "forward"} => KnownOurs(s, temp)
    /\ step \in {"parent", "back"} => temp = r.w.expected
    /\ step = "undo" /\ r.w.new # Absent => f = Absent \/ f = Staged(r) \/ ChasedFile(c, f, ch)
    /\ step = "recheck" => r.w.new # Absent
    /\ step = "unlink" => KnownFile(s, temp) \/ ChasedFile(c, temp, ch)
WriteSeen(r, f, ch) == WriteSeenAt(r, r.w.step, r.w.temp, f, ch)

CoveredBy(c, s, f) == c \in DOMAIN s /\ Accepts(s[c], f)
Covered(fs, c, lk) ==
    lk # 0 /\ IsOurs(fs[c][lk]) => \E d \in Dirs : CoveredBy(c, StateOf(fs[Journal][d]), fs[c][lk])
CoveredBefore(fs, r, c, lk) ==
    lk # 0 /\ IsOurs(fs[c][lk]) =>
        \/ CoveredBy(c, StateOf(r.journal), fs[c][lk])
        \/ \E d \in Dirs \ {r.directory} : CoveredBy(c, StateOf(fs[Journal][d]), fs[c][lk])

Accounts(fs, lk, ow, ch, r) ==
    /\ JournalSeen(r, fs[Journal][r.directory])
    /\ JournalSays(r)
    /\ r.at \notin Resting => \A c \in DOMAIN r.plans : PlanSeen(r, c, fs[c], lk[c], ow)
    /\ r.at = "commit" => r.w.target \notin r.todo
    /\ r.at \in ClientPhases => WriteSeen(r, ClientFile(fs, r, r.w.target), ch)
    /\ r.at = "journal" => \A c \in Clients : CoveredBefore(fs, r, c, lk[c])
Accounted ==
    /\ \A p \in Procs : Working(p) => Accounts(file, looked, owed, chased, proc[p])
    /\ \A c \in Clients : Covered(file, c, looked[c])
    /\ \A e \in owed \ chased : EditKept(e)
AccountedUntilTorn == raced \/ torn \/ Accounted

----------------------------------------------------------------------------
(* Files of ours and of the user.                                          *)

\* The user's contents are not ours, and tell their numbers.
LEMMA ByFacts ==
    /\ \A n : User(n).by = "user" /\ User(n).n = n
    /\ \A v : Ours(v).by = "kirolb" /\ Ours(v).n = v
    /\ \A n, v : User(n) # Ours(v)
    /\ \A m, n : User(m) = User(n) => m = n
    /\ \A x \in Contents : x.by = "kirolb" => x \in {Ours(v) : v \in Versions}
    /\ \A x \in Contents : x.by # "kirolb" => \E n \in 0..MaxEdits : x = User(n)
<1>1. \A n : User(n).by = "user" /\ User(n).n = n
  BY DEF User
<1>2. \A v : Ours(v).by = "kirolb" /\ Ours(v).n = v
  BY DEF Ours
<1>3. \A n, v : User(n) # Ours(v)
  BY <1>1, <1>2
<1>4. \A m, n : User(m) = User(n) => m = n
  BY <1>1
<1>5. \A x \in Contents : (\E n \in 0..MaxEdits : x = User(n)) \/ x \in {Ours(v) : v \in Versions}
  BY DEF Contents
<1>6. \A x \in {Ours(v) : v \in Versions} : x.by = "kirolb"
  BY <1>2
<1>7. \A x \in Contents : x.by = "kirolb" => x \in {Ours(v) : v \in Versions}
  BY <1>1, <1>5
<1>8. \A x \in Contents : x.by # "kirolb" => \E n \in 0..MaxEdits : x = User(n)
  BY <1>5, <1>6
<1> QED BY <1>1, <1>2, <1>3, <1>4, <1>7, <1>8

\* What is known of a client and was written by the user is its original.
LEMMA KnownUser ==
    ASSUME NEW s \in Snapshot, NEW k, User(k) \in Known(s)
    PROVE  s.original = User(k)
<1>1. s.installed \in {Ours(v) : v \in Versions} /\ s.recoverable \subseteq {Ours(v) : v \in Versions}
  BY DEF Snapshot
<1>2. User(k) \notin {Ours(v) : v \in Versions}
  BY ByFacts
<1> QED BY <1>1, <1>2 DEF Known

LEMMA KnownAccepts ==
    ASSUME NEW s, NEW f, f # Absent
    PROVE  Accepts(s, f) <=> f.content \in Known(s)
  BY DEF Accepts, Known

\* A write of the journal goes on.
LEMMA JournalMove ==
    ASSUME NEW r, ProcOK(r), r.at \in SavePhases, r.w.step # "return",
           NEW j, JournalAt(r, r.w.step, r.w.temp, r.w.ok, j),
           NEW step, NEW temp, NEW ok, NEW undone, NEW f, NEW l,
           Moves(r, j, step, temp, ok, undone, f, l)
    PROVE  /\ JournalAt(r, step, temp, ok, f) /\ f \in {r.journal, NewFile(r)}
           /\ step = "return" /\ ~ok => f = r.journal \/ (r.w.step = "unlink" /\ r.w.ok)
<1>1. r.w.expected = r.journal /\ Moved(r)
  BY DEF ProcOK, PhaseOK, SaveOK, Moved
<1>2. r.w.new = Absent => NewFile(r) = Absent
  BY NewFileOK
<1>3. r.w.new # Absent => NewFile(r) # Absent /\ NewFile(r) = Staged(r)
  BY NewFileOK
<1>4. /\ r.w.step \in {"check", "swap"} => j = r.journal
      /\ r.w.step = "swap" => r.w.temp = NewFile(r)
      /\ r.w.step \in {"compare", "parent", "back"} => j = NewFile(r) /\ r.w.temp = r.journal
      /\ r.w.step = "recheck" => j = r.journal /\ r.w.temp = NewFile(r) /\ r.w.new # Absent
      /\ r.w.step \notin {"undo", "forward"}
      /\ r.w.step = "unlink" => j = IF r.w.ok THEN NewFile(r) ELSE r.journal
      /\ r.w.step = "unlink" => r.w.temp = IF r.w.ok THEN r.journal ELSE NewFile(r)
  BY DEF JournalAt
<1>a. CASE CheckMove(r, j, step, temp, ok, undone, f, l)
  BY <1>1, <1>4, <1>a DEF CheckMove, JournalAt
<1>b. CASE SwapMove(r, j, step, temp, ok, undone, f, l)
  BY <1>1, <1>2, <1>3, <1>4, <1>b DEF SwapMove, JournalAt
<1>c. CASE CompareMove(r, j, step, temp, ok, undone, f, l)
  BY <1>1, <1>4, <1>c DEF CompareMove, JournalAt
<1>e. CASE VerifyMove(r, j, step, temp, ok, undone, f, l)
  BY <1>1, <1>4, <1>e DEF VerifyMove, JournalAt
<1>f. CASE BackMove(r, j, step, temp, ok, undone, f, l)
  BY <1>1, <1>2, <1>3, <1>4, <1>f DEF BackMove, JournalAt
<1>g. CASE RecheckMove(r, j, step, temp, ok, undone, f, l)
  BY <1>1, <1>3, <1>4, <1>g DEF RecheckMove, JournalAt
<1>i. CASE UnlinkMove(r, j, step, temp, ok, undone, f, l)
  BY <1>1, <1>4, <1>i DEF UnlinkMove, JournalAt
<1>j. ~UndoMove(r, j, step, temp, ok, undone, f, l) /\ ~ForwardMove(r, j, step, temp, ok, undone, f, l)
  BY <1>4 DEF UndoMove, ForwardMove
<1> QED BY <1>a, <1>b, <1>c, <1>e, <1>f, <1>g, <1>i, <1>j DEF Moves

\* What a move of a write of a client's file keeps.
ClientMoved(r, T, step, temp, ok, f, ch) ==
    /\ WriteSeenAt(r, step, temp, f, ch) /\ KnownOurs(r.recovery[r.w.target], f)
    /\ PassedAt(r, r.w.target, step, ok) /\ r.at = "commit" =>
          f = NewFile(r) \/ (f = T /\ Passed(r, r.w.target))

\* A write of a client's file goes on.
LEMMA ClientMove ==
    ASSUME NEW r, ProcOK(r), r.at \in ClientPhases, r.w.step # "return", NEW ch,
           NEW T, WriteSeen(r, T, ch), KnownOurs(r.recovery[r.w.target], T),
           NEW step, NEW temp, NEW ok, NEW undone, NEW f, NEW l,
           Moves(r, T, step, temp, ok, undone, f, l)
    PROVE  ClientMoved(r, T, step, temp, ok, f, ch)
<1> SUFFICES /\ WriteSeenAt(r, step, temp, f, ch) /\ KnownOurs(r.recovery[r.w.target], f)
             /\ PassedAt(r, r.w.target, step, ok) /\ r.at = "commit" =>
                   f = NewFile(r) \/ (f = T /\ Passed(r, r.w.target))
  BY DEF ClientMoved
<1> DEFINE c == r.w.target  s == r.recovery[c]
<1>1. /\ Moved(r) /\ c \in DOMAIN r.plans /\ PlanOK(r, c)
      /\ KnownFile(s, r.w.expected)
      /\ r.at = "commit" => r.w.new = Goal(r, c)
      /\ r.at = "rollback" => r.w.new = ContentOf(r.plans[c].expected)
  <2>1. r.at \notin Resting
    BY DEF ClientPhases, Resting
  <2> QED BY <2>1 DEF ProcOK, PhaseOK, ClientOK, PlansOK, PlanOK, Moved
<1>2. r.w.new = Absent => NewFile(r) = Absent
  BY NewFileOK
<1>3. r.w.new # Absent => NewFile(r) # Absent /\ NewFile(r) = Staged(r) /\ NewFile(r).content = r.w.new
  BY NewFileOK
<1>4. KnownFile(s, NewFile(r))
  <2>1. r.at = "commit" \/ r.at = "rollback"
    BY DEF ClientPhases
  <2>2. r.w.new # Absent => r.w.new \in Known(s)
    BY <1>1, <2>1 DEF PlanOK, KnownFile, Known, Goal, ContentOf
  <2> QED BY <1>2, <1>3, <2>2 DEF KnownFile
<1>5. \A x : KnownFile(s, x) => KnownOurs(s, x)
  BY DEF KnownFile, KnownOurs, IsOurs
<1>6. KnownOurs(s, Absent) /\ KnownOurs(s, NewFile(r)) /\ KnownOurs(s, r.w.expected) /\ KnownFile(s, r.w.expected)
  BY <1>1, <1>4, <1>5 DEF KnownOurs, IsOurs
<1>7. /\ r.w.step = "swap" => r.w.temp = NewFile(r)
      /\ r.w.step \in {"compare", "undo", "recheck", "forward"} => KnownOurs(s, r.w.temp)
      /\ r.w.step \in {"parent", "back"} => r.w.temp = r.w.expected
      /\ r.w.step = "undo" /\ r.w.new # Absent => T = Absent \/ T = Staged(r) \/ ChasedFile(c, T, ch)
      /\ r.w.step = "recheck" => r.w.new # Absent
      /\ r.w.step = "unlink" => KnownFile(s, r.w.temp) \/ ChasedFile(c, r.w.temp, ch)
  BY DEF WriteSeen, WriteSeenAt
<1>8. KnownOurs(s, T)
  OBVIOUS
<1> HIDE DEF s
<1>a. CASE CheckMove(r, T, step, temp, ok, undone, f, l)
  BY <1>8, <1>a DEF CheckMove, WriteSeenAt, PassedAt, s
<1>b. CASE SwapMove(r, T, step, temp, ok, undone, f, l)
  BY <1>2, <1>6, <1>7, <1>8, <1>b DEF SwapMove, WriteSeenAt, PassedAt, s
<1>c. CASE CompareMove(r, T, step, temp, ok, undone, f, l)
  BY <1>7, <1>8, <1>c DEF CompareMove, WriteSeenAt, PassedAt, Passed, s
<1>d. CASE UndoMove(r, T, step, temp, ok, undone, f, l)
  BY <1>3, <1>4, <1>7, <1>8, <1>d DEF UndoMove, WriteSeenAt, PassedAt, s
<1>e. CASE VerifyMove(r, T, step, temp, ok, undone, f, l)
  BY <1>6, <1>7, <1>8, <1>e DEF VerifyMove, WriteSeenAt, PassedAt, Passed, s
<1>f. CASE BackMove(r, T, step, temp, ok, undone, f, l)
  BY <1>6, <1>7, <1>8, <1>f DEF BackMove, WriteSeenAt, PassedAt, s
<1>g. CASE RecheckMove(r, T, step, temp, ok, undone, f, l)
  <2>1. r.w.temp = Staged(r) => KnownFile(s, r.w.temp) \/ r.w.new = Absent
    BY <1>3, <1>4
  <2> QED BY <1>7, <1>8, <1>g, <2>1 DEF RecheckMove, WriteSeenAt, PassedAt, s
<1>h. CASE ForwardMove(r, T, step, temp, ok, undone, f, l)
  BY <1>7, <1>8, <1>h DEF ForwardMove, WriteSeenAt, PassedAt, s
<1>i. CASE UnlinkMove(r, T, step, temp, ok, undone, f, l)
  BY <1>7, <1>8, <1>i DEF UnlinkMove, WriteSeenAt, PassedAt, Passed, s
<1> QED BY <1>a, <1>b, <1>c, <1>d, <1>e, <1>f, <1>g, <1>h, <1>i DEF Moves, s

----------------------------------------------------------------------------
(* A write of the journal.                                                 *)

\* What a save writes.
LEMMA NewState ==
    ASSUME NEW r, ProcOK(r), r.at \in SavePhases
    PROVE  StateOf(NewFile(r)) = IF r.at = "final" THEN r.state ELSE r.recovery
<1> DEFINE s == IF r.at = "final" THEN r.state ELSE r.recovery
<1>1. s \in States /\ r.w.new = AsContent(s)
  BY DEF ProcOK, PhaseOK, SaveOK, ProcRecs
<1>2. s # Absent
  BY <1>1, AbsentFacts
<1> HIDE DEF s
<1>3. StateOf(NewFile(r)) = s
  <2>1. CASE s = EmptyState
    BY <1>1, <2>1, NewFileOK DEF AsContent, StateOf
  <2>2. CASE s # EmptyState
    BY <1>1, <1>2, <2>2, NewFileOK DEF AsContent, StateOf
  <2> QED BY <2>1, <2>2
<1> QED BY <1>3 DEF s

LEMMA JournalIs ==
    ASSUME NEW r, NEW step, step \in WriteSteps, NEW temp, NEW ok, NEW j, JournalAt(r, step, temp, ok, j)
    PROVE  j \in {r.journal, NewFile(r)}
  BY DEF JournalAt, WriteSteps, StepNames

\* A snapshot that knows no less accepts no less.
LEMMA KnowsMore ==
    ASSUME NEW s, NEW n, Known(s) \subseteq Known(n), NEW f, f # Absent, Accepts(s, f)
    PROVE  Accepts(n, f)
  BY KnownAccepts

\* The fields of a command that its write leaves alone.
LEMMA WritingKeepsPlans ==
    ASSUME NEW z, NEW r, NEW v, Writing(z, r, v), v.target = r.w.target, v.new = r.w.new,
           v.expected = r.w.expected, NEW c
    PROVE  /\ NewFile(z) = NewFile(r) /\ Staged(z) = Staged(r) /\ Goal(z, c) = Goal(r, c)
           /\ \A step, temp, ok, j : JournalAt(r, step, temp, ok, j) => JournalAt(z, step, temp, ok, j)
           /\ \A step, temp, f, ch : WriteSeenAt(r, step, temp, f, ch) => WriteSeenAt(z, step, temp, f, ch)
           /\ \A step, ok : PassedAt(z, c, step, ok) <=> PassedAt(r, c, step, ok)
           /\ \A fc, ow : Done(r, c, fc, ow) <=> Done(z, c, fc, ow)
           /\ \A fc, lk : PlanCore(r, c, fc, lk) <=> PlanCore(z, c, fc, lk)
           /\ \A fc : Untouched(r, c, fc) <=> Untouched(z, c, fc)
           /\ JournalSays(r) <=> JournalSays(z)
<1>1. /\ z.w = v
      /\ z.at = r.at /\ z.cmd = r.cmd /\ z.run = r.run
      /\ z.directory = r.directory
      /\ z.journal = r.journal /\ z.state = r.state /\ z.recovery = r.recovery
      /\ z.plans = r.plans /\ z.todo = r.todo
  BY DEF Writing
<1>2. NewFile(z) = NewFile(r) /\ Staged(z) = Staged(r) /\ Goal(z, c) = Goal(r, c)
  BY <1>1 DEF NewFile, Staged, Goal
<1>3. \A step, temp, ok, j : JournalAt(r, step, temp, ok, j) => JournalAt(z, step, temp, ok, j)
  BY <1>1, <1>2 DEF JournalAt
<1>4. \A step, temp, f, ch : WriteSeenAt(r, step, temp, f, ch) => WriteSeenAt(z, step, temp, f, ch)
  BY <1>1, <1>2 DEF WriteSeenAt
<1>5. \A step, ok : PassedAt(z, c, step, ok) <=> PassedAt(r, c, step, ok)
  BY <1>1 DEF PassedAt
<1>6. \A fc, ow : Done(r, c, fc, ow) <=> Done(z, c, fc, ow)
  BY <1>1, <1>2 DEF Done
<1>7. \A fc, lk : PlanCore(r, c, fc, lk) <=> PlanCore(z, c, fc, lk)
  BY <1>1 DEF PlanCore
<1>8. \A fc : Untouched(r, c, fc) <=> Untouched(z, c, fc)
  BY <1>1 DEF Untouched
<1>9. JournalSays(r) <=> JournalSays(z)
  BY <1>1 DEF JournalSays
<1> QED BY <1>2, <1>3, <1>4, <1>5, <1>6, <1>7, <1>8, <1>9

\* A target's files stay when another target is written.
LEMMA OtherTarget ==
    ASSUME Typed, NEW t, NEW d, NEW f, Holds(t, d, f), NEW t2 \in Targets, t2 # t
    PROVE  file'[t2] = file[t2]
<1>1. \A d2 \in Dirs : file'[t2][d2] = file[t2][d2]
  BY DEF Holds
<1>2. file[t2] \in [Dirs -> AnyFile] /\ file'[t2] \in [Dirs -> AnyFile]
  BY DEF Holds, Typed
<1> QED BY <1>1, <1>2

LEMMA SameFile ==
    ASSUME Typed, NEW t \in Targets, NEW d, Holds(t, d, file[t][d])
    PROVE  file'[t] = file[t]
<1>1. \A d2 \in Dirs : file'[t][d2] = file[t][d2]
  BY DEF Holds
<1>2. file[t] \in [Dirs -> AnyFile] /\ file'[t] \in [Dirs -> AnyFile]
  BY DEF Holds, Typed
<1> QED BY <1>1, <1>2

\* A step of a save keeps what the command knows.
LEMMA JournalTurn ==
    ASSUME Typed, NEW p \in Procs, proc[p].at \in SavePhases,
           NEW step, NEW temp, NEW ok, NEW undone, NEW f, NEW l,
           Moves(proc[p], Target(proc[p].w), step, temp, ok, undone, f, l),
           Turn(p, step, temp, ok, undone, f, l),
           Accounts(file, looked, owed, chased, proc[p])
    PROVE  Accounts(file', looked', owed', chased', proc'[p])
<1> DEFINE r == proc[p]  z == proc'[p]  j == file[Journal][r.directory]
<1>1. /\ Writing(z, r, z.w) /\ WriteAt(z.w, r.w, step, temp, ok, undone)
      /\ Holds(r.w.target, r.w.parent, f) /\ UNCHANGED <<looked, owed, chased>>
  BY DEF Turn, Turned, userVars, historyVars
<1>2. ProcOK(r) /\ r.w.step \in WriteSteps /\ r.w.step # "return" /\ r.w.target = Journal /\ r.w.parent = r.directory
  <2>1. r.w.step # "return"
    BY DEF Moves, CheckMove, SwapMove, CompareMove, UndoMove, VerifyMove, BackMove, RecheckMove, ForwardMove, UnlinkMove
  <2>2. ProcOK(r)
    BY DEF Typed
  <2> QED BY <2>1, <2>2 DEF ProcOK, PhaseOK, SaveOK
<1>3. r.directory \in Dirs /\ Target(r.w) = j
  BY <1>2 DEF ProcOK, ProcRecs, Target
<1>4. JournalAt(r, r.w.step, r.w.temp, r.w.ok, j)
  BY DEF Accounts, JournalSeen
<1>5. /\ JournalAt(r, step, temp, ok, f)
      /\ step = "return" /\ ~ok => f = r.journal \/ (r.w.step = "unlink" /\ r.w.ok)
  BY <1>2, <1>3, <1>4, JournalMove
<1>a. /\ z.w.target = r.w.target /\ z.w.new = r.w.new /\ z.w.expected = r.w.expected
      /\ z.w.step = step /\ z.w.temp = temp /\ z.w.ok = ok
  BY <1>1 DEF WriteAt
<1>b. /\ z.at = r.at /\ z.directory = r.directory /\ z.plans = r.plans /\ z.journal = r.journal
      /\ z.recovery = r.recovery /\ z.todo = r.todo
  BY <1>1 DEF Writing
<1>6. JournalSeen(z, file'[Journal][z.directory])
  <2>1. JournalAt(z, step, temp, ok, f)
    BY <1>1, <1>a, <1>5, WritingKeepsPlans
  <2>2. file'[Journal][z.directory] = f
    BY <1>1, <1>2, <1>b DEF Holds
  <2>3. z.w.step = "return" /\ ~z.w.ok /\ ~z.w.late => f = z.journal
    BY <1>1, <1>5, <1>a, <1>b DEF WriteAt
  <2> QED BY <1>a, <1>b, <2>1, <2>2, <2>3 DEF JournalSeen, SavePhases
<1>7. JournalSays(z)
  BY <1>1, <1>a, WritingKeepsPlans DEF Accounts
<1>8. \A c \in Clients : file'[c] = file[c]
  BY <1>1, <1>2, TargetFacts, OtherTarget
<1>9. ASSUME NEW c \in DOMAIN r.plans  PROVE PlanSeen(z, c, file'[c], looked[c], owed)
  <2>1. PlanSeen(r, c, file[c], looked[c], owed)
    BY DEF Accounts, SavePhases, Resting
  <2>2. c \in Clients
    BY <1>2, PlanFacts DEF ProcOK, ProcRecs
  <2>3. Passed(z, c) => Passed(r, c)
    BY <1>b DEF Passed, PassedAt, SavePhases
  <2>4. PlanCore(r, c, file[c], looked[c]) => PlanCore(z, c, file[c], looked[c])
    BY <1>1, <1>a, WritingKeepsPlans
  <2>5. Untouched(r, c, file[c]) => Untouched(z, c, file[c])
    BY <1>1, <1>a, WritingKeepsPlans
  <2>6. Done(r, c, file[c], owed) => Done(z, c, file[c], owed)
    BY <1>1, <1>a, WritingKeepsPlans
  <2> QED BY <1>8, <1>b, <2>1, <2>2, <2>3, <2>4, <2>5, <2>6 DEF PlanSeen
<1>10. ASSUME NEW c \in Clients, r.at = "journal"  PROVE CoveredBefore(file', z, c, looked[c])
  <2>1. CoveredBefore(file, r, c, looked[c])
    BY <1>10 DEF Accounts
  <2>2. \A d \in Dirs \ {r.directory} : file'[Journal][d] = file[Journal][d]
    BY <1>1, <1>2, TargetFacts DEF Holds
  <2> QED BY <1>8, <1>b, <2>1, <2>2 DEF CoveredBefore
<1> QED BY <1>1, <1>6, <1>7, <1>9, <1>10, <1>b DEF Accounts, SavePhases, ClientPhases

\* What a journal answers for, before and after a save, another answers for.
LEMMA JournalTurnCovers ==
    ASSUME Typed, NEW p \in Procs, proc[p].at \in SavePhases,
           NEW step, NEW temp, NEW ok, NEW undone, NEW f, NEW l,
           Moves(proc[p], Target(proc[p].w), step, temp, ok, undone, f, l),
           Turn(p, step, temp, ok, undone, f, l),
           Accounts(file, looked, owed, chased, proc[p]),
           NEW c \in Clients, Covered(file, c, looked[c])
    PROVE  Covered(file', c, looked[c])
<1> DEFINE r == proc[p]  T == file[Journal][r.directory]  x == file[c][looked[c]]
<1> SUFFICES ASSUME looked[c] # 0, IsOurs(file'[c][looked[c]])
             PROVE  \E d \in Dirs : CoveredBy(c, StateOf(file'[Journal][d]), file'[c][looked[c]])
  BY DEF Covered
<1>1. Holds(r.w.target, r.w.parent, f)
  BY DEF Turn
<1>2. ProcOK(r) /\ r.w.step \in WriteSteps /\ r.w.step # "return" /\ r.w.target = Journal /\ r.w.parent = r.directory
  <2>1. r.w.step # "return"
    BY DEF Moves, CheckMove, SwapMove, CompareMove, UndoMove, VerifyMove, BackMove, RecheckMove, ForwardMove, UnlinkMove
  <2>2. ProcOK(r)
    BY DEF Typed
  <2> QED BY <2>1, <2>2 DEF ProcOK, PhaseOK, SaveOK
<1>3. r.directory \in Dirs /\ Target(r.w) = T /\ Journal \in Targets
  BY <1>2, TargetFacts DEF ProcOK, ProcRecs, Target
<1>4. JournalAt(r, r.w.step, r.w.temp, r.w.ok, T)
  BY DEF Accounts, JournalSeen
<1>5. f \in {r.journal, NewFile(r)} /\ T \in {r.journal, NewFile(r)}
  BY <1>2, <1>3, <1>4, JournalMove, JournalIs
<1>a. c \in Targets /\ c # r.w.target
  BY <1>2, TargetFacts
<1>b. file'[c] = file[c]
  BY <1>1, <1>a, OtherTarget
<1>6. /\ file'[Journal][r.directory] = f /\ file'[c] = file[c]
      /\ \A d \in Dirs \ {r.directory} : file'[Journal][d] = file[Journal][d]
  BY <1>1, <1>2, <1>3, <1>b DEF Holds
<1>7. IsOurs(x) /\ file'[c][looked[c]] = x /\ x # Absent
  BY <1>6 DEF IsOurs
<1>8. StateOf(NewFile(r)) = IF r.at = "final" THEN r.state ELSE r.recovery
  BY <1>2, NewState
<1>9. JournalSays(r)
  BY DEF Accounts
<1>10. \E d \in Dirs : CoveredBy(c, StateOf(file[Journal][d]), x)
  BY <1>7 DEF Covered
<1>11. CoveredBy(c, StateOf(f), x) \/ \E d \in Dirs \ {r.directory} : CoveredBy(c, StateOf(file[Journal][d]), x)
  <2>1. CASE r.at = "journal"
    <3>1. CoveredBefore(file, r, c, looked[c])
      BY <2>1 DEF Accounts
    <3>2. ASSUME CoveredBy(c, StateOf(r.journal), x)  PROVE CoveredBy(c, StateOf(f), x)
      <4>1. CASE f = r.journal
        BY <3>2, <4>1
      <4>2. CASE f = NewFile(r)
        <5>1. StateOf(f) = r.recovery /\ Extends(StateOf(r.journal), r.recovery, DOMAIN r.plans)
          BY <1>8, <1>9, <2>1, <4>2 DEF JournalSays
        <5>2. /\ c \in DOMAIN StateOf(r.journal) /\ Accepts(StateOf(r.journal)[c], x)
              /\ c \in DOMAIN r.recovery /\ Known(StateOf(r.journal)[c]) \subseteq Known(r.recovery[c])
          BY <3>2, <5>1 DEF CoveredBy, Extends
        <5> QED BY <1>7, <5>1, <5>2, KnowsMore DEF CoveredBy
      <4> QED BY <1>5, <4>1, <4>2
    <3> QED BY <1>7, <3>1, <3>2 DEF CoveredBefore
  <2>2. CASE r.at = "rejournal"
    <3>1. StateOf(f) = StateOf(T)
      BY <1>5, <1>8, <1>9, <2>2 DEF JournalSays
    <3> QED BY <1>10, <3>1
  <2>3. CASE r.at = "final"
    <3>1. StateOf(r.journal) = r.recovery /\ StateOf(NewFile(r)) = r.state
      BY <1>8, <1>9, <2>3 DEF JournalSays
    <3>2. Follows(r.state, r.recovery, DOMAIN r.plans, r.cmd = "setup") /\ r.todo = {}
      BY <1>2, <2>3 DEF ProcOK, PhaseOK, StateOK
    <3>3. CASE c \in DOMAIN r.plans
      <4>1. PlanSeen(r, c, file[c], looked[c], owed) /\ PlanOK(r, c)
        BY <1>2, <2>3, <3>3 DEF Accounts, Resting, ProcOK, PhaseOK, PlansOK
      <4>2. Passed(r, c)
        BY <2>3, <3>2 DEF Passed, PassedAt
      <4>3. looked[c] = r.plans[c].parent /\ x.content = Goal(r, c)
        BY <1>7, <4>1, <4>2 DEF PlanSeen, PlanCore, Done
      <4>4. r.cmd = "setup"
        <5>1. r.cmd # "setup" => r.recovery[c].original \notin {Ours(v) : v \in Versions}
          BY <4>1 DEF PlanSeen, PlanCore
        <5>2. r.cmd # "setup" => x.content = r.recovery[c].original
          BY <4>1, <4>3 DEF Goal, PlanOK
        <5>3. x.content \in {Ours(v) : v \in Versions}
          <6>1. x \in ClientFiles \cup {Absent}
            BY <4>3, FileAt, TargetFacts, PlanFacts, <1>2, <3>3 DEF ProcOK, ProcRecs, Plans
          <6> QED BY <1>7, <6>1, ByFacts DEF IsOurs, ClientFiles
        <5> QED BY <5>1, <5>2, <5>3
      <4>5. /\ c \in DOMAIN r.recovery /\ x.content = r.recovery[c].installed
            /\ c \in DOMAIN r.state /\ x.content = r.state[c].installed
        BY <3>2, <4>1, <4>3, <4>4 DEF Follows, Goal, PlanOK
      <4>6. CoveredBy(c, r.recovery, x) /\ CoveredBy(c, r.state, x)
        BY <1>7, <4>5 DEF CoveredBy, Accepts
      <4> QED BY <1>5, <3>1, <4>6
    <3>4. CASE c \notin DOMAIN r.plans
      <4>1. CoveredBy(c, r.recovery, x) <=> CoveredBy(c, r.state, x)
        BY <3>2, <3>4 DEF CoveredBy, Follows
      <4>2. CoveredBy(c, StateOf(T), x) => CoveredBy(c, StateOf(f), x)
        BY <1>5, <3>1, <4>1
      <4> QED BY <1>10, <4>2
    <3> QED BY <3>3, <3>4
  <2> QED BY <2>1, <2>2, <2>3 DEF SavePhases
<1> QED BY <1>3, <1>6, <1>7, <1>11

----------------------------------------------------------------------------
(* A write of a client's file.                                             *)

\* What a step of a write of a client's file finds and leaves.
ClientWrites(p, step, temp, ok, f) ==
    LET r == proc[p]  c == r.w.target IN
    /\ ProcOK(r) /\ c \in DOMAIN r.plans /\ c \in Clients /\ r.w.step \in WriteSteps \ {"return"}
    /\ PlanOK(r, c) /\ r.w.parent = r.plans[c].parent /\ r.w.parent \in Dirs
    /\ Target(r.w) = ClientFile(file, r, c) /\ file'[c][r.plans[c].parent] = f
    /\ PlanSeen(r, c, file[c], looked[c], owed)
    /\ WriteSeenAt(r, step, temp, f, chased) /\ KnownOurs(r.recovery[c], f)
    /\ PassedAt(r, c, step, ok) /\ r.at = "commit" =>
          f = NewFile(r) \/ (f = Target(r.w) /\ Passed(r, c))
    /\ \A t \in Targets : t # c => file'[t] = file[t]
    /\ Journal # c /\ r.directory \in Dirs /\ r.journal = file[Journal][r.directory]
    /\ StateOf(r.journal) = r.recovery

\* A step of a write of a client's file, from what the command knows.
LEMMA ClientWriteFacts ==
    ASSUME Typed, NEW p \in Procs, proc[p].at \in ClientPhases,
           NEW step, NEW temp, NEW ok, NEW undone, NEW f, NEW l,
           Moves(proc[p], Target(proc[p].w), step, temp, ok, undone, f, l),
           Turn(p, step, temp, ok, undone, f, l),
           Accounts(file, looked, owed, chased, proc[p])
    PROVE  ClientWrites(p, step, temp, ok, f)
<1> DEFINE r == proc[p]  c == r.w.target  T == Target(r.w)
<1>1. ProcOK(r)
  BY DEF Typed
<1>2. r.w.step # "return"
  BY DEF Moves, CheckMove, SwapMove, CompareMove, UndoMove, VerifyMove, BackMove, RecheckMove, ForwardMove, UnlinkMove
<1>3. r.at \notin Resting /\ r.directory \in Dirs
  BY <1>1 DEF ClientPhases, Resting, ProcOK, ProcRecs
<1>4. c \in DOMAIN r.plans /\ r.w.step \in WriteSteps /\ r.w.parent = r.plans[c].parent
  BY <1>1, <1>2 DEF ProcOK, PhaseOK, ClientOK
<1>5. PlanOK(r, c) /\ c \in Clients /\ c \in Targets /\ c # Journal /\ r.plans[c].parent \in Dirs
  BY <1>1, <1>3, <1>4, PlanFacts, TargetFacts DEF ProcOK, PhaseOK, PlansOK, ProcRecs, Plans
<1>6. T = ClientFile(file, r, c)
  BY <1>4 DEF Target, ClientFile
<1>7. PlanSeen(r, c, file[c], looked[c], owed) /\ WriteSeen(r, T, chased)
  BY <1>3, <1>4, <1>6 DEF Accounts
<1>8. KnownOurs(r.recovery[c], T)
  BY <1>6, <1>7 DEF PlanSeen, PlanCore, ClientFile
<1>9. /\ WriteSeenAt(r, step, temp, f, chased) /\ KnownOurs(r.recovery[c], f)
      /\ PassedAt(r, c, step, ok) /\ r.at = "commit" => f = NewFile(r) \/ (f = T /\ Passed(r, c))
  <2>1. ClientMoved(r, T, step, temp, ok, f, chased)
    BY <1>1, <1>2, <1>7, <1>8, ClientMove
  <2> QED BY <2>1 DEF ClientMoved
<1>10. Holds(c, r.w.parent, f)
  BY DEF Turn
<1>11. file'[c][r.plans[c].parent] = f
  BY <1>4, <1>10 DEF Holds
<1>13. \A t \in Targets : t # c => file'[t] = file[t]
  BY <1>10, OtherTarget
<1>12. r.journal = file[Journal][r.directory] /\ StateOf(r.journal) = r.recovery
  BY DEF Accounts, JournalSeen, JournalSays, ClientPhases
<1> QED BY <1>1, <1>2, <1>3, <1>4, <1>5, <1>6, <1>7, <1>9, <1>11, <1>12, <1>13 DEF ClientWrites

\* A step of a write of a client's file keeps what the command knows.
LEMMA ClientTurn ==
    ASSUME Typed, NEW p \in Procs, proc[p].at \in ClientPhases,
           NEW step, NEW temp, NEW ok, NEW undone, NEW f, NEW l,
           Moves(proc[p], Target(proc[p].w), step, temp, ok, undone, f, l),
           Turn(p, step, temp, ok, undone, f, l),
           Accounts(file, looked, owed, chased, proc[p])
    PROVE  Accounts(file', looked', owed', chased', proc'[p])
<1> DEFINE r == proc[p]  z == proc'[p]  c == r.w.target
<1>1. /\ Writing(z, r, z.w) /\ WriteAt(z.w, r.w, step, temp, ok, undone)
      /\ UNCHANGED <<looked, owed, chased>>
  BY DEF Turn, Turned, userVars, historyVars
<1>0. ClientWrites(p, step, temp, ok, f)
  BY ClientWriteFacts
<1>2. /\ ProcOK(r) /\ c \in DOMAIN r.plans /\ PlanOK(r, c)
      /\ Target(r.w) = ClientFile(file, r, c) /\ file'[c][r.plans[c].parent] = f
      /\ PlanSeen(r, c, file[c], looked[c], owed)
      /\ WriteSeenAt(r, step, temp, f, chased) /\ KnownOurs(r.recovery[c], f)
      /\ PassedAt(r, c, step, ok) /\ r.at = "commit" => f = NewFile(r) \/ (f = Target(r.w) /\ Passed(r, c))
      /\ \A t \in Targets : t # c => file'[t] = file[t]
      /\ Journal # c /\ c \in Clients /\ r.w.parent = r.plans[c].parent /\ r.plans[c].parent \in Dirs
  BY <1>0 DEF ClientWrites
<1>a. /\ z.w.target = c /\ z.w.new = r.w.new /\ z.w.expected = r.w.expected
      /\ z.w.step = step /\ z.w.temp = temp /\ z.w.ok = ok
  BY <1>1 DEF WriteAt
<1>b. /\ z.at = r.at /\ z.directory = r.directory /\ z.plans = r.plans /\ z.journal = r.journal
      /\ z.recovery = r.recovery /\ z.todo = r.todo /\ z.cmd = r.cmd
  BY <1>1 DEF Writing
<1>3. JournalSeen(z, file'[Journal][z.directory])
  BY <1>2, <1>b, TargetFacts DEF Accounts, JournalSeen, ClientPhases, SavePhases
<1>4. JournalSays(z)
  BY <1>1, <1>a, WritingKeepsPlans DEF Accounts
<1>5. r.at = "commit" => c \notin r.todo
  BY DEF Accounts
<1>6. ASSUME NEW k \in DOMAIN r.plans  PROVE PlanSeen(z, k, file'[k], looked[k], owed)
  <2>1. PlanSeen(r, k, file[k], looked[k], owed) /\ k \in Clients /\ k \in Targets
    BY <1>2, PlanFacts, TargetFacts DEF Accounts, ClientPhases, Resting, ProcOK, ProcRecs
  <2>2. /\ \A fc, lk : PlanCore(r, k, fc, lk) => PlanCore(z, k, fc, lk)
        /\ \A fc : Untouched(r, k, fc) => Untouched(z, k, fc)
        /\ \A fc, ow : Done(r, k, fc, ow) => Done(z, k, fc, ow)
    BY <1>1, <1>a, WritingKeepsPlans
  <2>3. r.at # "journal" /\ z.at # "journal"
    BY <1>b DEF ClientPhases
  <2>4. CASE k # c
    <3>1. file'[k] = file[k]
      BY <1>2, <2>1, <2>4
    <3>2. Passed(z, k) => Passed(r, k)
      BY <1>a, <1>b, <2>4 DEF Passed, PassedAt
    <3> QED BY <1>b, <2>1, <2>2, <2>3, <3>1, <3>2 DEF PlanSeen
  <2>5. CASE k = c
    <3>1. PlanCore(r, c, file'[c], looked[c])
      BY <1>2 DEF PlanSeen, PlanCore
    <3>2. ASSUME Passed(z, c)  PROVE Done(r, c, file'[c], owed)
      <4>1. PassedAt(r, c, step, ok) /\ r.at = "commit"
        BY <1>a, <1>b, <3>2 DEF Passed, PassedAt, ClientPhases
      <4>2. CASE f = NewFile(r)
        <5>1. r.w.new = Goal(r, c)
          BY <1>2, <4>1 DEF ProcOK, PhaseOK, ClientOK, ClientPhases
        <5>2. f # Absent => f.content = Goal(r, c)
          BY <1>2, <4>2, <5>1, NewFileOK
        <5>3. Goal(r, c) # Absent => f # Absent
          BY <1>2, <4>2, <5>1, NewFileOK
        <5>4. \A k2 : User(k2) # Absent \/ k2 \notin 0..MaxEdits
          BY AbsentFacts DEF Contents
        <5>5. Secured(c, Goal(r, c), file'[c], owed)
          <6> SUFFICES ASSUME NEW n \in 0..MaxEdits, Goal(r, c) = User(n)
                       PROVE  \E d \in Dirs : file'[c][d] # Absent /\ file'[c][d].content = Goal(r, c)
            BY DEF Secured
          <6>1. f # Absent /\ f.content = Goal(r, c)
            BY <5>2, <5>3, <5>4
          <6> QED BY <1>2, <6>1
        <5>6. IsOurs(f) => f.content = Goal(r, c)
          BY <5>2 DEF IsOurs
        <5> QED BY <1>2, <5>5, <5>6 DEF Done
      <4>3. CASE f = Target(r.w) /\ Passed(r, c)
        <5>1. file'[c] = file[c]
          <6>1. Holds(c, r.w.parent, file[c][r.w.parent])
            BY <4>3 DEF Turn, Target
          <6> QED BY <1>2, <6>1, SameFile, TargetFacts
        <5> QED BY <1>2, <4>3, <5>1 DEF PlanSeen
      <4> QED BY <1>2, <4>1, <4>2, <4>3
    <3>3. ~(c \in z.todo /\ z.at \in {"journal", "commit"})
      BY <1>5, <1>b, <2>3
    <3> QED BY <2>2, <2>3, <2>5, <3>1, <3>2, <3>3 DEF PlanSeen
  <2> QED BY <2>4, <2>5
<1>7. WriteSeen(z, ClientFile(file', z, z.w.target), chased)
  <2>1. WriteSeenAt(z, step, temp, f, chased)
    BY <1>1, <1>2, <1>a, WritingKeepsPlans
  <2>2. ClientFile(file', z, z.w.target) = f
    BY <1>2, <1>a, <1>b DEF ClientFile
  <2> QED BY <1>a, <2>1, <2>2 DEF WriteSeen
<1> QED BY <1>1, <1>3, <1>4, <1>5, <1>6, <1>7, <1>a, <1>b DEF Accounts, ClientPhases

\* What it leaves at the client's path, the journal answers for.
LEMMA ClientTurnCovers ==
    ASSUME Typed, NEW p \in Procs, proc[p].at \in ClientPhases,
           NEW step, NEW temp, NEW ok, NEW undone, NEW f, NEW l,
           Moves(proc[p], Target(proc[p].w), step, temp, ok, undone, f, l),
           Turn(p, step, temp, ok, undone, f, l),
           Accounts(file, looked, owed, chased, proc[p]),
           NEW c \in Clients, Covered(file, c, looked[c])
    PROVE  Covered(file', c, looked[c])
<1> DEFINE r == proc[p]
<1>0. ClientWrites(p, step, temp, ok, f)
  BY ClientWriteFacts
<1>1. /\ PlanOK(r, r.w.target) /\ file'[r.w.target][r.plans[r.w.target].parent] = f
      /\ PlanSeen(r, r.w.target, file[r.w.target], looked[r.w.target], owed)
      /\ KnownOurs(r.recovery[r.w.target], f)
      /\ \A t \in Targets : t # r.w.target => file'[t] = file[t]
      /\ Journal # r.w.target /\ r.directory \in Dirs /\ r.journal = file[Journal][r.directory]
      /\ StateOf(r.journal) = r.recovery
  BY <1>0 DEF ClientWrites
<1>2. file'[Journal] = file[Journal]
  BY <1>1, TargetFacts
<1>3. CASE c # r.w.target
  <2>1. file'[c] = file[c]
    BY <1>1, <1>3, TargetFacts
  <2> QED BY <1>2, <2>1 DEF Covered
<1>4. CASE c = r.w.target
  <2> SUFFICES ASSUME looked[c] # 0, IsOurs(file'[c][looked[c]])
               PROVE  CoveredBy(c, StateOf(file'[Journal][r.directory]), file'[c][looked[c]])
    BY <1>1 DEF Covered
  <2>1. looked[c] = r.plans[c].parent
    BY <1>1, <1>4 DEF PlanSeen, PlanCore
  <2>2. file'[c][looked[c]] = f /\ IsOurs(f) /\ f # Absent
    BY <1>1, <1>4, <2>1 DEF IsOurs
  <2>3. c \in DOMAIN r.recovery /\ f.content \in Known(r.recovery[c])
    BY <1>1, <1>4, <2>2 DEF PlanOK, KnownOurs
  <2>4. CoveredBy(c, r.recovery, f)
    BY <2>2, <2>3, KnownAccepts DEF CoveredBy
  <2> QED BY <1>1, <1>2, <2>2, <2>4
<1> QED BY <1>3, <1>4

----------------------------------------------------------------------------
(* What the disk holds.                                                    *)

LEMMA OnDiskIs ==
    ASSUME NEW t, NEW x
    PROVE  x \in OnDisk(t) <=>
              /\ x # Absent
              /\ \/ \E d \in Dirs : x = file[t][d]
                 \/ \E l \in left : l[1] = t /\ x = l[2]
                 \/ \E p \in Procs : proc[p].w.target = t /\ x = proc[p].w.temp
  BY DEF OnDisk

LEMMA OnDiskNext ==
    ASSUME NEW t, NEW x
    PROVE  x \in OnDisk(t)' <=>
              /\ x # Absent
              /\ \/ \E d \in Dirs : x = file'[t][d]
                 \/ \E l \in left' : l[1] = t /\ x = l[2]
                 \/ \E p \in Procs : proc'[p].w.target = t /\ x = proc'[p].w.temp
  BY DEF OnDisk

\* An edit that stays where it is, or whose file stays in another place, is kept.
LEMMA KeptBy ==
    ASSUME NEW e, EditKept(e),
           \A x \in OnDisk(e[1]) : x.content = User(e[2]) => x \in OnDisk(e[1])' \/ EditKept(e)',
           \A x \in OnDisk(Journal) :
              e[1] \in DOMAIN x.content /\ x.content[e[1]].original = User(e[2]) => x \in OnDisk(Journal)' \/ EditKept(e)'
    PROVE  EditKept(e)'
<1>1. \A x \in OnDisk(e[1])' : x.content = User(e[2]) => EditKept(e)'
  BY DEF EditKept
<1>2. \A x \in OnDisk(Journal)' :
        e[1] \in DOMAIN x.content /\ x.content[e[1]].original = User(e[2]) => EditKept(e)'
  BY DEF EditKept
<1> QED BY <1>1, <1>2 DEF EditKept

\* What a write takes from its target or held before is there, held, or left behind,
\* unless it was the temporary file of a write that returns.
LEMMA MoveKeeps ==
    ASSUME NEW r, WriteOK(r.w), r.w.step = "swap" => r.w.temp = NewFile(r),
           NEW T, NEW step, NEW temp, NEW ok, NEW undone, NEW f, NEW l,
           Moves(r, T, step, temp, ok, undone, f, l)
    PROVE  /\ T \in {f, temp, l, Absent}
           /\ \/ r.w.temp \in {f, temp, l, Absent}
              \/ r.w.step \in {"unlink", "swap"} /\ f = T
           /\ r.w.step = "swap" /\ r.w.temp # f => r.w.temp = NewFile(r) /\ f = T /\ ~ok
<1>1. r.w.step = "check" => r.w.temp = Absent
  BY DEF WriteOK
<1>2. r.w.new = Absent => NewFile(r) = Absent
  BY DEF NewFile
<1>a. CASE CheckMove(r, T, step, temp, ok, undone, f, l)
  BY <1>1, <1>a DEF CheckMove
<1>b. CASE SwapMove(r, T, step, temp, ok, undone, f, l)
  BY <1>2, <1>b DEF SwapMove
<1>c. CASE CompareMove(r, T, step, temp, ok, undone, f, l)
  BY <1>c DEF CompareMove
<1>d. CASE UndoMove(r, T, step, temp, ok, undone, f, l)
  BY <1>d DEF UndoMove
<1>e. CASE VerifyMove(r, T, step, temp, ok, undone, f, l)
  BY <1>e DEF VerifyMove
<1>f. CASE BackMove(r, T, step, temp, ok, undone, f, l)
  BY <1>f DEF BackMove
<1>g. CASE RecheckMove(r, T, step, temp, ok, undone, f, l)
  BY <1>g DEF RecheckMove
<1>h. CASE ForwardMove(r, T, step, temp, ok, undone, f, l)
  BY <1>h DEF ForwardMove
<1>i. CASE UnlinkMove(r, T, step, temp, ok, undone, f, l)
  BY <1>i DEF UnlinkMove
<1> QED BY <1>a, <1>b, <1>c, <1>d, <1>e, <1>f, <1>g, <1>h, <1>i DEF Moves

\* What leaves the disk at a step of a write is the temporary file of one that ends.
LEMMA TurnDisk ==
    ASSUME Typed, NEW p \in Procs, proc[p].w.step = "swap" => proc[p].w.temp = NewFile(proc[p]),
           NEW step, NEW temp, NEW ok, NEW undone, NEW f, NEW l,
           Moves(proc[p], Target(proc[p].w), step, temp, ok, undone, f, l),
           Turn(p, step, temp, ok, undone, f, l),
           NEW t \in Targets, NEW x \in OnDisk(t)
    PROVE  \/ x \in OnDisk(t)'
           \/ /\ t = proc[p].w.target /\ x = proc[p].w.temp /\ f = Target(proc[p].w)
              /\ \/ proc[p].w.step = "unlink"
                 \/ proc[p].w.step = "swap" /\ x = NewFile(proc[p])
<1> DEFINE r == proc[p]  w == r.w  T == Target(w)
<1>1. ProcOK(r) /\ w.target \in Targets /\ w.parent \in Dirs /\ r.w.step # "return"
  BY WriteTyped DEF Typed, Moves, CheckMove, SwapMove, CompareMove, UndoMove, VerifyMove, BackMove, RecheckMove, ForwardMove, UnlinkMove
<1>2. /\ T \in {f, temp, l, Absent}
      /\ \/ w.temp \in {f, temp, l, Absent}
         \/ w.step \in {"unlink", "swap"} /\ f = T
      /\ w.step = "swap" /\ w.temp # f => w.temp = NewFile(r) /\ f = T
  BY <1>1, MoveKeeps DEF ProcOK
<1>3. /\ Holds(w.target, w.parent, f) /\ proc'[p].w.temp = temp /\ proc'[p].w.target = w.target
      /\ \A q \in Procs : q # p => proc'[q] = proc[q]
      /\ left' = IF l = Absent THEN left ELSE left \cup {<<w.target, l>>}
  BY DEF Turn, Turned, WriteAt
<1>4. x # Absent
  BY OnDiskIs
<1>5. ASSUME x \in {f, temp, l}, t = w.target  PROVE x \in OnDisk(t)'
  <2>1. CASE x = f
    <3>1. file'[t][w.parent] = x
      BY <1>3, <1>5, <2>1 DEF Holds
    <3> QED BY <1>1, <1>4, <3>1, OnDiskNext
  <2>2. CASE x = temp
    BY <1>3, <1>4, <1>5, <2>2, OnDiskNext
  <2>3. CASE x = l
    <3>1. <<w.target, l>> \in left'
      BY <1>3, <1>4, <2>3
    <3>2. <<w.target, l>>[1] = t /\ <<w.target, l>>[2] = x
      BY <1>5, <2>3
    <3> QED BY <1>4, <3>1, <3>2, OnDiskNext
  <2> QED BY <1>5, <2>1, <2>2, <2>3
<1>6. ASSUME NEW d \in Dirs, x = file[t][d]  PROVE x \in OnDisk(t)'
  <2>1. CASE t = w.target /\ d = w.parent
    <3>1. x = T
      BY <1>6, <2>1 DEF Target
    <3> QED BY <1>2, <1>4, <1>5, <2>1, <3>1
  <2>2. CASE ~(t = w.target /\ d = w.parent)
    <3>1. file'[t][d] = x
      BY <1>3, <1>6, <2>2 DEF Holds
    <3> QED BY <1>4, <3>1, OnDiskNext
  <2> QED BY <2>1, <2>2
<1>7. ASSUME NEW k \in left, k[1] = t, x = k[2]  PROVE x \in OnDisk(t)'
  <2>1. k \in left'
    BY <1>3, <1>7
  <2> QED BY <1>4, <1>7, <2>1, OnDiskNext
<1>8. ASSUME NEW q \in Procs, q # p, proc[q].w.target = t, x = proc[q].w.temp  PROVE x \in OnDisk(t)'
  BY <1>3, <1>4, <1>8, OnDiskNext
<1>9. ASSUME w.target = t, x = w.temp, x \notin {f, temp, l}
      PROVE  f = T /\ (w.step = "unlink" \/ (w.step = "swap" /\ x = NewFile(r)))
  BY <1>2, <1>4, <1>9
<1> QED BY <1>5, <1>6, <1>7, <1>8, <1>9, OnDiskIs

\* What no step takes away from the disk.
LEMMA GrowsKeeps ==
    ASSUME NEW e, EditKept(e), \A t \in {e[1], Journal} : OnDisk(t) \subseteq OnDisk(t)'
    PROVE  EditKept(e)'
<1>1. OnDisk(e[1]) \subseteq OnDisk(e[1])' /\ OnDisk(Journal) \subseteq OnDisk(Journal)'
  OBVIOUS
<1> QED BY <1>1, KeptBy

----------------------------------------------------------------------------
(* A write keeps the user's edits.                                         *)

PlansSeen(r, fs, lk, ow) == \A c \in DOMAIN r.plans : PlanSeen(r, c, fs[c], lk[c], ow)

\* A user's original that the journal knew before a save or is to know after it is in
\* the journal that stays, or in the client's file.
LEMMA JournalKeeps ==
    ASSUME NEW r, ProcOK(r), r.at \in SavePhases, JournalSays(r), NEW fs, NEW lk, NEW ow,
           PlansSeen(r, fs, lk, ow),
           NEW x \in {r.journal, NewFile(r)}, NEW y \in {r.journal, NewFile(r)},
           NEW c, NEW k \in 0..MaxEdits, <<c, k>> \in ow,
           c \in DOMAIN StateOf(x), StateOf(x)[c].original = User(k)
    PROVE  \/ c \in DOMAIN StateOf(y) /\ StateOf(y)[c].original = User(k)
           \/ \E d \in Dirs : fs[c][d] # Absent /\ fs[c][d].content = User(k)
<1>1. StateOf(NewFile(r)) = IF r.at = "final" THEN r.state ELSE r.recovery
  BY NewState
<1>2. CASE x = y
  BY <1>2
<1>3. CASE r.at = "journal"
  <2>1. Extends(StateOf(r.journal), r.recovery, DOMAIN r.plans) /\ StateOf(NewFile(r)) = r.recovery
    BY <1>1, <1>3 DEF JournalSays
  <2>2. CASE c \in DOMAIN StateOf(r.journal)
    <3>1. c \in DOMAIN r.recovery /\ r.recovery[c].original = StateOf(r.journal)[c].original
      BY <2>1, <2>2 DEF Extends
    <3>2. StateOf(y) = StateOf(r.journal) \/ StateOf(y) = r.recovery
      BY <2>1
    <3>3. StateOf(x) = StateOf(r.journal) \/ StateOf(x) = r.recovery
      BY <2>1
    <3> QED BY <2>2, <3>1, <3>2, <3>3
  <2>3. CASE c \notin DOMAIN StateOf(r.journal)
    <3>1. x = NewFile(r) /\ c \in DOMAIN r.recovery /\ r.recovery[c].original = User(k)
      BY <2>1, <2>3
    <3>2. c \in DOMAIN r.plans
      BY <2>1, <2>3, <3>1 DEF Extends
    <3>3. Secured(c, User(k), fs[c], ow)
      BY <1>3, <2>3, <3>1, <3>2 DEF PlansSeen, PlanSeen
    <3> QED BY <3>3 DEF Secured
  <2> QED BY <2>2, <2>3
<1>4. CASE r.at = "rejournal"
  <2>1. StateOf(x) = r.recovery /\ StateOf(y) = r.recovery
    BY <1>1, <1>4 DEF JournalSays
  <2> QED BY <2>1
<1>5. CASE r.at = "final"
  <2>1. StateOf(r.journal) = r.recovery /\ StateOf(NewFile(r)) = r.state
    BY <1>1, <1>5 DEF JournalSays
  <2>2. Follows(r.state, r.recovery, DOMAIN r.plans, r.cmd = "setup") /\ r.todo = {}
    BY <1>5 DEF ProcOK, PhaseOK, StateOK
  <2>3. c \in DOMAIN r.state => c \in DOMAIN r.recovery /\ r.state[c].original = r.recovery[c].original
    BY <2>2 DEF Follows
  <2>4. c \in DOMAIN r.recovery /\ r.recovery[c].original = User(k)
    BY <2>1, <2>3
  <2>5. CASE c \in DOMAIN r.state
    BY <2>1, <2>3, <2>4, <2>5
  <2>6. CASE c \notin DOMAIN r.state
    <3>1. c \in DOMAIN r.plans /\ r.cmd # "setup"
      BY <2>2, <2>4, <2>6 DEF Follows
    <3>2. PlanOK(r, c) /\ Passed(r, c) /\ Goal(r, c) = User(k)
      <4>1. PlanOK(r, c)
        BY <1>5, <3>1 DEF ProcOK, PhaseOK, PlansOK, Resting
      <4> QED BY <1>5, <2>2, <2>4, <3>1, <4>1 DEF PlanOK, Passed, PassedAt, Goal
    <3>3. Secured(c, User(k), fs[c], ow)
      BY <3>1, <3>2 DEF PlansSeen, PlanSeen, Done
    <3> QED BY <3>3 DEF Secured
  <2> QED BY <2>5, <2>6
<1> QED BY <1>3, <1>4, <1>5 DEF SavePhases

LEMMA EditIs ==
    ASSUME Typed, NEW e \in owed
    PROVE  e[1] \in Clients /\ e[1] \in Targets /\ e[1] # Journal /\ e[2] \in 0..MaxEdits /\ e = <<e[1], e[2]>>
  BY TargetFacts DEF Typed

\* That file of a save is a journal whose original of an owed edit another holds.
LEMMA JournalTurnKeeps ==
    ASSUME Typed, NEW p \in Procs, proc[p].at \in SavePhases,
           NEW step, NEW temp, NEW ok, NEW undone, NEW f, NEW l,
           Moves(proc[p], Target(proc[p].w), step, temp, ok, undone, f, l),
           Turn(p, step, temp, ok, undone, f, l),
           Accounts(file, looked, owed, chased, proc[p]),
           NEW e \in owed, EditKept(e)
    PROVE  EditKept(e)'
<1> DEFINE r == proc[p]  T == file[Journal][r.directory]  c == e[1]  k == e[2]
<1>1. c \in Clients /\ c \in Targets /\ c # Journal /\ k \in 0..MaxEdits /\ <<c, k>> \in owed /\ Journal \in Targets
  BY EditIs, TargetFacts
<1>2. ProcOK(r) /\ r.w.step \in WriteSteps /\ r.w.step # "return" /\ r.w.target = Journal /\ r.w.parent = r.directory
  <2>1. r.w.step # "return"
    BY DEF Moves, CheckMove, SwapMove, CompareMove, UndoMove, VerifyMove, BackMove, RecheckMove, ForwardMove, UnlinkMove
  <2>2. ProcOK(r)
    BY DEF Typed
  <2> QED BY <2>1, <2>2 DEF ProcOK, PhaseOK, SaveOK
<1>3. r.directory \in Dirs /\ Target(r.w) = T
  BY <1>2 DEF ProcOK, ProcRecs, Target
<1>4. JournalAt(r, r.w.step, r.w.temp, r.w.ok, T)
  BY DEF Accounts, JournalSeen
<1>5. /\ T \in {r.journal, NewFile(r)} /\ (r.w.step = "swap" => r.w.temp = NewFile(r))
      /\ (r.w.step = "unlink" => r.w.temp \in {r.journal, NewFile(r)})
  <2>1. T \in {r.journal, NewFile(r)}
    BY <1>2, <1>4, JournalIs
  <2>2. r.w.step = "swap" => r.w.temp = NewFile(r)
    BY <1>4 DEF JournalAt
  <2>3. r.w.step = "unlink" => r.w.temp \in {r.journal, NewFile(r)}
    BY <1>4 DEF JournalAt
  <2> QED BY <2>1, <2>2, <2>3
<1>6. \A x \in OnDisk(c) : x \in OnDisk(c)'
  BY <1>1, <1>2, <1>5, TurnDisk
<1>7. ASSUME NEW x \in OnDisk(Journal), c \in DOMAIN x.content, x.content[c].original = User(k), x \notin OnDisk(Journal)'
      PROVE  EditKept(e)'
  <2>1. x = r.w.temp /\ f = T /\ x \in {r.journal, NewFile(r)} /\ x # Absent
    <3>1. /\ x = r.w.temp /\ f = Target(r.w)
          /\ \/ r.w.step = "unlink"
             \/ r.w.step = "swap" /\ x = NewFile(r)
      BY <1>1, <1>5, <1>7, TurnDisk
    <3>2. x # Absent
      BY <1>7, OnDiskIs
    <3> QED BY <1>3, <1>5, <3>1, <3>2
  <2>2. file'[Journal][r.directory] = T
    BY <1>2, <2>1 DEF Turn, Holds
  <2>3. StateOf(x) = x.content
    BY <2>1 DEF StateOf
  <2>4. JournalSays(r) /\ PlansSeen(r, file, looked, owed)
    BY DEF Accounts, SavePhases, Resting, PlansSeen
  <2>5. \/ c \in DOMAIN StateOf(T) /\ StateOf(T)[c].original = User(k)
        \/ \E d \in Dirs : file[c][d] # Absent /\ file[c][d].content = User(k)
    <3>1. c \in DOMAIN StateOf(x) /\ StateOf(x)[c].original = User(k)
      BY <1>7, <2>3
    <3>2. x \in {r.journal, NewFile(r)} /\ T \in {r.journal, NewFile(r)}
      BY <1>5, <2>1
    <3>3. k \in 0..MaxEdits /\ <<c, k>> \in owed /\ ProcOK(r) /\ r.at \in SavePhases
      BY <1>1, <1>2
    <3> HIDE DEF r, T, c, k
    <3> QED BY <2>4, <3>1, <3>2, <3>3, JournalKeeps
  <2>6. CASE c \in DOMAIN StateOf(T) /\ StateOf(T)[c].original = User(k)
    <3>1. T # Absent /\ StateOf(T) = T.content
      BY <2>6, StateFacts DEF StateOf
    <3>2. T \in OnDisk(Journal)'
      BY <1>3, <2>2, <3>1, OnDiskNext
    <3> QED BY <2>6, <3>1, <3>2 DEF EditKept
  <2>7. CASE \E d \in Dirs : file[c][d] # Absent /\ file[c][d].content = User(k)
    <3>1. PICK d \in Dirs : file[c][d] # Absent /\ file[c][d].content = User(k)
      BY <2>7
    <3>2. file[c][d] \in OnDisk(c)
      BY <3>1, OnDiskIs
    <3> QED BY <1>6, <3>1, <3>2 DEF EditKept
  <2> QED BY <2>5, <2>6, <2>7
<1> QED BY <1>6, <1>7, KeptBy

\* That file of a client's write is the journal's original when the user is owed it.
LEMMA ClientTurnKeeps ==
    ASSUME Typed, NEW p \in Procs, proc[p].at \in ClientPhases,
           NEW step, NEW temp, NEW ok, NEW undone, NEW f, NEW l,
           Moves(proc[p], Target(proc[p].w), step, temp, ok, undone, f, l),
           Turn(p, step, temp, ok, undone, f, l),
           Accounts(file, looked, owed, chased, proc[p]),
           NEW e \in owed, e \notin chased, EditKept(e)
    PROVE  EditKept(e)'
<1> DEFINE r == proc[p]  c == e[1]  k == e[2]
<1>1. c \in Clients /\ c \in Targets /\ c # Journal /\ k \in 0..MaxEdits /\ <<c, k>> \notin chased /\ Journal \in Targets
  BY EditIs, TargetFacts
<1>0. ClientWrites(p, step, temp, ok, f)
  BY ClientWriteFacts
<1>2. /\ ProcOK(r) /\ r.w.target \in DOMAIN r.plans /\ PlanOK(r, r.w.target)
      /\ \A t \in Targets : t # r.w.target => file'[t] = file[t]
      /\ Journal # r.w.target /\ r.directory \in Dirs /\ r.journal = file[Journal][r.directory]
      /\ StateOf(r.journal) = r.recovery /\ Target(r.w) = ClientFile(file, r, r.w.target)
  BY <1>0 DEF ClientWrites
<1>3. WriteSeen(r, Target(r.w), chased)
  BY <1>2 DEF Accounts
<1>4. r.w.step = "swap" => r.w.temp = NewFile(r)
  BY <1>3 DEF WriteSeen, WriteSeenAt
<1>5. \A x \in OnDisk(Journal) : x \in OnDisk(Journal)'
  BY <1>1, <1>2, <1>4, TurnDisk
<1>6. ASSUME NEW x \in OnDisk(c), x.content = User(k), x \notin OnDisk(c)'
      PROVE  EditKept(e)'
  <2>1. /\ c = r.w.target /\ x = r.w.temp /\ x # Absent
        /\ \/ r.w.step = "unlink"
           \/ r.w.step = "swap" /\ x = NewFile(r)
    BY <1>1, <1>4, <1>6, TurnDisk, OnDiskIs
  <2>2. ~ChasedFile(c, x, chased)
    BY <1>1, <1>6, ByFacts DEF ChasedFile
  <2>3. KnownFile(r.recovery[c], x)
    <3>1. CASE r.w.step = "unlink"
      BY <1>3, <2>1, <2>2, <3>1 DEF WriteSeen, WriteSeenAt
    <3>2. CASE r.w.step = "swap" /\ x = NewFile(r)
      <4>1. /\ r.at = "commit" => r.w.new = Goal(r, c)
            /\ r.at = "rollback" => r.w.new = ContentOf(r.plans[c].expected)
        BY <1>2, <2>1 DEF ProcOK, PhaseOK, ClientOK, ClientPhases
      <4>2. r.w.new # Absent => r.w.new \in Known(r.recovery[c])
        BY <1>2, <2>1, <4>1 DEF PlanOK, KnownFile, Known, Goal, ContentOf, ClientPhases
      <4> QED BY <1>2, <3>2, <4>2, NewFileOK DEF KnownFile
    <3> QED BY <2>1, <3>1, <3>2
  <2>4. c \in DOMAIN r.recovery /\ r.recovery[c] \in Snapshot /\ User(k) \in Known(r.recovery[c])
    <3>1. r.recovery \in States
      BY <1>2 DEF ProcOK, ProcRecs
    <3> QED BY <1>2, <1>6, <2>1, <2>3, <3>1, StateFacts DEF PlanOK, KnownFile
  <2>5. r.recovery[c].original = User(k)
    BY <2>4, KnownUser
  <2>6. r.journal # Absent /\ r.journal.content = r.recovery
    BY <1>2, <2>4, StateFacts DEF StateOf
  <2>7. r.journal \in OnDisk(Journal)'
    BY <1>2, <1>5, <2>6, OnDiskIs
  <2> QED BY <2>4, <2>5, <2>6, <2>7 DEF EditKept
<1> QED BY <1>5, <1>6, KeptBy

----------------------------------------------------------------------------
(* A command between two of its writes.                                    *)

\* What a command knows when it starts its next write.
Prepared(r, fs, lk) ==
    /\ r.journal = fs[Journal][r.directory] /\ StateOf(r.journal) = r.recovery
    /\ \A c \in DOMAIN r.plans : PlanCore(r, c, fs[c], lk[c])

LEMMA NewWriteSeen ==
    ASSUME NEW z, NEW x, NEW expected, NEW parent
    PROVE  /\ NewWrite(z.w, Journal, x, expected, parent) /\ z.journal = expected =>
                 JournalAt(z, z.w.step, z.w.temp, z.w.ok, z.journal)
           /\ \A t, f, ch : NewWrite(z.w, t, x, expected, parent) => WriteSeen(z, f, ch)
<1>1. ASSUME NewWrite(z.w, Journal, x, expected, parent), z.journal = expected
      PROVE  JournalAt(z, z.w.step, z.w.temp, z.w.ok, z.journal)
  BY <1>1 DEF NewWrite, JournalAt, NewFile
<1>2. ASSUME NEW t, NEW f, NEW ch, NewWrite(z.w, t, x, expected, parent)
      PROVE  WriteSeen(z, f, ch)
  BY <1>2 DEF NewWrite, WriteSeen, WriteSeenAt
<1> QED BY <1>1, <1>2

LEMMA CarriesPlans ==
    ASSUME NEW z, NEW r, Carries(z, r), NEW c
    PROVE  /\ \A fc, lk : PlanCore(r, c, fc, lk) => PlanCore(z, c, fc, lk)
           /\ \A fc : Untouched(r, c, fc) => Untouched(z, c, fc)
           /\ \A fc, ow : Done(r, c, fc, ow) => Done(z, c, fc, ow)
<1>1. /\ z.cmd = r.cmd /\ z.recovery = r.recovery /\ z.plans = r.plans /\ Goal(z, c) = Goal(r, c)
  BY DEF Carries, Goal
<1>2. \A fc, lk : PlanCore(r, c, fc, lk) => PlanCore(z, c, fc, lk)
  BY <1>1 DEF PlanCore
<1>3. \A fc : Untouched(r, c, fc) => Untouched(z, c, fc)
  BY <1>1 DEF Untouched
<1>4. \A fc, ow : Done(r, c, fc, ow) => Done(z, c, fc, ow)
  BY <1>1 DEF Done
<1> QED BY <1>2, <1>3, <1>4

\* It starts the next client, or the last save of the journal.
LEMMA CommittingAccounts ==
    ASSUME NEW fs, NEW lk, NEW ow, NEW ch, NEW y, Going(y), Prepared(y, fs, lk),
           \A c \in y.todo : Untouched(y, c, fs[c]),
           \A c \in DOMAIN y.plans : c \notin y.todo => Done(y, c, fs[c], ow)
    PROVE  Accounts(fs, lk, ow, ch, Committing(y))
<1> DEFINE z == Committing(y)
<1>1. /\ Carries(z, y)
      /\ \/ /\ y.todo = {} /\ z.at = "final" /\ z.todo = {}
            /\ NewWrite(z.w, Journal, AsContent(z.state), y.journal, y.directory)
         \/ \E c \in y.todo :
            /\ z.at = "commit" /\ z.todo = y.todo \ {c}
            /\ NewWrite(z.w, c, Goal(y, c), y.plans[c].expected, y.plans[c].parent)
  BY CommittingIs DEF Going
<1> HIDE DEF z
<1>2. /\ z.journal = y.journal /\ z.directory = y.directory /\ z.recovery = y.recovery /\ z.plans = y.plans
      /\ z.cmd = y.cmd
  BY <1>1 DEF Carries
<1>3. /\ z.journal = fs[Journal][z.directory] /\ StateOf(z.journal) = z.recovery
      /\ \A c \in DOMAIN y.plans : PlanCore(z, c, fs[c], lk[c])
  BY <1>1, <1>2, CarriesPlans DEF Prepared
<1>4. \A c : Carries(z, y) => /\ Untouched(y, c, fs[c]) => Untouched(z, c, fs[c])
                              /\ Done(y, c, fs[c], ow) => Done(z, c, fs[c], ow)
  BY CarriesPlans
<1>5. CASE /\ y.todo = {} /\ z.at = "final" /\ z.todo = {}
           /\ NewWrite(z.w, Journal, AsContent(z.state), y.journal, y.directory)
  <2>1. JournalAt(z, z.w.step, z.w.temp, z.w.ok, z.journal)
    BY <1>2, <1>5, NewWriteSeen
  <2>2. \A c \in DOMAIN z.plans : PlanSeen(z, c, fs[c], lk[c], ow)
    BY <1>1, <1>2, <1>3, <1>4, <1>5 DEF PlanSeen
  <2> QED BY <1>3, <1>5, <2>1, <2>2 DEF Accounts, JournalSeen, JournalSays, ClientPhases, z
<1>6. ASSUME NEW c \in y.todo, z.at = "commit", z.todo = y.todo \ {c},
             NewWrite(z.w, c, Goal(y, c), y.plans[c].expected, y.plans[c].parent)
      PROVE  Accounts(fs, lk, ow, ch, z)
  <2>1. \A f : WriteSeen(z, f, ch)
    BY <1>6, NewWriteSeen
  <2>2. c \in DOMAIN y.plans /\ z.w.target = c /\ z.w.step \in {"check", "return"}
        /\ (z.w.step = "return" => Goal(y, c) = Absent /\ y.plans[c].expected = Absent)
    BY <1>6 DEF NewWrite, Going
  <2>3. ASSUME NEW k \in DOMAIN y.plans  PROVE PlanSeen(z, k, fs[k], lk[k], ow)
    <3>1. PlanCore(z, k, fs[k], lk[k])
      BY <1>3
    <3>2. k \in z.todo => Untouched(z, k, fs[k])
      BY <1>1, <1>4, <1>6
    <3>3. ASSUME Passed(z, k)  PROVE Done(z, k, fs[k], ow)
      <4>1. CASE k = c
        <5>1. z.w.step = "return"
          BY <1>6, <2>2, <3>3, <4>1 DEF Passed, PassedAt
        <5>2. Goal(y, c) = Absent /\ y.plans[c].expected = Absent
          BY <2>2, <5>1
        <5>3. Untouched(y, c, fs[c])
          OBVIOUS
        <5>4. ~IsOurs(fs[c][y.plans[c].parent])
          BY <5>2, <5>3 DEF Untouched, IsOurs
        <5>5. Secured(c, Goal(y, c), fs[c], ow)
          BY <5>2, AbsentFacts DEF Secured, Contents
        <5>6. Done(y, c, fs[c], ow)
          BY <5>4, <5>5 DEF Done
        <5> QED BY <1>1, <1>4, <4>1, <5>6
      <4>2. CASE k # c
        <5>1. k \notin y.todo
          BY <1>6, <3>3, <4>2 DEF Passed, PassedAt
        <5> QED BY <1>1, <1>4, <5>1
      <4> QED BY <4>1, <4>2
    <3> QED BY <1>6, <3>1, <3>2, <3>3 DEF PlanSeen
  <2> QED BY <1>2, <1>3, <1>6, <2>1, <2>2, <2>3 DEF Accounts, JournalSeen, JournalSays, SavePhases
<1> QED BY <1>1, <1>5, <1>6 DEF z

\* It takes the next change back, or puts the journal back.
LEMMA RollingAccounts ==
    ASSUME NEW fs, NEW lk, NEW ow, NEW ch, NEW y, Going(y), Prepared(y, fs, lk)
    PROVE  Accounts(fs, lk, ow, ch, RollingBack(y))
<1> DEFINE z == RollingBack(y)
<1>1. /\ Carries(z, y)
      /\ \/ /\ z.at = "rejournal"
            /\ NewWrite(z.w, Journal, AsContent(y.recovery), y.journal, y.directory)
         \/ /\ z.at = "rollback"
            /\ LET a == Last(y.applied) IN
               NewWrite(z.w, a.target, ContentOf(a.before), a.after, a.parent)
  BY RollingBackIs
<1> HIDE DEF z
<1>2. /\ z.journal = y.journal /\ z.directory = y.directory /\ z.recovery = y.recovery /\ z.plans = y.plans
  BY <1>1 DEF Carries
<1>3. /\ z.journal = fs[Journal][z.directory] /\ StateOf(z.journal) = z.recovery
      /\ \A c \in DOMAIN y.plans : PlanCore(z, c, fs[c], lk[c])
  BY <1>1, <1>2, CarriesPlans DEF Prepared
<1>4. z.at \in {"rejournal", "rollback"}
  BY <1>1
<1>5. \A c \in DOMAIN z.plans : PlanSeen(z, c, fs[c], lk[c], ow)
  BY <1>2, <1>3, <1>4 DEF PlanSeen, Passed, PassedAt
<1>6. z.at = "rejournal" => JournalAt(z, z.w.step, z.w.temp, z.w.ok, z.journal)
  BY <1>1, <1>2, NewWriteSeen
<1>7. z.at = "rollback" => \A f : WriteSeen(z, f, ch)
  BY <1>1, NewWriteSeen
<1> QED BY <1>3, <1>4, <1>5, <1>6, <1>7 DEF Accounts, JournalSeen, JournalSays, SavePhases, ClientPhases, z

\* It gave up, and only looks for a place for the journal.
LEMMA RescueAccounts ==
    ASSUME NEW fs, NEW lk, NEW ow, NEW ch, NEW z, z.at = "rescue",
           \A c \in DOMAIN z.plans : PlanCore(z, c, fs[c], lk[c])
    PROVE  Accounts(fs, lk, ow, ch, z)
  BY DEF Accounts, JournalSeen, JournalSays, PlanSeen, Passed, PassedAt, SavePhases, ClientPhases

\* It knows what it did when a write returned.
LEMMA ReturnPrepared ==
    ASSUME NEW fs, NEW lk, NEW ow, NEW ch, NEW r, Accounts(fs, lk, ow, ch, r), ProcOK(r),
           r.w.step = "return", r.at \notin Resting, NEW y, Alike(y, r), y.directory = r.directory,
           \/ r.at \in ClientPhases /\ y.journal = r.journal
           \/ r.at = "journal" /\ r.w.ok /\ y.journal = Saved(r)
           \/ r.at = "final" /\ ~r.w.ok /\ ~r.w.late /\ y.journal = Saved(r)
    PROVE  Prepared(y, fs, lk)
<1>1. /\ y.cmd = r.cmd /\ y.recovery = r.recovery /\ y.plans = r.plans
  BY DEF Alike
<1>2. \A c \in DOMAIN r.plans : PlanCore(r, c, fs[c], lk[c])
  BY DEF Accounts, PlanSeen
<1>3. \A c \in DOMAIN y.plans : PlanCore(y, c, fs[c], lk[c])
  BY <1>1, <1>2 DEF PlanCore
<1>4. y.journal = fs[Journal][r.directory] /\ StateOf(y.journal) = r.recovery
  <2>1. CASE r.at \in ClientPhases /\ y.journal = r.journal
    BY <2>1 DEF Accounts, JournalSeen, JournalSays, ClientPhases
  <2>2. CASE r.at = "journal" /\ r.w.ok /\ y.journal = Saved(r)
    <3>1. fs[Journal][r.directory] = NewFile(r)
      BY <2>2 DEF Accounts, JournalSeen, JournalAt, SavePhases
    <3>2. r.w.expected = r.journal
      BY <2>2 DEF ProcOK, PhaseOK, SaveOK, SavePhases
    <3>3. Saved(r) = NewFile(r)
      BY <2>2, <3>2 DEF Saved, NewFile
    <3> QED BY <2>2, <3>1, <3>3, NewState DEF SavePhases
  <2>3. CASE r.at = "final" /\ ~r.w.ok /\ ~r.w.late /\ y.journal = Saved(r)
    <3>1. fs[Journal][r.directory] = r.journal
      BY <2>3 DEF Accounts, JournalSeen, JournalAt, SavePhases
    <3>2. Saved(r) = r.journal
      BY <2>3 DEF Saved
    <3> QED BY <2>3, <3>1, <3>2 DEF Accounts, JournalSays
  <2> QED BY <2>1, <2>2, <2>3
<1> QED BY <1>1, <1>3, <1>4 DEF Prepared

----------------------------------------------------------------------------
(* The steps of a command.                                                 *)

LEMMA AlikePlans ==
    ASSUME NEW z, NEW r, Alike(z, r), NEW c
    PROVE  /\ \A fc, lk : PlanCore(r, c, fc, lk) => PlanCore(z, c, fc, lk)
           /\ \A fc : Untouched(r, c, fc) => Untouched(z, c, fc)
           /\ \A fc, ow : Done(r, c, fc, ow) => Done(z, c, fc, ow)
<1>1. /\ z.cmd = r.cmd /\ z.recovery = r.recovery /\ z.plans = r.plans /\ Goal(z, c) = Goal(r, c)
  BY DEF Alike, Goal
<1>2. \A fc, lk : PlanCore(r, c, fc, lk) => PlanCore(z, c, fc, lk)
  BY <1>1 DEF PlanCore
<1>3. \A fc : Untouched(r, c, fc) => Untouched(z, c, fc)
  BY <1>1 DEF Untouched
<1>4. \A fc, ow : Done(r, c, fc, ow) => Done(z, c, fc, ow)
  BY <1>1 DEF Done
<1> QED BY <1>2, <1>3, <1>4

\* A command plans: what it finds of its clients' files is known.
LEMMA PlanLooks ==
    ASSUME Typed, NEW p \in Procs, proc[p].at = "locked", MayPlan(proc[p]), NEW z, Embarks(z, proc[p]), Going(z),
           NEW c \in Selected(proc[p])
    PROVE  /\ PlanCore(z, c, file[c], Looks(proc[p])[c])
           /\ c \in DOMAIN StateOf(proc[p].journal) \/ Secured(c, z.recovery[c].original, file[c], owed)
           /\ Untouched(z, c, file[c])
<1> DEFINE r == proc[p]  loaded == StateOf(r.journal)
<1>1. /\ z.cmd = r.cmd /\ z.recovery = Snapshots(r) /\ DOMAIN z.plans = Selected(r)
      /\ z.plans[c].snapshot = Snapshots(r)[c] /\ z.plans[c].expected = Found(c) /\ z.plans[c].parent = dir[c]
  BY DEF Embarks, PlanFor
<1>2. c \in Clients /\ Found(c) = file[c][dir[c]] /\ dir[c] \in Dirs
      /\ (c \notin DOMAIN loaded => Snapshots(r)[c].original = ContentOf(Found(c)))
      /\ (r.cmd # "setup" => Snapshots(r) = loaded)
  BY SnapshotsIs, TargetFacts DEF Found, Typed
<1>3. PlanOK(z, c)
  BY <1>1 DEF Going
<1>4. KnownOurs(z.recovery[c], file[c][z.plans[c].parent])
  BY <1>1, <1>2, <1>3 DEF PlanOK, KnownFile, KnownOurs, IsOurs
<1>5. Looks(r)[c] = IF Answered(r, c) THEN dir[c] ELSE 0
  BY <1>2 DEF Looks
<1>6. r.cmd # "setup" => r.cmd = "restore"
  BY DEF Typed, ProcOK, PhaseOK, RestOK, ProcRecs
<1>7. ASSUME Looks(r)[c] # 0, z.cmd # "setup"
      PROVE  z.recovery[c].original \notin {Ours(v) : v \in Versions}
  BY <1>1, <1>2, <1>5, <1>6, <1>7 DEF Answered
<1>8. PlanCore(z, c, file[c], Looks(r)[c])
  BY <1>1, <1>4, <1>5, <1>7 DEF PlanCore
<1>9. ASSUME c \notin DOMAIN loaded  PROVE Secured(c, z.recovery[c].original, file[c], owed)
  <2> SUFFICES ASSUME NEW k \in 0..MaxEdits, z.recovery[c].original = User(k)
               PROVE  \E d \in Dirs : file[c][d] # Absent /\ file[c][d].content = User(k)
    BY DEF Secured
  <2>1. User(k) # Absent
    BY AbsentFacts DEF Contents
  <2>2. Found(c) # Absent /\ Found(c).content = User(k)
    BY <1>1, <1>2, <1>9, <2>1 DEF ContentOf
  <2> QED BY <1>2, <2>2
<1>10. Untouched(z, c, file[c])
  BY <1>1, <1>2 DEF Untouched
<1> QED BY <1>8, <1>9, <1>10

\* A plan looks only at files that a journal answers for.
LEMMA PlanCovers ==
    ASSUME Typed, NEW p \in Procs, proc[p].at = "locked", MayPlan(proc[p]),
           NEW c \in Clients, Covered(file, c, looked[c])
    PROVE  /\ Covered(file, c, Looks(proc[p])[c])
           /\ CoveredBefore(file, proc[p], c, Looks(proc[p])[c])
<1> DEFINE r == proc[p]  loaded == StateOf(r.journal)  lk == Looks(r)[c]
<1>1. r.directory = dir[Journal] /\ file[Journal][r.directory] = r.journal /\ r.directory \in Dirs
  BY TargetFacts DEF MayPlan, Typed
<1>2. lk = IF c \notin Selected(r) THEN looked[c] ELSE IF Answered(r, c) THEN dir[c] ELSE 0
  BY DEF Looks
<1>3. Covered(file, c, lk)
  <2> SUFFICES ASSUME lk # 0, IsOurs(file[c][lk])
               PROVE  \E d \in Dirs : CoveredBy(c, StateOf(file[Journal][d]), file[c][lk])
    BY DEF Covered
  <2>1. CASE c \notin Selected(r)
    BY <1>2, <2>1 DEF Covered
  <2>2. CASE c \in Selected(r)
    <3>1. lk = dir[c] /\ Answered(r, c) /\ Found(c) = file[c][lk]
      BY <1>2, <2>2 DEF Found
    <3>2. CASE c \in DOMAIN loaded
      <4>1. Accepts(loaded[c], Found(c))
        BY <2>2, <3>2 DEF MayPlan, Refused
      <4> QED BY <1>1, <3>1, <3>2, <4>1 DEF CoveredBy
    <3>3. CASE c \notin DOMAIN loaded
      BY <3>1, <3>3 DEF Answered, Covered
    <3> QED BY <3>2, <3>3
  <2> QED BY <2>1, <2>2
<1>4. CoveredBefore(file, r, c, lk)
  BY <1>1, <1>3 DEF Covered, CoveredBefore
<1> QED BY <1>3, <1>4

\* What a command knows when it has planned.
LEMMA PlanAccounts ==
    ASSUME Typed, NEW p \in Procs, Plan(p), \A c \in Clients : Covered(file, c, looked[c]), Working(p)'
    PROVE  Accounts(file', looked', owed', chased', proc'[p])
<1> DEFINE r == proc[p]  z == proc'[p]  X == Selected(r)
<1>1. /\ r.at = "locked" /\ UNCHANGED <<file, owed, chased>>
      /\ MayPlan(r) /\ looked' = Looks(r)
      /\ WritesFirst(z, r) \/ (r.cmd # "setup" /\ z = Committing(Restoring(r)))
  BY PlanTyped DEF Stays, Ended, Working
<1>2. /\ Extends(StateOf(r.journal), Snapshots(r), X) /\ X \subseteq Clients
      /\ r.cmd # "setup" => Snapshots(r) = StateOf(r.journal)
  BY <1>1, SnapshotsIs
<1>3. r.directory = dir[Journal] /\ file[Journal][r.directory] = r.journal
  BY <1>1 DEF MayPlan
<1>4. CASE WritesFirst(z, r)
  <2>1. /\ Embarks(z, r) /\ z.at = "journal" /\ z.todo = X /\ z.applied = <<>>
        /\ NewWrite(z.w, Journal, AsContent(Snapshots(r)), r.journal, r.directory)
    BY <1>4 DEF WritesFirst
  <2>2. Going(z)
    BY <1>1, <2>1, EmbarksGoing DEF MayPlan
  <2>3. z.journal = r.journal /\ z.directory = r.directory /\ z.recovery = Snapshots(r) /\ DOMAIN z.plans = X
    BY <2>1 DEF Embarks
  <2>4. JournalAt(z, z.w.step, z.w.temp, z.w.ok, z.journal)
    BY <2>1, <2>3, NewWriteSeen
  <2>5. JournalSeen(z, file[Journal][z.directory]) /\ JournalSays(z)
    BY <1>2, <1>3, <2>1, <2>3, <2>4 DEF JournalSeen, JournalSays
  <2>6. ASSUME NEW c \in X  PROVE PlanSeen(z, c, file[c], Looks(r)[c], owed)
    <3>1. /\ PlanCore(z, c, file[c], Looks(r)[c]) /\ Untouched(z, c, file[c])
          /\ c \in DOMAIN StateOf(r.journal) \/ Secured(c, z.recovery[c].original, file[c], owed)
      BY <1>1, <2>1, <2>2, PlanLooks
    <3> QED BY <2>1, <2>3, <3>1 DEF PlanSeen, Passed, PassedAt
  <2>7. ASSUME NEW c \in Clients  PROVE CoveredBefore(file, z, c, Looks(r)[c])
    <3>1. CoveredBefore(file, r, c, Looks(r)[c])
      BY <1>1, PlanCovers
    <3> QED BY <2>3, <3>1 DEF CoveredBefore
  <2> QED BY <1>1, <2>1, <2>3, <2>5, <2>6, <2>7 DEF Accounts, ClientPhases
<1>5. CASE r.cmd # "setup" /\ z = Committing(Restoring(r))
  <2> DEFINE y == Restoring(r)
  <2>1. Embarks(y, r) /\ y.todo = X /\ Going(y)
    BY <1>1, RestoringIs DEF MayPlan
  <2>2. z = Committing(y)
    BY <1>5
  <2> HIDE DEF y
  <2>3. y.journal = r.journal /\ y.directory = r.directory /\ y.recovery = Snapshots(r) /\ DOMAIN y.plans = X
    BY <2>1 DEF Embarks
  <2>4. \A c \in X : PlanCore(y, c, file[c], Looks(r)[c]) /\ Untouched(y, c, file[c])
    BY <1>1, <2>1, PlanLooks
  <2>5. Prepared(y, file, Looks(r))
    BY <1>2, <1>3, <1>5, <2>3, <2>4 DEF Prepared
  <2>6. Accounts(file, Looks(r), owed, chased, Committing(y))
    BY <2>1, <2>3, <2>4, <2>5, CommittingAccounts
  <2> QED BY <1>1, <2>2, <2>6
<1> QED BY <1>1, <1>4, <1>5

\* What a command knows after each of its steps.
LEMMA CommandAccounts ==
    ASSUME Typed, NEW p \in Procs, CommandStep(p), ~Lock(p), ~torn', Accounted, Working(p)'
    PROVE  Accounts(file', looked', owed', chased', proc'[p])
<1> DEFINE r == proc[p]  z == proc'[p]
<1>1. Accounts(file, looked, owed, chased, r) /\ ProcOK(r)
  BY CommandWorks DEF Accounted, Typed
<1>2. ASSUME UNCHANGED <<file, looked, owed, chased>>, Accounts(file, looked, owed, chased, z)
      PROVE  Accounts(file', looked', owed', chased', z)
  BY <1>2
<1>3. CASE Plan(p)
  BY <1>3, PlanAccounts DEF Accounted
<1>4. CASE JournalReturns(p)
  <2>1. /\ r.at = "journal" /\ r.w.step = "return" /\ UNCHANGED <<file, looked, owed, chased>>
        /\ r.w.ok /\ z = Committing(Saver(r))
    BY <1>4, JournalReturnsTyped DEF Ended, Working, Stays
  <2> DEFINE y == Saver(r)
  <2>2. Alike(y, r) /\ y.journal = Saved(r) /\ y.directory = r.directory /\ Going(y)
    BY <1>1, <2>1, SaverIs DEF SavePhases
  <2>3. z = Committing(y)
    BY <2>1
  <2> HIDE DEF y
  <2>4. Prepared(y, file, looked)
    BY <1>1, <2>1, <2>2, ReturnPrepared DEF Resting
  <2>5. r.todo = DOMAIN r.plans /\ y.todo = r.todo /\ y.plans = r.plans
    BY <1>1, <2>1, <2>2 DEF ProcOK, PhaseOK, StateOK, Alike
  <2>6. \A c \in y.todo : Untouched(r, c, file[c])
    BY <1>1, <2>1, <2>5 DEF Accounts, PlanSeen, Resting
  <2>7. \A c \in y.todo : Untouched(y, c, file[c])
    BY <2>2, <2>6, AlikePlans
  <2>8. Accounts(file, looked, owed, chased, Committing(y))
    BY <2>2, <2>4, <2>5, <2>7, CommittingAccounts
  <2> QED BY <1>2, <2>1, <2>3, <2>8
<1>5. CASE CommitReturns(p)
  <2>1. /\ r.at = "commit" /\ r.w.step = "return" /\ UNCHANGED <<file, looked, owed, chased>>
        /\ \/ z = RollingBack(NextOf(r))
           \/ r.w.ok /\ z = Committing(Proceeding(r))
    BY <1>5, CommitReturnsTyped DEF Stays
  <2>2. CASE z = RollingBack(NextOf(r))
    <3> DEFINE y == NextOf(r)
    <3>1. Alike(y, r) /\ y.journal = r.journal /\ y.directory = r.directory /\ Going(y)
      BY <1>1, <2>1, NextOfIs
    <3>2. z = RollingBack(y)
      BY <2>2
    <3> HIDE DEF y
    <3>3. Prepared(y, file, looked)
      BY <1>1, <2>1, <3>1, ReturnPrepared DEF Resting, ClientPhases
    <3>4. Accounts(file, looked, owed, chased, RollingBack(y))
      BY <3>1, <3>3, RollingAccounts
    <3> QED BY <1>2, <2>1, <3>2, <3>4
  <2>3. CASE r.w.ok /\ z = Committing(Proceeding(r))
    <3> DEFINE y == Proceeding(r)
    <3>1. Alike(y, r) /\ y.journal = r.journal /\ y.directory = r.directory /\ Going(y)
      BY <1>1, <2>1, ProceedingIs
    <3>2. z = Committing(y)
      BY <2>3
    <3> HIDE DEF y
    <3>3. Prepared(y, file, looked)
      BY <1>1, <2>1, <3>1, ReturnPrepared DEF Resting, ClientPhases
    <3>4. y.todo = r.todo /\ y.plans = r.plans /\ r.todo \subseteq DOMAIN r.plans
      BY <1>1, <3>1 DEF Alike, ProcOK, PhaseOK, PlansOK
    <3>5. \A c \in DOMAIN r.plans : PlanSeen(r, c, file[c], looked[c], owed)
      BY <1>1, <2>1 DEF Accounts, Resting
    <3>6. \A c \in r.todo : Untouched(r, c, file[c])
      BY <2>1, <3>4, <3>5 DEF PlanSeen
    <3>7. ASSUME NEW c \in DOMAIN r.plans, c \notin r.todo  PROVE Done(r, c, file[c], owed)
      <4>1. Passed(r, c)
        BY <2>1, <2>3, <3>7 DEF Passed, PassedAt
      <4> QED BY <3>5, <4>1 DEF PlanSeen
    <3>8. \A c \in y.todo : Untouched(y, c, file[c])
      BY <3>1, <3>4, <3>6, AlikePlans
    <3>9. \A c \in DOMAIN y.plans : c \notin y.todo => Done(y, c, file[c], owed)
      BY <3>1, <3>4, <3>7, AlikePlans
    <3>10. Accounts(file, looked, owed, chased, Committing(y))
      BY <3>1, <3>3, <3>8, <3>9, CommittingAccounts
    <3> QED BY <1>2, <2>1, <3>2, <3>10
  <2> QED BY <2>1, <2>2, <2>3
<1>6. CASE FinalReturns(p)
  <2>1. /\ r.at = "final" /\ r.w.step = "return" /\ UNCHANGED <<file, looked, owed, chased>>
        /\ ~r.w.ok /\ ~r.w.late /\ z = RollingBack(Aborting(r))
    BY <1>6, FinalReturnsTyped DEF Stays, Ended, Working
  <2> DEFINE y == Aborting(r)
  <2>2. Alike(y, r) /\ y.journal = Saved(r) /\ y.directory = r.directory /\ Going(y)
    BY <1>1, <2>1, AbortingIs
  <2>3. z = RollingBack(y)
    BY <2>1
  <2> HIDE DEF y
  <2>4. Prepared(y, file, looked)
    BY <1>1, <2>1, <2>2, ReturnPrepared DEF Resting
  <2>5. Accounts(file, looked, owed, chased, RollingBack(y))
    BY <2>2, <2>4, RollingAccounts
  <2> QED BY <1>2, <2>1, <2>3, <2>5
<1>7. CASE RollbackReturns(p)
  <2> DEFINE y == RollingOn(r)
  <2>1. /\ r.at = "rollback" /\ r.w.step = "return" /\ UNCHANGED <<file, looked, owed, chased>>
        /\ z = RollingBack(y)
        /\ Alike(y, r) /\ y.journal = r.journal /\ y.directory = r.directory /\ Going(y)
    BY <1>7, RollbackReturnsTyped DEF Stays
  <2> HIDE DEF y
  <2>2. Prepared(y, file, looked)
    BY <1>1, <2>1, ReturnPrepared DEF Resting, ClientPhases
  <2>3. Accounts(file, looked, owed, chased, RollingBack(y))
    BY <2>1, <2>2, RollingAccounts
  <2> QED BY <1>2, <2>1, <2>3
<1>8. ASSUME r.at \notin Resting, Rescue(z, r), UNCHANGED <<looked, owed, chased>>,
             \A c \in Clients : file'[c] = file[c]
      PROVE  Accounts(file', looked', owed', chased', z)
  <2>1. Alike(z, r) /\ z.at = "rescue" /\ z.plans = r.plans /\ DOMAIN r.plans \subseteq Clients
    BY <1>1, <1>8, PlanFacts DEF Rescue, Alike, ProcOK, ProcRecs
  <2>2. \A c \in DOMAIN r.plans : PlanCore(r, c, file[c], looked[c])
    BY <1>1, <1>8 DEF Accounts, PlanSeen
  <2>3. \A c \in DOMAIN z.plans : PlanCore(z, c, file'[c], looked[c])
    BY <1>8, <2>1, <2>2, AlikePlans
  <2>4. Accounts(file', looked, owed, chased, z)
    BY <2>1, <2>3, RescueAccounts
  <2> QED BY <1>8, <2>4
<1>9. CASE RejournalReturns(p)
  <2>1. r.at = "rejournal" /\ Rescue(z, r) /\ UNCHANGED <<file, looked, owed, chased>>
    BY <1>9, RejournalReturnsTyped DEF Stays, Ended, Working
  <2> QED BY <1>8, <2>1 DEF Resting
<1>10. CASE RescueReads(p)
  <2>1. r.at = "rescue" /\ Rescue(z, r) /\ UNCHANGED <<file, looked, owed, chased>>
    BY <1>10, RescueReadsTyped DEF Stays, Ended, Working
  <2> QED BY <1>8, <2>1 DEF Resting
<1>11. CASE RescueRenames(p)
  <2>1. /\ r.at = "rescue" /\ Rescue(z, r) /\ Holds(Journal, r.w.parent, Staged(r))
        /\ UNCHANGED <<looked, owed, chased>>
    BY <1>11, RescueRenamesTyped DEF Ended, Working, userVars, historyVars
  <2>2. \A c \in Clients : file'[c] = file[c]
    BY <2>1, TargetFacts, OtherTarget
  <2> QED BY <1>8, <2>1, <2>2 DEF Resting
<1>12. CASE RescueVerifies(p)
  BY <1>12, RescueVerifiesTyped DEF Ended, Working
<1> QED BY <1>3, <1>4, <1>5, <1>6, <1>7, <1>9, <1>10, <1>11, <1>12 DEF CommandStep

----------------------------------------------------------------------------
(* What the journals answer for and what the disk keeps, step by step.     *)

\* A step that takes no file away, where the command p holds none.
LEMMA DiskGrows ==
    ASSUME NEW p \in Procs, proc[p].w.temp = Absent, left \subseteq left',
           \A q \in Procs : q # p => proc'[q] = proc[q],
           \A t \in Targets, d \in Dirs : file[t][d] # Absent => file'[t][d] = file[t][d],
           NEW t \in Targets
    PROVE  OnDisk(t) \subseteq OnDisk(t)'
<1> SUFFICES ASSUME NEW x \in OnDisk(t)  PROVE x \in OnDisk(t)'
  OBVIOUS
<1>1. x # Absent
  BY OnDiskIs
<1>2. CASE \E d \in Dirs : x = file[t][d]
  BY <1>1, <1>2, OnDiskNext
<1>3. CASE \E l \in left : l[1] = t /\ x = l[2]
  BY <1>1, <1>3, OnDiskNext
<1>4. CASE \E q \in Procs : proc[q].w.target = t /\ x = proc[q].w.temp
  <2>1. PICK q \in Procs : proc[q].w.target = t /\ x = proc[q].w.temp
    BY <1>4
  <2>2. q # p
    BY <1>1, <2>1
  <2> QED BY <1>1, <2>1, <2>2, OnDiskNext
<1> QED BY <1>2, <1>3, <1>4, OnDiskIs

\* A command between two writes takes no file away.
LEMMA CommandHolds ==
    ASSUME Typed, NEW p \in Procs, CommandStep(p)
    PROVE  /\ proc[p].w.temp = Absent /\ left' = left /\ UNCHANGED <<owed, chased>>
           /\ \A q \in Procs : q # p => proc'[q] = proc[q]
           /\ \A t \in Targets, d \in Dirs : file[t][d] # Absent => file'[t][d] = file[t][d]
           /\ \A c \in Clients : file'[c] = file[c]
           /\ ~Plan(p) => looked' = looked
<1>a. ProcOK(proc[p]) /\ NoWrite.temp = Absent
  BY NoWriteFacts DEF Typed
<1>b. /\ proc[p].w.step \in {"none", "return", "rescuing", "rescued"} => proc[p].w.temp = Absent
      /\ proc[p].at \in Resting => proc[p].w.temp = Absent
  BY <1>a DEF ProcOK, WriteOK, PhaseOK, RestOK
<1>1. CASE Lock(p)
  BY <1>1, <1>b, LockTyped DEF Resting
<1>2. CASE Plan(p)
  BY <1>2, <1>b, PlanTyped DEF Stays, Resting
<1>3. CASE JournalReturns(p)
  BY <1>3, <1>b, JournalReturnsTyped DEF Stays
<1>4. CASE CommitReturns(p)
  BY <1>4, <1>b, CommitReturnsTyped DEF Stays
<1>5. CASE FinalReturns(p)
  BY <1>5, <1>b, FinalReturnsTyped DEF Stays
<1>6. CASE RollbackReturns(p)
  BY <1>6, <1>b, RollbackReturnsTyped DEF Stays
<1>7. CASE RejournalReturns(p)
  BY <1>7, <1>b, RejournalReturnsTyped DEF Stays
<1>8. CASE RescueReads(p)
  BY <1>8, <1>b, RescueReadsTyped DEF Stays
<1>9. CASE RescueRenames(p)
  <2>1. /\ proc[p].w.step = "rescuing" /\ left' = left /\ UNCHANGED userVars
        /\ \A q \in Procs : q # p => proc'[q] = proc[q]
        /\ UNCHANGED file \/ (Target(proc[p].w) = Absent /\ proc[p].w.target = Journal
                               /\ Holds(Journal, proc[p].w.parent, Staged(proc[p])))
    BY <1>9, RescueRenamesTyped
  <2>2. ASSUME Target(proc[p].w) = Absent, proc[p].w.target = Journal,
               Holds(Journal, proc[p].w.parent, Staged(proc[p]))
        PROVE  /\ \A t \in Targets, d \in Dirs : file[t][d] # Absent => file'[t][d] = file[t][d]
               /\ \A c \in Clients : file'[c] = file[c]
    <3>1. \A c \in Clients : file'[c] = file[c]
      BY <2>2, TargetFacts, OtherTarget
    <3>2. \A t \in Targets, d \in Dirs : file[t][d] # Absent => file'[t][d] = file[t][d]
      BY <2>2 DEF Holds, Target
    <3> QED BY <3>1, <3>2
  <2> QED BY <1>b, <2>1, <2>2 DEF userVars, historyVars
<1>10. CASE RescueVerifies(p)
  BY <1>10, <1>b, RescueVerifiesTyped DEF Stays
<1> QED BY <1>1, <1>2, <1>3, <1>4, <1>5, <1>6, <1>7, <1>8, <1>9, <1>10 DEF CommandStep

\* So no edit is lost ...
LEMMA CommandKeeps ==
    ASSUME Typed, NEW p \in Procs, CommandStep(p), NEW e \in owed, EditKept(e)
    PROVE  EditKept(e)'
<1>1. \A t \in Targets : OnDisk(t) \subseteq OnDisk(t)'
  BY CommandHolds, DiskGrows
<1> QED BY <1>1, EditIs, TargetFacts, GrowsKeeps

\* ... and the journals answer for what they answered for.
LEMMA CommandCovers ==
    ASSUME Typed, NEW p \in Procs, CommandStep(p), \A c \in Clients : Covered(file, c, looked[c]),
           NEW c \in Clients
    PROVE  Covered(file', c, looked'[c])
<1>1. file'[c] = file[c]
  BY CommandHolds
<1>2. \A d \in Dirs : file[Journal][d] # Absent => file'[Journal][d] = file[Journal][d]
  BY CommandHolds, TargetFacts
<1>3. Covered(file, c, looked'[c])
  <2>1. CASE Plan(p)
    <3>1. /\ proc[p].at = "locked"
          /\ UNCHANGED looked \/ (MayPlan(proc[p]) /\ looked' = Looks(proc[p]))
      BY <2>1, PlanTyped
    <3> QED BY <3>1, PlanCovers
  <2>2. CASE ~Plan(p)
    BY <2>2, CommandHolds
  <2> QED BY <2>1, <2>2
<1>4. ASSUME NEW d \in Dirs, NEW x, CoveredBy(c, StateOf(file[Journal][d]), x)
      PROVE  CoveredBy(c, StateOf(file'[Journal][d]), x)
  <2>1. file[Journal][d] # Absent
    BY <1>4, StateFacts DEF CoveredBy, StateOf
  <2> QED BY <1>2, <1>4, <2>1
<1> QED BY <1>1, <1>3, <1>4 DEF Covered

\* A step of a write.
LEMMA WriteAccounts ==
    ASSUME Typed, NEW p \in Procs, WriteStep(p), Accounted
    PROVE  /\ Accounts(file', looked', owed', chased', proc'[p])
           /\ \A c \in Clients : Covered(file', c, looked'[c])
           /\ \A e \in owed \ chased : EditKept(e)'
           /\ UNCHANGED <<owed, chased>>
<1>1. PICK step, temp, ok, undone, f, l :
        /\ Moves(proc[p], Target(proc[p].w), step, temp, ok, undone, f, l)
        /\ Turn(p, step, temp, ok, undone, f, l)
  BY WroteIs DEF Wrote
<1>2. Accounts(file, looked, owed, chased, proc[p]) /\ UNCHANGED <<owed, chased, looked>>
  BY WriteWorks DEF Accounted, userVars, historyVars
<1>3. proc[p].at \in SavePhases \/ proc[p].at \in ClientPhases
  BY WriteStepTyped, PhaseOfWrite DEF Typed
<1>4. Accounts(file', looked', owed', chased', proc'[p])
  BY <1>1, <1>2, <1>3, JournalTurn, ClientTurn
<1>5. ASSUME NEW c \in Clients  PROVE Covered(file', c, looked[c])
  BY <1>1, <1>2, <1>3, JournalTurnCovers, ClientTurnCovers DEF Accounted
<1>6. ASSUME NEW e \in owed \ chased  PROVE EditKept(e)'
  <2>1. e \in owed /\ e \notin chased /\ EditKept(e)
    BY DEF Accounted
  <2>2. CASE proc[p].at \in SavePhases
    BY <1>1, <1>2, <2>1, <2>2, JournalTurnKeeps
  <2>3. CASE proc[p].at \in ClientPhases
    BY <1>1, <1>2, <2>1, <2>3, ClientTurnKeeps
  <2> QED BY <1>3, <2>2, <2>3
<1> QED BY <1>2, <1>4, <1>5, <1>6

----------------------------------------------------------------------------
(* The user edits a file.                                                  *)

\* What an edit changes.
LEMMA EditFacts ==
    ASSUME Typed, NEW c \in Clients, NEW deleted \in BOOLEAN, Edit(c, deleted)
    PROVE  LET n == edits + 1  T == file[c][dir[c]]  N == file'[c][dir[c]] IN
           /\ n \in 0..MaxEdits /\ dir[c] \in Dirs /\ ~IsOurs(N)
           /\ \A t \in Targets : t # c => file'[t] = file[t]
           /\ \A d \in Dirs : d # dir[c] => file'[c][d] = file[c][d]
           /\ UNCHANGED <<proc, left, dir, torn, raced, looked>>
           /\ N = Absent \/ N.content = User(n)
           /\ owed' = (owed \ GivenUp(c, T)) \cup (IF N = Absent THEN {} ELSE {<<c, n>>})
           /\ chased \subseteq chased'
           /\ \A p \in Procs : proc[p].w.step = "undo" /\ proc[p].w.target = c /\ proc[p].w.parent = dir[c] =>
                 <<c, n>> \in chased'
<1> DEFINE n == edits + 1  T == file[c][dir[c]]  N == file'[c][dir[c]]
<1>1. /\ n \in 0..MaxEdits /\ Holds(c, dir[c], Edited(n, deleted))
      /\ UNCHANGED <<proc, left, dir, torn, raced, looked>>
      /\ owed' = (owed \ GivenUp(c, T)) \cup (IF deleted THEN {} ELSE {<<c, n>>})
      /\ chased' = IF \E p \in Procs : /\ proc[p].w.step = "undo" /\ proc[p].w.target = c
                                       /\ proc[p].w.parent = dir[c]
                   THEN chased \cup {<<c, n>>} ELSE chased
      /\ IF deleted THEN Edited(n, deleted) = Absent
         ELSE Edited(n, deleted) # Absent /\ Edited(n, deleted).content = User(n)
  BY EditTyped
<1>2. N = Edited(n, deleted) /\ dir[c] \in Dirs /\ c \in Targets
  BY <1>1, TargetFacts DEF Holds, Typed
<1>3. ~IsOurs(N)
  <2>1. User(n).by = "user"
    BY ByFacts
  <2> QED BY <1>1, <1>2, <2>1 DEF IsOurs
<1>4. \A t \in Targets : t # c => file'[t] = file[t]
  BY <1>1, <1>2, OtherTarget
<1>5. \A d \in Dirs : d # dir[c] => file'[c][d] = file[c][d]
  BY <1>1, <1>2 DEF Holds
<1>6. owed' = (owed \ GivenUp(c, T)) \cup (IF N = Absent THEN {} ELSE {<<c, n>>})
  BY <1>1, <1>2
<1> QED BY <1>1, <1>2, <1>3, <1>4, <1>5, <1>6

\* An edit discards the edit that it overwrites and no other.
LEMMA EditKeeps ==
    ASSUME Typed, NEW c \in Clients, NEW deleted \in BOOLEAN, Edit(c, deleted),
           \A e \in owed \ chased : EditKept(e), NEW e \in owed', e \notin chased'
    PROVE  EditKept(e)'
<1> DEFINE n == edits + 1  T == file[c][dir[c]]  N == file'[c][dir[c]]
<1>1. /\ dir[c] \in Dirs
      /\ \A t \in Targets : t # c => file'[t] = file[t]
      /\ \A d \in Dirs : d # dir[c] => file'[c][d] = file[c][d]
      /\ UNCHANGED <<proc, left>>
      /\ N = Absent \/ N.content = User(n)
      /\ owed' = (owed \ GivenUp(c, T)) \cup (IF N = Absent THEN {} ELSE {<<c, n>>})
      /\ chased \subseteq chased'
  BY EditFacts
<1>2. CASE e \notin owed
  <2>1. e = <<c, n>> /\ N # Absent /\ N.content = User(n)
    BY <1>1, <1>2
  <2>2. e[1] = c /\ e[2] = n
    BY <2>1
  <2>3. N \in OnDisk(c)'
    BY <1>1, <2>1, OnDiskNext
  <2> QED BY <2>1, <2>2, <2>3 DEF EditKept
<1>3. CASE e \in owed
  <2>1. EditKept(e) /\ (e \notin GivenUp(c, T) \/ e \in {<<c, n>>})
    BY <1>1, <1>3
  <2>2. ASSUME NEW t \in Targets, NEW x \in OnDisk(t), t # c \/ x # T  PROVE x \in OnDisk(t)'
    <3>1. x # Absent
      BY OnDiskIs
    <3>2. \A d \in Dirs : x = file[t][d] => x = file'[t][d]
      BY <1>1, <2>2
    <3> QED BY <1>1, <3>1, <3>2, OnDiskIs, OnDiskNext
  <2>3. \A x \in OnDisk(Journal) : x \in OnDisk(Journal)'
    BY <2>2, TargetFacts
  <2>4. ASSUME NEW x \in OnDisk(e[1]), x.content = User(e[2])  PROVE x \in OnDisk(e[1])' \/ EditKept(e)'
    <3>1. CASE e[1] = c /\ x = T
      <4>1. e \in GivenUp(c, T)
        BY <1>3, <2>4, <3>1, OnDiskIs DEF GivenUp
      <4>2. e = <<c, n>> /\ N # Absent /\ N.content = User(n)
        BY <1>1, <2>1, <4>1
      <4>3. e[1] = c /\ e[2] = n
        BY <4>2
      <4>4. N \in OnDisk(c)'
        BY <1>1, <4>2, OnDiskNext
      <4> QED BY <4>2, <4>3, <4>4 DEF EditKept
    <3>2. CASE e[1] # c \/ x # T
      BY <1>3, <2>2, <3>2, EditIs
    <3> QED BY <3>1, <3>2
  <2> QED BY <2>1, <2>3, <2>4, KeptBy
<1> QED BY <1>2, <1>3

\* An original that the user is still owed stays in a path of the client.
LEMMA EditSecured ==
    ASSUME Typed, NEW c \in Clients, NEW deleted \in BOOLEAN, Edit(c, deleted),
           NEW k \in Clients, NEW x, Secured(k, x, file[k], owed)
    PROVE  Secured(k, x, file'[k], owed')
<1> DEFINE n == edits + 1  T == file[c][dir[c]]  N == file'[c][dir[c]]
<1>1. /\ dir[c] \in Dirs
      /\ \A t \in Targets : t # c => file'[t] = file[t]
      /\ \A d \in Dirs : d # dir[c] => file'[c][d] = file[c][d]
      /\ N = Absent \/ N.content = User(n)
      /\ owed' = (owed \ GivenUp(c, T)) \cup (IF N = Absent THEN {} ELSE {<<c, n>>})
  BY EditFacts
<1> SUFFICES ASSUME NEW m \in 0..MaxEdits, x = User(m), <<k, m>> \in owed'
             PROVE  \E d \in Dirs : file'[k][d] # Absent /\ file'[k][d].content = x
  BY DEF Secured
<1>2. CASE <<k, m>> = <<c, n>> /\ N # Absent
  BY <1>1, <1>2
<1>3. CASE <<k, m>> \in owed /\ <<k, m>> \notin GivenUp(c, T)
  <2>1. PICK d \in Dirs : file[k][d] # Absent /\ file[k][d].content = x
    BY <1>3 DEF Secured
  <2>2. CASE k = c /\ d = dir[c]
    <3>1. <<k, m>>[1] = c /\ <<k, m>>[2] = m
      BY <2>2
    <3>2. <<k, m>> \in GivenUp(c, T)
      BY <1>3, <2>1, <2>2, <3>1 DEF GivenUp
    <3> QED BY <1>3, <3>2
  <2>3. CASE ~(k = c /\ d = dir[c])
    <3>1. file'[k][d] = file[k][d]
      BY <1>1, <2>3, TargetFacts
    <3> QED BY <2>1, <3>1
  <2> QED BY <2>2, <2>3
<1> QED BY <1>1, <1>2, <1>3

\* What a command knows stays true when the user edits a file.
LEMMA EditAccounts ==
    ASSUME Typed, NEW c \in Clients, NEW deleted \in BOOLEAN, Edit(c, deleted),
           NEW p \in Procs, Accounts(file, looked, owed, chased, proc[p])
    PROVE  Accounts(file', looked', owed', chased', proc[p])
<1> DEFINE r == proc[p]  n == edits + 1  N == file'[c][dir[c]]
<1>1. /\ n \in 0..MaxEdits /\ dir[c] \in Dirs /\ ~IsOurs(N)
      /\ \A t \in Targets : t # c => file'[t] = file[t]
      /\ \A d \in Dirs : d # dir[c] => file'[c][d] = file[c][d]
      /\ UNCHANGED looked /\ chased \subseteq chased' /\ (N = Absent \/ N.content = User(n))
      /\ r.w.step = "undo" /\ r.w.target = c /\ r.w.parent = dir[c] => <<c, n>> \in chased'
  BY EditFacts
<1>2. ProcOK(r) /\ DOMAIN r.plans \subseteq Clients /\ \A k \in DOMAIN r.plans : r.plans[k].parent \in Dirs
  BY PlanFacts DEF Typed, ProcOK, ProcRecs, Plans
<1>3. file'[Journal] = file[Journal]
  BY <1>1, TargetFacts
<1>4. ASSUME NEW k \in Clients, NEW d \in Dirs
      PROVE  file'[k][d] = file[k][d] \/ (~IsOurs(file'[k][d]) /\ k = c /\ d = dir[c])
  BY <1>1, TargetFacts
<1>5. ASSUME NEW k \in DOMAIN r.plans, PlanSeen(r, k, file[k], looked[k], owed)
      PROVE  PlanSeen(r, k, file'[k], looked[k], owed')
  <2>1. k \in Clients /\ r.plans[k].parent \in Dirs
    BY <1>2
  <2> DEFINE f == file[k][r.plans[k].parent]  g == file'[k][r.plans[k].parent]
  <2>2. g = f \/ ~IsOurs(g)
    BY <1>4, <2>1
  <2>3. PlanCore(r, k, file'[k], looked[k])
    BY <1>5, <2>2 DEF PlanSeen, PlanCore, KnownOurs
  <2>4. Untouched(r, k, file[k]) => Untouched(r, k, file'[k])
    BY <2>2 DEF Untouched
  <2>5. \A x : Secured(k, x, file[k], owed) => Secured(k, x, file'[k], owed')
    BY <2>1, EditSecured
  <2>6. Done(r, k, file[k], owed) => Done(r, k, file'[k], owed')
    BY <2>2, <2>5 DEF Done
  <2> QED BY <1>5, <2>3, <2>4, <2>5, <2>6 DEF PlanSeen
<1>6. ASSUME NEW k \in Clients, NEW lk, lk = 0 \/ lk \in Dirs, CoveredBefore(file, r, k, lk)
      PROVE  CoveredBefore(file', r, k, lk)
  BY <1>3, <1>4, <1>6 DEF CoveredBefore
<1>7. ASSUME r.at \in ClientPhases, WriteSeen(r, ClientFile(file, r, r.w.target), chased)
      PROVE  WriteSeen(r, ClientFile(file', r, r.w.target), chased')
  <2> DEFINE k == r.w.target  f == ClientFile(file, r, k)  g == ClientFile(file', r, k)
  <2>1. k \in DOMAIN r.plans /\ (r.w.step # "return" => r.w.parent = r.plans[k].parent)
    BY <1>2, <1>7 DEF ProcOK, PhaseOK, ClientOK
  <2>2. g = f \/ (k = c /\ r.plans[k].parent = dir[c] /\ g = N)
    BY <1>1, <1>2, <1>4, <2>1 DEF ClientFile
  <2>3. \A x : ChasedFile(k, x, chased) => ChasedFile(k, x, chased')
    BY <1>1 DEF ChasedFile
  <2>4. ASSUME r.w.step = "undo", g # f  PROVE g = Absent \/ ChasedFile(k, g, chased')
    <3>1. k = c /\ g = N /\ <<c, n>> \in chased'
      BY <1>1, <2>1, <2>2, <2>4
    <3> QED BY <1>1, <3>1 DEF ChasedFile
  <2> HIDE DEF f, g
  <2>5. WriteSeen(r, f, chased)
    BY <1>7 DEF f
  <2>6. WriteSeen(r, g, chased')
    BY <2>3, <2>4, <2>5 DEF WriteSeen, WriteSeenAt
  <2> QED BY <2>6 DEF g
<1>8. \A k \in Clients : looked[k] = 0 \/ looked[k] \in Dirs
  BY DEF Typed
<1>9. JournalSeen(r, file'[Journal][r.directory])
  BY <1>3 DEF Accounts
<1> QED BY <1>1, <1>5, <1>6, <1>7, <1>8, <1>9 DEF Accounts

\* The journals need not answer for an edit.
LEMMA EditCovers ==
    ASSUME Typed, NEW c \in Clients, NEW deleted \in BOOLEAN, Edit(c, deleted),
           NEW k \in Clients, Covered(file, k, looked[k])
    PROVE  Covered(file', k, looked'[k])
<1>1. /\ ~IsOurs(file'[c][dir[c]]) /\ looked' = looked
      /\ \A t \in Targets : t # c => file'[t] = file[t]
      /\ \A d \in Dirs : d # dir[c] => file'[c][d] = file[c][d]
  BY EditFacts
<1>2. looked[k] = 0 \/ looked[k] \in Dirs
  BY DEF Typed
<1>3. file'[Journal] = file[Journal]
  BY <1>1, TargetFacts
<1>4. looked[k] # 0 /\ IsOurs(file'[k][looked[k]]) => file'[k][looked[k]] = file[k][looked[k]]
  BY <1>1, <1>2, TargetFacts
<1> QED BY <1>1, <1>3, <1>4 DEF Covered

----------------------------------------------------------------------------
(* Every step.                                                             *)

\* Of the commands at work one takes a step that keeps the rest as it is.
LEMMA OthersRest ==
    ASSUME Solo, ~raced, NEW p \in Procs, Working(p), Accounts(file', looked', owed', chased', proc'[p]),
           \A q \in Procs : q # p => proc'[q] = proc[q],
           NEW q \in Procs, Working(q)'
    PROVE  Accounts(file', looked', owed', chased', proc'[q])
<1>1. CASE q = p
  BY <1>1
<1>2. CASE q # p
  BY <1>2 DEF Solo, Working
<1> QED BY <1>1, <1>2

\* A step after which p does not work, and that changes no other command.
LEMMA StopsWorking ==
    ASSUME NEW p \in Procs, ~Working(p)', UNCHANGED <<file, looked, owed, chased>>,
           \A q \in Procs : q # p => proc'[q] = proc[q],
           Accounted, NEW q \in Procs, Working(q)'
    PROVE  Accounts(file', looked', owed', chased', proc'[q])
<1>1. q # p /\ proc'[q] = proc[q] /\ Working(q)
  BY DEF Working
<1>2. Accounts(file, looked, owed, chased, proc[q])
  BY <1>1 DEF Accounted
<1> QED BY <1>1, <1>2

\* What is on the disk when a command dies stays there.
LEMMA CrashKeeps ==
    ASSUME Typed, NEW p \in Procs, Crash(p), NEW e, EditKept(e)
    PROVE  EditKept(e)'
<1>1. /\ UNCHANGED file /\ \A q \in Procs : q # p => proc'[q] = proc[q]
      /\ left' = IF proc[p].w.temp = Absent THEN left
                 ELSE left \cup {<<proc[p].w.target, proc[p].w.temp>>}
  BY CrashTyped
<1>2. ASSUME NEW t, NEW x \in OnDisk(t)  PROVE x \in OnDisk(t)'
  <2>1. x # Absent
    BY OnDiskIs
  <2>2. CASE \E d \in Dirs : x = file[t][d]
    BY <1>1, <2>1, <2>2, OnDiskNext
  <2>3. CASE \E l \in left : l[1] = t /\ x = l[2]
    BY <1>1, <2>1, <2>3, OnDiskNext
  <2>4. CASE \E q \in Procs : proc[q].w.target = t /\ x = proc[q].w.temp
    <3>1. PICK q \in Procs : proc[q].w.target = t /\ x = proc[q].w.temp
      BY <2>4
    <3>2. CASE q = p
      <4> DEFINE l == <<proc[p].w.target, proc[p].w.temp>>
      <4>1. l \in left' /\ l[1] = t /\ l[2] = x
        BY <1>1, <2>1, <3>1, <3>2
      <4> QED BY <2>1, <4>1, OnDiskNext
    <3>3. CASE q # p
      BY <1>1, <2>1, <3>1, <3>3, OnDiskNext
    <3> QED BY <3>2, <3>3
  <2> QED BY <2>2, <2>3, <2>4, OnDiskIs
<1> QED BY <1>2, GrowsKeeps

\* A command that has just locked knows the journal.
LEMMA LockAccounts ==
    ASSUME Typed, NEW p \in Procs, Lock(p), ~raced', Accounted, NEW q \in Procs, Working(q)'
    PROVE  Accounts(file', looked', owed', chased', proc'[q])
<1>1. /\ UNCHANGED <<file, looked, owed, chased>> /\ raced' = (raced \/ \E k \in Procs : Working(k))
      /\ \A k \in Procs : k # p => proc'[k] = proc[k]
      /\ proc'[p].at = "idle" \/ /\ proc'[p].at = "locked" /\ proc'[p].directory = dir[Journal]
                                 /\ proc'[p].journal = file[Journal][dir[Journal]]
  BY LockTyped
<1>2. CASE q # p
  BY <1>1, <1>2 DEF Working
<1>3. CASE q = p
  <2> DEFINE z == proc'[p]
  <2>1. z.at = "locked" /\ file[Journal][z.directory] = z.journal
    BY <1>1, <1>3 DEF Working
  <2> HIDE DEF z
  <2>2. Accounts(file', looked', owed', chased', z)
    BY <1>1, <2>1 DEF Accounts, JournalSeen, JournalSays, Resting, SavePhases, ClientPhases
  <2> QED BY <1>3, <2>2 DEF z
<1> QED BY <1>2, <1>3

\* Every step keeps what the commands know, what the journals answer for and
\* the user's edits.
LEMMA AccountsStep ==
    ASSUME Typed, Solo, AccountedUntilTorn, [Next]_vars
    PROVE  AccountedUntilTorn'
<1> SUFFICES ASSUME ~raced', ~torn'  PROVE Accounted'
  BY DEF AccountedUntilTorn
<1>a. ~raced /\ ~torn /\ Accounted
  BY SoloStep DEF AccountedUntilTorn
<1>b. /\ \A q \in Procs : Working(q) => Accounts(file, looked, owed, chased, proc[q])
      /\ \A k \in Clients : Covered(file, k, looked[k])
      /\ \A e \in owed \ chased : EditKept(e)
  BY <1>a DEF Accounted
<1>c. ASSUME \A q \in Procs : Working(q)' => Accounts(file', looked', owed', chased', proc'[q]),
             \A k \in Clients : Covered(file', k, looked'[k]),
             \A e \in owed' \ chased' : EditKept(e)'
      PROVE  Accounted'
  BY <1>c DEF Accounted
<1>d. UNCHANGED <<file, looked>> => \A k \in Clients : Covered(file', k, looked'[k])
  BY <1>b
<1>1. ASSUME NEW p \in Procs, NEW cmd \in Commands, NEW X \in Selections, NEW v \in Versions, Start(p, cmd, X, v)
      PROVE  Accounted'
  <2>1. /\ proc[p].at = "idle" /\ proc'[p].at = "locking" /\ \A q \in Procs : q # p => proc'[q] = proc[q]
    BY <1>1, StartTyped
  <2>2. UNCHANGED <<file, left, looked, owed, chased>>
    BY <1>1 DEF Start, historyVars
  <2>3. proc[p].w.temp = Absent
    BY <2>1, NoWriteFacts DEF Typed, ProcOK, PhaseOK, RestOK, Resting
  <2>4. \A t \in Targets : OnDisk(t) \subseteq OnDisk(t)'
    BY <2>1, <2>2, <2>3, DiskGrows
  <2>5. ASSUME NEW e \in owed \ chased  PROVE EditKept(e)'
    BY <1>b, <2>4, EditIs, TargetFacts, GrowsKeeps
  <2>6. ~Working(p)'
    BY <2>1 DEF Working
  <2>7. \A q \in Procs : Working(q)' => Accounts(file', looked', owed', chased', proc'[q])
    BY <1>a, <2>1, <2>2, <2>6, StopsWorking
  <2> QED BY <1>c, <1>d, <2>2, <2>5, <2>7
<1>2. ASSUME NEW p \in Procs, WriteStep(p)  PROVE Accounted'
  <2>1. Working(p) /\ \A q \in Procs : q # p => proc'[q] = proc[q]
    BY <1>2, WriteWorks
  <2>2. /\ Accounts(file', looked', owed', chased', proc'[p])
        /\ \A k \in Clients : Covered(file', k, looked'[k])
        /\ \A e \in owed \ chased : EditKept(e)'
        /\ UNCHANGED <<owed, chased>>
    BY <1>2, <1>a, WriteAccounts
  <2>3. \A q \in Procs : Working(q)' => Accounts(file', looked', owed', chased', proc'[q])
    BY <1>a, <2>1, <2>2, OthersRest
  <2> QED BY <1>c, <2>2, <2>3
<1>3. ASSUME NEW p \in Procs, CommandStep(p)  PROVE Accounted'
  <2>1. UNCHANGED <<owed, chased>>
    BY <1>3, CommandHolds
  <2>2. \A e \in owed \ chased : EditKept(e)'
    BY <1>3, <1>b, CommandKeeps
  <2>3. \A k \in Clients : Covered(file', k, looked'[k])
    BY <1>3, <1>b, CommandCovers
  <2>4. CASE Lock(p)
    <3>1. \A q \in Procs : Working(q)' => Accounts(file', looked', owed', chased', proc'[q])
      BY <1>a, <2>4, LockAccounts
    <3> QED BY <1>c, <2>1, <2>2, <2>3, <3>1
  <2>5. CASE ~Lock(p)
    <3>1. Working(p) /\ \A q \in Procs : q # p => proc'[q] = proc[q]
      BY <1>3, <2>5, CommandWorks
    <3>2. ASSUME NEW q \in Procs, Working(q)'  PROVE Accounts(file', looked', owed', chased', proc'[q])
      <4>1. Working(p)'
        BY <1>a, <3>1, <3>2 DEF Solo, Working
      <4>2. Accounts(file', looked', owed', chased', proc'[p])
        BY <1>3, <1>a, <2>5, <4>1, CommandAccounts
      <4> QED BY <1>a, <3>1, <3>2, <4>2, OthersRest
    <3> QED BY <1>c, <2>1, <2>2, <2>3, <3>2
  <2> QED BY <2>4, <2>5
<1>4. ASSUME NEW p \in Procs, Crash(p)  PROVE Accounted'
  <2>1. /\ UNCHANGED <<file, looked, owed, chased>> /\ Ended(proc'[p]) /\ \A q \in Procs : q # p => proc'[q] = proc[q]
    BY <1>4, CrashTyped
  <2>2. ~Working(p)'
    BY <2>1 DEF Working, Ended
  <2>3. \A q \in Procs : Working(q)' => Accounts(file', looked', owed', chased', proc'[q])
    BY <1>a, <2>1, <2>2, StopsWorking
  <2>4. \A e \in owed \ chased : EditKept(e)'
    BY <1>4, <1>b, CrashKeeps
  <2> QED BY <1>c, <1>d, <2>1, <2>3, <2>4
<1>5. ASSUME NEW c \in Clients, NEW deleted \in BOOLEAN, Edit(c, deleted)  PROVE Accounted'
  <2>1. proc' = proc
    BY <1>5 DEF Edit
  <2>2. ASSUME NEW q \in Procs, Working(q)'  PROVE Accounts(file', looked', owed', chased', proc'[q])
    <3>1. Working(q) /\ proc'[q] = proc[q]
      BY <2>1, <2>2 DEF Working
    <3>2. Accounts(file', looked', owed', chased', proc[q])
      BY <1>5, <1>b, <3>1, EditAccounts
    <3> QED BY <3>1, <3>2
  <2>3. \A k \in Clients : Covered(file', k, looked'[k])
    BY <1>5, <1>b, EditCovers
  <2>4. \A e \in owed' \ chased' : EditKept(e)'
    BY <1>5, <1>b, EditKeeps
  <2> QED BY <1>c, <2>2, <2>3, <2>4
<1>6. ASSUME UNCHANGED <<file, proc, left, owed, chased, looked>>  PROVE Accounted'
  BY <1>6, <1>a DEF Accounted, EditKept, OnDisk, Working
<1>7. ASSUME NEW t \in Movable, NEW d \in Dirs, MoveDirectory(t, d)  PROVE Accounted'
  BY <1>6, <1>7, MoveTyped
<1>8. CASE ReplaceLock
  BY <1>6, <1>8, ReplaceTyped
<1>9. CASE UNCHANGED vars
  BY <1>6, <1>9 DEF vars
<1> QED BY <1>1, <1>2, <1>3, <1>4, <1>5, <1>7, <1>8, <1>9 DEF Next

----------------------------------------------------------------------------
(* The theorems.                                                           *)

\* The three hold at the start.
LEMMA InitAccounts ==
    ASSUME Init
    PROVE  Solo /\ Reverts /\ AccountedUntilTorn
<1>1. Typed
  BY InitTyped
<1>2. \A p \in Procs : proc[p].at = "idle"
  BY IdleFacts DEF Init, Idle
<1>3. Solo /\ Reverts
  BY <1>2 DEF Solo, Reverts, Working, Resting
<1>4. PICK X \in SUBSET Clients :
        /\ file = [t \in Targets |-> [d \in Dirs |-> IF t \in X /\ d = 1 THEN File(User(0), 0) ELSE Absent]]
        /\ owed = {<<c, 0>> : c \in X}
  BY DEF Init
<1>5. 1 \in Dirs /\ File(User(0), 0).content = User(0) /\ User(0).by = "user"
  BY NumberFacts, ByFacts DEF File
<1>6. ASSUME NEW c \in Clients  PROVE Covered(file, c, looked[c])
  <2>1. looked[c] = 1 /\ c \in Targets
    BY <1>6, TargetFacts DEF Init
  <2>2. file[c][1] = Absent \/ file[c][1] = File(User(0), 0)
    BY <1>4, <1>5, <2>1
  <2>3. ~IsOurs(file[c][1])
    BY <1>5, <2>2 DEF IsOurs
  <2> QED BY <2>1, <2>3 DEF Covered
<1>7. ASSUME NEW e \in owed  PROVE EditKept(e)
  <2>1. PICK c \in X : e = <<c, 0>>
    BY <1>4
  <2>2. e[1] = c /\ e[2] = 0 /\ c \in Targets
    BY <2>1, TargetFacts
  <2>3. file[c][1] = File(User(0), 0)
    BY <1>4, <1>5, <2>2
  <2>4. File(User(0), 0) # Absent
    <3>1. 0 \in 0..MaxRuns /\ User(0) \in Contents
      BY NumberFacts DEF Contents
    <3> QED BY <3>1, AbsentAssumption
  <2>5. File(User(0), 0) \in OnDisk(c)
    BY <1>5, <2>3, <2>4, OnDiskIs
  <2> QED BY <1>5, <2>2, <2>5 DEF EditKept
<1>8. \A p \in Procs : ~Working(p)
  BY <1>2 DEF Working
<1> QED BY <1>3, <1>6, <1>7, <1>8 DEF AccountedUntilTorn, Accounted

SetupInv == Typed /\ Solo /\ Reverts /\ AccountedUntilTorn

\* The invariant holds in every state of every behaviour.
LEMMA SetupInvariant == Spec => []SetupInv
<1>1. Init => SetupInv
  BY InitTyped, InitAccounts DEF SetupInv
<1>2. SetupInv /\ [Next]_vars => SetupInv'
  BY TypedStep, SoloStep, RevertsStep, AccountsStep DEF SetupInv
<1> QED BY <1>1, <1>2, PTL DEF Spec

\* The types of the runs follow from those of the proofs ...
LEMMA TypedTypeOK ==
    ASSUME Typed
    PROVE  TypeOK
<1>1. ASSUME NEW t \in Targets, NEW f \in FilesOf(t) \cup {Absent}  PROVE IsFile(t, f)
  BY <1>1, FileParts DEF IsFile, ContentsOf, Targets
<1>2. \A t \in Targets : dir[t] \in Dirs /\ \A d \in Dirs : IsFile(t, file[t][d])
  BY <1>1 DEF Typed
<1>3. ASSUME NEW p \in Procs
      PROVE  LET w == proc[p].w IN
             /\ [step |-> w.step, target |-> w.target, parent |-> w.parent, ok |-> w.ok,
                 undone |-> w.undone, late |-> w.late, locked |-> w.locked] \in Writes
             /\ IsFile(w.target, w.temp)
             /\ w.step \in {"none", "check", "return"} => w.temp = Absent
             /\ proc[p].slipped \subseteq Clients
             /\ proc[p].state \in States /\ proc[p].recovery \in States
  <2>1. proc[p] \in ProcRecs /\ WriteOK(proc[p].w)
    BY DEF Typed, ProcOK
  <2>2. /\ proc[p].w \in WriteRecs /\ proc[p].state \in States /\ proc[p].recovery \in States
        /\ proc[p].slipped \subseteq Clients
    BY <2>1 DEF ProcRecs
  <2>3. [step |-> proc[p].w.step, target |-> proc[p].w.target, parent |-> proc[p].w.parent, ok |-> proc[p].w.ok,
         undone |-> proc[p].w.undone, late |-> proc[p].w.late, locked |-> proc[p].w.locked] \in Writes /\ proc[p].w.target \in Targets
    BY <2>2 DEF WriteRecs, Writes
  <2> QED BY <1>1, <2>1, <2>2, <2>3 DEF WriteOK
<1>4. ASSUME NEW l \in left  PROVE l[1] \in Targets /\ l[2] # Absent /\ IsFile(l[1], l[2])
  <2>1. l[1] \in Targets /\ l[2] \in FilesOf(l[1])
    BY DEF Typed
  <2> QED BY <1>1, <2>1, FileParts
<1>5. \A c \in Clients : looked[c] \in Dirs \cup {0}
  BY DEF Typed
<1> QED BY <1>2, <1>3, <1>4, <1>5 DEF TypeOK

\* ... and what restore needs from what the journals answer for.
LEMMA CoveredRecoverable ==
    ASSUME Typed, \A c \in Clients : Covered(file, c, looked[c])
    PROVE  Recoverable
<1> SUFFICES ASSUME NEW c \in Clients, looked[c] = dir[c], IsOurs(Found(c))
             PROVE  \E f \in OnDisk(Journal) : c \in DOMAIN f.content /\ Accepts(f.content[c], Found(c))
  BY DEF Recoverable
<1>1. looked[c] # 0 /\ file[c][looked[c]] = Found(c)
  BY NumberFacts, TargetFacts DEF Typed, Found, Dirs
<1>2. PICK d \in Dirs : CoveredBy(c, StateOf(file[Journal][d]), Found(c))
  BY <1>1 DEF Covered
<1>3. file[Journal][d] # Absent
  BY <1>2, StateFacts DEF CoveredBy, StateOf
<1>4. file[Journal][d] \in OnDisk(Journal)
  BY <1>3, OnDiskIs
<1> QED BY <1>2, <1>3, <1>4 DEF CoveredBy, StateOf

\* Whatever the commands do (client_setup.rs), whenever they die and whatever the user moves or
\* replaces meanwhile, what the user wrote and did not discard is on the disk, unless a rollback
\* began after the last save took effect (also one that then failed to unlink or to sync, 1568),
\* two commands worked at once or the edit fell into the exchange.
THEOREM NoEditLost == Spec => []FilesKept
<1>1. SetupInv => FilesKept
  BY TypedTypeOK DEF SetupInv, FilesKept, EditsKept, AccountedUntilTorn, Accounted
<1> QED BY <1>1, SetupInvariant, PTL

\* At every moment a journal on the disk accepts what a command left at a client's path, so that a
\* later restore (snapshot_accepts) does not take it for an edit of the user; with the exceptions of
\* torn and raced: a final save that fails after it took effect ends this (1568-1578).
THEOREM AlwaysRecoverable == Spec => []RecoverableUntilTorn
<1>1. SetupInv => RecoverableUntilTorn
  BY CoveredRecoverable DEF SetupInv, RecoverableUntilTorn, AccountedUntilTorn, Accounted
<1> QED BY <1>1, SetupInvariant, PTL

\* A command that reports a failure and a complete rollback (abort_transaction) has left none of
\* its files at any path that it planned for, but at that of the client whose write failed after it
\* took effect (unlinkat or sync_all, 1568-1578 and 1657-1667), which it never counted as applied.
THEOREM AllOrNone == Spec => UndoneIsUndone
<1>1. ASSUME SetupInv, [Next]_vars
      PROVE  [\A p \in Procs : proc[p].at # "idle" /\ proc'[p].result = "undone" => raced \/ LeavesNothing(p)]_vars
  BY <1>1, UndoneStep DEF SetupInv
<1>2. SetupInv /\ [Next]_vars =>
        [\A p \in Procs : proc[p].at # "idle" /\ proc'[p].result = "undone" => raced \/ LeavesNothing(p)]_vars
  BY <1>1
<1> QED BY <1>2, SetupInvariant, PTL DEF Spec, UndoneIsUndone

----------------------------------------------------------------------------
(* Updates.                                                                *)

Images == Releases \cup {Missing}
ProcessPhases == {"serving", "draining", "launching", "restoring", "relaunching", "down"}
Early == {"locate", "prepare", "backup", "replace"}
Places == Early \cup {"none", "moved", "missing", "installed", "broken", "failed", "notify"}
AskPlaces == {"idle", "lock", "asking", "replied", "checked", "read"}

Disks == [exe : Images, backup : Images]
Processes == [version : Releases, phase : ProcessPhases, moved : BOOLEAN, stopped : BOOLEAN,
              notified : BOOLEAN, restart : BOOLEAN]
Checkers(latest) == [latest : 0..latest, recent : BOOLEAN, holder : Askers \cup {NoAsker}]
Installs == [status : {"idle", "downloading", "restarting", "failed"}, version : Images,
             disabled : BOOLEAN, pending : BOOLEAN]
Tasks == [at : Places, version : Images, relocated : BOOLEAN]
Calls(latest) == [at : AskPlaces, wants : Int, saw : 0..latest]

UpdatesTyped ==
    /\ platform \in {"unix", "windows"}
    /\ released \in Releases
    /\ disk \in Disks
    /\ process \in Processes
    /\ checker \in Checkers(released)
    /\ install \in Installs
    /\ task \in Tasks
    /\ asker \in [Askers -> Calls(released)]

\* The lock on last_check is held by the one caller that asks the host.
Locked == \A a \in Askers : asker[a].at \in {"asking", "replied"} <=> checker.holder = a

\* The status says where the task is, and admits no second one.
InstallStaged ==
    /\ task.at # "none" => install.status = IF task.at = "notify" THEN "restarting" ELSE "downloading"
    /\ install.pending => install.status = "restarting"
    /\ process.phase \in {"launching", "restoring", "relaunching"} => install.pending
    /\ process.phase = "down" => task.at = "none" /\ \A a \in Askers : asker[a].at = "idle"

\* Until the image moves, the executable is the one that runs; an image that was moved away
\* on Windows is not installed over again.
ImageMoved ==
    /\ process.phase \in {"serving", "draining"} /\ ~process.moved => disk.exe = process.version
    /\ task.at \in Early => ~install.disabled
    /\ task.at \in Early \ {"locate"} => ~process.moved
    /\ task.at \in {"moved", "missing", "installed"} => process.moved
    /\ platform = "windows" /\ process.moved =>
          \/ install.disabled \/ install.status = "restarting"
          \/ task.at \in {"moved", "missing", "installed", "broken"}
    /\ ~task.relocated

\* From the backup on the version that runs is kept, and the one that is installed is newer.
Replaced ==
    /\ process.version \in {disk.exe, disk.backup}
    /\ task.at \in {"replace", "moved", "missing", "installed"} \/ install.pending =>
          disk.backup = process.version
    /\ task.at # "none" => task.version = install.version /\ task.version > process.version
    /\ task.at = "installed" => disk.exe = install.version
    /\ install.pending /\ process.phase # "relaunching" => disk.exe = install.version
    /\ process.phase = "relaunching" => disk.exe = process.version
    /\ process.phase = "draining" /\ process.restart => ~process.stopped

UpdatesInv == UpdatesTyped /\ Locked /\ InstallStaged /\ ImageMoved /\ Replaced

----------------------------------------------------------------------------
(* Types: a call is replaced by a call, a phase by a phase, a place by a place. *)

LEMMA AskerTyped ==
    ASSUME UpdatesTyped, NEW a \in Askers, NEW call \in Calls(released), asker' = [asker EXCEPT ![a] = call]
    PROVE  asker' \in [Askers -> Calls(released)]
  BY DEF UpdatesTyped

LEMMA TaskTyped ==
    ASSUME UpdatesTyped, NEW at \in Places, TaskGoes(at)
    PROVE  /\ task' \in Tasks
           /\ task'.at = at /\ task'.version = task.version /\ task'.relocated = task.relocated
  BY DEF UpdatesTyped, TaskGoes, Tasks

LEMMA ExeTyped ==
    ASSUME UpdatesTyped, ImageMoved, NEW exe \in Images, Onto([disk EXCEPT !.exe = exe])
    PROVE  disk' \in Disks /\ disk'.exe = exe /\ disk'.backup = disk.backup
  BY DEF UpdatesTyped, ImageMoved, Onto, Disks

LEMMA BackupTyped ==
    ASSUME UpdatesTyped, ImageMoved, NEW backup \in Images, Onto([disk EXCEPT !.backup = backup])
    PROVE  disk' \in Disks /\ disk'.exe = disk.exe /\ disk'.backup = backup
  BY DEF UpdatesTyped, ImageMoved, Onto, Disks

LEMMA Fields ==
    ASSUME UpdatesTyped
    PROVE  /\ disk.exe \in Images /\ disk.backup \in Images
           /\ process.version \in Releases /\ process.phase \in ProcessPhases
           /\ checker.latest \in 0..released /\ checker.holder \in Askers \cup {NoAsker}
           /\ task.at \in Places /\ task.version \in Images
           /\ install.version \in Images
  BY DEF UpdatesTyped, Disks, Processes, Checkers, Tasks, Installs

LEMMA UpdatesStart == UpdatesInit => UpdatesInv
  BY UpdatesAssumption DEF UpdatesInit, UpdatesInv, UpdatesTyped, Locked, InstallStaged, ImageMoved, Replaced, Images, ProcessPhases, Early,
     Places, AskPlaces, Disks, Processes, Checkers, Installs, Tasks, Calls, Serving, NewChecker, NewInstall,
     NoTask, NotAsking, Missing, Unknown, NoInstall, Releases

----------------------------------------------------------------------------
(* A process ends or begins.                                               *)

LEMMA TurnsInv ==
    ASSUME UpdatesTyped, NEW next \in Processes, Turns(next), UNCHANGED <<platform, released, disk>>,
           next.phase \in {"serving", "down"}, ~next.moved, ~next.stopped,
           next.version \in {disk.exe, disk.backup},
           next.phase = "serving" => disk.exe = next.version
    PROVE  UpdatesInv'
  <1>1. UpdatesTyped' /\ process' = next
    <2>1. checker' \in Checkers(released)
      BY UpdatesAssumption DEF Turns, NewChecker, Checkers, Unknown, UpdatesTyped, Releases
    <2>2. install' \in Installs BY DEF Turns, NewInstall, Installs, Images
    <2>3. task' \in Tasks BY DEF Turns, NoTask, Tasks, Places, Images
    <2>4. asker' \in [Askers -> Calls(released)]
      BY UpdatesAssumption DEF Turns, NotAsking, Calls, AskPlaces, NoInstall, Unknown, UpdatesTyped, Releases
    <2> QED BY <2>1, <2>2, <2>3, <2>4 DEF UpdatesTyped, Turns
  <1>2. Locked' BY UpdatesAssumption DEF Locked, Turns, NewChecker, NotAsking
  <1>3. InstallStaged' BY <1>1 DEF InstallStaged, Turns, NewInstall, NoTask, NotAsking
  <1>4. ImageMoved' BY <1>1 DEF ImageMoved, Turns, NoTask, Early
  <1>5. Replaced' BY <1>1 DEF Replaced, Turns, NewInstall, NoTask
  <1> QED BY <1>1, <1>2, <1>3, <1>4, <1>5 DEF UpdatesInv

LEMMA EndsInv == ASSUME UpdatesInv, Ends, UNCHANGED <<platform, released, disk>> PROVE UpdatesInv'
  <1> DEFINE next == [Serving(process.version) EXCEPT !.phase = "down"]
  <1>1. /\ next \in Processes /\ next.phase = "down" /\ ~next.moved /\ ~next.stopped
        /\ next.version = process.version
    BY Fields DEF UpdatesInv, Serving, Processes, ProcessPhases
  <1>2. Turns(next) BY DEF Ends
  <1> HIDE DEF next
  <1> QED BY <1>1, <1>2, TurnsInv DEF UpdatesInv, Replaced

LEMMA BootsInv ==
    ASSUME UpdatesInv, disk.exe # Missing, Boots(disk.exe), UNCHANGED <<platform, released, disk>> PROVE UpdatesInv'
  <1> DEFINE next == Serving(disk.exe)
  <1>1. next \in Processes /\ next.phase = "serving" /\ ~next.moved /\ ~next.stopped /\ next.version = disk.exe
    BY Fields DEF UpdatesInv, Serving, Processes, ProcessPhases, Images
  <1>2. Turns(next) BY DEF Boots
  <1> HIDE DEF next
  <1> QED BY <1>1, <1>2, TurnsInv DEF UpdatesInv

----------------------------------------------------------------------------
(* One lemma for each action.                                              *)

LEMMA CoolsInv == ASSUME UpdatesInv, Cools PROVE UpdatesInv'
  <1>1. UpdatesTyped'
    <2>1. checker' \in Checkers(released) BY DEF Cools, UpdatesInv, UpdatesTyped, Checkers
    <2> QED BY <2>1 DEF Cools, UpdatesInv, UpdatesTyped
  <1>2. Locked' BY UpdatesAssumption DEF Cools, UpdatesInv, UpdatesTyped, Locked, Checkers
  <1>3. InstallStaged' BY DEF Cools, UpdatesInv, InstallStaged
  <1>4. ImageMoved' BY DEF Cools, UpdatesInv, ImageMoved
  <1>5. Replaced' BY DEF Cools, UpdatesInv, Replaced
  <1> QED BY <1>1, <1>2, <1>3, <1>4, <1>5 DEF UpdatesInv

LEMMA AskInv ==
    ASSUME NEW a \in Askers, NEW version \in (1..released) \cup {NoInstall}, UpdatesInv, Ask(a, version) PROVE UpdatesInv'
  <1>1. UpdatesTyped'
    <2>1. asker' \in [Askers -> Calls(released)]
      <3>1. [at |-> "lock", wants |-> version, saw |-> Unknown] \in Calls(released)
        BY UpdatesAssumption DEF Ask, Calls, AskPlaces, Unknown, NoInstall, UpdatesInv, UpdatesTyped, Releases
      <3> QED BY <3>1, AskerTyped DEF UpdatesInv, Ask
    <2> QED BY <2>1 DEF Ask, UpdatesInv, UpdatesTyped
  <1>2. Locked' BY DEF Ask, UpdatesInv, UpdatesTyped, Locked, Calls
  <1>3. InstallStaged' BY DEF Ask, UpdatesInv, UpdatesTyped, InstallStaged, Calls
  <1>4. ImageMoved' BY DEF Ask, UpdatesInv, ImageMoved
  <1>5. Replaced' BY DEF Ask, UpdatesInv, Replaced
  <1> QED BY <1>1, <1>2, <1>3, <1>4, <1>5 DEF UpdatesInv

LEMMA LoopAsksInv == ASSUME NEW a \in Askers, UpdatesInv, LoopAsks(a) PROVE UpdatesInv'
  <1>1. UpdatesTyped'
    <2>1. asker' \in [Askers -> Calls(released)]
      <3>1. [at |-> "lock", wants |-> Loop, saw |-> Unknown] \in Calls(released)
        BY UpdatesAssumption DEF LoopAsks, Calls, AskPlaces, Unknown, Loop, UpdatesInv, UpdatesTyped, Releases
      <3> QED BY <3>1, AskerTyped DEF UpdatesInv, LoopAsks
    <2> QED BY <2>1 DEF LoopAsks, UpdatesInv, UpdatesTyped
  <1>2. Locked' BY DEF LoopAsks, UpdatesInv, UpdatesTyped, Locked, Calls
  <1>3. InstallStaged' BY DEF LoopAsks, UpdatesInv, UpdatesTyped, InstallStaged, Calls
  <1>4. ImageMoved' BY DEF LoopAsks, UpdatesInv, ImageMoved
  <1>5. Replaced' BY DEF LoopAsks, UpdatesInv, Replaced
  <1> QED BY <1>1, <1>2, <1>3, <1>4, <1>5 DEF UpdatesInv

LEMMA AcquireCheckInv == ASSUME NEW a \in Askers, UpdatesInv, AcquireCheck(a) PROVE UpdatesInv'
  <1>1. UpdatesTyped'
    <2>1. checker' \in Checkers(released) BY DEF AcquireCheck, AskerAt, UpdatesInv, UpdatesTyped, Checkers
    <2>2. asker' \in [Askers -> Calls(released)] BY UpdatesAssumption DEF AcquireCheck, AskerAt, UpdatesInv, UpdatesTyped,
      Calls, AskPlaces
    <2> QED BY <2>1, <2>2 DEF AcquireCheck, UpdatesInv, UpdatesTyped
  <1>2. Locked' BY UpdatesAssumption DEF AcquireCheck, AskerAt, UpdatesInv, UpdatesTyped, Locked, Checkers, Calls
  <1>3. InstallStaged' BY DEF AcquireCheck, AskerAt, UpdatesInv, UpdatesTyped, InstallStaged, Calls
  <1>4. ImageMoved' BY DEF AcquireCheck, UpdatesInv, ImageMoved
  <1>5. Replaced' BY DEF AcquireCheck, UpdatesInv, Replaced
  <1> QED BY <1>1, <1>2, <1>3, <1>4, <1>5 DEF UpdatesInv

LEMMA HostRepliesInv == ASSUME NEW a \in Askers, UpdatesInv, HostReplies(a) PROVE UpdatesInv'
  <1>1. UpdatesTyped'
    <2>1. PICK latest \in {released, Unknown} :
              asker' = [asker EXCEPT ![a].at = "replied", ![a].saw = latest]
      BY DEF HostReplies
    <2>2. [asker[a] EXCEPT !.at = "replied", !.saw = latest] \in Calls(released)
      <3>1. asker[a] \in Calls(released) BY DEF UpdatesInv, UpdatesTyped
      <3>2. latest \in 0..released BY UpdatesAssumption DEF UpdatesInv, UpdatesTyped, Releases, Unknown
      <3> QED BY <3>1, <3>2 DEF Calls, AskPlaces
    <2>3. asker' = [asker EXCEPT ![a] = [asker[a] EXCEPT !.at = "replied", !.saw = latest]]
      BY <2>1 DEF UpdatesInv, UpdatesTyped
    <2>4. asker' \in [Askers -> Calls(released)] BY <2>2, <2>3, AskerTyped DEF UpdatesInv
    <2> QED BY <2>4 DEF HostReplies, UpdatesInv, UpdatesTyped
  <1>2. Locked' BY DEF HostReplies, UpdatesInv, UpdatesTyped, Locked, Calls
  <1>3. InstallStaged' BY DEF HostReplies, UpdatesInv, UpdatesTyped, InstallStaged, Calls
  <1>4. ImageMoved' BY DEF HostReplies, UpdatesInv, ImageMoved
  <1>5. Replaced' BY DEF HostReplies, UpdatesInv, Replaced
  <1> QED BY <1>1, <1>2, <1>3, <1>4, <1>5 DEF UpdatesInv

LEMMA RecordInv == ASSUME NEW a \in Askers, UpdatesInv, Record(a) PROVE UpdatesInv'
  <1>1. UpdatesTyped'
    <2>1. checker' \in Checkers(released)
      <3>1. asker[a].saw \in 0..released BY DEF UpdatesInv, UpdatesTyped, Calls
      <3> QED BY <3>1 DEF Record, Recorded, UpdatesInv, UpdatesTyped, Checkers
    <2>2. asker' \in [Askers -> Calls(released)] BY UpdatesAssumption DEF Record, Recorded, AskerAt, UpdatesInv,
      UpdatesTyped, Calls, AskPlaces
    <2> QED BY <2>1, <2>2 DEF Record, UpdatesInv, UpdatesTyped
  <1>2. Locked' BY UpdatesAssumption DEF Record, Recorded, AskerAt, UpdatesInv, UpdatesTyped, Locked, Checkers, Calls
  <1>3. InstallStaged' BY DEF Record, Recorded, AskerAt, UpdatesInv, UpdatesTyped, InstallStaged, Calls
  <1>4. ImageMoved' BY DEF Record, UpdatesInv, ImageMoved
  <1>5. Replaced' BY DEF Record, UpdatesInv, Replaced
  <1> QED BY <1>1, <1>2, <1>3, <1>4, <1>5 DEF UpdatesInv

LEMMA DroppedInv == ASSUME NEW a \in Askers, UpdatesInv, Dropped(a) PROVE UpdatesInv'
  <1>1. UpdatesTyped'
    <2>1. checker' \in Checkers(released) BY DEF Dropped, Free, NotAsking, UpdatesInv, UpdatesTyped, Checkers
    <2>2. asker' \in [Askers -> Calls(released)]
      <3>1. NotAsking \in Calls(released)
        BY UpdatesAssumption DEF Dropped, NotAsking, Calls, AskPlaces, Unknown, NoInstall, UpdatesInv, UpdatesTyped, Releases
      <3> QED BY <3>1, AskerTyped DEF UpdatesInv, Dropped
    <2> QED BY <2>1, <2>2 DEF Dropped, UpdatesInv, UpdatesTyped
  <1>2. Locked' BY UpdatesAssumption DEF Dropped, Free, NotAsking, UpdatesInv, UpdatesTyped, Locked, Checkers, Calls
  <1>3. InstallStaged' BY DEF Dropped, Free, NotAsking, UpdatesInv, UpdatesTyped, InstallStaged, Calls
  <1>4. ImageMoved' BY DEF Dropped, UpdatesInv, ImageMoved
  <1>5. Replaced' BY DEF Dropped, UpdatesInv, Replaced
  <1> QED BY <1>1, <1>2, <1>3, <1>4, <1>5 DEF UpdatesInv

LEMMA ReadInfoInv == ASSUME NEW a \in Askers, UpdatesInv, ReadInfo(a) PROVE UpdatesInv'
  <1>1. UpdatesTyped'
    <2> DEFINE call == IF asker[a].wants \in {NoInstall, Loop} THEN NotAsking
                       ELSE [asker[a] EXCEPT !.at = "read", !.saw = checker.latest]
    <2>1. asker[a] \in Calls(released) /\ checker.latest \in 0..released BY Fields DEF UpdatesInv, UpdatesTyped
    <2>2. NotAsking \in Calls(released)
      BY UpdatesAssumption DEF NotAsking, Calls, AskPlaces, Unknown, NoInstall, UpdatesInv, UpdatesTyped, Releases
    <2>3. [asker[a] EXCEPT !.at = "read", !.saw = checker.latest] \in Calls(released)
      BY <2>1 DEF Calls, AskPlaces
    <2>4. call \in Calls(released) BY <2>2, <2>3
    <2>5. asker' = [asker EXCEPT ![a] = call] BY DEF ReadInfo, UpdatesInv, UpdatesTyped
    <2> HIDE DEF call
    <2>6. asker' \in [Askers -> Calls(released)] BY <2>4, <2>5, AskerTyped DEF UpdatesInv
    <2> QED BY <2>6 DEF ReadInfo, UpdatesInv, UpdatesTyped
  <1>2. Locked' BY DEF ReadInfo, NotAsking, UpdatesInv, UpdatesTyped, Locked, Calls
  <1>3. InstallStaged' BY DEF ReadInfo, NotAsking, UpdatesInv, UpdatesTyped, InstallStaged, Calls
  <1>4. ImageMoved' BY DEF ReadInfo, UpdatesInv, ImageMoved
  <1>5. Replaced' BY DEF ReadInfo, UpdatesInv, Replaced
  <1> QED BY <1>1, <1>2, <1>3, <1>4, <1>5 DEF UpdatesInv

LEMMA BrokenInv == ASSUME UpdatesInv, Broken PROVE UpdatesInv'
  <1>1. UpdatesTyped'
    <2>1. install' \in Installs BY DEF Broken, TaskGoes, UpdatesInv, UpdatesTyped, Installs
    <2>2. task' \in Tasks BY TaskTyped DEF Broken, UpdatesInv, Places
    <2> QED BY <2>1, <2>2 DEF Broken, UpdatesInv, UpdatesTyped
  <1>2. Locked' BY DEF Broken, UpdatesInv, Locked
  <1>3. InstallStaged' BY DEF Broken, TaskGoes, UpdatesInv, UpdatesTyped, InstallStaged, Installs, Tasks
  <1>4. ImageMoved' BY DEF Broken, TaskGoes, UpdatesInv, UpdatesTyped, ImageMoved, Early, Installs, Tasks
  <1>5. Replaced' BY DEF Broken, TaskGoes, UpdatesInv, UpdatesTyped, Replaced, Installs, Tasks
  <1> QED BY <1>1, <1>2, <1>3, <1>4, <1>5 DEF UpdatesInv

LEMMA NotifyInv == ASSUME UpdatesInv, Notify PROVE UpdatesInv'
  <1>1. UpdatesTyped'
    <2>1. process' \in Processes BY DEF Notify, NoTask, UpdatesInv, UpdatesTyped, Processes, ProcessPhases
    <2>2. task' \in Tasks BY DEF Notify, NoTask, UpdatesInv, UpdatesTyped, Tasks, Places, Images, Releases, Missing
    <2> QED BY <2>1, <2>2 DEF Notify, UpdatesInv, UpdatesTyped
  <1>2. Locked' BY DEF Notify, UpdatesInv, Locked
  <1>3. InstallStaged' BY DEF Notify, NoTask, UpdatesInv, UpdatesTyped, InstallStaged, Processes, Tasks
  <1>4. ImageMoved' BY DEF Notify, NoTask, UpdatesInv, UpdatesTyped, ImageMoved, Early, Processes, Tasks
  <1>5. Replaced' BY DEF Notify, NoTask, UpdatesInv, UpdatesTyped, Replaced, Processes, Tasks
  <1> QED BY <1>1, <1>2, <1>3, <1>4, <1>5 DEF UpdatesInv

LEMMA StopInv == ASSUME UpdatesInv, Stop PROVE UpdatesInv'
  <1>1. UpdatesTyped'
    <2>1. process' \in Processes BY DEF Stop, UpdatesInv, UpdatesTyped, Processes, ProcessPhases
    <2> QED BY <2>1 DEF Stop, UpdatesInv, UpdatesTyped
  <1>2. Locked' BY DEF Stop, UpdatesInv, Locked
  <1>3. InstallStaged' BY DEF Stop, UpdatesInv, UpdatesTyped, InstallStaged, Processes
  <1>4. ImageMoved' BY DEF Stop, UpdatesInv, UpdatesTyped, ImageMoved, Early, Processes
  <1>5. Replaced' BY DEF Stop, UpdatesInv, UpdatesTyped, Replaced, Processes
  <1> QED BY <1>1, <1>2, <1>3, <1>4, <1>5 DEF UpdatesInv

LEMMA BeginDrainInv == ASSUME UpdatesInv, BeginDrain PROVE UpdatesInv'
  <1>1. UpdatesTyped'
    <2>1. process' \in Processes BY DEF BeginDrain, Reason, UpdatesInv, UpdatesTyped, Processes, ProcessPhases
    <2> QED BY <2>1 DEF BeginDrain, UpdatesInv, UpdatesTyped
  <1>2. Locked' BY DEF BeginDrain, UpdatesInv, Locked
  <1>3. InstallStaged' BY DEF BeginDrain, Reason, UpdatesInv, UpdatesTyped, InstallStaged, Processes
  <1>4. ImageMoved' BY DEF BeginDrain, Reason, UpdatesInv, UpdatesTyped, ImageMoved, Early, Processes
  <1>5. Replaced' BY DEF BeginDrain, Reason, UpdatesInv, UpdatesTyped, Replaced, Processes
  <1> QED BY <1>1, <1>2, <1>3, <1>4, <1>5 DEF UpdatesInv

LEMMA PublishInv == ASSUME UpdatesInv, Publish PROVE UpdatesInv'
  <1>1. UpdatesTyped'
    <2>1. released' \in Releases /\ 0..released \subseteq 0..released'
      BY UpdatesAssumption DEF Publish, UpdatesInv, UpdatesTyped, Releases
    <2>2. checker' \in Checkers(released') BY <2>1 DEF Publish, UpdatesInv, UpdatesTyped, Checkers
    <2>3. asker' \in [Askers -> Calls(released')] BY <2>1 DEF Publish, UpdatesInv, UpdatesTyped, Calls
    <2> QED BY <2>1, <2>2, <2>3 DEF Publish, UpdatesInv, UpdatesTyped
  <1>2. Locked' BY DEF Publish, UpdatesInv, Locked
  <1>3. InstallStaged' BY DEF Publish, UpdatesInv, InstallStaged
  <1>4. ImageMoved' BY DEF Publish, UpdatesInv, ImageMoved
  <1>5. Replaced' BY DEF Publish, UpdatesInv, Replaced
  <1> QED BY <1>1, <1>2, <1>3, <1>4, <1>5 DEF UpdatesInv

LEMMA AdmitInv == ASSUME NEW a \in Askers, UpdatesInv, Admit(a) PROVE UpdatesInv'
  <1>1. asker' \in [Askers -> Calls(released)] /\ asker' = [asker EXCEPT ![a] = NotAsking]
    <2>1. NotAsking \in Calls(released)
      BY UpdatesAssumption DEF NotAsking, Calls, AskPlaces, Unknown, NoInstall, UpdatesInv, UpdatesTyped, Releases
    <2> QED BY <2>1, AskerTyped DEF UpdatesInv, Admit
  <1>2. Locked' BY <1>1 DEF Admit, NotAsking, UpdatesInv, UpdatesTyped, Locked
  <1>3. \A b \in Askers : asker[b].at = "idle" => asker'[b].at = "idle"
    BY <1>1 DEF NotAsking, UpdatesInv, UpdatesTyped
  <1>4. CASE Admits(a)
    <2> DEFINE version == asker[a].wants
    <2>1. version \in Releases /\ version > process.version
      <3>1. asker[a].saw \in 0..released /\ process.version \in Releases BY Fields DEF UpdatesInv, UpdatesTyped, Calls
      <3>2. released \in Releases BY DEF UpdatesInv, UpdatesTyped
      <3> QED BY <1>4, <3>1, <3>2, UpdatesAssumption DEF Admits, Releases
    <2>2. /\ install' = [install EXCEPT !.status = "downloading", !.version = version]
          /\ task' = [at |-> "locate", version |-> version, relocated |-> FALSE]
          /\ UNCHANGED <<platform, released, disk, process, checker>>
          /\ ~install.disabled /\ install.status \notin {"downloading", "restarting"}
      BY <1>4 DEF Admit, Admits, NoTask
    <2> HIDE DEF version
    <2>3. /\ install' \in Installs /\ install'.status = "downloading" /\ install'.version = version
          /\ install'.disabled = install.disabled /\ install'.pending = install.pending
      BY <2>1, <2>2 DEF UpdatesInv, UpdatesTyped, Installs, Images
    <2>4. task' \in Tasks BY <2>1, <2>2 DEF Tasks, Places, Early, Images
    <2>5. ~install.pending /\ process.phase # "down"
      <3>1. asker[a].at # "idle" BY DEF Admit
      <3> QED BY <2>2, <3>1 DEF UpdatesInv, InstallStaged
    <2>6. UpdatesTyped' BY <1>1, <2>2, <2>3, <2>4 DEF UpdatesInv, UpdatesTyped
    <2>7. InstallStaged' BY <2>2, <2>3, <2>5 DEF UpdatesInv, InstallStaged
    <2>8. ImageMoved' BY <2>2, <2>3 DEF UpdatesInv, InstallStaged, ImageMoved, Early
    <2>9. Replaced' BY <2>1, <2>2, <2>3, <2>5 DEF UpdatesInv, Replaced
    <2> QED BY <1>2, <2>6, <2>7, <2>8, <2>9 DEF UpdatesInv
  <1>5. CASE ~Admits(a)
    <2>1. UNCHANGED <<platform, released, disk, process, checker, install, task>> BY <1>5 DEF Admit
    <2>2. UpdatesTyped' BY <1>1, <2>1 DEF UpdatesInv, UpdatesTyped
    <2>3. InstallStaged' BY <1>3, <2>1 DEF UpdatesInv, InstallStaged
    <2>4. ImageMoved' /\ Replaced' BY <2>1 DEF UpdatesInv, ImageMoved, Replaced
    <2> QED BY <1>2, <2>2, <2>3, <2>4 DEF UpdatesInv
  <1> QED BY <1>4, <1>5

LEMMA LocateInv == ASSUME UpdatesInv, Locate PROVE UpdatesInv'
  <1>1. UNCHANGED <<platform, released, disk, process, checker, install, asker>> /\ task.at = "locate"
    BY DEF Locate
  <1>2. process.moved => platform = "unix" BY <1>1 DEF UpdatesInv, UpdatesTyped, InstallStaged, ImageMoved, Early
  <1>3. /\ task' \in Tasks /\ task'.version = task.version /\ task'.relocated = task.relocated
        /\ task'.at = "failed" \/ (task'.at = "prepare" /\ ~process.moved)
    <2>1. CASE process.moved
      <3>1. TaskGoes("failed") BY <1>2, <2>1 DEF Locate
      <3> QED BY <3>1, TaskTyped DEF UpdatesInv, Places
    <2>2. CASE ~process.moved
      <3>1. task' = [task EXCEPT !.at = "prepare", !.relocated = FALSE]
        BY <2>2 DEF Locate, UpdatesInv, UpdatesTyped, Processes
      <3>2. task.relocated = FALSE BY DEF UpdatesInv, UpdatesTyped, Tasks, ImageMoved
      <3> QED BY <2>2, <3>1, <3>2 DEF UpdatesInv, UpdatesTyped, Tasks, Places, Early
    <2> QED BY <2>1, <2>2
  <1>4. UpdatesTyped' BY <1>1, <1>3 DEF UpdatesInv, UpdatesTyped
  <1>5. Locked' BY <1>1 DEF UpdatesInv, Locked
  <1>6. InstallStaged' BY <1>1, <1>3 DEF UpdatesInv, InstallStaged
  <1>7. ImageMoved' BY <1>1, <1>2, <1>3 DEF UpdatesInv, ImageMoved, Early
  <1>8. Replaced' BY <1>1, <1>3 DEF UpdatesInv, Replaced
  <1> QED BY <1>4, <1>5, <1>6, <1>7, <1>8 DEF UpdatesInv

LEMMA PrepareInv == ASSUME UpdatesInv, Prepare PROVE UpdatesInv'
  <1>1. UNCHANGED <<platform, released, disk, process, checker, install, asker>> /\ task.at = "prepare"
    BY DEF Prepare
  <1>2. /\ task' \in Tasks /\ task'.version = task.version /\ task'.relocated = task.relocated
        /\ task'.at \in {"backup", "failed"}
    <2>1. CASE TaskGoes("failed") BY <2>1, TaskTyped DEF UpdatesInv, Places
    <2>2. CASE task' = [task EXCEPT !.at = "backup", !.version = task.version]
      BY <2>2 DEF UpdatesInv, UpdatesTyped, Tasks, Places, Early
    <2> QED BY <2>1, <2>2 DEF Prepare, Verified
  <1>3. UpdatesTyped' BY <1>1, <1>2 DEF UpdatesInv, UpdatesTyped
  <1>4. Locked' BY <1>1 DEF UpdatesInv, Locked
  <1>5. InstallStaged' BY <1>1, <1>2 DEF UpdatesInv, InstallStaged
  <1>6. ImageMoved' BY <1>1, <1>2 DEF UpdatesInv, InstallStaged, ImageMoved, Early
  <1>7. Replaced' BY <1>1, <1>2 DEF UpdatesInv, Replaced
  <1> QED BY <1>3, <1>4, <1>5, <1>6, <1>7 DEF UpdatesInv

\* From here on the release that runs is the backup.
LEMMA BackUpInv == ASSUME UpdatesInv, BackUp PROVE UpdatesInv'
  <1>1. UNCHANGED <<platform, released, process, checker, install, asker>> /\ task.at = "backup"
    BY DEF BackUp
  <1>2. disk.exe = process.version
    BY <1>1, Fields DEF UpdatesInv, InstallStaged, ImageMoved, Early, ProcessPhases
  <1>3. /\ disk' \in Disks /\ disk'.exe = disk.exe
        /\ task' \in Tasks /\ task'.version = task.version /\ task'.relocated = task.relocated
        /\ \/ task'.at = "replace" /\ disk'.backup = disk.exe
           \/ task'.at = "broken" /\ disk' = disk
    <2>1. CASE Onto([disk EXCEPT !.backup = disk.exe]) /\ TaskGoes("replace")
      BY <2>1, TaskTyped, BackupTyped, Fields DEF UpdatesInv, Places, Early
    <2>2. CASE TaskGoes("broken") /\ UNCHANGED disk BY <2>2, TaskTyped DEF UpdatesInv, UpdatesTyped, Places
    <2> QED BY <2>1, <2>2 DEF BackUp, BackedUp
  <1>4. UpdatesTyped' BY <1>1, <1>3 DEF UpdatesInv, UpdatesTyped
  <1>5. Locked' BY <1>1 DEF UpdatesInv, Locked
  <1>6. InstallStaged' BY <1>1, <1>3 DEF UpdatesInv, InstallStaged
  <1>7. ImageMoved' BY <1>1, <1>3 DEF UpdatesInv, ImageMoved, Early
  <1>8. Replaced' BY <1>1, <1>2, <1>3 DEF UpdatesInv, InstallStaged, Replaced
  <1> QED BY <1>4, <1>5, <1>6, <1>7, <1>8 DEF UpdatesInv

LEMMA ReplaceInv == ASSUME UpdatesInv, Replace PROVE UpdatesInv'
  <1>1. UNCHANGED <<platform, released, checker, install, asker>> /\ task.at = "replace"
    BY DEF Replace
  <1>2. CASE TaskGoes("broken") /\ UNCHANGED <<disk, process>>
    <2>1. /\ task' \in Tasks /\ task'.at = "broken"
          /\ task'.version = task.version /\ task'.relocated = task.relocated
      BY <1>2, TaskTyped DEF UpdatesInv, Places
    <2>2. UpdatesTyped' BY <1>1, <1>2, <2>1 DEF UpdatesInv, UpdatesTyped
    <2>3. Locked' BY <1>1 DEF UpdatesInv, Locked
    <2>4. InstallStaged' BY <1>1, <1>2, <2>1 DEF UpdatesInv, InstallStaged
    <2>5. ImageMoved' BY <1>1, <1>2, <2>1 DEF UpdatesInv, ImageMoved, Early
    <2>6. Replaced' BY <1>1, <1>2, <2>1 DEF UpdatesInv, Replaced
    <2> QED BY <2>2, <2>3, <2>4, <2>5, <2>6 DEF UpdatesInv
  <1>3. CASE /\ process' = [process EXCEPT !.moved = TRUE]
             /\ IF platform = "unix"
                THEN Onto([disk EXCEPT !.exe = task.version]) /\ TaskGoes("installed")
                ELSE Onto([disk EXCEPT !.exe = Missing]) /\ TaskGoes("moved")
    <2>1. /\ process' \in Processes /\ process'.moved
          /\ process'.version = process.version /\ process'.phase = process.phase
          /\ process'.stopped = process.stopped /\ process'.restart = process.restart
      BY <1>3 DEF UpdatesInv, UpdatesTyped, Processes
    <2>2. /\ disk' \in Disks /\ disk'.backup = disk.backup
          /\ task' \in Tasks /\ task'.version = task.version /\ task'.relocated = task.relocated
          /\ \/ task'.at = "installed" /\ disk'.exe = task.version
             \/ task'.at = "moved" /\ disk'.exe = Missing
      <3>1. CASE platform = "unix"
        <4>1. Onto([disk EXCEPT !.exe = task.version]) /\ TaskGoes("installed") BY <1>3, <3>1 DEF Replace
        <4> QED BY <4>1, TaskTyped, ExeTyped, Fields DEF UpdatesInv, Places
      <3>2. CASE platform # "unix"
        <4>1. Onto([disk EXCEPT !.exe = Missing]) /\ TaskGoes("moved") BY <1>3, <3>2 DEF Replace
        <4> QED BY <4>1, TaskTyped, ExeTyped DEF UpdatesInv, Places, Images
      <3> QED BY <3>1, <3>2
    <2>3. process.phase \in {"serving", "draining"} /\ ~install.pending
      BY <1>1, Fields DEF UpdatesInv, InstallStaged, ProcessPhases
    <2>4. UpdatesTyped' BY <1>1, <2>1, <2>2 DEF UpdatesInv, UpdatesTyped
    <2>5. Locked' BY <1>1 DEF UpdatesInv, Locked
    <2>6. InstallStaged' BY <1>1, <2>1, <2>2, <2>3 DEF UpdatesInv, InstallStaged
    <2>7. ImageMoved' BY <1>1, <2>1, <2>2 DEF UpdatesInv, ImageMoved, Early
    <2>8. Replaced' BY <1>1, <2>1, <2>2, <2>3 DEF UpdatesInv, Replaced
    <2> QED BY <2>4, <2>5, <2>6, <2>7, <2>8 DEF UpdatesInv
  <1> QED BY <1>2, <1>3 DEF Replace

LEMMA MoveInInv == ASSUME UpdatesInv, MoveIn PROVE UpdatesInv'
  <1>1. UNCHANGED <<platform, released, process, checker, install, asker>> /\ task.at = "moved"
    BY DEF MoveIn
  <1>2. /\ disk' \in Disks /\ disk'.backup = disk.backup
        /\ task' \in Tasks /\ task'.version = task.version /\ task'.relocated = task.relocated
        /\ \/ task'.at = "installed" /\ disk'.exe = task.version
           \/ task'.at = "missing" /\ disk' = disk
    <2>1. CASE Onto([disk EXCEPT !.exe = task.version]) /\ TaskGoes("installed")
      BY <2>1, TaskTyped, ExeTyped, Fields DEF UpdatesInv, Places
    <2>2. CASE TaskGoes("missing") /\ UNCHANGED disk BY <2>2, TaskTyped DEF UpdatesInv, UpdatesTyped, Places
    <2> QED BY <2>1, <2>2 DEF MoveIn
  <1>3. UpdatesTyped' BY <1>1, <1>2 DEF UpdatesInv, UpdatesTyped
  <1>4. Locked' BY <1>1 DEF UpdatesInv, Locked
  <1>5. InstallStaged' BY <1>1, <1>2 DEF UpdatesInv, InstallStaged
  <1>6. ImageMoved' BY <1>1, <1>2 DEF UpdatesInv, ImageMoved, Early
  <1>7. Replaced' BY <1>1, <1>2 DEF UpdatesInv, InstallStaged, Replaced
  <1> QED BY <1>3, <1>4, <1>5, <1>6, <1>7 DEF UpdatesInv

LEMMA PutBackInv == ASSUME UpdatesInv, PutBack PROVE UpdatesInv'
  <1>1. UNCHANGED <<platform, released, process, checker, install, asker>> /\ task.at = "missing"
    BY DEF PutBack
  <1>2. task' \in Tasks /\ task'.at = "broken" /\ task'.version = task.version /\ task'.relocated = task.relocated
    BY TaskTyped DEF PutBack, UpdatesInv, Places
  <1>3. /\ disk' \in Disks /\ disk'.backup = disk.backup
        /\ disk'.exe \in {disk.exe, disk.backup}
    <2>1. CASE Onto([disk EXCEPT !.exe = disk.backup]) BY <2>1, ExeTyped, Fields DEF UpdatesInv
    <2>2. CASE UNCHANGED disk BY <2>2 DEF UpdatesInv, UpdatesTyped
    <2> QED BY <2>1, <2>2 DEF PutBack
  <1>4. UpdatesTyped' BY <1>1, <1>2, <1>3 DEF UpdatesInv, UpdatesTyped
  <1>5. Locked' BY <1>1 DEF UpdatesInv, Locked
  <1>6. InstallStaged' BY <1>1, <1>2 DEF UpdatesInv, InstallStaged
  <1>7. ImageMoved' BY <1>1, <1>2, <1>3 DEF UpdatesInv, ImageMoved, Replaced, Early
  <1>8. Replaced' BY <1>1, <1>2, <1>3 DEF UpdatesInv, InstallStaged, Replaced
  <1> QED BY <1>4, <1>5, <1>6, <1>7, <1>8 DEF UpdatesInv

LEMMA ReportInv == ASSUME UpdatesInv, Report PROVE UpdatesInv'
  <1>1. UNCHANGED <<platform, released, disk, process, checker, asker>> BY DEF Report
  <1>2. Locked' BY <1>1 DEF UpdatesInv, Locked
  <1>3. CASE task.at = "failed" /\ install' = [install EXCEPT !.status = "failed"] /\ task' = NoTask
    <2>1. /\ install' \in Installs /\ install'.status = "failed" /\ install'.version = install.version
          /\ install'.disabled = install.disabled /\ install'.pending = install.pending
      BY <1>3 DEF UpdatesInv, UpdatesTyped, Installs
    <2>2. task' \in Tasks /\ task'.at = "none" /\ ~task'.relocated
      BY <1>3 DEF NoTask, Tasks, Places, Images
    <2>3. ~install.pending BY <1>3 DEF UpdatesInv, InstallStaged
    <2>4. UpdatesTyped' BY <1>1, <2>1, <2>2 DEF UpdatesInv, UpdatesTyped
    <2>5. InstallStaged' BY <1>1, <2>1, <2>2, <2>3 DEF UpdatesInv, InstallStaged
    <2>6. ImageMoved' BY <1>1, <1>3, <2>1, <2>2 DEF UpdatesInv, InstallStaged, ImageMoved, Early
    <2>7. Replaced' BY <1>1, <2>1, <2>2, <2>3 DEF UpdatesInv, Replaced
    <2> QED BY <1>2, <2>4, <2>5, <2>6, <2>7 DEF UpdatesInv
  <1>4. CASE /\ task.at = "installed"
             /\ install' = [install EXCEPT !.status = "restarting", !.pending = TRUE]
             /\ TaskGoes("notify")
    <2>1. /\ install' \in Installs /\ install'.status = "restarting" /\ install'.version = install.version
          /\ install'.disabled = install.disabled /\ install'.pending
      BY <1>4 DEF UpdatesInv, UpdatesTyped, Installs
    <2>2. /\ task' \in Tasks /\ task'.at = "notify"
          /\ task'.version = task.version /\ task'.relocated = task.relocated
      BY <1>4, TaskTyped DEF UpdatesInv, Places
    <2>3. process.phase \in {"serving", "draining"} BY <1>4, Fields DEF UpdatesInv, InstallStaged, ProcessPhases
    <2>4. UpdatesTyped' BY <1>1, <2>1, <2>2 DEF UpdatesInv, UpdatesTyped
    <2>5. InstallStaged' BY <1>1, <2>1, <2>2, <2>3 DEF UpdatesInv, InstallStaged
    <2>6. ImageMoved' BY <1>1, <1>4, <2>1, <2>2 DEF UpdatesInv, ImageMoved, Early
    <2>7. Replaced' BY <1>1, <1>4, <2>1, <2>2, <2>3 DEF UpdatesInv, Replaced
    <2> QED BY <1>2, <2>4, <2>5, <2>6, <2>7 DEF UpdatesInv
  <1> QED BY <1>3, <1>4 DEF Report

\* The process goes on to a phase after the drain; nothing else changes.
LEMMA PhaseInv ==
    ASSUME UpdatesInv, NEW phase \in {"launching", "restoring"}, process' = [process EXCEPT !.phase = phase],
           install.pending, process.phase # "relaunching",
           UNCHANGED <<platform, released, disk, checker, install, task, asker>>
    PROVE  UpdatesInv'
  <1>1. /\ process' \in Processes /\ process'.phase = phase /\ process'.version = process.version
        /\ process'.moved = process.moved
    BY DEF UpdatesInv, UpdatesTyped, Processes, ProcessPhases
  <1>2. UpdatesTyped' BY <1>1 DEF UpdatesInv, UpdatesTyped
  <1>3. Locked' BY DEF UpdatesInv, Locked
  <1>4. InstallStaged' BY <1>1 DEF UpdatesInv, InstallStaged
  <1>5. ImageMoved' BY <1>1 DEF UpdatesInv, ImageMoved
  <1>6. Replaced' BY <1>1 DEF UpdatesInv, Replaced
  <1> QED BY <1>2, <1>3, <1>4, <1>5, <1>6 DEF UpdatesInv

LEMMA DrainedInv == ASSUME UpdatesInv, Drained PROVE UpdatesInv'
  <1>1. CASE process.restart /\ install.pending BY <1>1, PhaseInv DEF Drained
  <1>2. CASE ~(process.restart /\ install.pending) BY <1>2, EndsInv DEF Drained
  <1> QED BY <1>1, <1>2

LEMMA LaunchInv == ASSUME UpdatesInv, Launch PROVE UpdatesInv'
  <1>1. CASE disk.exe # Missing /\ Boots(disk.exe) BY <1>1, BootsInv DEF Launch
  <1>2. CASE process' = [process EXCEPT !.phase = "restoring"] /\ UNCHANGED <<checker, install, task, asker>>
    BY <1>2, PhaseInv DEF Launch, UpdatesInv, InstallStaged
  <1> QED BY <1>1, <1>2 DEF Launch

LEMMA RestoreInv == ASSUME UpdatesInv, Restore PROVE UpdatesInv'
  <1>1. CASE Ends /\ UNCHANGED disk BY <1>1, EndsInv DEF Restore
  <1>2. CASE /\ disk' = [disk EXCEPT !.exe = disk.backup]
             /\ process' = [process EXCEPT !.phase = "relaunching"]
             /\ UNCHANGED <<checker, install, task, asker>>
    <2>1. UNCHANGED <<platform, released>> /\ install.pending /\ disk.backup = process.version
      BY DEF Restore, UpdatesInv, InstallStaged, Replaced
    <2>2. disk' \in Disks /\ disk'.exe = disk.backup /\ disk'.backup = disk.backup
      BY <1>2 DEF UpdatesInv, UpdatesTyped, Disks
    <2>3. /\ process' \in Processes /\ process'.phase = "relaunching" /\ process'.version = process.version
          /\ process'.moved = process.moved
      BY <1>2 DEF UpdatesInv, UpdatesTyped, Processes, ProcessPhases
    <2>4. task.at \in {"none", "notify"} BY <2>1 DEF UpdatesInv, InstallStaged
    <2>5. UpdatesTyped' BY <1>2, <2>1, <2>2, <2>3 DEF UpdatesInv, UpdatesTyped
    <2>6. Locked' BY <1>2 DEF UpdatesInv, Locked
    <2>7. InstallStaged' BY <1>2, <2>1, <2>3 DEF UpdatesInv, InstallStaged
    <2>8. ImageMoved' BY <1>2, <2>1, <2>3, <2>4 DEF UpdatesInv, ImageMoved, Early
    <2>9. Replaced' BY <1>2, <2>1, <2>2, <2>3, <2>4 DEF UpdatesInv, Replaced
    <2> QED BY <2>5, <2>6, <2>7, <2>8, <2>9 DEF UpdatesInv
  <1> QED BY <1>1, <1>2 DEF Restore

LEMMA RelaunchInv == ASSUME UpdatesInv, Relaunch PROVE UpdatesInv'
  <1>1. disk.exe # Missing BY Fields DEF Relaunch, UpdatesInv, Replaced, Releases, Missing
  <1> QED BY <1>1, BootsInv, EndsInv DEF Relaunch

LEMMA DieInv == ASSUME UpdatesInv, Die PROVE UpdatesInv'
  BY EndsInv DEF Die

LEMMA StartAgainInv == ASSUME UpdatesInv, StartAgain PROVE UpdatesInv'
  BY BootsInv DEF StartAgain

----------------------------------------------------------------------------
(* The invariant, and what it gives.                                       *)

LEMMA UpdatesStep == UpdatesInv /\ [UpdatesNext]_uvars => UpdatesInv'
  <1> SUFFICES ASSUME UpdatesInv, [UpdatesNext]_uvars PROVE UpdatesInv'
    OBVIOUS
  <1>1. ASSUME NEW a \in Askers, NEW version \in (1..released) \cup {NoInstall}, Ask(a, version) PROVE UpdatesInv'
    BY <1>1, AskInv
  <1>2. ASSUME NEW a \in Askers,
               \/ LoopAsks(a) \/ AcquireCheck(a) \/ HostReplies(a) \/ Record(a)
               \/ Dropped(a) \/ ReadInfo(a) \/ Admit(a)
        PROVE  UpdatesInv'
    BY <1>2, LoopAsksInv, AcquireCheckInv, HostRepliesInv, RecordInv, DroppedInv, ReadInfoInv, AdmitInv
  <1>3. CASE Publish \/ Cools BY <1>3, PublishInv, CoolsInv
  <1>4. CASE Locate \/ Prepare \/ BackUp \/ Replace \/ MoveIn \/ PutBack \/ Broken \/ Report \/ Notify
    BY <1>4, LocateInv, PrepareInv, BackUpInv, ReplaceInv, MoveInInv, PutBackInv, BrokenInv, ReportInv, NotifyInv
  <1>5. CASE Stop \/ BeginDrain \/ Drained \/ Launch \/ Restore \/ Relaunch \/ Die \/ StartAgain
    BY <1>5, StopInv, BeginDrainInv, DrainedInv, LaunchInv, RestoreInv, RelaunchInv, DieInv, StartAgainInv
  <1>6. CASE UNCHANGED uvars
    BY <1>6 DEF uvars, UpdatesInv, UpdatesTyped, Locked, InstallStaged, ImageMoved, Replaced
  <1> QED BY <1>1, <1>2, <1>3, <1>4, <1>5, <1>6 DEF UpdatesNext

LEMMA UpdatesInvariant == UpdatesSpec => []UpdatesInv
  BY UpdatesStart, UpdatesStep, PTL DEF UpdatesSpec

\* Whatever fails and whenever the process dies, the version that ran last stays on the disk, and
\* the install (update_install.rs) never works on an image that was moved away.
THEOREM LastVersionStays == UpdatesSpec => []UpdatesKept
  <1>1. UpdatesInv => UpdatesKept
    BY Fields DEF UpdatesInv, UpdatesTyped, Disks, Images, Locked, InstallStaged, ImageMoved, Replaced, UpdatesKept, UpdatesTypeOK,
       LastVersionKept
  <1> QED BY <1>1, UpdatesInvariant, PTL

\* An executable is replaced only by a newer one or by its backup, and the process only after a
\* drain that no stop began and that left no request (main.rs).
THEOREM OnlyForward == UpdatesSpec => UpdatesForward
  <1> DEFINE OnlyForwards ==
        /\ disk'.exe \notin {disk.exe, Missing} => disk'.exe = disk.backup \/ disk'.exe > process.version
        /\ process'.phase = "launching" /\ process.phase = "draining" =>
              ~process.stopped /\ disk.exe = install.version /\ Requests = {}
  <1>1. UpdatesInv /\ [UpdatesNext]_uvars => [OnlyForwards]_uvars
    <2> SUFFICES ASSUME UpdatesInv, UpdatesNext PROVE OnlyForwards
      BY DEF UpdatesNext
    <2>1. ASSUME NEW a \in Askers, NEW version, Ask(a, version) PROVE UNCHANGED <<disk, process>>
      BY <2>1 DEF Ask
    <2>2. ASSUME NEW a \in Askers,
                 \/ LoopAsks(a) \/ AcquireCheck(a) \/ HostReplies(a) \/ Record(a)
                 \/ Dropped(a) \/ ReadInfo(a) \/ Admit(a)
          PROVE  UNCHANGED <<disk, process>>
      BY <2>2 DEF LoopAsks, AcquireCheck, HostReplies, Record, Dropped, ReadInfo, Admit
    <2>3. CASE Publish \/ Cools \/ Locate \/ Prepare \/ Broken \/ Report
      BY <2>3 DEF Publish, Cools, Locate, Prepare, Broken, Report
    <2>4. CASE BackUp
      <3>1. disk'.exe = disk.exe BY <2>4, BackupTyped, Fields DEF BackUp, BackedUp, UpdatesInv
      <3> QED BY <2>4, <3>1 DEF BackUp
    <2>5. CASE Replace \/ MoveIn
      <3>1. task.version > process.version BY <2>5 DEF Replace, MoveIn, UpdatesInv, Replaced
      <3>2. disk'.exe \in {disk.exe, Missing, task.version}
        BY <2>5, ExeTyped, Fields DEF Replace, MoveIn, UpdatesInv, Images
      <3>3. process'.phase = process.phase BY <2>5 DEF Replace, MoveIn, UpdatesInv, UpdatesTyped, Processes
      <3> QED BY <3>1, <3>2, <3>3
    <2>6. CASE PutBack
      <3>1. disk'.exe \in {disk.exe, disk.backup} BY <2>6, ExeTyped, Fields DEF PutBack, UpdatesInv
      <3> QED BY <2>6, <3>1 DEF PutBack
    <2>7. CASE Notify \/ Stop \/ BeginDrain
      BY <2>7 DEF Notify, Stop, BeginDrain, UpdatesInv, UpdatesTyped, Processes
    <2>8. CASE Drained
      BY <2>8 DEF Drained, Ends, Turns, Serving, UpdatesInv, Replaced
    <2>9. CASE Launch \/ Relaunch \/ Die \/ StartAgain
      BY <2>9 DEF Launch, Relaunch, Die, StartAgain, Ends, Boots, Turns, Serving
    <2>10. CASE Restore
      BY <2>10 DEF Restore, Ends, Turns, Serving, UpdatesInv, UpdatesTyped, Disks
    <2> QED BY <2>1, <2>2, <2>3, <2>4, <2>5, <2>6, <2>7, <2>8, <2>9, <2>10 DEF UpdatesNext
  <1> QED BY <1>1, UpdatesInvariant, PTL DEF UpdatesSpec, UpdatesForward
===============================================================================
