----------------------------- MODULE ClientSetup ------------------------------
(***************************************************************************)
(* `kirolb client setup` and `kirolb client restore` (src/client_setup.rs):*)
(* configuration files of the user's clients are replaced one by one under *)
(* a lock file, behind a recovery journal that is written first, while the *)
(* user's editor, a moved directory, a replaced lock file or the death of  *)
(* the process interferes between any two system calls.                    *)
(*                                                                         *)
(* A file is its content and the command that wrote it: the latter stands  *)
(* for the inode, since a command stages a new file for what it writes and *)
(* a user's edit always has a content of its own.  File modes, symlinks,   *)
(* file sizes and failing reads are left out, and so is what the           *)
(* installed configuration says beyond the version of its options.         *)
(***************************************************************************)
EXTENDS Integers, Sequences, SequencesExt

CONSTANTS
    Clients,     \* the clients that are configured
    Journal,     \* client-setup.json, the recovery journal
    Absent,      \* no file, no content
    Procs,       \* processes that run commands
    Commands,    \* the commands they run: subset of {"setup", "restore"}
    Selections,  \* the sets of clients a command is run for
    Versions,    \* the options a setup can be run with
    Movable,     \* the targets whose directory may be moved
    MaxRuns,     \* bound: commands started
    MaxEdits,    \* bound: edits and deletions by the user
    MaxMoves,    \* bound: directories moved and lock files replaced
    MaxCrashes,  \* bound: processes that die
    MaxFails,    \* bound: unlinks and syncs that fail
    MaxTroubles  \* bound: edits, moves, deaths and failures together

ASSUME ClientSetupAssumption ==
    /\ Journal \notin Clients /\ Absent \notin Clients
    /\ Commands \subseteq {"setup", "restore"} 
    /\ Movable \subseteq Clients \cup {Journal}
    /\ Selections \subseteq SUBSET Clients
    /\ {MaxRuns, MaxEdits, MaxMoves, MaxCrashes, MaxFails, MaxTroubles} \subseteq Nat

VARIABLES
    file,      \* the file of each target in each directory that had its path
    dir,       \* the directory each target's path leads to
    lockFile,  \* identity of the lock file
    proc,      \* the processes
    left,      \* temporary files that nobody will remove: <<target, file>>
    owed,      \* history: <<client, edit>> the user has not discarded
    chased,    \* history: edits made between can_rollback and the exchange
    torn,      \* history: a rollback began although the last save of the journal took effect
    raced,     \* history: two commands worked at once, each with a lock file of its own
    looked,    \* history: the directory of each client that a journal answers for, or 0
    runs, edits, moves, crashes, fails

vars == <<file, dir, lockFile, proc, left, owed, chased, torn, raced, looked,
          runs, edits, moves, crashes, fails>>
historyVars == <<owed, chased, torn, raced, looked>>
userVars == <<dir, lockFile, historyVars, runs, edits, moves, crashes>>

Targets == Clients \cup {Journal}
Dirs == 1..(MaxMoves + 1)

User(n) == [by |-> "user", n |-> n]
Ours(v) == [by |-> "kirolb", n |-> v]
Contents == {User(n) : n \in 0..MaxEdits} \cup {Ours(v) : v \in Versions}
Snapshot == [original : Contents \cup {Absent}, installed : {Ours(v) : v \in Versions},
             recoverable : SUBSET {Ours(v) : v \in Versions}]
EmptyState == [c \in {} |-> Absent]
States == UNION {[S -> Snapshot] : S \in SUBSET Clients}
File(content, run) == [content |-> content, run |-> run]

NoWrite == [step |-> "none", target |-> Journal, new |-> Absent, expected |-> Absent,
            parent |-> 1, temp |-> Absent, ok |-> FALSE, undone |-> TRUE, late |-> FALSE,
            locked |-> FALSE]
Idle == [at |-> "idle", cmd |-> "none", run |-> 0, clients |-> {}, version |-> Absent, lock |-> 0,
         directory |-> 1, journal |-> Absent, state |-> EmptyState,
         recovery |-> EmptyState, plans |-> EmptyState, todo |-> {},
         applied |-> <<>>, slipped |-> {}, rolledBack |-> TRUE, w |-> NoWrite, result |-> "none"]

ASSUME AbsentAssumption ==
    /\ Absent \notin Contents \cup States
    /\ \A x \in Contents \cup States, run \in 0..MaxRuns : Absent # File(x, run)

\* Each client is configured by the user or not at all; no journal.
Init ==
    /\ \E S \in SUBSET Clients :
           /\ file = [t \in Targets |-> [d \in Dirs |->
                          IF t \in S /\ d = 1 THEN File(User(0), 0) ELSE Absent]]
           /\ owed = {<<c, 0>> : c \in S}
    /\ dir = [t \in Targets |-> 1]
    /\ lockFile = 1
    /\ proc = [p \in Procs |-> Idle]
    /\ left = {} /\ chased = {} /\ torn = FALSE /\ raced = FALSE
    /\ looked = [c \in Clients |-> 1]
    /\ runs = 0 /\ edits = 0 /\ moves = 0 /\ crashes = 0 /\ fails = 0

(***************************************************************************)
(* Reading                                                                 *)
(***************************************************************************)

\* snapshot_accepts: the content is one that a command of ours left there.
Accepts(s, f) ==
    IF f = Absent THEN s.original = Absent
    ELSE f.content \in {s.installed, s.original} \cup s.recoverable

StateOf(f) == IF f = Absent THEN EmptyState ELSE f.content

Found(t) == file[t][dir[t]]

LockPathHeld(r) == r.lock = lockFile
DirectoryHeld(r) == LockPathHeld(r) /\ r.directory = dir[Journal]

\* plan_install: what the journal will say of the client.
Planned(state, c, v) ==
    IF c \in DOMAIN state
    THEN [original |-> state[c].original, installed |-> Ours(v),
          recoverable |-> state[c].recoverable \cup {state[c].installed}]
    ELSE [original |-> IF Found(c) = Absent THEN Absent ELSE Found(c).content,
          installed |-> Ours(v), recoverable |-> {}]

Refused(state, S) == \E c \in S \cap DOMAIN state : ~Accepts(state[c], Found(c))

(***************************************************************************)
(* The steps of a conditional write or removal                             *)
(***************************************************************************)

\* A write of content (or a removal, for Absent) to a target that is
\* expected to be what was read, in the directory that was read.
Write(t, content, expected, parent, locked) ==
    [NoWrite EXCEPT !.step = "check", !.target = t, !.new = content,
                    !.expected = expected, !.parent = parent, !.locked = locked]

\* A write that finds nothing to do.
Nothing(t) == [NoWrite EXCEPT !.step = "return", !.target = t, !.ok = TRUE]

\* The same write at its next step, or returned with what it left behind.
Step(w, step) == [w EXCEPT !.step = step]
Returned(w, ok) == [w EXCEPT !.step = "return", !.ok = ok, !.temp = Absent]
\* A write that says that it could not be rolled back.
Stuck(w) == [Returned(w, FALSE) EXCEPT !.undone = FALSE]

Staged(r) == File(r.w.new, r.run)
Target(w) == file[w.target][w.parent]

Put(w, f) == file' = [file EXCEPT ![w.target][w.parent] = f]
Becomes(p, w) ==
    /\ proc' = [proc EXCEPT ![p].w = w]
    /\ UNCHANGED userVars
Leave(w) == left' = left \cup {<<w.target, w.temp>>}

\* verify_directory_path where the caller does it, open_parent_secure,
\* verify_parent, expected_matches and create_staged.
Check(p) ==
    LET r == proc[p] w == r.w IN
    /\ w.step = "check"
    /\ IF /\ w.locked => DirectoryHeld(r)
          /\ w.parent = dir[w.target]
          /\ Target(w) = w.expected
       THEN Becomes(p, [w EXCEPT !.step = "swap",
                                 !.temp = IF w.new = Absent THEN Absent ELSE Staged(r)])
       ELSE Becomes(p, Returned(w, FALSE))
    /\ UNCHANGED <<file, left>>

\* rename_at: NOREPLACE for a file that is expected not to exist and for a
\* removal, EXCHANGE otherwise; a staged file that cannot be moved is removed.
Swap(p) ==
    LET r == proc[p] w == r.w IN
    /\ w.step = "swap"
    /\ \/ /\ w.new # Absent /\ w.expected = Absent /\ Target(w) = Absent
          /\ Put(w, w.temp)
          /\ Becomes(p, [w EXCEPT !.step = "parent", !.temp = Absent])
       \/ /\ w.new # Absent /\ w.expected # Absent /\ Target(w) # Absent
          /\ Put(w, w.temp)
          /\ Becomes(p, [w EXCEPT !.step = "compare", !.temp = Target(w)])
       \/ /\ w.new = Absent /\ Target(w) # Absent
          /\ Put(w, Absent)
          /\ Becomes(p, [w EXCEPT !.step = "compare", !.temp = Target(w)])
       \/ /\ (w.new # Absent /\ w.expected = Absent) <=> Target(w) # Absent
          /\ Becomes(p, Returned(w, FALSE))
          /\ UNCHANGED file
    /\ UNCHANGED left

\* What was moved out is what was planned for: go on.  If not, it is to go
\* back while the target is still our staged file, and else is left behind.
Mutant_MatchesAny(w) == TRUE
Matches(w) == w.temp = w.expected

Compare(p) ==
    LET r == proc[p] w == r.w IN
    /\ w.step = "compare"
    /\ \/ /\ Matches(w)
          /\ Becomes(p, Step(w, "parent"))
          /\ UNCHANGED left
       \/ /\ ~Matches(w)
          /\ w.new = Absent \/ Target(w) = Staged(r)
          /\ Becomes(p, Step(w, "undo"))
          /\ UNCHANGED left
       \/ /\ ~Matches(w)
          /\ w.new # Absent /\ Target(w) # Staged(r)
          /\ Leave(w)
          /\ Becomes(p, Returned(w, FALSE))
    /\ UNCHANGED file

\* The conflicting file goes back; what the exchange brings out is unlinked.
Undo(p) ==
    LET r == proc[p] w == r.w IN
    /\ w.step = "undo"
    /\ \/ /\ w.new # Absent /\ Target(w) # Absent
          /\ Put(w, w.temp)
          /\ Becomes(p, [w EXCEPT !.step = "unlink", !.temp = Target(w), !.ok = FALSE])
          /\ UNCHANGED left
       \/ /\ w.new = Absent /\ Target(w) = Absent
          /\ Put(w, w.temp)
          /\ Becomes(p, Returned(w, FALSE))
          /\ UNCHANGED left
       \/ /\ (w.new = Absent) <=> Target(w) # Absent
          /\ Leave(w)
          /\ Becomes(p, IF w.new = Absent THEN Returned(w, FALSE) ELSE Stuck(w))
          /\ UNCHANGED file

\* verify_parent_path: the path still leads to the directory.
VerifyParent(p) ==
    LET w == proc[p].w IN
    /\ w.step = "parent"
    /\ IF w.parent = dir[w.target]
       THEN Becomes(p, [w EXCEPT !.step = "unlink", !.ok = TRUE])
       ELSE Becomes(p, Step(w, "back"))
    /\ UNCHANGED <<file, left>>

\* It does not: the change is taken back in the directory that was moved.
Back(p) ==
    LET w == proc[p].w IN
    /\ w.step = "back"
    /\ \/ /\ w.new # Absent /\ Target(w) # Absent
          /\ Put(w, w.temp)
          /\ Becomes(p, [w EXCEPT !.step = "recheck", !.temp = Target(w)])
          /\ UNCHANGED left
       \/ /\ w.new = Absent /\ Target(w) = Absent
          /\ Put(w, w.temp)
          /\ Becomes(p, Returned(w, FALSE))
          /\ UNCHANGED left
       \/ /\ (w.new = Absent) <=> Target(w) # Absent
          /\ IF w.temp = Absent THEN UNCHANGED left ELSE Leave(w)
          /\ Becomes(p, Stuck(w))
          /\ UNCHANGED file

\* What came out must be the staged file, and what is back what was there.
TakenBack(r) ==
    /\ r.w.temp = Staged(r)
    /\ r.w.expected # Absent => Target(r.w) = r.w.expected

Recheck(p) ==
    LET r == proc[p] w == r.w IN
    /\ w.step = "recheck"
    /\ Becomes(p, IF TakenBack(r) THEN [w EXCEPT !.step = "unlink", !.ok = FALSE]
                                  ELSE Step(w, "forward"))
    /\ UNCHANGED <<file, left>>

\* It is not: a concurrent edit takes its place again, the rest stays.
Forward(p) ==
    LET w == proc[p].w IN
    /\ w.step = "forward"
    /\ \/ /\ w.expected # Absent /\ Target(w) # Absent
          /\ Put(w, w.temp)
          /\ left' = left \cup {<<w.target, Target(w)>>}
       \/ /\ w.expected = Absent /\ Target(w) = Absent
          /\ Put(w, w.temp)
          /\ UNCHANGED left
       \/ /\ (w.expected = Absent) <=> Target(w) # Absent
          /\ Leave(w)
          /\ UNCHANGED file
    /\ Becomes(p, Stuck(w))

\* The temporary file is removed and the directory synced.
Unlink(p) ==
    LET w == proc[p].w IN
    /\ w.step = "unlink"
    /\ Becomes(p, Returned(w, w.ok))
    /\ UNCHANGED <<file, left>>

\* One more disturbance fits the bound.
Room == edits + moves + crashes + fails < MaxTroubles

\* One of the two fails: an error although the change, if there was one,
\* took effect; without the first the temporary file stays.
Late(w) == [Returned(w, FALSE) EXCEPT !.late = w.ok]
UnlinkFails(p) ==
    LET w == proc[p].w IN
    /\ w.step = "unlink"
    /\ fails < MaxFails /\ Room
    /\ fails' = fails + 1
    /\ Becomes(p, Late(w))
    /\ \/ w.temp # Absent /\ Leave(w)
       \/ UNCHANGED left
    /\ UNCHANGED file

(***************************************************************************)
(* The commands                                                            *)
(***************************************************************************)

Goes(p, r) ==
    /\ proc' = [proc EXCEPT ![p] = r]
    /\ UNCHANGED <<file, left, userVars>>

\* save_state_locked: the state is written over what this process last saw,
\* and an empty one is removed.
Saving(r, state) ==
    IF state = EmptyState /\ r.journal = Absent THEN [Nothing(Journal) EXCEPT !.locked = TRUE]
    ELSE Write(Journal, IF state = EmptyState THEN Absent ELSE state, r.journal,
               r.directory, TRUE)

\* journal_expected after the save returned.
Saved(r) ==
    IF ~r.w.ok \/ (r.w.new = Absent /\ r.w.expected = Absent) THEN r.journal
    ELSE IF r.w.new = Absent THEN Absent ELSE Staged(r)

\* The next client of the transaction: a file that was not there and is not
\* there needs no removal.
Committing(r) ==
    IF r.todo = {} THEN
        LET cleared == [c \in DOMAIN r.state |->
                          IF r.cmd = "setup" /\ c \in r.clients
                          THEN [r.state[c] EXCEPT !.recoverable = {}] ELSE r.state[c]] IN
        [r EXCEPT !.at = "final", !.state = cleared, !.w = Saving(r, cleared)]
    ELSE
        LET c == CHOOSE c \in r.todo : TRUE  s == r.plans[c].snapshot
            new == IF r.cmd = "setup" THEN s.installed ELSE s.original IN
        [r EXCEPT !.at = "commit", !.todo = @ \ {c},
            !.w = IF new = Absent /\ r.plans[c].expected = Absent
                  THEN [Nothing(c) EXCEPT !.locked = TRUE]
                  ELSE Write(c, new, r.plans[c].expected, r.plans[c].parent, TRUE)]

\* The command ends; what it reports matters when it says all is undone.
Finished(result) == [Idle EXCEPT !.result = IF result = "undone" THEN result ELSE "none"]

\* rollback_changes: the last applied change first; then the journal.
Mutant_JournalOnly(r) == [r EXCEPT !.at = "rejournal", !.w = Saving(r, r.recovery)]
RollingBack(r) ==
    IF r.applied = <<>>
    THEN [r EXCEPT !.at = "rejournal", !.w = Saving(r, r.recovery)]
    ELSE LET a == Last(r.applied) IN
         [r EXCEPT !.at = "rollback", !.applied = Front(@),
                   !.w = Write(a.target,
                               IF a.before = Absent THEN Absent ELSE a.before.content,
                               a.after, a.parent, FALSE)]

\* setup or restore is started: it opens the lock file.
Start(p, cmd, S, v) ==
    /\ proc[p].at = "idle"
    /\ runs < MaxRuns
    /\ runs' = runs + 1
    /\ proc' = [proc EXCEPT ![p] = [Idle EXCEPT !.at = "locking", !.cmd = cmd, !.run = runs + 1,
                                      !.clients = S, !.version = v, !.lock = lockFile]]
    /\ UNCHANGED <<file, left, dir, lockFile, historyVars, edits, moves, crashes>>

\* StateLock::acquire_at: nobody holds the same lock file; the state
\* directory and the journal in it are what this process will go by.
Working(q) == proc[q].at \notin {"idle", "locking"}
LockFree(r) == \A q \in Procs : Working(q) => proc[q].lock # r.lock

Lock(p) ==
    LET r == proc[p] IN
    /\ r.at = "locking"
    /\ LockFree(r)
    /\ proc' = [proc EXCEPT ![p] =
                  IF LockPathHeld(r)
                  THEN [r EXCEPT !.at = "locked", !.directory = dir[Journal],
                                 !.journal = Found(Journal)]
                  ELSE Finished("failed")]
    /\ raced' = (raced \/ \E q \in Procs : Working(q))
    /\ UNCHANGED <<file, left, dir, lockFile, owed, chased, torn, looked, runs, edits, moves,
                   crashes>>

\* load_state_locked and the plans; setup then writes the journal first.
Mutant_ClientsFirst(r, state) == Committing([r EXCEPT !.state = state])
FirstOf(r, state) ==
    IF r.cmd = "setup" THEN [r EXCEPT !.at = "journal", !.state = state,
                                      !.w = Saving(r, state)]
    ELSE Committing([r EXCEPT !.state = state])

\* The clients that the command is for, and what the journal says with them.
Selected(r) == IF r.cmd = "setup" THEN r.clients ELSE r.clients \cap DOMAIN StateOf(r.journal)
Snapshots(r) ==
    LET loaded == StateOf(r.journal) IN
    [c \in DOMAIN loaded \cup Selected(r) |->
        IF r.cmd = "setup" /\ c \in r.clients THEN Planned(loaded, c, r.version) ELSE loaded[c]]

\* A file of ours that is not in the journal is taken for an original.
IsOurs(f) == f # Absent /\ f.content.by = "kirolb"
Answered(r, c) ==
    /\ \/ c \in DOMAIN StateOf(r.journal)
       \/ IsOurs(Found(c)) => looked[c] = dir[c]
    /\ r.cmd = "restore" => StateOf(r.journal)[c].original \notin {Ours(v) : v \in Versions}

Plan(p) ==
    LET r == proc[p]  S == Selected(r)  state == Snapshots(r) IN
    /\ r.at = "locked"
    /\ IF ~DirectoryHeld(r) \/ Found(Journal) # r.journal \/ Refused(StateOf(r.journal), S)
       THEN /\ proc' = [proc EXCEPT ![p] = Finished("failed")]
            /\ UNCHANGED looked
       ELSE /\ proc' = [proc EXCEPT ![p] =
                  FirstOf([r EXCEPT !.recovery = state, !.todo = S,
                             !.plans = [c \in S |-> [snapshot |-> state[c], expected |-> Found(c),
                                                     parent |-> dir[c]]]], state)]
            /\ looked' = [c \in Clients |-> IF c \notin S THEN looked[c]
                                            ELSE IF Answered(r, c) THEN dir[c] ELSE 0]
    /\ UNCHANGED <<file, left, dir, lockFile, owed, chased, torn, raced, runs, edits, moves,
                   crashes>>

Continues(p, at) == proc[p].at = at /\ proc[p].w.step = "return"

\* The journal is written: the clients follow.
JournalReturns(p) ==
    LET r == [proc[p] EXCEPT !.journal = Saved(proc[p])] IN
    /\ Continues(p, "journal")
    /\ Goes(p, IF r.w.ok /\ DirectoryHeld(r) THEN Committing(r) ELSE Finished("failed"))

\* commit_setup_plans, commit_restore_plans: one client is done, or all of
\* them are undone.
CommitReturns(p) ==
    LET r == proc[p] c == r.w.target
        change == [target |-> c, before |-> r.plans[c].expected, parent |-> r.plans[c].parent,
                   after |-> IF r.w.new = Absent THEN Absent ELSE Staged(r)]
        moved == r.w.new # Absent \/ r.w.expected # Absent
        next == [r EXCEPT !.applied = IF r.w.ok /\ moved THEN Append(@, change) ELSE @,
                          !.slipped = IF r.w.late THEN @ \cup {c} ELSE @,
                          !.rolledBack = r.w.undone] IN
    /\ Continues(p, "commit")
    /\ Goes(p, IF ~r.w.ok \/ ~DirectoryHeld(r) THEN RollingBack(next)
               ELSE Committing(IF r.cmd = "setup" THEN next
                               ELSE [next EXCEPT !.state =
                                       [k \in DOMAIN @ \ {c} |-> @[k]]]))

\* The journal of the finished command is written.  A command that finds
\* its directory or lock changed only after that takes its changes back;
\* so does one whose save reports a failure after it took effect, with a
\* journal_expected that its own save has overtaken.
FinalReturns(p) ==
    LET r == [proc[p] EXCEPT !.journal = Saved(proc[p])] IN
    /\ Continues(p, "final")
    /\ proc' = [proc EXCEPT ![p] = IF r.w.ok /\ DirectoryHeld(r) THEN Finished("done")
                                    ELSE RollingBack([r EXCEPT !.rolledBack = r.w.undone])]
    /\ torn' = (torn \/ r.w.late \/ (r.w.ok /\ ~DirectoryHeld(r)))
    /\ UNCHANGED <<file, left, dir, lockFile, owed, chased, raced, looked, runs, edits, moves,
                   crashes>>

\* abort_transaction: every change is tried, then the journal is put back.
RollbackReturns(p) ==
    LET r == proc[p] IN
    /\ Continues(p, "rollback")
    /\ Goes(p, RollingBack([r EXCEPT !.rolledBack = @ /\ r.w.ok]))

RejournalReturns(p) ==
    LET r == [proc[p] EXCEPT !.journal = Saved(proc[p])]
        result == IF r.rolledBack THEN "undone" ELSE "failed" IN
    /\ Continues(p, "rejournal")
    /\ Goes(p, IF (r.w.ok /\ DirectoryHeld(r)) \/ r.recovery = EmptyState THEN Finished(result)
               ELSE [r EXCEPT !.at = "rescue", !.w = NoWrite])

\* save_recovery_state: into the directory that the path leads to now, if
\* no journal is there.
RescueReads(p) ==
    LET r == proc[p] IN
    /\ r.at = "rescue" /\ r.w.step = "none"
    /\ Goes(p, IF LockPathHeld(r) /\ Found(Journal) = Absent
               THEN [r EXCEPT !.w = [NoWrite EXCEPT !.step = "rescuing", !.parent = dir[Journal],
                                                    !.new = r.recovery]]
               ELSE Finished("failed"))

RescueRenames(p) ==
    LET r == proc[p] IN
    /\ r.at = "rescue" /\ r.w.step = "rescuing"
    /\ IF Target(r.w) = Absent
       THEN /\ Put(r.w, Staged(r))
            /\ proc' = [proc EXCEPT ![p].w.step = "rescued"]
       ELSE /\ proc' = [proc EXCEPT ![p] = Finished("failed")]
            /\ UNCHANGED file
    /\ UNCHANGED <<left, userVars>>

RescueVerifies(p) ==
    LET r == proc[p] IN
    /\ r.at = "rescue" /\ r.w.step = "rescued"
    /\ Goes(p, Finished(IF LockPathHeld(r) /\ r.w.parent = dir[Journal] /\ r.rolledBack
                           THEN "undone" ELSE "failed"))

\* The process dies: its lock goes with it, its temporary file stays.
Crash(p) ==
    LET r == proc[p] IN
    /\ r.at # "idle"
    /\ crashes < MaxCrashes /\ Room
    /\ crashes' = crashes + 1
    /\ proc' = [proc EXCEPT ![p] = Idle]
    /\ IF r.w.temp = Absent THEN UNCHANGED left ELSE Leave(r.w)
    /\ UNCHANGED <<file, dir, lockFile, historyVars, runs, edits, moves>>

(***************************************************************************)
(* The user                                                                *)
(***************************************************************************)

\* The user rewrites or deletes a file, and so gives up an edit it holds.
Edit(c, deleted) ==
    LET n == edits + 1
        old == Found(c) IN
    /\ edits < MaxEdits /\ Room
    /\ deleted => old # Absent
    /\ edits' = n
    /\ file' = [file EXCEPT ![c][dir[c]] = IF deleted THEN Absent ELSE File(User(n), 0)]
    /\ owed' = (owed \ {e \in owed : old # Absent /\ e[1] = c /\ User(e[2]) = old.content})
               \cup (IF deleted THEN {} ELSE {<<c, n>>})
    /\ chased' = IF \E p \in Procs : /\ proc[p].w.step = "undo" /\ proc[p].w.target = c
                                     /\ proc[p].w.parent = dir[c]
                 THEN chased \cup {<<c, n>>} ELSE chased
    /\ UNCHANGED <<proc, left, dir, lockFile, torn, raced, looked, runs, moves, crashes>>

\* The directory of a target is moved away, or an earlier one comes back.
MoveDirectory(t, d) ==
    /\ moves < MaxMoves /\ Room
    /\ d # dir[t]
    /\ moves' = moves + 1
    /\ dir' = [dir EXCEPT ![t] = d]
    /\ UNCHANGED <<file, proc, left, lockFile, historyVars, runs, edits, crashes>>

ReplaceLock ==
    /\ moves < MaxMoves /\ Room
    /\ moves' = moves + 1
    /\ lockFile' = lockFile + 1
    /\ UNCHANGED <<file, dir, proc, left, historyVars, runs, edits, crashes>>

WriteStep(p) ==
    \/ /\ \/ Check(p) \/ Swap(p) \/ Compare(p) \/ Undo(p) \/ VerifyParent(p)
          \/ Back(p) \/ Recheck(p) \/ Forward(p) \/ Unlink(p)
       /\ UNCHANGED fails
    \/ UnlinkFails(p)

CommandStep(p) ==
    \/ Lock(p) \/ Plan(p) \/ JournalReturns(p) \/ CommitReturns(p) \/ FinalReturns(p)
    \/ RollbackReturns(p) \/ RejournalReturns(p)
    \/ RescueReads(p) \/ RescueRenames(p) \/ RescueVerifies(p)

Next ==
    \/ \E p \in Procs : WriteStep(p)
    \/ /\ \/ \E p \in Procs :
                \/ \E cmd \in Commands, S \in Selections, v \in Versions :
                      Start(p, cmd, S, v)
                \/ CommandStep(p) \/ Crash(p)
          \/ \E c \in Clients, deleted \in BOOLEAN : Edit(c, deleted)
          \/ \E t \in Movable, d \in Dirs : MoveDirectory(t, d)
          \/ ReplaceLock
       /\ UNCHANGED fails

Spec == Init /\ [][Next]_vars

(***************************************************************************)
(* Properties                                                              *)
(***************************************************************************)

StepNames == {"none", "check", "swap", "compare", "undo", "parent", "back", "recheck", "forward",
              "unlink", "return", "rescuing", "rescued"}
Writes == [step : StepNames, target : Targets, parent : Dirs, ok : BOOLEAN, undone : BOOLEAN,
           late : BOOLEAN, locked : BOOLEAN]
IsFile(t, f) ==
    \/ f = Absent
    \/ /\ f.run \in 0..MaxRuns
       /\ IF t = Journal THEN f.content \in States \ {EmptyState} ELSE f.content \in Contents

\* Every path holds a file of its kind, and a process that is at no write
\* holds no temporary file.
TypeOK ==
    /\ \A t \in Targets : dir[t] \in Dirs /\ \A d \in Dirs : IsFile(t, file[t][d])
    /\ \A p \in Procs :
          /\ LET w == proc[p].w IN
                 [step |-> w.step, target |-> w.target, parent |-> w.parent, ok |-> w.ok,
                  undone |-> w.undone, late |-> w.late, locked |-> w.locked] \in Writes
          /\ IsFile(proc[p].w.target, proc[p].w.temp)
          /\ proc[p].w.step \in {"none", "check", "return"} => proc[p].w.temp = Absent
          /\ proc[p].slipped \subseteq Clients
          /\ proc[p].state \in States /\ proc[p].recovery \in States
    /\ \A l \in left : l[1] \in Targets /\ l[2] # Absent /\ IsFile(l[1], l[2])
    /\ \A c \in Clients : looked[c] \in Dirs \cup {0}

\* The files of a target that are somewhere on the disk.
OnDisk(t) ==
    ({file[t][d] : d \in Dirs} \cup {l[2] : l \in {k \in left : k[1] = t}}
     \cup {proc[p].w.temp : p \in {q \in Procs : proc[q].w.target = t}}) \ {Absent}

\* What the user wrote and did not discard is on the disk, at every moment
\* and so after a crash: in the client's file, in a journal as its original,
\* or in a temporary file that stays.  The exceptions are an edit that falls
\* between the look at the file that decides to put a conflicting edit back
\* and the exchange that does it; a rollback after the journal was saved
\* for the last time, even if that save reports an error of its unlink or
\* sync; and two commands at work under different lock files.
EditKept(e) ==
    \/ \E f \in OnDisk(e[1]) : f.content = User(e[2])
    \/ \E f \in OnDisk(Journal) :
          e[1] \in DOMAIN f.content /\ f.content[e[1]].original = User(e[2])
EditsKept == torn \/ raced \/ \A e \in owed \ chased : EditKept(e)

\* Every file is one that a user, a command or a journal wrote, and no user's is lost.
FilesKept == TypeOK /\ EditsKept

\* Whatever a command leaves at a client's path, at whatever moment it dies,
\* a journal accepts it: restore does not refuse it as an edit of the user.
\* This is said of the directory where a command last found the client, and
\* of no file of ours that setup took for the client's original.
Recoverable ==
    \A c \in Clients :
        looked[c] = dir[c] /\ IsOurs(Found(c)) =>
            \E f \in OnDisk(Journal) :
                c \in DOMAIN f.content /\ Accepts(f.content[c], Found(c))

RecoverableUntilTorn == torn \/ raced \/ Recoverable

\* A command that reports that it failed, and nothing of its rollback, has
\* left no change of its own at any path: all of its clients or none, but
\* the one whose write failed in unlinking or syncing after it took effect,
\* which commit_setup_plans does not count as applied.
LeavesNothing(p) ==
    \A c \in DOMAIN proc[p].plans \ proc[p].slipped :
        LET plan == proc[p].plans[c] f == file[c][dir[c]] IN
        plan.parent = dir[c] /\ f # Absent /\ f.run = proc[p].run =>
            plan.expected # Absent /\ f.content = plan.expected.content
UndoneIsUndone ==
    [][\A p \in Procs :
          proc[p].at # "idle" /\ proc'[p].result = "undone" => raced \/ LeavesNothing(p)]_vars
===============================================================================
