------------------------------- MODULE Updates --------------------------------
(***************************************************************************)
(* The release check and the installer of kiro-lb (updates.rs,             *)
(* update_install.rs, and the shutdown and restart of main.rs): handlers   *)
(* that refresh the release information behind one lock, an install that   *)
(* outlives the handler that admitted it, the backup, replacement and      *)
(* restoration of the executable, and the drain after which the process    *)
(* becomes the new version.  The process may die between any two steps.     *)
(*                                                                         *)
(* A version is a number and stands for the executable that reports it;    *)
(* Missing is a path with no file.  Copies are written beside their        *)
(* destination and renamed, so a path never holds part of one.  Archives,  *)
(* sizes and the parsing of tags are left out: a download that is too      *)
(* large, malformed or not a regular file is one whose sums do not match.  *)
(***************************************************************************)
EXTENDS Integers

CONSTANTS
    Askers,       \* handlers and the background loop that refresh the information
    NoAsker,
    LastVersion   \* bound: releases published

ASSUME UpdatesAssumption == LastVersion \in Nat \ {0} /\ NoAsker \notin Askers

VARIABLES
    platform,  \* "unix" or "windows"
    released,  \* the latest published release
    disk,      \* the executable and its backup
    process,   \* the process: its version and how far its shutdown is
    checker,   \* UpdateChecker.info and last_check
    install,   \* UpdateChecker.installation and pending
    task,      \* the spawned install
    asker      \* calls of refresh and of install_update

uvars == <<platform, released, disk, process, checker, install, task, asker>>

Missing == 0
Unknown == 0       \* no release information: Checking or Unavailable
NoInstall == 0     \* what check_updates wants
Loop == -1         \* what the background loop wants
Releases == 1..LastVersion

NotAsking == [at |-> "idle", wants |-> NoInstall, saw |-> Unknown]
NoTask == [at |-> "none", version |-> Missing, relocated |-> FALSE]
Serving(v) == [version |-> v, phase |-> "serving", moved |-> FALSE, stopped |-> FALSE,
               notified |-> FALSE, restart |-> FALSE]
NewChecker == [latest |-> Unknown, recent |-> FALSE, holder |-> NoAsker]
NewInstall == [status |-> "idle", version |-> Missing, disabled |-> FALSE, pending |-> FALSE]

UpdatesInit ==
    /\ platform \in {"unix", "windows"}
    /\ released = 1
    /\ disk = [exe |-> 1, backup |-> Missing]
    /\ process = Serving(1)
    /\ checker = NewChecker
    /\ install = NewInstall
    /\ task = NoTask
    /\ asker = [a \in Askers |-> NotAsking]

\* A process ends, and with it all it held in memory; another may take its place.
Turns(next) ==
    /\ process' = next
    /\ checker' = NewChecker
    /\ install' = NewInstall
    /\ task' = NoTask
    /\ asker' = [a \in Askers |-> NotAsking]

Boots(v) == Turns(Serving(v))
Ends == Turns([Serving(process.version) EXCEPT !.phase = "down"])

----------------------------------------------------------------------------
(* UpdateChecker::refresh, and install_update up to start_install.         *)

Publish ==
    /\ released < LastVersion
    /\ released' = released + 1
    /\ UNCHANGED <<platform, disk, process, checker, install, task, asker>>

AskerAt(a, at) == asker' = [asker EXCEPT ![a].at = at]
Free(a) == IF checker.holder = a THEN [checker EXCEPT !.holder = NoAsker] ELSE checker

\* check_updates, or install_update of a version that its operator confirmed.
Ask(a, version) ==
    /\ process.phase = "serving"
    /\ asker[a].at = "idle"
    /\ version # NoInstall => ~install.disabled
    /\ asker' = [asker EXCEPT ![a] = [at |-> "lock", wants |-> version, saw |-> Unknown]]
    /\ UNCHANGED <<platform, released, disk, process, checker, install, task>>

\* The background loop, which no shutdown waits for.
LoopAsks(a) ==
    /\ process.phase \in {"serving", "draining"}
    /\ asker[a].at = "idle"
    /\ \A b \in Askers : asker[b].wants # Loop
    /\ asker' = [asker EXCEPT ![a] = [at |-> "lock", wants |-> Loop, saw |-> Unknown]]
    /\ UNCHANGED <<platform, released, disk, process, checker, install, task>>

\* The lock on last_check: a recent result, failed ones included, is used again.
AcquireCheck(a) ==
    /\ asker[a].at = "lock" /\ checker.holder = NoAsker
    /\ IF checker.recent
       THEN AskerAt(a, "checked") /\ UNCHANGED checker
       ELSE AskerAt(a, "asking") /\ checker' = [checker EXCEPT !.holder = a]
    /\ UNCHANGED <<platform, released, disk, process, install, task>>

\* The host answers with its latest release, or not with a stable one in time.
HostReplies(a) ==
    /\ asker[a].at = "asking"
    /\ \E latest \in {released, Unknown} :
          asker' = [asker EXCEPT ![a].at = "replied", ![a].saw = latest]
    /\ UNCHANGED <<platform, released, disk, process, checker, install, task>>

Recorded(a) == [checker EXCEPT !.latest = asker[a].saw, !.recent = TRUE, !.holder = NoAsker]
Record(a) ==
    /\ asker[a].at = "replied"
    /\ checker' = Recorded(a)
    /\ AskerAt(a, "checked")
    /\ UNCHANGED <<platform, released, disk, process, install, task>>

\* MIN_CHECK_INTERVAL passes.
Cools ==
    /\ checker.recent
    /\ checker' = [checker EXCEPT !.recent = FALSE]
    /\ UNCHANGED <<platform, released, disk, process, install, task, asker>>

\* A client leaves: its future ends at an await, and the guard of the lock with it.
Dropped(a) ==
    /\ asker[a].at \in {"lock", "asking", "replied"} /\ asker[a].wants # Loop
    /\ checker' = Free(a)
    /\ asker' = [asker EXCEPT ![a] = NotAsking]
    /\ UNCHANGED <<platform, released, disk, process, install, task>>

\* check_updates and the loop are done; start_install reads the information before it takes the lock of
\* the installation.
ReadInfo(a) ==
    /\ asker[a].at = "checked"
    /\ asker' = [asker EXCEPT ![a] = IF @.wants \in {NoInstall, Loop} THEN NotAsking
                                     ELSE [@ EXCEPT !.at = "read", !.saw = checker.latest]]
    /\ UNCHANGED <<platform, released, disk, process, checker, install, task>>

Admits(a) ==
    /\ ~install.disabled
    /\ install.status \notin {"downloading", "restarting"}
    /\ asker[a].saw > process.version     \* UpdateAvailable
    /\ asker[a].saw = asker[a].wants

Admit(a) ==
    /\ asker[a].at = "read"
    /\ asker' = [asker EXCEPT ![a] = NotAsking]
    /\ IF Admits(a)
       THEN /\ install' = [install EXCEPT !.status = "downloading", !.version = asker[a].wants]
            /\ task' = [NoTask EXCEPT !.at = "locate", !.version = asker[a].wants]
       ELSE UNCHANGED <<install, task>>
    /\ UNCHANGED <<platform, released, disk, process, checker>>

----------------------------------------------------------------------------
(* The spawned install: prepare, PreparedUpdate::replace and the verdict.  *)

TaskGoes(at) == task' = [task EXCEPT !.at = at]

\* current_exe: on Unix the path of a replaced image cannot be resolved, on Windows it is
\* where the image was moved to.
Locate ==
    /\ task.at = "locate"
    /\ IF process.moved /\ platform = "unix"
       THEN TaskGoes("failed")
       ELSE task' = [task EXCEPT !.at = "prepare", !.relocated = process.moved]
    /\ UNCHANGED <<platform, released, disk, process, checker, install, asker>>

\* What the release holds under the tag: whether the sums match what was received, and
\* the version that the executable in it reports.
Downloads == [sums : BOOLEAN, reports : Releases \cup {Missing}]

Mutant_NoSmokeTest(download) == download.sums /\ download.reports # Missing
Verified(download) == download.sums /\ download.reports = task.version

Prepare ==
    /\ task.at = "prepare"
    /\ \/ \E download \in Downloads :
             /\ Verified(download)
             /\ task' = [task EXCEPT !.at = "backup", !.version = download.reports]
       \/ TaskGoes("failed")
    /\ UNCHANGED <<platform, released, disk, process, checker, install, asker>>

\* The replacement works on the executable that was located.
Onto(next) == disk' = IF task.relocated THEN disk ELSE next

\* The executable is copied to <name>.previous, or it is not and the install fails.
Mutant_KeepsOldest == IF disk.backup = Missing THEN disk.exe ELSE disk.backup
BackedUp == disk.exe

BackUp ==
    /\ task.at = "backup"
    /\ \/ Onto([disk EXCEPT !.backup = BackedUp]) /\ TaskGoes("replace")
       \/ TaskGoes("broken") /\ UNCHANGED disk
    /\ UNCHANGED <<platform, released, process, checker, install, asker>>

\* self_replace renames the candidate over the executable; on Windows it moves the
\* running image away first, and may fail or die after that.
Replace ==
    /\ task.at = "replace"
    /\ \/ TaskGoes("broken") /\ UNCHANGED <<disk, process>>
       \/ /\ process' = [process EXCEPT !.moved = TRUE]
          /\ IF platform = "unix"
             THEN Onto([disk EXCEPT !.exe = task.version]) /\ TaskGoes("installed")
             ELSE Onto([disk EXCEPT !.exe = Missing]) /\ TaskGoes("moved")
    /\ UNCHANGED <<platform, released, checker, install, asker>>

MoveIn ==
    /\ task.at = "moved"
    /\ \/ Onto([disk EXCEPT !.exe = task.version]) /\ TaskGoes("installed")
       \/ TaskGoes("missing") /\ UNCHANGED disk
    /\ UNCHANGED <<platform, released, process, checker, install, asker>>

\* The path is empty: the backup is copied back, which may fail too.
PutBack ==
    /\ task.at = "missing"
    /\ \/ Onto([disk EXCEPT !.exe = disk.backup])
       \/ UNCHANGED disk
    /\ TaskGoes("broken")
    /\ UNCHANGED <<platform, released, process, checker, install, asker>>

\* A replacement that failed disables further ones on Windows, before it is reported.
Broken ==
    /\ task.at = "broken"
    /\ install' = [install EXCEPT !.disabled = @ \/ platform = "windows"]
    /\ TaskGoes("failed")
    /\ UNCHANGED <<platform, released, disk, process, checker, asker>>

Report ==
    /\ \/ /\ task.at = "failed"
          /\ install' = [install EXCEPT !.status = "failed"]
          /\ task' = NoTask
       \/ /\ task.at = "installed"
          /\ install' = [install EXCEPT !.status = "restarting", !.pending = TRUE]
          /\ TaskGoes("notify")
    /\ UNCHANGED <<platform, released, disk, process, checker, asker>>

Notify ==
    /\ task.at = "notify"
    /\ process' = [process EXCEPT !.notified = TRUE]
    /\ task' = NoTask
    /\ UNCHANGED <<platform, released, disk, checker, install, asker>>

----------------------------------------------------------------------------
(* serve_until_shutdown and restart_updated.                               *)

\* Ctrl-C or a termination signal.
Stop ==
    /\ process.phase = "serving" /\ ~process.stopped
    /\ process' = [process EXCEPT !.stopped = TRUE]
    /\ UNCHANGED <<platform, released, disk, checker, install, task, asker>>

\* The listener closes; a stop that is ready is preferred to a restart that is.
Reason == ~process.stopped
BeginDrain ==
    /\ process.phase = "serving"
    /\ process.stopped \/ process.notified
    /\ process' = [process EXCEPT !.phase = "draining", !.restart = Reason]
    /\ UNCHANGED <<platform, released, disk, checker, install, task, asker>>

Requests == {a \in Askers : asker[a].at # "idle" /\ asker[a].wants # Loop}

\* The last request has ended: the state is flushed and the process takes the pending
\* update, or ends with whatever install was running.
Drained ==
    /\ process.phase = "draining"
    /\ Requests = {}
    /\ IF process.restart /\ install.pending
       THEN /\ process' = [process EXCEPT !.phase = "launching"]
            /\ UNCHANGED <<checker, install, task, asker>>
       ELSE Ends
    /\ UNCHANGED <<platform, released, disk>>

\* The executable at the installed path replaces the process, or cannot be started.
Launch ==
    /\ process.phase = "launching"
    /\ \/ disk.exe # Missing /\ Boots(disk.exe)
       \/ /\ process' = [process EXCEPT !.phase = "restoring"]
          /\ UNCHANGED <<checker, install, task, asker>>
    /\ UNCHANGED <<platform, released, disk>>

\* InstalledUpdate::restore.
Restore ==
    /\ process.phase = "restoring"
    /\ \/ /\ disk' = [disk EXCEPT !.exe = disk.backup]
          /\ process' = [process EXCEPT !.phase = "relaunching"]
          /\ UNCHANGED <<checker, install, task, asker>>
       \/ Ends /\ UNCHANGED disk
    /\ UNCHANGED <<platform, released>>

Relaunch ==
    /\ process.phase = "relaunching"
    /\ \/ Boots(disk.exe)
       \/ Ends
    /\ UNCHANGED <<platform, released, disk>>

Die ==
    /\ process.phase # "down"
    /\ Ends
    /\ UNCHANGED <<platform, released, disk>>

\* Its supervisor or operator starts what is installed.
StartAgain ==
    /\ process.phase = "down" /\ disk.exe # Missing
    /\ Boots(disk.exe)
    /\ UNCHANGED <<platform, released, disk>>

UpdatesNext ==
    \/ Publish \/ Cools
    \/ \E a \in Askers :
          \/ \E version \in (1..released) \cup {NoInstall} : Ask(a, version)
          \/ LoopAsks(a) \/ AcquireCheck(a) \/ HostReplies(a) \/ Record(a) \/ Dropped(a)
          \/ ReadInfo(a) \/ Admit(a)
    \/ Locate \/ Prepare \/ BackUp \/ Replace \/ MoveIn \/ PutBack \/ Broken \/ Report \/ Notify
    \/ Stop \/ BeginDrain \/ Drained \/ Launch \/ Restore \/ Relaunch \/ Die \/ StartAgain

UpdatesSpec == UpdatesInit /\ [][UpdatesNext]_uvars

----------------------------------------------------------------------------
(* Properties.                                                             *)

UpdatesTypeOK ==
    /\ released \in Releases
    /\ disk \in [exe : Releases \cup {Missing}, backup : Releases \cup {Missing}]
    /\ checker.latest \in 0..released
    /\ \A a \in Askers :
          asker[a].at \in {"asking", "replied"} <=> checker.holder = a
    /\ task.at # "none" => install.status = IF task.at = "notify" THEN "restarting" ELSE "downloading"
    /\ install.pending => install.status = "restarting"

\* Whatever fails and whenever the process dies, the version that ran last is still on the
\* disk, as the executable or as its backup; and no install ever works on the image that
\* an earlier, failed replacement moved away.
LastVersionKept ==
    /\ process.version \in {disk.exe, disk.backup}
    /\ ~task.relocated

UpdatesKept == UpdatesTypeOK /\ LastVersionKept

\* An executable is only replaced by a newer one than the process runs, or by its backup;
\* and the process is only replaced when no stop preceded the update, the update is
\* installed and every request has ended.
UpdatesForward ==
    [][/\ disk'.exe \notin {disk.exe, Missing} =>
             disk'.exe = disk.backup \/ disk'.exe > process.version
       /\ process'.phase = "launching" /\ process.phase = "draining" =>
             ~process.stopped /\ disk.exe = install.version /\ Requests = {}]_uvars
===============================================================================
