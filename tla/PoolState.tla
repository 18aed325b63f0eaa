----------------------------- MODULE PoolState -----------------------------
(***************************************************************************)
(* The durable copy of an account's runtime state (src/pool.rs).           *)
(*                                                                         *)
(* Requests commit their outcomes to memory and set a dirty flag; a timer  *)
(* flushes the pool to the runtime state document; TokenHub's login report *)
(* is saved before it is acknowledged, and undone when it cannot be; and a *)
(* background initialize rebinds the account's memory from the document.   *)
(* Saves and reports run under the mutation lock; commits and initialize   *)
(* do not.  A crash loses the memory, and a start loads the document.      *)
(*                                                                         *)
(* One tokenhub- account with one login is modelled: the document is saved *)
(* as a whole, so accounts do not interfere, and bind_login_state ignores  *)
(* the entry of any other login.  An outcome is a change of the persisted  *)
(* counters, and a copy of the state is known by the outcomes it counts.   *)
(***************************************************************************)
EXTENDS Integers

CONSTANTS
    MaxCommits,   \* bound: outcomes, of requests and of refused initialises
    MaxReports,   \* bound: login reports accepted
    MaxErrors,    \* bound: runtime state writes that fail
    MaxCrashes    \* bound: process crashes

ASSUME StateAssumption ==
    MaxCommits \in Nat /\ MaxReports \in Nat /\ MaxErrors \in Nat /\ MaxCrashes \in Nat

VARIABLES
    mem,       \* AccountState of the live account
    doc,       \* its entry in the runtime state document
    up,        \* the account has credentials
    dirty,     \* AccountManager.dirty
    unmarked,  \* commits that have not set the dirty flag yet
    lock,      \* holder of the mutation lock
    saving,    \* save_state_locked of each possible holder
    undo,      \* what a refused report restores
    binding,   \* the initialize under way
    acked,     \* the last report that TokenHub was told is saved
    refused,   \* history: the outcomes that an initialize wrote itself
    forgotten, \* history: those among them that a later bind replaced in memory
    made, reports, errors, crashes

vars == <<mem, doc, up, dirty, unmarked, lock, saving, undo, binding, acked,
          refused, forgotten, made, reports, errors, crashes>>

\* What every step but an outcome, a bind and a crash leaves alone.
history == <<refused, forgotten, made>>

Savers == {"flush", "report"}
Finding == [issue: BOOLEAN, rev: 0..MaxReports]
Outcomes == 1..MaxCommits
Copy == [done: SUBSET Outcomes, trouble: BOOLEAN, issue: BOOLEAN, rev: 0..MaxReports]
Reported(c) == [issue |-> c.issue, rev |-> c.rev]
Stopped == [done |-> {}, trouble |-> TRUE, issue |-> FALSE, rev |-> 0]
NoSave == [at |-> "idle", copy |-> Stopped]

\* A start that finds the account in trouble, as it was when it stopped.
Init ==
    /\ doc = Stopped
    /\ mem = doc
    /\ up = FALSE /\ dirty = FALSE /\ unmarked = 0
    /\ lock = "free"
    /\ saving = [s \in Savers |-> NoSave]
    /\ undo = Reported(doc)
    /\ binding = NoSave
    /\ acked = Reported(doc)
    /\ refused = {} /\ forgotten = {}
    /\ made = 0 /\ reports = 0 /\ errors = 0 /\ crashes = 0

(***************************************************************************)
(* Data plane: commit_success, commit_failure, commit_credential_dead      *)
(***************************************************************************)

\* The next outcome is counted in memory, with what it says of the account.
Counted(trouble) ==
    /\ made < MaxCommits
    /\ made' = made + 1
    /\ mem' = [mem EXCEPT !.done = @ \cup {made + 1}, !.trouble = trouble]
    /\ unmarked' = unmarked + 1

Commit ==
    /\ up
    /\ \E trouble \in BOOLEAN : Counted(trouble)
    /\ UNCHANGED <<doc, up, dirty, lock, saving, undo, binding, acked, refused,
                   forgotten, reports, errors, crashes>>

\* The flag is set after the pool lock is released.
MarkDirty ==
    /\ unmarked > 0
    /\ unmarked' = unmarked - 1
    /\ dirty' = TRUE
    /\ UNCHANGED <<history, mem, doc, up, lock, saving, undo, binding, acked, reports,
                   errors, crashes>>

(***************************************************************************)
(* Saves: the flush timer and the report handler                           *)
(***************************************************************************)

\* lock_mutations, held over the snapshot and its write.
Mutant_NoMutationLock == TRUE
MutationsFree == lock = "free"

FlushBegin ==
    /\ dirty
    /\ MutationsFree
    /\ saving["flush"].at = "idle"
    /\ lock' = "flush"
    /\ saving' = [saving EXCEPT !["flush"].at = "begun"]
    /\ UNCHANGED <<history, mem, doc, up, dirty, unmarked, undo, binding, acked, reports,
                   errors, crashes>>

\* internal_report_login_diagnostic: a report about the revision that the
\* prober was given, of an account that still needs one.
ReportBegin ==
    /\ MutationsFree
    /\ saving["report"].at = "idle"
    /\ reports < MaxReports
    /\ mem.trouble \/ mem.issue
    /\ \E issue \in BOOLEAN :
          mem' = [mem EXCEPT !.issue = issue, !.rev = reports + 1]
    /\ reports' = reports + 1
    /\ undo' = Reported(mem)
    /\ lock' = "report"
    /\ saving' = [saving EXCEPT !["report"].at = "begun"]
    /\ UNCHANGED <<history, doc, up, dirty, unmarked, binding, acked, errors, crashes>>

\* save_state_locked clears the flag, takes the snapshot and writes it.
SaveClear(s) ==
    /\ saving[s].at = "begun"
    /\ saving' = [saving EXCEPT ![s].at = "cleared"]
    /\ dirty' = FALSE
    /\ UNCHANGED <<history, mem, doc, up, unmarked, lock, undo, binding, acked, reports,
                   errors, crashes>>

SaveSnapshot(s) ==
    /\ saving[s].at = "cleared"
    /\ saving' = [saving EXCEPT ![s] = [at |-> "copied", copy |-> mem]]
    /\ UNCHANGED <<history, mem, doc, up, dirty, unmarked, lock, undo, binding, acked,
                   reports, errors, crashes>>

\* The flag after a write that succeeded, and after one that failed.
Mutant_ClearedAfterWrite == FALSE
FlagAfterWrite == dirty
Mutant_LeftClear == dirty
FlagAfterError == TRUE

SaveWritten(s) ==
    /\ saving[s].at = "copied"
    /\ doc' = saving[s].copy
    /\ dirty' = FlagAfterWrite
    /\ acked' = IF s = "report" THEN Reported(saving[s].copy) ELSE acked
    /\ saving' = [saving EXCEPT ![s] = NoSave]
    /\ lock' = "free"
    /\ UNCHANGED <<history, mem, up, unmarked, undo, binding, reports, errors, crashes>>

\* A report that cannot be saved is taken back and refused.
SaveFailed(s) ==
    /\ saving[s].at = "copied"
    /\ errors < MaxErrors
    /\ errors' = errors + 1
    /\ dirty' = FlagAfterError
    /\ mem' = IF s = "report"
              THEN [mem EXCEPT !.issue = undo.issue, !.rev = undo.rev]
              ELSE mem
    /\ saving' = [saving EXCEPT ![s] = NoSave]
    /\ lock' = "free"
    /\ UNCHANGED <<history, doc, up, unmarked, undo, binding, acked, reports, crashes>>

(***************************************************************************)
(* initialize: its steps are awaits and hold no pool-wide lock             *)
(***************************************************************************)

InitializeBegin ==
    /\ ~up /\ ~mem.issue
    /\ binding.at = "idle"
    /\ binding' = [binding EXCEPT !.at = "begun"]
    /\ UNCHANGED <<history, mem, doc, up, dirty, unmarked, lock, saving, undo, acked,
                   reports, errors, crashes>>

\* The auth host refuses the login for good: commit_credential_dead counts a
\* failure and sets auth_dead_until of the account that is not up.
InitializeRefused ==
    /\ binding.at = "begun"
    /\ Counted(TRUE)
    /\ refused' = refused \cup {made + 1}
    /\ binding' = [binding EXCEPT !.at = "idle"]
    /\ UNCHANGED <<doc, up, dirty, lock, saving, undo, acked, forgotten, reports,
                   errors, crashes>>

\* The auth host cannot be reached, the credential cannot be read, or the login
\* was replaced while the models were fetched: the attempt leaves no outcome.
InitializeFailed ==
    /\ binding.at \in {"begun", "bound"}
    /\ binding' = [binding EXCEPT !.at = "idle"]
    /\ UNCHANGED <<history, mem, doc, up, dirty, unmarked, lock, saving, undo, acked,
                   reports, errors, crashes>>

\* bind_login_state reads the document ...
BindRead ==
    /\ binding.at = "begun"
    /\ binding' = [at |-> "read", copy |-> doc]
    /\ UNCHANGED <<history, mem, doc, up, dirty, unmarked, lock, saving, undo, acked,
                   reports, errors, crashes>>

\* ... and replaces the account's state by what it read, an earlier refusal
\* that was not in the document yet included.
BindAssign ==
    /\ binding.at = "read"
    /\ mem' = binding.copy
    /\ forgotten' = forgotten \cup (refused \cap (mem.done \ binding.copy.done))
    /\ binding' = [NoSave EXCEPT !.at = "bound"]
    /\ UNCHANGED <<refused, made, doc, up, dirty, unmarked, lock, saving, undo, acked,
                   reports, errors, crashes>>

Publish ==
    /\ binding.at = "bound"
    /\ up' = TRUE
    /\ unmarked' = unmarked + 1
    /\ binding' = [binding EXCEPT !.at = "idle"]
    /\ UNCHANGED <<history, mem, doc, dirty, lock, saving, undo, acked, reports, errors, crashes>>

(***************************************************************************)
(* Crash and restart (load_credentials, load_state)                        *)
(***************************************************************************)

Crash ==
    /\ crashes < MaxCrashes
    /\ crashes' = crashes + 1
    /\ mem' = doc
    /\ up' = FALSE /\ dirty' = FALSE /\ unmarked' = 0
    /\ lock' = "free"
    /\ saving' = [s \in Savers |-> NoSave]
    /\ undo' = Reported(doc)
    /\ binding' = NoSave
    /\ forgotten' = {}
    /\ UNCHANGED <<refused, made, doc, acked, reports, errors>>

SaveStep ==
    \/ FlushBegin
    \/ \E s \in Savers : SaveClear(s) \/ SaveSnapshot(s) \/ SaveWritten(s) \/ SaveFailed(s)

Next ==
    \/ Commit \/ MarkDirty
    \/ ReportBegin \/ SaveStep
    \/ InitializeBegin \/ InitializeRefused \/ InitializeFailed \/ BindRead \/ BindAssign \/ Publish
    \/ Crash

Spec == Init /\ [][Next]_vars

\* A commit's thread runs on, the timer keeps ticking and a save ends.
FairSpec == Spec /\ WF_vars(MarkDirty) /\ WF_vars(SaveStep)

(***************************************************************************)
(* Properties                                                              *)
(***************************************************************************)

\* Every variable has its type, and the mutation lock is held by the one
\* save under way (save_state_locked takes the guard as a parameter).
TypeOK ==
    /\ mem \in Copy /\ doc \in Copy
    /\ up \in BOOLEAN /\ dirty \in BOOLEAN
    /\ unmarked \in 0..(MaxCommits + 1)
    /\ lock \in Savers \cup {"free"}
    /\ saving \in [Savers -> [at: {"idle", "begun", "cleared", "copied"}, copy: Copy]]
    /\ \A s \in Savers : saving[s].at # "idle" <=> lock = s
    /\ undo \in Finding /\ acked \in Finding
    /\ binding \in [at: {"idle", "begun", "read", "bound"}, copy: Copy]
    /\ refused \subseteq Outcomes /\ forgotten \subseteq refused /\ made \in 0..MaxCommits
    /\ reports \in 0..MaxReports /\ errors \in 0..MaxErrors /\ crashes \in 0..MaxCrashes

\* An outcome that the document does not hold yet has a flush to come: the
\* flag is set or about to be, or a save under way will write it.  "Clear
\* before taking the snapshot, never after writing: data-plane updates during
\* either phase must leave the next flush pending" (save_state_locked).
Unsaved == mem.done \ (doc.done \cup forgotten)
FlushPending ==
    Unsaved # {} =>
        \/ dirty \/ unmarked > 0
        \/ \E s \in Savers :
              \/ saving[s].at \in {"begun", "cleared"}
              \/ saving[s].at = "copied" /\ Unsaved \subseteq saving[s].copy.done

\* No save takes out of the document an outcome that an earlier one made
\* durable ("so a saver cannot overwrite a newer mutation", lock_mutations),
\* but for the refusal of an initialize that the next bind read past: saved or
\* not, the pool forgot it.  A request's outcome is never forgotten.
OutcomesNeverRegress == [][doc.done \ forgotten \subseteq doc'.done]_vars

\* The document catches up with the pool once requests stop and writes
\* succeed again, whatever saves, reports, refused initialises and failed
\* writes came between.
OutcomesSaved == []<>(mem.done \subseteq doc.done \cup forgotten)

\* A login report that was acknowledged is what the document holds until the
\* next one: the mutation lock is "held across a whole account
\* read/check/mutate/persist sequence and every runtime snapshot/write, so a
\* saver cannot overwrite a newer mutation" (lock_mutations).
AckedReportKept == lock = "free" => Reported(doc) = acked
=============================================================================
