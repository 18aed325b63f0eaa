--------------------------- MODULE PoolStateProofs ---------------------------
(***************************************************************************)
(* The safety of the runtime state document, for any number of outcomes,   *)
(* reports, failed writes and crashes.                                     *)
(***************************************************************************)
EXTENDS PoolState, TLAPS

(***************************************************************************)
(* The inductive invariant.  The flag alone does not carry FlushPending:   *)
(* it needs that, but for what a bind forgot, the document never runs ahead *)
(* of the memory and a snapshot lies between the two, and that a bind,     *)
(* which writes without the lock, runs only while no request can commit:   *)
(* what it replaces and did not read are refusals of earlier initialises.  *)
(***************************************************************************)

\* The document's outcomes are in memory, and a snapshot lies between.
Between ==
    /\ doc.done \ forgotten \subseteq mem.done
    /\ \A s \in Savers : saving[s].at = "copied" =>
          /\ doc.done \ forgotten \subseteq saving[s].copy.done
          /\ saving[s].copy.done \ forgotten \subseteq mem.done

\* Until the account is up only a refused initialize counts an outcome, so
\* nothing else can be missing from the document, from a snapshot of the memory
\* or from what a bind has read.
Quiet ==
    /\ binding.at # "idle" => ~up
    /\ ~up => mem.done \ doc.done \subseteq refused
    /\ \A s \in Savers : ~up /\ saving[s].at = "copied" =>
          mem.done \ saving[s].copy.done \subseteq refused
    /\ binding.at = "read" =>
          /\ mem.done \ binding.copy.done \subseteq refused
          /\ binding.copy.done \ forgotten \subseteq doc.done

\* Marks outstanding are at most the outcomes so far and the account's start.
FewUnmarked == unmarked <= made + (IF up THEN 1 ELSE 0)

IInv == TypeOK /\ Between /\ Quiet /\ FewUnmarked /\ FlushPending

USE DEF Savers, history

\* Two savers cannot both be under way (save_state_locked holds the guard).
LEMMA OneSave ==
    ASSUME TypeOK, NEW s \in Savers, NEW t \in Savers,
           saving[s].at # "idle", saving[t].at # "idle"
    PROVE  s = t
  BY DEF TypeOK

\* The first state of the model satisfies the inductive invariant.
LEMMA InitInv == Init => IInv
  <1> SUFFICES ASSUME Init PROVE IInv
    OBVIOUS
  <1>1. Stopped \in Copy /\ Reported(Stopped) \in Finding
    BY StateAssumption DEF Stopped, Copy, Reported, Finding
  <1>n. /\ NoSave.at = "idle"
        /\ NoSave \in [at: {"idle", "begun", "cleared", "copied"}, copy: Copy]
        /\ NoSave \in [at: {"idle", "begun", "read", "bound"}, copy: Copy]
    BY <1>1 DEF NoSave
  <1>2. TypeOK
    <2>1. /\ doc = Stopped /\ mem = Stopped /\ undo = Reported(Stopped)
          /\ acked = Reported(Stopped) /\ binding = NoSave
      BY DEF Init
    <2>2. saving = [s \in Savers |-> NoSave] /\ lock = "free"
      BY DEF Init
    <2>3. up = FALSE /\ dirty = FALSE /\ unmarked = 0
      BY DEF Init
    <2>4. /\ reports = 0 /\ errors = 0 /\ crashes = 0
          /\ made = 0 /\ refused = {} /\ forgotten = {}
      BY DEF Init
    <2>5. /\ saving \in [Savers -> [at: {"idle", "begun", "cleared", "copied"}, copy: Copy]]
          /\ \A s \in Savers : saving[s].at # "idle" <=> lock = s
      BY <1>n, <2>2
    <2>6. /\ unmarked \in 0..(MaxCommits + 1)
          /\ refused \subseteq Outcomes /\ forgotten \subseteq refused /\ made \in 0..MaxCommits
          /\ reports \in 0..MaxReports /\ errors \in 0..MaxErrors /\ crashes \in 0..MaxCrashes
      BY <2>3, <2>4, StateAssumption
    <2> QED
      BY <1>1, <1>n, <2>1, <2>2, <2>3, <2>5, <2>6 DEF TypeOK
  <1>3. Between /\ Quiet /\ FewUnmarked /\ FlushPending
    BY DEF Init, Between, Quiet, FewUnmarked, FlushPending, Unsaved, Stopped, NoSave
  <1> QED
    BY <1>2, <1>3 DEF IInv

\* An outcome that is counted stays in the types, and leaves one more mark.
LEMMA CountedTyped ==
    ASSUME TypeOK, FewUnmarked, NEW trouble \in BOOLEAN, Counted(trouble)
    PROVE  /\ mem' \in Copy
           /\ made' \in 0..MaxCommits /\ made' = made + 1
           /\ made + 1 \in Outcomes
           /\ unmarked' \in 0..(MaxCommits + 1)
           /\ mem'.done = mem.done \cup {made + 1}
  <1>1. made + 1 \in Outcomes /\ made' = made + 1 /\ made' \in 0..MaxCommits
    BY StateAssumption DEF Counted, TypeOK, Outcomes
  <1>2. mem \in Copy /\ mem' = [mem EXCEPT !.done = @ \cup {made + 1}, !.trouble = trouble]
    BY DEF Counted, TypeOK
  <1>3. mem' \in Copy /\ mem'.done = mem.done \cup {made + 1}
    BY <1>1, <1>2 DEF Copy
  <1>4. unmarked' \in 0..(MaxCommits + 1)
    BY StateAssumption DEF Counted, TypeOK, FewUnmarked
  <1> QED
    BY <1>1, <1>3, <1>4

\* Every step keeps every variable in its type.
LEMMA TypeStep == IInv /\ [Next]_vars => TypeOK'
  <1> SUFFICES ASSUME IInv, [Next]_vars PROVE TypeOK'
    OBVIOUS
  <1> USE StateAssumption
  <1>t. TypeOK /\ FewUnmarked /\ Quiet
    BY DEF IInv
  <1>r. \A c \in Copy : Reported(c) \in Finding
    BY DEF Reported, Copy, Finding
  <1>n. NoSave.at = "idle" /\ NoSave.copy \in Copy
    BY DEF NoSave, Stopped, Copy
  <1>1. CASE Commit
    BY <1>1, <1>t, CountedTyped DEF Commit, TypeOK
  <1>2. CASE MarkDirty
    BY <1>2, <1>t DEF MarkDirty, TypeOK
  <1>3. CASE ReportBegin
    <2>1. PICK issue \in BOOLEAN :
               mem' = [mem EXCEPT !.issue = issue, !.rev = reports + 1]
      BY <1>3 DEF ReportBegin
    <2>2. reports + 1 \in 0..MaxReports /\ mem \in Copy
      BY <1>3, <1>t DEF ReportBegin, TypeOK
    <2>3. mem' \in Copy
      BY <2>1, <2>2 DEF Copy
    <2> QED
      BY <1>3, <1>t, <1>r, <2>2, <2>3 DEF ReportBegin, TypeOK, MutationsFree
  <1>4. CASE FlushBegin
    BY <1>4, <1>t DEF FlushBegin, TypeOK, MutationsFree
  <1>5. ASSUME NEW s \in Savers, SaveClear(s) PROVE TypeOK'
    BY <1>5, <1>t DEF SaveClear, TypeOK
  <1>6. ASSUME NEW s \in Savers, SaveSnapshot(s) PROVE TypeOK'
    <2>1. saving' \in [Savers -> [at: {"idle", "begun", "cleared", "copied"}, copy: Copy]]
      BY <1>6, <1>t DEF SaveSnapshot, TypeOK
    <2> QED
      BY <1>6, <1>t, <2>1 DEF SaveSnapshot, TypeOK
  <1>7. ASSUME NEW s \in Savers, SaveWritten(s) PROVE TypeOK'
    <2>1. saving' \in [Savers -> [at: {"idle", "begun", "cleared", "copied"}, copy: Copy]]
      BY <1>7, <1>t, <1>n DEF SaveWritten, TypeOK, NoSave
    <2>2. \A t \in Savers : saving'[t].at # "idle" <=> lock' = t
      BY <1>7, <1>t, <1>n DEF SaveWritten, TypeOK
    <2>3. doc' \in Copy /\ acked' \in Finding
      BY <1>7, <1>t, <1>r DEF SaveWritten, TypeOK
    <2> QED
      BY <1>7, <1>t, <2>1, <2>2, <2>3 DEF SaveWritten, TypeOK, FlagAfterWrite
  <1>8. ASSUME NEW s \in Savers, SaveFailed(s) PROVE TypeOK'
    <2>1. saving' \in [Savers -> [at: {"idle", "begun", "cleared", "copied"}, copy: Copy]]
      BY <1>8, <1>t, <1>n DEF SaveFailed, TypeOK, NoSave
    <2>2. \A t \in Savers : saving'[t].at # "idle" <=> lock' = t
      BY <1>8, <1>t, <1>n DEF SaveFailed, TypeOK
    <2>3. mem' \in Copy
      BY <1>8, <1>t DEF SaveFailed, TypeOK, Copy, Finding
    <2> QED
      BY <1>8, <1>t, <2>1, <2>2, <2>3 DEF SaveFailed, TypeOK, FlagAfterError
  <1>9. CASE InitializeBegin \/ InitializeFailed \/ BindRead
    BY <1>9, <1>t DEF InitializeBegin, InitializeFailed, BindRead, TypeOK
  <1>14. CASE InitializeRefused
    BY <1>14, <1>t, CountedTyped DEF InitializeRefused, TypeOK
  <1>10. CASE BindAssign
    BY <1>10, <1>t, <1>n DEF BindAssign, TypeOK, NoSave
  <1>11. CASE Publish
    BY <1>11, <1>t DEF Publish, TypeOK, FewUnmarked, Quiet
  <1>12. CASE Crash
    <2>1. saving' \in [Savers -> [at: {"idle", "begun", "cleared", "copied"}, copy: Copy]]
      <3>1. NoSave \in [at: {"idle", "begun", "cleared", "copied"}, copy: Copy]
        BY <1>n DEF NoSave
      <3> QED
        BY <3>1, <1>12 DEF Crash
    <2>2. \A t \in Savers : saving'[t].at # "idle" <=> lock' = t
      BY <1>12, <1>n DEF Crash
    <2>3. binding' \in [at: {"idle", "begun", "read", "bound"}, copy: Copy]
      BY <1>12, <1>n DEF Crash, NoSave
    <2>4. /\ mem' \in Copy /\ doc' \in Copy
          /\ undo' \in Finding /\ acked' \in Finding
      BY <1>12, <1>t, <1>r DEF Crash, TypeOK
    <2>5. /\ unmarked' \in 0..(MaxCommits + 1)
          /\ reports' \in 0..MaxReports /\ errors' \in 0..MaxErrors
          /\ crashes' \in 0..MaxCrashes /\ made' \in 0..MaxCommits
          /\ refused' \subseteq Outcomes /\ forgotten' \subseteq refused'
      BY <1>12, <1>t DEF Crash, TypeOK
    <2>6. up' \in BOOLEAN /\ dirty' \in BOOLEAN /\ lock' \in Savers \cup {"free"}
      BY <1>12 DEF Crash
    <2> QED
      BY <2>1, <2>2, <2>3, <2>4, <2>5, <2>6 DEF TypeOK
  <1>13. CASE UNCHANGED vars
    BY <1>13, <1>t DEF vars, TypeOK
  <1> QED
    BY <1>1, <1>2, <1>3, <1>4, <1>5, <1>6, <1>7, <1>8, <1>9, <1>10, <1>11, <1>12, <1>13, <1>14
    DEF Next, SaveStep

\* Every step keeps the snapshots between document and memory.
LEMMA BetweenStep == IInv /\ [Next]_vars => Between'
  <1> SUFFICES ASSUME IInv, [Next]_vars PROVE Between'
    OBVIOUS
  <1>t. TypeOK /\ Between /\ Quiet /\ FewUnmarked
    BY DEF IInv
  <1>1. CASE Commit
    BY <1>1, <1>t, CountedTyped DEF Commit, Counted, Between
  <1>2. CASE MarkDirty
    BY <1>2, <1>t DEF MarkDirty, Between
  <1>3. CASE ReportBegin
    BY <1>3, <1>t DEF ReportBegin, TypeOK, Copy, Between
  <1>4. CASE FlushBegin
    BY <1>4, <1>t DEF FlushBegin, TypeOK, Between
  <1>5. ASSUME NEW s \in Savers, SaveClear(s) PROVE Between'
    BY <1>5, <1>t DEF SaveClear, TypeOK, Between
  <1>6. ASSUME NEW s \in Savers, SaveSnapshot(s) PROVE Between'
    BY <1>6, <1>t DEF SaveSnapshot, TypeOK, Copy, Between
  <1>7. ASSUME NEW s \in Savers, SaveWritten(s) PROVE Between'
    BY <1>7, <1>t, OneSave DEF SaveWritten, TypeOK, Copy, NoSave, Between
  <1>8. ASSUME NEW s \in Savers, SaveFailed(s) PROVE Between'
    BY <1>8, <1>t DEF SaveFailed, TypeOK, Copy, NoSave, Between
  <1>9. CASE InitializeBegin \/ InitializeFailed \/ BindRead
    BY <1>9, <1>t DEF InitializeBegin, InitializeFailed, BindRead, Between
  <1>14. CASE InitializeRefused
    BY <1>14, <1>t, CountedTyped DEF InitializeRefused, Between
  <1>10. CASE BindAssign
    BY <1>10, <1>t DEF BindAssign, TypeOK, Copy, Between, Quiet
  <1>11. CASE Publish
    BY <1>11, <1>t DEF Publish, Between
  <1>12. CASE Crash
    BY <1>12, <1>t DEF Crash, TypeOK, NoSave, Copy, Between
  <1>13. CASE UNCHANGED vars
    BY <1>13, <1>t DEF vars, Between
  <1> QED
    BY <1>1, <1>2, <1>3, <1>4, <1>5, <1>6, <1>7, <1>8, <1>9, <1>10, <1>11, <1>12, <1>13, <1>14
    DEF Next, SaveStep

\* Marks stay few: an outcome and a start leave one each.
LEMMA FewStep == IInv /\ [Next]_vars => FewUnmarked'
  <1> SUFFICES ASSUME IInv, [Next]_vars PROVE FewUnmarked'
    OBVIOUS
  <1>t. FewUnmarked /\ unmarked \in Nat /\ made \in Nat /\ (binding.at # "idle" => ~up)
    BY StateAssumption DEF IInv, TypeOK, Quiet
  <1>1. CASE Commit \/ InitializeRefused
    <2>1. unmarked' = unmarked + 1 /\ made' = made + 1 /\ up' = up
      BY <1>1 DEF Commit, InitializeRefused, Counted
    <2> QED
      BY <2>1, <1>t DEF FewUnmarked
  <1>2. CASE MarkDirty
    BY <1>2, <1>t DEF MarkDirty, FewUnmarked
  <1>3. CASE Publish
    BY <1>3, <1>t DEF Publish, FewUnmarked
  <1>4. CASE Crash
    BY <1>4, <1>t DEF Crash, FewUnmarked
  <1>5. CASE UNCHANGED <<unmarked, made, up>>
    BY <1>5, <1>t DEF FewUnmarked
  <1> QED
    BY <1>1, <1>2, <1>3, <1>4, <1>5
    DEF Next, SaveStep, vars, ReportBegin, FlushBegin, SaveClear, SaveSnapshot,
        SaveWritten, SaveFailed, InitializeBegin, InitializeFailed, BindRead, BindAssign

\* Every step keeps a bind away from the outcomes of requests.
LEMMA QuietStep == IInv /\ [Next]_vars => Quiet'
  <1> SUFFICES ASSUME IInv, [Next]_vars PROVE Quiet'
    OBVIOUS
  <1>t. TypeOK /\ Between /\ Quiet /\ FewUnmarked
    BY DEF IInv
  <1>s. /\ saving \in [Savers -> [at: {"idle", "begun", "cleared", "copied"}, copy: Copy]]
        /\ mem \in [done: SUBSET Outcomes, trouble: BOOLEAN, issue: BOOLEAN,
                    rev: 0..MaxReports]
        /\ binding \in [at: {"idle", "begun", "read", "bound"}, copy: Copy]
        /\ forgotten \subseteq refused
    BY <1>t DEF TypeOK, Copy
  <1>1. CASE Commit
    BY <1>1, <1>t DEF Commit, Quiet
  <1>2. CASE InitializeRefused
    <2>1. /\ refused' = refused \cup {made + 1}
          /\ mem'.done = mem.done \cup {made + 1}
          /\ binding'.at = "idle" /\ ~up /\ ~up'
          /\ UNCHANGED <<doc, saving>>
      BY <1>2, <1>t, <1>s, CountedTyped DEF InitializeRefused, Quiet
    <2>2. mem'.done \ doc'.done \subseteq refused'
      BY <2>1, <1>t DEF Quiet
    <2>3. \A s \in Savers : saving'[s].at = "copied" =>
             mem'.done \ saving'[s].copy.done \subseteq refused'
      BY <2>1, <1>t DEF Quiet
    <2> QED
      BY <2>1, <2>2, <2>3 DEF Quiet
  <1>3. CASE MarkDirty \/ FlushBegin
    BY <1>3, <1>t, <1>s DEF MarkDirty, FlushBegin, Quiet
  <1>4. CASE ReportBegin
    <2>1. /\ mem'.done = mem.done
          /\ UNCHANGED <<doc, up, binding, refused, forgotten>>
          /\ \A s \in Savers : saving'[s].at = "copied" =>
                saving[s].at = "copied" /\ saving'[s] = saving[s]
      BY <1>4, <1>s DEF ReportBegin
    <2> QED
      BY <2>1, <1>t DEF Quiet
  <1>5. ASSUME NEW s \in Savers, SaveClear(s) PROVE Quiet'
    <2>1. /\ UNCHANGED <<mem, doc, up, binding, refused, forgotten>>
          /\ \A r \in Savers : saving'[r].at = "copied" =>
                saving[r].at = "copied" /\ saving'[r] = saving[r]
      BY <1>5, <1>s DEF SaveClear
    <2> QED
      BY <2>1, <1>t DEF Quiet
  <1>6. ASSUME NEW s \in Savers, SaveSnapshot(s) PROVE Quiet'
    <2>1. /\ UNCHANGED <<mem, doc, up, binding, refused, forgotten>>
          /\ saving'[s].copy = mem
          /\ \A r \in Savers \ {s} : saving'[r] = saving[r]
      BY <1>6, <1>s DEF SaveSnapshot
    <2> QED
      BY <2>1, <1>t DEF Quiet
  <1>7. ASSUME NEW s \in Savers, SaveWritten(s) PROVE Quiet'
    <2>1. /\ saving[s].at = "copied"
          /\ doc.done \ forgotten \subseteq saving[s].copy.done
      BY <1>7, <1>t DEF SaveWritten, Between
    <2>2. /\ \A r \in Savers : saving'[r].at # "copied"
          /\ doc' = saving[s].copy
      <3>1. \A r \in Savers : saving[r].at = "copied" => r = s
        BY <1>t, <2>1, OneSave
      <3> QED
        BY <3>1, <1>7, <1>s DEF SaveWritten, NoSave
    <2>3. UNCHANGED <<mem, up, binding, refused, forgotten>>
      BY <1>7 DEF SaveWritten
    <2> QED
      BY <1>t, <2>1, <2>2, <2>3 DEF Quiet
  <1>8. ASSUME NEW s \in Savers, SaveFailed(s) PROVE Quiet'
    <2>1. /\ mem'.done = mem.done
          /\ UNCHANGED <<doc, up, binding, refused, forgotten>>
          /\ \A r \in Savers : saving'[r].at = "copied" =>
                saving[r].at = "copied" /\ saving'[r] = saving[r]
      BY <1>8, <1>s DEF SaveFailed, NoSave
    <2> QED
      BY <2>1, <1>t DEF Quiet
  <1>9. CASE InitializeBegin \/ InitializeFailed \/ BindRead
    BY <1>9, <1>t, <1>s DEF InitializeBegin, InitializeFailed, BindRead, Quiet
  <1>10. CASE BindAssign
    <2>1. /\ mem' = binding.copy /\ binding'.at = "bound"
          /\ UNCHANGED <<doc, up, saving, refused>>
      BY <1>10, <1>s DEF BindAssign, NoSave
    <2>2. ~up /\ binding.copy.done \ forgotten \subseteq doc.done
      BY <1>10, <1>t DEF BindAssign, Quiet
    <2>3. \A s \in Savers : saving[s].at = "copied" =>
             doc.done \ forgotten \subseteq saving[s].copy.done
      BY <1>t DEF Between
    <2> QED
      BY <2>1, <2>2, <2>3, <1>s DEF Quiet
  <1>11. CASE Publish
    BY <1>11, <1>t, <1>s DEF Publish, Quiet
  <1>12. CASE Crash
    BY <1>12, <1>t DEF Crash, NoSave, Quiet
  <1>13. CASE UNCHANGED vars
    BY <1>13, <1>t DEF vars, Quiet
  <1> QED
    BY <1>1, <1>2, <1>3, <1>4, <1>5, <1>6, <1>7, <1>8, <1>9, <1>10, <1>11, <1>12, <1>13
    DEF Next, SaveStep

\* Every step leaves a flush to come for what is not in the document.
LEMMA FlushStep == IInv /\ [Next]_vars => FlushPending'
  <1> SUFFICES ASSUME IInv, [Next]_vars PROVE FlushPending'
    OBVIOUS
  <1>t. TypeOK /\ Between /\ Quiet /\ FewUnmarked /\ FlushPending
    BY DEF IInv
  <1>1. CASE Commit
    BY <1>1, <1>t DEF Commit, Counted, TypeOK, FlushPending
  <1>2. CASE MarkDirty
    BY <1>2, <1>t DEF MarkDirty, Unsaved, FlushPending
  <1>3. CASE ReportBegin
    BY <1>3, <1>t DEF ReportBegin, TypeOK, Copy, MutationsFree, Unsaved, FlushPending
  <1>4. CASE FlushBegin
    BY <1>4, <1>t DEF FlushBegin, Unsaved, FlushPending
  <1>5. ASSUME NEW s \in Savers, SaveClear(s) PROVE FlushPending'
    BY <1>5, <1>t DEF SaveClear, TypeOK, Unsaved, FlushPending
  <1>6. ASSUME NEW s \in Savers, SaveSnapshot(s) PROVE FlushPending'
    <2>1. saving'[s].at = "copied" /\ saving'[s].copy = mem
      BY <1>6, <1>t DEF SaveSnapshot, TypeOK
    <2>2. UNCHANGED <<mem, doc, forgotten>>
      BY <1>6 DEF SaveSnapshot
    <2> QED
      BY <2>1, <2>2 DEF Unsaved, FlushPending
  <1>7. ASSUME NEW s \in Savers, SaveWritten(s) PROVE FlushPending'
    <2>1. /\ doc' = saving[s].copy /\ saving[s].at = "copied"
          /\ doc.done \ forgotten \subseteq saving[s].copy.done
      BY <1>7, <1>t DEF SaveWritten, Between
    <2>2. UNCHANGED <<mem, dirty, unmarked, forgotten>>
      BY <1>7 DEF SaveWritten, FlagAfterWrite
    <2>3. Unsaved' = mem.done \ (saving[s].copy.done \cup forgotten)
      BY <2>1, <2>2 DEF Unsaved
    <2>4. Unsaved' \subseteq Unsaved
      BY <2>1, <2>3 DEF Unsaved
    <2>5. CASE Unsaved \subseteq saving[s].copy.done
      BY <2>3, <2>4, <2>5 DEF FlushPending
    <2>6. CASE ~(Unsaved \subseteq saving[s].copy.done)
      BY <2>1, <2>2, <2>6, <1>t, OneSave DEF FlushPending
    <2> QED
      BY <2>5, <2>6
  <1>8. ASSUME NEW s \in Savers, SaveFailed(s) PROVE FlushPending'
    BY <1>8, <1>t DEF SaveFailed, FlagAfterError, Unsaved, FlushPending
  <1>9. CASE InitializeBegin \/ InitializeFailed \/ BindRead
    BY <1>9, <1>t DEF InitializeBegin, InitializeFailed, BindRead, Unsaved, FlushPending
  <1>14. CASE InitializeRefused
    BY <1>14, <1>t DEF InitializeRefused, Counted, TypeOK, FlushPending
  <1>10. CASE BindAssign
    BY <1>10, <1>t DEF BindAssign, Quiet, Unsaved, FlushPending
  <1>11. CASE Publish
    BY <1>11, <1>t DEF Publish, TypeOK, Unsaved, FlushPending
  <1>12. CASE Crash
    BY <1>12, <1>t DEF Crash, Unsaved, FlushPending
  <1>13. CASE UNCHANGED vars
    BY <1>13, <1>t DEF vars, Unsaved, FlushPending
  <1> QED
    BY <1>1, <1>2, <1>3, <1>4, <1>5, <1>6, <1>7, <1>8, <1>9, <1>10, <1>11, <1>12, <1>13, <1>14
    DEF Next, SaveStep

\* The inductive invariant holds in every reachable state.
THEOREM Invariant == Spec => []IInv
  <1>1. Init => IInv
    BY InitInv
  <1>2. IInv /\ [Next]_vars => IInv'
    BY TypeStep, BetweenStep, QuietStep, FewStep, FlushStep DEF IInv
  <1> QED
    BY <1>1, <1>2, PTL DEF Spec

\* Every variable keeps its type, and the mutation lock is held by the one
\* save under way.
THEOREM TypeCorrect == Spec => []TypeOK
  <1>1. IInv => TypeOK
    BY DEF IInv
  <1> QED
    BY <1>1, Invariant, PTL

\* An outcome that is not in the document always has a flush to come.
THEOREM FlushStaysPending == Spec => []FlushPending
  <1>1. IInv => FlushPending
    BY DEF IInv
  <1> QED
    BY <1>1, Invariant, PTL

\* No save takes out of the document an outcome that was durable, but for a
\* refusal that a bind made the pool forget.
THEOREM NoRegress == Spec => OutcomesNeverRegress
  <1>1. IInv /\ [Next]_vars => [doc.done \ forgotten \subseteq doc'.done]_vars
    <2> SUFFICES ASSUME IInv, Next PROVE doc.done \ forgotten \subseteq doc'.done
      OBVIOUS
    <2>1. ASSUME NEW s \in Savers, SaveWritten(s)
          PROVE  doc.done \ forgotten \subseteq doc'.done
      BY <2>1 DEF SaveWritten, Between, IInv
    <2>2. CASE UNCHANGED doc
      BY <2>2
    <2> QED
      BY <2>1, <2>2
      DEF Next, SaveStep, Commit, MarkDirty, ReportBegin, FlushBegin, SaveClear,
          SaveSnapshot, SaveFailed, InitializeBegin, InitializeRefused,
          InitializeFailed, BindRead, BindAssign, Publish, Crash
  <1> QED
    BY <1>1, Invariant, PTL DEF Spec, OutcomesNeverRegress
=============================================================================
