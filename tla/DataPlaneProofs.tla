-------------------------- MODULE DataPlaneProofs --------------------------
(***************************************************************************)
(* Theorems about DataPlane.  A turn's record says on its own what its     *)
(* request may have heard, recorded and told (TurnOk); the key's caches    *)
(* and its use are an invariant of the key (KeyInv); a generation's record *)
(* and permits say which gates it passed and which routes it tried (RecOk);*)
(* and a turn that does not generate has neither (PairOk).                 *)
(***************************************************************************)
EXTENDS DataPlane, FiniteSetTheorems, TLAPS

----------------------------------------------------------------------------
(* A turn.                                                                 *)

TurnPlaces == {"new", "check", "build", "calling", "ready", "reading", "searching", "ended"}
                  \cup {"failed", "credited", "left"}
TurnModes == {"anthropic", "openai", "collect", "infer"}
TurnRecs ==
    [at: TurnPlaces, mode: TurnModes \cup {None}, acct: Accounts \cup {None}, blamed: SUBSET Accounts,
     gens: Nat, follow: BOOLEAN, silences: Nat, searches: Nat, heard: SUBSET Nat, lost: SUBSET Nat,
     told: BOOLEAN, records: Nat, reason: {None, "max_tokens", "complete"}, chunks: Nat,
     produced: BOOLEAN, part: BOOLEAN, tools: BOOLEAN, cut: BOOLEAN, search: BOOLEAN]

\* Whose turn it is and of what kind.
ModeOk(c, t) ==
    /\ t.at # "new" => (t.mode = "infer" <=> c \in Executions)
    /\ t.at = "check" => c \in Clients
    /\ t.at \in {"searching", "ready"} => t.mode # "infer"

\* What was recorded and told is of a turn that ended.
RecordOk(c, t) ==
    /\ t.records \in {0, 1}
    /\ t.records = 1 => /\ c \in Clients
                        /\ (t.at = "ended" /\ t.mode \in Streaming) \/ t.at \in {"credited", "left"}
    /\ t.told => t.at \in {"ended", "credited", "left"}
    /\ t.at = "credited" => t.told /\ (t.mode = "infer" \/ t.records = 1)

\* The account in use was not blamed.
AcctOk(t) == t.at \in {"calling", "reading", "searching", "ready", "ended", "credited"} => t.acct \in Accounts \ t.blamed

\* The generations that were given up before the one that is read.
Earlier(t) == IF t.at \in {"reading", "searching"} THEN t.heard \ {t.gens} ELSE t.heard

\* What the answer has heard: one generation and one more for each search.
HeardOk(t) ==
    /\ t.heard \subseteq 1..t.gens /\ t.lost \subseteq 1..t.gens
    /\ t.heard \cap t.lost = {}
    /\ Cardinality(Earlier(t)) <= t.searches
    /\ t.at \in {"reading", "searching"} =>
          t.gens >= 1 /\ t.gens \notin t.lost /\ (t.chunks = 0 => t.gens \notin t.heard)
    /\ t.at = "searching" => t.chunks > 0
    /\ t.at \in {"new", "check", "build"} => t.gens = 0
    /\ t.mode = "infer" => t.gens <= (IF t.at = "calling" THEN 0 ELSE 1)

TurnOk(c, t) == ModeOk(c, t) /\ RecordOk(c, t) /\ AcctOk(t) /\ HeardOk(t)
TurnInv ==
    /\ turn \in [Callers -> TurnRecs]
    /\ \A c \in Callers : TurnOk(c, turn[c])

\* The turn has a generation, or had one that failed.
Calls(t) == t.at \in {"calling", "reading"} \/ (t.at = "searching" /\ t.mode # "collect")

\* A step gives c's turn the record q; a record of use is of the key's clients.
Turns(c, q) ==
    /\ turn' = [turn EXCEPT ![c] = q]
    /\ q \in TurnRecs
    /\ TurnOk(c, q)
    /\ \/ q.records = turn[c].records /\ UNCHANGED usageVars
       \/ turn[c].records = 0 /\ q.records = 1 /\ Record

LEMMA UpToFinite == \A n \in Nat : IsFiniteSet(1..n)
  BY FS_Interval

LEMMA NothingHeard ==
    ASSUME NEW t \in TurnRecs, t.gens = 0, t.heard = {}, t.lost = {},
           t.at \notin {"reading", "searching"}
    PROVE  HeardOk(t)
<1>1. Earlier(t) = {} /\ t.searches \in Nat
  BY DEF Earlier, TurnRecs
<1>2. Cardinality({}) = 0
  BY FS_EmptySet
<1> QED BY <1>1, <1>2 DEF HeardOk

LEMMA NewShape ==
    /\ New \in TurnRecs /\ New.at = "new" /\ New.mode = None /\ New.records = 0 /\ New.told = FALSE
    /\ New.gens = 0 /\ New.heard = {} /\ New.lost = {} /\ New.searches = 0
<1>1. "new" \in TurnPlaces /\ {} \in SUBSET Nat /\ {} \in SUBSET Accounts
  BY DEF TurnPlaces
<1> QED BY <1>1 DEF New, TurnRecs

\* A turn that credits its account.
LEMMA CreditedShape ==
    ASSUME NEW t \in TurnRecs, NEW o,
           o = [New EXCEPT !.at = "credited", !.mode = t.mode, !.acct = t.acct, !.blamed = t.blamed]
    PROVE  /\ o \in TurnRecs /\ o.at = "credited" /\ o.mode = t.mode
           /\ o.gens = 0 /\ o.heard = {} /\ o.lost = {} /\ o.acct = t.acct /\ o.blamed = t.blamed
<1>1. "credited" \in TurnPlaces
  BY DEF TurnPlaces
<1> QED BY <1>1, NewShape, ZenonT(30) DEF TurnRecs

\* What Over leaves of a turn.
LEMMA OverShape ==
    ASSUME TurnInv, NEW c \in Callers, NEW pc \in TurnPlaces, Over(c, pc),
           pc \notin {"new", "reading", "searching"}
    PROVE  \E q \in TurnRecs :
              /\ turn' = [turn EXCEPT ![c] = q]
              /\ q.at = pc /\ q.mode = turn[c].mode /\ q.told = turn[c].told /\ q.records = turn[c].records
              /\ pc = "credited" => q.acct = turn[c].acct /\ q.blamed = turn[c].blamed
              /\ HeardOk(q)
<1> DEFINE t == turn[c]
           o == [New EXCEPT !.at = pc, !.mode = t.mode, !.told = t.told, !.records = t.records]
           w == [o EXCEPT !.acct = t.acct, !.blamed = t.blamed]
           q == IF pc = "credited" THEN w ELSE o
<1>1. t \in TurnRecs
  BY DEF TurnInv
<1>2. /\ o \in TurnRecs /\ o.at = pc /\ o.mode = t.mode /\ o.told = t.told /\ o.records = t.records
      /\ o.gens = 0 /\ o.heard = {} /\ o.lost = {}
  BY <1>1, NewShape, ZenonT(30) DEF TurnRecs
<1>3. turn' = [turn EXCEPT ![c] = q]
  BY DEF Over
<1> HIDE DEF o
<1>a. /\ w \in TurnRecs /\ w.at = pc /\ w.mode = t.mode /\ w.told = t.told /\ w.records = t.records
      /\ w.gens = 0 /\ w.heard = {} /\ w.lost = {} /\ w.acct = t.acct /\ w.blamed = t.blamed
  BY <1>1, <1>2, ZenonT(30) DEF TurnRecs
<1> HIDE DEF w
<1>4. /\ q \in TurnRecs /\ q.at = pc /\ q.mode = t.mode /\ q.told = t.told /\ q.records = t.records
      /\ q.gens = 0 /\ q.heard = {} /\ q.lost = {}
      /\ pc = "credited" => q.acct = t.acct /\ q.blamed = t.blamed
  BY <1>2, <1>a
<1> HIDE DEF q
<1>5. HeardOk(q)
  BY <1>4, NothingHeard
<1> QED BY <1>3, <1>4, <1>5

\* What Read leaves of one.
LEMMA ReadShape ==
    ASSUME TurnInv, NEW c \in Callers, NEW cut
    PROVE  /\ Read(c, cut) \in TurnRecs
           /\ Read(c, cut).at = "ended" /\ Read(c, cut).mode = turn[c].mode
           /\ Read(c, cut).told = FALSE /\ Read(c, cut).records = 0
           /\ Read(c, cut).acct = turn[c].acct /\ Read(c, cut).blamed = turn[c].blamed
           /\ HeardOk(Read(c, cut))
<1> DEFINE t == turn[c]
           why == IF cut /\ ~turn[c].tools THEN "max_tokens" ELSE "complete"
           q == [New EXCEPT !.at = "ended", !.mode = turn[c].mode, !.acct = turn[c].acct,
                            !.blamed = turn[c].blamed, !.reason = why]
<1>1. t \in TurnRecs /\ why \in {None, "max_tokens", "complete"} /\ "ended" \in TurnPlaces
  BY DEF TurnInv, TurnPlaces
<1> HIDE DEF why
<1>2. /\ q \in TurnRecs /\ q.at = "ended" /\ q.mode = t.mode /\ q.told = FALSE /\ q.records = 0
      /\ q.acct = t.acct /\ q.blamed = t.blamed /\ q.gens = 0 /\ q.heard = {} /\ q.lost = {}
  BY <1>1, NewShape, ZenonT(30) DEF TurnRecs
<1>3. Read(c, cut) = q
  BY DEF Read, why
<1> HIDE DEF q
<1>4. HeardOk(q)
  BY <1>2, NothingHeard
<1> QED BY <1>2, <1>3, <1>4

\* A chunk, a search and the end of one leave the generation that is read.
LEMMA StillReading ==
    ASSUME NEW c \in Callers, NEW t \in TurnRecs, TurnOk(c, t), t.at \in {"reading", "searching"},
           NEW q \in TurnRecs, q.at \in {"reading", "searching"},
           q.mode = t.mode, q.acct = t.acct, q.blamed = t.blamed, q.gens = t.gens, q.lost = t.lost,
           q.searches = t.searches, q.records = t.records, q.told = t.told,
           q.heard \in {t.heard, t.heard \cup {t.gens}}, q.chunks > 0,
           q.at = "searching" => t.mode # "infer"
    PROVE  TurnOk(c, q)
<1>1. ModeOk(c, q)
  BY DEF TurnOk, ModeOk
<1>2. RecordOk(c, q)
  BY DEF TurnOk, RecordOk
<1>3. AcctOk(q)
  BY DEF TurnOk, AcctOk
<1>4. HeardOk(q)
  <2>1. t.gens \in Nat /\ t.gens >= 1 /\ t.gens \notin t.lost /\ t.gens \in 1..t.gens
    BY DEF TurnOk, HeardOk, TurnRecs
  <2>2. Earlier(q) = Earlier(t)
    BY DEF Earlier
  <2>3. q.heard \subseteq 1..q.gens /\ q.heard \cap q.lost = {} /\ q.lost \subseteq 1..q.gens
    BY <2>1 DEF TurnOk, HeardOk
  <2>4. q.chunks # 0
    BY DEF TurnRecs
  <2>5. Cardinality(Earlier(q)) <= q.searches
    BY <2>2 DEF TurnOk, HeardOk
  <2>6. q.mode = "infer" => q.gens <= 1
    BY DEF TurnOk, HeardOk
  <2> QED BY <2>1, <2>3, <2>4, <2>5, <2>6 DEF HeardOk
<1> QED BY <1>1, <1>2, <1>3, <1>4 DEF TurnOk

LEMMA PlacesAre ==
    {"new", "check", "build", "calling", "ready", "reading", "searching", "ended",
     "failed", "credited", "left"} = TurnPlaces
  BY DEF TurnPlaces

\* A turn that did not end yet fails or is left without a trace.
LEMMA OverTurns ==
    ASSUME TurnInv, NEW c \in Callers, NEW pc \in {"failed", "left"}, Over(c, pc), UNCHANGED usageVars,
           turn[c].at # "new", pc = "failed" => turn[c].at \notin {"ended", "credited", "left"}
    PROVE  \E q : Turns(c, q)
<1> DEFINE t == turn[c]
<1>1. t \in TurnRecs /\ TurnOk(c, t)
  BY DEF TurnInv
<1>2. pc \in TurnPlaces /\ pc \notin {"new", "reading", "searching"}
  BY PlacesAre
<1>3. PICK q \in TurnRecs :
          /\ turn' = [turn EXCEPT ![c] = q]
          /\ q.at = pc /\ q.mode = t.mode /\ q.told = t.told /\ q.records = t.records
          /\ HeardOk(q)
  BY <1>2, OverShape
<1>4. ModeOk(c, q) /\ AcctOk(q)
  BY <1>1, <1>3 DEF TurnOk, ModeOk, AcctOk
<1>5. RecordOk(c, q)
  BY <1>1, <1>3 DEF TurnOk, RecordOk
<1> QED BY <1>3, <1>4, <1>5 DEF Turns, TurnOk

\* The beginning of a turn: it arrives, is given an account and generates.
LEMMA BeginTurns ==
    ASSUME TurnInv, NEW c \in Callers,
           (\E mode \in Modes : Arrive(c, mode)) \/ Build(c) \/ Start(c) \/ Open(c)
    PROVE  UNCHANGED usageVars /\ \E q : Turns(c, q)
<1> DEFINE t == turn[c]
<1>1. t \in TurnRecs /\ TurnOk(c, t) /\ turn \in [Callers -> TurnRecs]
  BY DEF TurnInv
<1>2. ASSUME NEW mode \in Modes, Arrive(c, mode)
      PROVE  UNCHANGED usageVars /\ \E q : Turns(c, q)
  <2>1. mode \in TurnModes
    BY DEF Modes, TurnModes
  <2>2. UNCHANGED usageVars
    BY <1>2 DEF Arrive, Identify, keyVars
  <2>3. /\ t.at = "new" /\ (mode = "infer" <=> c \in Executions)
        /\ \/ turn' = [turn EXCEPT ![c].at = "check", ![c].mode = mode] /\ mode # "infer"
           \/ turn' = [turn EXCEPT ![c].at = "build", ![c].mode = mode]
    BY <1>2 DEF Arrive, In, Gated
  <2>4. t.records = 0 /\ ~t.told /\ t.gens = 0 /\ Cardinality(t.heard) <= t.searches
    BY <1>1, <2>3 DEF TurnOk, RecordOk, HeardOk, Earlier
  <2>5. ASSUME NEW pc \in {"check", "build"}, turn' = [turn EXCEPT ![c].at = pc, ![c].mode = mode],
               pc = "check" => mode # "infer"
        PROVE  \E q : Turns(c, q)
    <3> DEFINE q == [t EXCEPT !.at = pc, !.mode = mode]
    <3>1. turn' = [turn EXCEPT ![c] = q]
      BY <1>1, <2>5
    <3>2. /\ q \in TurnRecs /\ q.at = pc /\ q.mode = mode /\ q.records = t.records /\ q.told = t.told
          /\ q.gens = t.gens /\ q.heard = t.heard /\ q.lost = t.lost /\ q.searches = t.searches
      BY <1>1, <2>1, PlacesAre, ZenonT(30) DEF TurnRecs
    <3> HIDE DEF q
    <3>3. ModeOk(c, q) /\ RecordOk(c, q) /\ AcctOk(q)
      BY <2>3, <2>4, <2>5, <3>2 DEF ModeOk, RecordOk, AcctOk, Executions
    <3>4. HeardOk(q)
      BY <1>1, <2>3, <2>4, <3>2 DEF TurnOk, HeardOk, Earlier
    <3> QED BY <2>2, <3>1, <3>2, <3>3, <3>4 DEF Turns, TurnOk
  <2> QED BY <2>2, <2>3, <2>5
<1>3. CASE Build(c)
  <2>1. PICK a \in Accounts \ t.blamed, msgs \in Asked, hasTools \in BOOLEAN, cap \in Caps, trim \in BOOLEAN :
            Admitted(c) /\ Attempt(c, a, msgs, hasTools, cap, trim)
    BY <1>3 DEF Build
  <2>2. /\ t.at \in {"check", "build"} /\ UNCHANGED usageVars
        /\ turn' = [turn EXCEPT ![c].at = "calling", ![c].acct = a]
    BY <2>1 DEF Admitted, Attempt, In, keyVars
  <2> DEFINE q == [t EXCEPT !.at = "calling", !.acct = a]
  <2>3. turn' = [turn EXCEPT ![c] = q]
    BY <1>1, <2>2
  <2>4. /\ q \in TurnRecs /\ q.at = "calling" /\ q.mode = t.mode /\ q.records = t.records /\ q.told = t.told
        /\ q.gens = t.gens /\ q.heard = t.heard /\ q.lost = t.lost /\ q.searches = t.searches
        /\ q.acct = a /\ q.blamed = t.blamed
    BY <1>1, PlacesAre, ZenonT(30) DEF TurnRecs
  <2> HIDE DEF q
  <2>5. ModeOk(c, q) /\ RecordOk(c, q) /\ AcctOk(q)
    BY <1>1, <2>2, <2>4 DEF TurnOk, ModeOk, RecordOk, AcctOk
  <2>6. HeardOk(q)
    BY <1>1, <2>2, <2>4 DEF TurnOk, HeardOk, Earlier
  <2> QED BY <2>2, <2>3, <2>4, <2>5, <2>6 DEF Turns, TurnOk
<1>4. CASE Start(c)
  <2>1. t.at = "ready" /\ UNCHANGED usageVars /\ turn' = [turn EXCEPT ![c].at = "calling"]
    BY <1>4 DEF Start, Go, In, keyVars
  <2> DEFINE q == [t EXCEPT !.at = "calling"]
  <2>2. turn' = [turn EXCEPT ![c] = q]
    BY <1>1, <2>1
  <2>3. /\ q \in TurnRecs /\ q.at = "calling" /\ q.mode = t.mode /\ q.records = t.records /\ q.told = t.told
        /\ q.gens = t.gens /\ q.heard = t.heard /\ q.lost = t.lost /\ q.searches = t.searches
        /\ q.acct = t.acct /\ q.blamed = t.blamed
    BY <1>1, PlacesAre, ZenonT(30) DEF TurnRecs
  <2> HIDE DEF q
  <2>4. ModeOk(c, q) /\ RecordOk(c, q) /\ AcctOk(q)
    BY <1>1, <2>1, <2>3 DEF TurnOk, ModeOk, RecordOk, AcctOk
  <2>5. HeardOk(q)
    BY <1>1, <2>1, <2>3 DEF TurnOk, ModeOk, HeardOk, Earlier
  <2> QED BY <2>1, <2>2, <2>3, <2>4, <2>5 DEF Turns, TurnOk
<1>5. CASE Open(c)
  <2> DEFINE q == [t EXCEPT !.at = "reading", !.gens = t.gens + 1, !.chunks = 0, !.produced = FALSE,
                            !.part = FALSE, !.tools = FALSE, !.cut = FALSE, !.search = FALSE]
  <2>1. t.at = "calling" /\ UNCHANGED usageVars /\ turn' = [turn EXCEPT ![c] = q]
    BY <1>1, <1>5 DEF Open, In, keyVars
  <2>2. t.gens \in Nat
    BY <1>1 DEF TurnRecs
  <2>a. "reading" \in TurnPlaces /\ t.gens + 1 \in Nat /\ 0 \in Nat
    BY <2>2, PlacesAre
  <2>b. q \in TurnRecs
    BY <1>1, <2>a DEF TurnRecs
  <2>c. /\ q.at = "reading" /\ q.mode = t.mode /\ q.records = t.records /\ q.told = t.told
        /\ q.gens = t.gens + 1 /\ q.heard = t.heard /\ q.lost = t.lost /\ q.searches = t.searches
        /\ q.acct = t.acct /\ q.blamed = t.blamed /\ q.chunks = 0
    BY <1>1 DEF TurnRecs
  <2>3. /\ q \in TurnRecs /\ q.at = "reading" /\ q.mode = t.mode /\ q.records = t.records /\ q.told = t.told
        /\ q.gens = t.gens + 1 /\ q.heard = t.heard /\ q.lost = t.lost /\ q.searches = t.searches
        /\ q.acct = t.acct /\ q.blamed = t.blamed /\ q.chunks = 0
    BY <2>b, <2>c
  <2> HIDE DEF q
  <2>4. ModeOk(c, q) /\ RecordOk(c, q) /\ AcctOk(q)
    BY <1>1, <2>1, <2>3 DEF TurnOk, ModeOk, RecordOk, AcctOk
  <2>5. t.heard \subseteq 1..t.gens /\ t.lost \subseteq 1..t.gens /\ t.heard \cap t.lost = {}
        /\ Cardinality(t.heard) <= t.searches /\ (t.mode = "infer" => t.gens <= 0)
    BY <1>1, <2>1 DEF TurnOk, HeardOk, Earlier
  <2>6. q.gens \notin t.heard /\ q.gens \notin t.lost /\ t.heard \subseteq 1..q.gens /\ t.lost \subseteq 1..q.gens
    BY <2>2, <2>3, <2>5
  <2>7. Earlier(q) = t.heard
    BY <2>3, <2>6 DEF Earlier
  <2>8. HeardOk(q)
    BY <2>2, <2>3, <2>5, <2>6, <2>7 DEF HeardOk
  <2> QED BY <2>1, <2>3, <2>4, <2>8 DEF Turns, TurnOk
<1> QED BY <1>2, <1>3, <1>4, <1>5

\* A generation fails, falls silent or breaks; no account is left; the client leaves.
LEMMA LoseTurns ==
    ASSUME TurnInv, NEW c \in Callers,
           Failed(c) \/ Broken(c) \/ FirstSilence(c) \/ Refused(c) \/ Leave(c)
    PROVE  UNCHANGED usageVars /\ \E q : Turns(c, q)
<1> DEFINE t == turn[c]
<1>1. t \in TurnRecs /\ TurnOk(c, t) /\ turn \in [Callers -> TurnRecs]
  BY DEF TurnInv
<1>2. UNCHANGED usageVars
  BY DEF Failed, Broken, FirstSilence, Refused, Leave, Leaving, keyVars
<1>3. ASSUME Over(c, "failed"), t.at \in {"check", "build", "calling", "reading"} PROVE \E q : Turns(c, q)
  BY <1>2, <1>3, OverTurns
<1>4. CASE Failed(c)
  <2>1. t.at = "calling"
    BY <1>4 DEF Failed, In
  <2>2. CASE Over(c, "failed")
    <3>1. t.at \in {"check", "build", "calling", "reading"} BY <2>1
    <3> HIDE DEF t
    <3> QED BY <1>2, <1>3, <2>2, <3>1
  <2>3. CASE t.gens = 0 /\ t.mode # "infer"
             /\ turn' = [turn EXCEPT ![c].at = "build", ![c].blamed = @ \cup {t.acct}]
    <3> DEFINE b == t.blamed \cup {t.acct}
               q == [t EXCEPT !.at = "build", !.blamed = b]
    <3>1. turn' = [turn EXCEPT ![c] = q]
      BY <1>1, <2>3
    <3>2. b \in SUBSET Accounts
      BY <1>1, <2>1 DEF TurnOk, AcctOk, TurnRecs
    <3> HIDE DEF b
    <3>3. /\ q \in TurnRecs /\ q.at = "build" /\ q.mode = t.mode /\ q.records = t.records /\ q.told = t.told
          /\ q.gens = t.gens /\ q.heard = t.heard /\ q.lost = t.lost /\ q.searches = t.searches
      BY <1>1, <3>2, PlacesAre, ZenonT(30) DEF TurnRecs
    <3> HIDE DEF q
    <3>4. ModeOk(c, q) /\ RecordOk(c, q) /\ AcctOk(q)
      BY <1>1, <2>1, <3>3 DEF TurnOk, ModeOk, RecordOk, AcctOk
    <3>5. HeardOk(q)
      BY <1>1, <2>1, <2>3, <3>3 DEF TurnOk, HeardOk, Earlier
    <3> QED BY <1>2, <3>1, <3>3, <3>4, <3>5 DEF Turns, TurnOk
  <2> QED BY <1>2, <1>4, <2>2, <2>3 DEF Failed
<1>5. CASE Broken(c)
  BY <1>2, <1>3, <1>5 DEF Broken, Reading, In, Leaving
<1>6. CASE FirstSilence(c)
  <2>1. t.at = "reading" /\ t.chunks = 0
    BY <1>6 DEF FirstSilence, Reading, In, Untouched
  <2>2. CASE Over(c, "failed")
    BY <1>2, <1>3, <2>1, <2>2
  <2>3. CASE ~Over(c, "failed")
    <3> DEFINE n == t.silences + 1
               l == t.lost \cup {t.gens}
               q == [t EXCEPT !.at = "ready", !.silences = n, !.lost = l]
    <3>1. turn' = [turn EXCEPT ![c] = q] /\ t.mode # "infer"
      BY <1>1, <1>6, <2>3 DEF FirstSilence
    <3>2. n \in Nat /\ l \in SUBSET Nat /\ t.gens \in Nat
      BY <1>1 DEF TurnRecs
    <3>3. l \subseteq 1..t.gens /\ t.heard \subseteq 1..t.gens /\ t.heard \cap l = {}
          /\ t.heard \ {t.gens} = t.heard /\ Cardinality(t.heard) <= t.searches
      <4>1. t.gens >= 1 /\ t.gens \notin t.heard /\ t.lost \subseteq 1..t.gens
        BY <1>1, <2>1 DEF TurnOk, HeardOk
      <4>2. t.heard \ {t.gens} = t.heard
        BY <4>1
      <4> QED BY <1>1, <2>1, <3>2, <4>1, <4>2 DEF TurnOk, HeardOk, Earlier
    <3> HIDE DEF n, l
    <3>4. /\ q \in TurnRecs /\ q.at = "ready" /\ q.mode = t.mode /\ q.records = t.records /\ q.told = t.told
          /\ q.gens = t.gens /\ q.heard = t.heard /\ q.lost = l /\ q.searches = t.searches
          /\ q.acct = t.acct /\ q.blamed = t.blamed
      BY <1>1, <3>2, PlacesAre, ZenonT(30) DEF TurnRecs
    <3> HIDE DEF q
    <3>5. ModeOk(c, q) /\ RecordOk(c, q) /\ AcctOk(q)
      BY <1>1, <2>1, <3>1, <3>4 DEF TurnOk, ModeOk, RecordOk, AcctOk
    <3>6. HeardOk(q)
      BY <3>1, <3>3, <3>4 DEF HeardOk, Earlier
    <3> QED BY <1>2, <3>1, <3>4, <3>5, <3>6 DEF Turns, TurnOk
  <2> QED BY <1>2, <2>2, <2>3
<1>7. CASE Refused(c)
  BY <1>2, <1>3, <1>7 DEF Refused, Admitted, In
<1>8. CASE Leave(c)
  <2>1. Over(c, "left") /\ t.at # "new"
    BY <1>8 DEF Leave, Leaving, Resting
  <2> QED BY <1>2, <2>1, OverTurns
<1> QED BY <1>4, <1>5, <1>6, <1>7, <1>8

\* The chunks of the stream that is read.
LEMMA ChunkTurns ==
    ASSUME TurnInv, NEW c \in Callers, NEW kind \in ChunkKinds, Chunk(c, kind)
    PROVE  UNCHANGED usageVars /\ \E q : Turns(c, q) /\ Calls(q) /\ q.mode = turn[c].mode /\ Calls(turn[c])
<1> DEFINE p == turn[c]
           n == p.chunks + 1
           t == [p EXCEPT !.chunks = n]
<1>1. p \in TurnRecs /\ TurnOk(c, p) /\ p.at = "reading"
  BY DEF TurnInv, Chunk, Reading, In
<1>2. n \in Nat /\ n > 0
  BY <1>1 DEF TurnRecs
<1>3. UNCHANGED usageVars
  BY DEF Chunk, keyVars
<1> HIDE DEF n
<1>4. /\ t \in TurnRecs /\ t.at = "reading" /\ t.mode = p.mode /\ t.acct = p.acct /\ t.blamed = p.blamed
      /\ t.gens = p.gens /\ t.lost = p.lost /\ t.searches = p.searches /\ t.records = p.records
      /\ t.told = p.told /\ t.heard = p.heard /\ t.chunks = n
  BY <1>1, <1>2 DEF TurnRecs
<1> DEFINE h == p.heard \cup {p.gens}
           o == [t EXCEPT !.produced = TRUE, !.heard = h]
<1>5. h \in SUBSET Nat
  BY <1>1 DEF TurnRecs
<1> DEFINE Same(q) == /\ q \in TurnRecs /\ q.at \in {"reading", "searching"} /\ q.mode = p.mode
                      /\ q.acct = p.acct /\ q.blamed = p.blamed
                      /\ q.gens = p.gens /\ q.lost = p.lost /\ q.searches = p.searches
                      /\ q.records = p.records /\ q.told = p.told
                      /\ q.heard \in {p.heard, h} /\ q.chunks = n
                      /\ q.at = "searching" => p.mode \notin {"infer", "collect"}
<1>6. turn' \in {[turn EXCEPT ![c] = z] : z \in {o, t, [t EXCEPT !.part = TRUE],
                  [o EXCEPT !.part = FALSE, !.tools = TRUE], [t EXCEPT !.cut = TRUE, !.part = FALSE]}}
      \/ /\ p.mode # "infer"
         /\ turn' = [turn EXCEPT ![c] = [t EXCEPT !.at = IF t.mode = "collect" THEN t.at ELSE "searching",
                        !.search = TRUE, !.produced = TRUE, !.part = FALSE, !.tools = TRUE]]
  <2>1. kind \in {"text", "part", "tool", "notice", "error", "search"}
    BY DEF ChunkKinds
  <2>2. CASE kind = "text"
    BY <2>2 DEF Chunk, Hears, n
  <2>3. CASE kind = "part"
    BY <2>3 DEF Chunk, n
  <2>4. CASE kind = "tool"
    BY <2>4 DEF Chunk, Hears, n
  <2>5. CASE kind = "notice"
    BY <2>5 DEF Chunk, n
  <2>6. CASE kind = "error"
    BY <2>6 DEF Chunk, n
  <2>7. CASE kind = "search"
    <3>1. /\ t.mode # "infer"
          /\ turn' = [turn EXCEPT ![c] = [t EXCEPT !.at = IF t.mode = "collect" THEN @ ELSE "searching",
                        !.search = TRUE, !.produced = TRUE, !.part = FALSE, !.tools = TRUE]]
      BY <2>7 DEF Chunk, n
    <3> QED BY <1>4, <3>1
  <2> QED BY <2>1, <2>2, <2>3, <2>4, <2>5, <2>6, <2>7
<1> HIDE DEF t, h
<1>7. Same(t)
  BY <1>1, <1>4
<1>8. Same(o)
  BY <1>4, <1>5 DEF TurnRecs
<1> HIDE DEF o
<1>9. ASSUME NEW z \in {o, t, [t EXCEPT !.part = TRUE],
                  [o EXCEPT !.part = FALSE, !.tools = TRUE], [t EXCEPT !.cut = TRUE, !.part = FALSE]}
      PROVE  Same(z)
  <2>1. Same([t EXCEPT !.part = TRUE])
    BY <1>7 DEF TurnRecs
  <2>2. Same([o EXCEPT !.part = FALSE, !.tools = TRUE])
    BY <1>8 DEF TurnRecs
  <2>3. Same([t EXCEPT !.cut = TRUE, !.part = FALSE])
    BY <1>7 DEF TurnRecs
  <2> HIDE DEF Same
  <2> QED BY <1>7, <1>8, <1>9, <2>1, <2>2, <2>3
<1>10. ASSUME p.mode # "infer" PROVE Same([t EXCEPT !.at = IF t.mode = "collect" THEN t.at ELSE "searching",
                        !.search = TRUE, !.produced = TRUE, !.part = FALSE, !.tools = TRUE])
  <2> DEFINE pc == IF t.mode = "collect" THEN t.at ELSE "searching"
  <2>1. pc \in TurnPlaces /\ pc \in {"reading", "searching"} /\ (pc = "searching" => p.mode # "collect")
    BY <1>4, PlacesAre
  <2> HIDE DEF pc
  <2>2. Same([t EXCEPT !.at = pc, !.search = TRUE, !.produced = TRUE, !.part = FALSE, !.tools = TRUE])
    BY <1>7, <1>10, <2>1 DEF TurnRecs
  <2> QED BY <2>2 DEF pc
<1>11. PICK q : turn' = [turn EXCEPT ![c] = q] /\ Same(q)
  <2> HIDE DEF Same
  <2> QED BY <1>6, <1>9, <1>10
<1>12. TurnOk(c, q)
  BY <1>1, <1>2, <1>11, StillReading DEF h
<1>13. Calls(q) /\ Calls(p)
  BY <1>1, <1>11 DEF Calls
<1> QED BY <1>3, <1>11, <1>12, <1>13 DEF Turns

\* The stream ends, or a search takes its place.
LEMMA EndTurns ==
    ASSUME TurnInv, NEW c \in Callers,
           EndOfStream(c) \/ OutputLimit(c) \/ SearchInline(c) \/ SearchFollowup(c)
    PROVE  UNCHANGED usageVars /\ \E q : Turns(c, q)
<1> DEFINE t == turn[c]
           h == t.heard \cup {t.gens}
<1>1. t \in TurnRecs /\ TurnOk(c, t) /\ turn \in [Callers -> TurnRecs]
  BY DEF TurnInv
<1>2. UNCHANGED usageVars
  BY DEF EndOfStream, OutputLimit, SearchInline, SearchFollowup, keyVars
<1>3. t.at \in {"reading", "searching"} /\ h \in SUBSET Nat
  BY <1>1 DEF EndOfStream, OutputLimit, SearchInline, SearchFollowup, Reading, In, TurnRecs
<1>4. ASSUME NEW cut, turn' = [turn EXCEPT ![c] = Read(c, cut)]
      PROVE  UNCHANGED usageVars /\ \E q : Turns(c, q)
  <2> DEFINE q == Read(c, cut)
  <2>1. /\ q \in TurnRecs /\ q.at = "ended" /\ q.mode = t.mode /\ q.told = FALSE /\ q.records = 0
        /\ q.acct = t.acct /\ q.blamed = t.blamed /\ HeardOk(q)
    BY ReadShape
  <2> HIDE DEF q
  <2>2. ModeOk(c, q) /\ RecordOk(c, q) /\ AcctOk(q)
    BY <1>1, <1>3, <2>1 DEF TurnOk, ModeOk, RecordOk, AcctOk
  <2>3. t.records = 0
    BY <1>1, <1>3 DEF TurnOk, RecordOk
  <2> QED BY <1>2, <1>4, <2>1, <2>2, <2>3 DEF Turns, TurnOk, q
<1>5. CASE EndOfStream(c)
  <2>1. t.at = "reading" /\ t.chunks > 0
    BY <1>5 DEF EndOfStream, Reading, In
  <2>2. CASE t.search /\ t.mode = "collect"
    <3> DEFINE k == t.cut \/ t.part
               q == [t EXCEPT !.at = "searching", !.cut = k]
    <3>1. turn' = [turn EXCEPT ![c] = q]
      BY <1>1, <1>5, <2>2 DEF EndOfStream
    <3>2. k \in BOOLEAN
      OBVIOUS
    <3> HIDE DEF k
    <3>3. q \in TurnRecs /\ q.at = "searching"
      BY <1>1, <3>2, PlacesAre, ZenonT(30) DEF TurnRecs
    <3>4. /\ q.mode = t.mode /\ q.records = t.records /\ q.told = t.told
          /\ q.gens = t.gens /\ q.heard = t.heard /\ q.lost = t.lost /\ q.searches = t.searches
          /\ q.acct = t.acct /\ q.blamed = t.blamed /\ q.chunks = t.chunks
      BY <1>1 DEF TurnRecs
    <3> HIDE DEF q
    <3>5. TurnOk(c, q)
      BY <1>1, <1>3, <2>1, <2>2, <3>3, <3>4, StillReading
    <3> QED BY <1>2, <3>1, <3>3, <3>4, <3>5 DEF Turns
  <2>3. CASE ~(t.search /\ t.mode = "collect")
    <3>1. turn' = [turn EXCEPT ![c] = Read(c, t.cut \/ t.part)]
      BY <1>5, <2>3 DEF EndOfStream
    <3> QED BY <1>4, <3>1
  <2> QED BY <2>2, <2>3
<1>6. CASE OutputLimit(c)
  <2>1. turn' = [turn EXCEPT ![c] = Read(c, TRUE)]
    BY <1>6 DEF OutputLimit
  <2> QED BY <1>4, <2>1
<1>7. CASE SearchInline(c)
  <2>1. CASE t.mode = "collect"
    <3>1. turn' = [turn EXCEPT ![c] = Read(c, t.cut)]
      BY <1>7, <2>1 DEF SearchInline
    <3> QED BY <1>4, <3>1
  <2>2. CASE t.mode # "collect"
    <3> DEFINE q == [t EXCEPT !.at = "reading", !.heard = h, !.search = FALSE]
    <3>1. turn' = [turn EXCEPT ![c] = q] /\ t.at = "searching"
      BY <1>1, <1>7, <2>2 DEF SearchInline, Hears, In
    <3> HIDE DEF h
    <3>2. /\ q \in TurnRecs /\ q.at = "reading" /\ q.mode = t.mode /\ q.records = t.records /\ q.told = t.told
          /\ q.gens = t.gens /\ q.heard = h /\ q.lost = t.lost /\ q.searches = t.searches
          /\ q.acct = t.acct /\ q.blamed = t.blamed /\ q.chunks = t.chunks
      BY <1>1, <1>3, PlacesAre, ZenonT(30) DEF TurnRecs
    <3> HIDE DEF q
    <3>3. t.chunks > 0
      BY <1>1, <3>1 DEF TurnOk, HeardOk
    <3>4. TurnOk(c, q)
      BY <1>1, <1>3, <3>2, <3>3, StillReading DEF h
    <3> QED BY <1>2, <3>1, <3>2, <3>4 DEF Turns
  <2> QED BY <2>1, <2>2
<1>8. CASE SearchFollowup(c)
  <2>1. t.at = "searching" /\ t.mode # "infer"
    BY <1>1, <1>8 DEF SearchFollowup, In, TurnOk, ModeOk
  <2>2. CASE Over(c, "failed")
    <3>1. t.at # "new" /\ t.at \notin {"ended", "credited", "left"}
      BY <2>1
    <3> QED BY <1>2, <2>2, <3>1, OverTurns
  <2>3. CASE ~Over(c, "failed")
    <3> DEFINE n == t.searches + 1
               q == [t EXCEPT !.at = "ready", !.searches = n, !.follow = TRUE, !.heard = h]
    <3>1. turn' = [turn EXCEPT ![c] = q]
      BY <1>1, <1>8, <2>3 DEF SearchFollowup, Hears
    <3>2. n \in Nat /\ t.searches \in Nat /\ t.gens \in Nat
      BY <1>1 DEF TurnRecs
    <3>3. t.gens >= 1 /\ t.gens \notin t.lost /\ t.heard \subseteq 1..t.gens /\ t.lost \subseteq 1..t.gens
          /\ t.heard \cap t.lost = {}
      BY <1>1, <1>3 DEF TurnOk, HeardOk
    <3>4. Cardinality(h) <= n
      <4> DEFINE e == t.heard \ {t.gens}
      <4>1. Cardinality(e) <= t.searches
        BY <1>1, <1>3 DEF TurnOk, HeardOk, Earlier
      <4>2. IsFiniteSet(e)
        <5>1. IsFiniteSet(1..t.gens) BY <3>2, UpToFinite
        <5> QED BY <3>3, <5>1, FS_Subset
      <4>3. h = e \cup {t.gens} /\ t.gens \notin e
        OBVIOUS
      <4> HIDE DEF e, h
      <4>4. Cardinality(h) = Cardinality(e) + 1 /\ Cardinality(e) \in Nat
        BY <4>2, <4>3, FS_AddElement, FS_CardinalityType
      <4> QED BY <3>2, <4>1, <4>4
    <3>5. h \subseteq 1..t.gens /\ h \cap t.lost = {}
      BY <3>2, <3>3
    <3> HIDE DEF n, h
    <3>6. /\ q \in TurnRecs /\ q.at = "ready" /\ q.mode = t.mode /\ q.records = t.records /\ q.told = t.told
          /\ q.gens = t.gens /\ q.heard = h /\ q.lost = t.lost /\ q.searches = n
          /\ q.acct = t.acct /\ q.blamed = t.blamed
      BY <1>1, <1>3, <3>2, PlacesAre, ZenonT(30) DEF TurnRecs
    <3> HIDE DEF q
    <3>7. ModeOk(c, q) /\ RecordOk(c, q) /\ AcctOk(q)
      BY <1>1, <2>1, <3>6 DEF TurnOk, ModeOk, RecordOk, AcctOk
    <3>8. HeardOk(q)
      BY <2>1, <3>3, <3>4, <3>5, <3>6 DEF HeardOk, Earlier
    <3> QED BY <1>2, <3>1, <3>6, <3>7, <3>8 DEF Turns, TurnOk
  <2> QED BY <2>2, <2>3
<1> QED BY <1>5, <1>6, <1>7, <1>8

\* The end of a turn that was read: it is told, recorded and credited.
LEMMA CloseTurns ==
    ASSUME TurnInv, NEW c \in Callers, Tell(c) \/ RecordTokens(c) \/ CommitSuccess(c) \/ Answer(c)
    PROVE  \E q : Turns(c, q)
<1> DEFINE t == turn[c]
<1>1. t \in TurnRecs /\ TurnOk(c, t) /\ turn \in [Callers -> TurnRecs] /\ t.at = "ended"
  BY DEF TurnInv, Tell, RecordTokens, CommitSuccess, Answer, In
<1>2. CASE Tell(c)
  <2> DEFINE q == [t EXCEPT !.told = TRUE]
  <2>1. turn' = [turn EXCEPT ![c] = q] /\ UNCHANGED usageVars
    BY <1>1, <1>2 DEF Tell, keyVars
  <2>2. /\ q \in TurnRecs /\ q.at = "ended" /\ q.mode = t.mode /\ q.records = t.records /\ q.told
        /\ q.gens = t.gens /\ q.heard = t.heard /\ q.lost = t.lost /\ q.searches = t.searches
        /\ q.acct = t.acct /\ q.blamed = t.blamed
    BY <1>1 DEF TurnRecs
  <2> HIDE DEF q
  <2>3. ModeOk(c, q) /\ RecordOk(c, q) /\ AcctOk(q) /\ HeardOk(q)
    BY <1>1, <2>2 DEF TurnOk, ModeOk, RecordOk, AcctOk, HeardOk, Earlier
  <2> QED BY <2>1, <2>2, <2>3 DEF Turns, TurnOk
<1>3. CASE RecordTokens(c)
  <2> DEFINE q == [t EXCEPT !.records = 1]
  <2>1. t.records = 0 /\ t.mode \in Streaming /\ Record
    BY <1>3 DEF RecordTokens
  <2>2. turn' = [turn EXCEPT ![c] = q]
    BY <1>1, <1>3, <2>1 DEF RecordTokens
  <2>3. /\ q \in TurnRecs /\ q.at = "ended" /\ q.mode = t.mode /\ q.records = 1 /\ q.told = t.told
        /\ q.gens = t.gens /\ q.heard = t.heard /\ q.lost = t.lost /\ q.searches = t.searches
        /\ q.acct = t.acct /\ q.blamed = t.blamed
    BY <1>1 DEF TurnRecs
  <2> HIDE DEF q
  <2>4. t.mode # "infer" /\ c \in Clients
    BY <1>1, <2>1 DEF Streaming, TurnOk, ModeOk, Executions
  <2>5. ModeOk(c, q) /\ RecordOk(c, q) /\ AcctOk(q) /\ HeardOk(q)
    BY <1>1, <2>1, <2>3, <2>4 DEF TurnOk, ModeOk, RecordOk, AcctOk, HeardOk, Earlier
  <2> QED BY <2>1, <2>2, <2>3, <2>5 DEF Turns, TurnOk
<1>4. CASE CommitSuccess(c)
  <2>1. Over(c, "credited") /\ t.told /\ t.records = 1 /\ UNCHANGED usageVars
    BY <1>4 DEF CommitSuccess, keyVars
  <2>2. PICK q \in TurnRecs :
          /\ turn' = [turn EXCEPT ![c] = q]
          /\ q.at = "credited" /\ q.mode = t.mode /\ q.told = t.told /\ q.records = t.records
          /\ q.acct = t.acct /\ q.blamed = t.blamed
          /\ HeardOk(q)
    <3>1. "credited" \in TurnPlaces BY PlacesAre
    <3> QED BY <2>1, <3>1, OverShape
  <2>3. ModeOk(c, q) /\ RecordOk(c, q) /\ AcctOk(q)
    BY <1>1, <2>1, <2>2 DEF TurnOk, ModeOk, RecordOk, AcctOk
  <2> QED BY <2>1, <2>2, <2>3 DEF Turns, TurnOk
<1>5. CASE Answer(c)
  <2> DEFINE n == IF t.mode = "collect" THEN 1 ELSE 0
             q == [New EXCEPT !.at = "credited", !.mode = t.mode, !.acct = t.acct,
                              !.blamed = t.blamed, !.told = TRUE, !.records = n]
  <2>1. /\ t.mode \in {"collect", "infer"} /\ turn' = [turn EXCEPT ![c] = q]
        /\ IF t.mode = "collect" THEN Record ELSE UNCHANGED usageVars
    BY <1>5 DEF Answer, keyVars
  <2>2. n \in Nat /\ t.records = 0
    BY <1>1, <2>1 DEF TurnOk, RecordOk, Streaming
  <2>a. (n = 1 <=> t.mode = "collect") /\ (n = 0 <=> t.mode # "collect")
    OBVIOUS
  <2> HIDE DEF n
  <2> DEFINE o == [New EXCEPT !.at = "credited", !.mode = t.mode, !.acct = t.acct, !.blamed = t.blamed]
  <2>c. /\ o \in TurnRecs /\ o.at = "credited" /\ o.mode = t.mode
        /\ o.gens = 0 /\ o.heard = {} /\ o.lost = {} /\ o.acct = t.acct /\ o.blamed = t.blamed
    BY <1>1, CreditedShape
  <2>d. q = [o EXCEPT !.told = TRUE, !.records = n]
    BY DEF New
  <2> HIDE DEF o, q
  <2>3. /\ q \in TurnRecs /\ q.at = "credited" /\ q.mode = t.mode /\ q.records = n /\ q.told
        /\ q.gens = 0 /\ q.heard = {} /\ q.lost = {} /\ q.acct = t.acct /\ q.blamed = t.blamed
    BY <2>2, <2>c, <2>d, ZenonT(30) DEF TurnRecs
  <2> HIDE DEF q
  <2>4. HeardOk(q)
    BY <2>3, NothingHeard
  <2>5. ModeOk(c, q) /\ AcctOk(q)
    BY <1>1, <2>3 DEF TurnOk, ModeOk, AcctOk
  <2>6. RecordOk(c, q)
    BY <1>1, <2>1, <2>a, <2>3 DEF TurnOk, ModeOk, RecordOk, Executions
  <2> QED BY <2>1, <2>2, <2>a, <2>3, <2>4, <2>5, <2>6 DEF Turns, TurnOk
<1> QED BY <1>2, <1>3, <1>4, <1>5

\* A request's own step gives its turn one such record, or is its key's check.
LEMMA RequestTurns ==
    ASSUME TurnInv, NEW c \in Callers, Request(c)
    PROVE  \/ Checking(c)
           \/ \E q : Turns(c, q)
<1>1. ASSUME NEW kind \in ChunkKinds, Chunk(c, kind) PROVE \E q : Turns(c, q)
  BY <1>1, ChunkTurns
<1> QED BY <1>1, BeginTurns, LoseTurns, EndTurns, CloseTurns DEF Request

LEMMA TurnStays ==
    ASSUME TurnInv, NEW c \in Callers, NEW q, Turns(c, q)
    PROVE  TurnInv' /\ \A o \in Callers : turn'[o] = IF o = c THEN q ELSE turn[o]
<1>1. turn' = [turn EXCEPT ![c] = q] /\ q \in TurnRecs /\ turn \in [Callers -> TurnRecs]
  BY DEF Turns, TurnInv
<1>2. turn' \in [Callers -> TurnRecs] /\ \A o \in Callers : turn'[o] = IF o = c THEN q ELSE turn[o]
  BY <1>1
<1>3. \A o \in Callers : TurnOk(o, turn'[o])
  BY <1>2 DEF Turns, TurnInv
<1> QED BY <1>2, <1>3 DEF TurnInv

----------------------------------------------------------------------------
(* The key.                                                                *)

RowRecs == [live: BOOLEAN, edit: Nat, limit: Nat]
CheckPlaces == {"idle", "hashing", "policy", "loading", "publish", "limit", "totals"}
                   \cup {"admitted", "limited", "refused"}
CheckRecs == [at: CheckPlaces, since: Nat, base: Nat, gen: Nat, read: RowRecs \cup {Absent}, used: Nat]

KeyTyped ==
    /\ row \in RowRecs /\ answered \in Nat /\ generation \in Nat
    /\ policies \in RowRecs \cup {Absent}
    /\ pending \in Nat /\ batch \in Nat /\ stored \in Nat /\ counted \in Nat
    /\ check \in [Clients -> CheckRecs]

\* An edit is answered when nothing that it outdates is cached.
OwnerInv ==
    /\ answered <= row.edit
    /\ editing = "no" => answered = row.edit
    /\ policies # Absent => policies.edit >= answered

\* What a check has read is no older than the edit it began after; a load that the
\* generation still vouches for is no older than the last answered edit.
CheckOk(k) ==
    /\ k.since <= answered /\ k.gen <= generation /\ k.base <= counted
    /\ k.at \in {"hashing", "publish", "limit", "totals", "admitted", "limited"} => k.read \in RowRecs
    /\ k.at = "publish" => /\ k.read.edit >= k.since
                           /\ k.gen = generation => k.read.edit >= answered
                           /\ ~k.read.live => ~row.live
    /\ k.at \in {"limit", "totals", "admitted", "limited"} => (row.live => k.read.edit >= k.since)
    /\ k.at = "totals" => (row.live => k.used = stored)
    /\ k.at \in {"admitted", "limited"} => (row.live /\ k.read.limit # 0 => k.used \in k.base..counted)
ChecksOk == \A c \in Clients : CheckOk(check[c])

\* Nobody reads the totals between the drain of a batch and its end.
FlushInv ==
    /\ flushing => Readers = {}
    /\ ~flushing => batch = 0
    /\ UseConserved

KeyInv == KeyTyped /\ OwnerInv /\ ChecksOk /\ FlushInv

LEMMA CheckPlacesAre ==
    {"idle", "hashing", "policy", "loading", "publish", "limit", "totals",
     "admitted", "limited", "refused"} = CheckPlaces
  BY DEF CheckPlaces

\* One check goes on.
LEMMA CheckMoves ==
    ASSUME KeyInv, NEW c \in Clients, NEW k \in CheckRecs, CheckOk(k),
           check' = [check EXCEPT ![c] = k],
           k.at = "totals" => ~flushing,
           UNCHANGED <<usageVars, editVars, generation>>,
           policies' \in RowRecs \cup {Absent}, policies' # Absent => policies'.edit >= answered
    PROVE  KeyInv'
<1>1. KeyTyped'
  BY DEF KeyInv, KeyTyped, usageVars, editVars
<1>2. OwnerInv'
  BY DEF KeyInv, OwnerInv, editVars
<1>3. \A o \in Clients : check'[o] = IF o = c THEN k ELSE check[o]
  BY DEF KeyInv, KeyTyped
<1>4. ChecksOk'
  <2>1. ASSUME NEW z \in CheckRecs, CheckOk(z) PROVE (CheckOk(z))'
    BY <2>1 DEF CheckOk, usageVars, editVars
  <2>2. \A o \in Clients : check'[o] \in CheckRecs /\ CheckOk(check'[o])
    BY <1>3 DEF KeyInv, KeyTyped, ChecksOk
  <2>3. \A o \in Clients : (CheckOk(check[o]))'
    BY <2>1, <2>2
  <2> QED BY <2>3 DEF ChecksOk
<1>5. FlushInv'
  <2>1. Readers' \subseteq Readers \cup (IF k.at = "totals" THEN {c} ELSE {})
    BY <1>3 DEF Readers
  <2> QED BY <2>1 DEF KeyInv, FlushInv, UseConserved, usageVars, editVars
<1> QED BY <1>1, <1>2, <1>4, <1>5 DEF KeyInv

\* The store and the caches move under the checks.
LEMMA WorldMoves ==
    ASSUME KeyInv, KeyTyped', OwnerInv', FlushInv', UNCHANGED check,
           row.live \/ ~row'.live,
           answered' = answered \/ answered' > answered,
           generation' = generation \/ (generation' = generation + 1),
           generation' = generation => answered' = answered,
           counted' >= counted,
           stored' = stored \/ ~row'.live \/ Readers = {}
    PROVE  KeyInv'
<1>1. ASSUME NEW c \in Clients PROVE (CheckOk(check[c]))'
  <2> DEFINE k == check[c]
  <2>1. k \in CheckRecs /\ CheckOk(k) /\ check'[c] = k
    BY DEF KeyInv, KeyTyped, ChecksOk
  <2>2. k.since \in Nat /\ k.gen \in Nat /\ k.base \in Nat /\ k.used \in Nat
    BY <2>1 DEF CheckRecs
  <2>3. answered \in Nat /\ answered' \in Nat /\ generation \in Nat /\ generation' \in Nat
        /\ counted \in Nat /\ counted' \in Nat /\ row \in RowRecs /\ row' \in RowRecs
    BY DEF KeyInv, KeyTyped
  <2>4. k.at = "totals" => c \in Readers
    BY DEF Readers
  <2>5. k.since <= answered' /\ k.gen <= generation' /\ k.base <= counted'
    BY <2>1, <2>2, <2>3 DEF CheckOk
  <2>6. k.at = "publish" => /\ k.read.edit >= k.since
                            /\ k.gen = generation' => k.read.edit >= answered'
                            /\ ~k.read.live => ~row'.live
    BY <2>1, <2>2, <2>3 DEF CheckOk
  <2>7. k.at = "totals" => (row'.live => k.used = stored')
    BY <2>1, <2>4 DEF CheckOk
  <2>8. k.at \in {"admitted", "limited"} => (row'.live /\ k.read.limit # 0 => k.used \in k.base..counted')
    BY <2>1, <2>2, <2>3 DEF CheckOk
  <2> HIDE DEF k
  <2>9. (CheckOk(k))'
    BY <2>1, <2>5, <2>6, <2>7, <2>8 DEF CheckOk, k
  <2> QED BY <2>9 DEF k
<1>2. ChecksOk'
  BY <1>1 DEF ChecksOk
<1> QED BY <1>2 DEF KeyInv

LEMMA FreshCheck ==
    ASSUME KeyTyped, NEW at \in {"idle", "refused"}
    PROVE  [NoCheck EXCEPT !.at = at] \in CheckRecs /\ CheckOk([NoCheck EXCEPT !.at = at])
<1> DEFINE k == [NoCheck EXCEPT !.at = at]
<1>1. at \in CheckPlaces /\ "idle" \in CheckPlaces
  BY CheckPlacesAre
<1>2. k \in CheckRecs /\ k.at = at /\ k.since = 0 /\ k.gen = 0 /\ k.base = 0
  BY <1>1 DEF NoCheck, CheckRecs
<1> HIDE DEF k
<1>3. CheckOk(k)
  BY <1>2 DEF CheckOk, KeyTyped
<1> QED BY <1>2, <1>3 DEF k

LEMMA RefuseKeeps ==
    ASSUME KeyInv, NEW c \in Clients, Refuse(c),
           UNCHANGED <<usageVars, editVars, generation, policies>>
    PROVE  KeyInv'
<1> DEFINE k == [NoCheck EXCEPT !.at = "refused"]
<1>1. k \in CheckRecs /\ CheckOk(k) /\ k.at = "refused"
  BY FreshCheck DEF KeyInv, NoCheck
<1>2. check' = [check EXCEPT ![c] = k]
  BY DEF Refuse
<1> HIDE DEF k
<1> QED BY <1>1, <1>2, CheckMoves DEF KeyInv, KeyTyped, OwnerInv

LEMMA IdentifyKeeps ==
    ASSUME KeyInv, NEW c \in Clients, Identify(c)
    PROVE  KeyInv'
<1>0. KeyTyped
  BY DEF KeyInv
<1>1. UNCHANGED <<usageVars, editVars, generation, policies>>
  BY DEF Identify, cacheVars
<1> DEFINE b == [NoCheck EXCEPT !.since = answered, !.base = counted]
           k1 == [b EXCEPT !.at = "policy"]
           k2 == [b EXCEPT !.at = "hashing", !.read = row]
<1>2. Refuse(c) \/ check' = [check EXCEPT ![c] = k1] \/ check' = [check EXCEPT ![c] = k2]
  BY DEF Identify
<1>3. b \in CheckRecs /\ b.since = answered /\ b.base = counted /\ b.gen = 0
  BY <1>0, CheckPlacesAre DEF NoCheck, CheckRecs, KeyTyped
<1> HIDE DEF b
<1>4. k1 \in CheckRecs /\ k1.at = "policy" /\ k1.since = answered /\ k1.base = counted /\ k1.gen = 0
  BY <1>3, CheckPlacesAre DEF CheckRecs
<1>5. k2 \in CheckRecs /\ k2.at = "hashing" /\ k2.since = answered /\ k2.base = counted /\ k2.gen = 0
      /\ k2.read = row
  BY <1>0, <1>3, CheckPlacesAre DEF CheckRecs, KeyTyped
<1> HIDE DEF k1, k2
<1>6. CheckOk(k1) /\ CheckOk(k2)
  BY <1>0, <1>4, <1>5 DEF CheckOk, KeyTyped
<1> QED BY <1>1, <1>2, <1>4, <1>5, <1>6, RefuseKeeps, CheckMoves DEF KeyInv, KeyTyped, OwnerInv

LEMMA CheckStepKeeps ==
    ASSUME KeyInv, NEW c \in Clients, CheckStep(c)
    PROVE  KeyInv' /\ UNCHANGED usageVars
<1> DEFINE k == check[c]
<1>0. KeyTyped /\ k \in CheckRecs /\ CheckOk(k) /\ check \in [Clients -> CheckRecs]
  BY DEF KeyInv, KeyTyped, ChecksOk
<1>u. UNCHANGED <<usageVars, editVars, generation>>
  BY DEF CheckStep, Identified, KeyPolicy, LoadPolicies, PublishPolicies, StoreUnreadable, NoLimit,
         ReadStored, ReadPending, cacheVars
<1>p. UNCHANGED policies => policies' \in RowRecs \cup {Absent} /\ (policies' # Absent => policies'.edit >= answered)
  BY DEF KeyInv, KeyTyped, OwnerInv
<1>1. CASE Identified(c)
  <2> DEFINE z == [k EXCEPT !.at = "policy", !.read = Absent]
  <2>1. UNCHANGED policies /\ (check' = [check EXCEPT ![c] = z] \/ Refuse(c))
    BY <1>0, <1>1 DEF Identified
  <2>2. z \in CheckRecs /\ z.at = "policy" /\ z.since = k.since /\ z.base = k.base /\ z.gen = k.gen
    BY <1>0, CheckPlacesAre DEF CheckRecs
  <2> HIDE DEF z
  <2>3. CheckOk(z)
    BY <1>0, <2>2 DEF CheckOk
  <2>4. CASE Refuse(c)
    BY <1>u, <2>1, <2>4, RefuseKeeps
  <2>5. CASE check' = [check EXCEPT ![c] = z]
    BY <1>u, <1>p, <2>1, <2>2, <2>3, <2>5, CheckMoves
  <2> QED BY <2>1, <2>4, <2>5
<1>2. CASE KeyPolicy(c)
  <2> DEFINE z == [k EXCEPT !.at = "limit", !.read = policies]
             y == [k EXCEPT !.at = "loading", !.gen = generation]
  <2>1. UNCHANGED policies /\ k.at = "policy"
        /\ \/ policies # Absent /\ check' = [check EXCEPT ![c] = z]
           \/ check' = [check EXCEPT ![c] = y]
    BY <1>0, <1>2 DEF KeyPolicy, At, cacheVars
  <2>2. z \in CheckRecs /\ z.at = "limit" /\ z.since = k.since /\ z.base = k.base /\ z.gen = k.gen /\ z.read = policies
    BY <1>0, CheckPlacesAre DEF CheckRecs, KeyTyped
  <2>3. y \in CheckRecs /\ y.at = "loading" /\ y.since = k.since /\ y.base = k.base /\ y.gen = generation
    BY <1>0, CheckPlacesAre DEF CheckRecs, KeyTyped
  <2> HIDE DEF z, y
  <2>4. policies # Absent => policies \in RowRecs /\ policies.edit >= answered /\ policies.edit \in Nat
    BY <1>0 DEF KeyInv, OwnerInv, KeyTyped, RowRecs
  <2>a. k.since \in Nat /\ answered \in Nat /\ k.since <= answered
    BY <1>0 DEF CheckOk, CheckRecs, KeyTyped
  <2>5. policies # Absent => CheckOk(z)
    BY <1>0, <2>2, <2>4, <2>a DEF CheckOk
  <2>6. CheckOk(y)
    BY <1>0, <2>3 DEF CheckOk, KeyTyped
  <2>7. CASE policies # Absent /\ check' = [check EXCEPT ![c] = z]
    BY <1>u, <1>p, <2>1, <2>2, <2>5, <2>7, CheckMoves
  <2>8. CASE check' = [check EXCEPT ![c] = y]
    BY <1>u, <1>p, <2>1, <2>3, <2>6, <2>8, CheckMoves
  <2> QED BY <2>1, <2>7, <2>8
<1>3. CASE LoadPolicies(c)
  <2> DEFINE z == [k EXCEPT !.at = "publish", !.read = row]
  <2>1. UNCHANGED policies /\ check' = [check EXCEPT ![c] = z]
    BY <1>0, <1>3 DEF LoadPolicies, cacheVars
  <2>2. z \in CheckRecs /\ z.at = "publish" /\ z.since = k.since /\ z.base = k.base /\ z.gen = k.gen /\ z.read = row
    BY <1>0, CheckPlacesAre DEF CheckRecs, KeyTyped
  <2> HIDE DEF z
  <2>3. row.edit \in Nat /\ row.edit >= answered /\ answered \in Nat /\ k.since \in Nat /\ k.since <= answered
        /\ row \in RowRecs
    BY <1>0 DEF KeyInv, OwnerInv, KeyTyped, RowRecs, CheckOk, CheckRecs
  <2>4. CheckOk(z)
    BY <1>0, <2>2, <2>3 DEF CheckOk
  <2> QED BY <1>u, <1>p, <2>1, <2>2, <2>4, CheckMoves
<1>4. CASE PublishPolicies(c)
  <2> DEFINE r == IF k.read.live THEN k.read ELSE Unrestricted
             z == [k EXCEPT !.at = "limit", !.read = r]
  <2>1. policies' = (IF generation = k.gen THEN k.read ELSE policies) /\ k.at = "publish"
        /\ check' = [check EXCEPT ![c] = z]
    BY <1>0, <1>4 DEF PublishPolicies, Published, At
  <2>2. k.read \in RowRecs /\ k.read.edit >= k.since /\ (k.gen = generation => k.read.edit >= answered)
        /\ (~k.read.live => ~row.live)
    BY <1>0, <2>1 DEF CheckOk
  <2>3. r \in RowRecs /\ (row.live => r = k.read)
    BY <2>2 DEF Unrestricted, RowRecs
  <2> HIDE DEF r
  <2>4. z \in CheckRecs /\ z.at = "limit" /\ z.since = k.since /\ z.base = k.base /\ z.gen = k.gen /\ z.read = r
    BY <1>0, <2>3, CheckPlacesAre DEF CheckRecs
  <2> HIDE DEF z
  <2>5. CheckOk(z)
    BY <1>0, <2>2, <2>3, <2>4 DEF CheckOk
  <2>6. policies' \in RowRecs \cup {Absent} /\ (policies' # Absent => policies'.edit >= answered)
    BY <1>0, <2>1, <2>2 DEF KeyInv, KeyTyped, OwnerInv
  <2> QED BY <1>u, <2>1, <2>4, <2>5, <2>6, CheckMoves
<1>5. CASE StoreUnreadable(c)
  BY <1>u, <1>5, RefuseKeeps DEF StoreUnreadable, cacheVars
<1>6. CASE NoLimit(c)
  <2> DEFINE z == [k EXCEPT !.at = "admitted"]
  <2>1. UNCHANGED policies /\ check' = [check EXCEPT ![c] = z] /\ k.at = "limit" /\ k.read.limit = 0
    BY <1>0, <1>6 DEF NoLimit, At, cacheVars
  <2>2. z \in CheckRecs /\ z.at = "admitted" /\ z.since = k.since /\ z.base = k.base /\ z.gen = k.gen /\ z.read = k.read
    BY <1>0, CheckPlacesAre DEF CheckRecs
  <2> HIDE DEF z
  <2>3. CheckOk(z)
    BY <1>0, <2>1, <2>2 DEF CheckOk
  <2> QED BY <1>u, <1>p, <2>1, <2>2, <2>3, CheckMoves
<1>7. CASE ReadStored(c)
  <2> DEFINE z == [k EXCEPT !.at = "totals", !.used = stored]
  <2>1. UNCHANGED policies /\ check' = [check EXCEPT ![c] = z] /\ k.at = "limit" /\ ~flushing
    BY <1>0, <1>7 DEF ReadStored, At, cacheVars, GateReadable
  <2>2. z \in CheckRecs /\ z.at = "totals" /\ z.since = k.since /\ z.base = k.base /\ z.gen = k.gen /\ z.read = k.read
        /\ z.used = stored
    BY <1>0, CheckPlacesAre DEF CheckRecs, KeyTyped
  <2> HIDE DEF z
  <2>3. CheckOk(z)
    BY <1>0, <2>1, <2>2 DEF CheckOk
  <2> QED BY <1>u, <1>p, <2>1, <2>2, <2>3, CheckMoves
<1>8. CASE ReadPending(c)
  <2> DEFINE u == k.used + pending
  <2>1. PICK pc \in {"limited", "admitted"} :
          UNCHANGED policies /\ check' = [check EXCEPT ![c] = [k EXCEPT !.at = pc, !.used = u]] /\ k.at = "totals"
    BY <1>0, <1>8 DEF ReadPending, At, cacheVars
  <2> DEFINE z == [k EXCEPT !.at = pc, !.used = u]
  <2>2. u \in Nat /\ k.used \in Nat /\ pending \in Nat /\ k.base \in Nat /\ counted \in Nat /\ stored \in Nat
    BY <1>0 DEF CheckRecs, KeyTyped
  <2>3. c \in Readers
    BY <2>1 DEF Readers
  <2>4. row.live => u = counted
    <3>1. ~flushing /\ batch = 0 BY <2>3 DEF KeyInv, FlushInv
    <3>2. row.live => pending + batch + stored = counted BY DEF KeyInv, FlushInv, UseConserved
    <3>3. row.live => k.used = stored BY <1>0, <2>1 DEF CheckOk
    <3> QED BY <2>2, <3>1, <3>2, <3>3
  <2>5. k.base <= counted
    BY <1>0 DEF CheckOk
  <2> HIDE DEF u
  <2>6. z \in CheckRecs /\ z.at = pc /\ z.since = k.since /\ z.base = k.base /\ z.gen = k.gen /\ z.read = k.read
        /\ z.used = u
    BY <1>0, <2>2, CheckPlacesAre DEF CheckRecs
  <2>7. check' = [check EXCEPT ![c] = z]
    BY <2>1
  <2> HIDE DEF z
  <2>8. row.live => z.used \in z.base..counted
    BY <2>2, <2>4, <2>5, <2>6
  <2>9. CheckOk(z)
    BY <1>0, <2>1, <2>6, <2>8 DEF CheckOk
  <2> QED BY <1>u, <1>p, <2>1, <2>6, <2>7, <2>9, CheckMoves
<1> QED BY <1>u, <1>1, <1>2, <1>3, <1>4, <1>5, <1>6, <1>7, <1>8 DEF CheckStep

LEMMA OwnerKeeps ==
    ASSUME KeyInv, Owner
    PROVE  KeyInv' /\ UNCHANGED counted
<1>0. KeyTyped /\ OwnerInv /\ FlushInv
  BY DEF KeyInv
<1>1. CASE EditKey
  <2>1. PICK n \in KeyLimits : row' = [row EXCEPT !.edit = row.edit + 1, !.limit = n]
    BY <1>1 DEF EditKey
  <2>a. row \in RowRecs /\ row.edit + 1 \in Nat /\ n \in Nat /\ row.live
    BY <1>0, <1>1, KeyAssumption DEF EditKey, KeyTyped, RowRecs
  <2>2. row' \in RowRecs /\ row'.edit = row.edit + 1 /\ row.live /\ row'.live
    BY <2>1, <2>a DEF RowRecs
  <2>3. /\ editing = "no" /\ editing' = "keys"
        /\ UNCHANGED <<answered, pending, batch, stored, flushing, counted, identified, policies, generation, check>>
    BY <1>1 DEF EditKey, usageVars, cacheVars
  <2>4. KeyTyped'
    BY <1>0, <2>2, <2>3 DEF KeyTyped
  <2>5. row.edit \in Nat
    BY <1>0 DEF KeyTyped, RowRecs
  <2>6. OwnerInv'
    BY <1>0, <2>2, <2>3, <2>5 DEF OwnerInv, KeyTyped
  <2>7. FlushInv'
    BY <1>0, <2>2, <2>3 DEF FlushInv, UseConserved, Readers
  <2> QED BY <1>0, <2>2, <2>3, <2>4, <2>6, <2>7, WorldMoves DEF KeyTyped
<1>2. CASE DeleteKey
  <2>1. row' = [row EXCEPT !.edit = row.edit + 1, !.live = FALSE]
    BY <1>2 DEF DeleteKey
  <2>a. row \in RowRecs /\ row.edit + 1 \in Nat
    BY <1>0 DEF KeyTyped, RowRecs
  <2>2. row' \in RowRecs /\ row'.edit = row.edit + 1 /\ ~row'.live
    BY <2>1, <2>a DEF RowRecs
  <2>3. /\ editing = "no" /\ editing' = "keys" /\ stored' = 0
        /\ UNCHANGED <<answered, pending, batch, flushing, counted, identified, policies, generation, check>>
    BY <1>2 DEF DeleteKey, cacheVars
  <2>4. KeyTyped'
    BY <1>0, <2>2, <2>3 DEF KeyTyped
  <2>5. row.edit \in Nat
    BY <1>0 DEF KeyTyped, RowRecs
  <2>6. OwnerInv'
    BY <1>0, <2>2, <2>3, <2>5 DEF OwnerInv, KeyTyped
  <2>7. FlushInv'
    BY <1>0, <2>2, <2>3 DEF FlushInv, UseConserved, Readers
  <2> QED BY <1>0, <2>2, <2>3, <2>4, <2>6, <2>7, WorldMoves DEF KeyTyped
<1>3. CASE ClearKeys
  <2>3. /\ editing = "keys" /\ editing' = "policies"
        /\ UNCHANGED <<row, answered, pending, batch, stored, flushing, counted, policies, generation, check>>
    BY <1>3 DEF ClearKeys, usageVars
  <2>4. KeyTyped'
    BY <1>0, <2>3 DEF KeyTyped
  <2>6. OwnerInv'
    BY <1>0, <2>3 DEF OwnerInv
  <2>7. FlushInv'
    BY <1>0, <2>3 DEF FlushInv, UseConserved, Readers
  <2> QED BY <1>0, <2>3, <2>4, <2>6, <2>7, WorldMoves DEF KeyTyped
<1>4. CASE ClearPolicies
  <2>3. /\ policies' = Absent /\ generation' = generation + 1 /\ editing' = "no" /\ answered' = row.edit
        /\ UNCHANGED <<row, pending, batch, stored, flushing, counted, check>>
    BY <1>4 DEF ClearPolicies, usageVars
  <2>5. row.edit \in Nat
    BY <1>0 DEF KeyTyped, RowRecs
  <2>4. KeyTyped'
    BY <1>0, <2>3, <2>5 DEF KeyTyped
  <2>6. OwnerInv'
    BY <1>0, <2>3, <2>5 DEF OwnerInv
  <2>7. FlushInv'
    BY <1>0, <2>3 DEF FlushInv, UseConserved, Readers
  <2>8. answered' = answered \/ answered' > answered
    BY <1>0, <2>3, <2>5 DEF OwnerInv, KeyTyped
  <2> QED BY <1>0, <2>3, <2>4, <2>6, <2>7, <2>8, WorldMoves DEF KeyTyped
<1> QED BY <1>0, <1>1, <1>2, <1>3, <1>4 DEF Owner, EditKey, DeleteKey, ClearKeys, ClearPolicies, usageVars

LEMMA HousekeepingKeeps ==
    ASSUME KeyInv, Housekeeping
    PROVE  KeyInv' /\ UNCHANGED counted
<1>0. KeyTyped /\ OwnerInv /\ FlushInv
  BY DEF KeyInv
<1>1. UNCHANGED <<counted, identified, policies, generation, row, editing, answered, check>>
  BY DEF Housekeeping, FlushDrain, FlushStored, FlushFailed, cacheVars, editVars
<1>2. OwnerInv'
  BY <1>0, <1>1 DEF OwnerInv
<1>3. KeyTyped'
  BY <1>0, <1>1 DEF KeyTyped, Housekeeping, FlushDrain, FlushStored, FlushFailed, Restored
<1>4. FlushInv' /\ (stored' = stored \/ Readers = {})
  BY <1>0, <1>1 DEF FlushInv, UseConserved, Readers, KeyTyped, Housekeeping, FlushDrain, FlushStored,
     FlushFailed, Restored
<1> QED BY <1>0, <1>1, <1>2, <1>3, <1>4, WorldMoves DEF KeyTyped

LEMMA LapseKeeps ==
    ASSUME KeyInv, CacheLapse
    PROVE  KeyInv' /\ UNCHANGED counted
<1>0. KeyTyped /\ OwnerInv /\ FlushInv
  BY DEF KeyInv
<1>1. UNCHANGED <<pending, batch, stored, flushing, counted, generation, row, editing, answered, check>>
      /\ (policies' = policies \/ policies' = Absent)
  BY DEF CacheLapse, usageVars, editVars
<1>2. OwnerInv' /\ KeyTyped' /\ FlushInv'
  BY <1>0, <1>1 DEF OwnerInv, KeyTyped, FlushInv, UseConserved, Readers
<1> QED BY <1>0, <1>1, <1>2, WorldMoves DEF KeyTyped

LEMMA RecordKeeps ==
    ASSUME KeyInv, Record, UNCHANGED <<cacheVars, editVars, check>>
    PROVE  KeyInv' /\ counted' = counted + 1
<1>0. KeyTyped /\ OwnerInv /\ FlushInv
  BY DEF KeyInv
<1>1. /\ pending' = pending + 1 /\ counted' = counted + 1
      /\ UNCHANGED <<batch, stored, flushing, policies, generation, row, editing, answered, check>>
  BY DEF Record, cacheVars, editVars
<1>2. OwnerInv' /\ KeyTyped' /\ FlushInv'
  BY <1>0, <1>1 DEF OwnerInv, KeyTyped, FlushInv, UseConserved, Readers
<1>3. counted' >= counted
  BY <1>0, <1>1 DEF KeyTyped
<1> QED BY <1>0, <1>1, <1>2, <1>3, WorldMoves DEF KeyTyped

\* A request moves the key's state by a check or by a record.
LEMMA RequestKey ==
    ASSUME TurnInv, KeyInv, NEW c \in Callers, Request(c)
    PROVE  KeyInv'
<1>1. CASE UNCHANGED keyVars
  BY <1>1 DEF KeyInv, KeyTyped, OwnerInv, ChecksOk, CheckOk, FlushInv, UseConserved, Readers, keyVars, usageVars,
     cacheVars, editVars
<1>2. CASE Record /\ UNCHANGED <<cacheVars, editVars, check>>
  BY <1>2, RecordKeeps
<1>3. CASE Checking(c)
  <2>1. c \in Clients
    BY <1>3 DEF Checking, In, TurnInv, TurnOk, ModeOk
  <2> QED BY <1>3, <2>1, CheckStepKeeps DEF Checking
<1>4. CASE Identify(c) /\ c \in Clients
  BY <1>4, IdentifyKeeps
<1>5. ASSUME NEW mode, Arrive(c, mode) PROVE UNCHANGED keyVars \/ (Identify(c) /\ c \in Clients)
  BY <1>5 DEF Arrive, Executions, Gated
<1>6. ASSUME NEW pc, Leaving(c, pc) PROVE UNCHANGED keyVars
  BY <1>6 DEF Leaving
<1>7. Build(c) => UNCHANGED keyVars
  BY DEF Build, Attempt
<1>8. Start(c) \/ Open(c) \/ Failed(c) \/ Refused(c) => UNCHANGED keyVars
  BY DEF Start, Open, Failed, Refused
<1>9. ASSUME NEW kind, Chunk(c, kind) PROVE UNCHANGED keyVars
  BY <1>9 DEF Chunk
<1>10. Broken(c) \/ Leave(c) => UNCHANGED keyVars
  BY <1>6 DEF Broken, Leave
<1>11. SearchInline(c) \/ FirstSilence(c) \/ EndOfStream(c) \/ OutputLimit(c) => UNCHANGED keyVars
  BY DEF SearchInline, FirstSilence, EndOfStream, OutputLimit
<1>12. SearchFollowup(c) \/ Tell(c) \/ CommitSuccess(c) => UNCHANGED keyVars
  BY DEF SearchFollowup, Tell, CommitSuccess
<1>13. RecordTokens(c) \/ Answer(c) => UNCHANGED keyVars \/ (Record /\ UNCHANGED <<cacheVars, editVars, check>>)
  BY DEF RecordTokens, Answer
<1> QED BY <1>1, <1>2, <1>3, <1>4, <1>5, <1>7, <1>8, <1>9, <1>10, <1>11, <1>12, <1>13 DEF Request

----------------------------------------------------------------------------
(* The invariant: every turn, the key and the count of the key's use.      *)

\* The clients whose use was recorded.
Recorded == {c \in Clients : turn[c].records = 1}
CountInv == IsFiniteSet(Recorded) /\ counted = Cardinality(Recorded)
DataInv == TurnInv /\ KeyInv /\ CountInv

LEMMA CountKept ==
    ASSUME CountInv, TurnInv, TurnInv', UNCHANGED counted,
           \A c \in Callers : turn'[c].records = turn[c].records
    PROVE  CountInv'
<1>1. Recorded' = Recorded
  BY DataPlaneAssumption DEF Recorded
<1> QED BY <1>1 DEF CountInv

LEMMA TurnsCount ==
    ASSUME DataInv, NEW c \in Callers, NEW q, Turns(c, q)
    PROVE  CountInv'
<1>1. turn \in [Callers -> TurnRecs] /\ turn' = [turn EXCEPT ![c] = q]
  BY DEF DataInv, TurnInv, Turns
<1>2. CASE q.records = turn[c].records /\ UNCHANGED usageVars
  <2>1. Recorded' = Recorded
    BY <1>1, <1>2, DataPlaneAssumption DEF Recorded
  <2> QED BY <1>2, <2>1 DEF DataInv, CountInv, usageVars
<1>3. CASE turn[c].records = 0 /\ q.records = 1 /\ Record
  <2>1. c \in Clients
    BY <1>3 DEF Turns, TurnOk, RecordOk
  <2>2. Recorded' = Recorded \cup {c} /\ c \notin Recorded
    BY <1>1, <1>3, <2>1, DataPlaneAssumption DEF Recorded
  <2>3. IsFiniteSet(Recorded')
        /\ Cardinality(Recorded') = Cardinality(Recorded) + 1
    BY <2>2, FS_AddElement DEF DataInv, CountInv
  <2> QED BY <1>3, <2>3 DEF DataInv, CountInv, Record
<1> QED BY <1>2, <1>3 DEF Turns

LEMMA InitKeeps ==
    ASSUME Init
    PROVE  DataInv
<1>1. turn = [c \in Callers |-> New]
  BY DEF Init
<1>2. \A c \in Callers : TurnOk(c, New)
  <2>1. HeardOk(New)
    BY NewShape, NothingHeard
  <2>2. ASSUME NEW c \in Callers PROVE ModeOk(c, New) /\ RecordOk(c, New) /\ AcctOk(New)
    BY NewShape DEF ModeOk, RecordOk, AcctOk
  <2> QED BY <2>1, <2>2 DEF TurnOk
<1>3. TurnInv
  BY <1>1, <1>2, NewShape DEF TurnInv
<1>4. KeyInit
  BY DEF Init
<1>5. row \in RowRecs /\ row.edit = 0
  <2>1. PICK n \in KeyLimits : row = [Fresh EXCEPT !.limit = n]
    BY <1>4 DEF KeyInit
  <2> QED BY <2>1, KeyAssumption DEF Fresh, RowRecs
<1>6. check \in [Clients -> CheckRecs] /\ \A c \in Clients : check[c] = NoCheck
  <2>1. NoCheck \in CheckRecs
    BY CheckPlacesAre DEF NoCheck, CheckRecs
  <2> QED BY <1>4, <2>1 DEF KeyInit
<1>7. KeyTyped
  BY <1>4, <1>5, <1>6 DEF KeyInit, KeyTyped
<1>8. OwnerInv
  BY <1>4, <1>5 DEF KeyInit, OwnerInv
<1>9. ChecksOk
  BY <1>4, <1>6 DEF KeyInit, ChecksOk, CheckOk, NoCheck
<1>10. FlushInv
  BY <1>4, <1>6 DEF KeyInit, FlushInv, UseConserved, Readers, NoCheck
<1>11. CountInv
  <2>1. Recorded = {}
    BY <1>1, NewShape, DataPlaneAssumption DEF Recorded
  <2> QED BY <1>4, <2>1, FS_EmptySet DEF CountInv, KeyInit
<1> QED BY <1>3, <1>7, <1>8, <1>9, <1>10, <1>11 DEF DataInv, KeyInv

LEMMA NextKeeps ==
    ASSUME DataInv, [Next]_vars
    PROVE  DataInv'
<1>1. ASSUME NEW c \in Callers, Request(c) PROVE DataInv'
  <2>1. CASE Checking(c)
    <3>1. TurnInv' /\ UNCHANGED turn
      BY <1>1, <2>1 DEF DataInv, TurnInv, Checking, dataVars
    <3>2. KeyInv' /\ UNCHANGED counted
      <4>1. c \in Clients
        BY <2>1 DEF Checking, In, DataInv, TurnInv, TurnOk, ModeOk
      <4> QED BY <2>1, <4>1, CheckStepKeeps DEF Checking, DataInv, usageVars
    <3> QED BY <3>1, <3>2, CountKept DEF DataInv
  <2>2. CASE \E q : Turns(c, q)
    <3>1. PICK q : Turns(c, q)
      BY <2>2
    <3>2. TurnInv'
      BY <3>1, TurnStays DEF DataInv
    <3> QED BY <1>1, <3>1, <3>2, TurnsCount, RequestKey DEF DataInv
  <2> QED BY <1>1, <2>1, <2>2, RequestTurns DEF DataInv
<1>2. CASE UNCHANGED <<turn, keyVars>>
  <2>1. TurnInv'
    BY <1>2 DEF DataInv, TurnInv
  <2>2. KeyInv'
    BY <1>2 DEF DataInv, KeyInv, KeyTyped, OwnerInv, ChecksOk, CheckOk, FlushInv, UseConserved, Readers, keyVars,
       usageVars, cacheVars, editVars
  <2> QED BY <1>2, <2>1, <2>2, CountKept DEF DataInv, keyVars, usageVars
<1>3. CASE UNCHANGED turn /\ (Owner \/ Housekeeping \/ CacheLapse)
  <2>1. TurnInv'
    BY <1>3 DEF DataInv, TurnInv
  <2>2. KeyInv' /\ UNCHANGED counted
    BY <1>3, OwnerKeeps, HousekeepingKeeps, LapseKeeps DEF DataInv
  <2> QED BY <1>3, <2>1, <2>2, CountKept DEF DataInv
<1> QED BY <1>1, <1>2, <1>3 DEF Next, Upstream, vars, dataVars

\* DataInv is an invariant of the data plane.
THEOREM Reached == Spec => []DataInv
<1>1. Init => DataInv
  BY InitKeeps
<1>2. DataInv /\ [Next]_vars => DataInv'
  BY NextKeeps
<1> QED BY <1>1, <1>2, PTL DEF Spec

\* A key that is still there is held to the limit of its last answered edit, a check counts all
\* the use it could know of and none twice, no use is lost between memory, batch and store, and
\* what is counted is one for every turn that recorded (dashboard_store.rs, usage_tracking.rs).
THEOREM LimitsHold == Spec => []KeysHeld
<1>1. DataInv => KeysHeld
  <2> SUFFICES ASSUME DataInv PROVE KeysHeld
    OBVIOUS
  <2>1. PolicyHeld
    BY DEF DataInv, KeyInv, ChecksOk, CheckOk, PolicyHeld, Decided
  <2>2. UsageHeld
    BY DEF DataInv, KeyInv, ChecksOk, CheckOk, UsageHeld, Decided
  <2>3. UseConserved
    BY DEF DataInv, KeyInv, FlushInv
  <2>4. counted = Cardinality({c \in Clients : turn[c].records = 1})
    BY DEF DataInv, CountInv, Recorded
  <2> QED BY <2>1, <2>2, <2>3, <2>4 DEF KeysHeld
<1> QED BY <1>1, Reached, PTL

----------------------------------------------------------------------------
(* The orders in which endpoints and proxies are tried.                    *)

LEMMA HeadTailSet ==
    ASSUME NEW S, NEW s \in Seq(S), s # <<>>
    PROVE  /\ Head(s) \in S /\ Tail(s) \in Seq(S) /\ Head(s) \in ToSet(s)
           /\ ToSet(s) = {Head(s)} \cup ToSet(Tail(s))
           /\ Tail(s) = <<>> => ToSet(s) = {Head(s)}
           /\ Len(s) \in Nat /\ Len(s) >= 1 /\ Len(Tail(s)) = Len(s) - 1
           /\ Len(s) = 1 <=> Tail(s) = <<>>
<1>1. /\ Len(s) \in Nat /\ Len(s) >= 1 /\ DOMAIN s = 1..Len(s)
      /\ Head(s) = s[1] /\ Head(s) \in S /\ Tail(s) \in Seq(S) /\ Len(Tail(s)) = Len(s) - 1
      /\ DOMAIN Tail(s) = 1..(Len(s) - 1)
      /\ \A i \in 1..(Len(s) - 1) : Tail(s)[i] = s[i + 1]
  OBVIOUS
<1>2. \A i \in 1..Len(s) : i = 1 \/ (i - 1 \in 1..(Len(s) - 1) /\ s[i] = Tail(s)[i - 1])
  BY <1>1
<1>3. ToSet(s) \subseteq {Head(s)} \cup ToSet(Tail(s))
  <2>1. ASSUME NEW i \in 1..Len(s) PROVE s[i] \in {Head(s)} \cup ToSet(Tail(s))
    <3>1. CASE i = 1
      BY <1>1, <3>1
    <3>2. CASE i # 1
      BY <1>1, <1>2, <3>2 DEF ToSet
    <3> QED BY <3>1, <3>2
  <2> QED BY <1>1, <2>1 DEF ToSet
<1>4. {Head(s)} \cup ToSet(Tail(s)) \subseteq ToSet(s)
  BY <1>1 DEF ToSet
<1>5. Tail(s) = <<>> => ToSet(Tail(s)) = {}
  BY <1>1 DEF ToSet
<1>6. Len(s) = 1 <=> Tail(s) = <<>>
  BY <1>1
<1> QED BY <1>1, <1>3, <1>4, <1>5, <1>6

LEMMA TailOfTwo ==
    ASSUME NEW S, NEW s \in Seq(S), Len(s) > 1, Len(s) <= 2
    PROVE  Tail(s) # <<>> /\ Len(Tail(s)) <= 2 /\ ToSet(Tail(Tail(s))) = {}
<1>0. Len(s) \in Nat
  OBVIOUS
<1>a. Len(s) = 2
  <2>1. \A n \in Nat : n > 1 /\ n <= 2 => n = 2
    OBVIOUS
  <2> QED BY <1>0, <2>1
<1>1. Len(s) = 2 /\ s # <<>>
  BY <1>a
<1>2. Tail(s) \in Seq(S) /\ Len(Tail(s)) = 1
  BY <1>1, HeadTailSet
<1>3. Tail(s) # <<>>
  BY <1>2
<1>4. Tail(Tail(s)) = <<>>
  BY <1>2, <1>3, HeadTailSet
<1>5. ToSet(<<>>) = {}
  BY DEF ToSet
<1>6. Len(Tail(s)) <= 2
  BY <1>2
<1>7. ToSet(Tail(Tail(s))) = {}
  BY <1>4, <1>5
<1> QED BY <1>3, <1>6, <1>7

LEMMA SortedSeq ==
    ASSUME NEW S, IsFiniteSet(S), NEW rank, NEW o \in Sorted(S, rank)
    PROVE  o \in Seq(S) /\ ToSet(o) = S /\ (S # {} => o # <<>>)
<1>1. Cardinality(S) \in Nat /\ o \in [1..Cardinality(S) -> S] /\ ToSet(o) = S
  BY FS_CardinalityType DEF Sorted
<1>2. o \in Seq(S)
  BY <1>1
<1>3. o = <<>> => S = {}
  BY <1>1 DEF ToSet
<1> QED BY <1>1, <1>2, <1>3

LEMMA ToSetFinite ==
    ASSUME NEW S, NEW s \in Seq(S)
    PROVE  IsFiniteSet(ToSet(s))
<1>1. Len(s) \in Nat /\ s \in [1..Len(s) -> S] /\ DOMAIN s = 1..Len(s)
  OBVIOUS
<1>2. s \in [1..Len(s) -> ToSet(s)] /\ \A x \in ToSet(s) : \E i \in 1..Len(s) : s[i] = x
  BY <1>1 DEF ToSet
<1>3. s \in Surjection(1..Len(s), ToSet(s))
  BY <1>2 DEF Surjection
<1> QED BY <1>1, <1>3, FS_Surjection, FS_Interval

\* The proxies of the chain, or none, and every proxy that any chain has.
Pxs == IF chain = <<>> THEN {Direct} ELSE ToSet(chain)
Proxied == Proxies \cup {Direct}
Rotated == Endpoints \cup {Direct}

LEMMA ProxyOrdersAre ==
    ASSUME chain \in Chains, NEW cooling, NEW p \in ProxyOrders(cooling)
    PROVE  p \in Seq(Proxied) /\ ToSet(p) = Pxs /\ p # <<>> /\ Head(p) \in Proxied
<1>1. CASE chain = <<>>
  <2>1. p = <<Direct>>
    BY <1>1 DEF ProxyOrders
  <2> QED BY <1>1, <2>1 DEF Proxied, Pxs, ToSet
<1>2. CASE chain # <<>>
  <2>1. chain \in Seq(Proxies)
    BY TransportAssumption
  <2>2. PICK rank : p \in Sorted(ToSet(chain), rank)
    BY <1>2 DEF ProxyOrders
  <2>3. ToSet(chain) # {} /\ ToSet(chain) \subseteq Proxies
    BY <1>2, <2>1 DEF ToSet
  <2>4. p \in Seq(ToSet(chain)) /\ ToSet(p) = ToSet(chain) /\ p # <<>>
    BY <2>1, <2>2, <2>3, ToSetFinite, SortedSeq
  <2>5. p \in Seq(Proxied)
    BY <2>3, <2>4 DEF Proxied
  <2> QED BY <1>2, <2>4, <2>5 DEF Pxs
<1> QED BY <1>1, <1>2

LEMMA AttemptOrdersAre ==
    ASSUME NEW a, NEW o \in AttemptOrders(a)
    PROVE  o \in Seq(Rotated) /\ ToSet(o) = Rotation /\ o # <<>>
<1>1. CASE strategy = "off"
  <2>1. o = <<Direct>>
    BY <1>1 DEF AttemptOrders
  <2> QED BY <1>1, <2>1 DEF Rotated, Rotation, ToSet
<1>2. CASE strategy # "off"
  <2>1. PICK rank : o \in Sorted(Endpoints, rank)
    BY <1>2 DEF AttemptOrders
  <2>2. o \in Seq(Endpoints) /\ ToSet(o) = Endpoints /\ o # <<>>
    BY <2>1, SortedSeq, TransportAssumption
  <2> QED BY <1>2, <2>2 DEF Rotated, Rotation
<1> QED BY <1>1, <1>2

----------------------------------------------------------------------------
(* A generation.                                                           *)

Keys == Accounts \cup {Global}
Semaphores == [key: Keys, limit: Nat \ {0}, nth: Nat \ {0}, epoch: Nat]
CallPlaces == {"idle", "limits", "slots", "sending"} \cup Ends
CallRecs ==
    [at: CallPlaces, acct: Accounts \cup {None}, once: BOOLEAN, limits: [global: Nat, account: Nat] \cup {None},
     need: Seq(Semaphores), eps: Seq(Rotated), pxs: Seq(Proxied), tries: Nat, soft: BOOLEAN, tried: SUBSET (Rotated \X Proxied)]

\* An epoch's gates were made for a limit; under settings that never changed there was one.
GatesTyped ==
    /\ gates \in [Keys -> [limit: Nat, nth: Nat]]
    /\ \A k \in Keys : /\ gates[k].nth = 0 => gates[k].limit = 0
                       /\ changes = 0 /\ gates[k].limit # 0 => gates[k].limit = Setting(k) /\ gates[k].nth = 1
                       /\ changes = 0 /\ gates[k].limit = 0 => gates[k].nth = 0

GateTyped ==
    /\ limits \in [global: Nat, account: Nat] /\ unreset \in BOOLEAN /\ epoch \in Nat /\ changes \in Nat
    /\ waiting \in [Accounts -> Int \cup {None}]
    /\ held \in [Callers -> SUBSET Semaphores]
    /\ call \in [Callers -> CallRecs]
    /\ chain \in Chains
    /\ changes = 0 => ~unreset /\ epoch = 0
    /\ GatesTyped

Bounded == {"slots", "sending", "ok", "refused", "faulty"}
First(k) == [key |-> k, limit |-> Setting(k), nth |-> 1, epoch |-> 0]
Required(a) == {First(k) : k \in {k \in {Global, a} : Setting(k) # 0}}

\* A semaphore is of a gate that is in place, or was.
Made(s) == s.epoch = epoch => /\ s.nth <= gates[s.key].nth
                              /\ s.nth = gates[s.key].nth => s.limit = gates[s.key].limit

\* The permits h of a generation r and those it queues for: what the settings require, of
\* gates that were made, and none of them twice.
GateOk(r, h) ==
    /\ \A s \in h \cup ToSet(r.need) : s.epoch <= epoch /\ Made(s)
    /\ r.at \in {"idle", "limits"} => h = {}
    /\ r.at = "limits" => /\ r.acct \in Accounts
                          /\ r.limits \in [global: Nat, account: Nat]
                          /\ ~(r.limits.global = 0 /\ r.limits.account = 0)
                          /\ changes = 0 => r.limits = limits
    /\ r.at # "slots" => r.need = <<>>
    /\ r.at = "slots" => /\ r.need # <<>>
                         /\ ToSet(r.need) \cap h = {}
                         /\ Head(r.need) \notin ToSet(Tail(r.need))
                         /\ Len(r.need) <= 2
    /\ r.at \in Bounded => r.acct \in Accounts /\ (changes = 0 => Required(r.acct) \subseteq h \cup ToSet(r.need))

\* An execution is sent once.
OnceOk(r) ==
    /\ r.at \in {"idle", "limits", "slots", "busy"} => r.tries = 0 /\ r.tried = {}
    /\ r.once => /\ r.tries = 0 /\ Cardinality(r.tried) <= 1
                 /\ r.at = "sending" => r.tried = {} /\ Len(r.eps) = 1

\* The endpoints tried and those left make the rotation; without a 5xx every endpoint that is
\* not left was tried through every proxy, and the one in turn through those not left.
RouteOk(r) ==
    /\ r.at = "sending" => r.eps # <<>> /\ r.pxs # <<>>
    /\ changes = 0 /\ ~r.once =>
         /\ r.at = "sending" =>
              /\ {t[1] : t \in r.tried} \cup ToSet(r.eps) = Rotation
              /\ r.tried \subseteq Rotation \X Pxs
              /\ ToSet(r.pxs) \subseteq Pxs
              /\ ~r.soft => /\ \A e \in Rotation \ ToSet(r.eps), p \in Pxs : <<e, p>> \in r.tried
                            /\ \A p \in Pxs \ ToSet(r.pxs) : <<Head(r.eps), p>> \in r.tried
         /\ r.at = "unreachable" => r.tried = Rotation \X Pxs
         /\ r.at = "faulty" => {t[1] : t \in r.tried} = Rotation

RecOk(r, h) == GateOk(r, h) /\ OnceOk(r) /\ RouteOk(r)

HoldersOk == \A s \in Semaphores : IsFiniteSet(Holders(s)) /\ Cardinality(Holders(s)) <= s.limit
WaitOk == \A a \in Accounts :
    /\ IsFiniteSet(Queueing(a))
    /\ epoch = 0 => IF waiting[a] = None THEN Queueing(a) = {} ELSE waiting[a] = Cardinality(Queueing(a))

CallInv == GateTyped /\ HoldersOk /\ WaitOk /\ \A c \in Callers : RecOk(call[c], held[c])

LEMMA CallPlacesAre ==
    {"idle", "limits", "slots", "sending", "ok", "refused", "faulty", "unreachable", "dead", "busy"} = CallPlaces
  BY DEF CallPlaces, Ends

LEMMA IdleShape ==
    /\ Idle \in CallRecs /\ Idle.at = "idle" /\ Idle.acct = None /\ Idle.once = FALSE /\ Idle.need = <<>>
    /\ Idle.limits = None
    /\ Idle.tries = 0 /\ Idle.tried = {}
<1>1. "idle" \in CallPlaces
  BY CallPlacesAre
<1> QED BY <1>1 DEF Idle, CallRecs

LEMMA NoneIn == ToSet(<<>>) = {} /\ Cardinality({}) = 0
  BY FS_EmptySet DEF ToSet

\* One generation goes on, its permits with it.
LEMMA CallMoves ==
    ASSUME CallInv, NEW c \in Callers, NEW r \in CallRecs, NEW h \in SUBSET Semaphores, RecOk(r, h),
           call' = [call EXCEPT ![c] = r], held' = [held EXCEPT ![c] = h],
           waiting' \in [Accounts -> Int \cup {None}],
           UNCHANGED <<limits, unreset, gates, epoch, strategy, chain, changes>>,
           HoldersOk', WaitOk'
    PROVE  CallInv'
<1>1. GateTyped'
  BY DEF CallInv, GateTyped, GatesTyped, Setting
<1>2. \A o \in Callers : call'[o] = (IF o = c THEN r ELSE call[o]) /\ held'[o] = (IF o = c THEN h ELSE held[o])
  BY DEF CallInv, GateTyped
<1>3. \A o \in Callers : RecOk(call'[o], held'[o])
  BY <1>2 DEF CallInv
<1>4. ASSUME NEW x, NEW y, RecOk(x, y) PROVE (RecOk(x, y))'
  BY <1>4 DEF RecOk, GateOk, OnceOk, RouteOk, Setting, Required, First, Made, Pxs, Rotation
<1>5. \A o \in Callers : (RecOk(call[o], held[o]))'
  BY <1>3, <1>4
<1> QED BY <1>1, <1>5 DEF CallInv

LEMMA HoldersKept ==
    ASSUME CallInv, NEW c \in Callers, NEW h \in SUBSET Semaphores, held' = [held EXCEPT ![c] = h],
           \/ h \subseteq held[c]
           \/ \E s \in Semaphores : Free(s) /\ h \subseteq held[c] \cup {s}
    PROVE  HoldersOk'
<1>1. held \in [Callers -> SUBSET Semaphores]
  BY DEF CallInv, GateTyped
<1>2. ASSUME NEW s \in Semaphores PROVE IsFiniteSet(Holders(s)') /\ Cardinality(Holders(s)') <= s.limit
  <2>1. IsFiniteSet(Holders(s)) /\ Cardinality(Holders(s)) <= s.limit /\ s.limit \in Nat /\ Cardinality(Holders(s)) \in Nat
    BY FS_CardinalityType DEF CallInv, HoldersOk, Semaphores
  <2>2. CASE Holders(s)' \subseteq Holders(s)
    <3>1. IsFiniteSet(Holders(s)') /\ Cardinality(Holders(s)') <= Cardinality(Holders(s))
      BY <2>1, <2>2, FS_Subset
    <3>2. Cardinality(Holders(s)') \in Nat
      BY <3>1, FS_CardinalityType
    <3> QED BY <2>1, <3>1, <3>2
  <2>3. CASE Holders(s)' \subseteq Holders(s) \cup {c} /\ Free(s)
    <3>1. IsFiniteSet(Holders(s) \cup {c}) /\ Cardinality(Holders(s) \cup {c}) <= s.limit
          /\ Cardinality(Holders(s) \cup {c}) \in Nat
      <4>1. Cardinality(Holders(s)) + 1 <= s.limit
        BY <2>1, <2>3 DEF Free
      <4>2. IsFiniteSet(Holders(s) \cup {c})
            /\ Cardinality(Holders(s) \cup {c}) \in {Cardinality(Holders(s)), Cardinality(Holders(s)) + 1}
        BY <2>1, FS_AddElement
      <4> QED BY <2>1, <4>1, <4>2
    <3>2. IsFiniteSet(Holders(s)') /\ Cardinality(Holders(s)') <= Cardinality(Holders(s) \cup {c})
      BY <2>3, <3>1, FS_Subset
    <3>3. Cardinality(Holders(s)') \in Nat
      BY <3>2, FS_CardinalityType
    <3> QED BY <2>1, <3>1, <3>2, <3>3
  <2>4. s \in h /\ s \notin held[c] => Free(s)
    OBVIOUS
  <2>5. Holders(s)' \subseteq Holders(s) \cup (IF s \in h /\ s \notin held[c] THEN {c} ELSE {})
    BY <1>1 DEF Holders
  <2> QED BY <2>2, <2>3, <2>4, <2>5
<1> QED BY <1>2 DEF HoldersOk

LEMMA HoldersStay ==
    ASSUME CallInv, UNCHANGED held
    PROVE  HoldersOk'
  BY DEF CallInv, HoldersOk, Holders

\* The depth of a queue: a caller comes, goes, or neither.
LEMMA WaitKept ==
    ASSUME CallInv, NEW c \in Callers, NEW r \in CallRecs, call' = [call EXCEPT ![c] = r], UNCHANGED epoch,
           \/ /\ (call[c].at = "slots") <=> (r.at = "slots")
              /\ (r.at = "slots" => r.acct = call[c].acct) /\ UNCHANGED waiting
           \/ /\ call[c].at # "slots" /\ r.at = "slots" /\ r.acct \in Accounts
              /\ waiting' = [waiting EXCEPT ![r.acct] = (IF waiting[r.acct] = None THEN 0 ELSE waiting[r.acct]) + 1]
           \/ call[c].at = "slots" /\ r.at # "slots" /\ waiting' = Unqueued(c)
    PROVE  WaitOk' /\ waiting' \in [Accounts -> Int \cup {None}]
<1>0. /\ call \in [Callers -> CallRecs] /\ waiting \in [Accounts -> Int \cup {None}]
      /\ \A o \in Callers : call'[o] = IF o = c THEN r ELSE call[o]
  BY DEF CallInv, GateTyped
<1>1. CASE /\ (call[c].at = "slots") <=> (r.at = "slots")
           /\ (r.at = "slots" => r.acct = call[c].acct) /\ UNCHANGED waiting
  <2>1. \A a \in Accounts : Queueing(a)' = Queueing(a)
    BY <1>0, <1>1 DEF Queueing
  <2> QED BY <1>0, <1>1, <2>1 DEF CallInv, WaitOk
<1>2. CASE /\ call[c].at # "slots" /\ r.at = "slots" /\ r.acct \in Accounts
           /\ waiting' = [waiting EXCEPT ![r.acct] = (IF waiting[r.acct] = None THEN 0 ELSE waiting[r.acct]) + 1]
  <2> DEFINE b == r.acct
  <2>1. b \in Accounts /\ waiting[b] \in Int \cup {None}
    BY <1>0, <1>2
  <2>2. waiting' \in [Accounts -> Int \cup {None}]
    BY <1>0, <1>2, <2>1
  <2>3. ASSUME NEW a \in Accounts
        PROVE  /\ IsFiniteSet(Queueing(a)')
               /\ epoch = 0 => IF waiting'[a] = None THEN Queueing(a)' = {} ELSE waiting'[a] = Cardinality(Queueing(a)')
    <3>1. IsFiniteSet(Queueing(a)) /\ Cardinality(Queueing(a)) \in Nat
          /\ (epoch = 0 => IF waiting[a] = None THEN Queueing(a) = {} ELSE waiting[a] = Cardinality(Queueing(a)))
      BY FS_CardinalityType DEF CallInv, WaitOk
    <3>2. CASE a # b
      <4>1. Queueing(a)' = Queueing(a) /\ waiting'[a] = waiting[a]
        BY <1>0, <1>2, <3>2 DEF Queueing
      <4> QED BY <3>1, <4>1
    <3>3. CASE a = b
      <4>1. Queueing(a)' = Queueing(a) \cup {c} /\ c \notin Queueing(a)
        BY <1>0, <1>2, <3>3 DEF Queueing
      <4>2. IsFiniteSet(Queueing(a)') /\ Cardinality(Queueing(a)') = Cardinality(Queueing(a)) + 1
        BY <3>1, <4>1, FS_AddElement
      <4>3. waiting'[a] = (IF waiting[a] = None THEN 0 ELSE waiting[a]) + 1
        BY <1>0, <1>2, <3>3
      <4>4. waiting'[a] \in Int /\ waiting'[a] # None
        BY <2>1, <3>3, <4>3, TransportAssumption
      <4>5. epoch = 0 => (IF waiting[a] = None THEN 0 ELSE waiting[a]) = Cardinality(Queueing(a))
        BY <3>1, FS_EmptySet
      <4> QED BY <4>2, <4>3, <4>4, <4>5
    <3> QED BY <3>2, <3>3
  <2> QED BY <2>2, <2>3 DEF WaitOk
<1>3. CASE call[c].at = "slots" /\ r.at # "slots" /\ waiting' = Unqueued(c)
  <2> DEFINE b == call[c].acct
  <2>1. b \in Accounts /\ waiting[b] \in Int \cup {None}
    BY <1>0, <1>3 DEF CallInv, RecOk, GateOk, Bounded
  <2>2. waiting' = [waiting EXCEPT ![b] = IF waiting[b] = None THEN None ELSE waiting[b] - 1]
    BY <1>3 DEF Unqueued
  <2>3. waiting' \in [Accounts -> Int \cup {None}]
    BY <1>0, <2>1, <2>2
  <2>4. ASSUME NEW a \in Accounts
        PROVE  /\ IsFiniteSet(Queueing(a)')
               /\ epoch = 0 => IF waiting'[a] = None THEN Queueing(a)' = {} ELSE waiting'[a] = Cardinality(Queueing(a)')
    <3>1. IsFiniteSet(Queueing(a)) /\ Cardinality(Queueing(a)) \in Nat
          /\ (epoch = 0 => IF waiting[a] = None THEN Queueing(a) = {} ELSE waiting[a] = Cardinality(Queueing(a)))
      BY FS_CardinalityType DEF CallInv, WaitOk
    <3>2. CASE a # b
      <4>1. Queueing(a)' = Queueing(a) /\ waiting'[a] = waiting[a]
        BY <1>0, <1>3, <2>2, <3>2 DEF Queueing
      <4> QED BY <3>1, <4>1
    <3>3. CASE a = b
      <4>1. Queueing(a)' = Queueing(a) \ {c} /\ c \in Queueing(a)
        BY <1>0, <1>3, <3>3 DEF Queueing
      <4>2. IsFiniteSet(Queueing(a)') /\ Cardinality(Queueing(a)') = Cardinality(Queueing(a)) - 1
        BY <3>1, <4>1, FS_RemoveElement
      <4>3. waiting'[a] = IF waiting[a] = None THEN None ELSE waiting[a] - 1
        BY <1>0, <2>1, <2>2, <3>3
      <4>4. epoch = 0 => waiting[a] # None /\ waiting[a] = Cardinality(Queueing(a))
        BY <3>1, <4>1
      <4>5. epoch = 0 => waiting'[a] = Cardinality(Queueing(a)') /\ waiting'[a] # None
        BY <3>1, <4>2, <4>3, <4>4, TransportAssumption
      <4> QED BY <4>2, <4>5
    <3> QED BY <3>2, <3>3
  <2> QED BY <2>3, <2>4 DEF WaitOk
<1> QED BY <1>1, <1>2, <1>3

\* A generation that has its permits is routed.
LEMMA RoutedShape ==
    ASSUME CallInv, NEW c \in Callers, NEW a \in Accounts, NEW once \in BOOLEAN, Routed(c, a, once)
    PROVE  \E r \in CallRecs :
              /\ call' = [call EXCEPT ![c] = r]
              /\ r.at = "sending" /\ r.acct = a /\ r.once = once /\ r.need = <<>>
              /\ OnceOk(r) /\ RouteOk(r)
<1>1. PICK pxs \in ProxyOrders(cool), eps \in AttemptOrders(a) :
        call' = [call EXCEPT ![c] =
            [Idle EXCEPT !.at = "sending", !.acct = a, !.once = once,
                         !.eps = IF once THEN <<Direct>> ELSE eps,
                         !.pxs = IF once THEN <<Head(pxs)>> ELSE pxs]]
  BY DEF Routed
<1>2. pxs \in Seq(Proxied) /\ ToSet(pxs) = Pxs /\ pxs # <<>> /\ Head(pxs) \in Proxied
  BY ProxyOrdersAre DEF CallInv, GateTyped
<1>3. eps \in Seq(Rotated) /\ ToSet(eps) = Rotation /\ eps # <<>>
  BY AttemptOrdersAre
<1> DEFINE e == IF once THEN <<Direct>> ELSE eps
           p == IF once THEN <<Head(pxs)>> ELSE pxs
           r == [Idle EXCEPT !.at = "sending", !.acct = a, !.once = once, !.eps = e, !.pxs = p]
<1>4. /\ e \in Seq(Rotated) /\ e # <<>> /\ p \in Seq(Proxied) /\ p # <<>>
      /\ once => Len(e) = 1
      /\ ~once => ToSet(e) = Rotation /\ ToSet(p) = Pxs
  <2>1. CASE once
    <3>1. Direct \in Rotated
      BY DEF Rotated
    <3>2. e = <<Direct>> /\ p = <<Head(pxs)>>
      BY <2>1
    <3> QED BY <1>2, <2>1, <3>1, <3>2
  <2>2. CASE ~once
    BY <1>2, <1>3, <2>2
  <2> QED BY <2>1, <2>2
<1>5. call' = [call EXCEPT ![c] = r]
  BY <1>1
<1> HIDE DEF e, p
<1>6. "sending" \in CallPlaces
  BY CallPlacesAre
<1>7. /\ r \in CallRecs /\ r.at = "sending" /\ r.acct = a /\ r.once = once /\ r.need = <<>> /\ r.eps = e /\ r.pxs = p
      /\ r.tries = 0 /\ r.tried = {}
  BY <1>4, <1>6, IdleShape DEF CallRecs
<1> HIDE DEF r
<1>8. OnceOk(r)
  BY <1>4, <1>7, NoneIn DEF OnceOk
<1>9. RouteOk(r)
  <2>1. {t[1] : t \in r.tried} = {}
    BY <1>7
  <2> QED BY <1>4, <1>7, <2>1 DEF RouteOk
<1> QED BY <1>5, <1>7, <1>8, <1>9

\* The look-up leaves or replaces a gate, and nobody loses a semaphore by it.
LEMMA GateMoves ==
    ASSUME CallInv, NEW k \in Keys, NEW n \in Nat
    PROVE  /\ Gate(k, n) \in [limit: Nat, nth: Nat] /\ Gate(k, n).limit = n
           /\ n # 0 => Gate(k, n).nth # 0
           /\ Gate(k, n) = gates[k] \/ Gate(k, n).nth = gates[k].nth + 1
           /\ changes = 0 /\ n = Setting(k) =>
                 /\ n # 0 => Gate(k, n).nth = 1
                 /\ n = 0 => Gate(k, n) = gates[k]
<1>1. gates[k] \in [limit: Nat, nth: Nat] /\ GatesTyped
  BY DEF CallInv, GateTyped, GatesTyped
<1> QED BY <1>1 DEF Gate, GatesTyped

LEMMA GatesGrow ==
    ASSUME CallInv, NEW x \in CallRecs, NEW y \in SUBSET Semaphores, RecOk(x, y),
           gates' \in [Keys -> [limit: Nat, nth: Nat]],
           \A k \in Keys : gates'[k] = gates[k] \/ gates'[k].nth = gates[k].nth + 1,
           UNCHANGED <<limits, epoch, strategy, chain, changes>>
    PROVE  (RecOk(x, y))'
<1>1. ASSUME NEW s \in y \cup ToSet(x.need) PROVE s \in Semaphores
  <2>1. x.need \in Seq(Semaphores)
    BY DEF CallRecs
  <2> QED BY <2>1 DEF ToSet
<1>2. ASSUME NEW s \in Semaphores, Made(s) PROVE Made(s)'
  <2>1. s.key \in Keys /\ s.nth \in Nat /\ gates \in [Keys -> [limit: Nat, nth: Nat]]
    BY DEF Semaphores, CallInv, GateTyped, GatesTyped
  <2>2. gates[s.key].nth \in Nat /\ gates'[s.key].nth \in Nat
    BY <2>1
  <2> QED BY <1>2, <2>1, <2>2 DEF Made
<1>3. (GateOk(x, y))'
  BY <1>1, <1>2 DEF RecOk, GateOk, Required, First, Setting
<1> QED BY <1>3 DEF RecOk, OnceOk, RouteOk, Pxs, Rotation

\* The queue of a look-up: one semaphore of each gate, the required ones under settings that
\* never changed.
LEMMA QueueIs ==
    ASSUME CallInv, NEW k \in Keys, NEW g \in [limit: Nat, nth: Nat], g.limit # 0 => g.nth # 0
    PROVE  /\ Queue(k, g) \in Seq(Semaphores) /\ Len(Queue(k, g)) <= 1
           /\ g.limit # 0 => Len(Queue(k, g)) = 1
           /\ \A s \in ToSet(Queue(k, g)) : s.key = k /\ s.epoch = epoch /\ s.limit = g.limit /\ s.nth = g.nth
           /\ ToSet(Queue(k, g)) = IF g.limit = 0 THEN {}
                                   ELSE {[key |-> k, limit |-> g.limit, nth |-> g.nth, epoch |-> epoch]}
<1> DEFINE s == [key |-> k, limit |-> g.limit, nth |-> g.nth, epoch |-> epoch]
<1>1. epoch \in Nat
  BY DEF CallInv, GateTyped
<1>2. CASE g.limit = 0
  <2>1. Queue(k, g) = <<>>
    BY <1>2 DEF Queue
  <2> QED BY <1>2, <2>1, NoneIn
<1>3. CASE g.limit # 0
  <2>1. Queue(k, g) = <<s>>
    BY <1>3 DEF Queue
  <2>2. s \in Semaphores /\ s.key = k /\ s.epoch = epoch /\ s.limit = g.limit /\ s.nth = g.nth
    BY <1>1, <1>3 DEF Semaphores
  <2> HIDE DEF s
  <2>3. <<s>> \in Seq(Semaphores) /\ Len(<<s>>) = 1 /\ ToSet(<<s>>) = {s}
    BY <2>2 DEF ToSet
  <2>4. Len(Queue(k, g)) = 1 /\ ToSet(Queue(k, g)) = {s}
    BY <2>1, <2>3
  <2> QED BY <1>3, <2>1, <2>2, <2>3, <2>4 DEF s
<1> QED BY <1>2, <1>3

\* Two such queues in a row.
LEMMA QueuesJoin ==
    ASSUME NEW p \in Seq(Semaphores), NEW q \in Seq(Semaphores), Len(p) <= 1, Len(q) <= 1, Len(p) = 1 \/ Len(q) = 1,
           ToSet(p) \cap ToSet(q) = {}
    PROVE  /\ p \o q \in Seq(Semaphores) /\ p \o q # <<>> /\ Len(p \o q) <= 2
           /\ ToSet(p \o q) = ToSet(p) \cup ToSet(q)
           /\ Head(p \o q) \notin ToSet(Tail(p \o q))
<1> DEFINE n == p \o q
<1>1. n \in Seq(Semaphores) /\ Len(n) = Len(p) + Len(q) /\ Len(p) \in Nat /\ Len(q) \in Nat
  OBVIOUS
<1>2. \A i \in 1..Len(n) : n[i] = IF i <= Len(p) THEN p[i] ELSE q[i - Len(p)]
  OBVIOUS
<1>3. /\ ToSet(p) = {p[i] : i \in 1..Len(p)} /\ ToSet(q) = {q[i] : i \in 1..Len(q)}
      /\ ToSet(n) = {n[i] : i \in 1..Len(n)}
  BY <1>1 DEF ToSet
<1>4. n # <<>> /\ Len(n) <= 2
  BY <1>1
<1> HIDE DEF n
<1>5. ToSet(n) = ToSet(p) \cup ToSet(q)
  <2>1. \A x \in ToSet(n) : x \in ToSet(p) \cup ToSet(q)
    BY <1>1, <1>2, <1>3
  <2>2. \A i \in 1..Len(p) : i \in 1..Len(n) /\ n[i] = p[i]
    BY <1>1, <1>2
  <2>3. \A i \in 1..Len(q) : i + Len(p) \in 1..Len(n) /\ n[i + Len(p)] = q[i]
    BY <1>1, <1>2
  <2> QED BY <1>3, <2>1, <2>2, <2>3
<1>6. Head(n) \notin ToSet(Tail(n))
  <2>1. CASE Len(n) = 1
    <3>1. Tail(n) = <<>>
      BY <1>1, <1>4, <2>1, HeadTailSet
    <3> QED BY <3>1, NoneIn
  <2>2. CASE Len(n) # 1
    <3>1. Len(n) = 2 /\ Len(p) = 1 /\ Len(q) = 1
      BY <1>1, <1>4, <2>2
    <3>2. n[1] = p[1] /\ n[2] = q[1] /\ p[1] \in ToSet(p) /\ q[1] \in ToSet(q)
      BY <1>2, <1>3, <3>1
    <3>3. Head(n) = n[1] /\ Tail(n) \in Seq(Semaphores) /\ Len(Tail(n)) = 1 /\ Tail(n)[1] = n[2]
      BY <1>1, <1>4, <3>1
    <3>4. ToSet(Tail(n)) = {n[2]}
      <4> DEFINE z == Tail(n)
      <4>1. z \in Seq(Semaphores) /\ Len(z) = 1 /\ z[1] = n[2]
        BY <3>3
      <4> HIDE DEF z
      <4>2. ToSet(z) = {z[i] : i \in 1..1}
        BY <4>1 DEF ToSet
      <4>3. ToSet(z) = {n[2]}
        BY <4>1, <4>2
      <4> QED BY <4>3 DEF z
    <3> QED BY <3>2, <3>3, <3>4
  <2> QED BY <2>1, <2>2
<1> QED BY <1>1, <1>4, <1>5, <1>6 DEF n

LEMMA GenerateKeeps ==
    ASSUME CallInv, NEW c \in Callers, NEW a \in Accounts, NEW once \in BOOLEAN, Generate(c, a, once)
    PROVE  CallInv' /\ call[c].at = "idle" /\ UNCHANGED held
           /\ call'[c].at # "idle" /\ call'[c].once = once
<1>0. /\ call[c].at = "idle" /\ held[c] = {} /\ held[c] \in SUBSET Semaphores
      /\ UNCHANGED <<held, limits, unreset, gates, epoch, strategy, chain, changes>>
      /\ call \in [Callers -> CallRecs] /\ held' = [held EXCEPT ![c] = held[c]]
  BY DEF Generate, routeVars, gateVars, CallInv, GateTyped, RecOk, GateOk
<1>1. CASE Unlimited
  <2>1. Routed(c, a, once) /\ UNCHANGED waiting
    BY <1>1 DEF Generate, gateVars
  <2>2. PICK r \in CallRecs :
              /\ call' = [call EXCEPT ![c] = r]
              /\ r.at = "sending" /\ r.acct = a /\ r.once = once /\ r.need = <<>>
              /\ OnceOk(r) /\ RouteOk(r)
    BY <2>1, RoutedShape
  <2>3. Required(a) = {}
    BY <1>1, TransportAssumption DEF Required, Unlimited, Setting
  <2>4. GateOk(r, held[c])
    BY <1>0, <2>2, <2>3, NoneIn DEF GateOk, Bounded
  <2>5. HoldersOk'
    BY <1>0, HoldersStay
  <2>6. WaitOk' /\ waiting' \in [Accounts -> Int \cup {None}]
    BY <1>0, <2>1, <2>2, WaitKept
  <2>7. CallInv'
    BY <1>0, <2>2, <2>4, <2>5, <2>6, CallMoves DEF RecOk
  <2> QED BY <1>0, <2>2, <2>7
<1>2. CASE ~Unlimited
  <2> DEFINE r == [Idle EXCEPT !.at = "limits", !.acct = a, !.once = once, !.limits = limits]
  <2>1. UNCHANGED waiting /\ call' = [call EXCEPT ![c] = r]
    BY <1>2 DEF Generate, gateVars
  <2>2. "limits" \in CallPlaces /\ limits \in [global: Nat, account: Nat]
    BY CallPlacesAre DEF CallInv, GateTyped
  <2>3. /\ r \in CallRecs /\ r.at = "limits" /\ r.acct = a /\ r.once = once /\ r.limits = limits /\ r.need = <<>>
        /\ r.tries = 0 /\ r.tried = {}
    BY <2>2, IdleShape DEF CallRecs
  <2> HIDE DEF r
  <2>4. GateOk(r, held[c])
    BY <1>0, <1>2, <2>2, <2>3, NoneIn DEF GateOk, Bounded, Unlimited
  <2>5. OnceOk(r) /\ RouteOk(r)
    BY <2>3, NoneIn DEF OnceOk, RouteOk
  <2>6. HoldersOk'
    BY <1>0, HoldersStay
  <2>7. WaitOk' /\ waiting' \in [Accounts -> Int \cup {None}]
    BY <1>0, <2>1, <2>3, WaitKept
  <2>8. CallInv'
    BY <1>0, <2>1, <2>3, <2>4, <2>5, <2>6, <2>7, CallMoves DEF RecOk
  <2> QED BY <1>0, <2>1, <2>3, <2>8
<1> QED BY <1>1, <1>2

LEMMA LookUpKeeps ==
    ASSUME CallInv, NEW c \in Callers, LookUp(c)
    PROVE  /\ CallInv' /\ UNCHANGED held
           /\ call'[c].at = "slots" /\ call[c].at = "limits" /\ call'[c].once = call[c].once
<1> DEFINE k == call[c]
           a == k.acct
           g == Gate(Global, k.limits.global)
           b == Gate(a, k.limits.account)
           p == Queue(Global, g)
           q == Queue(a, b)
           n == p \o q
           r == [k EXCEPT !.at = "slots", !.limits = None, !.need = n]
<1>0. /\ k.at = "limits" /\ gates' = [gates EXCEPT ![Global] = g, ![a] = b]
      /\ waiting' = [waiting EXCEPT ![a] = (IF waiting[a] = None THEN 0 ELSE waiting[a]) + 1]
      /\ call' = [call EXCEPT ![c] = r]
      /\ UNCHANGED <<limits, unreset, epoch, held, strategy, chain, changes>>
  BY DEF LookUp, routeVars
<1>1. /\ k \in CallRecs /\ call \in [Callers -> CallRecs] /\ held \in [Callers -> SUBSET Semaphores]
      /\ gates \in [Keys -> [limit: Nat, nth: Nat]] /\ epoch \in Nat /\ (changes = 0 => epoch = 0)
      /\ RecOk(k, held[c]) /\ GatesTyped
  BY DEF CallInv, GateTyped, GatesTyped
<1>2. /\ a \in Accounts /\ k.limits \in [global: Nat, account: Nat] /\ held[c] = {}
      /\ ~(k.limits.global = 0 /\ k.limits.account = 0) /\ (changes = 0 => k.limits = limits)
      /\ k.tries = 0 /\ k.tried = {} /\ k.once \in BOOLEAN
  BY <1>0, <1>1 DEF RecOk, GateOk, OnceOk, CallRecs
<1>3. a \in Keys /\ Global \in Keys /\ a # Global /\ k.limits.global \in Nat /\ k.limits.account \in Nat
  BY <1>2, TransportAssumption DEF Keys
<1>4. /\ g \in [limit: Nat, nth: Nat] /\ g.limit = k.limits.global /\ (g.limit # 0 => g.nth # 0)
      /\ g = gates[Global] \/ g.nth = gates[Global].nth + 1
      /\ changes = 0 => /\ g.limit = Setting(Global)
                        /\ g.limit # 0 => g.nth = 1
                        /\ g.limit = 0 => g = gates[Global]
  BY <1>2, <1>3, GateMoves DEF Setting
<1>5. /\ b \in [limit: Nat, nth: Nat] /\ b.limit = k.limits.account /\ (b.limit # 0 => b.nth # 0)
      /\ b = gates[a] \/ b.nth = gates[a].nth + 1
      /\ changes = 0 => /\ b.limit = Setting(a)
                        /\ b.limit # 0 => b.nth = 1
                        /\ b.limit = 0 => b = gates[a]
  <2> DEFINE m == k.limits.account
  <2>1. m \in Nat /\ (changes = 0 => m = Setting(a))
    BY <1>2, <1>3 DEF Setting
  <2> HIDE DEF m
  <2>2. \A x \in Keys : /\ Gate(x, m) \in [limit: Nat, nth: Nat] /\ Gate(x, m).limit = m
                        /\ m # 0 => Gate(x, m).nth # 0
                        /\ Gate(x, m) = gates[x] \/ Gate(x, m).nth = gates[x].nth + 1
                        /\ changes = 0 /\ m = Setting(x) =>
                              /\ m # 0 => Gate(x, m).nth = 1
                              /\ m = 0 => Gate(x, m) = gates[x]
    BY <2>1, GateMoves
  <2>3. b = Gate(a, m) /\ m = k.limits.account
    BY DEF m
  <2> HIDE DEF b
  <2> QED BY <1>3, <2>1, <2>2, <2>3
<1> HIDE DEF g, b
<1>6. \A x \in Keys : gates'[x] = IF x = a THEN b ELSE IF x = Global THEN g ELSE gates[x]
  BY <1>0, <1>1, <1>3
<1>7. gates' \in [Keys -> [limit: Nat, nth: Nat]]
  BY <1>0, <1>1, <1>4, <1>5
<1>8. \A x \in Keys : gates'[x] = gates[x] \/ gates'[x].nth = gates[x].nth + 1
  BY <1>4, <1>5, <1>6
<1>9. GatesTyped'
  <2>1. ASSUME NEW x \in Keys
        PROVE  /\ gates'[x].nth = 0 => gates'[x].limit = 0
               /\ changes = 0 /\ gates'[x].limit # 0 => gates'[x].limit = Setting(x) /\ gates'[x].nth = 1
               /\ changes = 0 /\ gates'[x].limit = 0 => gates'[x].nth = 0
    BY <1>1, <1>3, <1>4, <1>5, <1>6 DEF GatesTyped
  <2>2. UNCHANGED changes /\ \A x \in Keys : Setting(x)' = Setting(x)
    BY <1>0 DEF Setting
  <2> QED BY <1>7, <2>1, <2>2 DEF GatesTyped
<1>10. /\ p \in Seq(Semaphores) /\ Len(p) <= 1 /\ (g.limit # 0 => Len(p) = 1)
       /\ \A s \in ToSet(p) : s.key = Global /\ s.epoch = epoch /\ s.limit = g.limit /\ s.nth = g.nth
       /\ ToSet(p) = IF g.limit = 0 THEN {}
                     ELSE {[key |-> Global, limit |-> g.limit, nth |-> g.nth, epoch |-> epoch]}
  BY <1>3, <1>4, QueueIs
<1>11. /\ q \in Seq(Semaphores) /\ Len(q) <= 1 /\ (b.limit # 0 => Len(q) = 1)
       /\ \A s \in ToSet(q) : s.key = a /\ s.epoch = epoch /\ s.limit = b.limit /\ s.nth = b.nth
       /\ ToSet(q) = IF b.limit = 0 THEN {}
                     ELSE {[key |-> a, limit |-> b.limit, nth |-> b.nth, epoch |-> epoch]}
  BY <1>3, <1>5, QueueIs
<1> HIDE DEF p, q
<1>12. /\ n \in Seq(Semaphores) /\ n # <<>> /\ Len(n) <= 2 /\ ToSet(n) = ToSet(p) \cup ToSet(q)
       /\ Head(n) \notin ToSet(Tail(n))
  <2>1. ToSet(p) \cap ToSet(q) = {}
    BY <1>3, <1>10, <1>11
  <2>2. Len(p) = 1 \/ Len(q) = 1
    BY <1>2, <1>4, <1>5, <1>10, <1>11
  <2> QED BY <1>10, <1>11, <2>1, <2>2, QueuesJoin
<1> HIDE DEF n
<1>13. "slots" \in CallPlaces
  BY CallPlacesAre
<1>14. /\ r \in CallRecs /\ r.at = "slots" /\ r.acct = a /\ r.once = k.once /\ r.need = n
       /\ r.tries = 0 /\ r.tried = {}
  BY <1>1, <1>2, <1>12, <1>13 DEF CallRecs
<1> HIDE DEF r
<1>15. PICK u \in CallRecs : u = r
  BY <1>14
<1>a. /\ u.at = "slots" /\ u.acct = a /\ u.acct \in Accounts /\ u.once = k.once /\ u.need = n
      /\ u.tries = 0 /\ u.tried = {}
      /\ \A o \in Callers : call'[o] = IF o = c THEN u ELSE call[o]
  BY <1>0, <1>1, <1>2, <1>14, <1>15
<1>16. (GateOk(u, {}))'
  <2>1. ASSUME NEW s \in ToSet(n) PROVE s.epoch <= epoch /\ Made(s)'
    <3>1. \/ s.key = Global /\ s.epoch = epoch /\ s.limit = g.limit /\ s.nth = g.nth
          \/ s.key = a /\ s.epoch = epoch /\ s.limit = b.limit /\ s.nth = b.nth
      BY <1>10, <1>11, <1>12
    <3>2. gates'[Global] = g /\ gates'[a] = b
      BY <1>3, <1>6
    <3>3. s.epoch = epoch /\ s.nth = gates'[s.key].nth /\ s.limit = gates'[s.key].limit /\ s.nth \in Nat
      BY <1>4, <1>5, <3>1, <3>2
    <3> QED BY <1>1, <3>3 DEF Made
  <2>2. ASSUME changes = 0 PROVE Required(a) \subseteq ToSet(n)
    <3>1. ASSUME NEW x \in {Global, a}, Setting(x) # 0 PROVE First(x) \in ToSet(n)
      <4>1. CASE x = Global
        <5>1. g.limit = Setting(Global) /\ g.nth = 1 /\ g.limit # 0 /\ epoch = 0
          BY <1>1, <1>4, <2>2, <3>1, <4>1
        <5> QED BY <1>10, <1>12, <4>1, <5>1 DEF First
      <4>2. CASE x = a
        <5>1. b.limit = Setting(a) /\ b.nth = 1 /\ b.limit # 0 /\ epoch = 0
          BY <1>1, <1>5, <2>2, <3>1, <4>2
        <5> QED BY <1>11, <1>12, <4>2, <5>1 DEF First
      <4> QED BY <3>1, <4>1, <4>2
    <3> QED BY <3>1 DEF Required
  <2>3. \A x \in Accounts : Required(x)' = Required(x)
    BY <1>0 DEF Required, First, Setting
  <2>4. \A s \in ToSet(u.need) : (s.epoch <= epoch /\ Made(s))'
    BY <1>0, <1>a, <2>1
  <2>5. (changes = 0)' => Required(u.acct)' \subseteq ToSet(u.need)
    BY <1>0, <1>a, <2>2, <2>3
  <2> QED BY <1>12, <1>a, <2>4, <2>5 DEF GateOk, Bounded
<1>17. (OnceOk(u))' /\ (RouteOk(u))'
  BY <1>a, NoneIn DEF OnceOk, RouteOk
<1>18. \A o \in Callers : (RecOk(call[o], held[o]))'
  <2>1. (RecOk(u, {}))'
    BY <1>16, <1>17 DEF RecOk
  <2>2. ASSUME NEW o \in Callers, o # c PROVE (RecOk(call[o], held[o]))'
    <3>1. PICK x \in CallRecs, y \in SUBSET Semaphores : x = call[o] /\ y = held[o] /\ RecOk(x, y)
      BY <1>1 DEF CallInv
    <3>2. (RecOk(x, y))'
      BY <1>0, <1>7, <1>8, <3>1, GatesGrow
    <3>3. call'[o] = x /\ held'[o] = y
      BY <1>0, <1>a, <2>2, <3>1
    <3> QED BY <3>2, <3>3
  <2>3. call'[c] = u /\ held'[c] = {}
    BY <1>0, <1>2, <1>a
  <2>4. (RecOk(call[c], held[c]))'
    BY <2>1, <2>3
  <2> QED BY <2>2, <2>4
<1>19. HoldersOk'
  BY <1>0, HoldersStay
<1>20. WaitOk' /\ waiting' \in [Accounts -> Int \cup {None}]
  BY <1>0, <1>2, <1>14, WaitKept
<1>21. GateTyped'
  <2>1. call' \in [Callers -> CallRecs]
    BY <1>0, <1>1, <1>14
  <2> QED BY <1>0, <1>9, <1>20, <2>1 DEF CallInv, GateTyped
<1>22. CallInv'
  BY <1>18, <1>19, <1>20, <1>21 DEF CallInv
<1> QED BY <1>0, <1>a, <1>22

LEMMA HangupKeeps ==
    ASSUME CallInv, NEW c \in Callers, Hangup(c)
    PROVE  CallInv' /\ call'[c] = Idle /\ held'[c] = {}
<1>0. /\ UNCHANGED <<limits, unreset, gates, epoch, strategy, chain, changes>>
      /\ call' = [call EXCEPT ![c] = Idle] /\ held' = [held EXCEPT ![c] = {}]
      /\ waiting' = IF call[c].at = "slots" THEN Unqueued(c) ELSE waiting
      /\ {} \in SUBSET Semaphores /\ call \in [Callers -> CallRecs] /\ held \in [Callers -> SUBSET Semaphores]
  BY DEF Hangup, routeVars, CallInv, GateTyped
<1>1. RecOk(Idle, {})
  BY IdleShape, NoneIn DEF RecOk, GateOk, OnceOk, RouteOk, Bounded
<1>2. HoldersOk'
  BY <1>0, HoldersKept
<1>3. WaitOk' /\ waiting' \in [Accounts -> Int \cup {None}]
  BY <1>0, IdleShape, WaitKept
<1>4. CallInv'
  BY <1>0, <1>1, <1>2, <1>3, IdleShape, CallMoves
<1> QED BY <1>0, <1>4

LEMMA TakeSlotKeeps ==
    ASSUME CallInv, NEW c \in Callers, TakeSlot(c)
    PROVE  CallInv' /\ call'[c].at # "idle" /\ call[c].at = "slots" /\ call'[c].once = call[c].once
<1> DEFINE k == call[c]
           s == Head(k.need)
           h == held[c] \cup {s}
<1>0. /\ UNCHANGED <<limits, unreset, gates, epoch, strategy, chain, changes>>
      /\ k.at = "slots" /\ Free(s) /\ held' = [held EXCEPT ![c] = h]
      /\ call \in [Callers -> CallRecs] /\ k \in CallRecs /\ held[c] \in SUBSET Semaphores
  BY DEF TakeSlot, routeVars, CallInv, GateTyped
<1>1. k.need \in Seq(Semaphores) /\ k.once \in BOOLEAN
  BY <1>0 DEF CallRecs
<1>2. /\ GateOk(k, held[c]) /\ OnceOk(k) /\ RouteOk(k)
      /\ k.need # <<>> /\ k.acct \in Accounts
  BY <1>0 DEF CallInv, RecOk, GateOk, Bounded
<1>3. /\ s \in Semaphores /\ s \in ToSet(k.need) /\ Tail(k.need) \in Seq(Semaphores)
      /\ ToSet(k.need) = {s} \cup ToSet(Tail(k.need))
      /\ Len(k.need) = 1 => Tail(k.need) = <<>>
  BY <1>1, <1>2, HeadTailSet
<1>4. h \in SUBSET Semaphores /\ h \cup ToSet(Tail(k.need)) = held[c] \cup ToSet(k.need)
  BY <1>0, <1>3
<1>5. HoldersOk'
  BY <1>0, <1>3, <1>4, HoldersKept
<1>6. CASE Len(k.need) > 1
  <2> DEFINE n == Tail(k.need)
             r == [k EXCEPT !.need = n]
  <2>1. call' = [call EXCEPT ![c] = r] /\ UNCHANGED waiting
    BY <1>6 DEF TakeSlot
  <2>2. n \in Seq(Semaphores) /\ n # <<>> /\ Len(n) <= 2 /\ ToSet(Tail(n)) = {}
    <3>1. Len(k.need) <= 2
      BY <1>0, <1>2 DEF GateOk
    <3>2. Tail(k.need) \in Seq(Semaphores)
      BY <1>3
    <3> QED BY <1>1, <1>6, <3>1, <3>2, TailOfTwo
  <2>a. s \notin ToSet(n) /\ ToSet(n) \cap held[c] = {} /\ ToSet(n) \subseteq ToSet(k.need)
    BY <1>0, <1>2, <1>3 DEF GateOk
  <2>b. h \cup ToSet(n) = held[c] \cup ToSet(k.need)
    BY <1>4
  <2> HIDE DEF n
  <2>3. /\ r \in CallRecs /\ r.at = "slots" /\ r.acct = k.acct /\ r.once = k.once /\ r.need = n
        /\ r.tries = k.tries /\ r.tried = k.tried
    BY <1>0, <2>2 DEF CallRecs
  <2> HIDE DEF r
  <2>c. \A x \in h \cup ToSet(n) : x.epoch <= epoch /\ Made(x)
    BY <1>2, <2>b DEF GateOk
  <2>d. changes = 0 => Required(k.acct) \subseteq h \cup ToSet(n)
    BY <1>0, <1>2, <2>b DEF GateOk, Bounded
  <2>e. ToSet(n) \cap h = {}
    BY <2>a
  <2> HIDE DEF h
  <2>4. GateOk(r, h)
    <3>1. Head(n) \notin ToSet(Tail(n))
      BY <2>2
    <3> QED BY <1>2, <2>2, <2>3, <2>c, <2>d, <2>e, <3>1 DEF GateOk
  <2>5. OnceOk(r) /\ RouteOk(r)
    BY <1>0, <1>2, <2>3 DEF OnceOk, RouteOk
  <2>6. WaitOk' /\ waiting' \in [Accounts -> Int \cup {None}]
    BY <1>0, <2>1, <2>3, WaitKept
  <2>7. CallInv'
    BY <1>0, <1>4, <1>5, <2>1, <2>3, <2>4, <2>5, <2>6, CallMoves DEF RecOk
  <2> QED BY <1>0, <2>1, <2>3, <2>7
<1>7. CASE ~(Len(k.need) > 1)
  <2>1. Routed(c, k.acct, k.once) /\ waiting' = Unqueued(c)
    BY <1>7 DEF TakeSlot
  <2>2. PICK r \in CallRecs :
              /\ call' = [call EXCEPT ![c] = r]
              /\ r.at = "sending" /\ r.acct = k.acct /\ r.once = k.once /\ r.need = <<>>
              /\ OnceOk(r) /\ RouteOk(r)
    BY <1>1, <1>2, <2>1, RoutedShape
  <2>3. Tail(k.need) = <<>>
    BY <1>1, <1>2, <1>3, <1>7
  <2>4. h = held[c] \cup ToSet(k.need)
    BY <1>4, <2>3, NoneIn
  <2> HIDE DEF h
  <2>5. GateOk(r, h)
    BY <1>0, <1>2, <2>2, <2>4, NoneIn DEF GateOk, Bounded
  <2>6. WaitOk' /\ waiting' \in [Accounts -> Int \cup {None}]
    BY <1>0, <2>1, <2>2, WaitKept
  <2>7. CallInv'
    BY <1>0, <1>4, <1>5, <2>2, <2>5, <2>6, CallMoves DEF RecOk
  <2> QED BY <1>0, <2>2, <2>7
<1> QED BY <1>6, <1>7

LEMMA SlotTimeoutKeeps ==
    ASSUME CallInv, NEW c \in Callers, SlotTimeout(c)
    PROVE  CallInv' /\ call[c].at = "slots" /\ call'[c].at = "busy"
<1> DEFINE r == [Idle EXCEPT !.at = "busy"]
<1>0. /\ UNCHANGED <<limits, unreset, gates, epoch, strategy, chain, changes>>
      /\ call' = [call EXCEPT ![c] = r] /\ held' = [held EXCEPT ![c] = {}]
      /\ waiting' = Unqueued(c) /\ call[c].at = "slots"
      /\ {} \in SUBSET Semaphores /\ call \in [Callers -> CallRecs]
  BY DEF SlotTimeout, routeVars, CallInv, GateTyped
<1>1. "busy" \in CallPlaces
  BY CallPlacesAre
<1>2. r \in CallRecs /\ r.at = "busy" /\ r.once = FALSE /\ r.need = <<>> /\ r.tried = {} /\ r.tries = 0
  BY <1>1, IdleShape DEF CallRecs
<1> HIDE DEF r
<1>3. RecOk(r, {})
  BY <1>2, NoneIn DEF RecOk, GateOk, OnceOk, RouteOk, Bounded
<1>4. HoldersOk'
  BY <1>0, HoldersKept
<1>5. WaitOk' /\ waiting' \in [Accounts -> Int \cup {None}]
  BY <1>0, <1>2, WaitKept
<1>6. CallInv'
  BY <1>0, <1>2, <1>3, <1>4, <1>5, CallMoves
<1> QED BY <1>0, <1>2, <1>6

----------------------------------------------------------------------------
(* The sends.                                                              *)

LEMMA SendingShape ==
    ASSUME CallInv, NEW c \in Callers, Sending(c)
    PROVE  /\ call[c] \in CallRecs /\ call[c].need = <<>> /\ call[c].eps # <<>> /\ call[c].pxs # <<>>
           /\ call[c].acct \in Accounts
           /\ call[c].eps \in Seq(Rotated) /\ call[c].pxs \in Seq(Proxied)
           /\ Tried(c) \in SUBSET (Rotated \X Proxied)
           /\ call[c].once => Cardinality(Tried(c)) <= 1 /\ call[c].tries = 0 /\ Tail(call[c].eps) = <<>>
<1> DEFINE k == call[c]
<1>1. k \in CallRecs /\ k.at = "sending" /\ GateOk(k, held[c]) /\ OnceOk(k) /\ RouteOk(k)
  BY DEF CallInv, GateTyped, RecOk, Sending
<1>2. k.need = <<>> /\ k.acct \in Accounts
  BY <1>1 DEF GateOk, Bounded
<1>3. k.eps \in Seq(Rotated) /\ k.pxs \in Seq(Proxied) /\ k.tried \in SUBSET (Rotated \X Proxied) /\ k.eps # <<>> /\ k.pxs # <<>>
  BY <1>1 DEF RouteOk, CallRecs
<1>4. Ep(c) \in Rotated /\ Px(c) \in Proxied
  BY <1>3, HeadTailSet DEF Ep, Px
<1>5. Tried(c) \in SUBSET (Rotated \X Proxied)
  BY <1>3, <1>4 DEF Tried
<1>6. k.once => k.tried = {} /\ k.tries = 0 /\ Len(k.eps) = 1
  BY <1>1 DEF OnceOk
<1>7. k.once => Tried(c) = {<<Ep(c), Px(c)>>}
  BY <1>6 DEF Tried
<1>8. k.once => Cardinality(Tried(c)) = 1
  BY <1>7, FS_Singleton
<1>9. k.once => Tail(k.eps) = <<>>
  BY <1>3, <1>6, HeadTailSet
<1> QED BY <1>1, <1>2, <1>3, <1>5, <1>6, <1>8, <1>9

\* What a send adds to the routes that were tried.
LEMMA TriedShape ==
    ASSUME CallInv, NEW c \in Callers, Sending(c), changes = 0, ~call[c].once
    PROVE  /\ {t[1] : t \in Tried(c)} \cup ToSet(Tail(call[c].eps)) = Rotation
           /\ {t[1] : t \in Tried(c)} \cup ToSet(call[c].eps) = Rotation
           /\ Tried(c) \subseteq Rotation \X Pxs
           /\ ToSet(call[c].pxs) \subseteq Pxs /\ ToSet(Tail(call[c].pxs)) \subseteq Pxs
           /\ ~call[c].soft =>
                /\ \A e \in Rotation \ ToSet(call[c].eps), p \in Pxs : <<e, p>> \in Tried(c)
                /\ \A p \in Pxs \ ToSet(Tail(call[c].pxs)) : <<Ep(c), p>> \in Tried(c)
                /\ \A p \in Pxs \ ToSet(call[c].pxs) : <<Ep(c), p>> \in Tried(c)
<1> DEFINE k == call[c]
<1>1. k.eps \in Seq(Rotated) /\ k.pxs \in Seq(Proxied) /\ k.eps # <<>> /\ k.pxs # <<>>
  BY SendingShape
<1>2. /\ {t[1] : t \in k.tried} \cup ToSet(k.eps) = Rotation
      /\ k.tried \subseteq Rotation \X Pxs
      /\ ToSet(k.pxs) \subseteq Pxs
      /\ ~k.soft => /\ \A e \in Rotation \ ToSet(k.eps), p \in Pxs : <<e, p>> \in k.tried
                    /\ \A p \in Pxs \ ToSet(k.pxs) : <<Head(k.eps), p>> \in k.tried
  BY DEF CallInv, RecOk, RouteOk, Sending
<1>3. /\ Ep(c) \in ToSet(k.eps) /\ ToSet(k.eps) = {Ep(c)} \cup ToSet(Tail(k.eps))
      /\ Px(c) \in ToSet(k.pxs) /\ ToSet(k.pxs) = {Px(c)} \cup ToSet(Tail(k.pxs))
  BY <1>1, HeadTailSet DEF Ep, Px
<1>4. Tried(c) = k.tried \cup {<<Ep(c), Px(c)>>} /\ Ep(c) = Head(k.eps)
  BY DEF Tried, Ep
<1>5. {t[1] : t \in Tried(c)} = {t[1] : t \in k.tried} \cup {Ep(c)}
  <2> DEFINE u == <<Ep(c), Px(c)>>
  <2>1. u[1] = Ep(c)
    OBVIOUS
  <2> HIDE DEF u
  <2> QED BY <1>4, <2>1 DEF u
<1>6. Ep(c) \in Rotation /\ Px(c) \in Pxs
  BY <1>2, <1>3
<1>7. {t[1] : t \in Tried(c)} \cup ToSet(Tail(k.eps)) = Rotation
      /\ {t[1] : t \in Tried(c)} \cup ToSet(k.eps) = Rotation
  BY <1>2, <1>3, <1>5
<1>8. Tried(c) \subseteq Rotation \X Pxs
  BY <1>2, <1>4, <1>6
<1>9. ToSet(Tail(k.pxs)) \subseteq Pxs
  BY <1>2, <1>3
<1>10. ~k.soft =>
         /\ \A e \in Rotation \ ToSet(k.eps), p \in Pxs : <<e, p>> \in Tried(c)
         /\ \A p \in Pxs \ ToSet(Tail(k.pxs)) : <<Ep(c), p>> \in Tried(c)
         /\ \A p \in Pxs \ ToSet(k.pxs) : <<Ep(c), p>> \in Tried(c)
  BY <1>2, <1>3, <1>4
<1> QED BY <1>2, <1>7, <1>8, <1>9, <1>10

\* A send leaves its generation at r.
LEMMA SendMoves ==
    ASSUME CallInv, NEW c \in Callers, Sending(c), NEW r \in CallRecs,
           call' = [call EXCEPT ![c] = r],
           r.at \notin {"idle", "limits", "slots", "busy"}, r.acct = call[c].acct, r.once = call[c].once, r.need = <<>>,
           OnceOk(r), RouteOk(r),
           UNCHANGED <<limits, unreset, gates, epoch, waiting, strategy, chain, changes>>,
           UNCHANGED held \/ (held' = [held EXCEPT ![c] = {}] /\ r.at \notin Bounded)
    PROVE  CallInv' /\ call'[c] = r
<1> DEFINE k == call[c]
<1>1. k \in CallRecs /\ k.at = "sending" /\ GateOk(k, held[c]) /\ k.need = <<>>
      /\ held[c] \in SUBSET Semaphores /\ {} \in SUBSET Semaphores
      /\ held \in [Callers -> SUBSET Semaphores] /\ call \in [Callers -> CallRecs]
  BY SendingShape DEF CallInv, GateTyped, RecOk, Sending
<1>2. waiting \in [Accounts -> Int \cup {None}]
  BY DEF CallInv, GateTyped
<1>3. WaitOk' /\ waiting' \in [Accounts -> Int \cup {None}]
  BY <1>1, WaitKept
<1>4. CASE UNCHANGED held
  <2>1. GateOk(r, held[c])
    BY <1>1, NoneIn DEF GateOk, Bounded
  <2>2. HoldersOk' /\ held' = [held EXCEPT ![c] = held[c]]
    BY <1>1, <1>4, HoldersStay
  <2>3. CallInv'
    BY <1>1, <1>3, <2>1, <2>2, CallMoves DEF RecOk
  <2> QED BY <1>1, <2>3
<1>5. CASE held' = [held EXCEPT ![c] = {}] /\ r.at \notin Bounded
  <2>1. GateOk(r, {})
    BY <1>5, NoneIn DEF GateOk, Bounded
  <2>2. HoldersOk'
    BY <1>1, <1>5, HoldersKept
  <2>3. CallInv'
    BY <1>1, <1>3, <1>5, <2>1, <2>2, CallMoves DEF RecOk
  <2> QED BY <1>1, <2>3
<1> QED BY <1>4, <1>5

\* A send ends its generation: its answer, or the credential.
LEMMA SendEnds ==
    ASSUME CallInv, NEW c \in Callers, Sending(c), NEW pc \in {"ok", "refused", "dead"},
           \/ call' = [call EXCEPT ![c].at = pc, ![c].tried = Tried(c)]
           \/ call' = [call EXCEPT ![c].at = pc],
           UNCHANGED <<limits, unreset, gates, epoch, waiting, strategy, chain, changes>>,
           UNCHANGED held \/ (held' = [held EXCEPT ![c] = {}] /\ pc = "dead")
    PROVE  CallInv' /\ call'[c].at # "idle" /\ call'[c].once = call[c].once
<1> DEFINE k == call[c]
<1>1. /\ k \in CallRecs /\ k.need = <<>> /\ Tried(c) \in SUBSET (Rotated \X Proxied)
      /\ k.once => Cardinality(Tried(c)) <= 1 /\ k.tries = 0
  BY SendingShape
<1>2. OnceOk(k) /\ k.at = "sending"
  BY DEF CallInv, RecOk, Sending
<1>3. PICK tr \in {k.tried, Tried(c)} : call' = [call EXCEPT ![c] = [k EXCEPT !.at = pc, !.tried = tr]]
  BY <1>1 DEF CallInv, GateTyped, CallRecs
<1> DEFINE r == [k EXCEPT !.at = pc, !.tried = tr]
<1>4. pc \in CallPlaces
  BY CallPlacesAre
<1>5. tr \in SUBSET (Rotated \X Proxied) /\ (k.once => Cardinality(tr) <= 1)
  BY <1>1, <1>2 DEF OnceOk, CallRecs
<1>6. r \in CallRecs /\ r.at = pc /\ r.acct = k.acct /\ r.once = k.once /\ r.need = <<>> /\ r.tries = k.tries /\ r.tried = tr
  BY <1>1, <1>4, <1>5 DEF CallRecs
<1>7. call' = [call EXCEPT ![c] = r]
  BY <1>3
<1> HIDE DEF r
<1>8. OnceOk(r) /\ RouteOk(r)
  BY <1>1, <1>5, <1>6 DEF OnceOk, RouteOk
<1>9. CallInv' /\ call'[c] = r
  BY <1>6, <1>7, <1>8, SendMoves DEF Bounded
<1> QED BY <1>6, <1>9

LEMMA RetryKeeps ==
    ASSUME CallInv, NEW c \in Callers, Sending(c), Retry(c),
           UNCHANGED <<limits, unreset, gates, epoch, waiting, changes>>
    PROVE  CallInv' /\ call'[c].at # "idle" /\ call'[c].once = call[c].once
<1> DEFINE k == call[c]
           n == k.tries + 1
           r == [k EXCEPT !.tries = n, !.tried = Tried(c)]
<1>1. k \in CallRecs /\ k.need = <<>> /\ Tried(c) \in SUBSET (Rotated \X Proxied) /\ ~k.once /\ k.at = "sending"
  BY SendingShape DEF Retry, Sending
<1>2. call' = [call EXCEPT ![c] = r] /\ UNCHANGED <<held, strategy, chain>>
  BY DEF Retry, routeVars
<1>3. n \in Nat
  BY <1>1 DEF CallRecs
<1> HIDE DEF n
<1>4. /\ r \in CallRecs /\ r.at = "sending" /\ r.acct = k.acct /\ r.once = k.once /\ r.need = <<>> /\ r.tried = Tried(c)
      /\ r.eps = k.eps /\ r.pxs = k.pxs /\ r.soft = k.soft
  BY <1>1, <1>3 DEF CallRecs
<1> HIDE DEF r
<1>5. OnceOk(r)
  BY <1>1, <1>4 DEF OnceOk
<1>6. RouteOk(r)
  BY <1>1, <1>4, SendingShape, TriedShape DEF RouteOk, Ep
<1>7. CallInv' /\ call'[c] = r
  BY <1>2, <1>4, <1>5, <1>6, SendMoves
<1> QED BY <1>4, <1>7

\* The next proxy of the chain.
LEMMA NextProxyKeeps ==
    ASSUME CallInv, NEW c \in Callers, Sending(c), ~call[c].once, Len(call[c].pxs) > 1,
           call' = [call EXCEPT ![c].pxs = Tail(call[c].pxs), ![c].tries = 0, ![c].tried = Tried(c)],
           UNCHANGED <<limits, unreset, gates, epoch, waiting, held, strategy, chain, changes>>
    PROVE  CallInv' /\ call'[c].at # "idle" /\ call'[c].once = call[c].once
<1> DEFINE k == call[c]
           p == Tail(k.pxs)
           r == [k EXCEPT !.pxs = p, !.tries = 0, !.tried = Tried(c)]
<1>1. k \in CallRecs /\ k.need = <<>> /\ Tried(c) \in SUBSET (Rotated \X Proxied) /\ ~k.once /\ k.at = "sending"
      /\ k.pxs \in Seq(Proxied) /\ k.pxs # <<>> /\ k.eps # <<>>
  BY SendingShape DEF Sending
<1>2. call' = [call EXCEPT ![c] = r]
  OBVIOUS
<1>3. p \in Seq(Proxied) /\ p # <<>>
  <2>1. Len(k.pxs) # 1
    <3>1. \A n \in Nat : n > 1 => n # 1
      OBVIOUS
    <3>2. Len(k.pxs) \in Nat
      BY <1>1
    <3> QED BY <3>1, <3>2
  <2> QED BY <1>1, <2>1, HeadTailSet
<1>a. changes = 0 =>
        /\ {t[1] : t \in Tried(c)} \cup ToSet(k.eps) = Rotation
        /\ Tried(c) \subseteq Rotation \X Pxs
        /\ ToSet(p) \subseteq Pxs
        /\ ~k.soft => /\ \A e \in Rotation \ ToSet(k.eps), x \in Pxs : <<e, x>> \in Tried(c)
                      /\ \A x \in Pxs \ ToSet(p) : <<Head(k.eps), x>> \in Tried(c)
  BY <1>1, TriedShape DEF Ep
<1> HIDE DEF p
<1>4. /\ r \in CallRecs /\ r.at = "sending" /\ r.acct = k.acct /\ r.once = k.once /\ r.need = <<>> /\ r.tried = Tried(c)
      /\ r.eps = k.eps /\ r.pxs = p /\ r.soft = k.soft
  BY <1>1, <1>3 DEF CallRecs
<1> HIDE DEF r
<1>5. OnceOk(r)
  BY <1>1, <1>4 DEF OnceOk
<1>6. RouteOk(r)
  BY <1>1, <1>3, <1>4, <1>a DEF RouteOk
<1>7. CallInv' /\ call'[c] = r
  BY <1>2, <1>4, <1>5, <1>6, SendMoves
<1> QED BY <1>4, <1>7

\* The next endpoint, or the end of the rotation.
LEMMA NextEndpointKeeps ==
    ASSUME CallInv, NEW c \in Callers, Sending(c), NEW soft \in BOOLEAN, NEW cooling, NextEndpoint(c, soft, cooling),
           ~soft => ~call[c].soft /\ (call[c].once \/ Len(call[c].pxs) = 1),
           UNCHANGED <<limits, unreset, gates, epoch, waiting, changes>>
    PROVE  CallInv' /\ call'[c].at # "idle" /\ call'[c].once = call[c].once
<1> DEFINE k == call[c]
           left == Tail(k.eps)
<1>1. /\ k \in CallRecs /\ k.need = <<>> /\ Tried(c) \in SUBSET (Rotated \X Proxied) /\ k.at = "sending"
      /\ k.eps \in Seq(Rotated) /\ k.eps # <<>> /\ k.pxs \in Seq(Proxied) /\ k.pxs # <<>>
      /\ k.once => Cardinality(Tried(c)) <= 1 /\ k.tries = 0 /\ left = <<>>
  BY SendingShape DEF Sending
<1>2. UNCHANGED <<strategy, chain>> /\ call \in [Callers -> CallRecs]
  BY DEF NextEndpoint, CallInv, GateTyped
<1>3. left \in Seq(Rotated) /\ ToSet(k.eps) = {Ep(c)} \cup ToSet(left)
  BY <1>1, HeadTailSet DEF Ep
<1>4. ~soft /\ changes = 0 /\ ~k.once =>
        \A e \in Rotation \ ToSet(left), p \in Pxs : <<e, p>> \in Tried(c)
  <2> SUFFICES ASSUME ~soft, changes = 0, ~k.once, NEW e \in Rotation \ ToSet(left), NEW p \in Pxs
               PROVE  <<e, p>> \in Tried(c)
    OBVIOUS
  <2>1. Len(k.pxs) = 1
    OBVIOUS
  <2>2. ToSet(Tail(k.pxs)) = {}
    BY <1>1, <2>1, HeadTailSet, NoneIn
  <2>3. \A x \in Pxs : <<Ep(c), x>> \in Tried(c)
    BY <2>2, TriedShape
  <2>4. e \notin ToSet(k.eps) => <<e, p>> \in Tried(c)
    BY TriedShape
  <2> QED BY <1>3, <2>3, <2>4
<1>5. CASE left = <<>>
  <2> DEFINE ended == IF soft THEN "faulty" ELSE "unreachable"
             r == [k EXCEPT !.at = ended, !.soft = soft, !.tried = Tried(c), !.eps = <<>>]
  <2>1. call' = [call EXCEPT ![c] = r] /\ held' = IF soft THEN held ELSE [held EXCEPT ![c] = {}]
    BY <1>5 DEF NextEndpoint
  <2>2. ended \in CallPlaces /\ ended \in {"faulty", "unreachable"} /\ (ended = "faulty" <=> soft) /\ <<>> \in Seq(Rotated)
    BY CallPlacesAre
  <2> HIDE DEF ended
  <2>3. /\ r \in CallRecs /\ r.at = ended /\ r.acct = k.acct /\ r.once = k.once /\ r.need = <<>> /\ r.tried = Tried(c)
        /\ r.tries = k.tries
    BY <1>1, <2>2 DEF CallRecs
  <2> HIDE DEF r
  <2>4. OnceOk(r)
    BY <1>1, <2>2, <2>3 DEF OnceOk
  <2>5. RouteOk(r)
    <3>1. changes = 0 /\ ~k.once => {t[1] : t \in Tried(c)} = Rotation
      <4>1. ToSet(left) = {}
        BY <1>5, NoneIn
      <4> QED BY <4>1, TriedShape
    <3>2. changes = 0 /\ ~k.once /\ ~soft => Tried(c) = Rotation \X Pxs
      <4>1. ToSet(left) = {}
        BY <1>5, NoneIn
      <4>2. changes = 0 /\ ~k.once => Tried(c) \subseteq Rotation \X Pxs
        BY TriedShape
      <4> QED BY <1>4, <4>1, <4>2
    <3> QED BY <2>2, <2>3, <3>1, <3>2 DEF RouteOk
  <2>6. CallInv' /\ call'[c] = r
    BY <1>2, <2>1, <2>2, <2>3, <2>4, <2>5, SendMoves DEF Bounded
  <2> QED BY <2>2, <2>3, <2>6
<1>6. CASE left # <<>>
  <2>1. PICK pxs \in ProxyOrders(cool') :
          call' = [call EXCEPT ![c].eps = left, ![c].pxs = pxs, ![c].tries = 0, ![c].soft = soft, ![c].tried = Tried(c)]
    BY <1>6 DEF NextEndpoint
  <2>2. UNCHANGED held /\ ~k.once
    BY <1>1, <1>6 DEF NextEndpoint
  <2>3. pxs \in Seq(Proxied) /\ ToSet(pxs) = Pxs /\ pxs # <<>>
    BY ProxyOrdersAre DEF CallInv, GateTyped
  <2> DEFINE r == [k EXCEPT !.eps = left, !.pxs = pxs, !.tries = 0, !.soft = soft, !.tried = Tried(c)]
  <2>4. call' = [call EXCEPT ![c] = r]
    BY <2>1
  <2>a. changes = 0 => {t[1] : t \in Tried(c)} \cup ToSet(left) = Rotation /\ Tried(c) \subseteq Rotation \X Pxs
    BY <2>2, TriedShape
  <2> HIDE DEF left
  <2>5. /\ r \in CallRecs /\ r.at = "sending" /\ r.acct = k.acct /\ r.once = k.once /\ r.need = <<>> /\ r.tried = Tried(c)
        /\ r.eps = left /\ r.pxs = pxs /\ r.soft = soft
    BY <1>1, <1>3, <2>3 DEF CallRecs
  <2> HIDE DEF r
  <2>6. OnceOk(r)
    BY <2>2, <2>5 DEF OnceOk
  <2>7. RouteOk(r)
    BY <1>4, <1>6, <2>2, <2>3, <2>5, <2>a DEF RouteOk
  <2>8. CallInv' /\ call'[c] = r
    BY <1>2, <2>2, <2>4, <2>5, <2>6, <2>7, SendMoves
  <2> QED BY <2>5, <2>8
<1> QED BY <1>5, <1>6

\* Every send keeps the generation's invariant, and its caller.
LEMMA SendKeeps ==
    ASSUME CallInv, NEW c \in Callers, SendOk(c) \/ SendFails(c)
    PROVE  CallInv' /\ call'[c].at # "idle" /\ call'[c].once = call[c].once /\ Sending(c)
<1>1. CASE SendOk(c)
  BY <1>1, SendEnds DEF SendOk
<1>2. CASE NoToken(c)
  BY <1>2, SendEnds DEF NoToken
<1>3. CASE SendLost(c)
  <2> DEFINE z == IF Px(c) = Direct THEN cool ELSE cool \cup {Px(c)}
  <2>1. Sending(c) /\ UNCHANGED <<limits, unreset, gates, epoch, waiting, changes>>
        /\ \/ Retry(c)
           \/ /\ ~call[c].once /\ Len(call[c].pxs) > 1
              /\ call' = [call EXCEPT ![c].pxs = Tail(call[c].pxs), ![c].tries = 0, ![c].tried = Tried(c)]
              /\ UNCHANGED <<held, strategy, chain>>
           \/ (call[c].once \/ Len(call[c].pxs) = 1) /\ NextEndpoint(c, call[c].soft, z)
    BY <1>3 DEF SendLost
  <2>2. call[c].soft \in BOOLEAN
    BY <2>1, SendingShape DEF CallRecs
  <2> HIDE DEF z
  <2> QED BY <2>1, <2>2, RetryKeeps, NextProxyKeeps, NextEndpointKeeps
<1>4. CASE SendFaulty(c)
  BY <1>4, RetryKeeps, NextEndpointKeeps DEF SendFaulty
<1>5. CASE SendRefused(c)
  BY <1>5, SendEnds DEF SendRefused
<1>6. CASE SendForbidden(c)
  <2>1. Sending(c) /\ UNCHANGED <<limits, unreset, gates, epoch, waiting, changes>>
        /\ \/ Retry(c)
           \/ \E how \in {"refused", "dead"} :
                /\ call' = [call EXCEPT ![c].at = how, ![c].tried = Tried(c)]
                /\ held' = (IF how = "dead" THEN [held EXCEPT ![c] = {}] ELSE held)
                /\ UNCHANGED <<strategy, chain>>
    BY <1>6 DEF SendForbidden
  <2>2. CASE Retry(c)
    BY <2>1, <2>2, RetryKeeps
  <2>3. ASSUME NEW how \in {"refused", "dead"},
               call' = [call EXCEPT ![c].at = how, ![c].tried = Tried(c)],
               held' = (IF how = "dead" THEN [held EXCEPT ![c] = {}] ELSE held), UNCHANGED <<strategy, chain>>
        PROVE  CallInv' /\ call'[c].at # "idle" /\ call'[c].once = call[c].once
    BY <2>1, <2>3, SendEnds
  <2> QED BY <2>1, <2>2, <2>3
<1> QED BY <1>1, <1>2, <1>3, <1>4, <1>5, <1>6 DEF SendFails

\* The settings move under the generations.
LEMMA SettingsKeep ==
    ASSUME CallInv, SetLimits \/ ResetConcurrency \/ Lapse \/ SetProxies
    PROVE  CallInv' /\ UNCHANGED <<call, held>>
<1>0. GateTyped /\ UNCHANGED <<call, held, strategy>>
  BY DEF SetLimits, ResetConcurrency, Lapse, SetProxies, routeVars, gateVars, CallInv
<1>1. HoldersOk'
  BY <1>0, HoldersStay
<1>2. \A a \in Accounts : Queueing(a)' = Queueing(a)
  BY <1>0 DEF Queueing
<1>3. CASE SetLimits
  <2>1. limits' \in Limits /\ unreset' = TRUE /\ changes' = changes + 1 /\ UNCHANGED <<gates, epoch, waiting, chain>>
    BY <1>3 DEF SetLimits, routeVars
  <2>2. changes' # 0 /\ changes' \in Nat /\ limits' \in [global: Nat, account: Nat]
    BY <1>0, <2>1, TransportAssumption DEF GateTyped
  <2>3. GateTyped'
    BY <1>0, <2>1, <2>2 DEF GateTyped, GatesTyped
  <2>4. WaitOk'
    BY <1>2, <2>1 DEF CallInv, WaitOk
  <2>5. ASSUME NEW x, NEW y, RecOk(x, y) PROVE (RecOk(x, y))'
    BY <2>1, <2>2, <2>5 DEF RecOk, GateOk, Made, OnceOk, RouteOk
  <2>6. \A c \in Callers : (RecOk(call[c], held[c]))'
    BY <1>0, <2>5 DEF CallInv
  <2> QED BY <1>0, <1>1, <2>3, <2>4, <2>6 DEF CallInv
<1>4. CASE ResetConcurrency
  <2>1. /\ unreset /\ unreset' = FALSE /\ gates' = NoGates /\ epoch' = epoch + 1 /\ waiting' = [a \in Accounts |-> None]
        /\ UNCHANGED <<limits, chain, changes>>
    BY <1>4 DEF ResetConcurrency, routeVars
  <2>2. changes # 0 /\ epoch \in Nat /\ epoch' \in Nat /\ epoch' # 0
    BY <1>0, <2>1 DEF GateTyped
  <2>a. gates' \in [Keys -> [limit: Nat, nth: Nat]] /\ \A k \in Keys : gates'[k] = [limit |-> 0, nth |-> 0]
    BY <2>1 DEF NoGates, Keys
  <2>b. (GatesTyped)'
    BY <2>1, <2>2, <2>a DEF GatesTyped
  <2>3. GateTyped'
    BY <1>0, <2>1, <2>2, <2>b DEF GateTyped
  <2>4. WaitOk'
    BY <1>2, <2>1, <2>2 DEF CallInv, WaitOk
  <2>5. ASSUME NEW x \in CallRecs, NEW y \in SUBSET Semaphores, RecOk(x, y) PROVE (RecOk(x, y))'
    <3>1. \A s \in y \cup ToSet(x.need) : s \in Semaphores
      <4>1. x.need \in Seq(Semaphores)
        BY DEF CallRecs
      <4> QED BY <4>1 DEF ToSet
    <3>2. \A s \in y \cup ToSet(x.need) : s.epoch \in Nat /\ s.epoch <= epoch
      BY <2>5, <3>1 DEF RecOk, GateOk, Semaphores
    <3>3. \A s \in y \cup ToSet(x.need) : s.epoch <= epoch' /\ s.epoch # epoch'
      BY <2>1, <2>2, <3>2
    <3>4. (GateOk(x, y))'
      BY <2>1, <2>2, <2>5, <3>3 DEF RecOk, GateOk, Made
    <3>5. (OnceOk(x))' /\ (RouteOk(x))'
      BY <2>1, <2>2, <2>5 DEF RecOk, OnceOk, RouteOk
    <3> QED BY <3>4, <3>5 DEF RecOk
  <2>6. \A c \in Callers : (RecOk(call[c], held[c]))'
    BY <1>0, <2>5 DEF CallInv, GateTyped
  <2> QED BY <1>0, <1>1, <2>3, <2>4, <2>6 DEF CallInv
<1>5. CASE Lapse
  <2>1. UNCHANGED <<limits, unreset, gates, epoch, waiting, chain, changes>>
    BY <1>5 DEF Lapse, gateVars
  <2>2. GateTyped' /\ WaitOk'
    BY <1>0, <1>2, <2>1 DEF CallInv, GateTyped, GatesTyped, Setting, WaitOk
  <2>3. ASSUME NEW x, NEW y, RecOk(x, y) PROVE (RecOk(x, y))'
    BY <1>0, <2>1, <2>3 DEF RecOk, GateOk, OnceOk, RouteOk, Setting, Required, First, Made, Pxs, Rotation
  <2>4. \A c \in Callers : (RecOk(call[c], held[c]))'
    BY <1>0, <2>3 DEF CallInv
  <2> QED BY <1>0, <1>1, <2>2, <2>4 DEF CallInv
<1>6. CASE SetProxies
  <2>1. chain' \in Chains /\ changes' = changes + 1 /\ UNCHANGED <<limits, unreset, gates, epoch, waiting>>
    BY <1>6 DEF SetProxies, gateVars
  <2>2. changes' # 0 /\ changes' \in Nat
    BY <1>0, <2>1 DEF GateTyped
  <2>3. GateTyped' /\ WaitOk'
    BY <1>0, <1>2, <2>1, <2>2 DEF CallInv, GateTyped, GatesTyped, WaitOk
  <2>4. ASSUME NEW x, NEW y, RecOk(x, y) PROVE (RecOk(x, y))'
    BY <2>1, <2>2, <2>4 DEF RecOk, GateOk, Made, OnceOk, RouteOk
  <2>5. \A c \in Callers : (RecOk(call[c], held[c]))'
    BY <1>0, <2>4 DEF CallInv
  <2> QED BY <1>0, <1>1, <2>3, <2>5 DEF CallInv
<1> QED BY <1>0, <1>3, <1>4, <1>5, <1>6

----------------------------------------------------------------------------
(* The turn and its generation.                                            *)

\* A turn without a generation holds nothing, and an execution's is sent once.
PairOk(c) ==
    /\ ~Calls(turn[c]) => call[c] = Idle /\ held[c] = {}
    /\ turn[c].mode = "infer" /\ call[c].at \notin {"idle", "busy"} => call[c].once
PairInv == CallInv /\ \A c \in Callers : PairOk(c)
PlaneInv == DataInv /\ PairInv

\* The generations and permits of the others stay.
Others(c) == \A o \in Callers \ {c} : call'[o] = call[o] /\ held'[o] = held[o]

LEMMA OthersStay ==
    ASSUME CallInv, NEW c \in Callers,
           \/ \E a, once : Generate(c, a, once)
           \/ Hangup(c) \/ LookUp(c) \/ TakeSlot(c) \/ SlotTimeout(c) \/ SendOk(c) \/ SendFails(c)
    PROVE  Others(c)
<1>0. call \in [Callers -> CallRecs] /\ held \in [Callers -> SUBSET Semaphores]
  BY DEF CallInv, GateTyped
<1>1. ASSUME NEW a, NEW once, Generate(c, a, once) PROVE Others(c)
  BY <1>0, <1>1 DEF Generate, Routed, gateVars, Others
<1>2. Hangup(c) \/ LookUp(c) \/ SlotTimeout(c) => Others(c)
  BY <1>0 DEF Hangup, LookUp, SlotTimeout, Others
<1>3. TakeSlot(c) => Others(c)
  BY <1>0 DEF TakeSlot, Routed, Others
<1>4. SendOk(c) \/ NoToken(c) \/ SendRefused(c) => Others(c)
  BY <1>0 DEF SendOk, NoToken, SendRefused, Others
<1>5. Retry(c) => Others(c)
  BY <1>0 DEF Retry, Others
<1>6. ASSUME NEW soft, NEW cooling, NextEndpoint(c, soft, cooling) PROVE Others(c)
  BY <1>0, <1>6 DEF NextEndpoint, Others
<1>7. SendLost(c) => Others(c)
  BY <1>0, <1>5, <1>6 DEF SendLost, Others
<1>8. SendFaulty(c) => Others(c)
  BY <1>5, <1>6 DEF SendFaulty
<1>9. SendForbidden(c) => Others(c)
  BY <1>0, <1>5 DEF SendForbidden, Others
<1> QED BY <1>1, <1>2, <1>3, <1>4, <1>7, <1>8, <1>9 DEF SendFails

\* A step of one request.
LEMMA PairMoves ==
    ASSUME PairInv, CallInv', NEW c \in Callers, Others(c), (PairOk(c))',
           \A o \in Callers \ {c} : turn'[o] = turn[o]
    PROVE  PairInv'
<1>1. \A o \in Callers \ {c} : (PairOk(o))'
  BY DEF PairInv, PairOk, Others, Calls
<1> QED BY <1>1 DEF PairInv

\* Nothing that a generation's invariant speaks of moved.
LEMMA CallStays ==
    ASSUME CallInv, UNCHANGED <<call, held, limits, unreset, gates, epoch, waiting, strategy, chain, changes>>
    PROVE  CallInv'
<1>1. ASSUME NEW x, NEW y, RecOk(x, y) PROVE (RecOk(x, y))'
  BY <1>1 DEF RecOk, GateOk, OnceOk, RouteOk, Setting, Required, First, Made, Pxs, Rotation
<1>2. \A o \in Callers : (RecOk(call[o], held[o]))'
  BY <1>1 DEF CallInv
<1>3. GateTyped'
  BY DEF CallInv, GateTyped, GatesTyped, Setting
<1>4. HoldersOk'
  BY DEF CallInv, HoldersOk, Holders
<1>5. WaitOk'
  BY DEF CallInv, WaitOk, Queueing
<1> QED BY <1>2, <1>3, <1>4, <1>5 DEF CallInv

LEMMA RequestCalls ==
    ASSUME TurnInv, PairInv, NEW c \in Callers, Request(c)
    PROVE  CallInv' /\ Others(c) /\ (PairOk(c))'
<1> DEFINE t == turn[c]
<1>0. /\ TurnInv /\ t \in TurnRecs /\ TurnOk(c, t) /\ turn \in [Callers -> TurnRecs]
      /\ CallInv /\ PairOk(c)
  BY DEF TurnInv, PairInv
<1>i. ~Calls(t) => call[c] = Idle /\ held[c] = {}
  BY <1>0 DEF PairOk
\* The generation is as it was.
<1>1. ASSUME UNCHANGED transportVars,
             ~Calls(t) \/ (Calls(turn'[c]) /\ turn'[c].mode = t.mode)
      PROVE  CallInv' /\ Others(c) /\ (PairOk(c))'
  <2>1. UNCHANGED <<call, held, limits, unreset, gates, epoch, waiting, strategy, chain, changes>>
    BY <1>1 DEF transportVars, gateVars, routeVars
  <2>2. CallInv'
    BY <1>0, <2>1, CallStays
  <2>3. Others(c)
    BY <2>1 DEF Others
  <2>4. (PairOk(c))'
    BY <1>0, <1>1, <1>i, <2>1, IdleShape DEF PairOk
  <2> QED BY <2>2, <2>3, <2>4
\* There is none any more.
<1>2. ASSUME Hangup(c) PROVE CallInv' /\ Others(c) /\ (PairOk(c))'
  BY <1>0, <1>2, HangupKeeps, OthersStay, IdleShape DEF PairOk
\* A new one.
<1>3. ASSUME NEW a \in Accounts, NEW once \in BOOLEAN, Generate(c, a, once),
             turn'[c].at = "calling", turn'[c].mode = "infer" => once
      PROVE  CallInv' /\ Others(c) /\ (PairOk(c))'
  <2>1. CallInv' /\ call'[c].at # "idle" /\ call'[c].once = once
    BY <1>0, <1>3, GenerateKeeps
  <2>2. Others(c)
    BY <1>0, <1>3, OthersStay
  <2> QED BY <1>3, <2>1, <2>2 DEF PairOk, Calls
<1>4. ASSUME NEW mode, Arrive(c, mode) PROVE UNCHANGED transportVars /\ ~Calls(t)
  BY <1>4 DEF Arrive, In, Calls
<1>5. Checking(c) \/ Refused(c) => UNCHANGED transportVars /\ ~Calls(t)
  BY DEF Checking, Refused, Admitted, In, Calls
<1>6. Tell(c) \/ RecordTokens(c) \/ CommitSuccess(c) \/ Answer(c) => UNCHANGED transportVars /\ ~Calls(t)
  BY DEF Tell, RecordTokens, CommitSuccess, Answer, In, Calls
<1>7. CASE Build(c)
  <2>1. PICK a \in Accounts : Generate(c, a, t.mode = "infer") /\ turn' = [turn EXCEPT ![c].at = "calling", ![c].acct = a]
    BY <1>7 DEF Build, Attempt
  <2>2. turn'[c].at = "calling" /\ turn'[c].mode = t.mode
    BY <1>0, <2>1 DEF TurnRecs
  <2> QED BY <1>3, <2>1, <2>2
<1>8. CASE Start(c)
  <2>1. t.at = "ready" /\ Generate(c, t.acct, FALSE) /\ turn' = [turn EXCEPT ![c].at = "calling"]
    BY <1>8 DEF Start, In, Go
  <2>2. t.acct \in Accounts /\ t.mode # "infer"
    BY <1>0, <2>1 DEF TurnOk, AcctOk, ModeOk
  <2>3. turn'[c].at = "calling" /\ turn'[c].mode = t.mode
    BY <1>0, <2>1 DEF TurnRecs
  <2> QED BY <1>3, <2>1, <2>2, <2>3
<1>9. CASE Open(c)
  <2>1. t.at = "calling" /\ SendOk(c)
    BY <1>9 DEF Open, In
  <2>2. turn'[c].at = "reading" /\ turn'[c].mode = t.mode
    BY <1>0, <1>9 DEF Open, TurnRecs
  <2>3. CallInv' /\ call'[c].at # "idle" /\ call'[c].once = call[c].once /\ call[c].at = "sending"
    BY <1>0, <2>1, SendKeeps DEF Sending
  <2>4. Others(c)
    BY <1>0, <2>1, OthersStay
  <2>5. (PairOk(c))'
    BY <1>0, <2>2, <2>3 DEF PairOk, Calls
  <2> QED BY <2>3, <2>4, <2>5
<1>10. ASSUME NEW kind \in ChunkKinds, Chunk(c, kind) PROVE CallInv' /\ Others(c) /\ (PairOk(c))'
  <2>1. PICK q : Turns(c, q) /\ Calls(q) /\ q.mode = t.mode
    BY <1>0, <1>10, ChunkTurns
  <2>2. turn'[c] = q
    BY <1>0, <2>1 DEF Turns
  <2>3. UNCHANGED transportVars
    BY <1>10 DEF Chunk
  <2> QED BY <1>1, <2>1, <2>2, <2>3
<1>11. CASE SearchInline(c)
  <2>1. UNCHANGED transportVars /\ t.at = "searching"
    BY <1>11 DEF SearchInline, In
  <2>2. CASE t.mode = "collect"
    BY <1>1, <2>1, <2>2 DEF Calls
  <2>3. CASE t.mode # "collect"
    <3>1. turn' = [turn EXCEPT ![c] = [t EXCEPT !.at = "reading", !.heard = Hears(c), !.search = FALSE]]
      BY <1>0, <1>11, <2>3 DEF SearchInline
    <3>2. turn'[c].at = "reading" /\ turn'[c].mode = t.mode
      BY <1>0, <3>1 DEF TurnRecs
    <3> QED BY <1>1, <2>1, <3>2 DEF Calls
  <2> QED BY <2>2, <2>3
<1>12. ASSUME NEW pc, Leaving(c, pc) PROVE Hangup(c)
  BY <1>12 DEF Leaving
<1>13. Failed(c) \/ Broken(c) \/ Leave(c) \/ FirstSilence(c) => Hangup(c)
  BY <1>12 DEF Failed, Broken, Leave, FirstSilence
<1>14. EndOfStream(c) \/ OutputLimit(c) \/ SearchFollowup(c) => Hangup(c)
  BY DEF EndOfStream, OutputLimit, SearchFollowup
<1> QED BY <1>1, <1>2, <1>4, <1>5, <1>6, <1>7, <1>8, <1>9, <1>10, <1>11, <1>13, <1>14 DEF Request

LEMMA UpstreamCalls ==
    ASSUME PairInv, NEW c \in Callers, Upstream(c)
    PROVE  CallInv' /\ Others(c) /\ (PairOk(c))'
<1>0. CallInv /\ PairOk(c) /\ UNCHANGED turn
  BY DEF PairInv, Upstream, dataVars
<1>4. CASE LookUp(c)
  <2>1. CallInv' /\ call'[c].at = "slots" /\ call[c].at = "limits" /\ call'[c].once = call[c].once
    BY <1>0, <1>4, LookUpKeeps
  <2> QED BY <1>0, <1>4, <2>1, OthersStay, IdleShape DEF PairOk
<1>1. CASE TakeSlot(c)
  <2>1. CallInv' /\ call'[c].at # "idle" /\ call[c].at = "slots" /\ call'[c].once = call[c].once
    BY <1>0, <1>1, TakeSlotKeeps
  <2> QED BY <1>0, <1>1, <2>1, OthersStay, IdleShape DEF PairOk
<1>2. CASE SlotTimeout(c)
  <2>1. CallInv' /\ call[c].at = "slots" /\ call'[c].at = "busy"
    BY <1>0, <1>2, SlotTimeoutKeeps
  <2> QED BY <1>0, <1>2, <2>1, OthersStay, IdleShape DEF PairOk
<1>3. CASE SendFails(c)
  <2>1. CallInv' /\ call'[c].once = call[c].once /\ call[c].at = "sending"
    BY <1>0, <1>3, SendKeeps DEF Sending
  <2> QED BY <1>0, <1>3, <2>1, OthersStay, IdleShape DEF PairOk
<1> QED BY <1>1, <1>2, <1>3, <1>4 DEF Upstream, SendFails

LEMMA PlaneNext ==
    ASSUME PlaneInv, [Next]_vars
    PROVE  PlaneInv'
<1>0. DataInv' /\ TurnInv /\ turn \in [Callers -> TurnRecs] /\ PairInv /\ DataInv
  BY NextKeeps DEF PlaneInv, DataInv, TurnInv
<1>1. ASSUME NEW c \in Callers, Request(c) PROVE PairInv'
  <2>1. CallInv' /\ Others(c) /\ (PairOk(c))'
    BY <1>0, <1>1, RequestCalls
  <2>2. \A o \in Callers \ {c} : turn'[o] = turn[o]
    <3>1. CASE Checking(c)
      BY <3>1 DEF Checking, dataVars
    <3>2. CASE \E q : Turns(c, q)
      BY <1>0, <3>2, TurnStays
    <3> QED BY <1>0, <1>1, <3>1, <3>2, RequestTurns
  <2> QED BY <1>0, <2>1, <2>2, PairMoves
<1>2. ASSUME NEW c \in Callers, Upstream(c) PROVE PairInv'
  <2>1. CallInv' /\ Others(c) /\ (PairOk(c))'
    BY <1>0, <1>2, UpstreamCalls
  <2>2. UNCHANGED turn
    BY <1>2 DEF Upstream, dataVars
  <2> QED BY <1>0, <2>1, <2>2, PairMoves
<1>3. ASSUME UNCHANGED turn /\ (SetLimits \/ ResetConcurrency \/ Lapse \/ SetProxies) PROVE PairInv'
  <2>1. CallInv' /\ UNCHANGED <<call, held>>
    BY <1>0, <1>3, SettingsKeep DEF PairInv
  <2>2. \A c \in Callers : (PairOk(c))'
    BY <1>0, <1>3, <2>1 DEF PairInv, PairOk, Calls
  <2> QED BY <2>1, <2>2 DEF PairInv
<1>4. ASSUME UNCHANGED <<transportVars, turn>> PROVE PairInv'
  <2>1. UNCHANGED <<call, held, limits, unreset, gates, epoch, waiting, strategy, chain, changes>>
    BY <1>4 DEF transportVars, gateVars, routeVars
  <2>2. CallInv'
    BY <1>0, <2>1, CallStays DEF PairInv
  <2>3. \A c \in Callers : (PairOk(c))'
    BY <1>0, <1>4, <2>1 DEF PairInv, PairOk, Calls
  <2> QED BY <2>2, <2>3 DEF PairInv
<1>5. PairInv'
  BY <1>1, <1>2, <1>3, <1>4 DEF Next, vars, dataVars
<1> QED BY <1>0, <1>5 DEF PlaneInv

LEMMA PlaneInit ==
    ASSUME Init
    PROVE  PlaneInv
<1>0. DataInv /\ TransportInit /\ turn = [c \in Callers |-> New]
  BY InitKeeps DEF Init
<1>1. call = [c \in Callers |-> Idle] /\ held = [c \in Callers |-> {}]
  BY <1>0 DEF TransportInit
<1>2. GateTyped
  <2>1. gates \in [Keys -> [limit: Nat, nth: Nat]] /\ \A k \in Keys : gates[k] = [limit |-> 0, nth |-> 0]
    BY <1>0 DEF TransportInit, NoGates, Keys
  <2>2. GatesTyped
    BY <2>1 DEF GatesTyped
  <2> QED BY <1>0, <1>1, <2>2, IdleShape, TransportAssumption DEF GateTyped, TransportInit
<1>3. HoldersOk
  <2>1. ASSUME NEW s \in Semaphores PROVE IsFiniteSet(Holders(s)) /\ Cardinality(Holders(s)) <= s.limit
    <3>1. Holders(s) = {}
      BY <1>1 DEF Holders
    <3>2. s.limit \in Nat
      BY DEF Semaphores
    <3> QED BY <3>1, <3>2, FS_EmptySet
  <2> QED BY <2>1 DEF HoldersOk
<1>4. WaitOk
  <2>1. \A a \in Accounts : Queueing(a) = {}
    BY <1>1, IdleShape DEF Queueing
  <2>2. \A a \in Accounts : waiting[a] = None
    BY <1>0 DEF TransportInit
  <2> QED BY <2>1, <2>2, FS_EmptySet DEF WaitOk
<1>5. RecOk(Idle, {})
  BY IdleShape, NoneIn DEF RecOk, GateOk, OnceOk, RouteOk, Bounded
<1>6. CallInv
  BY <1>1, <1>2, <1>3, <1>4, <1>5 DEF CallInv
<1>7. \A c \in Callers : PairOk(c)
  BY <1>1, IdleShape DEF PairOk
<1> QED BY <1>0, <1>6, <1>7 DEF PlaneInv, PairInv

\* PlaneInv is an invariant of the data plane.
THEOREM PlaneReached == Spec => []PlaneInv
<1>1. Init => PlaneInv
  BY PlaneInit
<1>2. PlaneInv /\ [Next]_vars => PlaneInv'
  BY PlaneNext
<1> QED BY <1>1, <1>2, PTL DEF Spec

\* The generations of a limit hold its permits, so no more than it allows are in flight.
LEMMA HoldersBound ==
    ASSUME CallInv, NEW s \in Semaphores, NEW cs, cs \subseteq Holders(s)
    PROVE  Within(cs, s.limit)
<1>1. IsFiniteSet(Holders(s)) /\ Cardinality(Holders(s)) <= s.limit /\ s.limit \in Nat
  BY DEF CallInv, HoldersOk, Semaphores
<1>2. IsFiniteSet(cs) /\ Cardinality(cs) <= Cardinality(Holders(s))
  BY <1>1, FS_Subset
<1>3. Cardinality(cs) \in Nat /\ Cardinality(Holders(s)) \in Nat
  BY <1>1, <1>2, FS_CardinalityType
<1> QED BY <1>1, <1>2, <1>3 DEF Within

\* Under settings that never changed no more generations are in flight than they allow; after a
\* change no more of those that passed a new gate, until a caller that had read the settings of
\* before replaces it; nobody queues for a slot it holds, and the queue shown is the queue
\* (concurrency_slot, gate, WaitingGuard).
THEOREM GatesHold == Spec => []SlotsHeld
<1>1. PlaneInv => SlotsHeld
  <2> SUFFICES ASSUME PlaneInv PROVE SlotsHeld
    OBVIOUS
  <2>0. CallInv /\ GateTyped /\ WaitOk /\ \A c \in Callers : RecOk(call[c], held[c])
    BY DEF PlaneInv, PairInv, CallInv
  <2>1. ASSUME NEW c \in Callers PROVE call[c] \in CallRecs /\ GateOk(call[c], held[c]) /\ held[c] \in SUBSET Semaphores
    BY <2>0 DEF GateTyped, RecOk
  <2>2. limits.global \in Nat /\ limits.account \in Nat /\ epoch \in Nat
    BY <2>0 DEF GateTyped
  <2> DEFINE l(k) == [key |-> k, limit |-> Setting(k), nth |-> 1, epoch |-> epoch]
  <2>3. ASSUME NEW k \in Keys, Setting(k) # 0 PROVE l(k) \in Semaphores /\ l(k).limit = Setting(k)
    BY <2>2, <2>3 DEF Setting, Semaphores
  <2>4. Setting(Global) = limits.global /\ \A a \in Accounts : Setting(a) = limits.account
    BY TransportAssumption DEF Setting
  <2>5. Global \in Keys /\ Accounts \subseteq Keys
    BY DEF Keys
  <2>6. \A c \in InFlight : call[c].need = <<>> /\ call[c].at \in Bounded
    BY <2>1 DEF InFlight, GateOk, Bounded
  <2>7. ASSUME changes = 0, limits.global # 0 PROVE InFlight \subseteq Holders(l(Global))
    <3>1. l(Global) = First(Global)
      BY <2>0, <2>7 DEF First, GateTyped
    <3>2. \A c \in InFlight : First(Global) \in Required(call[c].acct)
      BY <2>4, <2>7 DEF Required
    <3> HIDE DEF l
    <3> QED BY <2>1, <2>6, <2>7, <3>1, <3>2, NoneIn DEF InFlight, GateOk, Holders
  <2>8. ASSUME changes = 0, limits.account # 0, NEW a \in Accounts PROVE On(a) \subseteq Holders(l(a))
    <3>1. l(a) = First(a)
      BY <2>0, <2>8 DEF First, GateTyped
    <3>2. First(a) \in Required(a)
      BY <2>4, <2>8 DEF Required
    <3> HIDE DEF l
    <3> QED BY <2>1, <2>6, <2>8, <3>1, <3>2, NoneIn DEF On, InFlight, GateOk, Holders
  <2>9. ASSUME NEW cs, cs \subseteq Callers, NEW k \in Keys PROVE Holding(cs, k) \subseteq Holders(l(k))
    <3>1. ASSUME NEW c \in cs, NEW s \in held[c], s.key = k, s.epoch = epoch, Settled(k) PROVE s = l(k)
      <4>1. c \in Callers /\ s \in Semaphores
        BY <2>1, <2>9
      <4>2. s.nth <= gates[k].nth /\ (s.nth = gates[k].nth => s.limit = gates[k].limit)
        BY <2>1, <3>1, <4>1 DEF GateOk, Made
      <4>3. gates[k].nth <= 1 /\ gates[k].limit \in {0, Setting(k)} /\ gates[k].nth \in Nat
        BY <2>0, <3>1 DEF Settled, GateTyped, GatesTyped
      <4>4. s.nth = 1 /\ s.limit = Setting(k)
        BY <4>1, <4>2, <4>3 DEF Semaphores
      <4>5. s = [key |-> s.key, limit |-> s.limit, nth |-> s.nth, epoch |-> s.epoch]
        BY <4>1 DEF Semaphores
      <4> QED BY <3>1, <4>4, <4>5
    <3> HIDE DEF l
    <3> QED BY <2>9, <3>1 DEF Holding, Holders
  <2>11. InFlight \subseteq Callers /\ \A a \in Accounts : On(a) \subseteq Callers
    BY DEF InFlight, On
  <2>12. Within(IF changes = 0 THEN InFlight ELSE Holding(InFlight, Global), limits.global)
    <3>1. CASE limits.global = 0
      BY <3>1 DEF Within
    <3>2. CASE limits.global # 0
      BY <2>0, <2>3, <2>4, <2>5, <2>7, <2>9, <2>11, <3>2, HoldersBound
    <3> QED BY <3>1, <3>2
  <2>13. ASSUME NEW a \in Accounts
         PROVE  Within(IF changes = 0 THEN On(a) ELSE Holding(On(a), a), limits.account)
    <3>1. CASE limits.account = 0
      BY <3>1 DEF Within
    <3>2. CASE limits.account # 0
      BY <2>0, <2>3, <2>4, <2>5, <2>8, <2>9, <2>11, <3>2, HoldersBound
    <3> QED BY <3>1, <3>2
  <2>14. \A a \in Accounts : epoch = 0 /\ waiting[a] # None => waiting[a] = Cardinality(Queueing(a))
    BY <2>0 DEF WaitOk
  <2>15. ASSUME NEW c \in Callers, call[c].at = "slots" PROVE Head(call[c].need) \notin held[c]
    <3>1. call[c].need \in Seq(Semaphores) /\ call[c].need # <<>> /\ ToSet(call[c].need) \cap held[c] = {}
      BY <2>1, <2>15 DEF GateOk, CallRecs
    <3> QED BY <3>1, HeadTailSet
  <2> QED BY <2>12, <2>13, <2>14, <2>15 DEF SlotsHeld
<1> QED BY <1>1, PlaneReached, PTL

\* An answer holds no output of a generation that was given up, a turn without a search has one
\* generation in it, an execution never sends twice, use is recorded once and only for a turn
\* that ended, and Kiro is called unreachable only after every route was tried (generate,
\* through_proxies, attempt_order, retry_on_first_token_timeout).
THEOREM AnsweredOnce == Spec => []Answered
<1>1. PlaneInv => Answered
  <2> SUFFICES ASSUME PlaneInv PROVE Answered
    OBVIOUS
  <2>1. OneAnswer
    <3> SUFFICES ASSUME NEW c \in Callers
                 PROVE  LET t == turn[c] IN
                        /\ t.heard \cap t.lost = {} /\ Cardinality(t.heard) <= 1 + t.searches
                        /\ t.mode = "infer" => t.gens <= 1 /\ call[c].tries = 0 /\ Cardinality(call[c].tried) <= 1
                        /\ t.records <= 1 /\ (t.at = "failed" => t.records = 0 /\ ~t.told)
                        /\ t.at = "credited" => t.told /\ (t.mode = "infer" \/ t.records = 1) /\ t.acct \notin t.blamed
                        /\ t.told => held[c] = {}
      BY DEF OneAnswer
    <3> DEFINE t == turn[c]
               k == call[c]
    <3>1. t \in TurnRecs /\ TurnOk(c, t)
      BY DEF PlaneInv, DataInv, TurnInv
    <3>2. k \in CallRecs /\ OnceOk(k) /\ PairOk(c)
      BY DEF PlaneInv, PairInv, CallInv, GateTyped, RecOk
    <3>3. t.heard \cap t.lost = {} /\ t.heard \subseteq 1..t.gens /\ t.gens \in Nat /\ t.searches \in Nat
          /\ Cardinality(Earlier(t)) <= t.searches
      BY <3>1 DEF TurnOk, HeardOk, TurnRecs
    <3>4. Cardinality(t.heard) <= 1 + t.searches
      <4> DEFINE e == Earlier(t)
      <4>1. IsFiniteSet(t.heard)
        BY <3>3, UpToFinite, FS_Subset
      <4>2. e \subseteq t.heard /\ t.heard \subseteq e \cup {t.gens}
        BY DEF Earlier
      <4> HIDE DEF e
      <4>3. IsFiniteSet(e)
        BY <4>1, <4>2, FS_Subset
      <4>4. IsFiniteSet(e \cup {t.gens}) /\ Cardinality(e \cup {t.gens}) \in {Cardinality(e), Cardinality(e) + 1}
            /\ Cardinality(e) \in Nat
        BY <4>3, FS_AddElement, FS_CardinalityType
      <4>5. Cardinality(t.heard) <= Cardinality(e \cup {t.gens}) /\ Cardinality(t.heard) \in Nat
        BY <4>1, <4>2, <4>4, FS_Subset, FS_CardinalityType
      <4>6. Cardinality(e) <= t.searches
        BY <3>3 DEF e
      <4> QED BY <3>3, <4>4, <4>5, <4>6
    <3>5. ASSUME t.mode = "infer" PROVE t.gens <= 1 /\ k.tries = 0 /\ Cardinality(k.tried) <= 1
      <4>1. t.gens <= 1
        BY <3>1, <3>3, <3>5 DEF TurnOk, HeardOk
      <4>2. k.tries = 0 /\ Cardinality(k.tried) <= 1
        <5>1. CASE k.at \in {"idle", "busy"}
          <6>1. k.tries = 0 /\ k.tried = {}
            BY <3>2, <5>1 DEF OnceOk
          <6>2. Cardinality({}) <= 1
            BY NoneIn
          <6> QED BY <6>1, <6>2
        <5>2. CASE k.at \notin {"idle", "busy"}
          <6>1. k.once
            BY <3>2, <3>5, <5>2 DEF PairOk
          <6> QED BY <3>2, <6>1 DEF OnceOk
        <5> QED BY <5>1, <5>2
      <4> QED BY <4>1, <4>2
    <3>6. t.records <= 1 /\ (t.at = "failed" => t.records = 0 /\ ~t.told)
          /\ (t.at = "credited" => t.told /\ (t.mode = "infer" \/ t.records = 1) /\ t.acct \notin t.blamed)
      BY <3>1 DEF TurnOk, RecordOk, AcctOk
    <3>7. t.told => held[c] = {}
      BY <3>1, <3>2 DEF TurnOk, RecordOk, PairOk, Calls
    <3> QED BY <3>3, <3>4, <3>5, <3>6, <3>7
  <2>2. EveryRouteTried
    BY DEF PlaneInv, PairInv, CallInv, RecOk, RouteOk, EveryRouteTried, Pxs
  <2> QED BY <2>1, <2>2 DEF Answered
<1> QED BY <1>1, PlaneReached, PTL
=============================================================================
