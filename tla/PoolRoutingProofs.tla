-------------------------- MODULE PoolRoutingProofs --------------------------
(***************************************************************************)
(* Theorems about PoolRouting.  What a request or an initialize knows of   *)
(* an account is fenced by the account's object: this is an invariant of   *)
(* its own (Fenced, InitOnce), and with it removals and registrations of   *)
(* the same ids cannot make a pin or a finding outlive its account.        *)
(***************************************************************************)
EXTENDS PoolRouting, SequenceTheorems, FiniteSetTheorems, TLAPS

----------------------------------------------------------------------------
(* Sequences and finite sets.                                              *)

\* RemoveAt drops one entry and moves the later ones up.
LEMMA RemoveAtFacts ==
    ASSUME NEW S, NEW s \in Seq(S), NEW p \in 1..Len(s)
    PROVE  /\ RemoveAt(s, p) \in Seq(S)
           /\ Len(RemoveAt(s, p)) = Len(s) - 1
           /\ \A i \in 1..(Len(s) - 1) :
                 RemoveAt(s, p)[i] = IF i < p THEN s[i] ELSE s[i + 1]
<1> DEFINE l == SubSeq(s, 1, p - 1)
           m == SubSeq(s, p + 1, Len(s))
<1>1. Len(s) \in Nat /\ \A i \in 1..Len(s) : s[i] \in S
  BY ElementOfSeq, LenProperties
<1>2. l \in Seq(S) /\ Len(l) = p - 1 /\ \A i \in 1..(p - 1) : l[i] = s[i]
  BY <1>1, SubSeqProperties
<1>3. m \in Seq(S) /\ Len(m) = Len(s) - p /\ \A i \in 1..(Len(s) - p) : m[i] = s[p + i]
  BY <1>1, SubSeqProperties
<1> HIDE DEF l, m
<1>4. l \o m \in Seq(S) /\ Len(l \o m) = Len(l) + Len(m)
      /\ \A i \in 1..(Len(l) + Len(m)) : (l \o m)[i] = IF i <= Len(l) THEN l[i] ELSE m[i - Len(l)]
  BY <1>2, <1>3, ConcatProperties
<1>5. RemoveAt(s, p) = l \o m
  BY DEF RemoveAt, l, m
<1>6. ASSUME NEW i \in 1..(Len(s) - 1)
      PROVE  (l \o m)[i] = IF i < p THEN s[i] ELSE s[i + 1]
  <2>1. CASE i < p
    BY <1>1, <1>2, <1>3, <1>4, <2>1
  <2>2. CASE ~(i < p)
    <3>1. i - (p - 1) \in 1..(Len(s) - p) /\ p + (i - (p - 1)) = i + 1 BY <1>1, <2>2
    <3>2. m[i - (p - 1)] = s[i + 1] BY <1>3, <3>1
    <3> QED BY <1>1, <1>2, <1>3, <1>4, <2>2, <3>2
  <2> QED BY <2>1, <2>2
<1>7. Len(l \o m) = Len(s) - 1
  BY <1>1, <1>2, <1>3, <1>4
<1> QED BY <1>4, <1>5, <1>6, <1>7

\* A strict order of a finite set that is not empty has a least element.
LEMMA LeastExists ==
    ASSUME NEW S, IsFiniteSet(S), NEW lt, NEW T \in SUBSET S, T # {},
           \A s \in S : <<s, s>> \notin lt,
           \A s, t, u \in S : <<s, t>> \in lt /\ <<t, u>> \in lt => <<s, u>> \in lt
    PROVE  \E t \in T : \A u \in T : <<u, t>> \notin lt
<1> DEFINE Below(t) == {u \in S : <<u, t>> \in lt}
           Ranks == {n \in Nat : \E t \in T : n = Cardinality(Below(t))}
<1>1. \A t \in T : IsFiniteSet(Below(t)) /\ Cardinality(Below(t)) \in Nat
  BY FS_Subset, FS_CardinalityType
<1> DEFINE rank(t) == Cardinality(Below(t))
<1>a. \A t \in T : rank(t) \in Ranks
  BY <1>1
<1>2. Ranks \subseteq Nat /\ Ranks # {}
  BY <1>a
<1>3. PICK n \in Ranks : \A m \in Ranks : ~(m < n)
  <2>1. \E n \in Ranks : \A m \in Ranks : ~(<<m, n>> \in OpToRel(<, Nat))
    BY <1>2, NatLessThanWellFounded, WFMin
  <2> QED BY <1>2, <2>1 DEF OpToRel
<1>4. PICK t \in T : n = Cardinality(Below(t))
  BY <1>3
<1>5. ASSUME NEW u \in T, <<u, t>> \in lt PROVE FALSE
  <2>1. Below(u) \subseteq Below(t) /\ u \in Below(t) /\ u \notin Below(u)
    BY <1>5
  <2>2. rank(u) <= rank(t) /\ rank(u) # rank(t)
    BY <1>1, <2>1, FS_Subset
  <2>3. rank(u) \in Ranks /\ rank(u) \in Nat /\ rank(t) \in Nat /\ n = rank(t)
    BY <1>1, <1>4, <1>a
  <2>4. ~(rank(u) < n)
    BY <1>3, <2>3
  <2> HIDE DEF rank
  <2> QED BY <2>2, <2>3, <2>4
<1> QED BY <1>5

\* A list of a finite set that repeats nothing and is as long as the set has it all.
LEMMA ListsAll ==
    ASSUME IsFiniteSet(Accounts), NEW s \in SetToSeqs(Accounts)
    PROVE  /\ s \in Seq(Accounts)
           /\ {s[i] : i \in 1..Len(s)} = Accounts
           /\ \A i, j \in 1..Len(s) : i # j => s[i] # s[j]
<1> DEFINE n == Cardinality(Accounts)
<1>1. n \in Nat
  BY FS_CardinalityType
<1> HIDE DEF n
<1>2. s \in [1..n -> Accounts] /\ \A i, j \in 1..n : i # j => s[i] # s[j]
  BY DEF SetToSeqs, n
<1>3. s \in Seq(Accounts) /\ Len(s) = n
  BY <1>1, <1>2
<1>4. IsFiniteSet(1..n) /\ Cardinality(1..n) = n
  BY <1>1, FS_Interval
<1>5. s \in Injection(1..n, Accounts)
  BY <1>2 DEF Injection, IsInjective
<1>6. s \in Surjection(1..n, Accounts)
  BY <1>4, <1>5, FS_Injection DEF n
<1> QED BY <1>2, <1>3, <1>6 DEF Surjection

----------------------------------------------------------------------------
(* The invariant.                                                          *)

\* The list, the pointer (it is zero when the list is empty) and the objects of the members.
MembersTyped ==
    /\ order \in Seq(Accounts)
    /\ current \in Nat /\ current < (IF order = <<>> THEN 1 ELSE Len(order))
    /\ made \in 1..MaxObjects
    /\ object \in [Accounts -> 0..made]
    /\ {order[i] : i \in 1..Len(order)} = Members
    /\ \A i, j \in 1..Len(order) : i # j => order[i] # order[j]

PinsTyped ==
    /\ pins \in [Sessions -> Accounts \cup {None}]
    /\ older \subseteq Pinned \X Pinned
    /\ lapsed \subseteq Pinned

ReqTyped == req \in [Requests -> RequestRecs]

\* The account of a disable stays a member while it waits.
DisablingTyped ==
    /\ disabling \in [phase: {"none", "pausing", "drained"}, account: Accounts \cup {None}]
    /\ Paused => disabling.account \in Members

\* What a request has seen of an account is an object made before, and if that
\* is still the live one its credentials are loaded.
Fenced(q) ==
    /\ \A c \in q.left : c[2] <= made
    /\ q.at \in {"checked", "attempting"} =>
          /\ q.account \in Accounts /\ q.object \in 1..made
          /\ object[q.account] = q.object => health[q.account].auth
RequestsFenced == \A r \in Requests : Fenced(req[r])

\* An initialize runs for an object made before; the live one is not up yet.
InitOnce == \A c \in initializing :
    c \in Candidates /\ c[2] <= made /\ (object[c[1]] = c[2] => ~health[c[1]].auth)

HealthTyped == health \in [Accounts -> Health]

PoolInv ==
    /\ MembersTyped /\ PinsTyped /\ ReqTyped /\ DisablingTyped /\ HealthTyped
    /\ EvidenceOwned /\ PinsKept /\ RequestsFenced /\ InitOnce

LEMMA InvOwned == PoolInv => Owned
<1> SUFFICES ASSUME PoolInv PROVE Owned
  OBVIOUS
<1>1. MembersTyped /\ PinsTyped /\ ReqTyped /\ DisablingTyped /\ HealthTyped
  BY DEF PoolInv
<1>2. initializing \subseteq Candidates
  BY DEF PoolInv, InitOnce
<1>3. TypeOK
  BY <1>1, <1>2 DEF TypeOK, MembersTyped, PinsTyped, ReqTyped, DisablingTyped, HealthTyped
<1> QED BY <1>3 DEF PoolInv, Owned

----------------------------------------------------------------------------
(* The steps by what they touch.                                           *)

\* A step of request r that touches nothing but its own record.
Walks(r) ==
    \/ \E s \in Sessions \cup {None} : Arrive(r, s)
    \/ Enter(r) \/ Admit(r) \/ Choose(r) \/ Order(r) \/ Confirm(r) \/ Exhaust(r)
    \/ Conclude(r) \/ Abandon(r)
    \/ \E c \in req[r].left : Take(r, c) \/ Skip(r, c)
\* A step of the pause alone.
Pauses == (\E a \in Accounts : DisableBegin(a)) \/ DisableDrained \/ DisableCancelled
\* An account leaves.
Removes == (\E a \in Accounts : Delete(a)) \/ DisableRemove
\* A finding about one account from outside the requests.
Finds(a) == CatalogRead(a) \/ LoginReported(a) \/ UsagePolled(a) \/ DeadlinePasses(a) \/ ProbeRevoked(a)

LEMMA StepKinds ==
    Next => \/ \E r \in Requests : Walks(r) \/ Succeed(r) \/ \E k \in Errors : Fail(r, k)
            \/ Pauses \/ Removes \/ PinLapses
            \/ \E a \in Accounts : Finds(a) \/ InitStart(a)
                  \/ \E restored \in SUBSET (Deadlines \ {"rate"}), depleted \in BOOLEAN :
                        Register(a, restored, depleted)
            \/ \E c \in initializing : InitEnd(c)
<1> SUFFICES ASSUME Next
             PROVE  \/ \E r \in Requests : Walks(r) \/ Succeed(r) \/ \E k \in Errors : Fail(r, k)
                    \/ Pauses \/ Removes \/ PinLapses
                    \/ \E a \in Accounts : Finds(a) \/ InitStart(a)
                          \/ \E restored \in SUBSET (Deadlines \ {"rate"}), depleted \in BOOLEAN :
                                Register(a, restored, depleted)
                    \/ \E c \in initializing : InitEnd(c)
  OBVIOUS
<1>1. ASSUME NEW r \in Requests, Serve(r)
      PROVE  Walks(r) \/ Succeed(r) \/ \E k \in Errors : Fail(r, k)
  BY <1>1 DEF Serve, Walks
<1>2. ASSUME NEW r \in Requests, (\E s \in Sessions \cup {None} : Arrive(r, s)) \/ Abandon(r)
      PROVE  Walks(r)
  BY <1>2 DEF Walks
<1> QED BY <1>1, <1>2 DEF Next, Step, Pauses, Removes, Finds

----------------------------------------------------------------------------
(* The requests.                                                           *)

\* Where a request may be while the data plane is drained.
Waiting == {"idle", "arriving", "counted", "done"}

Answers == Unavailabilities \cup {"none", "served", "failed", "paused", "gone"}

LEMMA IdleShape == Idle \in RequestRecs
<1>1. "idle" \in Places /\ 0 \in 0..MaxObjects /\ 0 \in Nat /\ {} \in SUBSET Candidates
      /\ {} \in SUBSET Accounts
  BY RoutingAssumption DEF Places
<1> QED BY <1>1 DEF Idle, RequestRecs

LEMMA EndedShape ==
    ASSUME MembersTyped, NEW r, NEW answer \in Answers
    PROVE  Ended(r, answer) \in RequestRecs /\ Fenced(Ended(r, answer)) /\ Ended(r, answer).at = "done"
<1>1. "done" \in Places /\ answer \in Unavailabilities \cup {"none", "served", "failed", "paused", "gone"}
  BY DEF Places, Answers
<1>2. Ended(r, answer) \in RequestRecs /\ Ended(r, answer).at = "done" /\ Ended(r, answer).left = {}
  <2>1. Idle.left = {} BY DEF Idle
  <2>2. [Idle EXCEPT !.at = "done", !.answer = answer] \in RequestRecs
    BY <1>1, IdleShape DEF RequestRecs
  <2>3. /\ [Idle EXCEPT !.at = "done", !.answer = answer].at = "done"
        /\ [Idle EXCEPT !.at = "done", !.answer = answer].left = Idle.left
    BY IdleShape DEF RequestRecs
  <2> QED BY <2>1, <2>2, <2>3 DEF Ended
<1> QED BY <1>2 DEF Fenced

\* A candidate is a member's live object.
LEMMA CandidatesTyped ==
    ASSUME MembersTyped, NEW tried
    PROVE  {<<a, object[a]>> : a \in Members \ tried} \in SUBSET Candidates
           /\ \A c \in {<<a, object[a]>> : a \in Members \ tried} : c[2] <= made
<1>1. \A a \in Members : a \in Accounts /\ object[a] \in 1..made /\ object[a] \in 1..MaxObjects
  BY RoutingAssumption DEF MembersTyped, Members
<1> QED BY <1>1 DEF Candidates

LEMMA UnavailabilityTyped == Unavailability \in Answers
  BY DEF Unavailability, Answers, Unavailabilities

\* Such a step leaves a request record that is fenced, and does not begin to
\* serve while the data plane is paused.
Served(r, q) ==
    /\ req' = [req EXCEPT ![r] = q]
    /\ q \in RequestRecs
    /\ Fenced(q)
    /\ Paused /\ req[r].at \in Waiting => q.at \in Waiting

LEMMA WalkShape ==
    ASSUME MembersTyped, PinsTyped, ReqTyped, RequestsFenced, HealthTyped,
           NEW r \in Requests, Walks(r)
    PROVE  /\ UNCHANGED <<memberVars, current, health, initializing, pinVars, disabling>>
           /\ \E q : Served(r, q)
<1>0. UNCHANGED <<memberVars, current, health, initializing, pinVars, disabling>>
  <2>1. ASSUME NEW s \in Sessions \cup {None}, Arrive(r, s)
        PROVE  UNCHANGED <<memberVars, current, health, initializing, pinVars, disabling>>
    BY <2>1 DEF Arrive
  <2>2. ASSUME NEW c \in req[r].left, Take(r, c) \/ Skip(r, c)
        PROVE  UNCHANGED <<memberVars, current, health, initializing, pinVars, disabling>>
    BY <2>2 DEF Take, Skip
  <2>3. CASE Enter(r) \/ Admit(r) \/ Choose(r) \/ Order(r) \/ Confirm(r) \/ Exhaust(r) \/ Conclude(r) \/ Abandon(r)
    BY <2>3 DEF Enter, Admit, Choose, Order, Confirm, Exhaust, Conclude, Abandon
  <2> QED BY <2>1, <2>2, <2>3 DEF Walks
<1> SUFFICES \E q : Served(r, q)
  BY <1>0
<1> DEFINE p == req[r]
<1>1. p \in RequestRecs /\ Fenced(p)
  BY DEF ReqTyped, RequestsFenced
<1>p. {"idle", "arriving", "counted", "choosing", "ordering", "scanning", "checked",
       "attempting", "concluding", "done"} \subseteq Places /\ 0 \in 0..MaxObjects
  BY RoutingAssumption DEF Places
<1>2. ASSUME NEW s \in Sessions \cup {None}, Arrive(r, s)
      PROVE  \E q : Served(r, q)
  <2> DEFINE q == [Idle EXCEPT !.at = "arriving", !.session = s]
  <2>1. q \in RequestRecs /\ q.left = {} /\ q.at = "arriving"
    <3>1. Idle.left = {} BY DEF Idle
    <3>2. q \in RequestRecs /\ q.left = Idle.left /\ q.at = "arriving"
      BY <1>p, IdleShape DEF RequestRecs
    <3> QED BY <3>1, <3>2
  <2>2. CASE Paused
    <3>1. req' = [req EXCEPT ![r] = Ended(r, "paused")] BY <1>2, <2>2 DEF Arrive
    <3> QED BY <3>1, EndedShape DEF Served, Answers, Waiting
  <2>3. CASE ~Paused
    <3>1. req' = [req EXCEPT ![r] = q] BY <1>2, <2>3 DEF Arrive
    <3>2. Fenced(q) BY <2>1 DEF Fenced
    <3> HIDE DEF q
    <3> QED BY <2>1, <2>3, <3>1, <3>2 DEF Served
  <2> QED BY <2>2, <2>3
<1>3. CASE Enter(r)
  <2> DEFINE q == [p EXCEPT !.at = "counted"]
  <2>1. q \in RequestRecs /\ q.left = p.left /\ q.at = "counted"
    BY <1>1, <1>p DEF RequestRecs
  <2>2. req' = [req EXCEPT ![r] = q] BY <1>3 DEF Enter, ReqTyped
  <2> HIDE DEF q
  <2> QED BY <1>1, <2>1, <2>2 DEF Served, Fenced, Waiting
<1>4. CASE Admit(r)
  <2> DEFINE limit == IF order = <<>> THEN 1 ELSE 2 * Len(order)
             alone == Len(order) = 1
             q == [p EXCEPT !.at = "choosing", !.single = alone, !.limit = limit]
  <2>1. CASE TurnedAway(r)
    <3>1. req' = [req EXCEPT ![r] = Ended(r, "paused")] BY <1>4, <2>1 DEF Admit
    <3> QED BY <3>1, EndedShape DEF Served, Answers, Waiting
  <2>2. CASE ~TurnedAway(r)
    <3>1. req' = [req EXCEPT ![r] = q] BY <1>4, <2>2 DEF Admit
    <3>2. Len(order) \in Nat BY LenProperties DEF MembersTyped
    <3>3. limit \in Nat /\ alone \in BOOLEAN BY <3>2
    <3> HIDE DEF limit, alone
    <3>4. q \in RequestRecs /\ q.left = p.left /\ q.at = "choosing"
      BY <1>1, <1>p, <3>3 DEF RequestRecs
    <3> HIDE DEF q
    <3> QED BY <1>1, <2>2, <3>1, <3>4 DEF Served, Fenced, TurnedAway
  <2> QED BY <2>1, <2>2
<1>5. CASE Choose(r)
  <2> DEFINE q == [p EXCEPT !.at = "ordering", !.lone = Len(order) = 1]
  <2>1. q \in RequestRecs /\ q.left = p.left /\ q.at = "ordering"
    BY <1>1, <1>p DEF RequestRecs
  <2>2. req' = [req EXCEPT ![r] = q] BY <1>5 DEF Choose, ReqTyped
  <2> HIDE DEF q
  <2> QED BY <1>1, <1>5, <2>1, <2>2 DEF Served, Fenced, Waiting, Choose
<1>6. CASE Order(r)
  <2>1. PICK full \in BOOLEAN :
          LET first == IF PinFirst(p.session) /\ ~full THEN pins[p.session] ELSE None
          IN  req' = [req EXCEPT ![r].at = "scanning",
                                 ![r].left = {<<a, object[a]>> : a \in Members \ req[r].tried},
                                 ![r].first = IF first \in req[r].tried THEN None ELSE first]
    BY <1>6 DEF Order
  <2> DEFINE lead == IF PinFirst(p.session) /\ ~full THEN pins[p.session] ELSE None
             first == IF lead \in p.tried THEN None ELSE lead
             left == {<<a, object[a]>> : a \in Members \ p.tried}
             q == [p EXCEPT !.at = "scanning", !.left = left, !.first = first]
  <2>2. first \in Accounts \cup {None}
    BY DEF PinFirst, Members
  <2>3. left \in SUBSET Candidates /\ \A c \in left : c[2] <= made
    BY CandidatesTyped
  <2>4. req' = [req EXCEPT ![r] = q] BY <2>1 DEF ReqTyped
  <2> HIDE DEF left, first, lead
  <2>5. q \in RequestRecs /\ q.left = left /\ q.at = "scanning"
    BY <1>1, <1>p, <2>2, <2>3 DEF RequestRecs
  <2> HIDE DEF q
  <2> QED BY <1>6, <2>3, <2>4, <2>5 DEF Served, Fenced, Waiting, Order
<1>7. ASSUME NEW c \in p.left, Take(r, c)
      PROVE  \E q : Served(r, q)
  <2> DEFINE q == [p EXCEPT !.at = "checked", !.account = c[1], !.object = c[2]]
  <2>1. p.left \in SUBSET Candidates BY <1>1, <1>p DEF RequestRecs
  <2>2. c[1] \in Accounts /\ c[2] \in 1..MaxObjects BY <2>1 DEF Candidates
  <2>a. c[1] \in Accounts \cup {None} /\ c[2] \in 0..MaxObjects BY <2>2, RoutingAssumption
  <2>3. c[2] \in 1..made BY <1>1, <2>2 DEF Fenced, MembersTyped
  <2>4. q \in RequestRecs /\ q.left = p.left /\ q.at = "checked" /\ q.account = c[1] /\ q.object = c[2]
    BY <1>1, <1>p, <2>a DEF RequestRecs
  <2>5. req' = [req EXCEPT ![r] = q] BY <1>7 DEF Take, ReqTyped
  <2>6. health[c[1]].auth BY <1>7 DEF Take, Eligible
  <2> HIDE DEF q
  <2>7. Fenced(q)
    BY <1>1, <2>2, <2>3, <2>4, <2>6 DEF Fenced
  <2> QED BY <1>7, <2>4, <2>5, <2>7 DEF Served, Waiting, Take
<1>8. ASSUME NEW c \in p.left, Skip(r, c)
      PROVE  \E q : Served(r, q)
  <2> DEFINE q == [p EXCEPT !.left = @ \ {c}, !.first = None]
  <2>1. q \in RequestRecs /\ q.left = p.left \ {c} /\ q.at = p.at
    BY <1>1, <1>p DEF RequestRecs
  <2>2. req' = [req EXCEPT ![r] = q] BY <1>8 DEF Skip, ReqTyped
  <2>3. p.at = "scanning" BY <1>8 DEF Skip
  <2> HIDE DEF q
  <2>4. Fenced(q) BY <1>1, <2>1, <2>3 DEF Fenced
  <2> QED BY <2>1, <2>2, <2>3, <2>4 DEF Served, Waiting
<1>9. CASE Confirm(r)
  <2>1. p.at = "checked" BY <1>9 DEF Confirm
  <2>2. p.account \in Accounts BY <1>1, <2>1 DEF Fenced
  <2>a. req' = [req EXCEPT ![r] =
            IF object[p.account] = p.object
            THEN [p EXCEPT !.at = "attempting", !.tried = p.tried \cup {p.account},
                           !.attempts = p.attempts + 1, !.left = {}, !.first = None]
            ELSE [p EXCEPT !.at = "scanning", !.first = None,
                           !.left = p.left \ {<<p.account, p.object>>},
                           !.account = None, !.object = 0]]
    BY <1>9 DEF Confirm
  <2>3. CASE object[p.account] = p.object
    <3> DEFINE q == [p EXCEPT !.at = "attempting", !.tried = p.tried \cup {p.account},
                              !.attempts = p.attempts + 1, !.left = {}, !.first = None]
    <3>a. p.tried \cup {p.account} \in SUBSET Accounts /\ p.attempts + 1 \in Nat
          /\ {} \in SUBSET Candidates
      BY <1>1, <2>2 DEF RequestRecs
    <3>1. q \in RequestRecs /\ q.left = {} /\ q.at = "attempting" /\ q.account = p.account /\ q.object = p.object
      BY <1>1, <1>p, <3>a DEF RequestRecs
    <3>2. req' = [req EXCEPT ![r] = q] BY <2>a, <2>3
    <3> HIDE DEF q
    <3>3. Fenced(q) BY <1>1, <2>1, <3>1 DEF Fenced
    <3> QED BY <2>1, <3>1, <3>2, <3>3 DEF Served, Waiting
  <2>4. CASE object[p.account] # p.object
    <3> DEFINE q == [p EXCEPT !.at = "scanning", !.first = None,
                              !.left = p.left \ {<<p.account, p.object>>}, !.account = None, !.object = 0]
    <3>1. q \in RequestRecs /\ q.left \subseteq p.left /\ q.at = "scanning"
      BY <1>1, <1>p, RoutingAssumption DEF RequestRecs
    <3>2. req' = [req EXCEPT ![r] = q] BY <2>a, <2>4
    <3> HIDE DEF q
    <3>3. Fenced(q) BY <1>1, <3>1 DEF Fenced
    <3> QED BY <2>1, <3>1, <3>2, <3>3 DEF Served, Waiting
  <2> QED BY <2>3, <2>4
<1>10. CASE Exhaust(r)
  <2>1. p.at = "scanning" /\ p.left = {} BY <1>10 DEF Exhaust
  <2> DEFINE q == [p EXCEPT !.at = "choosing", !.last = TRUE]
             t == [p EXCEPT !.at = "concluding"]
  <2>2. q \in RequestRecs /\ q.left = p.left /\ q.at = "choosing"
    BY <1>1, <1>p DEF RequestRecs
  <2>3. t \in RequestRecs /\ t.left = p.left /\ t.at = "concluding"
    BY <1>1, <1>p DEF RequestRecs
  <2>4. req' = [req EXCEPT ![r] = q] \/ req' = [req EXCEPT ![r] = t] BY <1>10 DEF Exhaust, ReqTyped
  <2> HIDE DEF q, t
  <2>5. Fenced(q) /\ Fenced(t) BY <2>1, <2>2, <2>3 DEF Fenced
  <2> QED BY <2>1, <2>2, <2>3, <2>4, <2>5 DEF Served, Waiting
<1>11. CASE Conclude(r)
  BY <1>11, EndedShape, UnavailabilityTyped DEF Conclude, Served, Waiting
<1>12. CASE Abandon(r)
  BY <1>12, EndedShape DEF Abandon, Served, Waiting, Answers
<1> QED BY <1>2, <1>3, <1>4, <1>5, <1>6, <1>7, <1>8, <1>9, <1>10, <1>11, <1>12 DEF Walks

----------------------------------------------------------------------------
(* What is known of the accounts.                                          *)

LEMMA FreshTyped ==
    ASSUME NEW restored \in SUBSET Barring, NEW depleted \in BOOLEAN
    PROVE  /\ Fresh(restored, depleted) \in Health
           /\ Fresh(restored, depleted).auth = FALSE
           /\ Fresh(restored, depleted).support = "unknown"
  BY DEF Fresh, Health

LEMMA ServingAgainTyped ==
    ASSUME NEW h \in Health
    PROVE  ServingAgain(h) \in Health /\ ServingAgain(h).auth = h.auth
  BY DEF ServingAgain, Health

LEMMA PenalisedTyped ==
    ASSUME NEW h \in Health, NEW k \in Errors
    PROVE  /\ Penalised(h, k) \in Health /\ Penalised(h, k).auth = h.auth
           /\ Penalised(h, k).support # "unknown" => h.support # "unknown" \/ k = "invalid_model"
<1>1. CASE k = "invalid_model"
  <2>1. Penalised(h, k) = [h EXCEPT !.support = "unsupported"] BY <1>1 DEF Penalised, Barring
  <2> QED BY <1>1, <2>1 DEF Health
<1>2. CASE k = "transient"
  <2>1. Penalised(h, k) = [h EXCEPT !.cooling = TRUE] BY <1>2 DEF Penalised, Barring
  <2> QED BY <2>1 DEF Health
<1>3. CASE k \in Barring
  <2>1. h.barred \cup {k} \in SUBSET Barring BY <1>3 DEF Health
  <2>2. k # "invalid_model" /\ k # "transient" BY <1>3 DEF Barring
  <2>3. Penalised(h, k) = [h EXCEPT !.barred = h.barred \cup {k}]
    BY <1>3, <2>2 DEF Penalised
  <2> QED BY <2>1, <2>3 DEF Health
<1>4. CASE k = "fatal"
  <2>1. k \notin Barring BY <1>4 DEF Barring
  <2>2. Penalised(h, k) = h BY <1>4, <2>1 DEF Penalised
  <2> QED BY <2>2
<1> QED BY <1>1, <1>2, <1>3, <1>4, RoutingAssumption DEF Errors

\* The credentials of an object that stays are kept.
AuthKept == \A a \in Accounts : object'[a] = object[a] /\ health[a].auth => health'[a].auth

\* One account's record becomes h, which knows no model without credentials and
\* does not lose them.
LEMMA OneLearns ==
    ASSUME HealthTyped, EvidenceOwned, InitOnce,
           NEW a \in Accounts, NEW h \in Health,
           health' = [health EXCEPT ![a] = h],
           h.support # "unknown" => h.auth,
           h.auth = health[a].auth,
           UNCHANGED <<memberVars, initializing>>
    PROVE  HealthTyped' /\ EvidenceOwned' /\ InitOnce' /\ AuthKept
<1>1. HealthTyped'
  BY DEF HealthTyped
<1>2. \A b \in Accounts : health'[b] = IF b = a THEN h ELSE health[b]
  BY DEF HealthTyped
<1>3. EvidenceOwned'
  BY <1>2 DEF EvidenceOwned
<1>4. InitOnce' /\ AuthKept
  BY <1>2 DEF InitOnce, AuthKept, memberVars, Candidates
<1> QED BY <1>1, <1>3, <1>4

LEMMA FindsHealth ==
    ASSUME HealthTyped, EvidenceOwned, InitOnce, NEW a \in Accounts, Finds(a)
    PROVE  HealthTyped' /\ EvidenceOwned' /\ InitOnce' /\ AuthKept
<1> DEFINE h == health[a]
<1>1. h \in Health /\ (h.support # "unknown" => h.auth)
  BY DEF HealthTyped, EvidenceOwned
<1>2. UNCHANGED <<memberVars, initializing>>
  BY DEF Finds, CatalogRead, LoginReported, UsagePolled, DeadlinePasses, ProbeRevoked
<1>3. CASE CatalogRead(a)
  <2>1. PICK x \in {"supported", "unsupported"} : health' = [health EXCEPT ![a].support = x]
    BY <1>3 DEF CatalogRead
  <2> DEFINE z == [h EXCEPT !.support = x]
  <2>2. health' = [health EXCEPT ![a] = z] BY <2>1
  <2>3. h.auth BY <1>3 DEF CatalogRead
  <2>4. z \in Health /\ z.auth = h.auth BY <1>1 DEF Health
  <2> HIDE DEF z
  <2> QED BY <1>1, <1>2, <2>2, <2>3, <2>4, OneLearns
<1>4. CASE LoginReported(a)
  <2>1. PICK x \in BOOLEAN : health' = [health EXCEPT ![a].issue = x]
    BY <1>4 DEF LoginReported
  <2> DEFINE z == [h EXCEPT !.issue = x]
  <2>2. health' = [health EXCEPT ![a] = z] BY <2>1
  <2>3. z \in Health /\ z.auth = h.auth /\ z.support = h.support BY <1>1 DEF Health
  <2> HIDE DEF z
  <2> QED BY <1>1, <1>2, <2>2, <2>3, OneLearns
<1>5. CASE UsagePolled(a)
  <2>1. PICK x \in BOOLEAN : health' = [health EXCEPT ![a].depleted = x]
    BY <1>5 DEF UsagePolled
  <2> DEFINE z == [h EXCEPT !.depleted = x]
  <2>2. health' = [health EXCEPT ![a] = z] BY <2>1
  <2>3. z \in Health /\ z.auth = h.auth /\ z.support = h.support BY <1>1 DEF Health
  <2> HIDE DEF z
  <2> QED BY <1>1, <1>2, <2>2, <2>3, OneLearns
<1>6. CASE DeadlinePasses(a)
  <2>1. ASSUME NEW d \in h.barred, health' = [health EXCEPT ![a].barred = @ \ {d}]
        PROVE  HealthTyped' /\ EvidenceOwned' /\ InitOnce' /\ AuthKept
    <3> DEFINE z == [h EXCEPT !.barred = h.barred \ {d}]
    <3>1. health' = [health EXCEPT ![a] = z] BY <2>1
    <3>2. h.barred \ {d} \in SUBSET Barring BY <1>1 DEF Health
    <3>3. z \in Health /\ z.auth = h.auth /\ z.support = h.support BY <1>1, <3>2 DEF Health
    <3> HIDE DEF z
    <3> QED BY <1>1, <1>2, <3>1, <3>3, OneLearns
  <2>2. CASE health' = [health EXCEPT ![a].cooling = FALSE]
    <3> DEFINE z == [h EXCEPT !.cooling = FALSE]
    <3>1. health' = [health EXCEPT ![a] = z] BY <2>2
    <3>2. z \in Health /\ z.auth = h.auth /\ z.support = h.support BY <1>1 DEF Health
    <3> HIDE DEF z
    <3> QED BY <1>1, <1>2, <3>1, <3>2, OneLearns
  <2> QED BY <1>6, <2>1, <2>2 DEF DeadlinePasses
<1>7. CASE ProbeRevoked(a)
  <2> DEFINE z == [h EXCEPT !.barred = h.barred \cup {"auth_dead"}]
  <2>1. health' = [health EXCEPT ![a] = z] BY <1>7 DEF ProbeRevoked
  <2>2. h.barred \cup {"auth_dead"} \in SUBSET Barring BY <1>1 DEF Health, Barring
  <2>3. z \in Health /\ z.auth = h.auth /\ z.support = h.support BY <1>1, <2>2 DEF Health
  <2> HIDE DEF z
  <2> QED BY <1>1, <1>2, <2>1, <2>3, OneLearns
<1> QED BY <1>3, <1>4, <1>5, <1>6, <1>7 DEF Finds

LEMMA OutcomeHealth ==
    ASSUME HealthTyped, EvidenceOwned, InitOnce, MembersTyped, ReqTyped, RequestsFenced,
           NEW r \in Requests, Succeed(r) \/ \E k \in Errors : Fail(r, k)
    PROVE  HealthTyped' /\ EvidenceOwned' /\ InitOnce' /\ AuthKept
<1> DEFINE a == req[r].account
           h == health[a]
<1>1. a \in Accounts /\ req[r].object \in 1..made /\ (Live(r) => h.auth)
  BY DEF RequestsFenced, Fenced, Succeed, Fail, Live
<1>2. h \in Health /\ (h.support # "unknown" => h.auth)
  BY <1>1 DEF HealthTyped, EvidenceOwned
<1>3. UNCHANGED <<memberVars, initializing>>
  BY DEF Succeed, Fail
<1>4. CASE health' = health
  BY <1>3, <1>4 DEF HealthTyped, EvidenceOwned, InitOnce, AuthKept, memberVars, Candidates
<1>5. CASE Succeed(r) /\ Live(r)
  <2>1. health' = [health EXCEPT ![a] = ServingAgain(h)] BY <1>5 DEF Succeed
  <2> QED BY <1>1, <1>2, <1>3, <1>5, <2>1, ServingAgainTyped, OneLearns
<1>6. ASSUME NEW k \in Errors, Fail(r, k), Live(r)
      PROVE  HealthTyped' /\ EvidenceOwned' /\ InitOnce' /\ AuthKept
  <2>1. health' = [health EXCEPT ![a] = Penalised(h, k)] BY <1>6 DEF Fail
  <2> QED BY <1>1, <1>2, <1>3, <1>6, <2>1, PenalisedTyped, OneLearns
<1>7. CASE ~Live(r)
  BY <1>4, <1>7 DEF Succeed, Fail
<1> QED BY <1>5, <1>6, <1>7

LEMMA InitializeHealth ==
    ASSUME HealthTyped, EvidenceOwned, InitOnce, MembersTyped, NEW c \in initializing, InitEnd(c)
    PROVE  HealthTyped' /\ EvidenceOwned' /\ InitOnce' /\ AuthKept
<1> DEFINE a == c[1]
           h == health[a]
<1>1. a \in Accounts /\ c[2] \in 1..MaxObjects /\ c = <<c[1], c[2]>>
  BY DEF InitOnce, Candidates
<1>2. h \in Health /\ (h.support # "unknown" => h.auth)
  BY <1>1 DEF HealthTyped, EvidenceOwned
<1>3. UNCHANGED memberVars /\ initializing' = initializing \ {c}
  BY DEF InitEnd
<1>4. CASE health' = health
  BY <1>3, <1>4 DEF HealthTyped, EvidenceOwned, InitOnce, AuthKept, memberVars, Candidates
<1>5. ASSUME NEW z \in Health, health' = [health EXCEPT ![a] = z], object[a] = c[2],
             z.support # "unknown" => z.auth
      PROVE  HealthTyped' /\ EvidenceOwned' /\ InitOnce' /\ AuthKept
  <2>1. HealthTyped' /\ \A b \in Accounts : health'[b] = IF b = a THEN z ELSE health[b]
    BY <1>5 DEF HealthTyped
  <2>2. EvidenceOwned'
    BY <1>5, <2>1 DEF EvidenceOwned
  <2>3. ~h.auth
    BY <1>5 DEF InitOnce
  <2>4. AuthKept
    BY <1>1, <2>1, <2>3 DEF AuthKept
  <2>5. ASSUME NEW d \in initializing', object'[d[1]] = d[2]
        PROVE  ~health'[d[1]].auth
    <3>1. d \in initializing /\ d # c /\ d[1] \in Accounts /\ d = <<d[1], d[2]>> /\ object[d[1]] = d[2]
      BY <1>3, <2>5 DEF InitOnce, Candidates, memberVars
    <3>2. d[1] # a
      BY <1>1, <1>5, <3>1
    <3> QED BY <2>1, <3>1, <3>2 DEF InitOnce
  <2>6. \A d \in initializing' : d \in Candidates /\ d[2] <= made'
    BY <1>3 DEF InitOnce, memberVars
  <2> QED BY <2>1, <2>2, <2>4, <2>5, <2>6 DEF InitOnce
<1>6. ASSUME object[a] = c[2], "auth_dead" \in Deadlines,
             health' = [health EXCEPT ![a].barred = @ \cup {"auth_dead"}]
      PROVE  HealthTyped' /\ EvidenceOwned' /\ InitOnce' /\ AuthKept
  <2> DEFINE z == [h EXCEPT !.barred = h.barred \cup {"auth_dead"}]
  <2>1. health' = [health EXCEPT ![a] = z] BY <1>6
  <2>2. h.barred \cup {"auth_dead"} \in SUBSET Barring BY <1>2 DEF Health, Barring
  <2>3. z \in Health /\ z.auth = h.auth /\ z.support = h.support BY <1>2, <2>2 DEF Health
  <2> HIDE DEF z
  <2> QED BY <1>2, <1>5, <1>6, <2>1, <2>3
<1>7. ASSUME object[a] = c[2],
             NEW bound \in {h, Fresh({}, h.depleted)}, NEW publish \in BOOLEAN,
             NEW support \in {"supported", "unsupported", "unknown"},
             health' = [health EXCEPT ![a] = IF publish
                                             THEN [bound EXCEPT !.auth = TRUE, !.support = support]
                                             ELSE bound]
      PROVE  HealthTyped' /\ EvidenceOwned' /\ InitOnce' /\ AuthKept
  <2> DEFINE z == IF publish THEN [bound EXCEPT !.auth = TRUE, !.support = support] ELSE bound
  <2>1. h.depleted \in BOOLEAN BY <1>2 DEF Health
  <2> DEFINE f == Fresh({}, h.depleted)
  <2>a. f \in Health /\ f.support = "unknown"
    BY <2>1 DEF Fresh, Health
  <2> HIDE DEF f
  <2>2. bound \in Health /\ (bound.support # "unknown" => bound.auth)
    <3>1. bound \in {h, f} BY DEF f
    <3> QED BY <1>2, <2>a, <3>1
  <2>3. [bound EXCEPT !.auth = TRUE, !.support = support] \in Health
        /\ [bound EXCEPT !.auth = TRUE, !.support = support].auth = TRUE
    BY <2>2 DEF Health
  <2>4. z \in Health /\ (z.support # "unknown" => z.auth)
    BY <2>2, <2>3
  <2> HIDE DEF z
  <2> QED BY <1>5, <1>7, <2>4 DEF z
<1>8. CASE object[a] # c[2]
  BY <1>4, <1>8 DEF InitEnd
<1>9. CASE object[a] = c[2]
  <2>1. \/ health' = health
        \/ "auth_dead" \in Deadlines /\ health' = [health EXCEPT ![a].barred = @ \cup {"auth_dead"}]
        \/ \E bound \in {h, Fresh({}, h.depleted)}, publish \in BOOLEAN,
              support \in {"supported", "unsupported", "unknown"} :
              health' = [health EXCEPT ![a] = IF publish
                                              THEN [bound EXCEPT !.auth = TRUE, !.support = support]
                                              ELSE bound]
    BY <1>9 DEF InitEnd
  <2> QED BY <1>4, <1>6, <1>7, <1>9, <2>1
<1> QED BY <1>8, <1>9

\* The objects of the accounts: a step keeps an account's object, or takes it
\* away, or gives it one that nothing has seen yet.
Renewed(a) == object'[a] \notin 1..made /\ ~health'[a].auth /\ health'[a].support = "unknown"
LEMMA RenewHealth ==
    ASSUME HealthTyped, EvidenceOwned, InitOnce, MembersTyped,
           NEW a \in Accounts, Renewed(a),
           NEW h \in Health, health' = [health EXCEPT ![a] = h],
           NEW n, object' = [object EXCEPT ![a] = n], object'[a] # object[a],
           made' \in {made, made + 1}, UNCHANGED initializing
    PROVE  HealthTyped' /\ EvidenceOwned' /\ InitOnce' /\ AuthKept
<1>1. HealthTyped' /\ \A b \in Accounts : health'[b] = IF b = a THEN h ELSE health[b]
  BY DEF HealthTyped
<1>2. \A b \in Accounts \ {a} : object'[b] = object[b]
  BY DEF MembersTyped
<1>3. EvidenceOwned'
  BY <1>1 DEF EvidenceOwned, Renewed
<1>4. AuthKept
  BY <1>1, <1>2 DEF AuthKept
<1>5. ASSUME NEW c \in initializing
      PROVE  c \in Candidates /\ c[2] <= made' /\ (object'[c[1]] = c[2] => ~health'[c[1]].auth)
  <2>1. c \in Candidates /\ c[1] \in Accounts /\ c[2] \in 1..made
    BY DEF InitOnce, Candidates, MembersTyped
  <2>2. c[2] <= made'
    BY <2>1 DEF MembersTyped
  <2> QED BY <1>1, <1>2, <2>1, <2>2 DEF InitOnce, Renewed
<1>6. InitOnce'
  BY <1>5 DEF InitOnce
<1> QED BY <1>1, <1>3, <1>4, <1>6

----------------------------------------------------------------------------
(* The members.                                                            *)

LEMMA PositionTyped ==
    ASSUME MembersTyped, NEW a \in Members
    PROVE  Position(a) \in 1..Len(order) /\ order[Position(a)] = a
<1>1. \E i \in 1..Len(order) : order[i] = a
  BY DEF MembersTyped
<1> QED BY <1>1 DEF Position

LEMMA OrderTyped ==
    ASSUME MembersTyped
    PROVE  Len(order) \in Nat /\ (order # <<>> <=> Len(order) > 0)
           /\ \A i \in 1..Len(order) : order[i] \in Accounts /\ order[i] \in Members
<1>1. order \in Seq(Accounts) /\ \A i \in 1..Len(order) : order[i] \in Members
  BY DEF MembersTyped
<1> QED BY <1>1, EmptySeq, LenProperties, ElementOfSeq

\* The list, the pointer and the account pointed at when a member leaves.
LEMMA RemoveMembers ==
    ASSUME MembersTyped, NEW a \in Members, RemoveAccount(a)
    PROVE  /\ MembersTyped'
           /\ Members' = Members \ {a}
           /\ order # <<>> /\ object'[order[current + 1]] # 0 => order'[current' + 1] = order[current + 1]
<1> DEFINE p == Position(a)
           n == Len(order)
<1>1. p \in 1..n /\ order[p] = a /\ n \in Nat /\ order # <<>>
  BY PositionTyped, OrderTyped
<1>2. order \in Seq(Accounts) /\ current \in Nat /\ current < n
  BY <1>1 DEF MembersTyped
<1>3. /\ order' \in Seq(Accounts)
      /\ Len(order') = n - 1
      /\ \A i \in 1..(n - 1) : order'[i] = IF i < p THEN order[i] ELSE order[i + 1]
  BY <1>1, <1>2, RemoveAtFacts DEF RemoveAccount
<1>4. current' = PointerAfter(p - 1, n - 1)
  BY DEF RemoveAccount
<1> HIDE DEF p, n
<1>5. current' \in Nat /\ (n - 1 > 0 => current' < n - 1) /\ (n - 1 = 0 => current' = 0)
  BY <1>1, <1>2, <1>4 DEF PointerAfter
<1>6. object' = [object EXCEPT ![a] = 0] /\ made' = made /\ a \in Accounts
  BY DEF RemoveAccount, Members
<1>7. object' \in [Accounts -> 0..made] /\ \A b \in Accounts : object'[b] = IF b = a THEN 0 ELSE object[b]
  BY <1>6 DEF MembersTyped
<1>8. Members' = Members \ {a}
  BY <1>7 DEF Members
<1>9. \A i, j \in 1..n : i # j => order[i] # order[j]
  BY DEF MembersTyped, n
<1>10. \A i, j \in 1..(n - 1) : i # j => order'[i] # order'[j]
  <2> SUFFICES ASSUME NEW i \in 1..(n - 1), NEW j \in 1..(n - 1), i # j
               PROVE  order'[i] # order'[j]
    OBVIOUS
  <2> DEFINE u(k) == IF k < p THEN k ELSE k + 1
  <2>1. u(i) \in 1..n /\ u(j) \in 1..n /\ u(i) # u(j)
    BY <1>1
  <2>2. order'[i] = order[u(i)] /\ order'[j] = order[u(j)]
    BY <1>3
  <2> QED BY <1>9, <2>1, <2>2
<1>11. ASSUME NEW i \in 1..(n - 1) PROVE order'[i] \in Members \ {a}
  <2> DEFINE k == IF i < p THEN i ELSE i + 1
  <2>1. k \in 1..n /\ k # p /\ order'[i] = order[k]
    BY <1>1, <1>3
  <2>2. order[k] \in Members BY <2>1, OrderTyped DEF n
  <2> QED BY <1>1, <1>9, <2>1, <2>2
<1>12. ASSUME NEW b \in Members \ {a} PROVE \E i \in 1..(n - 1) : order'[i] = b
  <2>1. PICK k \in 1..n : order[k] = b
    BY DEF MembersTyped, n
  <2>2. k # p BY <1>1, <2>1
  <2>3. CASE k < p
    <3>1. k \in 1..(n - 1) BY <1>1, <2>3
    <3> QED BY <1>3, <2>1, <2>3, <3>1
  <2>4. CASE k > p
    <3>1. k - 1 \in 1..(n - 1) /\ ~(k - 1 < p) /\ (k - 1) + 1 = k BY <1>1, <2>4
    <3> QED BY <1>3, <2>1, <3>1
  <2> QED BY <1>1, <2>2, <2>3, <2>4
<1>13. {order'[i] : i \in 1..(n - 1)} = Members'
  BY <1>8, <1>11, <1>12
<1>14. order' # <<>> <=> n - 1 > 0
  BY <1>1, <1>3, EmptySeq
<1>a. current' < (IF order' = <<>> THEN 1 ELSE Len(order'))
  BY <1>1, <1>3, <1>5, <1>14
<1>15. MembersTyped'
  BY <1>3, <1>5, <1>6, <1>7, <1>10, <1>13, <1>a DEF MembersTyped
<1>16. ASSUME object'[order[current + 1]] # 0 PROVE order'[current' + 1] = order[current + 1]
  <2>1. current + 1 \in 1..n /\ current + 1 # p
    <3>1. order[current + 1] # a BY <1>6, <1>7, <1>16
    <3> QED BY <1>1, <1>2, <3>1
  <2>2. CASE p - 1 < current
    <3>1. current' = current - 1 /\ current' + 1 \in 1..(n - 1) /\ ~(current' + 1 < p) /\ (current' + 1) + 1 = current + 1
      BY <1>1, <1>2, <1>4, <2>1, <2>2 DEF PointerAfter
    <3> QED BY <1>3, <3>1
  <2>3. CASE ~(p - 1 < current)
    <3>1. current' = current /\ current' + 1 \in 1..(n - 1) /\ current' + 1 < p
      BY <1>1, <1>2, <1>4, <2>1, <2>3 DEF PointerAfter
    <3> QED BY <1>3, <3>1
  <2> QED BY <2>2, <2>3
<1> QED BY <1>8, <1>15, <1>16

LEMMA RegisterMembers ==
    ASSUME MembersTyped, NEW a \in Accounts, NEW restored, NEW depleted, Register(a, restored, depleted)
    PROVE  /\ MembersTyped'
           /\ Members' = Members \cup {a}
           /\ order # <<>> => order'[current' + 1] = order[current + 1]
<1> DEFINE n == Len(order)
<1>1. n \in Nat /\ order \in Seq(Accounts) /\ current \in Nat /\ current < n + 1
      /\ (order # <<>> => current < n) /\ (order # <<>> <=> n > 0)
  BY OrderTyped DEF MembersTyped
<1>2. /\ order' \in Seq(Accounts) /\ Len(order') = n + 1
      /\ \A i \in 1..n : order'[i] = order[i]
      /\ order'[n + 1] = a
  BY <1>1, AppendProperties DEF Register
<1>3. made' = made + 1 /\ made' \in 1..MaxObjects /\ made \in Nat /\ current' = current
  BY RoutingAssumption DEF Register, MembersTyped
<1>4. object' \in [Accounts -> 0..made'] /\ \A b \in Accounts : object'[b] = IF b = a THEN made + 1 ELSE object[b]
  BY <1>3 DEF Register, MembersTyped
<1>5. Members' = Members \cup {a}
  BY <1>3, <1>4 DEF Members
<1>6. a \notin Members
  BY DEF Register
<1>7. \A i \in 1..n : order[i] \in Members
  BY OrderTyped
<1>8. \A i, j \in 1..n : i # j => order[i] # order[j]
  BY DEF MembersTyped
<1> HIDE DEF n
<1>9. \A i, j \in 1..(n + 1) : i # j => order'[i] # order'[j]
  <2> SUFFICES ASSUME NEW i \in 1..(n + 1), NEW j \in 1..(n + 1), i # j
               PROVE  order'[i] # order'[j]
    OBVIOUS
  <2>1. CASE i \in 1..n /\ j \in 1..n
    BY <1>2, <1>8, <2>1
  <2>2. CASE i = n + 1 \/ j = n + 1
    BY <1>1, <1>2, <1>6, <1>7, <2>2
  <2> QED BY <1>1, <2>1, <2>2
<1>10. {order[i] : i \in 1..n} = Members
  BY DEF MembersTyped, n
<1>11. {order'[i] : i \in 1..(n + 1)} = Members \cup {a}
  <2>1. ASSUME NEW i \in 1..(n + 1) PROVE order'[i] \in Members \cup {a}
    BY <1>1, <1>2, <1>7
  <2>2. ASSUME NEW b \in Members \cup {a} PROVE \E i \in 1..(n + 1) : order'[i] = b
    <3>1. CASE b = a
      BY <1>1, <1>2, <3>1
    <3>2. CASE b \in Members
      <4>1. PICK i \in 1..n : order[i] = b BY <1>10, <3>2
      <4> QED BY <1>1, <1>2, <4>1
    <3> QED BY <3>1, <3>2
  <2> QED BY <2>1, <2>2
<1>a. current' < (IF order' = <<>> THEN 1 ELSE Len(order')) /\ current' \in Nat
  BY <1>1, <1>2, <1>3, EmptySeq
<1>12. MembersTyped'
  BY <1>2, <1>3, <1>4, <1>5, <1>9, <1>11, <1>a DEF MembersTyped
<1>13. order # <<>> => order'[current' + 1] = order[current + 1]
  BY <1>1, <1>2, <1>3 DEF n
<1> QED BY <1>5, <1>12, <1>13

----------------------------------------------------------------------------
(* The pins.                                                               *)

LEMMA PinnedFinite ==
    /\ IsFiniteSet(Pinned) /\ Cardinality(Pinned) \in Nat
    /\ \A ss \in SUBSET Pinned : IsFiniteSet(ss) /\ Cardinality(ss) \in Nat /\ Cardinality(ss) <= Cardinality(Pinned)
<1>1. IsFiniteSet(Pinned)
  BY RoutingAssumption, FS_Subset DEF Pinned
<1> QED BY <1>1, FS_Subset, FS_CardinalityType

\* A pin stays good while its account keeps its object and its credentials.
LEMMA PinsStay ==
    ASSUME PinsTyped, PinsKept, AuthKept, UNCHANGED <<pins, older>>,
           lapsed' \subseteq Pinned,
           \A a \in Members : object'[a] = object[a]
    PROVE  PinsTyped' /\ PinsKept'
<1>1. Pinned' = Pinned
  BY DEF Pinned
<1>2. PinsTyped'
  BY <1>1 DEF PinsTyped
<1>3. PinsOwned'
  <2> SUFFICES ASSUME NEW s \in Sessions, pins[s] # None
               PROVE  object'[pins[s]] # 0 /\ pins[s] \in Accounts /\ health'[pins[s]].auth
    BY DEF PinsOwned, Members
  <2> QED BY DEF PinsKept, PinsOwned, Members, AuthKept
<1>4. PinsBounded' /\ PinsOrdered'
  BY <1>1 DEF PinsKept, PinsBounded, PinsOrdered
<1> QED BY <1>2, <1>3, <1>4 DEF PinsKept

LEMMA RemovePins ==
    ASSUME PinsTyped, PinsKept, AuthKept, NEW a \in Accounts, RemoveAccount(a),
           \A b \in Accounts \ {a} : object'[b] = object[b]
    PROVE  PinsTyped' /\ PinsKept'
<1>1. pins' = PinsWithout(a) /\ older' = older \cap (Pinned' \X Pinned') /\ lapsed' = lapsed \cap Pinned'
  BY DEF RemoveAccount
<1>2. pins' \in [Sessions -> Accounts \cup {None}]
      /\ \A s \in Sessions : pins'[s] = IF pins[s] = a THEN None ELSE pins[s]
  BY <1>1 DEF PinsWithout, PinsTyped
<1>3. Pinned' \subseteq Pinned /\ \A s \in Pinned' : pins'[s] = pins[s] /\ pins[s] # a
  BY <1>2, RoutingAssumption DEF Pinned
<1>4. PinsTyped'
  BY <1>1, <1>2 DEF PinsTyped
<1>5. PinsOwned'
  <2> SUFFICES ASSUME NEW s \in Sessions, pins'[s] # None
               PROVE  object'[pins'[s]] # 0 /\ pins'[s] \in Accounts /\ health'[pins'[s]].auth
    BY DEF PinsOwned, Members
  <2>1. s \in Pinned' BY DEF Pinned
  <2> QED BY <1>3, <2>1 DEF PinsKept, PinsOwned, Members, AuthKept, Pinned
<1>6. PinsBounded'
  <2>1. Cardinality(Pinned') <= Cardinality(Pinned) /\ Cardinality(Pinned') \in Nat /\ Cardinality(Pinned) \in Nat
    BY <1>3, PinnedFinite
  <2> QED BY <2>1, RoutingAssumption DEF PinsKept, PinsBounded
<1>7. PinsOrdered'
  <2>1. \A s \in Sessions : <<s, s>> \notin older'
    BY <1>1 DEF PinsKept, PinsOrdered
  <2>2. \A s, t, u \in Sessions : <<s, t>> \in older' /\ <<t, u>> \in older' => <<s, u>> \in older'
    BY <1>1 DEF PinsKept, PinsOrdered
  <2>3. \A s, t \in Pinned' : s # t => <<s, t>> \in older' \/ <<t, s>> \in older'
    BY <1>1, <1>3 DEF PinsKept, PinsOrdered
  <2> QED BY <2>1, <2>2, <2>3 DEF PinsOrdered
<1> QED BY <1>4, <1>5, <1>6, <1>7 DEF PinsKept

\* Room is made for a new pin: an eviction frees at least one place.
LEMMA EvictedMakesRoom ==
    ASSUME PinsTyped, PinsKept, NEW s \in Sessions, NEW a \in Accounts
    PROVE  LET out == Evicted(s, a) IN
           /\ out \subseteq Pinned
           /\ pins[s] # a => Cardinality(Pinned \ out) < Capacity
           /\ pins[s] = a => out = {}
<1> DEFINE out == Evicted(s, a)
           live == Pinned \ lapsed
<1>1. out \subseteq Pinned
  BY DEF Evicted, Oldest
<1>2. pins[s] = a => out = {}
  BY DEF Evicted
<1>3. IsFiniteSet(Pinned) /\ Cardinality(Pinned) \in Nat /\ Cardinality(Pinned) <= Capacity /\ Capacity \in Nat \ {0}
  BY PinnedFinite, RoutingAssumption DEF PinsKept, PinsBounded
<1>4. ASSUME pins[s] # a PROVE Cardinality(Pinned \ out) < Capacity
  <2>1. CASE ~Crowded(Cardinality(Pinned))
    <3>1. out = {} BY <2>1 DEF Evicted
    <3>2. Pinned \ out = Pinned BY <3>1
    <3> HIDE DEF out
    <3> QED BY <1>3, <2>1, <3>2 DEF Crowded
  <2>2. CASE Crowded(Cardinality(Pinned)) /\ ~Crowded(Cardinality(live))
    <3>1. out = Pinned \cap lapsed BY <1>4, <2>2 DEF Evicted
    <3>2. Pinned \ out = live BY <3>1
    <3>3. Cardinality(live) \in Nat BY PinnedFinite
    <3> HIDE DEF out, live
    <3> QED BY <1>3, <2>2, <3>2, <3>3 DEF Crowded
  <2>3. CASE Crowded(Cardinality(Pinned)) /\ Crowded(Cardinality(live))
    <3>1. IsFiniteSet(live) /\ Cardinality(live) \in Nat /\ live # {}
      <4>1. IsFiniteSet(live) /\ Cardinality(live) \in Nat BY PinnedFinite
      <4>2. Cardinality(live) # 0 BY <1>3, <2>3, <4>1 DEF Crowded
      <4> QED BY <4>1, <4>2, FS_EmptySet
    <3>2. PICK t \in live : \A u \in live : <<u, t>> \notin older
      <4>1. \A u \in Pinned : u \in Sessions BY DEF Pinned
      <4>2. \A u \in live : <<u, u>> \notin older
        BY <4>1 DEF PinsKept, PinsOrdered
      <4>3. \A u, v, w \in live : <<u, v>> \in older /\ <<v, w>> \in older => <<u, w>> \in older
        BY <4>1 DEF PinsKept, PinsOrdered
      <4> HIDE DEF live
      <4> QED BY <3>1, <4>2, <4>3, LeastExists
    <3>3. t \in out
      BY <1>4, <2>3, <3>2 DEF Evicted, Oldest
    <3>4. Pinned \ out \subseteq Pinned \ {t} /\ t \in Pinned
      BY <3>2, <3>3
    <3>5. IsFiniteSet(Pinned \ {t}) /\ Cardinality(Pinned \ {t}) = Cardinality(Pinned) - 1
      BY <1>3, <3>4, FS_RemoveElement
    <3>6. Cardinality(Pinned \ out) <= Cardinality(Pinned \ {t}) /\ Cardinality(Pinned \ out) \in Nat
      BY <3>4, <3>5, FS_Subset, FS_CardinalityType
    <3> HIDE DEF out
    <3> QED BY <1>3, <3>5, <3>6
  <2> QED BY <2>1, <2>2, <2>3
<1> QED BY <1>1, <1>2, <1>4

LEMMA NewPin ==
    ASSUME PinsTyped, PinsKept, AuthKept, NEW s \in Sessions, NEW a \in Members, Pin(s, a),
           UNCHANGED object, health'[a].auth
    PROVE  PinsTyped' /\ PinsKept'
<1> DEFINE out == Evicted(s, a)
           others == Pinned \ (out \cup {s})
<1>1. a \in Accounts /\ object[a] # 0 /\ a # None
  BY RoutingAssumption DEF Members
<1>2. out \subseteq Pinned /\ (pins[s] # a => Cardinality(Pinned \ out) < Capacity) /\ (pins[s] = a => out = {})
  BY <1>1, EvictedMakesRoom
<1>3. /\ pins' = [t \in Sessions |-> IF t = s THEN a ELSE IF t \in out THEN None ELSE pins[t]]
      /\ older' = (older \cap (others \X others)) \cup (others \X {s})
      /\ lapsed' = lapsed \ (out \cup {s})
  BY DEF Pin
<1> HIDE DEF out
<1>4. pins' \in [Sessions -> Accounts \cup {None}]
  BY <1>1, <1>3 DEF PinsTyped
<1>5. Pinned' = others \cup {s}
  BY <1>1, <1>3 DEF Pinned
<1>6. PinsTyped'
  BY <1>3, <1>4, <1>5 DEF PinsTyped
<1>7. PinsOwned'
  <2> SUFFICES ASSUME NEW t \in Sessions, pins'[t] # None
               PROVE  object[pins'[t]] # 0 /\ pins'[t] \in Accounts /\ health'[pins'[t]].auth
    BY DEF PinsOwned, Members
  <2>1. CASE t = s
    BY <1>1, <1>3, <2>1
  <2>2. CASE t # s
    <3>1. pins'[t] = pins[t] BY <1>3, <2>2
    <3> QED BY <3>1 DEF PinsKept, PinsOwned, Members, AuthKept
  <2> QED BY <2>1, <2>2
<1>8. PinsBounded'
  <2>1. IsFiniteSet(Pinned) /\ Cardinality(Pinned) \in Nat /\ Cardinality(Pinned) <= Capacity /\ Capacity \in Nat
    BY PinnedFinite, RoutingAssumption DEF PinsKept, PinsBounded
  <2>2. CASE pins[s] = a
    <3>1. others \cup {s} = Pinned BY <1>1, <1>2, <2>2 DEF Pinned
    <3> QED BY <1>5, <2>1, <3>1 DEF PinsBounded
  <2>3. CASE pins[s] # a
    <3> DEFINE rest == Pinned \ out
    <3>1. IsFiniteSet(rest) /\ Cardinality(rest) \in Nat
      BY PinnedFinite
    <3>2. Cardinality(rest) + 1 <= Capacity
      BY <1>2, <2>1, <2>3, <3>1
    <3>3. others \cup {s} = rest \cup {s}
      OBVIOUS
    <3> HIDE DEF rest
    <3>4. Cardinality(rest \cup {s}) = IF s \in rest THEN Cardinality(rest) ELSE Cardinality(rest) + 1
      BY <3>1, FS_AddElement
    <3>5. Cardinality(others \cup {s}) <= Capacity
      BY <2>1, <3>1, <3>2, <3>3, <3>4
    <3> QED BY <1>5, <3>5 DEF PinsBounded
  <2> QED BY <2>2, <2>3
<1>9. PinsOrdered'
  <2> HIDE DEF others
  <2>1. others \subseteq Sessions /\ s \notin others /\ others \subseteq Pinned
    BY DEF others, Pinned
  <2>2. \A t \in Sessions : <<t, t>> \notin older'
    BY <1>3, <2>1 DEF PinsKept, PinsOrdered
  <2>3. \A t, u, v \in Sessions : <<t, u>> \in older' /\ <<u, v>> \in older' => <<t, v>> \in older'
    BY <1>3, <2>1 DEF PinsKept, PinsOrdered
  <2>4. \A t, u \in Pinned' : t # u => <<t, u>> \in older' \/ <<u, t>> \in older'
    BY <1>3, <1>5, <2>1 DEF PinsKept, PinsOrdered
  <2> QED BY <2>2, <2>3, <2>4 DEF PinsOrdered
<1> QED BY <1>6, <1>7, <1>8, <1>9 DEF PinsKept

----------------------------------------------------------------------------
(* The invariant is inductive.                                             *)

\* What a request has seen stays good when an object is renewed.
LEMMA FencedStays ==
    ASSUME MembersTyped, made' \in {made, made + 1}, AuthKept,
           \A a \in Accounts : object'[a] = object[a] \/ object'[a] \notin 1..made,
           NEW q \in RequestRecs, Fenced(q)
    PROVE  (Fenced(q))'
<1>1. made \in Nat /\ made <= made' /\ made' \in Nat
  BY RoutingAssumption DEF MembersTyped
<1>2. q.left \in SUBSET Candidates /\ \A c \in q.left : c[2] \in Nat
  BY DEF RequestRecs, Candidates
<1>3. \A c \in q.left : c[2] <= made'
  BY <1>1, <1>2 DEF Fenced
<1>4. ASSUME q.at \in {"checked", "attempting"}
      PROVE  q.account \in Accounts /\ q.object \in 1..made'
             /\ (object'[q.account] = q.object => health'[q.account].auth)
  <2>1. q.account \in Accounts /\ q.object \in 1..made /\ (object[q.account] = q.object => health[q.account].auth)
    BY <1>4 DEF Fenced
  <2> QED BY <1>1, <2>1 DEF AuthKept
<1> QED BY <1>3, <1>4 DEF Fenced

LEMMA RequestsStay ==
    ASSUME ReqTyped, RequestsFenced, MembersTyped, made' \in {made, made + 1}, AuthKept,
           \A a \in Accounts : object'[a] = object[a] \/ object'[a] \notin 1..made
    PROVE  /\ UNCHANGED req => ReqTyped' /\ RequestsFenced'
           /\ \A r \in Requests, q \in RequestRecs :
                 Fenced(q) /\ req' = [req EXCEPT ![r] = q] => ReqTyped' /\ RequestsFenced'
<1>1. \A q \in RequestRecs : Fenced(q) => (Fenced(q))'
  BY FencedStays
<1>2. \A r \in Requests : req[r] \in RequestRecs /\ Fenced(req[r])
  BY DEF ReqTyped, RequestsFenced
<1>3. ASSUME UNCHANGED req PROVE ReqTyped' /\ RequestsFenced'
  <2>1. \A r \in Requests : (Fenced(req[r]))'
    <3>1. \A r \in Requests : req'[r] \in RequestRecs /\ Fenced(req'[r])
      BY <1>2, <1>3
    <3> QED BY <1>1, <3>1
  <2> QED BY <1>3, <2>1 DEF ReqTyped, RequestsFenced
<1>4. ASSUME NEW r \in Requests, NEW q \in RequestRecs, Fenced(q), req' = [req EXCEPT ![r] = q]
      PROVE  ReqTyped' /\ RequestsFenced'
  <2>1. \A p \in Requests : req'[p] = IF p = r THEN q ELSE req[p]
    BY <1>4 DEF ReqTyped
  <2>2. \A p \in Requests : req'[p] \in RequestRecs /\ Fenced(req'[p])
    BY <1>2, <1>4, <2>1
  <2>3. \A p \in Requests : (Fenced(req[p]))'
    BY <1>1, <2>2
  <2> QED BY <1>4, <2>3 DEF ReqTyped, RequestsFenced
<1> QED BY <1>3, <1>4

\* The record that an outcome leaves.
LEMMA OutcomeRecord ==
    ASSUME MembersTyped, ReqTyped, RequestsFenced,
           NEW r \in Requests, Succeed(r) \/ \E k \in Errors : Fail(r, k)
    PROVE  /\ req[r].at = "attempting"
           /\ \E q \in RequestRecs : Fenced(q) /\ req' = [req EXCEPT ![r] = q]
<1> DEFINE p == req[r]
<1>1. p.at = "attempting" /\ p \in RequestRecs /\ Fenced(p)
  BY DEF ReqTyped, RequestsFenced, Succeed, Fail
<1>2. CASE Succeed(r)
  <2>1. req' = [req EXCEPT ![r] = Ended(r, "served")] BY <1>2 DEF Succeed
  <2> QED BY <1>1, <2>1, EndedShape DEF Answers
<1>3. ASSUME NEW k \in Errors, Fail(r, k)
      PROVE  \E q \in RequestRecs : Fenced(q) /\ req' = [req EXCEPT ![r] = q]
  <2>1. CASE k = "fatal"
    <3>1. req' = [req EXCEPT ![r] = Ended(r, "failed")] BY <1>3, <2>1 DEF Fail
    <3> QED BY <3>1, EndedShape DEF Answers
  <2>2. CASE k # "fatal"
    <3> DEFINE at == IF p.single \/ p.attempts >= p.limit THEN "concluding" ELSE "choosing"
               q == [p EXCEPT !.at = at, !.last = FALSE, !.lone = FALSE, !.account = None, !.object = 0]
    <3>1. req' = [req EXCEPT ![r] = q] BY <1>3, <2>2 DEF Fail, NextAttempt
    <3>2. at \in Places /\ at \notin {"checked", "attempting"} /\ 0 \in 0..MaxObjects
      BY RoutingAssumption DEF Places
    <3> HIDE DEF at
    <3>3. q \in RequestRecs /\ q.left = p.left /\ q.at = at
      BY <1>1, <3>2 DEF RequestRecs
    <3> HIDE DEF q
    <3>4. Fenced(q) BY <1>1, <3>2, <3>3 DEF Fenced
    <3> QED BY <3>1, <3>3, <3>4
  <2> QED BY <2>1, <2>2
<1> QED BY <1>1, <1>2, <1>3

\* A step that keeps the members keeps their types.
LEMMA MembersStay ==
    ASSUME MembersTyped, UNCHANGED memberVars,
           current' = current \/ (order # <<>> /\ current' \in 0..(Len(order) - 1))
    PROVE  MembersTyped' /\ Members' = Members
<1>1. Members' = Members /\ Len(order) \in Nat
  BY OrderTyped DEF Members, memberVars
<1>2. current' \in Nat /\ current' < (IF order = <<>> THEN 1 ELSE Len(order))
  BY <1>1 DEF MembersTyped
<1> QED BY <1>1, <1>2 DEF MembersTyped, memberVars

\* Such a step, of a request, a finding or the clock, keeps the invariant when it
\* keeps what is known and does not touch the pins.
LEMMA QuietKeeps ==
    ASSUME PoolInv, UNCHANGED <<memberVars, current, disabling>>,
           HealthTyped', EvidenceOwned', InitOnce', AuthKept,
           UNCHANGED <<pins, older>>, lapsed' \subseteq Pinned,
           UNCHANGED req \/ (\E r \in Requests, q \in RequestRecs : Fenced(q) /\ req' = [req EXCEPT ![r] = q])
    PROVE  PoolInv'
<1>1. MembersTyped' /\ Members' = Members /\ made \in Nat
  <2>1. MembersTyped /\ UNCHANGED memberVars /\ current' = current
    BY DEF PoolInv
  <2>2. made \in Nat BY <2>1, RoutingAssumption DEF MembersTyped
  <2> QED BY <2>1, <2>2, MembersStay
<1>2. PinsTyped' /\ PinsKept'
  BY PinsStay DEF PoolInv, memberVars
<1>3. ReqTyped' /\ RequestsFenced'
  BY <1>1, RequestsStay DEF PoolInv, memberVars
<1>4. DisablingTyped'
  BY <1>1 DEF PoolInv, DisablingTyped, Paused
<1> QED BY <1>1, <1>2, <1>3, <1>4 DEF PoolInv

LEMMA NothingLearnt ==
    ASSUME HealthTyped, EvidenceOwned, InitOnce, UNCHANGED <<memberVars, health, initializing>>
    PROVE  HealthTyped' /\ EvidenceOwned' /\ InitOnce' /\ AuthKept
  BY DEF HealthTyped, EvidenceOwned, InitOnce, AuthKept, memberVars

LEMMA WalksKeep ==
    ASSUME PoolInv, NEW r \in Requests, Walks(r) PROVE PoolInv'
<1>1. UNCHANGED <<memberVars, current, health, initializing, pinVars, disabling>> /\ \E q : Served(r, q)
  BY WalkShape DEF PoolInv
<1>2. HealthTyped' /\ EvidenceOwned' /\ InitOnce' /\ AuthKept
  BY <1>1, NothingLearnt DEF PoolInv
<1>3. UNCHANGED <<pins, older>> /\ lapsed' \subseteq Pinned
  BY <1>1 DEF pinVars, PoolInv, PinsTyped
<1> QED BY <1>1, <1>2, <1>3, QuietKeeps DEF Served

LEMMA OutcomesKeep ==
    ASSUME PoolInv, NEW r \in Requests, Succeed(r) \/ \E k \in Errors : Fail(r, k)
    PROVE  PoolInv'
<1> DEFINE a == req[r].account
           s == req[r].session
<1>1. HealthTyped' /\ EvidenceOwned' /\ InitOnce' /\ AuthKept
  BY OutcomeHealth DEF PoolInv
<1>2. /\ req[r].at = "attempting" /\ req[r] \in RequestRecs
      /\ \E q \in RequestRecs : Fenced(q) /\ req' = [req EXCEPT ![r] = q]
  BY OutcomeRecord DEF PoolInv, ReqTyped
<1>3. UNCHANGED <<memberVars, disabling>>
  BY DEF Succeed, Fail
<1>4. CASE UNCHANGED <<current, pinVars>>
  <2>1. UNCHANGED <<pins, older>> /\ lapsed' \subseteq Pinned
    BY <1>4 DEF pinVars, PoolInv, PinsTyped
  <2> QED BY <1>1, <1>2, <1>3, <1>4, <2>1, QuietKeeps
<1>5. CASE Succeed(r) /\ Live(r)
  <2>1. a \in Members /\ health[a].auth /\ s \in Sessions \cup {None}
    BY <1>2, <1>5 DEF PoolInv, RequestsFenced, Fenced, Live, Members, RequestRecs
  <2>2. current' = Position(a) - 1 /\ order # <<>> /\ current' \in 0..(Len(order) - 1)
    <3>1. current' = Position(a) - 1 BY <1>5, <2>1 DEF Succeed
    <3> QED BY <2>1, <3>1, PositionTyped, OrderTyped DEF PoolInv
  <2>3. MembersTyped' /\ Members' = Members /\ made \in Nat
    <3>1. MembersTyped /\ UNCHANGED memberVars
      BY <1>3 DEF PoolInv
    <3>2. made \in Nat BY <3>1, RoutingAssumption DEF MembersTyped
    <3> QED BY <2>2, <3>1, <3>2, MembersStay
  <2>4. PinsTyped' /\ PinsKept'
    <3>1. CASE UNCHANGED pinVars
      <4>1. UNCHANGED <<pins, older>> /\ lapsed' \subseteq Pinned
        BY <3>1 DEF pinVars, PoolInv, PinsTyped
      <4> QED BY <1>1, <1>3, <4>1, PinsStay DEF PoolInv, memberVars
    <3>2. CASE s \in Sessions /\ Pin(s, a)
      <4>1. health'[a].auth
        BY <1>1, <1>3, <2>1 DEF AuthKept, memberVars, Members
      <4> QED BY <1>1, <1>3, <2>1, <3>2, <4>1, NewPin DEF PoolInv, memberVars
    <3> QED BY <1>5, <2>1, <3>1, <3>2 DEF Succeed
  <2>5. ReqTyped' /\ RequestsFenced'
    BY <1>1, <1>2, <1>3, <2>3, RequestsStay DEF PoolInv, memberVars
  <2>6. DisablingTyped'
    BY <1>3, <2>3 DEF PoolInv, DisablingTyped, Paused
  <2> QED BY <1>1, <2>3, <2>4, <2>5, <2>6 DEF PoolInv
<1> QED BY <1>4, <1>5 DEF Succeed, Fail

\* The account that leaves is a member.
LEMMA RemovedMember ==
    ASSUME PoolInv, Removes
    PROVE  \E a \in Members :
              /\ RemoveAccount(a) /\ UNCHANGED <<initializing, req>>
              /\ (disabling' = disabling /\ ~Paused) \/ disabling' = [phase |-> "none", account |-> None]
<1>1. CASE DisableRemove
  <2>1. Paused BY <1>1 DEF DisableRemove, Paused
  <2> QED BY <1>1, <2>1 DEF DisableRemove, PoolInv, DisablingTyped
<1>2. CASE \E a \in Accounts : Delete(a)
  BY <1>2 DEF Delete
<1> QED BY <1>1, <1>2 DEF Removes

LEMMA RemovesKeep ==
    ASSUME PoolInv, Removes PROVE PoolInv'
<1>1. PICK a \in Members :
          /\ RemoveAccount(a) /\ UNCHANGED <<initializing, req>>
          /\ (disabling' = disabling /\ ~Paused) \/ disabling' = [phase |-> "none", account |-> None]
  BY RemovedMember
<1>2. a \in Accounts /\ object[a] # 0
  BY DEF Members
<1>3. MembersTyped' /\ Members' = Members \ {a}
  BY <1>1, RemoveMembers DEF PoolInv
<1>4. /\ object' = [object EXCEPT ![a] = 0] /\ made' = made
      /\ \A b \in Accounts : object'[b] = IF b = a THEN 0 ELSE object[b]
  BY <1>1, <1>2 DEF RemoveAccount, PoolInv, MembersTyped
<1>5. health' = [health EXCEPT ![a] = Fresh({}, FALSE)] /\ Fresh({}, FALSE) \in Health
      /\ Fresh({}, FALSE).auth = FALSE /\ Fresh({}, FALSE).support = "unknown"
  <2>1. Fresh({}, FALSE) \in Health /\ Fresh({}, FALSE).auth = FALSE /\ Fresh({}, FALSE).support = "unknown"
    BY DEF Fresh, Health
  <2> QED BY <1>1, <2>1 DEF RemoveAccount
<1>6. Renewed(a) /\ object'[a] # object[a] /\ made' \in {made, made + 1}
  <2> DEFINE f == Fresh({}, FALSE)
  <2>1. health' = [health EXCEPT ![a] = f] /\ f.auth = FALSE /\ f.support = "unknown"
    BY <1>5
  <2> HIDE DEF f
  <2>2. health'[a] = f BY <1>2, <2>1 DEF PoolInv, HealthTyped
  <2> QED BY <1>2, <1>4, <2>1, <2>2 DEF Renewed
<1>7. HealthTyped' /\ EvidenceOwned' /\ InitOnce' /\ AuthKept
  BY <1>1, <1>2, <1>4, <1>5, <1>6, RenewHealth DEF PoolInv
<1>8. PinsTyped' /\ PinsKept'
  BY <1>1, <1>2, <1>4, <1>7, RemovePins DEF PoolInv
<1>9. ReqTyped' /\ RequestsFenced'
  BY <1>1, <1>4, <1>7, RequestsStay DEF PoolInv
<1>10. DisablingTyped'
  <2>1. CASE disabling' = disabling /\ ~Paused
    BY <2>1 DEF PoolInv, DisablingTyped, Paused
  <2>2. CASE disabling' = [phase |-> "none", account |-> None]
    BY <2>2 DEF PoolInv, DisablingTyped, Paused
  <2> QED BY <1>1, <2>1, <2>2
<1> QED BY <1>3, <1>7, <1>8, <1>9, <1>10 DEF PoolInv

LEMMA RegisterKeeps ==
    ASSUME PoolInv, NEW a \in Accounts, NEW restored \in SUBSET (Deadlines \ {"rate"}), NEW depleted \in BOOLEAN,
           Register(a, restored, depleted)
    PROVE  PoolInv'
<1> DEFINE h == Fresh(restored, depleted)
<1>1. MembersTyped' /\ Members' = Members \cup {a}
  BY RegisterMembers DEF PoolInv
<1>2. made' = made + 1 /\ made \in Nat /\ object' = [object EXCEPT ![a] = made + 1] /\ a \notin Members
      /\ health' = [health EXCEPT ![a] = h] /\ UNCHANGED <<current, initializing, pinVars, disabling, req>>
  BY RoutingAssumption DEF Register, PoolInv, MembersTyped
<1>3. h \in Health /\ h.auth = FALSE /\ h.support = "unknown"
  BY RoutingAssumption DEF Fresh, Health
<1> HIDE DEF h
<1>4. \A b \in Accounts : object'[b] = IF b = a THEN made + 1 ELSE object[b]
  BY <1>2 DEF PoolInv, MembersTyped
<1>5. object[a] = 0 /\ Renewed(a) /\ object'[a] # object[a]
  BY <1>2, <1>3, <1>4 DEF Renewed, PoolInv, HealthTyped, Members
<1>6. HealthTyped' /\ EvidenceOwned' /\ InitOnce' /\ AuthKept
  BY <1>2, <1>3, <1>4, <1>5, RenewHealth DEF PoolInv
<1>7. PinsTyped' /\ PinsKept'
  <2>1. \A b \in Members : object'[b] = object[b]
    BY <1>2, <1>4 DEF Members
  <2> QED BY <1>2, <1>6, <2>1, PinsStay DEF PoolInv, pinVars, PinsTyped
<1>8. ReqTyped' /\ RequestsFenced'
  BY <1>2, <1>4, <1>6, RequestsStay DEF PoolInv
<1>9. DisablingTyped'
  BY <1>1, <1>2 DEF PoolInv, DisablingTyped, Paused
<1> QED BY <1>1, <1>6, <1>7, <1>8, <1>9 DEF PoolInv

LEMMA PausesKeep ==
    ASSUME PoolInv, Pauses PROVE PoolInv'
<1>1. UNCHANGED <<memberVars, current, health, initializing, pinVars, req>>
  BY DEF Pauses, DisableBegin, DisableDrained, DisableCancelled
<1>2. HealthTyped' /\ EvidenceOwned' /\ InitOnce' /\ AuthKept
  BY <1>1, NothingLearnt DEF PoolInv
<1>3. MembersTyped' /\ Members' = Members /\ made \in Nat
  <2>1. MembersTyped /\ UNCHANGED memberVars /\ current' = current
    BY <1>1 DEF PoolInv
  <2>2. made \in Nat BY <2>1, RoutingAssumption DEF MembersTyped
  <2> QED BY <2>1, <2>2, MembersStay
<1>4. PinsTyped' /\ PinsKept'
  <2>1. PinsTyped /\ PinsKept /\ UNCHANGED <<pins, older>> /\ lapsed' \subseteq Pinned /\ object' = object
    BY <1>1 DEF PoolInv, PinsTyped, memberVars, pinVars
  <2> QED BY <1>2, <2>1, PinsStay
<1>5. ReqTyped' /\ RequestsFenced'
  BY <1>1, <1>2, <1>3, RequestsStay DEF PoolInv, memberVars
<1>6. DisablingTyped'
  <2>1. ASSUME NEW a \in Accounts, DisableBegin(a) PROVE DisablingTyped'
    BY <1>3, <2>1 DEF DisableBegin, DisablingTyped, Paused
  <2>2. CASE DisableDrained
    BY <1>3, <2>2 DEF DisableDrained, PoolInv, DisablingTyped, Paused
  <2>3. CASE DisableCancelled
    BY <1>3, <2>3 DEF DisableCancelled, DisablingTyped, Paused
  <2> QED BY <2>1, <2>2, <2>3 DEF Pauses
<1> QED BY <1>2, <1>3, <1>4, <1>5, <1>6 DEF PoolInv

LEMMA OthersKeep ==
    ASSUME PoolInv
    PROVE  /\ PinLapses => PoolInv'
           /\ \A a \in Accounts : Finds(a) \/ InitStart(a) => PoolInv'
           /\ \A c \in initializing : InitEnd(c) => PoolInv'
<1>1. ASSUME PinLapses PROVE PoolInv'
  <2>1. UNCHANGED <<memberVars, current, health, initializing, pins, older, disabling, req>> /\ lapsed' \subseteq Pinned
    BY <1>1 DEF PinLapses, Oldest, PoolInv, PinsTyped
  <2>2. HealthTyped' /\ EvidenceOwned' /\ InitOnce' /\ AuthKept
    BY <2>1, NothingLearnt DEF PoolInv
  <2> QED BY <2>1, <2>2, QuietKeeps
<1>2. ASSUME NEW a \in Accounts, Finds(a) PROVE PoolInv'
  <2>1. UNCHANGED <<memberVars, current, pinVars, disabling, req>>
    BY <1>2 DEF Finds, CatalogRead, LoginReported, UsagePolled, DeadlinePasses, ProbeRevoked
  <2>2. HealthTyped' /\ EvidenceOwned' /\ InitOnce' /\ AuthKept
    BY <1>2, FindsHealth DEF PoolInv
  <2> QED BY <2>1, <2>2, QuietKeeps DEF pinVars, PoolInv, PinsTyped
<1>3. ASSUME NEW a \in Accounts, InitStart(a) PROVE PoolInv'
  <2>1. UNCHANGED <<memberVars, current, health, pinVars, disabling, req>>
        /\ initializing' = initializing \cup {<<a, object[a]>>} /\ object[a] # 0 /\ ~health[a].auth
    BY <1>3 DEF InitStart, Members
  <2>2. HealthTyped' /\ EvidenceOwned' /\ AuthKept
    BY <2>1 DEF PoolInv, HealthTyped, EvidenceOwned, AuthKept, memberVars
  <2>3. object[a] \in 1..made /\ <<a, object[a]>> \in Candidates
    BY <2>1, RoutingAssumption DEF PoolInv, MembersTyped, Candidates
  <2>4. InitOnce'
    <3> SUFFICES ASSUME NEW c \in initializing'
                 PROVE  c \in Candidates /\ c[2] <= made /\ (object[c[1]] = c[2] => ~health[c[1]].auth)
      BY <2>1 DEF InitOnce, memberVars
    <3>1. CASE c = <<a, object[a]>>
      BY <2>1, <2>3, <3>1, RoutingAssumption DEF PoolInv, MembersTyped
    <3>2. CASE c \in initializing
      BY <3>2 DEF PoolInv, InitOnce
    <3> QED BY <2>1, <3>1, <3>2
  <2> QED BY <2>1, <2>2, <2>4, QuietKeeps DEF pinVars, PoolInv, PinsTyped
<1>4. ASSUME NEW c \in initializing, InitEnd(c) PROVE PoolInv'
  <2>1. UNCHANGED <<memberVars, current, pinVars, disabling, req>>
    BY <1>4 DEF InitEnd
  <2>2. HealthTyped' /\ EvidenceOwned' /\ InitOnce' /\ AuthKept
    BY <1>4, InitializeHealth DEF PoolInv
  <2> QED BY <2>1, <2>2, QuietKeeps DEF pinVars, PoolInv, PinsTyped
<1> QED BY <1>1, <1>2, <1>3, <1>4

LEMMA InvInit == Init => PoolInv
<1> SUFFICES ASSUME Init PROVE PoolInv
  OBVIOUS
<1>1. /\ order \in Seq(Accounts) /\ {order[i] : i \in 1..Len(order)} = Accounts
      /\ \A i, j \in 1..Len(order) : i # j => order[i] # order[j]
  BY ListsAll, RoutingAssumption DEF Init
<1>2. object = [a \in Accounts |-> 1] /\ made = 1 /\ Members = Accounts /\ current \in 0..(Len(order) - 1)
  BY DEF Init, Members
<1>3. Len(order) \in Nat /\ (order = <<>> => Len(order) = 0)
  BY <1>1, LenProperties
<1>4. current \in Nat /\ current < (IF order = <<>> THEN 1 ELSE Len(order))
  BY <1>2, <1>3
<1>5. MembersTyped
  BY <1>1, <1>2, <1>4, RoutingAssumption DEF MembersTyped
<1>6. pins = [s \in Sessions |-> None] /\ older = {} /\ lapsed = {} /\ Pinned = {}
  BY DEF Init, Pinned
<1>7. PinsTyped /\ PinsKept
  BY <1>6, FS_EmptySet, RoutingAssumption DEF PinsTyped, PinsKept, PinsOwned, PinsBounded, PinsOrdered
<1>8. \A r \in Requests : req[r] = Idle
  BY DEF Init
<1>9. Idle.at = "idle" /\ Idle.left = {}
  BY DEF Idle
<1>10. ReqTyped /\ RequestsFenced
  BY <1>8, <1>9, IdleShape DEF Init, ReqTyped, RequestsFenced, Fenced
<1>11. DisablingTyped
  BY DEF Init, DisablingTyped, Paused
<1>12. HealthTyped /\ EvidenceOwned
  <2> DEFINE f == Fresh({}, FALSE)
             h == [f EXCEPT !.auth = TRUE, !.support = "supported"]
  <2>1. f \in Health BY DEF Fresh, Health
  <2> HIDE DEF f
  <2>2. h \in Health /\ h.auth = TRUE BY <2>1 DEF Health
  <2>3. health = [a \in Accounts |-> h] BY DEF Init, f
  <2> HIDE DEF h
  <2> QED BY <2>2, <2>3 DEF HealthTyped, EvidenceOwned
<1>13. InitOnce
  BY DEF Init, InitOnce
<1> QED BY <1>5, <1>7, <1>10, <1>11, <1>12, <1>13 DEF PoolInv

LEMMA InvStep == PoolInv /\ [Next]_<<vars, happenings>> => PoolInv'
<1> SUFFICES ASSUME PoolInv, [Next]_<<vars, happenings>> PROVE PoolInv'
  OBVIOUS
<1>1. CASE UNCHANGED <<vars, happenings>>
  BY <1>1, NothingLearnt, QuietKeeps DEF vars, memberVars, pinVars, PoolInv, PinsTyped
<1>2. CASE Next
  BY <1>2, StepKinds, WalksKeep, OutcomesKeep, RemovesKeep, RegisterKeeps, PausesKeep, OthersKeep
<1> QED BY <1>1, <1>2


----------------------------------------------------------------------------
(* The theorems.                                                           *)

LEMMA PoolInvHolds == Spec => []PoolInv
  BY InvInit, InvStep, PTL DEF Spec

\* What is known of an account and what is pinned to it belong to the object that
\* is a member under that id, and the pins are as many as their table holds
\* (commit_success, commit_failure, initialize, remove_account, pin_session_locked).
THEOREM EvidenceAndPinsOwned == Spec => []Owned
  BY PoolInvHolds, InvOwned, PTL

\* Only a removal or a registration changes the list.
LEMMA ListChanges ==
    ASSUME PoolInv, Next, order' # order
    PROVE  \/ \E a \in Members : RemoveAccount(a)
           \/ \E a \in Accounts, restored \in SUBSET (Deadlines \ {"rate"}), depleted \in BOOLEAN :
                 Register(a, restored, depleted)
<1>1. ASSUME NEW r \in Requests, Walks(r) PROVE order' = order
  BY <1>1, WalkShape DEF PoolInv, memberVars
<1>2. ASSUME NEW r \in Requests, Succeed(r) \/ \E k \in Errors : Fail(r, k) PROVE order' = order
  BY <1>2 DEF Succeed, Fail, memberVars
<1>3. ASSUME Pauses \/ PinLapses PROVE order' = order
  BY <1>3 DEF Pauses, DisableBegin, DisableDrained, DisableCancelled, PinLapses, memberVars
<1>4. ASSUME NEW a \in Accounts, Finds(a) \/ InitStart(a) PROVE order' = order
  BY <1>4 DEF Finds, CatalogRead, LoginReported, UsagePolled, DeadlinePasses, ProbeRevoked, InitStart, memberVars
<1>5. ASSUME NEW c \in initializing, InitEnd(c) PROVE order' = order
  BY <1>5 DEF InitEnd, memberVars
<1>6. ASSUME Removes PROVE \E a \in Members : RemoveAccount(a)
  BY <1>6, RemovedMember
<1> QED BY <1>1, <1>2, <1>3, <1>4, <1>5, <1>6, StepKinds

\* No removal and no registration moves the round-robin pointer off its account
\* (remove_account shifts the index, register appends).
THEOREM RoundRobinKept == Spec => PointerKept
<1>1. PoolInv /\ [Next]_<<vars, happenings>>
      => [LET pointed == order[current + 1]
          IN (order # <<>> /\ order' # order /\ object'[pointed] # 0)
                 => order'[current' + 1] = pointed]_vars
  <2> SUFFICES ASSUME PoolInv, [Next]_<<vars, happenings>>, order # <<>>, order' # order,
                      object'[order[current + 1]] # 0
               PROVE  order'[current' + 1] = order[current + 1]
    OBVIOUS
  <2>1. Next BY DEF vars
  <2>2. CASE \E a \in Members : RemoveAccount(a)
    BY <2>2, RemoveMembers DEF PoolInv
  <2>3. CASE \E a \in Accounts, restored \in SUBSET (Deadlines \ {"rate"}), depleted \in BOOLEAN :
                 Register(a, restored, depleted)
    BY <2>3, RegisterMembers DEF PoolInv
  <2> QED BY <2>1, <2>2, <2>3, ListChanges
<1> QED BY <1>1, PoolInvHolds, PTL DEF Spec, PointerKept

\* A conversation leaves the account it is pinned to for another only when the pin
\* has expired or that account can no longer serve it (commit_success).
THEOREM ConversationsKept == Spec => ConversationStays
<1> DEFINE Stays(s) == (pins[s] # None /\ pins'[s] \notin {None, pins[s]})
                           => (s \in lapsed \/ PinLost(pins[s]))
<1>1. PoolInv /\ [Next]_<<vars, happenings>> => [\A s \in Sessions : Stays(s)]_vars
  <2> SUFFICES ASSUME PoolInv, [Next]_<<vars, happenings>>, ~UNCHANGED vars
               PROVE  \A s \in Sessions : Stays(s)
    OBVIOUS
  <2>0. Next BY DEF vars
  <2>1. CASE pins' = pins
    BY <2>1
  <2>2. ASSUME NEW r \in Requests, Walks(r) PROVE pins' = pins
    BY <2>2, WalkShape DEF PoolInv, pinVars
  <2>3. ASSUME NEW r \in Requests, Succeed(r) PROVE \A s \in Sessions : Stays(s)
    <3> DEFINE a == req[r].account
               t == req[r].session
    <3>1. pins' = pins \/ (t # None /\ ~Kept(t, a) /\ Pin(t, a))
      BY <2>3 DEF Succeed, pinVars
    <3>2. ASSUME Pin(t, a), ~Kept(t, a), NEW s \in Sessions PROVE Stays(s)
      <4>1. pins'[s] = IF s = t THEN a ELSE IF s \in Evicted(t, a) THEN None ELSE pins[s]
        BY <3>2 DEF Pin
      <4> QED BY <3>2, <4>1 DEF Kept
    <3> QED BY <2>1, <3>1, <3>2
  <2>4. ASSUME NEW r \in Requests, \E k \in Errors : Fail(r, k) PROVE pins' = pins
    BY <2>4 DEF Fail, pinVars
  <2>5. ASSUME Pauses \/ PinLapses PROVE pins' = pins
    BY <2>5 DEF Pauses, DisableBegin, DisableDrained, DisableCancelled, PinLapses, pinVars
  <2>6. ASSUME NEW a \in Accounts,
               \/ Finds(a) \/ InitStart(a)
               \/ \E restored \in SUBSET (Deadlines \ {"rate"}), depleted \in BOOLEAN :
                     Register(a, restored, depleted)
        PROVE  pins' = pins
    BY <2>6 DEF Finds, CatalogRead, LoginReported, UsagePolled, DeadlinePasses, ProbeRevoked,
                InitStart, Register, pinVars
  <2>7. ASSUME NEW c \in initializing, InitEnd(c) PROVE pins' = pins
    BY <2>7 DEF InitEnd, pinVars
  <2>8. ASSUME Removes PROVE \A s \in Sessions : Stays(s)
    <3>1. PICK a \in Members : RemoveAccount(a) BY <2>8, RemovedMember
    <3>2. \A s \in Sessions : pins'[s] \in {None, pins[s]} BY <3>1 DEF RemoveAccount, PinsWithout
    <3> QED BY <3>2
  <2> HIDE DEF Stays
  <2> QED BY <2>0, <2>1, <2>2, <2>3, <2>4, <2>5, <2>6, <2>7, <2>8, StepKinds
<1> QED BY <1>1, PoolInvHolds, PTL DEF Spec, ConversationStays

\* A step starts no request while the data plane is drained.
LEMMA DrainStep ==
    ASSUME PoolInv, DrainedIdle, [Next]_<<vars, happenings>>
    PROVE  DrainedIdle'
<1>1. \A r \in Requests : req[r].at \in Waiting <=> req[r].at \in {"idle", "arriving", "counted", "done"}
  BY DEF Waiting
<1> DEFINE Still == UNCHANGED disabling /\ UNCHANGED req
<1>2. CASE Still
  BY <1>2 DEF DrainedIdle
<1>3. ASSUME NEW r \in Requests, Walks(r) PROVE DrainedIdle'
  <2>1. PICK q : UNCHANGED disabling /\ Served(r, q)
    BY <1>3, WalkShape DEF PoolInv
  <2>2. SUFFICES ASSUME disabling.phase = "drained"
                 PROVE  \A x \in Requests : req'[x].at \in Waiting
    BY <2>1 DEF DrainedIdle, Waiting
  <2>3. Paused /\ \A x \in Requests : req[x].at \in Waiting
    BY <2>2 DEF DrainedIdle, Waiting, Paused
  <2>4. q.at \in Waiting /\ \A x \in Requests : req'[x] = IF x = r THEN q ELSE req[x]
    BY <2>1, <2>3 DEF Served, PoolInv, ReqTyped
  <2> QED BY <2>3, <2>4
<1>4. ASSUME NEW r \in Requests, Succeed(r) \/ \E k \in Errors : Fail(r, k) PROVE DrainedIdle'
  <2>1. req[r].at = "attempting" /\ disabling' = disabling
    BY <1>4 DEF Succeed, Fail
  <2>2. disabling.phase # "drained"
    BY <2>1 DEF DrainedIdle
  <2> QED BY <2>1, <2>2 DEF DrainedIdle
<1>5. ASSUME Pauses PROVE DrainedIdle'
  <2>1. ASSUME NEW a \in Accounts, DisableBegin(a) PROVE DrainedIdle'
    BY <2>1 DEF DisableBegin, DrainedIdle
  <2>2. CASE DisableDrained
    <3>1. req' = req /\ InFlight = {} BY <2>2 DEF DisableDrained
    <3>2. ASSUME NEW r \in Requests PROVE req'[r].at \in {"idle", "arriving", "counted", "done"}
      BY <3>1 DEF InFlight
    <3> QED BY <3>2 DEF DrainedIdle
  <2>3. CASE DisableCancelled
    BY <2>3 DEF DisableCancelled, DrainedIdle
  <2> QED BY <1>5, <2>1, <2>2, <2>3 DEF Pauses
<1>6. ASSUME Removes PROVE DrainedIdle'
  <2>1. CASE DisableRemove
    BY <2>1 DEF DisableRemove, DrainedIdle
  <2>2. ASSUME NEW a \in Accounts, Delete(a) PROVE Still
    BY <2>2 DEF Delete
  <2> QED BY <1>2, <1>6, <2>1, <2>2 DEF Removes
<1>7. ASSUME PinLapses PROVE Still
  BY <1>7 DEF PinLapses
<1>8. ASSUME NEW a \in Accounts,
             \/ Finds(a) \/ InitStart(a)
             \/ \E restored \in SUBSET (Deadlines \ {"rate"}), depleted \in BOOLEAN :
                   Register(a, restored, depleted)
      PROVE  Still
  BY <1>8 DEF Finds, CatalogRead, LoginReported, UsagePolled, DeadlinePasses, ProbeRevoked, InitStart, Register
<1>9. ASSUME NEW c \in initializing, InitEnd(c) PROVE Still
  BY <1>9 DEF InitEnd
<1>10. CASE UNCHANGED <<vars, happenings>>
  BY <1>2, <1>10 DEF vars
<1> HIDE DEF Still
<1>11. CASE Next
  BY <1>2, <1>3, <1>4, <1>5, <1>6, <1>7, <1>8, <1>9, <1>11, StepKinds
<1> QED BY <1>10, <1>11

\* Between the end of a drain and the removal it was for, no request is past the
\* admission check: one that missed the pause the first time reads it again
\* (data_plane_middleware, set_enabled).
THEOREM DrainHolds == Spec => []DrainedIdle
<1>1. Init => DrainedIdle
  BY DEF Init, DrainedIdle
<1>2. PoolInv /\ DrainedIdle /\ [Next]_<<vars, happenings>> => DrainedIdle'
  BY DrainStep
<1> QED BY <1>1, <1>2, PoolInvHolds, PTL DEF Spec
=============================================================================
