-------------------------- MODULE RefreshLeaseProofs --------------------------
(***************************************************************************)
(* The safety of refreshing a single-use token, for any number of slots,   *)
(* objects, logins, refreshes, stalls and failures.                        *)
(*                                                                         *)
(* IInv says of each object what it may know at its place of the refresh:  *)
(* which token it holds, that it owns its lease unless it stalled, and     *)
(* that nobody else has touched the stored token meanwhile.                *)
(***************************************************************************)
EXTENDS RefreshLease, TLAPS

Busy == {"leased", "loaded", "posting", "answered", "refused", "saving"}
Exchange == {"posting", "answered", "refused", "saving"}

\* An object belongs to a login that exists, and knows no token that the
\* auth host has not given.
Made(a) ==
    a.at # "none" =>
        /\ a.login \in 1..logins /\ a.slot \in Slots
        /\ a.cred.token <= host[a.login]
        /\ a.fingerprint <= host[a.login]

\* The fingerprint is the token that was posted; the answer is no older.
Carried(a) ==
    /\ a.at \in {"posting", "answered", "refused"} => a.cred.token = a.fingerprint
    /\ a.at = "answered" => a.fingerprint <= a.reply.token /\ a.reply.token <= host[a.login]
    /\ a.at = "saving" => a.fingerprint <= a.cred.token

\* A call that did not outsleep its lease owns it, and its slot writes.
Covered(u, a) ==
    a.at \in Busy /\ ~a.late =>
        /\ lease[a.login].owner = u /\ ~lease[a.login].expired
        /\ a.slot = writer

\* Without stalls the stored token stays as the call loaded it, and a token
\* that was refused is not the one that the host expects.
Undisturbed(a) ==
    stalls = 0 =>
        /\ ~a.late
        /\ a.at \in Exchange /\ a.login = row.login => row.cred.token = a.fingerprint
        /\ a.at = "refused" => a.cred.token # host[a.login]

ObjInv(u, a) == Made(a) /\ Carried(a) /\ Covered(u, a) /\ Undisturbed(a)
Objs == \A u \in Objects : ObjInv(u, auth[u])

\* Logins are numbered in the order they are made.
Numbered ==
    /\ issued <= MaxRefreshes + logins - 1
    /\ row.login <= logins
    /\ \A l \in Logins : l > logins => host[l] = 0

IInv ==
    /\ TypeOK /\ Numbered /\ Objs
    /\ StoredTokenUsable /\ DeadIsDead /\ LeaseHeld

(***************************************************************************)
(* Records                                                                 *)
(***************************************************************************)

\* What the end of a call leaves of its record.
LEMMA OverRec ==
    ASSUME NEW a \in AuthRec
    PROVE  /\ Over(a) \in AuthRec
           /\ Over(a).at = "releasing" /\ Over(a).late = FALSE
           /\ Over(a).slot = a.slot /\ Over(a).login = a.login
           /\ Over(a).cred = a.cred /\ Over(a).fingerprint = a.fingerprint
  <1>1. /\ Blank \in Credential /\ 0 \in Accesses
    BY LeaseAssumption DEF Blank, Credential, Tokens, Accesses
  <1>2. "releasing" \in Places
    BY DEF Places
  <1> QED
    BY <1>1, <1>2 DEF Over, AuthRec

\* A change of place changes nothing else.
LEMMA AtRec ==
    ASSUME NEW a \in AuthRec, NEW p \in Places, NEW b, b = [a EXCEPT !.at = p]
    PROVE  /\ b \in AuthRec
           /\ b.at = p /\ b.late = a.late /\ b.slot = a.slot /\ b.login = a.login
           /\ b.cred = a.cred /\ b.fingerprint = a.fingerprint /\ b.reply = a.reply
           /\ b.previous = a.previous /\ b.force = a.force
  BY DEF AuthRec

\* Loading takes the credential and its fingerprint from the row.
LEMMA LoadedRec ==
    ASSUME TypeOK, NEW u \in Objects
    PROVE  /\ Loaded(u) \in AuthRec
           /\ Loaded(u).cred = row.cred /\ Loaded(u).fingerprint = row.cred.token
           /\ Loaded(u).at = auth[u].at /\ Loaded(u).late = auth[u].late
           /\ Loaded(u).slot = auth[u].slot /\ Loaded(u).login = auth[u].login
  <1>1. auth[u] \in AuthRec /\ row.cred \in Credential /\ row.cred.token \in Tokens
    BY DEF TypeOK, Credential
  <1> QED
    BY <1>1 DEF Loaded, AuthRec

\* A blank object is well-typed.
LEMMA NoObjectRec == NoObject \in AuthRec /\ NoObject.at = "none" /\ ~NoObject.late
  BY LeaseAssumption
  DEF NoObject, AuthRec, Blank, Credential, Tokens, Accesses, Places

\* An object that exists belongs to a login.
LEMMA MadeLogin ==
    ASSUME TypeOK, NEW a, Made(a), a.at # "none"
    PROVE  a.login \in Logins
  BY LeaseAssumption DEF TypeOK, Made, Logins

(***************************************************************************)
(* Steps that change one object and nothing else that Objs reads           *)
(***************************************************************************)

\* What an object may know carries over to the end of its call.
LEMMA OverObj ==
    ASSUME NEW u \in Objects, NEW a \in AuthRec, ObjInv(u, a)
    PROVE  a.at # "none" => ObjInv(u, Over(a))
  <1> SUFFICES ASSUME a.at # "none" PROVE ObjInv(u, Over(a))
    OBVIOUS
  <1> DEFINE b == Over(a)
  <1>1. /\ b.at = "releasing" /\ b.late = FALSE
        /\ b.slot = a.slot /\ b.login = a.login
        /\ b.cred = a.cred /\ b.fingerprint = a.fingerprint
    BY OverRec
  <1> HIDE DEF b
  <1>2. ObjInv(u, b)
    BY <1>1 DEF ObjInv, Made, Carried, Covered, Undisturbed, Busy, Exchange
  <1> QED
    BY <1>2 DEF b

\* ... and to an object that waits or rests.
LEMMA RestObj ==
    ASSUME NEW u \in Objects, NEW a \in AuthRec, ObjInv(u, a), a.at # "none",
           NEW b, b.at \in {"ready", "waiting"}, b.late = a.late,
           b.slot = a.slot, b.login = a.login, b.cred = a.cred,
           b.fingerprint = a.fingerprint
    PROVE  ObjInv(u, b)
  BY DEF ObjInv, Made, Carried, Covered, Undisturbed, Busy, Exchange

\* ... and to one that loaded the stored credential of its login.
LEMMA LoadedObj ==
    ASSUME TypeOK, NEW u \in Objects, ObjInv(u, auth[u]), IsCurrent(u),
           auth[u].at \in {"waiting", "leased", "loaded"}
    PROVE  ObjInv(u, Loaded(u))
  <1> DEFINE b == Loaded(u)
  <1>1. /\ b.at = auth[u].at /\ b.late = auth[u].late
        /\ b.slot = auth[u].slot /\ b.login = auth[u].login
        /\ b.cred = row.cred /\ b.fingerprint = row.cred.token
    BY LoadedRec
  <1>2. row.login = auth[u].login
    BY DEF IsCurrent
  <1>3. auth[u].login # 0 /\ row.cred.token <= host[auth[u].login]
    BY <1>2, LeaseAssumption DEF ObjInv, Made, TypeOK, Logins
  <1> HIDE DEF b
  <1>4. ObjInv(u, b)
    BY <1>1, <1>2, <1>3 DEF ObjInv, Made, Carried, Covered, Undisturbed, Busy, Exchange
  <1> QED
    BY <1>4 DEF b

\* Move, or one in whose step a transaction fails.
Moves(u, a) ==
    /\ auth' = [auth EXCEPT ![u] = a]
    /\ UNCHANGED <<row, writer, lease, up, host, issued, stale, logins, stalls, crashes>>
    /\ errors' \in Nat /\ crashes + errors' <= MaxFailures

\* A move is one in which no transaction fails.
LEMMA MoveMoves == ASSUME TypeOK, NEW u, NEW a, Move(u, a) PROVE Moves(u, a)
  BY DEF TypeOK, Move, Moves, hostVars, countVars

\* A step that moves one object to a record that keeps ObjInv keeps Objs.
LEMMA MoveObjs ==
    ASSUME TypeOK, Objs, NEW u \in Objects, NEW a \in AuthRec, Moves(u, a), ObjInv(u, a)
    PROVE  /\ auth' \in [Objects -> AuthRec]
           /\ Objs'
  <1>1. /\ auth' \in [Objects -> AuthRec]
        /\ auth'[u] = a /\ \A v \in Objects \ {u} : auth'[v] = auth[v]
    BY DEF Moves, TypeOK
  <1>2. /\ logins' = logins /\ host' = host /\ lease' = lease /\ writer' = writer
        /\ stalls' = stalls /\ row' = row
    BY DEF Moves
  <1>3. ASSUME NEW v \in Objects PROVE ObjInv(v, auth[v])'
    <2>1. ObjInv(v, auth'[v])
      BY <1>1 DEF Objs
    <2> QED
      BY <2>1, <1>2 DEF ObjInv, Made, Carried, Covered, Undisturbed
  <1> QED
    BY <1>1, <1>3 DEF Objs

\* How one object's move may treat a token that it brings, and its lease.
Honest(u, a) ==
    /\ auth[u].at \in Using => a.at \in Using /\ a.login = auth[u].login
    /\ \A t : Brings(u, t) =>
          \/ a.at = "answered" /\ a.reply.token = t /\ a.login = auth[u].login
          \/ a.at = "saving" /\ a.cred.token = t /\ a.login = auth[u].login
          \/ t = row.cred.token
          \/ auth[u].login \in lost'

\* A move that keeps ObjInv, loses no token unrecorded and strands no lease
\* keeps the inductive invariant.
LEMMA MovesInv ==
    ASSUME IInv, NEW u \in Objects, NEW a \in AuthRec, Moves(u, a), ObjInv(u, a),
           Honest(u, a), lost \subseteq lost', lost' \subseteq Logins,
           dead' \subseteq Logins, stalls = 0 => dead' \subseteq lost'
    PROVE  IInv'
  <1>t. TypeOK /\ Numbered /\ Objs /\ StoredTokenUsable /\ LeaseHeld
    BY DEF IInv
  <1>1. /\ auth' \in [Objects -> AuthRec]
        /\ auth'[u] = a /\ \A v \in Objects \ {u} : auth'[v] = auth[v]
    BY <1>t DEF Moves, TypeOK
  <1>2. /\ logins' = logins /\ host' = host /\ lease' = lease /\ writer' = writer
        /\ stalls' = stalls /\ row' = row /\ up' = up /\ issued' = issued
        /\ stale' = stale /\ crashes' = crashes
        /\ errors' \in Nat /\ crashes + errors' <= MaxFailures
    BY DEF Moves
  <1>3. TypeOK'
    BY <1>t, <1>1, <1>2 DEF TypeOK
  <1>4. Numbered'
    BY <1>t, <1>2 DEF Numbered
  <1>5. Objs'
    BY <1>t, MoveObjs
  <1>6. StoredTokenUsable'
    <2> SUFFICES ASSUME row.login \in Logins \ lost', row.cred.token # host[row.login]
                 PROVE  \E v \in Objects : /\ auth'[v].login = row.login
                                           /\ Brings(v, host[row.login])'
      BY <1>2 DEF StoredTokenUsable
    <2>1. PICK v \in Objects : auth[v].login = row.login /\ Brings(v, host[row.login])
      BY <1>t DEF StoredTokenUsable
    <2>2. CASE v = u
      BY <2>1, <2>2, <1>1, <1>2 DEF Honest, Brings
    <2>3. CASE v # u
      BY <2>1, <2>3, <1>1, <1>2 DEF Brings
    <2> QED
      BY <2>2, <2>3
  <1>7. DeadIsDead'
    BY <1>2 DEF DeadIsDead
  <1>8. LeaseHeld'
    <2> SUFFICES ASSUME crashes = 0, NEW l \in Logins,
                        lease[l].owner # None, ~lease[l].expired
                 PROVE  \E v \in Objects : /\ lease[l].owner = v /\ auth'[v].login = l
                                           /\ auth'[v].at \in Using
      BY <1>2 DEF LeaseHeld, Held, Owns
    <2>1. PICK v \in Objects : /\ lease[l].owner = v /\ auth[v].login = l
                               /\ auth[v].at \in Using
      BY <1>t DEF LeaseHeld, Held, Owns
    <2> QED
      BY <2>1, <1>1 DEF Honest
  <1> QED
    BY <1>3, <1>4, <1>5, <1>6, <1>7, <1>8 DEF IInv

\* ... when no transaction fails.
LEMMA MoveInv ==
    ASSUME IInv, NEW u \in Objects, NEW a \in AuthRec, Move(u, a), ObjInv(u, a),
           Honest(u, a), lost \subseteq lost', lost' \subseteq Logins,
           dead' \subseteq Logins, stalls = 0 => dead' \subseteq lost'
    PROVE  IInv'
  BY MovesInv, MoveMoves DEF IInv

\* What the lemmas below use of the invariant about one object.
LEMMA ObjFacts ==
    ASSUME IInv, NEW u \in Objects
    PROVE  /\ TypeOK /\ auth[u] \in AuthRec /\ ObjInv(u, auth[u])
           /\ lost \subseteq Logins /\ dead \subseteq Logins
           /\ stalls = 0 => dead \subseteq lost
           /\ auth[u].at # "none" => auth[u].login \in Logins
  <1>1. /\ TypeOK /\ auth[u] \in AuthRec /\ ObjInv(u, auth[u])
        /\ lost \subseteq Logins /\ dead \subseteq Logins
        /\ stalls = 0 => dead \subseteq lost
    BY DEF IInv, TypeOK, Objs, DeadIsDead
  <1> QED
    BY <1>1, MadeLogin DEF ObjInv

\* A call that ends without a token to lose, or after recording its loss.
LEMMA EndsInv ==
    ASSUME IInv, NEW u \in Objects, auth[u].at # "none",
           Moves(u, Over(auth[u])), lost' = lost \cup Dropped(u),
           dead' \subseteq Logins, stalls = 0 => dead' \subseteq lost'
    PROVE  IInv'
  <1>1. /\ auth[u] \in AuthRec /\ ObjInv(u, auth[u]) /\ auth[u].login \in Logins
        /\ lost \subseteq Logins
    BY ObjFacts
  <1>2. Over(auth[u]) \in AuthRec /\ ObjInv(u, Over(auth[u]))
    BY <1>1, OverRec, OverObj
  <1>3. Honest(u, Over(auth[u]))
    <2>1. Over(auth[u]).at \in Using /\ Over(auth[u]).login = auth[u].login
      BY <1>1, OverRec DEF Using
    <2>2. ASSUME NEW t, Brings(u, t) PROVE t = row.cred.token \/ auth[u].login \in lost'
      BY <2>2 DEF Brings, Dropped
    <2> QED
      BY <2>1, <2>2 DEF Honest
  <1>4. lost \subseteq lost' /\ lost' \subseteq Logins
    BY <1>1 DEF Dropped
  <1> QED
    BY <1>1, <1>2, <1>3, <1>4, MovesInv

\* ... when no transaction fails.
LEMMA EndInv ==
    ASSUME IInv, NEW u \in Objects, auth[u].at # "none",
           Move(u, Over(auth[u])), lost' = lost \cup Dropped(u),
           dead' \subseteq Logins, stalls = 0 => dead' \subseteq lost'
    PROVE  IInv'
  <1>1. Moves(u, Over(auth[u]))
    BY MoveMoves DEF IInv
  <1> QED
    BY <1>1, EndsInv

(***************************************************************************)
(* The steps of one object                                                 *)
(***************************************************************************)

\* An object that rests or waits has no lease to strand and no token to lose.
LEMMA IdleInv ==
    ASSUME IInv, NEW u \in Objects, NEW a \in AuthRec, Move(u, a), ObjInv(u, a),
           auth[u].at \in {"none", "ready", "waiting"}, UNCHANGED <<lost, dead>>
    PROVE  IInv'
  <1>1. Honest(u, a)
    BY DEF Honest, Using, Brings
  <1> QED
    BY <1>1, ObjFacts, MoveInv

\* KiroAuth::new
LEMMA MakeInv ==
    ASSUME IInv, NEW u \in Objects, NEW s \in Slots, Make(u, s) PROVE IInv'
  <1> DEFINE a == [NoObject EXCEPT !.at = "ready", !.slot = s, !.login = row.login,
                                   !.cred = row.cred, !.fingerprint = row.cred.token]
  <1>1. TypeOK /\ Numbered
    BY DEF IInv
  <1>2. /\ row.login \in 1..logins /\ row.login \in 0..MaxLogins /\ row.cred \in Credential
        /\ row.cred.token \in Tokens /\ row.cred.token <= host[row.login]
    BY <1>1, LeaseAssumption DEF Make, TypeOK, Numbered, Logins, Credential
  <1>3. /\ a \in AuthRec
        /\ a.at = "ready" /\ a.slot = s /\ a.login = row.login /\ a.late = FALSE
        /\ a.cred = row.cred /\ a.fingerprint = row.cred.token
    BY <1>2, NoObjectRec DEF AuthRec, Places
  <1>4. Move(u, a) /\ UNCHANGED <<lost, dead>> /\ auth[u].at = "none"
    BY DEF Make
  <1> HIDE DEF a
  <1>5. ObjInv(u, a)
    BY <1>2, <1>3 DEF ObjInv, Made, Carried, Covered, Undisturbed, Busy, Exchange
  <1> QED
    BY <1>3, <1>4, <1>5, IdleInv

\* remove_account
LEMMA DiscardInv == ASSUME IInv, NEW u \in Objects, Discard(u) PROVE IInv'
  <1>1. ObjInv(u, NoObject) /\ NoObject \in AuthRec
    BY NoObjectRec DEF ObjInv, Made, Carried, Covered, Undisturbed, Busy, Exchange
  <1> QED
    BY <1>1, IdleInv DEF Discard

\* access_token, force_refresh
LEMMA BeginInv ==
    ASSUME IInv, NEW u \in Objects, NEW force \in BOOLEAN, Begin(u, force) PROVE IInv'
  <1> DEFINE a == [At(u, "waiting") EXCEPT !.force = force, !.previous = auth[u].cred.access]
  <1>1. auth[u] \in AuthRec /\ ObjInv(u, auth[u])
    BY ObjFacts
  <1>2. /\ a \in AuthRec
        /\ a.at = "waiting" /\ a.slot = auth[u].slot /\ a.login = auth[u].login
        /\ a.late = auth[u].late /\ a.cred = auth[u].cred
        /\ a.fingerprint = auth[u].fingerprint
    BY <1>1 DEF At, AuthRec, Places, Credential
  <1>3. Move(u, a) /\ UNCHANGED <<lost, dead>> /\ auth[u].at = "ready"
    BY DEF Begin
  <1> HIDE DEF a
  <1>4. ObjInv(u, a)
    BY <1>1, <1>2, <1>3, RestObj
  <1> QED
    BY <1>2, <1>3, <1>4, IdleInv

\* refresh_with_lease: the deadline
LEMMA GiveUpInv == ASSUME IInv, NEW u \in Objects, GiveUp(u) PROVE IInv'
  <1> DEFINE c == IF IsCurrent(u) THEN Loaded(u) ELSE auth[u]
             a == [Over(c) EXCEPT !.at = "ready"]
  <1>1. TypeOK /\ auth[u] \in AuthRec /\ ObjInv(u, auth[u]) /\ auth[u].at = "waiting"
    BY ObjFacts DEF GiveUp
  <1>2. c \in AuthRec /\ c.at = "waiting" /\ ObjInv(u, c)
    BY <1>1, LoadedRec, LoadedObj
  <1>3. Move(u, a) /\ UNCHANGED <<lost, dead>>
    BY DEF GiveUp
  <1> HIDE DEF c
  <1>4. Over(c) \in AuthRec /\ Over(c).at = "releasing" /\ ObjInv(u, Over(c))
    BY <1>2, OverRec, OverObj
  <1>5. a \in AuthRec /\ ObjInv(u, a)
    BY <1>4, AtRec, RestObj DEF Places
  <1> HIDE DEF a
  <1> QED
    BY <1>1, <1>3, <1>5, IdleInv

\* refresh_with_lease: the reload under the lease
LEMMA ReloadInv == ASSUME IInv, NEW u \in Objects, Reload(u) PROVE IInv'
  <1>1. TypeOK /\ auth[u] \in AuthRec /\ ObjInv(u, auth[u]) /\ auth[u].at = "leased"
    BY ObjFacts DEF Reload
  <1>2. UNCHANGED <<lost, dead>>
    BY DEF Reload
  <1>l. IsCurrent(u) => Loaded(u) \in AuthRec /\ Loaded(u).at = "leased" /\ ObjInv(u, Loaded(u))
    BY <1>1, LoadedRec, LoadedObj
  <1> DEFINE n == [Loaded(u) EXCEPT !.at = "loaded", !.previous = 0, !.force = FALSE]
  <1>3. CASE Move(u, Over(auth[u]))
    <2>1. lost' = lost \cup Dropped(u)
      BY <1>1, <1>2 DEF Dropped
    <2>2. dead' \subseteq Logins /\ (stalls = 0 => dead' \subseteq lost')
      BY <1>2, ObjFacts
    <2> QED
      BY <1>1, <1>3, <2>1, <2>2, EndInv
  <1>4. CASE IsCurrent(u) /\ Move(u, Over(Loaded(u)))
    <2>1. /\ Over(Loaded(u)) \in AuthRec /\ ObjInv(u, Over(Loaded(u)))
          /\ Over(Loaded(u)).at \in Using /\ Over(Loaded(u)).login = auth[u].login
      BY <1>1, <1>4, <1>l, OverRec, OverObj, LoadedRec DEF Using
    <2>2. Honest(u, Over(Loaded(u)))
      BY <2>1, <1>1 DEF Honest, Brings
    <2> QED
      BY <2>1, <2>2, <1>2, <1>4, MoveInv, ObjFacts
  <1>5. CASE IsCurrent(u) /\ Move(u, n)
    <2>1. /\ n \in AuthRec /\ n.at = "loaded" /\ n.late = auth[u].late
          /\ n.slot = auth[u].slot /\ n.login = auth[u].login
          /\ n.cred = Loaded(u).cred /\ n.fingerprint = Loaded(u).fingerprint
      <3>1. "loaded" \in Places /\ 0 \in Accesses
        BY LeaseAssumption DEF Places, Accesses
      <3> QED
        BY <3>1, <1>l, <1>5, <1>1, LoadedRec DEF AuthRec
    <2>2. Loaded(u).late = auth[u].late /\ Loaded(u).slot = auth[u].slot
          /\ Loaded(u).login = auth[u].login
      BY <1>1, LoadedRec
    <2> HIDE DEF n
    <2>3. ObjInv(u, n)
      BY <2>1, <2>2, <1>l, <1>5 DEF ObjInv, Made, Carried, Covered, Undisturbed, Busy, Exchange
    <2>4. Honest(u, n)
      BY <2>1, <1>1 DEF Honest, Brings, Using
    <2> QED
      BY <2>1, <2>3, <2>4, <1>2, <1>5, MoveInv, ObjFacts
  <1> QED
    BY <1>3, <1>4, <1>5 DEF Reload

\* refresh_request: the load before the POST
LEMMA LoadInv == ASSUME IInv, NEW u \in Objects, Load(u) PROVE IInv'
  <1>1. TypeOK /\ auth[u] \in AuthRec /\ ObjInv(u, auth[u]) /\ auth[u].at = "loaded"
    BY ObjFacts DEF Load
  <1>2. UNCHANGED <<lost, dead>>
    BY DEF Load
  <1> DEFINE n == [Loaded(u) EXCEPT !.at = "posting"]
  <1>3. CASE ~IsCurrent(u)
    <2>1. lost' = lost \cup Dropped(u)
      BY <1>1, <1>2 DEF Dropped
    <2>2. dead' \subseteq Logins /\ (stalls = 0 => dead' \subseteq lost')
      BY <1>2, ObjFacts
    <2>3. Move(u, Over(auth[u]))
      BY <1>3 DEF Load
    <2> QED
      BY <1>1, <2>1, <2>2, <2>3, EndInv
  <1>4. CASE IsCurrent(u)
    <2>1. Move(u, n)
      BY <1>4 DEF Load
    <2>2. /\ Loaded(u) \in AuthRec /\ ObjInv(u, Loaded(u))
          /\ Loaded(u).at = "loaded" /\ Loaded(u).login = auth[u].login
          /\ Loaded(u).cred = row.cred /\ Loaded(u).fingerprint = row.cred.token
      BY <1>1, <1>4, LoadedRec, LoadedObj
    <2>3. /\ n \in AuthRec /\ n.at = "posting" /\ n.late = Loaded(u).late
          /\ n.slot = Loaded(u).slot /\ n.login = Loaded(u).login
          /\ n.cred = Loaded(u).cred /\ n.fingerprint = Loaded(u).fingerprint
      BY <2>2, AtRec DEF Places
    <2> HIDE DEF n
    <2>4. ObjInv(u, n)
      BY <2>2, <2>3 DEF ObjInv, Made, Carried, Covered, Undisturbed, Busy, Exchange
    <2>5. Honest(u, n)
      BY <2>2, <2>3, <1>1 DEF Honest, Brings, Using
    <2> QED
      BY <2>1, <2>3, <2>4, <2>5, <1>2, MoveInv, ObjFacts
  <1> QED
    BY <1>3, <1>4

\* The auth host's refusal
LEMMA HostRefusesInv == ASSUME IInv, NEW u \in Objects, HostRefuses(u) PROVE IInv'
  <1>1. auth[u] \in AuthRec /\ ObjInv(u, auth[u]) /\ auth[u].at = "posting"
    BY ObjFacts DEF HostRefuses
  <1> DEFINE n == At(u, "refused")
  <1>2. /\ n \in AuthRec /\ n.at = "refused" /\ n.late = auth[u].late
        /\ n.slot = auth[u].slot /\ n.login = auth[u].login
        /\ n.cred = auth[u].cred /\ n.fingerprint = auth[u].fingerprint
    BY <1>1, AtRec DEF At, Places
  <1>3. Move(u, n) /\ UNCHANGED <<lost, dead>> /\ auth[u].cred.token # host[auth[u].login]
    BY DEF HostRefuses
  <1> HIDE DEF n
  <1>4. ObjInv(u, n)
    BY <1>1, <1>2, <1>3 DEF ObjInv, Made, Carried, Covered, Undisturbed, Busy, Exchange
  <1>5. Honest(u, n)
    BY <1>1, <1>2 DEF Honest, Brings, Using
  <1> QED
    BY <1>2, <1>3, <1>4, <1>5, MoveInv, ObjFacts

\* post: no answer
LEMMA PostFailsInv == ASSUME IInv, NEW u \in Objects, PostFails(u) PROVE IInv'
  <1>1. auth[u].at # "none" /\ Move(u, Over(auth[u])) /\ lost' = lost \cup Dropped(u)
    BY DEF PostFails
  <1>2. dead' \subseteq Logins /\ (stalls = 0 => dead' \subseteq lost')
    BY <1>1, ObjFacts DEF PostFails
  <1> QED
    BY <1>1, <1>2, EndInv

\* do_desktop_refresh, do_oidc_refresh: the answer
LEMMA ReceiveInv == ASSUME IInv, NEW u \in Objects, Receive(u) PROVE IInv'
  <1>1. auth[u] \in AuthRec /\ ObjInv(u, auth[u]) /\ auth[u].at = "answered"
    BY ObjFacts DEF Receive
  <1>2. dead' = dead
    BY DEF Receive
  <1> DEFINE n == [At(u, "saving") EXCEPT !.cred = Renewed(u), !.reply = Blank]
  <1>3. CASE ~IsCurrent(u)
    <2>1. Move(u, Over(auth[u])) /\ lost' = lost \cup Dropped(u)
      BY <1>3 DEF Receive
    <2>2. dead' \subseteq Logins /\ (stalls = 0 => dead' \subseteq lost')
      BY <1>2, <2>1, ObjFacts
    <2> QED
      BY <1>1, <2>1, <2>2, EndInv
  <1>4. CASE IsCurrent(u)
    <2>1. Move(u, n) /\ lost' = lost
      BY <1>4 DEF Receive
    <2>2. /\ n \in AuthRec /\ n.at = "saving" /\ n.late = auth[u].late
          /\ n.slot = auth[u].slot /\ n.login = auth[u].login
          /\ n.cred = auth[u].reply /\ n.fingerprint = auth[u].fingerprint
      <3>1. "saving" \in Places /\ Blank \in Credential
        BY LeaseAssumption DEF Places, Blank, Credential, Tokens, Accesses
      <3> QED
        BY <3>1, <1>1 DEF At, Renewed, AuthRec
    <2> HIDE DEF n
    <2>3. ObjInv(u, n)
      BY <1>1, <2>2 DEF ObjInv, Made, Carried, Covered, Undisturbed, Busy, Exchange
    <2>4. Honest(u, n)
      BY <1>1, <2>2 DEF Honest, Brings, Using
    <2> QED
      BY <1>2, <2>1, <2>2, <2>3, <2>4, MoveInv, ObjFacts
  <1> QED
    BY <1>3, <1>4

\* Without stalls only one call exchanges the token of a login.
LEMMA Alone ==
    ASSUME IInv, NEW u \in Objects, NEW v \in Objects,
           auth[u].at \in Busy, auth[v].at \in Busy, auth[u].login = auth[v].login,
           ~auth[u].late, ~auth[v].late
    PROVE  u = v
  BY ObjFacts DEF ObjInv, Covered

\* dead: without stalls, a refused token of the current login is dead
LEMMA BelieveRefusalInv == ASSUME IInv, NEW u \in Objects, BelieveRefusal(u) PROVE IInv'
  <1>1. auth[u] \in AuthRec /\ ObjInv(u, auth[u]) /\ auth[u].at = "refused"
    BY ObjFacts DEF BelieveRefusal
  <1>2. Move(u, Over(auth[u])) /\ lost' = lost
    BY DEF BelieveRefusal
  <1>3. dead' \subseteq Logins
    BY <1>1, ObjFacts DEF BelieveRefusal
  <1>4. ASSUME stalls = 0, IsCurrent(u) PROVE auth[u].login \in lost
    <2>1. /\ auth[u].login = row.login /\ row.login \in Logins
          /\ row.cred.token # host[row.login]
      BY <1>1, <1>4, ObjFacts DEF IsCurrent, ObjInv, Carried, Undisturbed, Exchange
    <2>2. ASSUME NEW v \in Objects, auth[v].login = row.login, Brings(v, host[row.login])
          PROVE  FALSE
      <3>1. auth[v].at \in {"answered", "saving"}
        BY <2>2 DEF Brings
      <3>2. ~auth[u].late /\ ~auth[v].late
        BY <1>4, ObjFacts DEF ObjInv, Undisturbed
      <3>3. u = v
        BY <1>1, <2>1, <2>2, <3>1, <3>2, Alone DEF Busy
      <3> QED
        BY <1>1, <3>1, <3>3
    <2> QED
      BY <2>1, <2>2 DEF IInv, StoredTokenUsable
  <1>5. stalls = 0 => dead' \subseteq lost'
    BY <1>2, <1>4, ObjFacts DEF BelieveRefusal
  <1>6. lost' = lost \cup Dropped(u)
    BY <1>1, <1>2 DEF Dropped
  <1> QED
    BY <1>1, <1>2, <1>3, <1>5, <1>6, EndInv

\* The client goes away
LEMMA CancelInv == ASSUME IInv, NEW u \in Objects, Cancel(u) PROVE IInv'
  <1>1. /\ auth[u] \in AuthRec /\ ObjInv(u, auth[u])
        /\ auth[u].at \in {"waiting", "posting", "answered", "refused"}
    BY ObjFacts DEF Cancel
  <1>2. /\ Move(u, Cancelled(u)) /\ lost' = lost \cup Dropped(u) /\ dead' = dead
    BY DEF Cancel
  <1>3. CASE auth[u].at = "waiting"
    <2> DEFINE a == [Over(auth[u]) EXCEPT !.at = "ready"]
    <2>1. /\ Over(auth[u]) \in AuthRec /\ ObjInv(u, Over(auth[u]))
          /\ Over(auth[u]).at = "releasing"
      BY <1>1, OverRec, OverObj
    <2>2. a \in AuthRec /\ ObjInv(u, a)
      BY <2>1, AtRec, RestObj DEF Places
    <2>3. Move(u, a) /\ UNCHANGED <<lost, dead>>
      BY <1>2, <1>3 DEF Cancelled, Dropped
    <2> QED
      BY <1>3, <2>2, <2>3, IdleInv
  <1>4. CASE auth[u].at # "waiting"
    <2>1. Move(u, Over(auth[u]))
      BY <1>2, <1>4 DEF Cancelled
    <2>2. dead' \subseteq Logins /\ (stalls = 0 => dead' \subseteq lost')
      BY <1>2, ObjFacts
    <2> QED
      BY <1>1, <1>2, <2>1, <2>2, EndInv
  <1> QED
    BY <1>3, <1>4

(***************************************************************************)
(* The steps that change the row, the lease or the host                    *)
(***************************************************************************)

\* What every lemma below assumes and concludes, part by part.
LEMMA Parts == IInv <=> /\ TypeOK /\ Numbered /\ Objs
                        /\ StoredTokenUsable /\ DeadIsDead /\ LeaseHeld
  BY DEF IInv

\* try_acquire_refresh_lease: a call under the lease keeps others from it
LEMMA AcquireInv == ASSUME IInv, NEW u \in Objects, Acquire(u) PROVE IInv'
  <1> DEFINE l == auth[u].login
             n == At(u, "leased")
  <1>t. TypeOK /\ Numbered /\ Objs /\ StoredTokenUsable /\ DeadIsDead /\ LeaseHeld
    BY Parts
  <1>1. auth[u] \in AuthRec /\ ObjInv(u, auth[u]) /\ auth[u].at = "waiting" /\ l \in Logins
    BY ObjFacts DEF Acquire
  <1>2. /\ n \in AuthRec /\ n.at = "leased" /\ n.late = auth[u].late
        /\ n.slot = auth[u].slot /\ n.login = l
        /\ n.cred = auth[u].cred /\ n.fingerprint = auth[u].fingerprint
    BY <1>1, AtRec DEF At, Places
  <1>3. /\ auth' = [auth EXCEPT ![u] = n]
        /\ lease' = [lease EXCEPT ![l] = [owner |-> u, expired |-> FALSE]]
        /\ auth[u].slot = writer /\ Free(l)
    BY DEF Acquire
  <1>4. /\ UNCHANGED <<row, writer, up, host, issued, stale, logins, lost, dead>>
        /\ UNCHANGED <<stalls, errors, crashes>>
    BY DEF Acquire, hostVars, countVars
  <1> HIDE DEF n
  <1>5. /\ auth' \in [Objects -> AuthRec]
        /\ auth'[u] = n /\ \A v \in Objects \ {u} : auth'[v] = auth[v]
    BY <1>t, <1>2, <1>3 DEF TypeOK
  <1>6. /\ lease' \in [Logins -> Leases]
        /\ lease'[l].owner = u /\ ~lease'[l].expired
        /\ \A m \in Logins \ {l} : lease'[m] = lease[m]
    <2>1. [owner |-> u, expired |-> FALSE] \in Leases
      BY DEF Leases
    <2> QED
      BY <1>t, <1>1, <1>3, <2>1 DEF TypeOK
  <1> HIDE DEF l
  <1>7. TypeOK'
    BY <1>t, <1>4, <1>5, <1>6 DEF TypeOK
  <1>8. Objs'
    <2>1. ASSUME NEW v \in Objects \ {u} PROVE ObjInv(v, auth[v])'
      <3>1. ObjInv(v, auth[v]) /\ auth[v] \in AuthRec /\ (auth[v].at # "none" => auth[v].login \in Logins)
        BY ObjFacts
      <3>2. Covered(v, auth[v])'
        <4>1. CASE auth[v].login = l
          BY <4>1, <1>3, <1>5, <3>1, LeaseAssumption DEF ObjInv, Covered, Free
        <4>2. CASE auth[v].login # l
          BY <4>2, <1>4, <1>5, <1>6, <3>1 DEF ObjInv, Covered, Busy
        <4> QED
          BY <4>1, <4>2
      <3> QED
        BY <3>1, <3>2, <1>4, <1>5 DEF ObjInv, Made, Carried, Undisturbed
    <2>2. ObjInv(u, auth[u])'
      BY <1>1, <1>2, <1>3, <1>4, <1>5, <1>6
      DEF l, ObjInv, Made, Carried, Covered, Undisturbed, Busy, Exchange
    <2> QED
      BY <2>1, <2>2, <1>5 DEF Objs
  <1>9. StoredTokenUsable'
    <2>1. ~\E t : Brings(u, t)
      BY <1>1 DEF Brings
    <2> QED
      BY <2>1, <1>t, <1>4, <1>5 DEF StoredTokenUsable, Brings
  <1>10. LeaseHeld'
    <2> SUFFICES ASSUME crashes = 0, NEW m \in Logins,
                        lease'[m].owner # None, ~lease'[m].expired
                 PROVE  \E v \in Objects : /\ lease'[m].owner = v /\ auth'[v].login = m
                                           /\ auth'[v].at \in Using
      BY <1>4 DEF LeaseHeld, Held, Owns
    <2>1. CASE m = l
      BY <2>1, <1>2, <1>5, <1>6 DEF Using
    <2>2. CASE m # l
      <3>1. PICK v \in Objects : /\ lease[m].owner = v /\ auth[v].login = m
                                 /\ auth[v].at \in Using
        BY <2>2, <1>t, <1>6 DEF LeaseHeld, Held, Owns
      <3>2. v # u
        BY <3>1, <1>1 DEF Using
      <3> QED
        BY <3>1, <3>2, <2>2, <1>5, <1>6
    <2> QED
      BY <2>1, <2>2
  <1>11. Numbered' /\ DeadIsDead'
    BY <1>t, <1>4 DEF Numbered, DeadIsDead
  <1> QED
    BY <1>7, <1>8, <1>9, <1>10, <1>11 DEF IInv

\* The auth host's grant: the one call at work on the login brings the token
LEMMA HostGrantsInv == ASSUME IInv, NEW u \in Objects, HostGrants(u) PROVE IInv'
  <1> DEFINE l == auth[u].login
  <1>t. TypeOK /\ Numbered /\ Objs /\ StoredTokenUsable /\ DeadIsDead /\ LeaseHeld
    BY Parts
  <1>1. auth[u] \in AuthRec /\ ObjInv(u, auth[u]) /\ auth[u].at = "posting" /\ l \in Logins
    BY ObjFacts DEF HostGrants
  <1>2. PICK rotated \in {host[l], host[l] + 1} :
             /\ host' = [host EXCEPT ![l] = rotated]
             /\ auth' = [auth EXCEPT ![u] = [At(u, "answered") EXCEPT
                            !.reply = [token |-> rotated, access |-> issued + 1]]]
    BY DEF HostGrants
  <1> DEFINE n == [At(u, "answered") EXCEPT
                     !.reply = [token |-> rotated, access |-> issued + 1]]
  <1>3. /\ auth[u].cred.token = host[l] /\ host[l] < MaxRefreshes
        /\ issued < MaxRefreshes + logins - 1 /\ issued' = issued + 1
        /\ UNCHANGED <<row, writer, lease, up, stale, logins, lost, dead>>
        /\ UNCHANGED <<stalls, errors, crashes>>
    BY DEF HostGrants, countVars
  <1>4. host[l] \in Tokens /\ rotated \in Tokens /\ host[l] <= rotated
    BY <1>t, <1>1, <1>2, <1>3, LeaseAssumption DEF TypeOK, Tokens
  <1>5. issued' \in Accesses /\ logins \in 1..MaxLogins
    BY <1>t, <1>3, LeaseAssumption DEF TypeOK, Numbered, Accesses, Logins
  <1>6. /\ n \in AuthRec /\ n.at = "answered" /\ n.late = auth[u].late
        /\ n.slot = auth[u].slot /\ n.login = l
        /\ n.cred = auth[u].cred /\ n.fingerprint = auth[u].fingerprint
        /\ n.reply.token = rotated
    <2>1. "answered" \in Places /\ [token |-> rotated, access |-> issued + 1] \in Credential
      BY <1>3, <1>4, <1>5 DEF Places, Credential
    <2> QED
      BY <1>1, <2>1 DEF At, AuthRec
  <1>7. auth' = [auth EXCEPT ![u] = n]
    BY <1>2
  <1> HIDE DEF n
  <1>8. /\ auth' \in [Objects -> AuthRec]
        /\ auth'[u] = n /\ \A v \in Objects \ {u} : auth'[v] = auth[v]
    BY <1>t, <1>6, <1>7 DEF TypeOK
  <1>9. /\ host' \in [Logins -> Tokens]
        /\ host'[l] = rotated /\ \A m \in Logins \ {l} : host'[m] = host[m]
        /\ \A m \in Logins : host[m] <= host'[m]
    <2>1. \A m \in Logins : host[m] \in Int
      BY <1>t, LeaseAssumption DEF TypeOK, Tokens
    <2> QED
      BY <2>1, <1>t, <1>1, <1>2, <1>4 DEF TypeOK
  <1>i. /\ \A m \in Logins : host[m] \in Int /\ host'[m] \in Int
        /\ \A v \in Objects : /\ auth[v].cred.token \in Int /\ auth[v].fingerprint \in Int
                              /\ auth[v].reply.token \in Int
        /\ row.cred.token \in Int
    BY <1>t, <1>9, LeaseAssumption DEF TypeOK, Tokens, AuthRec, Credential
  <1>10. l <= logins
    BY <1>1, <1>t DEF ObjInv, Made
  <1> HIDE DEF l
  <1>11. TypeOK'
    <2>1. row.login # 0 => row.cred.token <= host'[row.login]
      <3>1. row.login # 0 => row.login \in Logins
        BY <1>t, LeaseAssumption DEF TypeOK, Logins
      <3> QED
        BY <3>1, <1>t, <1>9, <1>i DEF TypeOK
    <2> QED
      BY <2>1, <1>t, <1>3, <1>5, <1>8, <1>9 DEF TypeOK
  <1>12. Numbered'
    <2>1. ASSUME NEW m \in Logins, m > logins PROVE host'[m] = 0
      <3>1. m # l
        BY <2>1, <1>1, <1>5, <1>10, LeaseAssumption DEF Logins
      <3> QED
        BY <3>1, <2>1, <1>t, <1>9 DEF Numbered
    <2>2. issued' <= MaxRefreshes + logins - 1
      BY <1>3, <1>t, LeaseAssumption DEF TypeOK, Accesses, Logins
    <2> QED
      BY <2>1, <2>2, <1>t, <1>3 DEF Numbered
  <1>13. Objs'
    <2>1. ASSUME NEW v \in Objects \ {u} PROVE ObjInv(v, auth[v])'
      <3>1. ObjInv(v, auth[v]) /\ (auth[v].at # "none" => auth[v].login \in Logins)
        BY ObjFacts
      <3>2. Made(auth[v])' /\ Carried(auth[v])'
        BY <3>1, <1>3, <1>8, <1>9, <1>i DEF ObjInv, Made, Carried
      <3>3. Covered(v, auth[v])'
        BY <3>1, <1>3, <1>8 DEF ObjInv, Covered
      <3>4. Undisturbed(auth[v])'
        <4>1. ASSUME stalls = 0, auth[v].at = "refused" PROVE auth[v].login # l
          BY <4>1, <1>1, Alone, ObjFacts DEF l, ObjInv, Undisturbed, Busy
        <4> QED
          BY <4>1, <3>1, <1>3, <1>8, <1>9 DEF ObjInv, Undisturbed
      <3> QED
        BY <3>2, <3>3, <3>4 DEF ObjInv
    <2>2. ObjInv(u, auth[u])'
      <3>1. Made(auth[u])' /\ Carried(auth[u])'
        BY <1>1, <1>3, <1>4, <1>6, <1>8, <1>9, <1>i DEF l, ObjInv, Made, Carried
      <3>2. Covered(u, auth[u])' /\ Undisturbed(auth[u])'
        BY <1>1, <1>3, <1>6, <1>8 DEF l, ObjInv, Covered, Undisturbed, Busy, Exchange
      <3> QED
        BY <3>1, <3>2 DEF ObjInv
    <2> QED
      BY <2>1, <2>2, <1>8 DEF Objs
  <1>14. StoredTokenUsable'
    <2> SUFFICES ASSUME row.login \in Logins \ lost
                 PROVE  \/ row.cred.token = host'[row.login]
                        \/ \E v \in Objects : /\ auth'[v].login = row.login
                                              /\ Brings(v, host[row.login])'
      BY <1>3 DEF StoredTokenUsable
    <2>1. CASE row.login = l
      BY <2>1, <1>3, <1>6, <1>8, <1>9 DEF Brings
    <2>2. CASE row.login # l
      <3>1. host'[row.login] = host[row.login]
        BY <2>2, <1>9
      <3>2. \A t : ~Brings(u, t)
        BY <1>1 DEF Brings
      <3> QED
        BY <3>1, <3>2, <1>t, <1>3, <1>8 DEF StoredTokenUsable, Brings
    <2> QED
      BY <2>1, <2>2
  <1>15. DeadIsDead'
    BY <1>t, <1>3 DEF DeadIsDead
  <1>16. LeaseHeld'
    <2>1. \A v \in Objects : auth[v].at \in Using =>
             auth'[v].at \in Using /\ auth'[v].login = auth[v].login
      BY <1>6, <1>8 DEF Using, l
    <2> QED
      BY <2>1, <1>t, <1>3 DEF LeaseHeld, Held, Owns
  <1> QED
    BY <1>11, <1>12, <1>13, <1>14, <1>15, <1>16 DEF IInv

\* save_credential_for_login: what is saved is what the host expects
LEMMA SavedInv ==
    ASSUME IInv, NEW u \in Objects, auth[u].at = "saving", Savable(u),
           row' = [login |-> row.login, cred |-> auth[u].cred, marked |-> TRUE],
           auth' = [auth EXCEPT ![u] = [Over(auth[u]) EXCEPT !.fingerprint = auth[u].cred.token]],
           UNCHANGED <<lost, dead, errors, writer, lease, up, hostVars, stale, logins,
                       stalls, crashes>>
    PROVE  IInv'
  <1> DEFINE n == [Over(auth[u]) EXCEPT !.fingerprint = auth[u].cred.token]
  <1>t. TypeOK /\ Numbered /\ Objs /\ StoredTokenUsable /\ DeadIsDead /\ LeaseHeld
    BY Parts
  <1>1. auth[u] \in AuthRec /\ ObjInv(u, auth[u]) /\ auth[u].login \in Logins
    BY ObjFacts
  <1>2. /\ n \in AuthRec /\ n.at = "releasing" /\ n.late = FALSE
        /\ n.slot = auth[u].slot /\ n.login = auth[u].login
        /\ n.cred = auth[u].cred /\ n.fingerprint = auth[u].cred.token
    <2>1. auth[u].cred.token \in Tokens
      BY <1>1 DEF AuthRec, Credential
    <2> QED
      BY <2>1, <1>1, OverRec DEF AuthRec
  <1>3. auth' = [auth EXCEPT ![u] = n]
    OBVIOUS
  <1> HIDE DEF n
  <1>4. /\ auth' \in [Objects -> AuthRec]
        /\ auth'[u] = n /\ \A v \in Objects \ {u} : auth'[v] = auth[v]
    BY <1>t, <1>2, <1>3 DEF TypeOK
  <1>5. /\ row'.login = row.login /\ row'.cred = auth[u].cred
        /\ row.login = auth[u].login /\ row.cred.token = auth[u].fingerprint
        /\ row' \in [login: 0..MaxLogins, cred: Credential, marked: BOOLEAN]
    <2>1. row.login \in 0..MaxLogins /\ auth[u].cred \in Credential
      BY <1>t, <1>1 DEF TypeOK, AuthRec
    <2> QED
      BY <2>1 DEF Savable, IsCurrent
  <1>6. /\ host' = host /\ issued' = issued
    BY DEF hostVars
  <1>i. /\ \A m \in Logins : host[m] \in Int
        /\ \A v \in Objects : auth[v].cred.token \in Int /\ auth[v].fingerprint \in Int
        /\ row.cred.token \in Int
    BY <1>t, LeaseAssumption DEF TypeOK, Tokens, AuthRec, Credential
  <1>7. auth[u].fingerprint <= auth[u].cred.token /\ auth[u].cred.token <= host[row.login]
    BY <1>1, <1>5 DEF ObjInv, Made, Carried
  <1>8. TypeOK'
    BY <1>t, <1>4, <1>5, <1>6, <1>7 DEF TypeOK
  <1>9. Numbered' /\ DeadIsDead'
    BY <1>t, <1>5, <1>6 DEF Numbered, DeadIsDead
  <1>10. Objs'
    <2>1. ASSUME NEW v \in Objects \ {u} PROVE ObjInv(v, auth[v])'
      <3>1. ObjInv(v, auth[v]) /\ auth'[v] = auth[v]
        BY <1>4, ObjFacts
      <3>2. ASSUME stalls = 0, auth[v].at \in Exchange PROVE auth[v].login # row.login
        BY <3>1, <3>2, <1>1, <1>5, Alone DEF ObjInv, Undisturbed, Busy, Exchange
      <3>3. Undisturbed(auth[v])'
        BY <3>1, <3>2, <1>5, <1>6 DEF ObjInv, Undisturbed
      <3> QED
        BY <3>1, <3>3, <1>6 DEF ObjInv, Made, Carried, Covered
    <2>2. ObjInv(u, auth[u])'
      BY <1>1, <1>2, <1>4, <1>6 DEF ObjInv, Made, Carried, Covered, Undisturbed, Busy, Exchange
    <2> QED
      BY <2>1, <2>2 DEF Objs
  <1>11. StoredTokenUsable'
    <2> SUFFICES ASSUME row.login \in Logins \ lost
                 PROVE  \/ row'.cred.token = host[row.login]
                        \/ \E v \in Objects : /\ auth'[v].login = row.login
                                              /\ Brings(v, host[row.login])'
      BY <1>5, <1>6 DEF StoredTokenUsable
    <2>1. CASE row.cred.token = host[row.login]
      BY <2>1, <1>5, <1>7, <1>i
    <2>2. ASSUME NEW v \in Objects, auth[v].login = row.login, Brings(v, host[row.login])
          PROVE  \/ row'.cred.token = host[row.login]
                 \/ auth'[v].login = row.login /\ Brings(v, host[row.login])'
      <3>1. CASE v = u
        BY <3>1, <2>2, <1>5 DEF Brings
      <3>2. CASE v # u
        BY <3>2, <2>2, <1>4, <1>5, <1>6 DEF Brings
      <3> QED
        BY <3>1, <3>2
    <2> QED
      BY <2>1, <2>2, <1>t DEF StoredTokenUsable
  <1>12. LeaseHeld'
    <2>1. \A v \in Objects : auth[v].at \in Using =>
             auth'[v].at \in Using /\ auth'[v].login = auth[v].login
      BY <1>2, <1>4 DEF Using
    <2> QED
      BY <2>1, <1>t DEF LeaseHeld, Held, Owns
  <1> QED
    BY <1>8, <1>9, <1>10, <1>11, <1>12 DEF IInv

\* persist, whether it saves or fails
LEMMA SaveInv == ASSUME IInv, NEW u \in Objects, Save(u) PROVE IInv'
  <1>1. CASE /\ Savable(u)
             /\ row' = [login |-> row.login, cred |-> auth[u].cred, marked |-> TRUE]
             /\ auth' = [auth EXCEPT ![u] = [Over(auth[u]) EXCEPT
                                              !.fingerprint = auth[u].cred.token]]
             /\ UNCHANGED <<lost, errors>>
    <2>1. auth[u].at = "saving"
      BY DEF Save
    <2>2. UNCHANGED <<dead, writer, lease, up, hostVars, stale, logins, stalls, crashes>>
      BY DEF Save
    <2>3. UNCHANGED <<lost, dead, errors, writer, lease, up, hostVars, stale, logins,
                      stalls, crashes>>
      BY <1>1, <2>2
    <2> QED
      BY <1>1, <2>1, <2>3, SavedInv
  <1>2. CASE /\ UNCHANGED errors \/ (crashes + errors < MaxFailures /\ errors' = errors + 1)
             /\ lost' = lost \cup Dropped(u)
             /\ auth' = [auth EXCEPT ![u] = Over(auth[u])]
             /\ UNCHANGED row
    <2>1. UNCHANGED <<dead, writer, lease, up, hostVars, stale, logins, stalls, crashes>>
      BY DEF Save
    <2>2. TypeOK
      BY DEF IInv
    <2>3. errors' \in Nat /\ crashes + errors' <= MaxFailures
      BY <1>2, <2>2, LeaseAssumption DEF TypeOK
    <2>4. Moves(u, Over(auth[u]))
      BY <1>2, <2>1, <2>3 DEF Moves, hostVars
    <2>5. dead' \subseteq Logins /\ (stalls = 0 => dead' \subseteq lost')
      BY <1>2, <2>1, ObjFacts
    <2>6. auth[u].at # "none"
      BY DEF Save
    <2> QED
      BY <1>2, <2>4, <2>5, <2>6, EndsInv
  <1> QED
    BY <1>1, <1>2 DEF Save

\* RefreshLease::drop
LEMMA ReleaseInv == ASSUME IInv, NEW u \in Objects, Release(u) PROVE IInv'
  <1> DEFINE l == auth[u].login
             n == At(u, "ready")
  <1>t. TypeOK /\ Numbered /\ Objs /\ StoredTokenUsable /\ DeadIsDead /\ LeaseHeld
    BY Parts
  <1>1. auth[u] \in AuthRec /\ ObjInv(u, auth[u]) /\ auth[u].at = "releasing" /\ l \in Logins
    BY ObjFacts DEF Release
  <1>2. /\ n \in AuthRec /\ n.at = "ready" /\ n.late = auth[u].late
        /\ n.slot = auth[u].slot /\ n.login = l
        /\ n.cred = auth[u].cred /\ n.fingerprint = auth[u].fingerprint
    BY <1>1, AtRec DEF At, Places
  <1>3. /\ auth' = [auth EXCEPT ![u] = n]
        /\ lease' = IF Owns(l, u) THEN [lease EXCEPT ![l] = NoLease] ELSE lease
    BY DEF Release
  <1>4. /\ UNCHANGED <<row, writer, up, host, issued, stale, logins, lost, dead>>
        /\ UNCHANGED <<stalls, errors, crashes>>
    BY DEF Release, hostVars, countVars
  <1> HIDE DEF n
  <1>5. /\ auth' \in [Objects -> AuthRec]
        /\ auth'[u] = n /\ \A v \in Objects \ {u} : auth'[v] = auth[v]
    BY <1>t, <1>2, <1>3 DEF TypeOK
  <1>6. /\ lease' \in [Logins -> Leases]
        /\ \A m \in Logins : lease'[m] = IF m = l /\ lease[l].owner = u THEN NoLease
                                         ELSE lease[m]
    <2>1. NoLease \in Leases
      BY DEF NoLease, Leases
    <2> QED
      BY <2>1, <1>t, <1>1, <1>3 DEF TypeOK, Owns
  <1> HIDE DEF l
  <1>7. TypeOK'
    BY <1>t, <1>4, <1>5, <1>6 DEF TypeOK
  <1>8. Objs'
    <2>1. ASSUME NEW v \in Objects \ {u} PROVE ObjInv(v, auth[v])'
      <3>1. /\ ObjInv(v, auth[v]) /\ (auth[v].at # "none" => auth[v].login \in Logins)
            /\ auth'[v] = auth[v]
        BY <1>5, ObjFacts
      <3>2. Covered(v, auth[v])'
        BY <3>1, <1>4, <1>6 DEF ObjInv, Covered, Busy
      <3> QED
        BY <3>1, <3>2, <1>4 DEF ObjInv, Made, Carried, Undisturbed
    <2>2. ObjInv(u, auth[u])'
      BY <1>1, <1>2, <1>4, <1>5 DEF l, ObjInv, Made, Carried, Covered, Undisturbed, Busy, Exchange
    <2> QED
      BY <2>1, <2>2 DEF Objs
  <1>9. StoredTokenUsable'
    <2>1. ~\E t : Brings(u, t)
      BY <1>1 DEF Brings
    <2> QED
      BY <2>1, <1>t, <1>4, <1>5 DEF StoredTokenUsable, Brings
  <1>10. LeaseHeld'
    <2> SUFFICES ASSUME crashes = 0, NEW m \in Logins,
                        lease'[m].owner # None, ~lease'[m].expired
                 PROVE  \E v \in Objects : /\ lease'[m].owner = v /\ auth'[v].login = m
                                           /\ auth'[v].at \in Using
      BY <1>4 DEF LeaseHeld, Held, Owns
    <2>1. lease'[m] = lease[m] /\ ~(m = l /\ lease[l].owner = u)
      BY <1>6 DEF NoLease
    <2>2. PICK v \in Objects : /\ lease[m].owner = v /\ auth[v].login = m
                               /\ auth[v].at \in Using
      BY <2>1, <1>t DEF LeaseHeld, Held, Owns
    <2>3. v # u
      BY <2>1, <2>2 DEF l
    <2> QED
      BY <2>1, <2>2, <2>3, <1>5
  <1>11. Numbered' /\ DeadIsDead'
    BY <1>t, <1>4 DEF Numbered, DeadIsDead
  <1> QED
    BY <1>7, <1>8, <1>9, <1>10, <1>11 DEF IInv

(***************************************************************************)
(* The deployment's steps                                                  *)
(***************************************************************************)

\* A step that leaves the objects and their leases keeps LeaseHeld.
LEMMA SameLeases ==
    ASSUME LeaseHeld, UNCHANGED <<auth, lease>>, crashes' = 0 => crashes = 0
    PROVE  LeaseHeld'
  BY DEF LeaseHeld, Held, Owns

\* delete_account
LEMMA DeleteInv == ASSUME IInv, NEW s \in Slots, DeleteAccount(s) PROVE IInv'
  <1>t. TypeOK /\ Numbered /\ Objs /\ StoredTokenUsable /\ DeadIsDead /\ LeaseHeld
    BY Parts
  <1>1. /\ row' = NoRow
        /\ UNCHANGED <<writer, lease, up, auth, host, issued, stale, logins, lost, dead>>
        /\ UNCHANGED <<stalls, errors, crashes>>
    BY DEF DeleteAccount, hostVars, countVars
  <1>2. /\ row'.login = 0
        /\ row' \in [login: 0..MaxLogins, cred: Credential, marked: BOOLEAN]
    BY <1>1, LeaseAssumption DEF NoRow, Blank, Credential, Tokens, Accesses
  <1>3. TypeOK'
    BY <1>t, <1>1, <1>2 DEF TypeOK
  <1>4. Numbered' /\ DeadIsDead' /\ LeaseHeld'
    BY <1>t, <1>1, <1>2, SameLeases, LeaseAssumption DEF TypeOK, Logins, Numbered, DeadIsDead
  <1>5. StoredTokenUsable'
    BY <1>2, LeaseAssumption DEF StoredTokenUsable, Logins
  <1>6. Objs'
    <2>1. ASSUME NEW u \in Objects PROVE ObjInv(u, auth[u])'
      <3>1. ObjInv(u, auth[u]) /\ (auth[u].at # "none" => auth[u].login \in Logins)
        BY ObjFacts
      <3>2. auth[u].at \in Exchange => auth[u].login # 0
        BY <3>1, LeaseAssumption DEF Logins, Exchange
      <3> QED
        BY <3>1, <3>2, <1>1, <1>2 DEF ObjInv, Made, Carried, Covered, Undisturbed
    <2> QED
      BY <2>1 DEF Objs
  <1> QED
    BY <1>3, <1>4, <1>5, <1>6 DEF IInv

\* register: no object knows the new login yet
LEMMA RegisterInv == ASSUME IInv, NEW s \in Slots, RegisterAccount(s) PROVE IInv'
  <1>t. TypeOK /\ Numbered /\ Objs /\ StoredTokenUsable /\ DeadIsDead /\ LeaseHeld
    BY Parts
  <1>1. /\ logins < MaxLogins /\ logins' = logins + 1 /\ issued' = issued + 1
        /\ row' = [login |-> logins + 1, cred |-> [token |-> 0, access |-> issued + 1],
                   marked |-> FALSE]
        /\ UNCHANGED <<writer, lease, up, auth, host, stale, lost, dead>>
        /\ UNCHANGED <<stalls, errors, crashes>>
    BY DEF RegisterAccount, countVars
  <1>2. /\ logins \in 1..MaxLogins /\ logins' \in Logins
        /\ issued \in Int /\ issued' \in Accesses
        /\ issued' <= MaxRefreshes + logins' - 1
    BY <1>t, <1>1, LeaseAssumption DEF TypeOK, Numbered, Logins, Accesses
  <1>3. /\ row'.login = logins + 1 /\ row'.cred.token = 0
        /\ row' \in [login: 0..MaxLogins, cred: Credential, marked: BOOLEAN]
    <2>1. [token |-> 0, access |-> issued + 1] \in Credential
      BY <1>1, <1>2, LeaseAssumption DEF Credential, Tokens
    <2>2. logins + 1 \in 0..MaxLogins
      BY <1>1, <1>2, LeaseAssumption
    <2> QED
      BY <2>1, <2>2, <1>1
  <1>4. host[logins + 1] = 0 /\ row'.login \in Logins
    BY <1>t, <1>1, <1>2, <1>3 DEF Numbered, Logins
  <1>5. TypeOK'
    BY <1>t, <1>1, <1>2, <1>3, <1>4 DEF TypeOK
  <1>6. Numbered'
    <2>1. \A l \in Logins : l > logins' => l > logins
      BY <1>1, <1>2 DEF Logins
    <2> QED
      BY <2>1, <1>t, <1>1, <1>2, <1>3 DEF Numbered
  <1>7. StoredTokenUsable'
    BY <1>1, <1>3, <1>4 DEF StoredTokenUsable
  <1>8. DeadIsDead' /\ LeaseHeld'
    BY <1>t, <1>1, SameLeases DEF DeadIsDead
  <1>9. Objs'
    <2>1. ASSUME NEW u \in Objects PROVE ObjInv(u, auth[u])'
      <3>1. ObjInv(u, auth[u])
        BY ObjFacts
      <3>2. auth[u].at # "none" => auth[u].login \in 1..logins' /\ auth[u].login # row'.login
        BY <3>1, <1>1, <1>2, <1>3 DEF ObjInv, Made
      <3>3. Made(auth[u])' /\ Undisturbed(auth[u])'
        BY <3>1, <3>2, <1>1 DEF ObjInv, Made, Undisturbed, Exchange
      <3> QED
        BY <3>1, <3>3, <1>1 DEF ObjInv, Carried, Covered
    <2> QED
      BY <2>1 DEF Objs
  <1> QED
    BY <1>5, <1>6, <1>7, <1>8, <1>9 DEF IInv

\* set_runtime_writer: no lease in force means that no call is under one
LEMMA SetWriterInv == ASSUME IInv, NEW s \in Slots, SetWriter(s) PROVE IInv'
  <1>t. TypeOK /\ Numbered /\ Objs /\ StoredTokenUsable /\ DeadIsDead /\ LeaseHeld
    BY Parts
  <1>1. /\ \A l \in Logins : Free(l)
        /\ writer' = s
        /\ lease' = [l \in Logins |-> IF lease[l].expired THEN NoLease ELSE lease[l]]
        /\ UNCHANGED <<row, up, auth, host, issued, stale, logins, lost, dead>>
        /\ UNCHANGED <<stalls, errors, crashes>>
    BY DEF SetWriter, Unleased, hostVars, countVars
  <1>2. lease' \in [Logins -> Leases]
    <2>1. NoLease \in Leases
      BY DEF NoLease, Leases
    <2> QED
      BY <2>1, <1>1, <1>t DEF TypeOK
  <1>3. \A l \in Logins : lease'[l].owner = None
    BY <1>1 DEF Free, NoLease
  <1>4. TypeOK'
    BY <1>t, <1>1, <1>2 DEF TypeOK
  <1>5. Numbered' /\ DeadIsDead' /\ StoredTokenUsable'
    BY <1>t, <1>1 DEF Numbered, DeadIsDead, StoredTokenUsable, Brings
  <1>6. LeaseHeld'
    BY <1>3 DEF LeaseHeld
  <1>7. Objs'
    <2>1. ASSUME NEW u \in Objects PROVE ObjInv(u, auth[u])'
      <3>1. ObjInv(u, auth[u]) /\ (auth[u].at # "none" => auth[u].login \in Logins)
        BY ObjFacts
      <3>2. ~(auth[u].at \in Busy /\ ~auth[u].late)
        BY <3>1, <1>1, LeaseAssumption DEF ObjInv, Covered, Free, Busy
      <3> QED
        BY <3>1, <3>2, <1>1 DEF ObjInv, Made, Carried, Covered, Undisturbed
    <2> QED
      BY <2>1 DEF Objs
  <1> QED
    BY <1>4, <1>5, <1>6, <1>7 DEF IInv

\* The death of a process
LEMMA CrashInv == ASSUME IInv, NEW s \in Slots, Crash(s) PROVE IInv'
  <1> DEFINE gone == {u \in Objects : auth[u].slot = s}
  <1>t. TypeOK /\ Numbered /\ Objs /\ StoredTokenUsable /\ DeadIsDead /\ LeaseHeld
    BY Parts
  <1>1. /\ crashes + errors < MaxFailures /\ crashes' = crashes + 1
        /\ up' = up \ {s}
        /\ lost' = lost \cup UNION {Dropped(u) : u \in gone}
        /\ auth' = [u \in Objects |-> IF auth[u].slot = s THEN NoObject ELSE auth[u]]
        /\ UNCHANGED <<row, writer, lease, host, issued, stale, logins, dead, stalls, errors>>
    BY DEF Crash, hostVars
  <1>2. auth' \in [Objects -> AuthRec]
    BY <1>t, <1>1, NoObjectRec DEF TypeOK
  <1>3. \A u \in Objects : Dropped(u) \subseteq Logins
    <2>1. ASSUME NEW u \in Objects PROVE Dropped(u) \subseteq Logins
      BY ObjFacts DEF Dropped
    <2> QED
      BY <2>1
  <1>4. /\ lost \subseteq lost' /\ lost' \subseteq Logins
        /\ \A u \in gone : Dropped(u) \subseteq lost'
    BY <1>t, <1>1, <1>3 DEF TypeOK
  <1>5. crashes' \in Nat /\ crashes' + errors' <= MaxFailures /\ crashes' # 0
    BY <1>t, <1>1, LeaseAssumption DEF TypeOK
  <1>6. TypeOK'
    BY <1>t, <1>1, <1>2, <1>4, <1>5 DEF TypeOK
  <1>7. Numbered' /\ DeadIsDead' /\ LeaseHeld'
    BY <1>t, <1>1, <1>4, <1>5 DEF Numbered, DeadIsDead, LeaseHeld
  <1>8. Objs'
    <2>1. ASSUME NEW u \in Objects PROVE ObjInv(u, auth[u])'
      <3>1. CASE auth'[u] = NoObject
        BY <3>1, NoObjectRec DEF ObjInv, Made, Carried, Covered, Undisturbed, Busy, Exchange
      <3>2. CASE auth'[u] = auth[u]
        BY <3>2, <1>1, ObjFacts DEF ObjInv, Made, Carried, Covered, Undisturbed
      <3> QED
        BY <3>1, <3>2, <1>1
    <2> QED
      BY <2>1 DEF Objs
  <1>9. StoredTokenUsable'
    <2> SUFFICES ASSUME row.login \in Logins \ lost', row.cred.token # host[row.login]
                 PROVE  \E v \in Objects : /\ auth'[v].login = row.login
                                           /\ Brings(v, host[row.login])'
      BY <1>1 DEF StoredTokenUsable
    <2>1. PICK v \in Objects : auth[v].login = row.login /\ Brings(v, host[row.login])
      BY <1>t, <1>4 DEF StoredTokenUsable
    <2>2. row.login \in Dropped(v)
      BY <2>1 DEF Brings, Dropped
    <2>3. auth[v].slot # s
      BY <2>2, <1>4
    <2>4. auth'[v] = auth[v]
      BY <2>3, <1>1
    <2> QED
      BY <2>1, <2>4, <1>1 DEF Brings
  <1> QED
    BY <1>6, <1>7, <1>8, <1>9 DEF IInv

\* A start, and the ageing of the stored access token
LEMMA StartInv ==
    ASSUME IInv, TokenAges \/ (\E s \in Slots : StartSlot(s)) \/ UNCHANGED vars
    PROVE  IInv'
  <1>t. TypeOK /\ Numbered /\ Objs /\ StoredTokenUsable /\ DeadIsDead /\ LeaseHeld
    BY Parts
  <1>1. /\ UNCHANGED <<row, writer, lease, auth, host, issued, logins, lost, dead>>
        /\ UNCHANGED <<stalls, errors, crashes>>
    BY DEF TokenAges, StartSlot, vars, hostVars, countVars
  <1>2. up' \subseteq Slots /\ stale' \in Accesses
    BY <1>t DEF TokenAges, StartSlot, vars, TypeOK, Credential
  <1>3. TypeOK'
    BY <1>t, <1>1, <1>2 DEF TypeOK
  <1>4. Numbered' /\ DeadIsDead' /\ StoredTokenUsable' /\ LeaseHeld'
    BY <1>t, <1>1, SameLeases DEF Numbered, DeadIsDead, StoredTokenUsable, Brings
  <1>5. Objs'
    BY <1>t, <1>1 DEF Objs, ObjInv, Made, Carried, Covered, Undisturbed
  <1> QED
    BY <1>3, <1>4, <1>5 DEF IInv

\* The expiry of a lease, which makes its live holder late
LEMMA ExpireInv == ASSUME IInv, NEW l \in Logins, LeaseExpires(l) PROVE IInv'
  <1> DEFINE o == lease[l].owner
  <1>t. TypeOK /\ Numbered /\ Objs /\ StoredTokenUsable /\ DeadIsDead /\ LeaseHeld
    BY Parts
  <1>1. /\ lease' = [lease EXCEPT ![l].expired = TRUE]
        /\ UNCHANGED <<row, writer, up, host, issued, stale, logins, lost, dead, errors, crashes>>
    BY DEF LeaseExpires, hostVars
  <1>2. /\ lease' \in [Logins -> Leases]
        /\ lease'[l].expired /\ \A m \in Logins : lease'[m].owner = lease[m].owner
        /\ \A m \in Logins \ {l} : lease'[m] = lease[m]
    BY <1>1, <1>t DEF TypeOK, Leases
  <1>3. /\ Held(l) => /\ o \in Objects /\ auth[o].login = l /\ auth[o].at \in Using
                      /\ stalls < MaxStalls /\ stalls' = stalls + 1
                      /\ auth' = [auth EXCEPT ![o].late = auth[o].at # "releasing"]
        /\ ~Held(l) => UNCHANGED <<stalls, auth>>
    BY DEF LeaseExpires, Held, Owns
  <1> HIDE DEF o
  <1>4. /\ auth' \in [Objects -> AuthRec]
        /\ stalls' \in 0..MaxStalls /\ (stalls' = 0 => stalls = 0 /\ ~Held(l))
        /\ \A u \in Objects : u # o => auth'[u] = auth[u]
        /\ ~Held(l) => auth' = auth
        /\ Held(l) => auth'[o].late = (auth[o].at # "releasing")
    <2>1. CASE Held(l)
      <3> DEFINE b == [auth[o] EXCEPT !.late = auth[o].at # "releasing"]
      <3>1. auth' = [auth EXCEPT ![o] = b] /\ o \in Objects
        BY <2>1, <1>3
      <3>4. auth[o] \in AuthRec /\ auth \in [Objects -> AuthRec]
        BY <3>1, <1>t DEF TypeOK
      <3>5. b \in AuthRec /\ b.late = (auth[o].at # "releasing")
        <4>1. (auth[o].at # "releasing") \in BOOLEAN
          OBVIOUS
        <4> QED
          BY <3>4, <4>1, Zenon DEF AuthRec
      <3> HIDE DEF b
      <3>2. /\ auth' \in [Objects -> AuthRec] /\ \A u \in Objects : u # o => auth'[u] = auth[u]
            /\ auth'[o].late = (auth[o].at # "releasing")
        BY <3>1, <3>4, <3>5
      <3>3. stalls' \in 0..MaxStalls /\ stalls' # 0
        BY <2>1, <1>t, <1>3, LeaseAssumption DEF TypeOK
      <3> QED
        BY <2>1, <3>2, <3>3
    <2>2. CASE ~Held(l)
      BY <2>2, <1>t, <1>3 DEF TypeOK
    <2> QED
      BY <2>1, <2>2
  <1>5. \A u \in Objects :
           /\ auth'[u].at = auth[u].at /\ auth'[u].slot = auth[u].slot
           /\ auth'[u].login = auth[u].login /\ auth'[u].cred = auth[u].cred
           /\ auth'[u].fingerprint = auth[u].fingerprint /\ auth'[u].reply = auth[u].reply
    <2>1. CASE Held(l)
      BY <2>1, <1>t, <1>3 DEF TypeOK, AuthRec
    <2>2. CASE ~Held(l)
      BY <2>2, <1>3
    <2> QED
      BY <2>1, <2>2
  <1>6. TypeOK'
    BY <1>t, <1>1, <1>2, <1>4 DEF TypeOK
  <1>7. Numbered' /\ DeadIsDead'
    BY <1>t, <1>1, <1>4 DEF Numbered, DeadIsDead
  <1>8. StoredTokenUsable'
    BY <1>t, <1>1, <1>5 DEF StoredTokenUsable, Brings
  <1>9. LeaseHeld'
    <2> SUFFICES ASSUME crashes = 0, NEW m \in Logins,
                        lease'[m].owner # None, ~lease'[m].expired
                 PROVE  \E v \in Objects : /\ lease'[m].owner = v /\ auth'[v].login = m
                                           /\ auth'[v].at \in Using
      BY <1>1 DEF LeaseHeld, Held, Owns
    <2>1. lease'[m] = lease[m]
      BY <1>2
    <2> QED
      BY <2>1, <1>t, <1>5 DEF LeaseHeld, Held, Owns
  <1>10. Objs'
    <2>1. ASSUME NEW u \in Objects PROVE ObjInv(u, auth[u])'
      <3>1. /\ ObjInv(u, auth[u]) /\ auth[u] \in AuthRec
            /\ auth[u].at # "none" => auth[u].login \in Logins
        BY ObjFacts
      <3>2. Made(auth[u])' /\ Carried(auth[u])'
        BY <3>1, <1>1, <1>5 DEF ObjInv, Made, Carried
      <3>3. Undisturbed(auth[u])'
        BY <3>1, <1>1, <1>4, <1>5 DEF ObjInv, Undisturbed
      <3>4. ASSUME auth[u].at \in Busy, ~auth'[u].late
            PROVE  ~auth[u].late /\ auth[u].login # l
        <4>1. CASE u = o /\ Held(l)
          BY <4>1, <3>4, <1>4 DEF Busy
        <4>2. CASE u # o \/ ~Held(l)
          <5>1. auth'[u] = auth[u]
            BY <4>2, <1>4
          <5>2. auth[u].login # l
            BY <5>1, <4>2, <3>1, <3>4 DEF ObjInv, Covered, Held, Owns, Busy, Using, o
          <5> QED
            BY <5>1, <5>2, <3>4
        <4> QED
          BY <4>1, <4>2
      <3>5. Covered(u, auth[u])'
        BY <3>1, <3>4, <1>1, <1>2, <1>5 DEF ObjInv, Covered, Busy
      <3> QED
        BY <3>2, <3>3, <3>5 DEF ObjInv
    <2> QED
      BY <2>1 DEF Objs
  <1> QED
    BY <1>6, <1>7, <1>8, <1>9, <1>10 DEF IInv

(***************************************************************************)
(* The theorems                                                            *)
(***************************************************************************)

\* The first state of the model satisfies the inductive invariant.
LEMMA InitInv == Init => IInv
  <1> SUFFICES ASSUME Init PROVE IInv
    OBVIOUS
  <1> USE LeaseAssumption
  <1>1. /\ Blank \in Credential /\ Blank.token = 0 /\ 1 \in Logins /\ 0 \in Tokens /\ 0 \in Accesses
        /\ NoLease \in Leases /\ NoLease.owner = None
    BY DEF Blank, Credential, Tokens, Accesses, Logins, NoLease, Leases
  <1>2. /\ row.login = 1 /\ row.cred = Blank
        /\ row \in [login: 0..MaxLogins, cred: Credential, marked: BOOLEAN]
    BY <1>1 DEF Init, Logins
  <1>3. /\ auth \in [Objects -> AuthRec] /\ \A u \in Objects : auth[u] = NoObject
        /\ lease \in [Logins -> Leases] /\ \A l \in Logins : lease[l] = NoLease
        /\ host \in [Logins -> Tokens] /\ \A l \in Logins : host[l] = 0
    BY <1>1, NoObjectRec DEF Init
  <1>4. TypeOK
    BY <1>1, <1>2, <1>3 DEF Init, TypeOK
  <1>5. Numbered /\ StoredTokenUsable /\ DeadIsDead /\ LeaseHeld
    BY <1>1, <1>2, <1>3 DEF Init, Numbered, StoredTokenUsable, DeadIsDead, LeaseHeld
  <1>6. Objs
    BY <1>3, NoObjectRec DEF Objs, ObjInv, Made, Carried, Covered, Undisturbed, Busy, Exchange
  <1> QED
    BY <1>4, <1>5, <1>6 DEF IInv

\* Every step keeps the inductive invariant.
LEMMA NextInv == IInv /\ [Next]_vars => IInv'
  <1> SUFFICES ASSUME IInv, [Next]_vars PROVE IInv'
    OBVIOUS
  <1>1. ASSUME NEW u \in Objects,
               \/ \E s \in Slots : Make(u, s)
               \/ Discard(u)
               \/ \E force \in BOOLEAN : Begin(u, force)
               \/ Acquire(u) \/ GiveUp(u) \/ Cancel(u)
        PROVE  IInv'
    BY <1>1, MakeInv, DiscardInv, BeginInv, AcquireInv, GiveUpInv, CancelInv
  <1>2. ASSUME NEW u \in Objects, Refresh(u) PROVE IInv'
    BY <1>2, ReloadInv, LoadInv, HostGrantsInv, HostRefusesInv, PostFailsInv, ReceiveInv,
       BelieveRefusalInv, SaveInv, ReleaseInv DEF Refresh
  <1>3. ASSUME NEW s \in Slots,
               DeleteAccount(s) \/ RegisterAccount(s) \/ SetWriter(s) \/ Crash(s)
        PROVE  IInv'
    BY <1>3, DeleteInv, RegisterInv, SetWriterInv, CrashInv
  <1>4. ASSUME NEW l \in Logins, LeaseExpires(l) PROVE IInv'
    BY <1>4, ExpireInv
  <1>5. ASSUME TokenAges \/ (\E s \in Slots : StartSlot(s)) \/ UNCHANGED vars PROVE IInv'
    BY <1>5, StartInv
  <1> QED
    BY <1>1, <1>2, <1>3, <1>4, <1>5 DEF Next

\* The inductive invariant holds in every reachable state.
THEOREM Invariant == Spec => []IInv
  BY InitInv, NextInv, PTL DEF Spec

\* Every variable keeps its type, and no credential is stored that the auth
\* host has not given.
THEOREM TypeCorrect == Spec => []TypeOK
  <1>1. IInv => TypeOK
    BY Parts
  <1> QED
    BY <1>1, Invariant, PTL

\* A login is never refreshed twice at once, but by a call that outslept its
\* lease.
THEOREM RefreshedOnce == Spec => []NeverTwice
  <1>1. IInv => NeverTwice
    BY Alone DEF NeverTwice, Exchanging, Busy
  <1> QED
    BY <1>1, Invariant, PTL

\* The stored token is the next one that the auth host takes, is about to be
\* replaced by it, or was lost with a recorded cause.
THEOREM TokenStaysUsable == Spec => []StoredTokenUsable
  <1>1. IInv => StoredTokenUsable
    BY Parts
  <1> QED
    BY <1>1, Invariant, PTL

\* Without stalls no login is declared dead whose token is alive.
THEOREM DeadOnlyWhenDead == Spec => []DeadIsDead
  <1>1. IInv => DeadIsDead
    BY Parts
  <1> QED
    BY <1>1, Invariant, PTL

\* The writer is not handed over between a grant and its save.
THEOREM HandoverWaits == Spec => []HandoverAfterSave
  <1>1. IInv => HandoverAfterSave
    BY DEF IInv, Objs, ObjInv, Covered, HandoverAfterSave, Busy
  <1> QED
    BY <1>1, Invariant, PTL

\* No lease is stranded but by the death of its process.
THEOREM NoLeaseStranded == Spec => []LeaseHeld
  <1>1. IInv => LeaseHeld
    BY Parts
  <1> QED
    BY <1>1, Invariant, PTL

\* The lease protects what needs it and strands nothing.
THEOREM LeaseDoesItsWork == Spec => []LeaseHonoured
  <1>1. HandoverAfterSave /\ LeaseHeld => LeaseHonoured
    BY DEF LeaseHonoured
  <1> QED
    BY <1>1, HandoverWaits, NoLeaseStranded, PTL

\* No step puts an older token over a newer one of the same login.
THEOREM TokensOnlyAdvance == Spec => TokenNeverRegresses
  <1> DEFINE Advance == row'.login = row.login => row'.cred.token >= row.cred.token
  <1>1. IInv /\ [Next]_vars => [Advance]_vars
    <2> SUFFICES ASSUME IInv, Next PROVE Advance
      OBVIOUS
    <2>t. TypeOK /\ row.cred.token \in Int /\ logins \in Int
      BY Parts, LeaseAssumption DEF TypeOK, Credential, Tokens, Logins
    <2>1. CASE UNCHANGED row
      BY <2>1, <2>t
    <2>2. ASSUME NEW u \in Objects, Save(u), ~UNCHANGED row PROVE Advance
      <3>1. ObjInv(u, auth[u]) /\ auth[u].at = "saving"
        BY <2>2, ObjFacts DEF Save
      <3>2. row'.cred = auth[u].cred /\ row.cred.token = auth[u].fingerprint
        BY <2>2 DEF Save, Savable
      <3>3. auth[u].fingerprint <= auth[u].cred.token
        BY <3>1 DEF ObjInv, Carried
      <3> QED
        BY <3>2, <3>3, <2>t, ObjFacts, LeaseAssumption DEF AuthRec, Credential, Tokens
    <2>3. ASSUME NEW s \in Slots, DeleteAccount(s) \/ RegisterAccount(s) PROVE Advance
      <3>1. CASE DeleteAccount(s)
        BY <3>1 DEF DeleteAccount, NoRow
      <3>2. CASE RegisterAccount(s)
        <4>1. row.login = 0 /\ row'.login = logins + 1 /\ logins \in 1..MaxLogins
          BY <3>2, <2>t DEF RegisterAccount, TypeOK, Logins
        <4> QED
          BY <4>1, LeaseAssumption
      <3> QED
        BY <2>3, <3>1, <3>2
    <2>4. CASE \E u \in Objects :
                  \/ \E s \in Slots : Make(u, s)
                  \/ Discard(u) \/ (\E force \in BOOLEAN : Begin(u, force))
                  \/ Acquire(u) \/ GiveUp(u) \/ Cancel(u)
                  \/ Reload(u) \/ Load(u) \/ HostGrants(u) \/ HostRefuses(u)
                  \/ PostFails(u) \/ Receive(u) \/ BelieveRefusal(u) \/ Release(u)
      <3>1. UNCHANGED row
        BY <2>4 DEF Make, Discard, Begin, Acquire, GiveUp, Cancel, Reload, Load, HostGrants,
                    HostRefuses, PostFails, Receive, BelieveRefusal, Release, Move
      <3> QED
        BY <3>1, <2>1
    <2>5. CASE \/ \E s \in Slots : SetWriter(s) \/ Crash(s) \/ StartSlot(s)
               \/ TokenAges \/ \E l \in Logins : LeaseExpires(l)
      <3>1. UNCHANGED row
        BY <2>5 DEF SetWriter, Crash, StartSlot, TokenAges, LeaseExpires
      <3> QED
        BY <3>1, <2>1
    <2> HIDE DEF Advance
    <2> QED
      BY <2>1, <2>2, <2>3, <2>4, <2>5 DEF Next, Refresh
  <1> QED
    BY <1>1, Invariant, PTL DEF Spec, TokenNeverRegresses
=============================================================================
