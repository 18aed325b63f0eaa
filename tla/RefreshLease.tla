---------------------------- MODULE RefreshLease ----------------------------
(***************************************************************************)
(* Refreshing the single-use token of one stored account (src/auth.rs),    *)
(* by the processes of a blue-green deployment that share a database.      *)
(*                                                                         *)
(* A KiroAuth object caches the credential of the login it was made for.   *)
(* A refresh takes the login's durable lease, reloads the stored           *)
(* credential, posts its refresh token, and saves what the auth host       *)
(* answers by compare-and-set on the token it had loaded.  Around it the   *)
(* client goes away, the process dies, the account is deleted and          *)
(* registered with a new login, and the deploy script hands the role of    *)
(* writer to the other slot once no lease is held.                         *)
(*                                                                         *)
(* One account of source type internal is modelled; refresh_lock lets one  *)
(* call per object refresh, so an object is its one call.  A lease outlives*)
(* the POST it covers (60 s against 30 s), unless the process stalls.      *)
(***************************************************************************)
EXTENDS Integers

CONSTANTS
    Slots,         \* the processes of the deployment
    Objects,       \* KiroAuth objects for the account, in any process
    None,          \* nobody
    MaxLogins,     \* bound: logins the account ever has
    MaxRefreshes,  \* bound: refreshes that the auth host grants
    MaxStalls,     \* bound: calls that outsleep their lease
    MaxFailures    \* bound: processes that die and transactions that fail

ASSUME LeaseAssumption ==
    /\ None \notin Slots \cup Objects
    /\ MaxLogins \in Nat \ {0} /\ MaxRefreshes \in Nat
    /\ MaxStalls \in Nat /\ MaxFailures \in Nat

VARIABLES
    row,      \* account_sources: the stored credential; login 0 for no row
    writer,   \* runtime_writer: the slot that may write
    lease,    \* credential_refresh_leases, by login
    up,       \* the slots that run
    auth,     \* the KiroAuth objects
    host,     \* auth host: the refresh token that each login may use next
    issued,   \* auth host: access tokens issued so far
    stale,    \* access tokens up to this one expire soon
    logins,   \* logins made so far
    lost,     \* history: logins whose next token died unsaved
    dead,     \* history: logins declared dead
    stalls, errors, crashes

vars == <<row, writer, lease, up, auth, host, issued, stale, logins, lost, dead,
          stalls, errors, crashes>>
hostVars == <<host, issued>>
countVars == <<stalls, errors, crashes>>

Logins == 1..MaxLogins
Tokens == 0..MaxRefreshes
Accesses == 0..(MaxRefreshes + MaxLogins)
Credential == [token: Tokens, access: Accesses]
Leases == [owner: Objects \cup {None}, expired: BOOLEAN]
Places == {"none", "ready", "waiting", "leased", "loaded", "posting", "answered",
           "refused", "saving", "releasing"}
AuthRec == [at: Places, slot: Slots \cup {None}, login: 0..MaxLogins, cred: Credential,
            fingerprint: Tokens, previous: Accesses, force: BOOLEAN, reply: Credential,
            late: BOOLEAN]

Blank == [token |-> 0, access |-> 0]
NoObject == [at |-> "none", slot |-> None, login |-> 0, cred |-> Blank,
             fingerprint |-> 0, previous |-> 0, force |-> FALSE, reply |-> Blank,
             late |-> FALSE]
NoLease == [owner |-> None, expired |-> FALSE]
NoRow == [login |-> 0, cred |-> Blank, marked |-> FALSE]

\* One login is registered; the writer and the standby run.
Init ==
    /\ row = [login |-> 1, cred |-> Blank, marked |-> FALSE]
    /\ writer \in Slots
    /\ up = Slots
    /\ lease = [l \in Logins |-> NoLease]
    /\ auth = [u \in Objects |-> NoObject]
    /\ host = [l \in Logins |-> 0]
    /\ issued = 0 /\ stale = 0
    /\ logins = 1
    /\ lost = {} /\ dead = {}
    /\ stalls = 0 /\ errors = 0 /\ crashes = 0

(***************************************************************************)
(* What an object can tell of the stored credential                        *)
(***************************************************************************)

\* is_current_login, creds_match_login: by the marker that a save leaves,
\* and before the first save by the fingerprint of the refresh token.
IsCurrent(u) ==
    /\ row.login = auth[u].login
    /\ row.marked \/ row.cred.token = auth[u].fingerprint

ExpiringSoon(c) == c.access <= stale
Using == {"leased", "loaded", "posting", "answered", "refused", "saving", "releasing"}

\* The object with the stored credential (reload_persisted_for_login).
Mutant_NotReloaded(u) == auth[u]
Loaded(u) == [auth[u] EXCEPT !.cred = row.cred, !.fingerprint = row.cred.token]

Move(u, a) ==
    /\ auth' = [auth EXCEPT ![u] = a]
    /\ UNCHANGED <<row, writer, lease, up, hostVars, stale, logins, countVars>>

At(u, place) == [auth[u] EXCEPT !.at = place]

\* The call is over: its lease is to be released, its locals are gone.
Over(a) == [a EXCEPT !.at = "releasing", !.previous = 0, !.force = FALSE,
                     !.reply = Blank, !.late = FALSE]

\* A token that the auth host gave for the stored login and that dies here.
Dropped(u) ==
    IF \/ auth[u].at = "answered" /\ auth[u].reply.token # row.cred.token
       \/ auth[u].at = "saving" /\ auth[u].cred.token # row.cred.token
    THEN {auth[u].login} ELSE {}

(***************************************************************************)
(* An object and its refresh                                               *)
(***************************************************************************)

\* KiroAuth::new, for initialize.
Make(u, s) ==
    /\ auth[u].at = "none"
    /\ s \in up
    /\ row.login # 0
    /\ Move(u, [NoObject EXCEPT !.at = "ready", !.slot = s, !.login = row.login,
                                !.cred = row.cred, !.fingerprint = row.cred.token])
    /\ UNCHANGED <<lost, dead>>

\* The pool lets go of an object that no call uses.
Discard(u) ==
    /\ auth[u].at = "ready"
    /\ Move(u, NoObject)
    /\ UNCHANGED <<lost, dead>>

\* access_token finds its token expiring soon, or a 403 forces a refresh.
Begin(u, force) ==
    /\ auth[u].at = "ready"
    /\ force \/ (IsCurrent(u) /\ ExpiringSoon(auth[u].cred))
    /\ Move(u, [At(u, "waiting") EXCEPT !.force = force,
                                        !.previous = auth[u].cred.access])
    /\ UNCHANGED <<lost, dead>>

\* try_acquire_refresh_lease: the slot is the writer, and the lease is free
\* or past its expiry.
Free(l) == lease[l].owner = None \/ lease[l].expired

Acquire(u) ==
    LET l == auth[u].login IN
    /\ auth[u].at = "waiting"
    /\ auth[u].slot = writer
    /\ Free(l)
    /\ lease' = [lease EXCEPT ![l] = [owner |-> u, expired |-> FALSE]]
    /\ auth' = [auth EXCEPT ![u] = At(u, "leased")]
    /\ UNCHANGED <<row, writer, up, hostVars, stale, logins, lost, dead, countVars>>

\* The wait is over: use what another refresh stored, or fail.
GiveUp(u) ==
    /\ auth[u].at = "waiting"
    /\ Move(u, [Over(IF IsCurrent(u) THEN Loaded(u) ELSE auth[u]) EXCEPT !.at = "ready"])
    /\ UNCHANGED <<lost, dead>>

RenewedElsewhere(u) ==
    /\ ~ExpiringSoon(row.cred)
    /\ auth[u].force => row.cred.access # auth[u].previous

\* Under the lease: a credential that another refresh has renewed is used.
Reload(u) ==
    /\ auth[u].at = "leased"
    /\ \/ ~IsCurrent(u) /\ Move(u, Over(auth[u]))
       \/ IsCurrent(u) /\ RenewedElsewhere(u) /\ Move(u, Over(Loaded(u)))
       \/ /\ IsCurrent(u) /\ ~RenewedElsewhere(u)
          /\ Move(u, [Loaded(u) EXCEPT !.at = "loaded", !.previous = 0, !.force = FALSE])
    /\ UNCHANGED <<lost, dead>>

\* refresh_request reads the stored credential once more and posts its token.
Load(u) ==
    /\ auth[u].at = "loaded"
    /\ Move(u, IF IsCurrent(u) THEN [Loaded(u) EXCEPT !.at = "posting"]
               ELSE Over(auth[u]))
    /\ UNCHANGED <<lost, dead>>

\* The auth host takes the token it expects, and may rotate it.
HostGrants(u) ==
    LET l == auth[u].login IN
    /\ auth[u].at = "posting"
    /\ auth[u].cred.token = host[l]
    /\ issued < MaxRefreshes + logins - 1
    /\ host[l] < MaxRefreshes
    /\ issued' = issued + 1
    /\ \E rotated \in {host[l], host[l] + 1} :
          /\ host' = [host EXCEPT ![l] = rotated]
          /\ auth' = [auth EXCEPT ![u] = [At(u, "answered") EXCEPT
                         !.reply = [token |-> rotated, access |-> issued + 1]]]
    /\ UNCHANGED <<row, writer, lease, up, stale, logins, lost, dead, countVars>>

\* It refuses any other (invalid_grant).
HostRefuses(u) ==
    /\ auth[u].at = "posting"
    /\ auth[u].cred.token # host[auth[u].login]
    /\ Move(u, At(u, "refused"))
    /\ UNCHANGED <<lost, dead>>

\* The host is down, the POST reaches its 30 s, or its answer does not arrive.
PostFails(u) ==
    /\ auth[u].at \in {"posting", "answered", "refused"}
    /\ lost' = lost \cup Dropped(u)
    /\ Move(u, Over(auth[u]))
    /\ UNCHANGED dead

\* do_desktop_refresh, do_oidc_refresh: the answer becomes the credential.
Mutant_KeepsToken(u) == [auth[u].reply EXCEPT !.token = auth[u].cred.token]
Renewed(u) == auth[u].reply

\* An answer for a login that was replaced meanwhile is discarded.
Receive(u) ==
    /\ auth[u].at = "answered"
    /\ IF IsCurrent(u)
       THEN /\ Move(u, [At(u, "saving") EXCEPT !.cred = Renewed(u),
                                                !.reply = Blank])
            /\ UNCHANGED lost
       ELSE /\ Move(u, Over(auth[u]))
            /\ lost' = lost \cup Dropped(u)
    /\ UNCHANGED dead

\* A refusal for the current login declares the credential dead.
BelieveRefusal(u) ==
    /\ auth[u].at = "refused"
    /\ dead' = IF IsCurrent(u) THEN dead \cup {auth[u].login} ELSE dead
    /\ Move(u, Over(auth[u]))
    /\ UNCHANGED lost

\* persist: one transaction that checks the writer, the login and the token
\* which the refresh had loaded.
Mutant_SaveUnchecked(u) == row.login = auth[u].login
Mutant_SaveByAccount(u) == row.login # 0
Savable(u) == IsCurrent(u) /\ row.cred.token = auth[u].fingerprint

Save(u) ==
    /\ auth[u].at = "saving"
    /\ \/ /\ writer = auth[u].slot /\ Savable(u)
          /\ row' = [login |-> row.login, cred |-> auth[u].cred, marked |-> TRUE]
          /\ auth' = [auth EXCEPT ![u] =
                         [Over(auth[u]) EXCEPT !.fingerprint = auth[u].cred.token]]
          /\ UNCHANGED <<lost, errors>>
       \/ /\ \/ ~(writer = auth[u].slot /\ Savable(u)) /\ UNCHANGED errors
             \/ crashes + errors < MaxFailures /\ errors' = errors + 1
          /\ lost' = lost \cup Dropped(u)
          /\ auth' = [auth EXCEPT ![u] = Over(auth[u])]
          /\ UNCHANGED row
    /\ UNCHANGED <<writer, lease, up, hostVars, stale, logins, dead, stalls, crashes>>

\* RefreshLease is dropped, by a return or with the future.
Mutant_LeaseWithoutOwner(l, u) == TRUE
Owns(l, u) == lease[l].owner = u

Release(u) ==
    LET l == auth[u].login IN
    /\ auth[u].at = "releasing"
    /\ lease' = IF Owns(l, u) THEN [lease EXCEPT ![l] = NoLease] ELSE lease
    /\ auth' = [auth EXCEPT ![u] = At(u, "ready")]
    /\ UNCHANGED <<row, writer, up, hostVars, stale, logins, lost, dead, countVars>>

\* The client goes away: the future is dropped where it awaits.
Mutant_Strands(u) == [Over(auth[u]) EXCEPT !.at = "ready"]
Cancelled(u) == IF auth[u].at = "waiting" THEN [Over(auth[u]) EXCEPT !.at = "ready"]
                ELSE Over(auth[u])

Cancel(u) ==
    /\ auth[u].at \in {"waiting", "posting", "answered", "refused"}
    /\ lost' = lost \cup Dropped(u)
    /\ Move(u, Cancelled(u))
    /\ UNCHANGED dead

(***************************************************************************)
(* The deployment                                                          *)
(***************************************************************************)

\* delete_account and register, by the writer: the account gets a new login,
\* whose objects do not know the old one's tokens.
DeleteAccount(s) ==
    /\ s = writer /\ s \in up
    /\ row.login # 0
    /\ row' = NoRow
    /\ UNCHANGED <<writer, lease, up, auth, hostVars, stale, logins, lost, dead, countVars>>

RegisterAccount(s) ==
    /\ s = writer /\ s \in up
    /\ row.login = 0
    /\ logins < MaxLogins
    /\ logins' = logins + 1
    /\ issued' = issued + 1
    /\ row' = [login |-> logins + 1, cred |-> [token |-> 0, access |-> issued + 1],
               marked |-> FALSE]
    /\ UNCHANGED <<writer, lease, up, auth, host, stale, lost, dead, countVars>>

\* deploy.sh, set_runtime_writer: drop the leases that expired, and change
\* the writer only when no other is left.
Unleased(l) == Free(l)

SetWriter(s) ==
    /\ s # writer /\ s \in up
    /\ \A l \in Logins : Unleased(l)
    /\ writer' = s
    /\ lease' = [l \in Logins |-> IF lease[l].expired THEN NoLease ELSE lease[l]]
    /\ UNCHANGED <<row, up, auth, hostVars, stale, logins, lost, dead, countVars>>

Crash(s) ==
    /\ s \in up
    /\ crashes + errors < MaxFailures
    /\ crashes' = crashes + 1
    /\ up' = up \ {s}
    /\ lost' = lost \cup UNION {Dropped(u) : u \in {v \in Objects : auth[v].slot = s}}
    /\ auth' = [u \in Objects |-> IF auth[u].slot = s THEN NoObject ELSE auth[u]]
    /\ UNCHANGED <<row, writer, lease, hostVars, stale, logins, dead, stalls, errors>>

StartSlot(s) ==
    /\ s \notin up
    /\ up' = up \cup {s}
    /\ UNCHANGED <<row, writer, lease, auth, hostVars, stale, logins, lost, dead, countVars>>

\* Time passes: the stored access token nears its end ...
TokenAges ==
    /\ row.login # 0 /\ ~ExpiringSoon(row.cred)
    /\ stale' = row.cred.access
    /\ UNCHANGED <<row, writer, lease, up, auth, hostVars, logins, lost, dead, countVars>>

\* ... and a lease expires, under a live holder only when its process stalls.
Held(l) == \E u \in Objects : /\ Owns(l, u) /\ auth[u].login = l
                              /\ auth[u].at \in Using

LeaseExpires(l) ==
    /\ lease[l].owner # None /\ ~lease[l].expired
    /\ IF Held(l)
       THEN /\ stalls < MaxStalls /\ stalls' = stalls + 1
            /\ auth' = [auth EXCEPT ![lease[l].owner].late =
                           auth[lease[l].owner].at # "releasing"]
       ELSE UNCHANGED <<stalls, auth>>
    /\ lease' = [lease EXCEPT ![l].expired = TRUE]
    /\ UNCHANGED <<row, writer, up, hostVars, stale, logins, lost, dead, errors, crashes>>

Refresh(u) ==
    \/ Reload(u) \/ Load(u) \/ HostGrants(u) \/ HostRefuses(u) \/ PostFails(u)
    \/ Receive(u) \/ BelieveRefusal(u) \/ Save(u) \/ Release(u)

Next ==
    \/ \E u \in Objects :
          \/ \E s \in Slots : Make(u, s)
          \/ Discard(u)
          \/ \E force \in BOOLEAN : Begin(u, force)
          \/ Acquire(u) \/ GiveUp(u) \/ Cancel(u)
          \/ Refresh(u)
    \/ \E s \in Slots : \/ DeleteAccount(s) \/ RegisterAccount(s) \/ SetWriter(s)
                        \/ Crash(s) \/ StartSlot(s)
    \/ TokenAges
    \/ \E l \in Logins : LeaseExpires(l)

Spec == Init /\ [][Next]_vars

(***************************************************************************)
(* Properties                                                              *)
(***************************************************************************)

\* Every variable has its type, and a saved credential knows no token that
\* the auth host has not given.
TypeOK ==
    /\ row \in [login: 0..MaxLogins, cred: Credential, marked: BOOLEAN]
    /\ row.login # 0 => row.cred.token <= host[row.login]
    /\ writer \in Slots
    /\ lease \in [Logins -> Leases]
    /\ up \subseteq Slots
    /\ auth \in [Objects -> AuthRec]
    /\ host \in [Logins -> Tokens]
    /\ issued \in Accesses /\ stale \in Accesses
    /\ logins \in Logins
    /\ lost \subseteq Logins /\ dead \subseteq Logins
    /\ stalls \in 0..MaxStalls /\ errors \in Nat /\ crashes \in Nat
    /\ crashes + errors <= MaxFailures

Exchanging(u) == auth[u].at \in {"posting", "answered", "refused", "saving"}

\* Two slots, or two objects of one slot, never refresh a login at once ("a
\* cross-process refresh lease so blue/green slots never refresh twice",
\* auth.rs:3), but for a call that outslept its lease; and that one does not
\* release the lease of the next.
NeverTwice ==
    \A u, v \in Objects :
        /\ Exchanging(u) /\ ~auth[u].late
        /\ Exchanging(v) /\ ~auth[v].late
        /\ auth[u].login = auth[v].login
        => u = v

\* Even a refresh that overran its lease never puts an older token over a
\* newer one (save_credential_for_login compares and sets).
TokenNeverRegresses ==
    [][row'.login = row.login => row'.cred.token >= row.cred.token]_vars

Brings(u, token) ==
    \/ auth[u].at = "answered" /\ auth[u].reply.token = token
    \/ auth[u].at = "saving" /\ auth[u].cred.token = token

\* The stored token is the one that the auth host takes next, or a refresh
\* under way brings it, unless it died with a client, a process, an answer
\* or a failed save.
StoredTokenUsable ==
    row.login \in Logins \ lost =>
        \/ row.cred.token = host[row.login]
        \/ \E u \in Objects : auth[u].login = row.login /\ Brings(u, host[row.login])

\* A login is declared dead only when its token is: never because another
\* refresh used the token first (BelieveRefusal feeds commit_credential_dead).
DeadIsDead == stalls = 0 => dead \subseteq lost

\* The writer is not handed over between a POST and the save of its answer
\* (set_runtime_writer waits for the leases).
HandoverAfterSave ==
    \A u \in Objects : auth[u].at = "saving" => auth[u].slot = writer \/ auth[u].late

\* A lease in force has a call that will release it, however the calls end;
\* only the death of a process strands one, until it expires ("a cancelled
\* refresh cannot strand the lease", RefreshLease).
LeaseHeld ==
    crashes = 0 => \A l \in Logins :
        lease[l].owner # None /\ ~lease[l].expired => Held(l)

\* The durable lease does both halves of its work: it holds the writer back
\* while a refresh needs it, and nobody else once the refresh is over.
LeaseHonoured == HandoverAfterSave /\ LeaseHeld
=============================================================================
