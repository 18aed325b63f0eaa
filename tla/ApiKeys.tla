------------------------------ MODULE ApiKeys -------------------------------
(***************************************************************************)
(* One data-plane API key: how a request is identified and held to the     *)
(* key's limits while the owner edits or deletes the key, and how the use  *)
(* of the key is counted in memory and flushed to the store in batches     *)
(* (dashboard_store.rs, usage_tracking.rs, routes_v1.rs).                  *)
(*                                                                         *)
(* Use is counted in requests; token counts and the split by account and   *)
(* model follow the same path.  The model list of a key is read with its   *)
(* limits.  Both caches may lapse at any time.                             *)
(***************************************************************************)
EXTENDS Naturals, FiniteSets

CONSTANTS
    Clients,     \* the requests that present the key
    Absent,      \* nothing cached
    KeyLimits,   \* the request limits the owner may set, 0 for none
    MaxEdits     \* bound: edits and deletions of the key

ASSUME KeyAssumption == KeyLimits \subseteq Nat /\ MaxEdits \in Nat

VARIABLES
    row,        \* the key's row: [live, edit, limit]
    editing,    \* what the edit under way still has to clear
    answered,   \* the last edit that was answered
    identified, \* KEY_CACHE: "known", "unknown", or Absent
    policies,   \* POLICY_CACHE: the row it was loaded from, or Absent
    generation, \* POLICY_GENERATION
    pending,    \* use counted in memory
    batch,      \* use drained by a flush and not stored yet
    stored,     \* use in the store
    flushing,   \* the flush holds FLUSH_GATE
    counted,    \* history: all use of the key
    check       \* check[c]: c's authentication and limit check

usageVars == <<pending, batch, stored, flushing, counted>>
cacheVars == <<identified, policies, generation>>
editVars == <<row, editing, answered>>
keyVars == <<usageVars, cacheVars, editVars, check>>

Fresh == [live |-> TRUE, edit |-> 0, limit |-> 0]
Unrestricted == [live |-> FALSE, edit |-> 0, limit |-> 0]
\* since, base: the edit answered and the use counted when the check began.
NoCheck == [at |-> "idle", since |-> 0, base |-> 0, gen |-> 0, read |-> Absent, used |-> 0]

KeyInit ==
    /\ \E n \in KeyLimits : row = [Fresh EXCEPT !.limit = n]
    /\ editing = "no" /\ answered = 0
    /\ identified = Absent /\ policies = Absent /\ generation = 0
    /\ pending = 0 /\ batch = 0 /\ stored = 0 /\ flushing = FALSE /\ counted = 0
    /\ check = [c \in Clients |-> NoCheck]

At(c, pc) == check[c].at = pc
Refuse(c) == check' = [check EXCEPT ![c] = [NoCheck EXCEPT !.at = "refused"]]

----------------------------------------------------------------------------
(* identify_data_api_key.                                                  *)

\* A cached answer is used, otherwise the row is read.
Identify(c) ==
    /\ At(c, "idle")
    /\ LET begun == [NoCheck EXCEPT !.since = answered, !.base = counted] IN
       CASE identified = "known" -> check' = [check EXCEPT ![c] = [begun EXCEPT !.at = "policy"]]
         [] identified = "unknown" -> Refuse(c)
         [] OTHER -> check' = [check EXCEPT ![c] = [begun EXCEPT !.at = "hashing", !.read = row]]
    /\ UNCHANGED <<usageVars, cacheVars, editVars>>

\* The hash is compared and the answer cached, whatever happened to the row meanwhile.
Identified(c) ==
    /\ At(c, "hashing")
    /\ identified' = IF check[c].read.live THEN "known" ELSE "unknown"
    /\ IF check[c].read.live
       THEN check' = [check EXCEPT ![c].at = "policy", ![c].read = Absent]
       ELSE Refuse(c)
    /\ UNCHANGED <<usageVars, editVars, policies, generation>>

----------------------------------------------------------------------------
(* key_policy.                                                             *)

\* The cached policies are used when they name the key; else a load notes the generation.
KeyPolicy(c) ==
    /\ At(c, "policy")
    /\ check' = [check EXCEPT ![c] =
            IF policies # Absent /\ policies.live
            THEN [@ EXCEPT !.at = "limit", !.read = policies]
            ELSE [@ EXCEPT !.at = "loading", !.gen = generation]]
    /\ UNCHANGED <<usageVars, cacheVars, editVars>>
LoadPolicies(c) ==
    /\ At(c, "loading")
    /\ check' = [check EXCEPT ![c].at = "publish", ![c].read = row]
    /\ UNCHANGED <<usageVars, cacheVars, editVars>>

\* publish_policies: only if no edit cleared the cache since the load began.
Published(c) == IF generation = check[c].gen THEN check[c].read ELSE policies
PublishPolicies(c) ==
    /\ At(c, "publish")
    /\ policies' = Published(c)
    /\ check' = [check EXCEPT ![c].at = "limit",
                              ![c].read = IF @.live THEN @ ELSE Unrestricted]
    /\ UNCHANGED <<usageVars, editVars, identified, generation>>

\* The store cannot be read: refused, never served unrestricted.
StoreUnreadable(c) ==
    /\ check[c].at \in {"hashing", "loading", "totals"}
    /\ Refuse(c)
    /\ UNCHANGED <<usageVars, cacheVars, editVars>>

----------------------------------------------------------------------------
(* key_limit_hit and key_usage_totals.                                     *)

NoLimit(c) ==
    /\ At(c, "limit") /\ check[c].read.limit = 0
    /\ check' = [check EXCEPT ![c].at = "admitted"]
    /\ UNCHANGED <<usageVars, cacheVars, editVars>>

\* Mutant: the totals are read without the gate.
Mutant_NoGate == TRUE
\* FLUSH_GATE is shared by the checks and exclusive for the flush.
GateReadable == ~flushing
Readers == {c \in Clients : check[c].at = "totals"}

ReadStored(c) ==
    /\ At(c, "limit") /\ check[c].read.limit # 0
    /\ GateReadable
    /\ check' = [check EXCEPT ![c].at = "totals", ![c].used = stored]
    /\ UNCHANGED <<usageVars, cacheVars, editVars>>
ReadPending(c) ==
    LET used == check[c].used + pending IN
    /\ At(c, "totals")
    /\ IF used >= check[c].read.limit
       THEN check' = [check EXCEPT ![c].at = "limited", ![c].used = used]
       ELSE check' = [check EXCEPT ![c].at = "admitted", ![c].used = used]
    /\ UNCHANGED <<usageVars, cacheVars, editVars>>

----------------------------------------------------------------------------
(* The use of the key.                                                     *)

\* record_tokens.
Record ==
    /\ pending' = pending + 1 /\ counted' = counted + 1
    /\ UNCHANGED <<batch, stored, flushing>>

\* flush_key_model_usage: the batch is drained, stored in one transaction, or restored.
FlushDrain ==
    /\ ~flushing /\ Readers = {} /\ pending > 0
    /\ flushing' = TRUE
    /\ batch' = pending /\ pending' = 0
    /\ UNCHANGED <<stored, counted, cacheVars, editVars, check>>
FlushStored ==
    /\ flushing
    /\ flushing' = FALSE
    /\ stored' = stored + batch /\ batch' = 0
    /\ UNCHANGED <<pending, counted, cacheVars, editVars, check>>

\* restore_pending.
Restored == pending + batch
FlushFailed ==
    /\ flushing
    /\ flushing' = FALSE
    /\ pending' = Restored /\ batch' = 0
    /\ UNCHANGED <<stored, counted, cacheVars, editVars, check>>

----------------------------------------------------------------------------
(* The owner.                                                              *)

\* update_data_api_key and delete_data_api_key write the row first.
EditKey ==
    /\ editing = "no" /\ row.edit < MaxEdits /\ row.live
    /\ \E n \in KeyLimits : row' = [row EXCEPT !.edit = @ + 1, !.limit = n]
    /\ editing' = "keys"
    /\ UNCHANGED <<answered, usageVars, cacheVars, check>>
DeleteKey ==
    /\ editing = "no" /\ row.edit < MaxEdits /\ row.live
    /\ row' = [row EXCEPT !.edit = @ + 1, !.live = FALSE]
    /\ stored' = 0
    /\ editing' = "keys"
    /\ UNCHANGED <<answered, pending, batch, flushing, counted, cacheVars, check>>

\* invalidate_key_cache, and the answer.
ClearKeys ==
    /\ editing = "keys"
    /\ identified' = Absent
    /\ editing' = "policies"
    /\ UNCHANGED <<row, answered, usageVars, policies, generation, check>>
ClearPolicies ==
    /\ editing = "policies"
    /\ policies' = Absent /\ generation' = generation + 1
    /\ editing' = "no" /\ answered' = row.edit
    /\ UNCHANGED <<row, usageVars, identified, check>>

\* KEY_CACHE_TTL, POLICY_TTL.
CacheLapse ==
    /\ \/ identified # Absent /\ identified' = Absent /\ UNCHANGED policies
       \/ policies # Absent /\ policies' = Absent /\ UNCHANGED identified
    /\ UNCHANGED <<generation, usageVars, editVars, check>>

----------------------------------------------------------------------------

CheckStep(c) ==
    \/ Identified(c) \/ KeyPolicy(c) \/ LoadPolicies(c) \/ PublishPolicies(c)
    \/ StoreUnreadable(c) \/ NoLimit(c) \/ ReadStored(c) \/ ReadPending(c)
Housekeeping == FlushDrain \/ FlushStored \/ FlushFailed
Owner == EditKey \/ DeleteKey \/ ClearKeys \/ ClearPolicies

\* A key that is still there is held to the limit of its last answered edit, and a check
\* counts all the use it could know of and none twice.
Decided(c) == check[c].at \in {"admitted", "limited"}
PolicyHeld == \A c \in Clients : Decided(c) /\ row.live => check[c].read.edit >= check[c].since
UsageHeld == \A c \in Clients :
    Decided(c) /\ row.live /\ check[c].read.limit # 0 => check[c].used \in check[c].base..counted
UseConserved == row.live => pending + batch + stored = counted
=============================================================================
