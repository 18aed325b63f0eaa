---------------------------- MODULE RequestLedger ----------------------------
(***************************************************************************)
(* What the InferX request endpoint promises to the marketplace backend,   *)
(* which reserves funds before it dispatches a request ID and settles or   *)
(* refunds them from the receipt (README.md, "POST /internal/inferx/...",  *)
(* "durably admits a request ID once").  No handlers, locks, transactions  *)
(* or processes appear here: only the durable status of each request ID    *)
(* and whether the seller's upstream generation has been dispatched.       *)
(***************************************************************************)
CONSTANT Requests       \* the request IDs

VARIABLES status,       \* status[r]: the receipt of r, "absent" before any row
          dispatched    \* the request IDs whose one generation was sent upstream

vars == <<status, dispatched>>

Settled == {"succeeded", "failed", "indeterminate"}

Init ==
    /\ status = [r \in Requests |-> "absent"]
    /\ dispatched = {}

(* An unknown ID becomes executable, exactly once. *)
Admit(r) ==
    /\ status[r] = "absent"
    /\ status' = [status EXCEPT ![r] = "running"]
    /\ UNCHANGED dispatched

(* The backend asks for an unknown ID to be sealed before it releases its hold. *)
Fence(r) ==
    /\ status[r] = "absent"
    /\ status' = [status EXCEPT ![r] = "failed"]
    /\ UNCHANGED dispatched

(* The one generation a running request may send. *)
Dispatch(r) ==
    /\ status[r] = "running"
    /\ r \notin dispatched
    /\ dispatched' = dispatched \cup {r}
    /\ UNCHANGED status

(* Success is only claimed for a generation that was sent. *)
Settle(r, s) ==
    /\ status[r] = "running"
    /\ s = "succeeded" => r \in dispatched
    /\ status' = [status EXCEPT ![r] = s]
    /\ UNCHANGED dispatched

(* A new process seals whatever the old one left running. *)
Restart ==
    /\ status' = [r \in Requests |->
                    IF status[r] = "running" THEN "indeterminate" ELSE status[r]]
    /\ UNCHANGED dispatched

Next ==
    \/ Restart
    \/ \E r \in Requests :
          \/ Admit(r)
          \/ Fence(r)
          \/ Dispatch(r)
          \/ \E s \in {"succeeded", "failed"} : Settle(r, s)

Spec == Init /\ [][Next]_vars
==============================================================================
