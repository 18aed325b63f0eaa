----------------------------- MODULE DataPlane ------------------------------
(***************************************************************************)
(* A chat request through the data plane: its key's check (ApiKeys), its   *)
(* payload (Conversion), its generations (Transport) and their streams     *)
(* (routes_v1.rs, stream_core.rs, stream_anthropic.rs, stream_openai.rs).  *)
(* An InferX execution generates through the same gates, once.             *)
(*                                                                         *)
(* `weather` is a bound: what disturbs a behaviour.  Which account a       *)
(* request tries next is PoolRouting's subject, here it is any other one.  *)
(* A chunk of the upstream is the kind of its event; times, texts and      *)
(* token counts are left out.                                              *)
(***************************************************************************)
EXTENDS Transport, ApiKeys, Conversion

CONSTANTS
    Weathers,      \* bound: subset of {"keys", "slots", "limits", "routes", "stream", "payload"}
    Conversations, \* bound: what a request asks under "payload"
    Plain,         \* bound: what it asks otherwise
    Caps,          \* bound: payload limits under "payload"
    MaxSilences,   \* first_token_max_retries of the stream
    MaxChunks,     \* bound: chunks of one generation under "stream", 1 otherwise
    MaxSearches    \* bound: searches of a turn

ASSUME DataPlaneAssumption ==
    Clients \subseteq Callers /\ MaxSilences \in Nat \ {0} /\ MaxChunks \in Nat \ {0} /\ MaxSearches \in Nat

Gated == {"slots", "limits"}

VARIABLES
    weather,
    turn,     \* turn[c]: the request's progress
    outgoing  \* outgoing[c]: what was asked, the conversation and the payload made of it, or None

dataVars == <<weather, turn, outgoing>>
vars == <<transportVars, keyVars, dataVars>>
Executions == Callers \ Clients

\* Modes: "anthropic" and "openai" stream to the client, "collect" answers when all is there,
\* "infer" is an InferX execution.  gens counts the generations, heard are those the answer
\* holds output of, lost those a silence ended.
New == [at |-> "new", mode |-> None, acct |-> None, blamed |-> {}, gens |-> 0, follow |-> FALSE,
        silences |-> 0, searches |-> 0, heard |-> {}, lost |-> {}, told |-> FALSE, records |-> 0, reason |-> None,
        chunks |-> 0, produced |-> FALSE, part |-> FALSE, tools |-> FALSE, cut |-> FALSE, search |-> FALSE]
In(c, pc) == turn[c].at = pc
Go(c, pc) == turn' = [turn EXCEPT ![c].at = pc]
\* The turn is over: what it streamed and sent is forgotten.
Over(c, pc) ==
    LET t == turn[c]
        over == [New EXCEPT !.at = pc, !.mode = t.mode, !.told = t.told, !.records = t.records]
    IN
    /\ turn' = [turn EXCEPT ![c] = IF pc = "credited" THEN [over EXCEPT !.acct = t.acct, !.blamed = t.blamed] ELSE over]
    /\ outgoing' = [outgoing EXCEPT ![c] = None]

Init ==
    /\ weather \in Weathers
    /\ TransportInit /\ KeyInit
    /\ IF weather \in Gated THEN limits.account # 0 ELSE Unlimited
    /\ weather # "routes" => strategy = "off" /\ chain = <<>>
    /\ weather # "keys" => row.limit = 0
    /\ turn = [c \in Callers |-> New]
    /\ outgoing = [c \in Callers |-> None]

----------------------------------------------------------------------------
(* The request: authenticate_generation and run.  preauthorize and         *)
(* forbid_model look the same caches up again and are not repeated.        *)

\* Over, or not begun.
Resting == {"new", "failed", "credited", "left"}
\* The others have not begun; under "routes" one client may follow another.
Alone(c) == \A o \in Callers \ {c} :
    turn[o].at = "new" \/ (weather = "routes" /\ {c, o} \subseteq Clients /\ turn[o].at \in Resting)

Arrive(c, mode) ==
    /\ In(c, "new")
    /\ mode = "infer" <=> c \in Executions
    /\ mode = "infer" => weather \in Gated \cup {"routes"}
    /\ weather \in {"routes", "stream", "payload"} => Alone(c)
    /\ IF weather = "keys"
       THEN Identify(c) /\ turn' = [turn EXCEPT ![c].at = "check", ![c].mode = mode]
       ELSE turn' = [turn EXCEPT ![c].at = "build", ![c].mode = mode] /\ UNCHANGED keyVars
    /\ UNCHANGED <<transportVars, weather, outgoing>>

Checking(c) ==
    /\ In(c, "check") /\ CheckStep(c)
    /\ UNCHANGED <<transportVars, dataVars>>
Admitted(c) == In(c, "build") \/ (In(c, "check") /\ At(c, "admitted"))

\* One attempt: the next account, the payload and its generation.
Asked == IF weather = "payload" THEN Conversations ELSE {Plain}
Attempt(c, a, msgs, hasTools, cap, trim) ==
    /\ weather # "payload" => hasTools /\ ~trim /\ \A n \in Caps : n <= cap
    /\ \E p \in Built(msgs, hasTools, cap, trim) :
         outgoing' = [outgoing EXCEPT ![c] =
            [req |-> msgs, msgs |-> msgs, hasTools |-> hasTools, cap |-> cap, trim |-> trim, payload |-> p]]
    /\ Generate(c, a, turn[c].mode = "infer")
    /\ turn' = [turn EXCEPT ![c].at = "calling", ![c].acct = a]
    /\ UNCHANGED <<keyVars, weather>>
Build(c) == Admitted(c) /\
    \E a \in Accounts \ turn[c].blamed, msgs \in Asked, hasTools \in BOOLEAN, cap \in Caps, trim \in BOOLEAN :
        Attempt(c, a, msgs, hasTools, cap, trim)
\* No account, or no payload.
Refused(c) ==
    /\ Admitted(c) /\ Over(c, "failed")
    /\ UNCHANGED <<transportVars, keyVars, weather>>

\* A retry or a follow-up generates on the same account.
Start(c) ==
    /\ In(c, "ready")
    /\ Generate(c, turn[c].acct, FALSE)
    /\ Go(c, "calling")
    /\ UNCHANGED <<keyVars, weather, outgoing>>

\* 200: the response's stream.
Open(c) ==
    /\ In(c, "calling") /\ SendOk(c)
    /\ turn' = [turn EXCEPT ![c].at = "reading", ![c].gens = @ + 1, ![c].chunks = 0, ![c].produced = FALSE,
                            ![c].part = FALSE, ![c].tools = FALSE, ![c].cut = FALSE, ![c].search = FALSE]
    /\ UNCHANGED <<keyVars, weather, outgoing>>

\* The first generation of an attempt failed: another account, or the client is told.
\* Retries, follow-ups and executions end the turn.
Failed(c) ==
    LET kind == call[c].at IN
    /\ In(c, "calling") /\ kind \in Ends \ {"ok"}
    /\ Hangup(c)
    /\ IF turn[c].gens = 0 /\ turn[c].mode # "infer" /\ kind # "busy"
       THEN \/ /\ turn' = [turn EXCEPT ![c].at = "build", ![c].blamed = @ \cup {turn[c].acct}]
               /\ outgoing' = [outgoing EXCEPT ![c] = None]
            \/ kind = "refused" /\ Over(c, "failed")
       ELSE Over(c, "failed")
    /\ UNCHANGED <<keyVars, weather>>

----------------------------------------------------------------------------
(* The stream: parse_kiro_stream, retry_on_first_token_timeout.            *)

Reading(c) == In(c, "reading")
\* The stream, and its permits, are dropped.
Leaving(c, pc) == Hangup(c) /\ Over(c, pc) /\ UNCHANGED <<keyVars, weather>>

Streaming == {"anthropic", "openai"}
Hears(c) == turn[c].heard \cup {turn[c].gens}

\* CutTracker: a whole tool call, a part of one, an error, a search; a notice is none of them.
Chunk(c, kind) ==
    /\ Reading(c)
    /\ turn[c].chunks < IF weather = "stream" THEN MaxChunks ELSE 1
    /\ LET t == [turn[c] EXCEPT !.chunks = @ + 1]
           output == [t EXCEPT !.produced = TRUE, !.heard = Hears(c)]
       IN  CASE kind = "text" -> turn' = [turn EXCEPT ![c] = output]
             [] kind = "part" -> turn' = [turn EXCEPT ![c] = [t EXCEPT !.part = TRUE]]
             [] kind = "tool" -> turn' = [turn EXCEPT ![c] = [output EXCEPT !.part = FALSE, !.tools = TRUE]]
             [] kind = "notice" -> turn' = [turn EXCEPT ![c] = t]
             [] kind = "error" ->
                  /\ t.part \/ t.produced
                  /\ turn' = [turn EXCEPT ![c] = [t EXCEPT !.cut = TRUE, !.part = FALSE]]
             [] kind = "search" ->
                  /\ t.searches < MaxSearches /\ t.mode # "infer"
                  /\ turn' = [turn EXCEPT ![c] =
                        [t EXCEPT !.at = IF t.mode = "collect" THEN @ ELSE "searching", !.search = TRUE,
                                  !.produced = TRUE, !.part = FALSE, !.tools = TRUE]]
    /\ UNCHANGED <<transportVars, keyVars, weather, outgoing>>

\* No event at all, an error before any output, a broken connection, silence between chunks,
\* a malformed call.
Broken(c) == Reading(c) /\ Leaving(c, "failed")

\* Mutant: silence is retried after output, too.
Mutant_Untouched(c) == TRUE
\* Only a generation without a chunk is tried again.
Untouched(c) == turn[c].chunks = 0

\* A follow-up's stream and an execution's are not retried; a stream is dropped before the
\* generation that replaces it queues.
FirstSilence(c) ==
    /\ Reading(c) /\ Untouched(c) /\ Hangup(c)
    /\ IF turn[c].follow \/ turn[c].mode = "infer" \/ turn[c].silences + 1 >= MaxSilences
       THEN Over(c, "failed")
       ELSE /\ turn' = [turn EXCEPT ![c].at = "ready", ![c].silences = @ + 1, ![c].lost = @ \cup {turn[c].gens}]
            /\ UNCHANGED outgoing
    /\ UNCHANGED <<keyVars, weather>>

\* The stream is read: its permits are free, and only how it ended is remembered.  An answer
\* that was cut without a whole tool call ends as one that reached its limit.
Read(c, cut) ==
    [New EXCEPT !.at = "ended", !.mode = turn[c].mode, !.acct = turn[c].acct, !.blamed = turn[c].blamed,
                !.reason = IF cut /\ ~turn[c].tools THEN "max_tokens" ELSE "complete"]
\* The end of the body: a tool call that is not complete is dropped.
EndOfStream(c) ==
    /\ Reading(c) /\ turn[c].chunks > 0 /\ Hangup(c)
    /\ turn' = [turn EXCEPT ![c] =
          IF turn[c].search /\ turn[c].mode = "collect"
          THEN [turn[c] EXCEPT !.at = "searching", !.cut = turn[c].cut \/ turn[c].part]
          ELSE Read(c, turn[c].cut \/ turn[c].part)]
    /\ UNCHANGED <<keyVars, weather, outgoing>>
\* limit_output: an execution stops reading at its budget.
OutputLimit(c) ==
    /\ Reading(c) /\ turn[c].mode = "infer" /\ turn[c].heard # {} /\ Hangup(c)
    /\ turn' = [turn EXCEPT ![c] = Read(c, TRUE)]
    /\ UNCHANGED <<keyVars, weather, outgoing>>

----------------------------------------------------------------------------
(* The search: call_mcp and the follow-up generation.                      *)

\* The search failed, so its call goes to the client; an OpenAI answer goes on with the summary.
SearchInline(c) ==
    /\ In(c, "searching")
    /\ turn' = [turn EXCEPT ![c] = IF turn[c].mode = "collect" THEN Read(c, turn[c].cut)
                                   ELSE [@ EXCEPT !.at = "reading", !.heard = Hears(c), !.search = FALSE]]
    /\ UNCHANGED <<transportVars, keyVars, weather, outgoing>>

SearchPair == <<[Said("assistant") EXCEPT !.uses = {"search"}], [Said("user") EXCEPT !.results = {"search"}]>>

\* The rest of the stream is drained and dropped; what was asked goes on with this result, without
\* those of earlier searches.
SearchFollowup(c) ==
    LET o == outgoing[c]
        msgs == o.req \o SearchPair
        cap == IF weather = "payload" THEN o.cap ELSE o.cap + Len(SearchPair)
    IN  /\ In(c, "searching") /\ turn[c].mode # "openai"
        /\ Hangup(c)
        /\ \/ /\ \E p \in Built(msgs, o.hasTools, cap, o.trim) :
                   outgoing' = [outgoing EXCEPT ![c].msgs = msgs, ![c].payload = p]
              /\ turn' = [turn EXCEPT ![c].at = "ready", ![c].searches = @ + 1, ![c].follow = TRUE, ![c].heard = Hears(c)]
           \/ Over(c, "failed")
        /\ UNCHANGED <<keyVars, weather>>

----------------------------------------------------------------------------
(* The end of the turn, the client and everything else.                    *)

\* Anthropic: message_stop, record_tokens, commit_success.  OpenAI: recorded before the last
\* chunk.  collect records, commits and answers at once.
Tell(c) ==
    /\ In(c, "ended") /\ ~turn[c].told /\ turn[c].mode \in Streaming
    /\ turn[c].mode = "openai" => turn[c].records = 1
    /\ turn' = [turn EXCEPT ![c].told = TRUE]
    /\ UNCHANGED <<transportVars, keyVars, weather, outgoing>>
RecordTokens(c) ==
    /\ In(c, "ended") /\ turn[c].records = 0 /\ turn[c].mode \in Streaming
    /\ turn[c].mode = "anthropic" => turn[c].told
    /\ Record /\ UNCHANGED <<cacheVars, editVars, check>>
    /\ turn' = [turn EXCEPT ![c].records = @ + 1]
    /\ UNCHANGED <<transportVars, weather, outgoing>>
CommitSuccess(c) ==
    /\ In(c, "ended") /\ turn[c].told /\ turn[c].records = 1
    /\ Over(c, "credited")
    /\ UNCHANGED <<transportVars, keyVars, weather>>
Answer(c) ==
    /\ In(c, "ended") /\ turn[c].mode \in {"collect", "infer"}
    /\ IF turn[c].mode = "collect" THEN Record /\ UNCHANGED <<cacheVars, editVars, check>> ELSE UNCHANGED keyVars
    /\ turn' = [turn EXCEPT ![c] = [New EXCEPT !.at = "credited", !.mode = turn[c].mode, !.acct = turn[c].acct,
            !.blamed = turn[c].blamed, !.told = TRUE, !.records = IF turn[c].mode = "collect" THEN 1 ELSE 0]]
    /\ outgoing' = [outgoing EXCEPT ![c] = None]
    /\ UNCHANGED <<transportVars, weather>>

\* The client is gone: its request's future and what it holds are dropped.
Leave(c) ==
    /\ weather \in Gated \cup {"stream"} /\ turn[c].mode # "infer"
    /\ call[c].at # "limits"
    /\ turn[c].at \notin Resting \cup (IF weather \in Gated THEN {"build", "ready", "ended"} ELSE {})
    /\ Leaving(c, "left")

ChunkKinds == CASE weather = "stream" -> {"text", "part", "tool", "notice", "error", "search"}
                [] weather = "slots" -> {"text", "search"}
                [] weather = "payload" -> {"search"}
                [] OTHER -> {"text"}
Modes == CASE weather \in Gated -> {"anthropic", "infer"}
           [] weather = "stream" -> {"anthropic", "collect", "openai"}
           [] weather = "payload" -> {"anthropic"}
           [] weather = "routes" -> {"collect", "infer"}
           [] OTHER -> {"collect"}

Request(c) ==
    \/ \E mode \in Modes : Arrive(c, mode)
    \/ Checking(c) \/ Build(c) \/ Start(c) \/ Open(c) \/ Failed(c)
    \/ \E kind \in ChunkKinds : Chunk(c, kind)
    \/ weather \notin Gated /\ Refused(c)
    \/ weather = "stream" /\ (Broken(c) \/ SearchInline(c))
    \/ weather \in {"slots", "stream"} /\ FirstSilence(c)
    \/ EndOfStream(c) \/ OutputLimit(c) \/ SearchFollowup(c)
    \/ Tell(c) \/ RecordTokens(c) \/ CommitSuccess(c) \/ Answer(c)
    \/ Leave(c)

Upstream(c) ==
    /\ \/ weather \in Gated /\ (LookUp(c) \/ TakeSlot(c) \/ SlotTimeout(c))
       \/ weather = "routes" /\ SendFails(c)
       \/ weather = "stream" /\ SendRefused(c)
    /\ UNCHANGED <<keyVars, dataVars>>

Next ==
    \/ \E c \in Callers : Request(c) \/ Upstream(c)
    \/ weather = "limits" /\ (SetLimits \/ ResetConcurrency) /\ UNCHANGED <<keyVars, dataVars>>
    \/ weather = "routes" /\ (Lapse \/ SetProxies) /\ UNCHANGED <<keyVars, dataVars>>
    \/ weather = "keys" /\ (Owner \/ Housekeeping \/ CacheLapse) /\ UNCHANGED <<transportVars, dataVars>>

Spec == Init /\ [][Next]_vars

----------------------------------------------------------------------------
(* What must hold.                                                         *)

\* Generations that a limit bounds: sent, or with a response that is still open.
InFlight == {c \in Callers : call[c].at \in {"sending", "ok", "refused", "faulty"}}
On(a) == {c \in InFlight : call[c].acct = a}
Within(cs, n) == n = 0 \/ Cardinality(cs) <= n
Setting(k) == IF k = Global THEN limits.global ELSE limits.account
\* Since the reset only callers that had read these settings came to k's gate.
Settled(k) == gates[k].nth <= 1 /\ gates[k].limit \in {0, Setting(k)}
Holding(cs, k) == {c \in cs : Settled(k) /\ \E s \in held[c] : s.key = k /\ s.epoch = epoch}
Queueing(a) == {c \in Callers : call[c].at = "slots" /\ call[c].acct = a}

\* Under settings that never changed no more generations are in flight than they allow, through
\* retries, follow-ups, executions and clients that leave.  After a change that is true of the
\* ones that passed a new gate, until a caller with the settings of before comes to it and
\* replaces it.  Nobody queues for a slot it holds, and the queue shown is the queue
\* (concurrency_slot, gate, WaitingGuard, retry_on_first_token_timeout).
SlotsHeld ==
    /\ \A a \in Accounts :
         /\ Within(IF changes = 0 THEN On(a) ELSE Holding(On(a), a), limits.account)
         /\ epoch = 0 /\ waiting[a] # None => waiting[a] = Cardinality(Queueing(a))
    /\ Within(IF changes = 0 THEN InFlight ELSE Holding(InFlight, Global), limits.global)
    /\ \A c \in Callers : call[c].at = "slots" => Head(call[c].need) \notin held[c]

\* An answer holds no output of a generation that was given up, a turn without a search has one
\* generation in it, and an execution never sends twice.  Use is recorded once, for a turn that
\* ended, and only such a turn credits its account, one that was not blamed for it.
OneAnswer == \A c \in Callers :
    LET t == turn[c] IN
    /\ t.heard \cap t.lost = {} /\ Cardinality(t.heard) <= 1 + t.searches
    /\ t.mode = "infer" => t.gens <= 1 /\ call[c].tries = 0 /\ Cardinality(call[c].tried) <= 1
    /\ t.records <= 1 /\ (t.at = "failed" => t.records = 0 /\ ~t.told)
    /\ t.at = "credited" => t.told /\ (t.mode = "infer" \/ t.records = 1) /\ t.acct \notin t.blamed
    /\ t.told => held[c] = {}

\* Kiro is called unreachable only after every endpoint was tried through every proxy of the
\* chain, cooling or not, and a 5xx is handed on only after every endpoint (generate,
\* through_proxies, attempt_order).
Rotation == IF strategy = "off" THEN {Direct} ELSE Endpoints
EveryRouteTried == \A c \in Callers : changes = 0 /\ ~call[c].once =>
    /\ call[c].at = "unreachable" =>
         call[c].tried = Rotation \X (IF chain = <<>> THEN {Direct} ELSE ToSet(chain))
    /\ call[c].at = "faulty" => {r[1] : r \in call[c].tried} = Rotation

\* A request is answered once, from one generation, and refused as unreachable for good reason.
Answered == OneAnswer /\ EveryRouteTried

\* A live key is held to its limits and its use is neither lost nor counted twice
\* (dashboard_store.rs, usage_tracking.rs).
KeysHeld == PolicyHeld /\ UsageHeld /\ UseConserved
            /\ counted = Cardinality({c \in Clients : turn[c].records = 1})

\* Whatever the conversation, trimmed or followed up: each tool result answers a call of the
\* message before it, and none that does becomes text; the roles alternate, the instructions
\* lead, and an untrimmed payload says every tool result (convert_core.rs, payload_guard.rs).
ToolsPaired == \A c \in Clients :
    LET o == outgoing[c] IN
    turn[c].at = "calling" /\ weather = "payload" =>
        /\ ResultsAnswer(o.payload) /\ ResultsKept(o.payload)
        /\ Alternates(o.payload) /\ Instructed(o.payload, o.msgs)
        /\ o.payload = Whole(o.msgs, o.hasTools) => Mentioned(o.payload) = Brought(o.msgs)
=============================================================================
