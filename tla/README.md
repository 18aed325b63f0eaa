# Verification of kiro-lb

kiro-lb is a load balancer in Rust: it serves the OpenAI and Anthropic APIs
from a pool of Kiro accounts, refreshes their credentials, fails over between
them, and offers a marketplace backend ("InferX") an endpoint that executes a
paid request at most once. This directory holds TLA+ models of its stateful
parts, the TLC runs that check them on small instances, and proofs that TLAPS
checks for every instance. Paths below are relative to the repository's root.

## The system and its parts

| Part | Source | State it keeps | Operations | What makes it correct |
|---|---|---|---|---|
| InferX request endpoint | `src/routes_inferx.rs`, `src/store.rs` | SQLite rows `inferx_requests`, `inferx_connections`; one lock per connection; detached tasks | post, fence, get, execution, save, restart | one generation per request ID; a receipt told is a receipt kept; fences exclude generation |
| InferX connections | `src/routes_inferx.rs` | the same rows, device flows, recheck cooldown | put, poll, import, get, delete, recheck | rotated single-use tokens are saved; a disconnect erases |
| Account pool | `src/pool.rs` | `PoolInner` (order, accounts, pointer, sessions), `AccountState` per account | select, commit, initialize, remove, probe | evidence stays with its account object; conversations stay where their cache is; selection ends |
| Failover | `src/routes_v1.rs` | per request: accounts tried, attempts, pool size on arrival | run, attempt, refuse | every request is answered |
| Data-plane pause | `src/app.rs` | in-flight counter, pause counter, notify | middleware, pause, drain | a drained data plane is idle; a pause ends |
| Account administration | `src/routes_dashboard.rs` | `account_sources` rows | register, enable, disable, delete, login report | mutations are serialised and durable before they are acknowledged |
| Runtime state document | `src/pool.rs`, `src/store.rs` | `kv` document, dirty flag, mutation lock | flush, save, rebind, load | no outcome is lost while the process lives, none regresses |
| Credential refresh | `src/auth.rs`, `src/store.rs` | tokens in memory and in SQLite, `refresh_leases` | lease, POST, compare-and-set save, reload | one use of a single-use token; a newer login is never overwritten |
| Blue-green handoff | `src/routes_dashboard.rs`, `src/main.rs`, `deploy/bluegreen/deploy.sh` | `runtime_writer` slot | quiesce, set writer, activate, flip, stop, roll back | one writer; what the old slot learnt reaches the new one |
| Upstream transport | `src/upstream/*.rs` | admission semaphores, endpoint and proxy cooldowns, endpoint affinity | generate, retry, rotate, reset | limits hold; permits come back; nothing is called unreachable untried |
| Streaming | `src/routes_v1.rs`, `src/stream_*.rs`, `src/parser.rs` | one attempt at a time per request | first-token retry, relay, commit | one answer, one commit |
| Device and browser login | `src/device_login.rs`, `src/browser_login.rs` | flow tables | start, poll, approve, expire | one registration per approval |
| Client setup | `src/client_setup.rs` | the clients' configuration files, a recovery journal, a lock file | setup, restore, rollback, rescue | no edit of the user is lost; whatever a crash leaves, the journal accepts |
| Updates | `src/updates.rs`, `src/update_install.rs`, `src/main.rs` | release information, the install under way, executable and backup | check, install, drain, restart, restore | the version that ran stays on the disk; a stop is not turned into a restart |
| API keys and usage | `src/dashboard_store.rs`, `src/usage_tracking.rs` | key rows, identity and policy caches, use in memory and stored | identify, check limits, edit, delete, flush | an answered edit binds; use is counted once, while it is flushed too |
| Conversion | `src/convert_*.rs`, `src/payload_guard.rs` | none | convert, trim | each tool result answers the call before it; roles alternate |

How they interact: `app.rs::data_plane_middleware` counts a request in flight,
`routes_v1.rs::run` asks the pool for an account, `auth.rs` gives it a token
(refreshing under a durable lease), `upstream` sends it, and the outcome comes
back as a commit on the account's object. The dashboard mutates the same pool
under its mutation lock; a disable pauses the data plane and waits for the
in-flight count. A timer flushes the pool's runtime state to SQLite. InferX
requests use `auth.rs` and `upstream` but bypass the pool: their credentials
are the sellers'.

What is hard in it: futures that a client's disconnect drops at any await while
their database closure still runs; a guard that moves from a handler into a
detached task; single-use refresh tokens; objects replaced under the same id
while requests that use the old one are still running; a pause flag read
before a counter is raised; snapshots written by several savers; semaphores
replaced under their waiters; two processes with one store; files that an editor
changes between two system calls; crashes between a commit and its flush.
PROJECT.json lists these hazards at their lines.

## The modules and the code

| Module | Models | State ↔ code | Actions ↔ code |
|---|---|---|---|
| `RequestLedger` | what the request endpoint promises: an ID is admitted or fenced once, generated at most once, settled once | status and dispatched IDs | abstract |
| `InferxRequests` | `post_request`, `fence_request`, `get_request`, `recheck_connection`, `delete_connection`, the detached execution and recheck, `store::initialize` | `receipt`, `connection`, `cooling` are the rows; `locked` the `connection_lock` table; `call` a handler's future; `task`, `check` the spawned tasks | a handler is split at its awaits: lock (`Acquire`), closure on a blocking thread (`RunClosure`, `ClosureFails`), poll after it (`Resume`); `Cancel` drops the future and leaves the closure as an orphan; `Restart` is a process death and `initialize` |
| `PoolRouting` | selection, commits, failover, membership, the pause flag | `order`, `current`, `object`, `pins`, `older` are `PoolInner`; `health` is `AccountState`; `req` is one `run` per client | `Arrive`/`Enter`/`TurnedAway`/`Admit` are the middleware around `InflightGuard`; `Choose`, `Order`, `Take`/`Skip`, `Confirm`, `TryLastResort` are `select` with its separate lock sections; `Succeed`, `Fail` the commits; `Delete`, `Register`, `Disable*`, `Init*` the dashboard and maintenance |
| `PoolState` | the durable copy of the runtime state, for one account | `mem` is `AccountState`, `doc` its entry in the document, `dirty` the flag, `saving` a `save_state_locked` between its steps, `binding` a `bind_login_state` between its read and its assignment | `SaveClear`, `SaveSnapshot`, `SaveWritten`/`SaveFailed` are the steps of a save; `Report*` TokenHub's login report; `InitializeBegin` … `Publish` a background initialize, `InitializeRefused` its credential's death, counted while the account is not up; `Crash` ends in `load_state` |
| `RefreshLease` | one account's refreshes by the objects of several slots | `row` is its `account_sources` row, `lease` `credential_refresh_leases`, `writer` `runtime_writer`; `auth` the `KiroAuth` objects; `host` and `issued` the auth host | `Acquire` … `Release` are `refresh_with_lease`, `refresh_request`, the POST and `persist`, split at every point where another process can act; `SetWriter` is `deploy.sh`'s `set_runtime_writer` |
| `DeviceLogin` | the table of device flows and registration from it | `flow`, `phase` are `FLOWS`; `entries` the account sources; `gate` the mutation lock; `host` the authorization host | `PollClaims` … `Discover` are a poll, split at its awaits and dropped at any (`DropPoll`); `HostUnheard` is an answer that is lost on its way; `Cancel`, `SelectProfile`, `RegisterLocked` … `DiscardLogin` the other handlers |
| `InferxConnections` | put, poll, get, import and delete of a seller connection, over `DeviceLogin` | `row` is `inferx_connections`, `lock` the `connection_lock` table, `current` the token generation the host accepts | `Acquire`, `Read`, `Claim`, `VerifyPolled`, `PollVerified`, `RegisterRow`, `ImportVerified`, `Insert` … are the handlers between their awaits; `Drop` ends a future and leaves its closure running |
| `Handoff` | two slots, one store, the deploy script | `writer` is `runtime_writer`, `doc` the durable document, `mem`, `dirty`, `save`, `quiesced` a slot's process, `script` the place in `cmd_deploy` | `Claim` … `LastProof` are the script's steps, `Fail` and `Rollback*` its trap; `QuiesceSaves`, `ActivateEnds` the routes; `SaverFires`, `Boot`, `Exit`, `Crash` the process |
| `ClientSetup` | `client setup` and `client restore` | `file` and `dir` the disk, `proc` a command with the write it is at, `left` temporary files that stay | `Check`, `Swap`, `Compare`, `Undo` … `Unlink` are the system calls of one compare-and-exchange, `UnlinkFails` its last ones failing; `Plan` … `RescueVerifies` the command around them; `Edit`, `MoveDirectory`, `ReplaceLock`, `Crash` the world |
| `Updates` | release checks, the installer, shutdown and restart | `checker`, `install` are `UpdateChecker`; `disk` the executable and its backup; `process` the process and its drain; `task` the spawned install | `Ask` … `Admit` are `refresh` and `start_install`; `Locate` … `Notify` the install; `BeginDrain` … `Relaunch` `serve_until_shutdown` and `restart_updated` |
| `Transport` | one generation through gates, endpoints and proxies | `gates` the table of semaphores with their limits, `epoch` how often it was reset, `held` the permits, `cool` the cooldowns, `affinity` the last endpoint of an account | `Generate` reads the settings, `LookUp` locks the gates, `TakeSlot`, `SlotTimeout` queue (`concurrency_slot`); the rest are the steps of `generate`, `through_proxies` and `attempt_endpoint`; `SetLimits`, `ResetConcurrency` a change of the settings |
| `ApiKeys` | one data-plane key | `row` the key, `identified`, `policies` the caches, `pending`, `batch`, `stored` its use | `Identify` … `ReadPending` are a check, `EditKey` … `ClearPolicies` an edit, `Flush*` the flush |
| `Conversion` | what a conversation becomes on its way to Kiro | none (functions of the conversation) | `Unified`, `Prepared`, `Alternating`, `Payload`, `Trimmed` follow `convert_messages`, `build_kiro_payload` and `trim_to_limit` |
| `DataPlane` | a chat request: `ApiKeys`, `Conversion` and `Transport` composed with the streams of `routes_v1.rs` | `turn` is the handler and its stream, `outgoing` its payload | authentication, attempts, first token, chunks, silences, follow-ups, end and record of a request; an InferX execution on the same gates |

`MC*` modules hold the instances' sets and symmetries (`MCLocalFiles` also joins
`ClientSetup` and `Updates`, which share no state, in one run); `*Proofs` modules hold
theorems. The auth host (`HostGrants`, `HostRefuses`) is external and modelled from the
way `auth.rs` uses it: it accepts the newest token of a login, may rotate it, and
answers `invalid_grant` to any other.

Simplifications to know of:

- *InferX.* A request body is a member of a small set and a request hash is the
  triple it is computed from. Completions, sizes and the ledger's quotas are data.
- *Pool.* `initialize` publishes the catalogue just before it publishes the
  credentials under a later lock; nothing reads the one without the other, and
  the model takes one step. `InitStart` stands for both `warm_up` and
  `schedule_account_maintenance`, whose timing conditions are left open.
  `UsagePolled` is unguarded because the code matches a usage answer by login,
  so it may reach an object whose credentials are not loaded. The order of
  candidates other than the pinned one is arbitrary, so every tie-break and
  every free-tier preference of `candidate_order` is among the behaviours.
- *Runtime state.* The document is written as a whole and each entry is tied
  to its login, so one account shows every interleaving of its own entry. What
  the counters of an account have counted is the set `done` of outcomes, so that
  an outcome lost is told from one that another outcome replaced.
- *Refresh.* The lease is per account and login (`lease_account_id`). Only
  source type internal is modelled: file and SQLite sources keep an overlay
  and may POST a second time after a 400. One flag covers `expired` and
  `expiring_soon`; the back-off after a failure only removes behaviours. Every
  process has a slot name. `refresh_lock` serialises the calls on an object,
  so a `KiroAuth` is its one call at a time. The token an object loaded and
  the compare-and-set of `persist` are kept exactly.
- *Logins.* Time is two facts per flow: its window is open, a poll is due. The
  host gives one token per device code. A behaviour has one consumer of the flow
  table, as InferX needs an instance without dashboard accounts. The calls of a
  verification are one step with two results: how far the host rotated the token,
  and which of its answers arrived (they may be served by a cached access token,
  so a document that is no longer the newest can be verified and sold). A failed
  transaction is modelled for the request endpoint only.
- *Handoff.* A request is the outcome it leaves in its slot's memory. Routes
  under `/v1/` and account mutations are admitted alike.
- *Client setup.* A file is its content and the command that wrote it, which
  stands for the inode. A command's record has how it ended and, for a write that
  failed, whether what it moved is back (`rolledBack`, `undone`): one that cannot
  put it back says so in its error (`client_setup.rs:1553-1561`). An unlink or sync
  that fails ends a write with an error after its change took effect (`late`); such
  failures are modelled at the end of a write, not in the creation of a file.
- *Updates.* A version stands for the executable that reports it. Copies are
  written to a temporary file and renamed, so a path holds a whole file or none.
  `self_replace` is one rename on Unix; on Windows it moves the running image
  away first. A termination signal during a drain has no effect, as its handler
  is installed and nobody listens.
- *Transport.* The look at an endpoint's cooldown by `attempt_order` is one step
  for all endpoints. Tokio's semaphores are
  fair; here any waiter may be next. Cooldowns lapse at any time, which covers
  every length, and latency ranking is an arbitrary order. The queue depth shown
  may differ from the queue after a reset, so it is compared only without one. A
  caller holds its global permit while it waits for the account's.
- *Data plane.* `preauthorize` and `forbid_model` look up again what the
  authentication looked up and are not repeated. A collected answer is its stream
  read to its end. Which account comes next is the subject of `PoolRouting`;
  here it is any other one. After its stream has opened, an execution can fail by
  silence only. A request that ended is reduced to its answer and its record.
- *API keys.* Use is counted in requests; tokens follow the same path.
- *Conversion.* Only roles, tool calls and tool results; each entry of the
  history has size one.

## The runs

| Run | Instance | States | Shows |
|---|---|---|---|
| `InferxSafety` | 2 handlers, 2 sellers, 2 bodies, 1 ID, 1 connection, one each of crash, failed transaction, rotation | 1.1 M | one generation; fences and settled receipts hold; the lock excludes across its hand-over, rotations are kept and disconnects erase (`LockProtects`); `RequestLedger` is implemented |
| `InferxLiveness` | 1 seller, cancellations and a crash, no failed transaction | 0.2 M | started executions settle; lock waiters end |
| `InferxStranded` (violation) | 1 handler that may leave | small | see *Findings* |
| `PoolRouting` | 3 accounts, 1 request, 2 conversations, a table of one, 2 objects per account | 1.2 M | evidence and pins belong to the object and the table to its bound (`Owned`); the pointer stays; a conversation moves only when its pin is gone |
| `PoolAnswers` | 2 accounts, 1 request, a disable that may be cancelled | 0.3 M | a drained plane is idle, a pause ends, every request is answered |
| `PoolFlush` | 3 outcomes, refused initialises among them, 1 report, 1 failed write, a crash | 0.8 M | flush pending; nothing regresses; the document catches up |
| `PoolLostReport` (violation) | 1 outcome, 1 report | small | see *Findings* |
| `RefreshLease` | 2 slots, 2 objects, 2 logins, 2 rotations, one stall, one failure | 3.5 M | the six properties of the refresh |
| `Handoff` | 2 slots, 2 requests, 2 deploys, a crash, a background result | 2.8 M | the new slot has what the old one knew; only the document's owner serves; no save takes an outcome out of the document |
| `Logins` | 2 flows of 2 people, 2 handlers, 2 connections, 3 calls, an imported document of one of them, a rotation, lost answers of the host | 1.3 M | polls exclude each other; a granted login becomes one account; what is sold works and is sold once; what is gone stays gone |
| `LocalFiles` | 2 clients, 2 commands, 2 sets of options, 2 edits, a move, a crash, a failed unlink or sync (two of them in a behaviour); or 2 callers and 3 releases | 2.2 M | no edit of the user is lost, a crash can be recovered, a failed command leaves nothing; the version that ran stays on the disk, and only a newer, verified one replaces it |
| `DataPlane` | 2 clients and an execution, 2 accounts, 2 endpoints, 2 proxies, a change of a setting, an edit of a key | 1.0 M | limits hold through retries and resets; one answer from one generation; a key is held to its limits and its use counted once; tool results stay with their calls |

Why the bounds are enough. Each hazard needs two actors and at most one
accident between them: two handlers of one ID, two objects under one id, two
slots, two writes of a command; a second accident of the same kind only repeats
the state the first one leaves, because every history variable is a set or a
comparison. Three accounts are the fewest for which removal can be before, at
and after the round-robin pointer; three releases the fewest for which a backup
can be of the wrong one. A table of one conversation is at its limit at once.

Bounds that choose what a behaviour explores. `Happenings` and `Deadlines` in
`PoolRouting` split its environment: a behaviour has the events of one of the sets, so a
pair of events in no set is not checked together. `weather` in `DataPlane` does the
same: under `keys` a key is edited and its use flushed while two clients check it; under
`slots` two clients and an execution queue under fixed limits, retry and leave; under
`limits` they do while the limits change and the gates are reset at any point (in both,
the limits start at 2 in all and 1 an account, or at 1 in all, and a generation follows
another one only without an earlier silence); under `routes` endpoints and proxies fail,
one client after the other so that cooldowns and affinity carry over, or an execution
alone; under `stream` one request meets chunks, silences, faults and up to two searches;
under `payload` one request sends every conversation of up to three messages of any
kind, or seven in turn, under each size limit. `Identities` in `InferxConnections` says
whose the logins may be; in the run the document offered for import is of one of the two
people who log in, since with three calls a conflict is between an import and one login.
`MaxTroubles` in `ClientSetup` bounds edits, moves, deaths and failed unlinks and syncs
together. `Updates` has no bound but the number of releases: its processes die and start
again without limit. Symmetry is used only where the properties are safety properties,
on model values that no definition orders.

Deadlock is checked in `RefreshLease`; elsewhere the bounded environment and the
requests may simply end. For the modules of `DataPlane` and `Handoff` the check
of types is folded into a property (`OneSlotServes`) or left to the runs'
evaluation; `Owned`, `SoldOnce`, `FilesKept` and `UpdatesKept` include a type
invariant as their first part.

What each exception in a property means. `HandedOver` and `DocumentGrows` hold while no
process died and no step failed since the standby started (`clean`), and `HandedOver`
not of what a rollback cost (`lost`): the script makes no promise there. `EditsKept`
leaves out an edit that falls between the look at a file that decides to put a
conflicting edit back and the exchange that does so (`chased`): the code has no check
between the two. Like `RecoverableUntilTorn` it also leaves out what happens after
`torn` and after `raced`, see *Observations*; `torn` is a failure at the last save of
the journal, that of its unlink or sync included. `UndoneIsUndone` leaves out `raced`
and the one client whose write took effect and then failed (`slipped`).
`RecoverableUntilTorn` speaks of the directory where a command last found the client
(`looked`). `CredentialFresh` speaks of a connection registered from its own login, as
an imported document may be in use elsewhere, and of one that did not lose the newest
token on the way (`adrift`: with the host's answer, with a verification that failed or
was left, or in a registration that was refused or outlived its handler). `TokenKept`
leaves out a token that was lost with the answer that carried it, or given up with the
poll that was receiving it (`spent`). The three properties of `PoolState` leave out the
outcome of a refused initialize that a later bind made the pool forget (`forgotten`); an
outcome of a request is never forgotten. `SlotsHeld` says that the limits hold as long
as no setting changed, and after a change of those that passed a gate made since, as
long as no caller that read the earlier settings has replaced it (`Settled`).
`PolicyHeld` and `UsageHeld` speak of a key that still exists.

### Fairness

`InferxRequests!Fairness` is weak fairness of what Tokio drives by itself: a
closure on a blocking thread runs, a future whose closure has committed is polled
again (unless it is dropped), a dispatched generation ends because its 120 s
timeout ends it, and the task saves. Acquiring the connection lock is strongly
fair because `tokio::sync::Mutex` is FIFO. `PoolRouting!FairSpec` gives weak
fairness to the next step of a request in progress (it is a running future with
a timeout at every call) and to the two steps of a disable that wait for the
drain; nothing is assumed of the environment. `PoolState!FairSpec` gives weak
fairness to the commit thread that sets the flag and to the saver; failing
writes are bounded, which is the claim's condition: the document catches up
*once writes succeed again*. The other modules claim safety only.

## Findings

- **A stranded receipt** (`InferxStranded`, code). The admission is awaited in
  the handler's own future and the execution is spawned afterwards. A client that
  leaves in between drops the future: the row stays `running` and nothing executes
  it until the next start seals it `indeterminate`. README.md:349 promises that
  "execution and receipt persistence continue after a client disconnect", and the
  comment at `src/routes_inferx.rs:1261` that execution is detached from a client that
  is gone; both are true only from the spawn on.
- **A login report undone after its acknowledgement** (`PoolLostReport`, comment
  against code). `bind_login_state` assigns a copy of the document that it read
  before, without the mutation lock that `src/pool.rs:417` says is held over every
  such sequence.

## Observations

Behaviours that the models show and no document rules out:

- *Rollback of a deploy.* `deploy.sh:330` says that writer, HAProxy and active
  slot are restored, but `:334` ignores a failed activation (`|| true`): the slot
  that gets the traffic again may still refuse it. A standby tested on its own port
  before activation (`deploy.sh:396-397`) notes outcomes that the reload drops.
  An old slot that dies between its quiesce and the writer change starts again
  unquiesced.
- *Client setup.* A rollback that begins after the last save of the journal
  (`client_setup.rs:331`, `1909-1911`) and dies in between leaves a file that no
  journal accepts, where the comment at `274-276` says that restore accepts either
  the old bytes or the staged ones.
- *Client setup, replaced locks and moved directories.* The path of the lock is
  verified before each write and no more, so a user who replaces the lock file
  lets two commands work at once; neither knows what the other has written. A
  setup that finds a file of ours of which its journal does not know, because the
  client's directory or the journal's was another one at the time, takes it for
  the client's original (`plan_install`), and a later restore puts it back.
- *Client setup, failed unlinks and syncs.* A write whose unlink or sync fails after
  its change took effect (`client_setup.rs:1568-1578`, `1657-1667`) is an error that is
  not in `applied`, so the abort leaves its change and names no failed rollback. In the
  last save of the journal the new journal stays, `journal_expected` is of the one
  before, and the files that the rollback puts back may be ones it does not accept.
- *Limits.* The settings are read at `http.rs:435`, the gates locked at `445`. A caller that
  read the limits before a change and locks after the reset makes a gate of the old
  limit, which the next caller replaces: for as long as their permits are out, more
  generations pass than the new limit allows.
- *A refused initialize.* It counts a failure of an account that is not up
  (`pool.rs:913-916`). A bind that read the document before that count was in it puts
  the older copy back (`pool.rs:716`), in memory and with the next save in the document:
  the race of `PoolLostReport`, for an outcome that nobody was told of.
- *Lost tokens of a login.* A device token that the host issued is lost with an answer that
  times out or cannot be read, and the flow is marked failed (`device_login.rs:157-206`).
  A verification whose refresh fails in passing goes on with the cached access token
  (`auth.rs:940-949`), so a document whose refresh token was rotated elsewhere, or by an
  answer that got lost, can be verified and sold. A registration that outlived its poll
  may land before the next poll's, whose newer token is then not stored.
- *API keys.* The identity cache is filled without the generation guard that
  protects the policy cache (`dashboard_store.rs:598` against `:499`): a lookup
  that read the row before a delete may be cached after it, for up to 300 s.
- *Usage.* A client that leaves after the last event of its answer and before
  the end of the stream leaves no record of the request.
- *Put of a connection.* A handler dropped between starting a flow and saving it
  leaves a flow that no row refers to, until its window closes.
- *Pool.* Re-pinning a conversation that has a pin evicts another one although no
  room is needed (`pool.rs:1442`). A long request that succeeds lifts a
  quarantine recorded while it ran (`pool.rs:1565`). A refusal is worded from a
  pool that may have changed since the selection failed (`pool.rs:1403`). A
  failed persist of a membership change reloads the durable state and drops
  outcomes not flushed yet (`pool.rs:719`).

## The proofs

TLAPS proves the theorems below for every value of the constants that the named
assumptions of the modules allow. Only `Init`, `Next` and these assumptions are used.
Each theorem goes the same way: an inductive invariant, one lemma for each kind of
step, and a last step that combines them. The theorems state every safety and action
property of the passing runs but those under *Model-checked only*.

*Assumptions.* Most say that bounds are naturals and that `None` is no member of the
sets it stands beside (`InferxAssumption`, `StateAssumption`, `LeaseAssumption`,
`UpdatesAssumption`, `DeviceAssumption`, `ConnectionsAssumption`, `KeyAssumption`,
`DataPlaneAssumption`, `ClientSetupAssumption`, `AbsentAssumption`). Those that say more:

- `SlotsAssumption`: there are two slots, as `deploy.sh` has blue and green.
- `RoutingAssumption`: accounts, conversations and requests are finite sets, and a
  list, a table and a behaviour have room for at least one.
- `TransportAssumption`: there are finitely many endpoints and at least one
  (`selected` falls back to all of them), chains are sequences, limits are naturals. `Global`
  is no account because the code keeps the global gate in a field of its own
  (`http.rs:372-377`); the model has one function for both kinds of gates.

*`InferxRequestsProofs`.* `TypeCorrect`, `GeneratedAtMostOnce`, `FenceHolds`,
`ToldForGood`, `LockHolds` and `ImplementsLedger`. That an ID is generated once is not
inductive: the admission commits a row long before the task that generates exists, and
the handler in between may be dropped. `OnceInv` therefore adds `SpentInv` (what each
status says about generations and tasks) and `AdmittedInv` (a live handler that has
admitted an ID is the only one, the row is running and no task exists yet). What was
told stays true because a closure commits before its handler answers: `ToldInv` speaks
of the answers that are committed and not given yet as well, and of each row's owner,
which a row keeps. `LockHolds` needs `HeldInv`. `LockInv` says of a connection's lock
that a handler, a detached execution and a detached recheck exclude each other, that
each holds it, and that a held lock has one of them; so the hand-over from a handler to
its task is a step between two states with one holder. `NewestInv` says who has the
newest credential in each of them, which is why a save under the lock loses no rotation,
and `OwnerInv` that an execution works for its connection's owner. The refinement needs
`SentInv`: success is only claimed of a generation that was sent. Every step then maps
to one ledger action or to a stutter.

*`PoolRoutingProofs`.* `EvidenceAndPinsOwned`, `RoundRobinKept`, `ConversationsKept` and
`DrainHolds`. What a request knows of an account is old by the time it says so. `Fenced`
therefore says of each request that the object it works with was made before and, if it
is still the live one, is initialized; `InitOnce` says the same of an initialize, the
other way round. Removals and registrations of the same id are harmless because a new
object has a number that none of them knows. The pointer is zero when the list is empty:
without that, the first registration could move it. A table stays within its capacity
because some pinned conversation is always a least one of `older` (`LeastExists`: a
strict order of a finite set has one), so an eviction at the limit frees a place. For
the drain, `WalkShape` says which of a request's steps lead into and out of the admitted
part; nothing enters it while the flag is up and the count is zero.

*`PoolStateProofs`.* `TypeCorrect`, `FlushStaysPending` and `NoRegress`. The
invariant adds `Between` (document ≤ snapshot ≤ memory, but for what is `forgotten`) and
`Quiet`: an initialize, which assigns memory without the mutation lock, runs only while
the account is not up, when memory and document agree on every outcome but those that
refused initialises left. So only these can be missing from the copy that a bind
assigns, and become `forgotten`; the outcomes of requests survive a rebinding that a
login report does not (`PoolLostReport`).

*`RefreshLeaseProofs`.* All properties of the run. `IInv` says for each
object what it may know at its place (`ObjInv`): its token is one the host gave
(`Made`), the fingerprint is the token that was posted and the answer is no
older (`Carried`), it owns an unexpired lease in the writer's slot unless it
stalled (`Covered`), and without stalls the stored token is the one it loaded
(`Undisturbed`). Mutual exclusion (`Alone`) is a consequence of `Covered`;
`DeadIsDead` is the argument that a refused current token cannot be the host's,
so by `StoredTokenUsable` its loss is recorded or another call brings it, which
`Alone` excludes. `TokenNeverRegresses` needs only the compare-and-set and
`Carried`, so it holds for stalled calls too.

*`HandoffProofs`.* `OneSlot`, `NothingLost` and `DocumentOnlyGrows`. `IOwn` ties the
place of the deploy script to the writer (`Roles`), to what each process may have under
way (`Processes`), and, while there was no accident, to which slot admits work
(`OnlyWriter`) and that a drained one has none (`NoWorkLeft`). `Known` follows the
outcomes along the handoff: the writer's memory has them all, then the old slot's last
save, then the document, then the new slot's memory; between the last save and the
reload nobody serves (`Closed`) and the standby has nothing to write over them
(`Untouched`). `Accounted` holds whatever happens: a noted outcome is in the document or
in the memory of a process whose final save is still to come, or it was lost in a way
`lost` records. `NothingLost` and `DocumentOnlyGrows` assume `~StandbyUsed`: a standby
that is tested on its own port notes outcomes of its own, and the reload drops them
(*Observations*, rollback of a deploy). `OneSlot` does not need it.

*`LoginsProofs`.* `OnePollAtATime`, `OneAccountPerGrant`, `SoldOnceOnly` and
`GoneForGood`. `LoginInv` has the device table (`DeviceInv`), the locks (`LocksHeld`,
`GateHeld`), which flow serves which connection (`UsedOnce`), what a row may be
(`RowInv`) and who may sell it (`SellInv`). A poll works on a clone of its flow, and
the mark that keeps others out is in the table: `PollInv` says that the clone is of
the flow as it is, but for a flow that left the table, and that an issued token is in
the table or in the hands of the one poll that will put it there. `UsedOnce` is what
makes a sale single: a flow is named by the row, the credential and the handlers of
one connection only, for good, also after its flow was replaced or its handler dropped.
With it `SellInv` says which document is the newest where. A call that verified one and
has not registered it is alone with it (`NotYetSold`, `Orphaned`: a registration
outlives its handler only of a connection that is `adrift`), a login that nobody verified
was not rotated (`Unborn`, `Unrotated`), and so the call carries the newest token
(`NewestToken`), unless the connection is `adrift`. `OneSeller` needs none of this: the
conflict check and the write it guards are one transaction.

*`LocalFilesProofs`, client setup.* `NoEditLost`, `AlwaysRecoverable` and `AllOrNone`,
for any number of clients, processes, commands, edits, moves, deaths and failed unlinks
and syncs; the run has one process. `SetupInv` has four parts. `Typed` says what a
process's record can be at its phase. `Solo`: one command works at a time, until
`raced`. `Reverts`: for each client a command planned for, its path holds nothing of
this command that the client did not have before (`CleanFile`), or the change is in the
list to take back (`InApplied`), or a write is on the way (`PendingAt`), or the write
failed after it took effect (`slipped`); when the list is empty the first is left, which
is `AllOrNone`. `Accounted` says what a command knows still holds: which file the
journal is at each system call of its save (`JournalAt`) and what it says
(`JournalSays`; after a save that failed `late` it may be the old file or the new one,
`JournalSeen`); that a file of ours at a path is one the command's snapshot knows
(`PlanCore`, `WriteSeenAt`); that a client it has passed holds the result of its plan
(`Done`). The two hard steps use it. When the journal is replaced, what the old one
answered for is answered for by the new one or was restored before (`CoveredBefore`,
`Extends`). When a file of the user leaves its path, its content is an original in the
journal, or it is the edit that `chased` records, or it stays in a temporary file
(`Secured`, `ClientTurnKeeps`). Earlier forms of the three properties held on the run
and failed in the proof: `raced`, `looked` and the error of a write that could not be
rolled back come from there.

*`LocalFilesProofs`, updates.* `LastVersionStays` and `OnlyForward`, for any number of
callers and releases. That the running version is the executable or its backup is not
inductive: `UpdatesInv` adds that the executable is the running image until an image has
been moved away (`ImageMoved`), that the status admits one task and says where it is
(`InstallStaged`), and that from the backup on the backup is the running version and the
version to install a newer one (`Replaced`). On Windows an image that was moved away
is not installed over again because `update_install.rs` disables installs before it
reports the failure; this is the one place where `~task.relocated` could break.

*`DataPlaneProofs`.* `LimitsHold`, `GatesHold` and `AnsweredOnce`, over the composition
of `ApiKeys` and `Transport` with the streams. `TurnOk` says of a request alone what its
record may be at its place: the generations it heard and gave up are disjoint and
counted by its searches, and what is recorded and told is of a turn that ended. `KeyInv`
is about the key: a policy in the cache is of the row or of an edit that still has a
clearing to come (`OwnerInv`, `ChecksOk`), and use is in memory, in the one batch under
way or stored (`FlushInv`); `CountInv` ties it to the requests that recorded. `RecOk`
says of a generation which permits it holds for the gates it still has to pass
(`GateOk`: in the present epoch each is of its gate's limit or an earlier one of that
key, which is why a gate that is `Settled` is the only one of its epoch), that an
execution's is sent once (`OnceOk`), and that what it tried and what it has left are the
whole rotation (`RouteOk`); `HoldersOk` bounds each gate of each epoch and `WaitOk`
makes the queue shown the queue. `PairOk` joins the two halves: a turn that does not
generate has no generation and no permit. `Transport` states the orders of endpoints and
proxies as sets of sequences sorted by a rank rather than as results of `SelectSeq`,
about which these provers can show nothing.

*Model-checked only.* The liveness properties: liveness under fairness and ENABLED are
out of the prover's reach. `ToolsPaired`: `Conversion` computes by recursion over a
conversation, which needs induction over data and RECURSIVE operators; it is checked
for every conversation of up to three messages.

## Plan

Done: every component above that has state, to the extent its note in PROJECT.json
says, and the proofs above. To come, most important first:

1. The browser login and its listener; file and SQLite credentials of `auth.rs`.
2. Failed transactions in `InferxConnections`; failed persists of account
   operations.

## Not modelled

The browser login, credentials read from files, settings documents, dashboard
sessions and history tables; the Responses translation, the native web search,
tokenisation, texts, images and schemas in the conversions; the one-time migration
of a deployment and image builds; the dashboard's front end. Configuration, metrics
and logging are I/O. PROJECT.json has a note for each component.

## Running the checks

`tlc -config PoolFlush.cfg MCPoolState.tla` checks a run; PROJECT.json lists the
module of each configuration, the mutants that each property refutes and the lines
that each definition models. `tlapm RefreshLeaseProofs.tla` checks a proof module.
