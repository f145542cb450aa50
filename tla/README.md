# Formal model of OpenCode2API

OpenCode2API is a local bridge: it accepts Anthropic Messages and OpenAI Chat
Completions requests, forwards them to an OpenAI-compatible provider and streams
the answers back. Requests may leave through a pool of SOCKS exits that the bridge
health-checks, rotates and restarts in Docker; rate limits, outages and fallback
models are handled by a retry loop; what happened is kept in a request history;
clients are admitted by keys; the program starts, stops, configures and updates
itself. This directory holds TLA+ modules that model the bridge, TLC configurations
that check them, and TLAPS proofs about them. Paths below are relative to `src/src/`
unless they start with `docs/` or `REPO_WORKLOG.md`, which are relative to `src/`.

Contents: 1 inventory, 2 plan, 3 the modules and the code, 4 the runs, 5 fairness,
6 what is proved, 7 disagreements between documents and code, 8 not modelled.

## 1. Inventory

| Component | State | Operations | Hard part | What makes it correct |
|---|---|---|---|---|
| **Egress pool** `proxy_pool/{types,pool,routing,maintenance,identity}.rs`, `proxy_pool/reconcile/mod.rs` | per node: health, circuit and its deadline, failure/success counters, restart attempts, quota deadline, quarantined exit, recovery cause, exit identity, duplicate mark, drain; one restart queue; round-robin counter; lease counts | route selection in four passes, lease and release, success/failure/rate-limit reports, cooldown recovery, health probes, identity refresh, duplicate suppression, reconcile stages, automatic restart, drain, undrain, explicit restart | five tasks and every request change the same nodes, and most decide under one lock acquisition and act under a later one, with Docker, TCP or HTTP in between | the overlapping fields of a node agree; no fresh request inside a quota; an exit address carries traffic on one node only; protected nodes are never touched; a managed node comes back |
| **Readiness and reconcile schedule** `proxy_pool/{subsystem,reconcile/*}.rs`, `handlers/metadata.rs`, `workers.rs` | phase, last error, back-off, heartbeats of five critical workers | a staged cycle under one time-out, set Ready or Degraded, wait 2/5/10/30/60 s; restarts; `/health/ready` | the cycle verifies its candidates one after the other; identity monitor and restart worker run beside it, each with waits of its own | Ready only on proof; exits that serve come to be used; unready only for a reason |
| **Retry loop** `opencode/retry/execute/*.rs` | model index, retry count, key attempts, sanitizing rounds, excluded node, retained route with its lease, request body | select a route, send, classify, then: rotate key, advance model, penalise and retry on the same egress, sanitize and resend, retry on another node, or end | four counters that reset one another; a lease held across a back-off; penalties applied to a shared pool and cleared later | it ends whatever the provider answers; a quota does not move the request to another egress; a node that serves is not left penalised |
| **Streaming and non-streaming forwarder** `opencode/forward/**` | message-wide tracker of content blocks; per attempt a fresh `StreamContext`; turn, search, replay and compatibility budgets | open/append/close blocks, intercept a search, replay an attempt, end or fail the message | several upstream attempts write one client message; the client may be slow, gone or cancelled | one `message_start`; deltas only to open blocks; indices consecutive; a replay never repeats content; terminal event once, after all blocks closed; the record agrees with what the client saw |
| **Tool calls in text** `opencode/forward/common/{compat,fallback_intent}.rs`, the text channel of `stream/context.rs` | what is kept back, the markdown state | judge a text chunk by chunk or at once | the cuts between chunks are the upstream's | prose is shown whole; a call runs only where it is meant as one |
| **Protocol mapping** `opencode/mapper/*.rs`, `handlers/messages.rs` | none: the whole conversation comes with every request | validate, map blocks to messages of roles, thinking and fan-out rules | one user turn holds results, reminders and text | the request is one the provider accepts, and asks for what the user asked |
| **HTTP handlers** `handlers/*.rs`, `openai/*.rs`, `app_state` | shell tickets, the concurrency limit | validate, delegate a shell prompt, wait for a place, echo a result | tickets and places change while a request waits | a request is answered as the policy of its key says; a ticket is spent once |
| **Request history** `history/store/*.rs` | SQLite rows and contents, a bounded command queue, a writer thread, captures in request tasks, settings | begin, finish or drop of a capture, queue or apply directly, insert start, complete, merge a recovery into its parent, fail a running row, delete, purge, cleanup, settings, recovery at start | a completion applied directly overtakes queued commands of its own and other requests; rows outlive the process, the queue does not | rows end; stored bytes match contents; terminal states stay; completions are not lost; gaps are flagged |
| **API keys and admission** `api_key/*.rs`, `middleware.rs`, `dashboard/control/api_keys.rs` | registry (secrets, status), per-key runtime (daily counters, concurrency semaphore), the registry file | resolve, admit, hold a permit, create, update, rotate, revoke, bulk operations: stage, persist, commit | mutations replace a runtime that live requests hold permits of; legacy keys are imported again at each start | an answered decision holds now and after a restart; a quota survives an update |
| **Configuration** `config/*.rs`, `management/config_apply.rs`, `infrastructure/file_store.rs`, `app/models.rs` | the TOML and `.env` files, in memory what was loaded | apply (read, merge, write, verify, roll back), provider and model switches, loading with flags and environment over the file, migration | nobody takes a lock; the dashboard judges the file alone, the loader all sources | a failed apply leaves the previous content; no uncontested edit is lost; what was applied is in effect after the restart |
| **Supervisor and server process** `supervisor.rs`, `pidfile.rs`, `application/lifecycle.rs`, `server/runtime.rs`, `workers.rs` | PID file, processes, port, tasks | start, stop, restart, status, adopt; bind, serve, drain, exit | two operators, reused PIDs, crash between spawn and PID file, a child nobody collects | never signals a foreign process; the PID file describes the running one; success is not reported over lost work |
| **Docker containers** `docker/*.rs`, `app/proxy.rs` | containers and volumes of managed and protected nodes | ensure, start, stop, rotate, purge, one Docker command at a time | reconciler, restart worker, command line and dashboard at once | protected containers are kept; a reported rotation is one; a container comes back |
| **Self-update** `update.rs`, `app/utility.rs` | three file names | check, download, two smoke tests, renames, going back, cleaning up | overlapping updates, a kill between two renames | a binary that works is left; a failed update restores |
| **Choice of models** `application/{models,client_config,integration}.rs`, `app/models.rs`, `api_key/types.rs`, `opencode/retry/policy.rs` | the configured model, what the running server loaded, what a client was told when it was set up | switch provider or model, restart, launch or set up a client, choose the models of a request | a client asks by an alias long after the model behind it was switched | a client told of a large window gets large models |
| **Web search** `opencode/search/*.rs` | providers left, time spent, last error, metrics | ask one provider after the other, give up | budget, time-outs and what a page shows decide together | results, or the truth about who has none |

Components that are sequential or pure: response classification, history redaction, the
prober of models, command line, doctor, output, metrics. `PROJECT.json` lists each component with its files and status.

```
client -> handlers -> forwarder --> retry loop --> provider
             |          (turns)        |  ^
             |                         v  | route + lease, success / failure / quota
        API key permit             egress pool <-- health monitor, identity monitor,
             |                         ^          reconciler, restart worker (-> Docker)
        history capture                |
             |  Start, Complete     operator (dashboard): drain, undrain, restart
             v
        bounded queue -> writer thread -> SQLite <- direct completion, delete, purge
```

The retry loop calls the pool under the pool's lock: `select_proxy_route` gives it
an index and a lease counted per node, `record_success`, `record_failure`,
`mark_rate_limited` and `clear_rate_limit_recovery` report what happened. The lease
ends when its guard is dropped. The history capture is created by the handler and
finished by it, or by its drop. The dashboard calls the pool and the history store
directly; it changes configuration by rewriting files and asking for a restart, which
the supervisor performs.

**Hazards.** `PROJECT.json` lists every hazard with the line where it bites and the
properties that would see it go wrong. They fall into six families: decisions taken under
one lock and acted on under another (pool, restarts, identities, containers); budgets that
refill one another (retry loop, stream turns); commands that overtake each other
(history); replacement of shared objects under live users (API keys, PID file,
configuration, binary); state of a whole message asked of a part of it, or the other way
round (forwarder); two judges of the same thing with different rules (dashboard and
loader, streamed and complete answers).

## 2. Plan

The plan of the project was the most important behaviour first, and each component as its
own module; components that share no state are checked side by side in one run. Done, in
order: the pool; the retry loop with `BoundedRequest`; the history; the messages with
`AssistantMessage`; keys and configuration files; supervisor and server process;
containers and readiness; endpoint, self-update, conversation, text, startup; models and
search. Proofs followed the same order: pool, retry loop, history, supervisor, endpoint,
containers, messages, keys and configuration files, self-update, readiness, models,
search, settings.

Left: the composition of the pool with one retry loop per request, in
which the penalties of one request restrict the routes of another.

## 3. Modules and code

Each module is named for the code it stands for, its actions after the functions;
`PROJECT.json` maps every definition to its lines.

| Part | Specification | For TLC | Proofs |
|---|---|---|---|
| Pool | `EgressNode` (one node), `EgressPool` | `MCEgressPool` | `EgressPoolProofs` |
| Readiness | `Readiness` | `Readiness` itself | `ReadinessProofs` |
| Retry loop | `BoundedRequest` (abstract), `RetryLoop` | `MCAnswers` | `AnswersProofs` |
| Messages | `AssistantMessage` (abstract), `StreamMessage`, `SyncMessage` | `MCAnswers` | `AnswersProofs` |
| History | `HistoryStore` | `MCHistoryStore`, `MCBackground` | `BackgroundProofs` |
| Containers | `Containers` | `MCBackground` | `BackgroundProofs` |
| Configuration files and keys | `ConfigFile`, `ApiKeys` | `MCApiKeys` | `ApiKeysProofs` |
| Processes | `ServerProcess`, `Supervisor` | `MCSupervisor` | `SupervisorProofs` |
| Handlers, update, models, search | `Endpoint`, `SelfUpdate`, `ModelChoice`, `SearchChain` | `MCServices` | `ServicesProofs` |
| Settings | `Startup` | `MCServices` | `ServicesProofs` |
| Text | `EncodedText` | `MCServices` | `ContentProofs` |
| Mapping | `Conversation` | `MCServices` | `ContentProofs` |

`MCAnswers`, `MCBackground` and `MCServices` put parts that share no state side by
side: a behaviour is of one part, `part`, and the others stay as they start. That
loses nothing, because no action of one part reads a variable of another.

**EgressNode, EgressPool.** One `ProxyEntry` is a record; what each method of `ProxyPool`
does to it is a function from record to record (`RecordFailure`, `MarkRateLimited`,
`BeginRestart`, `FinalizeRecovery` and so on). The pool's variables are the locked state
(`entry`, `queue`, `rr`, `leases`) and the position of each task between two acquisitions
of the lock: `restart`/`attempt` of a node's automatic restart, `manual` restarts inside
Docker, `monitor`/`targets` of the health monitor, `candidates` of the reconciler. A step
is what happens under one acquisition: `restart_container` is `CheckRestart` (read lock),
`MarkRestarting` (write lock), `DockerEnds`, `AcceptIdentity` or `VerifyFails`,
`SettleFailure`. An `Instant` is the number of ticks until it, 0 means passed, -1 `None`.
Counters saturate where the code no longer tells their values apart. An identity is an
address and whether it is within `identity_ttl`. Probes, exit lookups and Docker are
external: any outcome is possible. `cooldown_until`, statistics and error texts are left
out: no decision reads them.

**Readiness.** A tick is `verify_timeout` (10 s). The pool is reduced to what the stages of
the cycle look at. An exit serves, is gone, refuses, hangs, fails to prove itself or does
not reach the upstream; the Docker daemon is prompt or stalled. `BeginCycle`, `Verify`,
`ProbeTimesOut`, `StageEnds`, `RouteEnds`, `Publish` are the reconciler; a candidate is
waited for if its exit hangs or, while its container is ensured, if Docker stalls
(`Hangs`). `MonitorWakes`, `MonitorApplies` are the identity monitor, which waits for all
exits; `RestarterWakes`, `BeginRecovery`, `DockerAnswers`, `VerificationEnds` the restart
worker, which runs at most `AtOnce` recoveries and beats when it wakes and whenever one is
complete; `Recovers` is the health monitor. `barred` are the nodes no worker brings back
(attempts spent, or rate limited). `beat` holds the age of the heartbeat of each of the
five critical workers that `/health/ready` asks for (`WorkersReady`); those of the health
monitor and of the dashboard's worker are never late, because nothing they wait for lasts.

**RetryLoop, BoundedRequest.** `RetryLoop` is `execute_retryable_request`: one action per
way a route is selected and per class of answer. Of the request body, what the sanitizers
look at is kept. Of the pool, a selection sees any node except the excluded one and those
under a penalty of this request; that over-approximates `EgressPool`. `Cancel` is the drop
of the future at any await. `BoundedRequest` is what the caller is promised: each further
attempt is paid for from a budget fixed at the start, and a request ends once.

**StreamMessage, SyncMessage, AssistantMessage.** `AssistantMessage` is the message a client
may see: one start, blocks with consecutive indices opened and closed in turn, deltas only
to the open block, a stop reason, one end - or an error. `StreamMessage` is the turn loop:
`ctx` is the `StreamContext` of the attempt with the events on their way (`ctx.out`),
`Deliver` and `SendFails` the channel to the client, one action per kind of upstream line
and per way an attempt ends (`ReplayRead`, `SearchWeb`, `ReplayMalformed`, `EmptyEnds`,
`Complete`, `Takedown`). A line with several parts stands as several lines; what the
parsers make of a text is any of their outcomes. `record` is what the history is told.
After `prepare_final_search_synthesis` the search tools are gone, so a search in the
synthesis (`execute.rs` 680-727) cannot happen and is left out; so are `RetryNative`,
which nothing returns, and other stop reasons than `tool_use`, which differ in wording only.
`SyncMessage` is the loop of `sync.rs` with the same helpers and no consumer.

**HistoryStore.** Captures (`Begin`, `Finish`), the bounded queue (`CanSend`, `Send`), the
writer thread (`Receive`, `WriteStart`, `WriteComplete`, `WriterDies`), the fallback of a
request whose Complete found no room (`ApplyDirectly`, `MarkFailed`), the dashboard
(`Delete`, `Purge`, `UpdateSettings`) and the restart of the process. SQL transactions are
functions of the rows: `InsertStart` (`ON CONFLICT DO NOTHING`, then the inbound payload),
`Completed`, `MergeRecovery`. A payload weighs one byte. Any subset of the rows may go with
a cleanup. The ghost `troubled` collects the requests that a failed write, a crash or a
deletion has touched. A recovery begins only after the request it recovers.

**Containers.** The operations of `docker/lifecycle.rs` and the pool-wide commands as lists
of Docker commands; each command is one step and others fall between. The reconciler runs
whenever the server does; other jobs (dashboard, command line, restart worker, API) may be
interrupted. Ports are managed or protected by number (`docker/types.rs`).

**ConfigFile, ApiKeys.** Every writer of the TOML and `.env` files reads the whole file,
edits a copy and replaces it. `blind` records that a write replaced content its writer had
not read, `parted` that upstream and keys were parted: a switch of the provider was abandoned
between its two files, or a document was applied that names some of a provider's parts (its
URL, its key, its pool of keys) and not the others, which the merge then keeps. `Namings`
says what the applied documents of a run may name.
`ApiKeys` adds the registry in memory and on disk, the credentials imported at each start,
admin operations as stage, persist, commit, and requests matched under the lock and
admitted after it. `verdict` is what the last answered operation said of a credential,
`strayed` counts the admitted requests that a key's current runtime does not know of,
`lapsed` says that the server started without a registry it could read. The first key of
the integration bypasses the registry by design; expiry dates, permissions and the window
of a minute, which is treated as the daily one is, are left out.

**ServerProcess, Supervisor.** A process is a number that may be reused and a mark that is
not; the PID file holds a number and, from newer versions, the mark. Reading a process's
identity and signalling its number are two system calls and two steps (`Term` and
`SendTerm`, `Kill` and `SendKill`): between them the process may end and its number be given
out again. Deadlines may pass at any moment. Ghosts: `signals` (when each invocation last
verified its target, and whether a signal went to a process that was already there then,
or to any process but the one meant), `irregular` and `calm` (whether invocations overlapped
or things crashed), `exited` (what was lost at an exit with success).

**Endpoint.** A request arrives, is validated and judged (`Admit`), waits for a place, and is
served, echoed, delegated, refused or forwarded. Tickets are the ids minted for shell
delegations: the newest `Capacity` live, oldest first, until they age.

**SelfUpdate.** A directory of three names per update; each await of `update.rs` a step.
Versions are compared as the code compares them (`Less`), with pre-releases.

**Conversation.** The history as Claude Code sends it whole with every request, hooks included,
and the mapping of it to upstream messages (`Mapped`) with `Valid`, the thinking options and
the fan-out count. **EncodedText.** A text of tokens with at most one marker; `Chunk` cuts it
anywhere; the steps are those of the text channel, and `SyncOutcome` judges the same text at
once. A text may claim that a call was made (`Claims`): with tools in the request such text
is kept back (`Pending`), suppressed right before a marker (`Introduce`), and suppressed once
a call was emitted (`Show`). Double quotes, tildes, escapes, DSML and several markers are
left out.

**Startup.** What each setting is made of: flag, environment, file and default, by the rule
the code has for it; `Refusal` is the check at start, `Acceptable` that of the dashboard.
Settings that resolve alike stand for one another.

**ModelChoice.** The configuration file and what the server loaded of it; commands and the
dashboard write the one, a restart copies it to the other. `told` is the model, the
configurations and the way a client was set up; it asks by the alias of that model, or by a
name of its own. `ResolveAnonymous` and `Selected` choose the first model, `Mapped` is the
name it is sent under, `Others` the fallbacks. A name is its identifier and whether
"opencode/" stands before it; the list of fallbacks is a set.

**SearchChain.** One search: the providers that are left, the one that is asked, the time
spent, the last error, what the metrics count. A page is what each provider's parser looks
at; a reply, a break, a time-out or the end of the budget ends the question to one provider.
The budget is looked at between providers and cuts off the one that is asked.

**Operators marked "Faulty" or "Mutant".** Beside some definitions stands a variant with a
plausible mistake. They are part of no specification. Substituting one for the definition it
follows makes TLC report the property it is paired with in `PROJECT.json`: the property
depends on that piece of the code.

## 4. Runs

| Run | Asks | Bounds | States |
|---|---|---|---|
| `PoolNode` | do a node's fields stay consistent and its restarts within budget (`TypeOK`, `Coherence`) | one managed node, one address, quota and cooldowns of 1 tick, 2 attempts, 2 leases, 1 explicit restart; no bound on failures | 1,542,816 |
| `PoolFleet` | is an exit in service once, the protected node left alone, no request sent into a quota (`UniqueExit`, `ProtectedUntouched`, `FreshLeaseOutsideQuota`) | managed primary and protected standby, 2 addresses, 1 attempt, 2 requests, at most 2 faults | 829,766 |
| `PoolRecovery` | does a managed node come back, do circuits reopen (`ManagedNodesReturn`, `CircuitsReopen`) | one managed node that must be verified, one address, quota and cooldowns of 1 tick, 2 attempts; no bound on failures and rate limits | 207,994 |
| `Readiness` | is readiness true, do exits that serve get used (`ReadinessTruthful`, `HealthyExitsGetUsed`) | 2 exits, one owned by the bridge, at least one wanted, bootstrap 2 ticks, heartbeat budget 3, a refused verification 2, one recovery at once, one fault | 1,760,071 |
| `Answers` | the retry loop and the messages (`ServedNodeNotPenalised`, `RateLimitKeepsEgress`, `ImplementsBoundedRequest`, `ImplementsMessage`, `ReplayUnseen`, `RecordMatchesMessage`, `EveryAnswerEnds`) | 2 nodes, models, keys and retries, hybrid and proxy mode with 1 poll; 1 search, 1 block per attempt | 240,316 |
| `Background` | history and containers (`BytesAccounted`, `RunningRowWillEnd`, `MissingInboundFlagged`, `TerminalStateKept`, `EveryCompletionRecorded`, `ProtectedKept`, `RotationRenews`, `ContainersReturn`) | a request and its recovery, queue of 2; one managed and one protected node, 2 jobs, one fault | 266,176 |
| `Admin` | keys and configuration files (`UncontestedApplyKept`, `KeysFitUpstream`, `DecisionsHold`, `QuotaCarriesOver`) | 2 operators, settings and providers, 3 secrets, 2 edits, 2 faults (1 around a request), documents that name all parts of a provider or none, one request, quota and concurrency of 1, one midnight | 683,540 |
| `Lifecycle` | starting and stopping (`SignalsVerified`, `SuccessfulExitLosesNothing`, `TrackingTruthful`) | 2 invocations, 2 process numbers, 2 starts, 2 faults | 1,182,815 |
| `Services` | endpoint, update, conversation, text, settings, models, search (`AdmissionDecides`, `TicketsSpentByEchoes`, `BinarySurvives`, `FailedUpdateRestores`, `RequestFaithful`, `TextFaithful`, `AppliedAsMeant`, `ServedAsTold`, `SearchAccounted`) | 2 requests, 2 tickets, store and places of 1; 2 updates; 6 messages, fan-out of 2, one hook; 5 tokens; 2 changes and one word outside the file; 3 models to choose, 3 lists of fallbacks; 2 links, one result, a budget of 1, time-outs of 1 and 2 | 2,419,834 |
| `PoolQuota`, `HistoryRecovery`, `LifecycleStop` | claims of documents and comments that the code does not keep; see section 7 | as above | — |

Why these bounds are enough for what they ask:

* One node suffices for `Coherence`: no operation on a node reads another node's fields
  except the duplicate mark, which the property does not mention. One tick separates
  "pending" from "expired", the only thing tests on deadlines ask. Two attempts distinguish
  the first restart, the last one, and a spent budget.
* Two nodes and two addresses are the smallest fleet in which an address can be shared,
  move, and be quarantined on one node while the other takes it, and in which each of the
  four passes of a selection finds a node: a primary in turn, a standby, a reused primary,
  a probe. Two faults let a rate limit meet a lost identity or a failed restart.
* Recovery: with one node under a quota every order of quota, failure, restart and refresh
  arises, the last two attempts among them; nodes return independently of one another.
* Readiness: with two exits, one of the bridge's and one that is not, one can serve while the
  other does not, and a cycle can time out after the first; the budgets keep the order they
  have in the code (a cycle's time-out is longer than one verification, the heartbeat
  budget longer than a cycle and than the tries of a verification).
* Two keys, models and retries are the least for which each budget can refill the one
  below it. One search and one block per attempt give messages of several attempts, the
  place where indices, stop reasons and replays can go wrong.
* A queue of two can hold a Start with room for one more command, so that every order of
  queued and direct commands of two requests arises.
* Two operators, settings and providers are what it takes to overwrite one another or to
  mix keys; the third secret is the first one issued. In `Admin` and `Lifecycle` a
  constraint, `Apart`, leaves out interleavings of steps that touch nothing in common; around
  a request one fault shows what becomes of a runtime whose replacement fails.
* Six messages hold a fan-out that is asked for, answered in two portions and complete; five
  tokens hold a marker with prose before and after it, in a quotation or in code.
* The models to choose are one with and two without a large window, of Zen and of others; the
  fallbacks are none, none that is large, and both. A time-out of 2 is longer than the budget
  of 1, as the defaults have it, one of 1 is not.

Deadlock is not checked: requests end, invocations end, systems with nothing to do stop.
What must not stop is stated as liveness. Where operators, settings or process numbers are
interchangeable, symmetry is used; never in a run with liveness.

## 5. Fairness

* Pool: every worker loop is driven by its own interval and awaits only operations with
  a time-out, so the health monitor, identity monitor and the restart of each node take
  their enabled steps; time passes; requests end and drop their lease; Docker calls
  return. Clients and operators owe nothing. The liveness properties are conditional on
  `EventuallyCalm`: from some time on nothing fails, expires or is rate limited and no
  explicit restart begins. That condition is about the world, not the code.
* Readiness: reconciler, identity monitor and clock go on, and so does the restart worker:
  each is a loop, and time passes only when none of them can do anything. The health
  monitor brings back a node that the bridge owns, that has attempts left and no rate limit,
  as it does every `health_interval` (`Recovers`, for `Owned` nodes; with
  `require_verified_exit_ip`, the default). That requests succeed (`ServesAgain`) is never
  assumed. `HealthyExitsGetUsed` is conditional: Docker answers, enough exits serve that are
  owned and not barred from some time on, and those that hang do not use up the cycle.
* Retry loop and messages: the task is scheduled and each await ends. The wait for a route
  has a 30 s deadline, the HTTP client a total time-out of 600 s (`state.rs`), a send to the
  client 5 s (`transport.rs`), every back-off is capped. The upstream's lines end: a read
  of lines does not go on for ever. Cancellation and departure are not assumed.
* History: the writer thread runs, SQLite waits at most 5 s for a lock, and a completion
  that a task has begun to apply is applied. The writer's death and a restart of the
  process may happen or not.
* Containers: only the reconciler's loop is fair; any other job may stop half-way for ever.

Only weak fairness is used, and that the reading of an answer is left again and again.

## 6. What is proved

All theorems hold for every value of the constants within the named assumptions, which say
no more than the code does (at least one model, positive durations, routes that differ,
managed nodes are primaries, ...). Each proof module has one lemma per action, or per group
of actions with the same effect, and one theorem that combines them.

**Pool** (`NodeAssumption`, `PoolAssumption`). `EgressPoolProofs` shows first, for each operation on
a node, that it yields a *good* entry: typed, coherent, and a little more. Coherence alone is
not inductive, because the type invariant must bound `attempts` through `BeginRestart`,
which is given a number computed under an earlier lock; so `PoolInv` also bounds the local
`attempt` of each task. `PoolInv` is inductive, and from it follow

* `PoolInvariant`, `TypeCorrect`, `FieldsCohere`;
* `QuotaRespected`: any lease step is on a node without active quota. A normal route
  tests the deadline, a probe route tests only the cause; coherence closes the gap;
* `ExitsUnique`: every way of learning an address ends with suppression over all nodes and
  the order `Precedes` is total, so that of two holders one is marked; all other
  operations keep an address and its mark, or drop the address;
* `ProtectedNodesUntouched`: protected nodes stay out of the queue, the targets and the
  restart stages; the invariant adds that they carry no restart attempt and no drain.

**Retry loop** (`RetryAssumption`).

* `LoopTypeCorrect`: counters stay within their budgets.
* `ServedNodeReleased`: the invariant adds that a sent attempt on a penalised route was
  retained, which is what the clearing code asks.
* `RateLimitsKeepEgress`: a key rotation and a rate limit without a fallback model keep the
  route, in every mode.
* `LoopBounded`: the loop implements `BoundedRequest`. The budget is a weighed sum in which
  an advance of the model pays for refilled retries, and a retry for refilled keys; each
  `continue` strictly decreases it.

**History** (`HistoryAssumption`): any number of requests and recoveries, any queue capacity,
the writer dying and the process restarting anywhere. The invariant says where the commands
of a request can be at each stage of its capture; that a command waits at most once; that
the row of a request without its inbound payload says so while its Start still waits; and
that the row of an untroubled request is terminal once its capture is settled and no
Complete waits. From it `BytesStayAccounted`, `RunningRowsEnd`, `MissingInboundIsFlagged`
and the action property `TerminalStatesKept`.

**Supervisor** (`ProcessAssumption`, `NoMarkAssumption`): any number of invocations, servers
and reused numbers. `ChildInv` is the heart: the corpse of a child that its parent has not
collected keeps its number, so that an entry for it cannot come to mean another process.
`SignalInv` follows an invocation from its check to its signal: whoever has the number by then
is the process that was verified or one that was started later. That is as much as the code
guarantees: `SignalsAreVerified` (no signal goes to a process that was there when the check
was made, but for the one that was checked), `SuccessLosesNothing`; `TurnInv`, for the
behaviours in which invocations follow one another, gives `TrackingIsTruthful`. All
properties of the passing run `Lifecycle` are theorems; that a signal may reach a later
process is told in section 7.

**Endpoint** (`EndpointAssumption`): any number of requests, tickets and places. A ticket that
is not live never becomes live again, and a request that waits remembers what was decided
about it: `VerdictsHold` and `TicketsAreSpentOnce`.

**Containers** (`ContainersAssumption`). The invariant says which steps a job of each kind goes
through and that only managed ports are ever on the list of a job that removes:
`ProtectedAreKept`, `RotationsRenew`.

**Messages** (`StreamAssumption`): any number of searches, of lines per attempt and of events
under way. `AnswersProofs` shows that the streamed message implements
`AssistantMessage`. The difficulty is the channel: the task decides by what it believes the
message to be, the client is behind by the events in `ctx.out`. `Underway` says that these
events lead the client, one legal step after the other, from where it is to where the task
believes it to be (`Leads`, a run of the client along the events), at an index below the
tracker's next one; `Stages` says what is due at each stage (an attempt's deltas, the
reason and the stop, an error, nothing). Each action appends events that extend the run;
`Deliver` shortens it from the front. From the invariant: `MessagesTypeCorrect`,
`MessageImplemented`, `RecordsMatch` and the action property `ReplaysUnseen`.

**Keys and files** (`ConfigAssumption`, `ApiKeysAssumption`): any number of operators,
settings, providers, requests, edits and failures. `KeysInv` has three parts beside the
shapes of files and commands. `KeptInv`: as long as no write was blind, what was
acknowledged, or written and about to be, is in the file, and is still there if the last
write is taken back. Without the second half the invariant is not inductive, because a
roll-back puts back what its operator read. `FitInv` says the same of the keys and the upstream: they fit
except while a switch is between its two writes, and if the last write is taken back they
fit unless another switch is under way - as long as nothing was written blindly and upstream
and keys were never `parted`. A document that names a provider's URL, key and pool together
keeps them fitting, and one that names none of them does not matter; `Parting` is the rest. `QuotaInv`: what was admitted with a key today is
what its runtime counted, and `strayed`. From it `UncontestedAppliesKept`,
`KeysBelongToUpstream`, `QuotasCarryOver`.
`DecisionsInv` is about the registry: in memory, on disk, and as each operator has staged
it, it is `Sound` (one entry per credential and per id; ids and credentials were issued) and
`Settled` (its entries say what was answered, and a credential without entry is out and
will not come back). For the last a set L, of the credentials that were issued as legacy
tokens, is part of the invariant: only those can be in the configuration file, so that a
credential outside L needs no entry, and one of L that is out is in `suppressed`
already; a key that has the id of a legacy token without being it must suppress that id too.
What the next start makes of the two files is `Import`, whose
`Picked` is a recursive function: `PickedFrom` proves what it picks by induction. The
library's induction theorems take an operator; `Induction` says the same of a set, with the
least element as the argument, and `Recursion` that a function defined from its
predecessor obeys its definition. Hence `CredentialsInvariant` and `DecisionsStand`.

**Self-update** (`UpdateAssumption`: finitely many updates, each with a candidate of its own,
different from the shipped binary): any number of updates that overlap, fail and are killed.
`UpdatesInv` says what each name of the directory holds (`Candidates`, `InUse`), that the
name an update keeps the previous binary under is its own (`Apart`), and what an update
finds that nothing disturbs (`Undisturbed`). That a binary is left is a count
(`Enough`): the names that hold a working binary, or are about to, are at least one more
than the updates that may still take one away, so that not all can do so in vain.
`ABinarySurvives`, and the action property `AFailedUpdateRestores`.

**Models and search** (`SearchAssumption`): for models, the names and lists of `MCServices`,
but any number of switches, restarts, setups and requests. `ToldInv` says that a client is
told the model of a configuration, or its alias, or the default of its upstream; a request
is judged when its models are chosen and its client is told nothing before it ends, so
`ClientsAreServedAsTold` needs no history of what was switched since. For the search any
lengths, pages, budget and time-outs. `SearchInv` is about the order of the providers: those
before the one that is asked were asked in vain (`InVain`), those after it were not asked
(`InOrder`, `LastAsked`), and the last error is that of the last one that is done
(`ItsProblem`): `SearchesAreAccounted`.

**Settings.** Any number of changes by the dashboard and by hand, of broken and of newer files;
what flags and environment say, and what is written, is of the kinds `Startup` lists
(`FlagValues`, `EnvValues`, `FileValues`), with one flag and one variable at most but any
number of settings in the file. `SettingsInv` is small, because little depends on how the file came to be:
the argument is about two documents, the one that was read and the merged one.
`HeededWhole`: a document that the dashboard accepts is heeded by the loader as a whole, so
both judge the same text. `ShownAlike`: what is shown of a setting depends on that setting
and on its `Related` ones. `InEffect` and `RefusedUnforeseen` go through the settings, and
through the reasons for a refusal, one by one; where the rules differ, `Shadowed`, `Idle`
and `Unforeseen` say how. Together `SettingsApplyAsMeant`.

**Texts** (no assumption): texts of any length and any cuts. `TextInv` says, of a text whose
call has not run, in which of four ways what is shown and what is kept back make it up: both
together are the text (`InStep`); an announcement is dropped, its marker and all behind it
kept back (`Dropped`); a claim is suppressed and its marker is still kept back (`Suppressed`),
or no longer, because it did not run (`Passing`). What the code decides,
it decides on what is kept back and on a markdown state advanced chunk by chunk, but the
properties speak of the whole text. Both agree because advancing over one part and then the
other is advancing over the whole unless the cut is within a run of backticks
(`AdvanceOfParts`, with the least counterexample in `Induction` and the same `Recursion`
as for the keys); so a marker found in what is kept back is the marker of the text, as far
behind as what is shown is long (`MarkerMoves`, `MarkerKept`). `torn` is the exception that
`CallsInContext` names. A suppressed claim is no longer part of what the markdown advanced
over, but then its marker is the first thing that is kept back, and with nothing left to
decide (`ClaimStays`). `CallInContext` says what has been shown once the call ran at each
later stage; `LeadInv` that a text which begins with a marker is kept back from its first
token on; `OnePieceInv` follows the stages of a text in one chunk beside what `sync.rs` makes
of it. `ClaimInv` says beside it that with tools in the request no claim is shown as long as a
call may still run. From both `TextInvariant` and `TextsAreFaithful`, for all six parts of the
property.

**Conversations** (`FanOutAssumption`): any number of messages, of hooks and of agents that are
wanted. The blocks of a type are a `FlattenSeq`, and so is what a conversation becomes, so
both are first shown to distribute over concatenation (`JoinedOfParts`, by an induction over
sequences that needs the function behind `FlattenSeq` to exist: `JoinedFrom`). What is sent
of a conversation with one message more is then what was sent before and what that message
becomes (`BodyOfMore`), and that every call is answered is a property of each part
(`AnsweredOfParts`) except while the model's calls wait. That is what `ConversationInv` adds
to `RequestFaithful`: all is answered but the calls of the last message, which are the
pending ones (`Owing`); the client's next message begins with just their results
(`UserSpeaks`). The same induction counts the agents: those called are at most those
wanted, and all of them once the model, its calls answered, gives the word back. Whether the
user asked is read off the text without the reminders in front; `WantsWhatItHolds` shows
that this finds the request in whichever message the client puts it. `ConversationInvariant`,
`RequestsAreFaithful`.

**Readiness** (`ReadinessAssumption`: among others, that a verification whose tries are all
refused takes no longer than the heartbeat budget): any number of exits, and any other
budgets. `ReadinessInv` says who has proved a route at each stage of the cycle (`Earned`),
that nothing but sleep takes time while no exit has hung and Docker never stalled
(`Prompt`), and that the last heartbeat of the restart worker is then no older than any of
the verifications it waits for (`InTime`): `ReadinessIsTruthful`. Exits are verified one
after the other, lowest first; that the one a stage takes is one of those it has left rests
on the well-foundedness of the naturals. `ReconcilerIsInTime` adds: if the heartbeat budget
covers `bootstrap_timeout`, the reconciler's heartbeat is never missed, hanging exits or not.
That holds for the defaults (90 s and 30 s), but nothing in `config/` checks it for other
values, which is why it is a hypothesis of that theorem and no assumption.

Each of these invariants was given to TLC on the instance of its run, the one of self-updates
with three updates too, before it was proved.

**Model-checked only.**

* Liveness (`ManagedNodesReturn`, `CircuitsReopen`, `HealthyExitsGetUsed`, `EveryAnswerEnds`,
  `EveryCompletionRecorded`, `ContainersReturn`): fairness and `ENABLED` are out of the
  prover's reach.

Every safety invariant and every action property that a passing run checks is stated by a theorem.

## 7. Where documents and code disagree

The first three are shown by runs whose expected result is a violation; `PROJECT.json`
quotes the lines. The next six are claims that the modules state as well; no run is kept
for them, and the instance in which TLC finds each violated is named. The others were met
while modelling; where a model decides about them, it follows the code.

* `PoolQuota`. "The cooldown expires naturally. Upon expiry, the proxy becomes eligible for
  selection again" (docs/health-status.md:142-144), but a managed node that the refresh of its
  identity meets under its quota becomes Recovering with a half-open circuit
  (`proxy_pool/identity.rs`:279-283, 397-398). When the quota ends, nothing takes it out of
  that state: the recovery of cooldowns looks at open circuits (`maintenance.rs`:262), probe
  routes refuse the cause, the health monitor skips it, a restart is discarded. Only an
  operator's restart, or a request that still leases it, does. `ManagedNodesReturn` says
  what holds nevertheless.
* `HistoryRecovery`. A completed recovery makes its parent `completed`/`recovered`, but not
  when its completion was applied directly before its own queued Start, and not if the
  parent's own completion is written after it.
* `LifecycleStop`. `server stop` promises that "nothing answered the probe", but with the PID
  file of a process that has ended it removes the file and reports success without probing.
* `ManualRestartOutOfRouting`. An explicit restart "removes the node from normal routing
  before Docker is touched", but the result of a health probe started earlier puts it back
  while its container is recreated. For the same reason a drain does not hold "until
  explicitly undrained or a successful managed recovery" (docs/proxy-pool.md:84): whatever
  marks a node healthy clears it, two successes of requests in flight included.
  (`PoolNode.cfg`.)
* `NoNodeStranded`. "Recovery is automatic", but a node that is not managed and is Degraded
  by a single transport failure is neither routed (not Healthy), probed by requests (circuit
  closed), probed by the health monitor (not managed) nor restarted. (`PoolQuota.cfg` with
  `Standby = {0}`, `Managed = Enabled = {}` and no quotas.)
* `DegradationStaysReady`. "Proxy degradation never turns into a 503 here" in hybrid mode
  (`handlers/metadata.rs`:73-76), but the workers of the pool are critical in every mode: an
  exit that hangs makes the identity monitor miss its heartbeat, a stalled Docker daemon the
  restart worker, and `/health/ready` answers 503 though requests are served.
  (`Readiness.cfg`.)
* `KeysAreProviderScoped`. Keys are said to belong to their provider, but the apply workflow
  accepts a document that names another upstream and no keys
  (`management/config_apply.rs`:48, 342-355) and merges it over those of the previous one.
  (`Admin.cfg` with `Namings = {{"provider"}}`.)
* `OnlyMeantProcessesSignalled`. Re-verifying before each batch of signals is said to close
  the window in which a reused number is signalled (`supervisor.rs`:394-396); it makes it
  smaller, because check and signal are two calls and the process is not pinned between
  them, as `terminate_verified` (`infrastructure/process.rs`:79-93) would do.
  (`LifecycleStop.cfg`.)
* `ExplainedMarkersInert`. Prose before a marker stops its call
  (`opencode/forward/fallback_intent.rs`:48-50), but prose that claims success is suppressed
  before that is asked, so that in a stream it is lost and the call runs, while a complete
  answer passes through. (As an invariant over the part `text` of `Services.cfg`.)
* Retry: "Provider 429/quota does not cause egress switching"
  (docs/superpowers/plans/2026-08-24-hybrid-egress.md:1206), but with a fallback model left
  the route is dropped and selected again. `RateLimitKeepsEgress` says exactly when it holds.
* Readiness: exits that hang for longer than `bootstrap_timeout` together make every cycle
  time out; during each periodic cycle the phase leaves Ready and hybrid requests go direct;
  the phase and the pool are read one after the other. `restart_interval` and
  `health_interval` are not bounded against the heartbeat budget (90 s, or three health
  intervals): with a restart interval above it the gateway is unready between two wakes of
  the restart worker. The model takes the defaults, 2 s and 10 s.
* Text: what of a streamed answer is shown and run may depend on where the chunks are cut
  (a preamble in a chunk of its own, a claim before a marker, a run of backticks cut in two); a leading newline stops
  a call in a stream and not in a complete answer; a marker without its bracket runs at the
  end of a stream (`fallback_intent.rs`:53-54 says otherwise) and is retried in a complete
  answer; text after it is dropped. `TextFaithful` says what holds nevertheless.
* Mapping: the count of a fan-out is the first one in all the user's text, and past calls
  count from the whole history, so a second fan-out is under-asked; `tool_choice` "none"
  becomes "auto"; "compact" or "summari" anywhere in the history makes every later request
  a compacting one; the limit of output tokens of a key may be raised by the floor of a
  reasoning stream.
* Endpoint: an echo whose ticket was spent, aged or pushed out while the request waited is
  forwarded as a tool result without its call, though `handlers/shell.rs`:210-214 exempts
  live ids only; `AdmissionDecides` says when. The OpenAI endpoint takes its place before it
  looks at policies. A permit is released when a client leaves, though the task that
  streams may linger.
* Configuration: the dashboard's list of known settings lacks some the loader knows (history,
  search budget, yahoo, bootstrap), so that a file with one of them makes every apply fail;
  it lets through what the loader refuses, ignores or overrules (an unknown mode, `proxies`
  beside `primary_proxies`, empty lists, keys over plain HTTP, a backoff against a default, a
  search address that is malformed or private, no tokens for a reasoning stream, a public
  host without secrets, proxy mode without a pool). A file that is mistyped,
  unsound or newer counts for nothing as a whole. `AppliedAsMeant` states the rest. A failed
  read after the write reports the roll-back without looking at its result.
* Keys: after an update or rotation the new runtime starts with a fresh semaphore, so the
  limit of concurrent requests counts from zero for those of the old one
  (docs/architecture/API_KEY_MANAGEMENT_V2.md:51). Revoking by position in the list also
  edits the configuration file by position, where the positions may differ.
* Processes: docs/deployment.md:90 asks managers to wait longer than
  `server_shutdown_timeout`, 30 s by default; the supervisor itself kills after 5 s.
* Update: two renames, not one, so "atomic" (docs/cli.md:181, docs/security.md:77) does not
  hold for a kill between them: no binary is left under its own name, though one that works
  is left beside it (`BinarySurvives`). Overlapping updates may both fail and leave the new
  binary. "Update succeeded but backup cleanup failed" is reported as an error. Only the
  command line's binary is replaced, while the server runs `opencode2api-serve` beside it.
* Containers: docs/proxy-pool.md says that standbys are never restarted; `bootstrap.rs`:100
  restarts those that are offline and the reconciler starts them. The dashboard's purge
  checks leases once for all its nodes and removes without reserving them; the command
  line's restart and purge know nothing of leases. A bulk stop ends at its first error.
* Models: "1M sessions only fall back to 1M models" (README.md:70, docs/configuration.md:61),
  but where only smaller fallbacks are configured all of them are used. README.md:68 and
  docs/configuration.md:59-62 present a large model as `claude-opus-5`; the code says
  `sonnet[1m]`. The settings the dashboard offers for Claude Code are made for the alias as
  if it were the model, so a client of a small model may be told of `claude-opus-5` and get
  the large one. The list of models a key allows is looked at for the first model, not for
  the fallbacks. `ServedAsTold` states what holds.
* Search: the budget of 25 s is said to be above the time-out of a single provider
  (`opencode/search/types.rs`:176-177, `config/types.rs`:422-424), but the default time-out is
  30 s: one provider that hangs uses up the search. DuckDuckGo's page is cut at the first
  "result__body" only (`search/providers/duckduckgo.rs`:41-66), so at most one result comes of the
  result blocks, however many are wanted.
* Messages: a marker in the text may still run after a candidate in the reasoning was
  rejected at the flush; a tool call followed by an intercepted search in one attempt may end
  the message with the stop reason `end_turn`.

## 8. Not modelled

* Contents: message texts, wording, redaction, HTTP, SQL indices, TLS, SOCKS. The models take
  every classification the code distinguishes as possible.
* Wall-clock durations beyond their order; statistics, metrics, audit log, rendering.
* Classification of responses, the prober of models, the wrappers written into shells, history
  redaction, command line, doctor and output: sequential, and either pure or presentation. The commands and dashboard handlers that change something are
  actions of the component they change.
* Attempts and events of a history record, and the read-only history queries.
* JSON repair and schema conversion of tool arguments; the metadata endpoints.
* A claim of success that is cut between two chunks (its halves are words in `EncodedText`),
  and the limit of 4096 bytes above which nothing counts as one.
* Identifiers of models with more parts than "opencode/" and a name.
* A user who asks for a fan-out and takes it back ("do not use subagents") in other words of
  the same conversation; such a user counts as one who did not ask. Reminders stand in front
  of a message's text, where the client puts them; one in the middle is not stripped by
  the code (`handlers/prompt.rs`:32-45), nor by `UserSaid`.
* Explicit restarts beyond the automatic attempts: the counter of a node saturates at
  `MaxAttempts`, above which the code decides alike.
* Expiry dates, permissions and the window of a minute of a key; the token lookup of Cline and
  the order of several `.env` files.
