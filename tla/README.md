# Stourio: a formal model

TLA+ modules that model the concurrent and failure-prone parts of Stourio, TLC
configurations that check them on small instances, and theorems that TLAPS checks for
every value of the constants: every safety property of a run that passes is one of them.
Stourio is one Python process (an
asyncio event loop behind FastAPI) that routes signals from Telegram, webhooks and cron
jobs to LLM agents, with Postgres and Redis beside it. The code is in `src/`; paths
below leave out that first directory, and `DOCUMENTATION.md` is the document at the root.

Everything in the process runs in one thread: between two `await`s nothing else
happens, at an `await` anything may. The modules therefore make one action of each
stretch of code between two awaits, and a step of another coroutine, an HTTP request, a
timer, an exception of a Redis or database call, a cancellation or the end of the
process may come between any two of them. Where a stretch has several awaits whose
intermediate states nobody else can see, they are one action.

## 1. Inventory

| Component | State | Operations | What is hard | What makes it correct |
|---|---|---|---|---|
| Signal queue (`persistence/redis_store.py`, `main.py`) | Redis stream with one consumer group, batch of the worker | add, read new, process, XACK, XDEL | exceptions and restarts between any two of them | deleted only when processed, nothing twice, a fault strands at most one batch |
| Orchestrator core (`orchestrator/core.py`) | none of its own: kill switch, rules, approvals, daemon, inbox, pool | `process` | the world changes at every await; approvals resolved twice; a halt in the middle | work is handed to an agent once, the answer tells its fate, a halt lets through at most the steps that had passed the check when it began |
| Inbox and daemon loop (`daemons/inbox.py`, `daemons/loop.py`, `mcp/tools/messaging.py`) | stream with trimming, pub/sub, batch | send, wake, dequeue, execute, acknowledge | lost notifications, trimming, two readers in one group, active hours | read in order and at most once, lost only by a fault or a full stream |
| Daemon manager (`daemons/manager.py`) | tasks and stop events by name | start, stop, restart, health check, shutdown | stops that race the end of a task, faults inside except clauses, a listener that has failed unnoticed | no task runs that the manager has forgotten |
| Agent pool (`orchestrator/concurrency.py`) | semaphore, counter of waiting callers | execute | cancellation of a caller that was just woken | permits are conserved, nobody overtakes |
| Agent runtime (`agents/runtime.py`) | lock key, heartbeat task, step | lock, beat, check, think, act, release | checks that are old when they are used | at most one tool after a halt, the lock outlives its heartbeats |
| Approvals (`guardrails/approvals.py`, `api/routes.py`) | row in Postgres, copy with TTL in Redis, polling owner | request, poll, resolve, expire | two administrators, the TTL against the polling, restarts | a tool runs only if approved; what is decided after its owner gave up was under way before |
| Tool gate (`mcp/registry.py`, `security/interceptor.py`, `agents/runtime.py`) | registry, connections | dispatch, intercept, wait, execute | exceptions that mean two things, servers that go while a human thinks | what needs a human has one |
| Code execution (`mcp/tools/execute_code.py`) | cached answer about Docker, processes, temporary files | run | timeouts, a daemon that comes and goes | every run is answered unless it was to wait for ever, a file that was written is removed |
| Security auditor (`security/auditor.py`, `mcp/tools/audit.py`, `main.py`) | audit log, alerts | read, analyse, save | window and limit of the reading | a burst is reported, a report has a cause |
| Scheduler (`scheduler/`) | rows of cron jobs | tick, run, mark; administration | jobs changed during a tick, failures in except clauses | a slot runs once, and once more per fault |
| MCP client pool (`mcp/client.py`, `api/routes.py`) | connections, tools, sessions | connect, disconnect | overlapping requests | a session has one owner |
| Rules engine (`rules/engine.py`) | table, cache | evaluate, add, remove, seed | overlapping reloads | a rule is in force once its creation is answered, unless the reload that wrote the cache was overtaken |
| Telegram polling (`main.py`, `telegram/`) | offset | poll, process | restarts, lost answers | no update is forgotten |
| API rate limiter (`api/rate_limit.py`) | counter per minute, fallback counter | dispatch | two Redis commands, failures | a counter lets its limit through |
| LLM adapter (`adapters/base.py`) | token bucket behind a lock | acquire | sleeping with the lock, cancellation | the rate is bounded |
| Browser tool (`mcp/tools/browser.py`, `browser/engine.py`) | cache of pages, timestamps | open, evict, clean up | overlapping calls | cached pages are open |
| Runbook index (`rag/ingestion.py`, `rag/reindex_worker.py`) | chunks in Postgres | a pass over the directory | edits during a pass, failures | what is indexed is one content the pass saw |
| Chunker (`rag/chunker.py`) | none | split | limit, overlap and large paragraphs | nothing is lost |
| Retriever (`rag/retriever.py`) | none | two searches, fusion, fetch | passes of the index between its statements | what both searches found comes first, and is missing only if it was removed |
| Lifespan (`main.py`) | stages that are up, background tasks | start up, cancel, await, close | a stage that raises, a task that swallows its cancellation | nothing runs before what it uses is up or after it was closed |
| Tool catalogue (`mcp/legacy/loader.py`, `mcp/registry.py`, `mcp/tools/__init__.py`) | registry by name | load, register | bad files, classes without a name or description, names that come twice | a name serves what was registered last, and the start-up is refused only for a tool that is not complete |
| Telegram webhook (`telegram/webhook.py`, `client.py`, `media.py`, `formatter.py`) | none: Telegram keeps what was not answered | receive, route, reply in chunks | deliveries repeated while the first goes on, refused chunks, crashes | an update is forgotten only when dealt with, no part of a reply is silently missing |
| Delegation (`mcp/tools/delegate.py`, `messaging.py`) | depth in a context variable | delegate, return | failures between setting and resetting, agents changed meanwhile | the depth is the depth of the nesting |
| Agent registry (`agents/registry.py`, `api/routes.py`) | agents table | create, update, delete | requests that read before others commit | the system agent stays, an update changes what it names |
| Outbound calls (`mcp/legacy/yaml_tool.py`, `automation/workflows.py`, `notifications/`) | audit entries | one request | a service that acts although the request raises | acted once at most, "ok" means that it acted; an exception says nothing |
| Notices to users (`mcp/tools/notification.py`, `tts.py`, `mcp/registry.py`, `scheduler/worker.py`) | none | a loop of sends | one send that raises | called sent when everybody has it, and nothing waits for it |
| Code review chain (`agents/chains.py`) | none | write, review, repeat | verdicts that are no JSON | approved only after a review |

The components meet as follows. A signal enters by the signal queue, Telegram or the API
and is routed by the orchestrator core, which looks at the kill switch and the rules,
asks the LLM through the adapter (token bucket), and ends in an answer, an approval, a
message in the inbox of a daemon, or a call of the pool. The pool calls the runtime; the
runtime calls tools through the gate, which may create an approval and wait for it, and
then runs a local tool (browser, code execution, messaging, delegation) or one of an MCP
server. The scheduler and the daemon loop call the pool and the runtime as well.
Administration routes change rules, agents, daemons, jobs and MCP servers while all of
this is under way.

### Not modelled

`components` in `PROJECT.json` names every part and its status. Left out are:

- conversations (`persistence/conversations.py`): `save_message` has no caller, so the
  history that `runtime.py:195` loads is always empty and there is nothing to compact,
  although `DOCUMENTATION.md:265` describes it; a model would only speak of states the
  program does not reach;
- the escalation worker (`main.py:203`): it reads keys that nobody writes;
- session workspaces (`sandbox/session.py`): `ensure_workspace` has no caller, so the
  clean-ups find nothing;
- cost tracking and telemetry: records that are appended and that no decision reads;
- token encryption: a library call;
- the admin panel: a client of the API;
- the loss of a whole stream: `docker-compose.yml:25` runs Redis with `allkeys-lru`, so at
  its memory limit Redis may drop any key. The approval's copy, the lock and the kill switch
  may go in the models (`Approvals`, `AgentRuntime`); the streams of the signals and of the inboxes stay;
- the reranker of `Retriever.search` (`rag/retriever.py:98`), which its only caller
  (`main.py:300`) does not pass;
- of the routes, those that only read; of the LLM adapter, the request itself, which in
  the modules is a step that answers, fails or raises; of the browser, what an action does
  on a page; schemas and migrations, which are types;
- in `tools/python/knowledge_search.py`, `_retriever` is never set, so that an agent's
  recall of memories (`runtime.py:219`) is skipped; the `search_knowledge` tool has a
  retriever of its own, and that is the one `Retriever` models.

## 2. Modules and the code they stand for

`map` in `PROJECT.json` names the lines of every definition. Names of the code are kept
where TLA+ allows it. Variables marked *history* in a module are observations for the
properties; no guard reads them, but for those that only bound the number of steps.

| Module | Code | State and actions |
|---|---|---|
| `AtMostOnceQueue` | none: the abstract specification of a stream read with `>` | items are `Put`, `Take`n in order, then `Finish`ed or `Lose`d; with `Lossy` they may be lost untaken |
| `RedisStream` | none: what XREADGROUP may return, as `redis_store.py` and `inbox.py` use it | `Oldest`, an operator of the two modules below |
| `SignalQueue` | `redis_store.py`, `signal_consumer_worker` | stream, last-delivered-id and pending list of the group; `Worker` reads, processes, acknowledges, deletes; `WorkerFails` at every await, `Restart` |
| `DaemonInbox` | `inbox.py`, `loop.py`, `messaging.py` | the same for a trimmed stream with wake-ups and a second reader; `Loop` is the daemon, `ToolReads` the tool |
| `DaemonManager` | `manager.py`, daemon routes | state of each task, its stop event and its entry in the dictionary; the listener handles one event at a time, and may fail between two; agents are created, changed and deleted meanwhile |
| `Orchestrator` | `core.py`, approval route | where each signal is, what the caller is told, and how often its work was handed on; an execution looks at the kill switch (`Look`) and then makes the step (`Step`, `Fails`, `Ends`), for `process()` itself and for each approving POST; `Crash` ends everything in the process and leaves Redis and Postgres |
| `AgentPool` | `concurrency.py`, `delegate.py` | the semaphore with its deque of futures, as Python 3.12 implements it; a caller in `Hanging` may never leave it |
| `AgentRuntime` | `runtime.py`, `redis_store.py` | lock keys with time to live, heartbeats, the kill switch; time passes in `Tick` |
| `Approvals` | `approvals.py`, registry, routes | row, copy, owner and requests; time passes in `Tick` |
| `ToolGate` | `runtime.py`, `registry.py`, `interceptor.py` | a call from dispatch to answer, for an agent and for a client of the MCP server, whose connection may end in the middle |
| `CodeSandbox` | `execute_code.py` | a run, its process and its file, which may be left half written, and the time-out the LLM names, if any; the Docker daemon `Flip`s |
| `SecurityAuditor` | `auditor.py`, `audit.py`, `main.py` | log entries with their instants, audits at intervals |
| `Scheduler` | `worker.py`, `store.py`, job routes | rows with the slot they wait for; a tick with its list of due jobs |
| `McpClientPool` | `client.py`, server routes | the two dictionaries, the table and the open sessions of one name |
| `RulesEngine` | `engine.py`, rule routes | table, cache, tasks that overlap, each with the rows it has read; a removal finds its row and deletes it in two statements; the physical place of a row decides its rank |
| `TelegramPolling` | `main.py`, `telegram/client.py` | offset of the worker against what the server has confirmed |
| `TokenBucket` | `adapters/base.py` | tokens in units of time, one holder of the lock |
| `RateLimiter` | `rate_limit.py` | counters of windows with expiry, fallback counters |
| `BrowserSessions` | `browser.py`, `engine.py` | cache, timestamps and open pages |
| `RunbookIndex` | `ingestion.py`, `reindex_worker.py` | disk, committed chunks and the draft of the transaction |
| `Chunker` | `chunker.py` | paragraphs by length, chunks as intervals of paragraphs, one step per turn of the loop |
| `Retriever` | `retriever.py` | the two rankings and the fused one; `IndexCommits` is a commit of the index between two statements |
| `Lifespan` | `lifespan()` of `main.py` | stages that are up, and what each task uses; the shutdown awaits one task after the other |
| `ToolCatalog` | `loader.py`, `registry.py`, `mcp/tools/__init__.py` | files as read, each unusable, lacking an attribute or whole, the registry by name; a tool class counts as a file |
| `TelegramUpdate` | `webhook.py`, `media.py`, `client.py` | deliveries of an update, each with its chunks; Telegram gives up waiting and delivers again |
| `TextSplit` | `TelegramClient._split_text` | which positions are newlines; chunks as intervals of positions |
| `Delegation` | `delegate.py`, `messaging.py` | for each task the stack of agents at work and the context variable |
| `AgentRegistry` | `registry.py`, agent routes | rows, and the row each request has loaded; a commit whose audit entry fails is answered 500 and stays |
| `OutboundCalls` | `yaml_tool.py`, `workflows.py`, `dispatcher.py` | a request, whether the other side has acted, what is answered, or that an exception `Escapes` before anything was sent |
| `Notices` | `notification.py`, `tts.py`, `registry.py`, `scheduler/worker.py` | the loop over the users |
| `ReviewChain` | `chains.py` | rounds, reviews and the feedback told to the writer |
| `ApprovalsProofs`, `OrchestratorProofs` | | theorems about one component each |
| `DeliveryProofs`, `DaemonsProofs`, `ExecutionProofs`, `WorkersProofs`, `SharedProofs`, `ServingProofs` | | theorems about the components that `MCDelivery`, `MCDaemons`, ... join, and about their composition |
| `MCApprovals` | | `Approvals` in two situations |
| `MCExecution` | | `AgentPool`, `AgentRuntime`, `ToolGate`, `CodeSandbox` |
| `MCShared` | | `TokenBucket`, `McpClientPool`, `RulesEngine`, `BrowserSessions`, `RateLimiter` |
| `MCDelivery` | `signal_consumer_worker` | composes `SignalQueue` and `Orchestrator`: the worker awaits `process()` for one signal at a time, an exception of it leaves the worker's loop, and a crash takes both |
| `MCDaemons` | `manager.py`, `loop.py` | `DaemonInbox`, `DaemonManager`, and the two composed: the task of the manager is the loop that serves the inbox |
| `MCServing` | | `Lifespan`, `ToolCatalog`, `TelegramUpdate`, `TextSplit`, `Delegation`, `AgentRegistry`, `OutboundCalls`, `Notices`, `Retriever`, `ReviewChain` |
| `MCWorkers` | | `Scheduler`, `TelegramPolling`, `SecurityAuditor`, `RunbookIndex`, `Chunker` |

What one module leaves open another one fills in. Two compositions say so formally. In
`MCDelivery` the one step that is the processing of a signal in `SignalQueue` is all the
steps of `Orchestrator`: the return of `process()` is the worker's `ProcessReturns` and its
exception the worker's `WorkerFails`, and administrators, approvals and the daemon act in
between. In `MCDaemons` the cancellation of a task by the manager is what ends the loop
in the middle of a cycle, and the end of the loop is what the manager waits for. For the
rest, an approval of `ToolGate` or `Orchestrator` is decided at any moment, and `Approvals`
says at which; the daemon of `Orchestrator` is three states of `DaemonManager`.
`SignalQueue` and `DaemonInbox` are shown to implement
`AtMostOnceQueue` (`ImplementsPromise`), with a refinement mapping that reads the fate of
an item off the stream, the pending list and the batch.

Data is abstracted to what the properties tell apart. Rules and the LLM decide freely; a
pattern matches or does not; the content of a message is its number; arguments of a tool
look sensitive or do not; a paragraph is its length. The operators whose comments begin
with `Mutant` are not part of the model: each is a plausible mistake in the definition
below it, and putting it in that definition's place makes the property named in
`PROJECT.json` fail.

## 3. Runs

Twelve runs, one for each question: two about one component each, two about compositions,
six about groups of smaller ones, and two that show that the code does not do what it
says. In a group, and beside a composition, a variable `scope`, chosen in the initial
state, says which component takes the steps while the others rest, so a run covers the sum
of their state spaces: the components of a group share no state, and their product would
show nothing more. Each property of a group is guarded by, or can only be disturbed in, the
scope it is about.

Each run checks a few properties, and each property of a component that has several parts
is a conjunction of named parts, stated and explained one by one in the component's module:

| Run | Properties and their parts |
|---|---|
| `MCApprovals` | `IInv` (with `TypeOK`, `CopyOutlivedByWait`, `GivesUpAfterCopy`), `ToolRunsOnlyIfApproved`, `LateAnswersWereUnderWay`, `RunsBounded` (`RunsBoundedByRequests`, `RunsCounted`), `NoVerdictAfterLapse`, `WaitEnds` (`WaiterReturns`, `AnswerReachesWaiter`) |
| `MCDelivery` | `Consistent` (`TypeOK`, `DeletedOnlyIfProcessed`, `PendingIsHeld`, `StrandedBounded`, `HeldInOrder`, `PendingUntilProcessed`, `OnceAndInOrder`), `ImplementsPromise`, `DeliveryAccounted` (`Linked`, with `IInv` of the orchestrator, `HandedOnce`, `AnswerTellsFate`, `HaltBoundsWork`), `SignalsMoveOn` (`LaterSignalsDelivered`, `EverySignalHandled`) |
| `Orchestrator` | `IInv` (with `TypeOK`, `Accounted`, `HaltAccounted`), `HandedOnce`, `AnswerTellsFate`, `HaltBoundsWork`, `EverySignalAnswered` |
| `MCDaemons` | `InboxAccounted` (`TypeOK`, `RemovedOnlyIfSeenOrFull`, `NeverHeldTwice`, `HeldInCycle`; of the two together `LoopHasTask`), `ImplementsPromise`, `TasksAccounted` (`NoForgottenTask`, `ForgetsOnlyEndedTasks`, `EntriesAlive`, `StoppedNeverRuns`, `DeadIsListed`, `HandledIsListed`), `LostByForceOnly`, `DaemonsProgress` (`MailIsRead`, `ListenerReturns`) |
| `MCExecution_safety` | `PermitsAccounted` (`PermitsConserved`, `NoIdlePermit`, `LineIsWaiting`, `QueuedNeverOvercounts`, `FirstComeFirstServed`), `LockAccounted` (`AtMostOneToolAfterHalt`, `ToolAfterHaltIsLast`, `LockHeldWhileWorking`, `BeatBeforeExpiry`, `NothingLeftBehind`), `EffectsAccounted` (`EffectsAreApproved`, `AnswerTellsEffect`, `RaisedBeforeEffect`, `UnderWay`, `EndsOnce`; of the sandbox `WrittenIsRemoved`, `OnePlace`, `PlaceIsKnown`) |
| `MCExecution_live` | `WorkEnds` (`WaiterRuns`, `Terminates`, `AbandonedLockExpires`, `EveryRunAnswered`) |
| `MCShared` | `IInv` and `AtMostDoubleRate` of the bucket, `ResourcesAccounted` (`OneOwner`, `HeldAreOpen`, `StepsWhenSerial` and `InStepWhenSerial` of the sessions; `CachedPagesAreOpen`, `ClosedAreUncached`, `StepsWhenSerial` and `TidyWhenSerial` of the pages), `RulesInForce` (`ChangesInHand`, `RowsAreRead`, `AcceptedAreLive`, `EnforcedOnceAccepted`, `GoneOnceDropped`, `NobodyOvertaken`), `CountersKept` (`KeysOutliveWindows`, `CountersUnbroken`, `WindowIsNotReset`, `PassedInLife`, `RescuedAreCounted`, `PassedBounded`) |
| `MCWorkers_safety` | `SlotsAccounted` (`HeldIsNamed`, `HeldIsDue`, `RunsAreMarked`, `OncePerSlot`, `MovesPastRunSlot`), `UpdatesAccounted` (`BatchIsRun`, `NothingSkipped`, `OffsetFollows`, `ForgottenOnlyIfFinished`, `RepeatsBoundedByRestarts`, `FirstTriesInOrder`), `ReportsAccounted` (`WakesInTime`, `ReportedOrDue`, `ReportedWithinTheHour`, `ReportsHaveCause`, `BurstReported`), `IndexFaithful` (`WholeContents`, `DraftIsCurrent`, `CommitsWhatItSaw`; of the chunker `NothingLost`, `OverlapFilled`, `ChunksFilled`) |
| `MCWorkers_live` | `WorkersProgress` (`DueJobHandled`, `EveryUpdateFinished`, `IndexCatchesUp`) |
| `MCServing` | `StartupOrdered` (`AliveIsServed`, `ClosedAfterUse`, `CatalogComplete`), `UsersAnswered` (`ForgottenWhenDone`, `SilenceExplained`, `FitsMessage`, `OnlyNewlinesLost`, `CutsLongLinesOnly`), `DepthIsNesting` (with `IInv` of `Delegation`), `AgentsKept` (`SystemStays`, `OnlyNamedFields`), `AnswersFounded` (`CallsAccounted`, `SentMeansAll`, `FusionFair`, `MissingOnlyIfGone`, `ApprovalHasReview`), `ServingProgress` (`ShutdownEnds`, `EveryUpdateAnswered`, `StartsOrRefused`, `NeverStuck`, `ChainEnds`) |

The type invariant of a component is a part of the first property that speaks about it.

### What holds

- `MCApprovals`: an intercepted tool call with two administrators who answer at once, and
  one administrator with a tool call and a routing decision; TTL 3, polling every 2. A
  tool runs only if an administrator's approval of that very call was committed; its
  owner gives up only after the copy has lapsed (`GivesUpAfterCopy`), which rests on the
  copy living no longer than the wait (`CopyOutlivedByWait`). That does not mean that
  nobody can answer any more: a request that has read the copy may commit its verdict after
  the lapse and after the owner has gone. `LateAnswersWereUnderWay` says that it is only
  such a request, and `NoVerdictAfterLapse` that one that begins after the lapse is turned
  away; the wait always returns. A TTL that is no multiple of the polling
  interval is the interesting case, and 3 and 2 the smallest.
- `MCDelivery`. `queue`: four signals in batches of two and two faults; three batches, two
  of which can fail, and one that is not full. `delivery`: two signals in one batch or in
  two, from the webhook through the orchestrator, with one exception or restart anywhere, a
  halt and a POST that approves. No signal reaches `process()` a
  second time, so its work is handed on once although the queue redelivers nothing and the
  approval route works beside it; one that left the stream was answered without an
  exception; and the worker goes on behind a signal that waits for the LLM, the daemon or an
  agent, as long as executions end (section *Fairness*). An execution has up to two steps, so a
  halt can begin between them, but the daemon does not change here: the run `Orchestrator`
  has that. Two signals are what it takes to have one in hand and one behind it.
- `MCDaemons`. `inbox`: three messages in a stream of two, so that trimming hits
  delivered, pending and new entries; two faults, so that a notification can be lost and the
  loop die in the same behaviour. `manager`: two daemons, two control events or changes
  of agents and two failures: a stop or restart of one while the other crashes. `together`:
  one daemon with two messages, one event and one failure; `LostByForceOnly` says that a
  graceful stop or restart costs no mail, which rests on the loop looking at its stop event
  between cycles only (`loop.py:143`): mail that was taken is lost by a failure or
  by the cancellation after sixty seconds or at shutdown, mail that waits by trimming only.
- `Orchestrator`: two signals, two approving POSTs for one of them or one for each, an
  execution of up to two steps, one halt and its end, one change of the daemon, one raising call or
  end of the process. Signals interact only through the daemon and the kill switch, so two
  show every interaction; the proofs cover any number. The kill switch is read before each
  step and the step comes after further awaits, so a halt does not stop everything:
  `HaltBoundsWork` says that it lets through at most one step of each execution that had
  passed the check when it began, of the signal and of each POST, and that an execution
  between two steps, one that waits for the pool and one approved in the halt make none. The
  answer that carries an `execution_id` tells that the execution is over and not how it
  ended: a forced one is answered "ok" also when it was halted before its first step
  (`core.py:201`), and a routed one "halted" also when tools have run (`core.py:345`).
  `AnswerTellsFate` says what remains true of each answer.
- `MCExecution_safety`, `_live`: the way of work through an agent. `pool`: four callers for
  two permits, so that two wait, one of them woken; cancellations and failed inserts.
  `runtime`: two executions of two steps, a lock of three ticks and a beat that may be
  late by one; for liveness one execution with a longer lock and evictions of both keys, whose tools may
  never answer, and a caller of the pool that may hold its permit for ever.
  `gate`: two calls of every class of tool, by an agent or a client of the MCP server, two changes of the connections;
  `AnswerTellsEffect` says that a blocked call has not run even if the human agrees later.
  `sandbox`: two runs, with a time-out or without, three changes of the Docker daemon; a
  file that could not be written whole is the one that stays (`WrittenIsRemoved`).
- `MCShared`: state that overlapping requests share. `pool` (of MCP clients),
  `browser` and their variants `alone`: with requests one after the other everything is in
  step; of overlapping requests only what the names say holds (one owner of a session,
  cached pages are open). `rules`: two writers at work at a time, each adding or removing
  and then reloading, one failure, restarts, and three rules: two of the seeding, which two
  requests can remove at once, and one that is added meanwhile. The cache keeps what was accepted and has lost what was removed, except for what
  changed between the reading of the table and the installing of those rows: the history
  variables `overtaken` and `missed` say exactly for which rules, and without an overlap it is
  none (`NobodyOvertaken`). `bucket`: 14 units of time and a call that costs three, observed
  from every instant. `limiter`: four requests over two windows, two failures or restarts
  of Redis.
- `MCWorkers_safety`, `_live`: the background tasks. `cron`: two jobs, slots two instants
  apart, jobs deleted, created anew under the same name and switched during a tick; for
  liveness one of them raises in every tick. `polling`: four updates in answers of two, one
  of which raises. `auditor`: the interval is one tick, the hour three, more than two
  entries are a burst and three are read at most, so a burst can fill the limit, straddle
  an audit and be missed by a failed one. `index`: two files, three edits, one failure; two
  files are what it takes to fail half way. `chunker`: every section of up to six
  paragraphs of 3, 4, 9, 14 or 24 characters (0, 1, 2, 3 or 6 tokens) with a limit of 5 and
  an overlap of 2: paragraphs of no token, paragraphs that just fit the overlap, and
  paragraphs larger than the limit.

- `MCServing`: what serves the process. `lifespan`: every set of features that can be
  switched off, two awaits that raise. `catalog`: three files or tool classes, whole, unusable
  or lacking an attribute, with names that
  come twice, that a built-in tool has or that are refused. `webhook`: one update with a
  reply of two chunks and three faults, enough for a delivery that is given up, one chunk
  refused and a crash; updates share nothing, so one is enough. `split`: every
  text of up to nine characters with a limit of three, by its newlines. `nesting`: one task
  with two calls from outside, one after the other, so that the second finds what the first
  left behind, depth three, and one change of an agent. `registry`: three requests on
  two agents with two columns of two values; three are two updates and a deletion, or two
  creations and an update; they are alike, and symmetry is used, which the liveness of the
  run does not notice: outside `registry` no request does anything. `calls`: two requests and two faults. `notices`: three users, any
  of whom may have blocked the bot, two faults, two calls of the tool. `search`: four
  chunks, rankings of three, an answer of two, and a pass of the index between two
  statements; with four a chunk can be found by both searches, by one, by none or be removed.
  `chain`: three rounds with every kind of review, the number of the code.

Bounds are constants introduced with the word *bound* in the comment of their declaration;
they only end the run. Runs of systems that may stop (bounded senders, workers whose clock
has ended, components that rest) switch the deadlock check off.

### What the repository says and the code does not do

Two runs show a behaviour that breaks a sentence of the repository; `findings` in
`PROJECT.json` quotes it.

- `SignalQueue_loss`: a signal whose processing raised, and the rest of its batch, are
  never read again, although `main.py:156` acknowledges late "to prevent signal loss".
- `Orchestrator_letters`: a daemon that is stopping still counts as running, and a message
  reaches an inbox nobody reads, although `core.py:330` promises "no dead letters".

The modules keep, in their last section, further statements of the repository that the
code does not keep. They are quoted there, no run checks them, and each is refuted by TLC
when it is named in a configuration of its module:

| Module | Statement | The code |
|---|---|---|
| `Approvals` | `ResolvesPendingOnly` | a resolved approval is resolved again by a concurrent request |
| | `NeverGivesUpOnApproved` | an approval accepted during the last sleep has no effect |
| | `StartsRequestedAgent` | the agent started after an approval is the default one |
| | `PendingLapses` | nothing expires an approval nobody answers |
| `SignalQueue` | `AckedOnlyIfSuccessful` | rejected and failed signals are acknowledged like processed ones |
| `DaemonInbox` | `NothingIsLost` | messages delivered before a fault are never read again |
| `Orchestrator` | `DeliveredIsInInbox` | a message that is too long is reported as delivered |
| `Lifespan` | `DaemonsStopped` | a task whose way out raised has swallowed its cancellation, and the shutdown awaits it before it stops the daemons |
| `TelegramUpdate` | `RoutedOnce` | the 200 comes after the processing, so a slow message is delivered and routed again |
| `TextSplit` | `NoEmptyChunk` | a text that begins with a newline and a long line gives an empty message, which Telegram refuses |
| `Delegation` | `WithinMaxConcurrent` | delegated executions of one agent do not pass its semaphore |
| `ToolCatalog` | `BadFileSkipped` | a file whose tool has a name the registry refuses, or a class without a description, ends the start-up |
| `Notices` | `BlockedHarmsNobody` | a user who blocked the bot keeps the notice from those behind |
| `ReviewChain` | `ApprovedByReviewer`, `RejectionIsFedBack` | "not approved" in a plain text approves; a rejection with a null feedback raises |
| `AgentPool` | `ExecutionsLimited` | delegated executions do not pass the pool |
| `AgentRuntime` | `NoToolAfterHalt`, `ToolsStartUnderLock` | the kill switch and the fencing token are read before the LLM call and not before the tool |
| | `HaltSticks` | the kill switch is a key that Redis may evict |
| `DaemonManager` | `CrashedIsRestarted`, `StopStopsAll` | an exception inside an except clause, or out of an ended task or listener, ends the health check or the shutdown |
| `Scheduler` | `StartsOnlyEnabled`, `RunsOnSchedule` | jobs disabled during a tick still start; jobs that raise run in every tick |
| `McpClientPool` | `NoSessionLeaks`, `ConnectedHasTools`, `RemovedIsDisconnected` | overlapping requests leak a session, drop its tools, or leave a removed server connected |
| `RulesEngine` | `CacheRefreshed`, `OldestRuleWins`, `ForcesConfiguredAgent` | an older reload is installed last; rows have no order; the forced agent is not stored |
| `TokenBucket` | `RateKept` | the waiting time is earned twice |
| `BrowserSessions` | `AtMostMaxSessions`, `SessionsAreDated`, `PagesPersist` | the limit is passed; a timestamp is lost; a session in use is evicted |
| `RateLimiter` | `MaxPerMinute`, `FallbackKeepsLimit` | two windows meet; the fallback has one limit for all paths |
| `SecurityAuditor` | `CountedPerAgentAndInterval`, `RepeatedFailuresReported` | agents and intervals are added up; errors behind the newest entries are not read |
| `ToolGate` | `NotFoundRanNothing`, `OnlySuspectsAsk` | a tool's own ValueError is taken for a missing tool; external tools always ask |
| `CodeSandbox` | `NothingRunsAfterAnswer`, `NoFileLeft`, `FallsBack`, `HostOnlyWithoutDocker` | a timeout does not end the process; a file whose writing fails stays; the first answer about Docker is kept |
| `RunbookIndex` | `ReadableFileStored` | one unreadable file keeps all others out |

Differences of wording that need no run: the documented thresholds of the auditor are 30
and 10 (`DOCUMENTATION.md:577`), the code has 100 and 20; the documentation has approval
buttons in Telegram, the message of the registry sends the reader to the admin panel. The
maximal depth of delegation is documented as 4 (`DOCUMENTATION.md:899`), the code has 3.
The recall of memories and their storing (`DOCUMENTATION.md:195`, `201`, `669`) look at a
`_retriever` that nobody sets. What is for a daemon that is running goes to its inbox (`DOCUMENTATION.md:642`); approved
work is executed by the approving POST beside it. The result of a daemon's cycle is to be sent to Telegram
(`DOCUMENTATION.md:255`), but `loop.py:166` imports a `_send_telegram` that
`notification.py` does not have; the error is logged and the result is dropped. The
chunker adds up the rounded estimates of paragraphs and not the estimate of the whole, so
very many very short paragraphs make a chunk above the limit.

### Fairness

Users, administrators, requests, faults, crashes and the environment (Docker, MCP
servers, evictions) are never fair. The following are, weakly, and why:

- a coroutine that can go on does so, since the event loop runs every ready callback
  (`Owner`, `Request`, `GoesOn` of the orchestrator, the pool and the runtime, `Worker`,
  `Task`, `Tool`, `Pass`, `Steps` of the lifespan, `Works` of the webhook, `Keeper` of the
  manager, and in the compositions `WorkerRuns` and `LoopRuns`). What one coroutine awaits
  in another is its own progress: `WorkerRuns` contains the steps of `process()`, but
  neither the approval, the halt nor the daemon, which `SignalsMoveOn` therefore does not
  need;
- the LLM answers or raises, because its client has a time-out (`openrouter.py:33`). That
  Postgres and Redis answer or raise is assumed; their clients are created without one.
  A tool need not: a call of an MCP server has no time-out
  (`client.py:179`) and the one of `execute_code` is what the LLM asks for. So a step of an
  execution in `Orchestrator` (`pc = "stepping"`), a tool in `AgentRuntime` (`"inTool"`)
  and the callers `Hanging` of `AgentPool` are not fair. `EverySignalAnswered` and
  `Terminates` exempt whoever is in such a step, and `WaiterRuns` asks that fewer callers
  hang than the semaphore has permits;
- time passes and sleeps end (`Tick`, `ClockMoves`, `Beat`); `wait_for` is such a sleep;
- Telegram delivers an update again until it gets a 200 (`Deliver`, part of `Works`);
- two runs ask what happens behind an execution and assume that it ends: `SignalsMoveOn`
  (`WorkerRuns`: the queue's worker awaits `process()` and with it the agent, so a tool that
  hangs holds every later signal up) and `MailIsRead` (`LoopRuns`, and `ToolReturns` of the
  inbox). This is an assumption about tools, not a fact of the code;
- a daemon told to stop ends (`DaemonEnds`) and one that is up reads its inbox, in
  `MailSpec` only, the specification of `Orchestrator_letters`: the dead letter is not owed
  to an unfair daemon. The end of a daemon's loop by itself is not fair in
  `DaemonManager`: `ListenerReturns` holds although the daemon may never look at its stop
  event, because `Keeper` contains the time-out of the stop.

`DaemonInbox`, and with it `MCDaemons`, asks for strong fairness of waking up inside the active hours: the loop
sleeps and looks at the clock for ever, and the hours come round every day, so it cannot
look outside the hours each time.

## 4. Proofs

Every safety property of a run that passes, invariants and action properties alike, is a
theorem of the specification of that run (of its part without fairness or, in `MCApprovals`,
without the limits of its two situations), and so are the refinements of
`AtMostOnceQueue`: for all constants that satisfy the named assumption of the MC module
(`ExecutionAssumption`, `DeliveryAssumption`, ...), which is the conjunction of the
assumptions of its components, each stated in its module and no stronger than
the settings of the code justify. TLC evaluates them in every run. `theorems` in
`PROJECT.json` lists the results. A bound (*bound* in its declaration) is any natural
number, so it takes nothing away from a safety theorem: what is violated at all is
violated within some bound.

The way is always the same. An invariant is strengthened until each step keeps it; the
strengthening is a named part of the component's module, which TLC checks together
with the property (section 3 lists the parts), except where it only restates where a loop
is, as most of those of `ServingProofs` do, and stands in the proof module. Each
action has a lemma, the lemmas make one about `Next`, the resting component keeps its
invariant because it reads nothing else, and the theorem combines them.

`ApprovalsProofs`. The invariant `IInv` adds to the two properties what makes them inductive: an approved row was approved
by a request (`ApprovedRowWasApproved`), a request that is being served has a target
(`ServedRequestHasTarget`), and the copy does not outlive the wait
(`CopyOutlivedByWait`), which relates the life left in Redis to the time the owner has
waited and to what is left of its sleep: each `Tick` takes one off the first and puts one
on the second. So the copy has lapsed when the owner gives up (`GivesUpAfterCopy`), and
later answers come from requests that had read it. `ToolSafety` and `TypeCorrect` follow;
`NoLateVerdict` and `PatientOwner` are action properties of the same invariant: a request
that begins after the lapse commits no verdict, and after the give-up the requests that hold the
copy become fewer, and the row takes the decision of one of them or expires. How often an approval is run is a matter of
counting (`RunsCounted`): a request that has read the copy pays for at most one run, and
the copy is deleted before the first, so that later requests cannot pay
(`OneRunPerRequest`, and `RunsAreBounded` for the situations of the run).

`OrchestratorProofs`. `IInv` is an account for each signal: what was handed to agents is
paid for by the signal's own way through `process` (at most one) or by approving POSTs,
and the answer agrees with it (`Accounted`). Beside it stands an account of the halt
(`HaltAccounted`): the steps made in it and the executions that have passed the look at the
kill switch are together no more than those that had passed it when it began. A step of an
execution moves one from the second to the first (`StepsArePaid`), the switch opens and
closes the account (`SwitchAccounted`). A step touches the account of one signal only
(`OthersUntouched`, `RestUntouched`), so the proof is about one signal
(`ProcessAccounted`, `GrantedAccounted`) and holds for any number; the end of the
process touches all of them at once and takes work away from none (`CrashAccounted`). From it follow
(`InvariantImplies`) `NeverHandedTwice`, `AnswersAreKept` and `HaltHolds`, the last for any
number of POSTs and steps.

`DeliveryProofs`. The invariant of the queue says that the worker holds delivered entries
in their order (`HeldInOrder`) and that an entry is pending until it is processed
(`PendingUntilProcessed`). Then a step of the queue is a step of `AtMostOnceQueue` or
none, action by action; the abstract queue takes in order because a read returns the
oldest entries. With the orchestrator, whose `IInv` is used as proved, `Linked`
relates where the worker is to where `process()` is: what is beyond the head of the batch
is new, what has a result is answered without an exception.

`DaemonsProofs`. The same for the inbox, whose stream is trimmed and has two readers; the
reason why they never hold the same message is that a read advances what the group has
delivered. The manager's invariant goes daemon by daemon (`DaemonInv`): a task that lives
or raised is in the dictionary, and an entry without a task means that the listener is
about to see to it or that something has failed, which includes the listener itself
(`ListenerGoes`). The two together add `LoopHasTask`, and with
it `LostByForceOnly`: in a step that loses a taken message the loop was off its path by a
failure or a cancellation, since it looks at its stop event with empty hands only.

`ExecutionProofs`. The runtime's invariant relates the life of the lock to the next
heartbeat (`BeatBeforeExpiry`), for every time to live that exceeds the interval of the
heartbeat and its lag; a tool after a halt is the last of its execution. The gate's is one
formula about a call, said of all of them (`CallInv`). The sandbox's ties a file to the
run that wrote it (`WrittenIsRemoved`) and the place of all runs to the first answer about
Docker (`PlaceIsKnown`). The pool's has the sum of
permits that are free, granted and held, the line of the semaphore as a sequence without
repetition, and the counter of the waiting against those who wait and the failures that
left it too high.

`WorkersProofs`. `CronInv` relates the rows a tick has read to the rows the routes have
changed meanwhile: what is run is marked before it can be due again (`RunsAreMarked`).
`PollInv` says that the worker holds consecutive updates (`BatchIsRun`) and is through
with everything before its offset. `AuditInv` says of every past instant that the burst
since then is reported or that an audit is due within the patience of the worker, an
interval and two more for each failure; that the query's limit does not hide a burst is
`AuditSees`: entries are in the order of time, so a limit above the threshold leaves more
than the threshold. `IndexInv` follows a path through a pass: what is drafted for it is
a content it had since the pass began, or it is still to be looked at. That rests on the
index holding whole contents, for a file counts as unchanged when one chunk has its hash.
`ChunkInv` is about the chunks and the one that is being collected; a turn of the
loop lets the last one grow or closes it (`GrowthKeeps`, `ClosingKeeps`).

`SharedProofs`. The bucket is off by a factor of two in its long-run rate (`RateKept`
does not hold), and the theorem says that it is off by no more: whatever the moment
the observer begins to count, what is spent is at most the capacity, one call and twice
the time. `Allowance` keeps that account with the tokens still in the bucket, and
`SleepsLongEnough` says that a sleeping caller pays for at least the time it sleeps. The
rate limiter has a ledger for each counter: in a life of the counter no more pass than its
limit, and a life ends by the expiry of the key or a restart of Redis. The rules engine is
proved for overlapping changes, any number of them at work at a time: what a
reload holds in hand is the table, but for the rules noted in `overtaken` (`Agree`), and an
installed cache is it but for those in `missed`; that nobody is overtaken without an overlap
is an invariant of its own (`Apart`). The pool
and the browser are proved for overlapping requests too, by ownership: a session or page is
held by one of the table, the
requests and those that lost it. With one request at a time a second invariant
(`StepsWhenSerial`) says what each step finds.

`ServingProofs`. One invariant for each of ten components. Delegation: the context variable of a
task equals the height of its stack less the first execution; that is
inductive only with `AskedWithinLimit`, because between the look at the depth
(`delegate.py:50`) and its setting (line 71) the table is read and an audit entry
written. Splitting: the next chunk begins behind the last (`SplitInv`). Webhook: what each
delivery has sent, against what its sender is told. Search: with `TopK < K + 2` any two
ranks add up to more than one best rank, a lemma about fractions, and the fused ranking is
in the order of the sums. Agents: what a request has loaded may be old, but it writes
only the columns it names. Catalogue: who serves has registered every tool that was loaded,
so all of them were accepted.

Only model-checked is what needs fairness and enabledness: all liveness (`WaitEnds`,
`SignalsMoveOn`, `EverySignalAnswered`, `DaemonsProgress`, `WorkEnds`, `WorkersProgress`,
`ServingProgress`). The induction theorems of the library, which take an operator,
are beyond the provers. Where a recursive function is computed (`Sums` of the chunker), its
existence and its values are proved from the least element of a set of numbers instead
(`LeastNumber`), which follows from well-foundedness. The statements of section 3 that the
code does not keep are neither checked nor proved: TLC refutes them.

## 5. Plan

Done, in the order of importance: approvals; queues and inbox with their abstract
specification; pool, runtime, daemon manager; orchestrator; scheduler, MCP pool, rules;
the limiters; polling, browser, auditor; tool gate, code execution, runbook index,
chunker; the delivery of a signal from XADD to its answer; the daemon with its manager;
start-up, shutdown and tool catalogue; Telegram webhook; delegation, agents, outbound
calls, notices, retriever, review chain.

Proved: every safety property of the runs, and the two refinements.

Next, proving: theorems of the client pool and the browser for any number of overlapping
requests (the lemmas say so already, the theorem of `MCShared` is about two); an abstract
lock that expires and an abstract approval (asked, answered or lapsed), with the proofs that
`AgentRuntime` and `Approvals` implement them.

Next, extending the model: a wall clock that steps back in `TokenBucket` and
`RateLimiter`, which both read `time.time()`; conversations, if `save_message` gets a caller.
