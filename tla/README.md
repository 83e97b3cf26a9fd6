# TLA+ models of IntelliSource

IntelliSource collects content from sources on a schedule, has an LLM pipeline
process it, and delivers the result to subscribers item by item or as daily and
weekly digests. Collect runs are Celery tasks that clients start, pause, resume
and cancel over HTTP; an agent answers chat turns with the same tools. This
directory models the parts of the program whose correctness depends on the order
in which processes, requests and people touch shared state, checks the models
with TLC on small instances, and proves some of their properties with TLAPS for
every instance. Paths below are relative to `src/src/intellisource` unless they
begin with `alembic/` (which is `src/alembic/`).

* [Inventory](#inventory): the system's parts.
* [Modules](#modules): which module models which part, and how.
* [Runs](#runs): what TLC checks, within which bounds, under which fairness.
* [Proofs](#proofs): what TLAPS proves, and how.
* [Disagreements with documents](#disagreements-with-documents): what a comment or
  a document promises and the model refutes.
* [What else the models show](#what-else-the-models-show): where the program does
  less than one might expect.
* [Not modelled](#not-modelled) and [Plan](#plan).

## Inventory

| Component | State | Operations | What makes it hard | Correct when |
|---|---|---|---|---|
| Task control API (`api/routers/tasks.py`) | rows `collect_tasks`, `task_chains`; Celery message ids | `POST /tasks/collect`, `PATCH /tasks/{id}` | publishes messages inside an open transaction; revokes, then writes by primary key | halted tasks stay halted; the batch's row is left alone |
| State machine (`scheduler/state_machine.py`) | transition table | `resolve_transition` | consulted by the API only, not by workers | rows follow the table |
| Pipeline runs (`scheduler/tasks.py`, `idempotency.py`) | Redis locks and success markers, status rows | `run_pipeline` | redelivery, crash, lock TTL, check-then-write, swallowed database errors | one run per key; no leaked lock; success means that a run returned |
| Beat and dispatch (`scheduler/beat_sync.py`, `dispatch.py`) | schedule, queue | ticks, `send_task` | every tick reuses one lock key | a tick is not mistaken for a redelivery |
| Collect, process, distribute steps (`agent/tools/executes/`, `agent/executors/strict.py`, `collector/`) | `raw_contents`, `processed_contents`, the step context of a run | the steps of a pipeline run, batch mode, retries | check-then-insert on unique keys in long transactions; partial failure between steps | what is listed is offered; nothing stored is lost |
| Distribution (`distributor/facade.py`, `base.py`, `matcher.py`, `channels/`) | `push_records`, the WeChat token in Redis | `distribute` | gate, send and record are separate; lost replies; a token that dies when another is fetched | no unexplained duplicate; true history; a live token |
| Digests (`distributor/periodic.py`, `digest.py`, `digest_dispatch.py`, `frequency.py`) | `last_sent_at` | `assemble_daily_weekly_digests` | stale subscription rows, overlapping tasks, commit order of content, templates that show a part | one digest per interval; no item lost without a reason |
| LLM gateway (`llm/`) | circuit breaker hash in Redis, response cache, `llm_call_logs` | `complete`, `chat`, `stream_complete`, `embed` | several processes on one non-atomic breaker; retries inside failover inside deadlines | an open breaker is respected and recovers; a call ends, and the log accounts for it |
| Agent loop (`agent/executors/flexible.py`, `runner.py`, `tool_gating.py`) | chat history, pending confirmations | a chat turn | gating, confirmation, cancellation, budget, concurrent tools | every tool call is answered exactly once; no gate is passed |
| Chat sessions, webhooks (`api/chat_sessions.py`, `api/routers/webhooks.py`, `agent.py`) | `chat_sessions` | a turn over HTTP or a messenger, cleanup | long read-modify-write, background replies, expiry | stored histories took place; a message is answered if the platform takes an answer |
| Configuration (`source/`, `subscription/`, `topic/`, `config/`) | `sources`, `subscriptions`, version tables, yaml files | edits, reload, rollback, topics, file watcher | partial validity, additive and exact syncs, reads long before the writes | rows agree with what was synced; the owner's pause holds |
| Definitions (`pipeline/definition_service.py`, `template/`, `distributor/templates/`) | `pipelines`, `templates`, a registry per process | seed, edit, load, hydrate | every process has its own copy and its own start; seeds are listed first and upserted later | an edit is what runs and renders |
| Schema and composition (`storage/models.py`, `alembic/versions/`, `main.py`, `composition/`, `scheduler/boot.py`) | tables, `alembic_version` | upgrade, downgrade, start, stop | only the first start of the API waits for the migration | the schema is that of its revision |
| CRUD surfaces (`api/routers/`, `cli/commands/`, `mcp_server/`, `agent/tools/executes/_crud.py`) | one row at a time | create, patch, delete, by four surfaces | four ideas of an absent or null field; overlapping requests | a patch writes what it names; rows load |
| Search, read-only routers, setup commands, observability | - | queries, prompts, counters | no state of their own | - |

How they interact: the API and Beat publish messages; workers execute pipelines
whose steps (`collect`, `process`, `distribute`) write content and push it; the
digest task reads the content rows and the push history that the steps write;
the LLM gateway serves the process step, the agent loop and the compaction of
chats; the configuration tables feed schedules, collectors and subscriptions.
Workers, API processes and Beat share PostgreSQL and Redis and nothing else.

## Modules

```
TaskStates <- PipelineRuns <- TaskControl      TaskLifecycle (abstract)
Channels   <- Distribution <- Delivery
Schema     <- Deployment
AgentLoop                                      ToolCalls (abstract)
Chat   LLMGateway   Contents   Catalog   Surfaces
```

`X <- Y`: Y extends X. `MC...` modules give the constants of a module their
values for TLC; `..._proof` modules hold the theorems. An operator whose comment
begins "Mutant of" is a plausible bug of the definition below it; replacing that
definition by it makes TLC report the property that `PROJECT.json` pairs it with.

### Task control

* `TaskStates` is the transition table; `Resolves(s, a, t)` is
  `resolve_transition`.
* `PipelineRuns` is `CeleryTasks.run_pipeline`. `pc[w]` names the next call of
  worker `w` that touches Redis or the database, and there is one action per
  call: `CheckStatus`, `CheckMarker` (the two "already succeeded" checks),
  `ForceUnlock`, `Acquire` (`SET NX EX`), `OpenChain` and `AdoptChain` (the
  `TaskChain` row), `ClaimRead` and `ClaimWrite` (`_set_task_status` reads, then
  writes), `Execute` (the retry loop around the agent runner), `SucceedChain`,
  `DoneRead`, `DoneWrite`, `MarkSucceeded` on success, `FailChain`, `FailRead`,
  `FailWrite` on failure, and `Release` (the `finally` block). The broker
  (`Publish`, `Take`, `Redeliver`, `Discard`, `DeliverRevoke`), process death
  (`Crash`, `Kill`) and key expiry (`ExpireLock`, `ExpireMarker`) are external
  and follow the configuration in `celery_app.py`: messages are acknowledged
  when they are taken.
* `TaskControl` adds the API: `TriggerBegin`, `TriggerDispatch`,
  `TriggerCommit`, `TriggerAbort` for `POST /tasks/collect`, and `ApiRead`,
  `ApiRevoke`, `ApiDispatch`, `ApiCommit` for `PATCH /tasks/{id}`.
* `TaskLifecycle` is the abstract specification of the rows: a batch appears
  pending, and each row then moves along the table. `TaskControl` implements it
  (`INSTANCE TaskLifecycle WITH Tasks <- Tasks, status <- status`, property
  `LifecycleHolds`) while no client intervenes.

`applied`, `aborted`, `skipped`, `killed`, `robbed` and `orphans` are history
variables: no guard of the code reads them. `robbed` holds the workers whose lock
was deleted or expired while they ran.

### Contents

* `Contents` is what one run does between `Execute`'s start and end: the collect
  tool (`Fetch`, `Check` and `Insert` for each item of the listing, `Wait` and
  `Deadlock` for two transactions on one fingerprint, `CommitCollect`), the
  process tool (`Read`, `Write` in a transaction per row, `EndProcess`), and the
  distribute tool (`Distribute`). `Returned`, `Degraded`, `Raised` and `Retried`
  are the ways in which `StrictExecutor` goes on after a tool: `try` is the
  attempt, `rawIds` and `doneIds` the part of `step_context` that passes ids from
  one tool to the next, and the output of a retry is not merged, as in the code.
  `StartBatch` is a batch run of the process tool alone.
* `feed` and `calm` are the environment: until the calm a source may list
  anything, and any tool may fail; afterwards feeds stay as they are. `offered`
  and `lossy` are history variables.

### Delivery

* `Channels` is the WeChat token cache: `Miss`, `Issue` (the platform kills what
  it issued before), `Store`, `Forget`, `ExpireToken`. `fetching` and `raced` are
  history variables.
* `Distribution` is `DistributorFacade.distribute`: `Broadcast` or `OneOff`
  loads the content and its subscriptions, `Accepts` is the matcher, `Skip` or
  `Pick` the dedup gate, `Attempt` an attempt by email or WeWork,
  `AttemptWechat`, `FetchToken` and `StoreToken` one by WeChat, `Record` the
  insert of the `PushRecord`, `Finish` and `Stop` the ends of the call.
* `Delivery` adds the process step as far as the order of time stamps goes
  (`ProcessBegin` fixes `created_at`, `ProcessCommit` makes the row visible) and
  the digest task: `BeatBegin`, `Fetch` (the window, with its limit), `Assemble`
  (frequency gate, quiet hours, matching), `Send`, `Commit` (push records and
  `last_sent_at` in one transaction), `BeatEnd`, `BeatStop`. Quiet hours are a
  nondeterministic outcome of `Assemble` for the subscriptions in `QuietSubs`.
  A template shows of each section (`Section`) the oldest `PerSection` items of
  the window: five in `daily-brief`, the first of all in `topic-deepdive`. `Send`
  delivers those (`ShownItems`); `Commit` records the whole list (`Items`).

`sends`, `excused`, `abandoned`, `digestAt`, `disturbed`, `missed`, `omitted` and
`bleft` are history variables. They say which duplicates, early digests and
losses have a cause outside the sequential code: overlap, a process that stopped
between a send and its record, a lost reply, a one-off push to a digest
subscriber. `omitted` is what a digest listed and did not show. `missed` is what
had a reason not to be listed (`MayMiss`): the row was not committed, it was older
than a first window, or as many older items as the window holds stood before it.
`MayMiss` counts rows and does not ask the query (`InWindow`, `Oldest`), so a
query that leaves anything else out loses an item without a reason.

### LLM gateway

* `LLMGateway` has one record per caller. `Begin...` are the four entry points
  (with the cache in front of `complete` and `chat`); `Admit` is `allow_request`,
  asked once per model; `CallSucceeds`, `CallFails` an attempt; `CountFailure`
  and `RecordSuccess` the writes of the breaker, which `CallFails` read a step
  before; `AfterModel` is `run_with_model_failover`; `Chunks` the stream;
  `Reply...` and `Discard` the end of the call with its row in `llm_call_logs`;
  `Cancel` a deadline. Any write of a row may fail, and `_emit_call_log` swallows
  it: `Emitted` is the row or `"lost"`, and the call goes on alike. The breaker is its hash: `cooled` stands for the recovery
  timeout having passed since the last failure, and HALF_OPEN is what
  `allow_request` makes of an open breaker that has cooled.
* `calm` is the environment: while it is off, providers fail and requests are
  malformed or cancelled.

### Agent

* `AgentLoop` is one chat turn of `FlexibleLoop._drive`. `RunApproved` is
  `_execute_approved_calls` for one confirmed call; `LoopHead` the loop's
  condition with `_compress_history` (`Compacted`, `Cut`, `SafeCuts`);
  `RunTurn` an LLM call, with `Answered` when it asks for tools (the budget is
  looked at first, then `Gate` decides each call); `ToolEnds` the end of one of
  the calls that `asyncio.gather` runs; `Apply` phase 3, which appends answers
  and results; `Finish` the terminal event; `Disconnect` the client of a stream
  going away, at any step. A message is its role and the tool call ids it opens
  or answers; `Valid` is `_validate_history`. `MCAgentLoop`: `search` may run,
  `distribute` has to be confirmed, `danger` is denied, `ghost` is a name the
  LLM invented. `ran` is a history variable; `results` carries call ids that the
  code keeps only for pending calls. A confirmed call is taken as it is from the
  token, and the permissions are those of the turn, so `Approvals` may hold
  calls that were allowed when they were proposed.
* `ToolCalls` is the abstract specification of what a turn promises of its calls:
  each has an id of its own and comes to one thing, for good, and the LLM is asked
  again only when none is open. `AgentLoop` implements it (`Protocol`, property
  `CallsSettle`): open are the calls whose tools run, settled are the entries of
  `results` and the calls of the answer that have ended or were stopped by a gate.
  Phase 3 is then a stutter: it writes down what is settled already. An answer
  that uses up the budget opens nothing.
* `Chat` is the conversation around the turns. A turn of a messenger user is
  `Receive...` (the webhook's acknowledgement), then in the background
  `LoadUser`, `RunUser` or `RunRaises`, `PersistUser` or `PersistUserFails`, and
  `Send` of the answer, then of the fallback text if the answer is refused
  (`sends` is the sequence of what was tried and became of it); one of an API client is `Ask`, `LoadApi`, `AnswerApi` or `AbandonApi`,
  `PersistApi`. `Bounded`, `Replayed` and `CompactedForChat` are what compaction
  and the two replay limits may leave of a history, `Talk` is what of it the loop
  puts before the question. `seen` is a history variable from there on: it stays
  with a turn that has stored its history, given up or been lost. `Cleanup` is the periodic task,
  `Crash` the end of the API process with its background tasks.

### Configuration and definitions

* `Catalog` has the two tables, the directories of yaml files and the version
  tables. A transaction that reads rows and writes later is a record `sync[c]`:
  what it was asked, the entries it has still to look up, the rows as it read them,
  the columns it will update and the rows it will insert. `CreateSource`,
  `ReloadSources`, `EnableTopic` and `WatchEntry` begin one that SELECTs row by row
  (`Select`, with `Upsert` or `Insert`); `ReloadSubs`, `RollbackSources` and
  `RollbackSubs` begin one that reads a whole table at once (`Syncing`, with
  `SyncChanges`). `CommitSources` and `CommitSubs` write what differs from what was
  read into the rows as they are by then, which is what the ORM's UPDATEs do at
  READ COMMITTED; `Fail` is a name that is taken by then, a deadlock or an error.
  `PatchSource`, `DeleteSource`, `CreateSub`, `PatchSub`, `DeleteSub` are edits that
  may come at any moment between (`CliFetch` and `CliPatch` the CLI's own
  read-modify-write), `SubscribeTopic` is the second half of a topic, `EditFiles`
  and `FileChanged` are the files and their watcher, which upserts each entry in a
  transaction of its own (`WatchEntry`). What is configured is one value per row
  that tells what the loaders and the validators make of it. The row locks between
  a flush and its commit are not modelled: the model writes at the commit, which
  admits more interleavings than the database.
* `Surfaces` follows one row of one of four tables under overlapping requests.
  `Requests` lists, per table and surface, what a request may say (`HttpSources`,
  `CliSources`, `McpSources`, `AgentSources`, ...); `Read` is a request up to its
  first SELECT; `Merge` is the second SELECT of a pipeline's update (the service
  reads the definition, the repository's upsert reads the row again); `Update`,
  `Create` and `Remove` are the rest up to commit or rollback. `Flushed` is the
  ORM's UPDATE, which names the columns whose value differs from what was read;
  `Merged` is the definition of a pipeline, written as a whole. `Overtaken` and
  `StepsCollide` are the overlaps that a key of the database refuses, and
  `Readable` is what the readers of a field take.
* `Schema` gives each of the fifteen migrations as two functions on table
  columns (`Up`, `Down`), a path of them as recursive functions of the revision
  (`Migrated`), and the tables of `storage/models.py` (`Models`).
* `Deployment` runs them under the processes: `Migrate`, `StartApi` (which lists the
  seeds without a row) and `Seed` (which upserts them later), `StartWorker`,
  `StartBeat`, `Stop`, the edits `WritePipeline`, `ReadPipeline` and `PatchPipeline`,
  `DeletePipeline`, `WriteTemplate`, `BreakTemplate`, `DeleteTemplate`, and the
  readers `DispatchRun`, `LoadRun` and `Push`. Edits need no process of the model:
  a second API and the MCP server make them too. `Hydrations` are the registries
  that a process may have after it read the table: the first row from which no
  template can be built (`"broken"`) ends `register_db_templates`, and whatever
  comes after it stays as it was registered before, in an order the query does not
  fix. One API starts at a time, which is a bound; a seed's own SELECT and flush
  are one step, since an overlap there fails on the unique step positions.

## Runs

| Run | Question | Properties |
|---|---|---|
| `Lifecycle.cfg` | Do rows, markers and the state machine agree while messages are delivered twice, runs are retried and pipelines fail? | `TypeOK`, `MarkerSettles`, `LifecycleHolds` (refinement), `RunningSettles` (liveness) |
| `Control.cfg` | What do the lock, pause, resume and cancel achieve when workers crash, outlive locks and lose writes? | `UniqueRunner`, `LockAccounted`, `PauseHalts`, `SuccessReturned`, `ParentNotHijacked` |
| `SecondTick.cfg` | Is only a redelivery skipped? | `OnlyRedeliveriesSkipped`: violated, see below |
| `Contents.cfg` | Two runs list the same articles while every step may fail: does success mean that all was offered, and is what goes on being listed offered in the end? | `SuccessIsWhole`, `EmbeddingKept`, `ListedIsOffered` (liveness) |
| `Pushes.cfg` | Two processes push one item by WeChat and email: is every duplicate explained, the token alive, every push settled? | `DuplicatesExplained`, `DeadTokenExplained`, `PushSettles` (liveness) |
| `Digests.cfg` | Digest tasks overlap, sends fail and templates show a part of the window: is the history true, the interval kept, and is what the watermark passed delivered or lost for a reason? | `SentWasDelivered`, `LossExplained`, `IntervalKept` |
| `Gateway.cfg` | Two processes share the breaker and a log that may fail: do the rows account for the calls, do calls end, who closes an open breaker, and does it recover? | `Audited`, `OpenUntilProven`, `CallEnds`, `Recovers` (liveness) |
| `AgentTurn.cfg` | Whatever the LLM asks for: are histories well-formed, gates and budget respected, the report true? | `SentHistoryPaired`, `AnswersInOrder`, `GatesHold`, `ReportFaithful`, `BudgetStops`, `CallsSettle` (refinement) |
| `Chat.cfg` | Concurrent turns, compaction, cleanup and crashes: are stored histories real, does every message get a text unless the platform refuses even the fallback? | `HistoriesAreReal`, `RepliedOrRefused` (liveness) |
| `Catalog.cfg` | Edits between the reads and the writes of reloads, rollbacks, topics and the watcher: do syncs mean what they say, and does a pause hold? | `SyncIsExact`, `SnapshotsSound`, `PausedStays` |
| `Surfaces.cfg` | Overlapping requests of four surfaces: does a patch write what it names, does a write leave a row that loads, does a deleted row stay so? | `RowsLoad`, `PatchIsExact`, `DeletedStays` |
| `Deployment.cfg` | Migrations up and down among starts, seeds, edits and pushes: is the schema that of its revision, do edits survive and show? | `SchemaOfRevision`, `EditsSurvive`, `RendersCurrent`, `DigestToolKept` |

All hold but the one of `SecondTick.cfg`, whose counterexample is the finding in
`PROJECT.json`: the second tick of a schedule is a new message, but it has the
lock key of the first, whose success marker lives for 24 hours, and is answered
`already_succeeded`.

### Bounds

* `Lifecycle`, `Control`: two workers, since every race in `run_pipeline` is
  between two runs of one key; two messages, enough for two runs of one key to meet
  (a message and its redelivery, two ticks of one schedule, a run and its forced
  successor); three requests, enough for pause, resume, pause. `MaxRetries` stands
  for `MAX_RETRIES`: one retry shows that the loop is left and entered. `Lifecycle`
  has no crashes, since a killed worker leaves its row running for ever and
  `RunningSettles` is about runs that end, and no run that outlives its lock, which
  is the condition of its safety properties; `Control` has both.
* `Contents`: two sources that list the same two articles in either order, which
  is what a deadlock of inserts needs; one schedule whose pipeline retries and
  one run whose pipeline aborts or works in batch mode; one retry.
* `Pushes`: two processes, two calls, two attempts: overlap, a retry, and a call
  after a token died. `Digests`: two digest tasks at once and a third after
  them, a clock of six instants (two intervals of three), three items of which a
  window lists two (`WindowLimit` stands for `_WINDOW_CONTENT_LIMIT`) and a digest
  shows one: each reason for which an item may be missing comes up, alone and
  beside the others.
* `Gateway`: two callers, one of them with cache and fallbacks, two models on
  the routes of `complete` and `chat`, two attempts, a threshold of two: the
  failures of one caller alone and of both together can open the breaker.
* `AgentTurn`: two answers of up to two calls show a gated call beside a running
  one and a history that is sent again; `ProtectLastN` stands for
  `_AGENT_PROTECT_LAST_N` and is small so that a short history is compacted.
* `Chat`: a user of each messenger and one API client, three turns, a budget of
  two messages and replays of two and three: two turns of a conversation overlap
  while a third follows, and the second turn already compacts.
* `Catalog`: two names, two sessions, three requests, directories with a good, an
  unsound and a malformed entry. Two syncs and an edit overlap in any way, or an
  edit, a reload and a rollback follow each other.
* `Surfaces`: two requests in flight, three in all; a field of each kind.
* `Deployment`: one shipped pipeline, two templates (one that does not load and
  one that stays stale behind it), four changes, among them migrations between
  nothing, 10, 13 and the latest revision: each migration is passed in both
  directions, those that rewrite rows (14, 15) with rows of either side.

`CHECK_DEADLOCK FALSE` is set because messages, requests, calls, turns and
changes are bounded: when they are used up and nothing is in progress, the system
rests. Each bound is a constant and a conjunct of the guards it limits.

### Fairness

* `TaskControl!Fairness`: a worker in the middle of a run, an idle worker with a
  message to take, a request in progress and the expiry of Redis keys are weakly
  fair: operating system, broker and Redis schedule them.
* `Contents!Spec`: a worker goes on with its run, and Beat starts the runs of
  `Schedules` again and again. Faults stop at the calm; nothing obliges it to
  come, and `ListedIsOffered` speaks of what follows it.
* `Delivery!Fairness`: a process in the middle of `distribute` goes on.
* `LLMGateway!Fairness`: a call goes on (each attempt has a timeout), and time
  passes for the breaker. `Recovers` assumes what it says: calm weather from some
  point on and calls that keep coming.
* `Chat!ChatSpec`: the event loop of the API runs the background task of a message.
  Turns of API clients need no fairness: nothing is claimed of their end. `BeatSpec`
  adds that the cleanup task is run again and again, which is what Beat is for.

No fault, tick, client request, new content or digest task is ever obliged to
happen.

## Proofs

The theorems hold for every value of the constants that satisfies the named
assumptions: any number of workers, tasks, messages, subscribers, callers, names,
requests and items, histories and listings of any length. Each safety invariant
and action property that a run checks is a theorem.

| Theorem | Property | Argument |
|---|---|---|
| **`TaskControl_proof`** | | |
| `TypeCorrect` | `TypeOK` | inductive |
| `LocksAccounted` | `LockAccounted` | `LockInv`: a worker past `Acquire` holds its lock flag and a worker before it does not, so each way out of a run either deletes the key or puts its message in `killed` |
| `ParentKept` | `ParentNotHijacked` | `ParentInv`: a worker that adopted the parent id did so before the commit, and the commit needs the id free |
| `SuccessEarned` | `SuccessReturned` | `EarnedInv`: a worker past `Execute` has a return behind it, of a pipeline that ran to its end or that aborted, and no request carries "success" |
| `PausesHalt` | `PauseHalts` | `HaltInv`: every message of a task is the one its row names, or revoked, or about to be named (`Named`); a halting request aims at the named message and revokes it before it commits (`Aimed`); a step of one request leaves what the others have read as it is (`OthersStay`), and of two about one task both halt it |
| `OneRunner` | `UniqueRunner` | `ExclusionInv`: a worker that holds a key has its lock in Redis or is in `robbed`; of the holders that were not robbed there is one per key |
| `RowsFollowLifecycle` | `LifecycleHolds` | refinement of `TaskLifecycle`: by `SoloInv` (`ExclusionInv` where nobody is robbed) and `RowInv` a worker that read a row under the lock still sees it unchanged when it writes, so every write is a transition of the table and every other step a stutter |
| `MarkersSettle` | `MarkerSettles` | `SettleInv`: no run of a batch gets past the parent row before the commit, so no marker is older than the row, and a run that is to set the marker has seen its row leave "pending" and "running" |
| **`Delivery_proof`** | | |
| `TypeCorrect` | | `TypeOK` is inductive; that a window keeps to its limit after matching rests on the library's facts about subsets of finite sets |
| `DeadTokenNeedsRace` | `DeadTokenExplained` | `TokenInv`: as long as no two processes have fetched at once, the one between miss and store is alone, the key is gone, and the token it holds is live |
| `SentIsDelivered` | `SentWasDelivered` | `SentInv`: what a call or a digest task is about to record as sent has been delivered, or is on the list of a delivered digest that did not show it; deliveries are never taken back |
| `DuplicatesAreExplained` | `DuplicatesExplained` | `DupInv`: of an item that is not excused, one call at a time is past the gate and nothing has reached the subscriber (`CallsOnce`), or one digest (`DigestsOnce`) |
| `LossIsExplained` | `LossExplained` | `LossInv`: whatever is older than a watermark, committed or not, was delivered, left out by the template, or missed; a digest task carries the same fact for the watermark it is about to write (`DigestInv`), which needs that the query lists all but what `MayMiss` counts out |
| `IntervalIsKept` | `IntervalKept` | `IntervalInv`: the last digest is under the watermark, or its task is about to write it |
| **`LLMGateway_proof`** | | |
| `TypeCorrect` | | `TypeOK` is inductive: a call stays at a model of its route (`OnRoute`), and what `record_failure` writes is a breaker again |
| `OpenStaysOpen` | `OpenUntilProven` | by type correctness, the breaker that `record_failure` read is open or closed, and from an open one it writes an open one |
| `CallsAreAudited` | `Audited` | `AuditedCalls` is `Audited` with the steps in between: a call at its n-th model has n - 1 failure rows, written or lost, and the row of the last one is given to the log with its outcome |
| **`Agent_proof`** | | |
| `GatesAlwaysHold` | `GatesHold` | `GateInv`: a call that is running was let through by `Gate`, which nothing changes while it runs |
| `BudgetAlwaysStops` | `BudgetStops` | `BudgetInv`: when the budget is gone, the loop is neither in an LLM call nor in the tools of an answer, so only a confirmed call can still run |
| `ReportAlwaysFaithful` | `ReportFaithful` | `ReportInv`: ids are handed out once, a call under way is in no result, and a result has the status its call ended with |
| `CallsAlwaysSettle` | `CallsSettle` | refinement of `ToolCalls`, by `ReportInv`: ids grow, so what the LLM asks for is new; a tool that ends moves its own call, because ids are distinct; `Apply` appends, call by call, what the calls have come to, and leaves both sets as they are |
| `AnswersAlwaysInOrder` | `AnswersInOrder` | `HistInv` speaks of the history as it will be once the calls under way have ended (`Complete`), whatever the order in which they end |
| `HistoryAlwaysPaired` | `SentHistoryPaired` | `HistInv`: `Complete` is valid unless a confirmed call was refused; compaction cuts between exchanges (`SafeCuts`), and a suffix of a valid history from such a cut is valid |
| `StoredTalksAreReal` | `HistoriesAreReal` | `ChatInv`: the question of a turn that is not past its write (`Early`) is in no row and in no history that a turn holds; what a turn was given and what stands before its question agree counting from the end (`Follows`), which compaction and the limits keep, because they only cut off the front or put a summary there (`Trims`) |
| **`Contents_proof`** | | |
| `SuccessWhole` | `SuccessIsWhole` | `RunsOK`: what a run has collected or processed in an attempt that did not fail is in the ids it passes on |
| `EmbeddingsKept` | `EmbeddingKept` | `TablesOK`: a row is marked processed in the transaction that inserts the processed one; two open transactions never hold one fingerprint (`Apart`) |
| **`Catalog_proof`** | | |
| `PausedStaysPaused` | `PausedStays` | `SyncOK`: the columns that an open upsert will write hold no status, so its commit leaves that of every row as it is by then; only a PATCH and a rollback write one |
| `SyncsAreExact` | `SyncIsExact` | `Exact`: what an open sync has read and will write agree (`SettledIs`): a row that nobody touched since the SELECT becomes what the sync names or is paused, one that was touched has its name in `stale`; the reply is forgotten by the next step |
| `SnapshotsStaySound` | `SnapshotsSound` | `VersionsOK`: a snapshot is taken of entries that the loaders let through, whatever the rows and files hold |
| **`Surfaces_proof`** | | |
| `RowsAlwaysLoad` | `RowsLoad` | `Inv`: what a request may say is validated before the flush, or refused by a constraint or the response model, unless a tool of the agent says null for a list |
| `PatchesAreExact` | `PatchIsExact` | by `Inv`, an UPDATE names the columns whose value differs from the one read |
| `DeletedRowsStay` | `DeletedStays` | a row that was read may be gone, and then the UPDATE finds none |
| **`Deployment_proof`** | | |
| `MigrationsCompose` | | induction over the revisions: a schema that waits for the next revision (`Fresh`: lacks what that one adds) still waits for the later ones after it, and the downgrade undoes it (`Sound`) |
| `SchemaFollows` | `SchemaOfRevision` | `TablesInv` with `MigrationsCompose`; that the latest revision has the columns of the models, table by table (`LatestIs`); that no embedding is stored before the ORM's width is that of the column |
| `EditsAlwaysSurvive` | `EditsSurvive` | `PipelinesInv`: what was written is in the row; a name that the starting API lists as missing has no row or was written since (`late`), so its upsert takes nothing that is not late; a revision without the table has no row (`DefinitionsAre`) |
| `RendersStayCurrent` | `RendersCurrent` | `TemplatesInv`: an active template has a table that works, and when every active row loads the only hydration is the complete one |
| `DigestToolStays` | `DigestToolKept` | with typed rows, `_rewrite` is applied exactly when the renaming is crossed |

Four theorems of `TaskControl_proof` need hypotheses, because without them the
code does not do what they say; `OneRunner` and the others need none.

* `RowsFollowLifecycle`: no run outlives its lock (`"slowRun" \notin Faults`), and
  no PATCH request, since a pause between a worker's read and write is overwritten.
* `MarkersSettle`: also no lost write (`"storeError"`), which the worker logs and
  ignores.
* `SuccessEarned`: no client that says `complete`, which writes `success` itself.
* `PausesHalt`: requests are pauses, resumes and cancels, any number at once, but
  no resume overlaps another request about its task (`ResumesAlone`). Two of which
  one resumes may each publish, or revoke, a message the other does not know.

Crashes, redeliveries, aborted pipelines and, for the last two, slow runs and
expired locks stay in. The other modules' theorems assume only what the modules
name (`ConstantsAssumption`, `ApiAssumption`, `DistributionAssumption`,
`DeliveryAssumption`, `GatewayAssumption`, `CatalogAssumption`, `LoopAssumption`,
`ChatAssumption`, `ContentsAssumption`, `SurfacesAssumption`,
`DeploymentAssumption`); TLC evaluates these in the runs.

The inductive invariants are needed because the properties themselves say
nothing of the program counters: `UniqueRunner` alone does not exclude that a
worker holds a key whose lock is gone although nobody robbed it, `SentWasDelivered` alone does
not exclude that a failed push is about to be recorded as sent, and
`SchemaOfRevision` says nothing of what the next downgrade will find. TLC checked
each of them on the instance of its run before it was proved.

Induction over numbers, which paths of migrations and lengths of histories need,
is by `NumberInduction`: a property is stated as a set of numbers, and a number
outside it would have a least one (from the library's fact that `<` is
well-founded). The library's own induction rules take an operator as a parameter,
which the provers cannot instantiate. For the same reason `Migrated` is two
recursive functions, `Talk` is one rather than a `SelectSeq`, and `Audited` and
`SnapshotsSound` speak of rows by their position rather than of a selection from
them.

Only model-checked: liveness (`RunningSettles`, `PushSettles`, `CallEnds`,
`Recovers`, `RepliedOrRefused`, `ListedIsOffered`), which under fairness is
out of the provers' reach.

## Assumptions and abstractions

* A lock's TTL, a forced message and a release by key name are the ways in which
  the code takes a lock from a run; `robbed` names the runs they hit.
* Redis answers: it is also the broker, so without it no message arrives.
* A database transaction is atomic; every statement outside one is a step.
* `ExpireMarker` does not outrun a redelivered copy: the marker's 24 hours
  exceed every visibility timeout.
* No two time stamps of `Delivery` are equal: `ProcessBegin` and `Commit` advance
  the clock.
* Content, messages, prompts and templates have no inner structure; what depends
  on their size (a token budget, a compaction) is a nondeterministic choice over
  the outcomes that the code may reach.
* In `Contents`, `run_pipeline`'s lock is taken for granted: a key has one run at
  a time, which is what `UniqueRunner` states.
* `Surfaces` ends a request with the commit of its session; that the HTTP answer
  leaves before that commit is not modelled.

## Disagreements with documents

Where a document, a docstring or a comment says more than the code does, the
module states what the document says as a definition of its own, beside the
property that does hold. Adding the definition to the configuration named here
makes TLC find a counterexample (for `InactiveSessionsGo` with
`SPECIFICATION BeatSpec`). The first one is a run of its own. Documents are under
`src/docs/`, `src/config/` and `src/src/intellisource/`.

| What is said | Where | What the code does | Definition | Configuration |
|---|---|---|---|---|
| the marker exists "so a later redelivery short-circuits" | `scheduler/idempotency.py:35` | the marker of a schedule answers every new tick for 24 hours (`beat_sync.py:143`) | `OnlyRedeliveriesSkipped` | `SecondTick.cfg` |
| "分布式锁（Redis）防止同一信源的重复采集" (the lock keeps a source from being collected twice at once) | `arch/arch-intellisource-v1.md:219` | the lock is per key: a task's UUID, `scheduled:<id>` and `<pipeline>:source:<id>` are three keys of one source (`scheduler/tasks.py:80`) | `SourceExclusive` | `Lifecycle.cfg` |
| "the entry guard prevents a second application" | `scheduler/tasks.py:409-411` | the guard is asked before the lock is taken, and not again under it (`tasks.py:305`) | `AppliedOnce` | `Lifecycle.cfg` |
| "A durable `success` status means there is nothing to redo" | `scheduler/tasks.py:181-182` | a pipeline that stops under `on_failure: abort` returns `failed` without raising (`agent/executors/strict.py:105-114`), and success is recorded; `manual-collect.yaml:5`, the pipeline of `POST /tasks/collect`, is one | `SuccessIsEarned` | `Lifecycle.cfg` |
| "a status the API set out-of-band (paused / cancelled) is never clobbered by a worker" | `scheduler/tasks.py:148-150` | read and UPDATE are two statements (`tasks.py:162`) | `HaltNotClobbered` | `Control.cfg` |
| "record one PushRecord per delivered content" | `distributor/digest_dispatch.py:4-6` | every item of the window is recorded (`digest.py:126`), the template shows five of a section (`daily_brief.py:39`) or the first (`topic_deepdive.py:23`) | `RecordedIsDelivered` | `Digests.cfg` |
| "同一内容对同一用户同一渠道不重复推送" (no content twice to one user on one channel) | `prd/prd-intellisource-v1.md:157` (AC-044) | gate, send and record are separate (`distributor/facade.py:182`) | `NoDuplicates` | `Pushes.cfg` |
| "记录失败，下次批次重试" (record the failure, retry in the next batch); also AC-045 | `arch/arch-intellisource-v1.md:302`, `prd/prd-intellisource-v1.md:158` | the gate takes a record of any status for a push (`storage/repositories/push.py:33`) | `FailedIsRetried` | `Pushes.cfg` |
| "试探成功则关闭熔断（Closed），失败则继续 Open" (a probe that succeeds closes the breaker, one that fails leaves it open) | `arch/arch-intellisource-v1.md:310` | a failure counted before the breaker opened is written after it, and closes it (`llm/circuit_breaker.py:134`) | `ClosedByProbe` | `Gateway.cfg` |
| "API/CLI 的热编辑是临时态，下次 `reload` 会被 YAML 覆盖" (hot edits are overwritten by the next reload) | `config/README.md:55` | a reload of sources leaves the status, so a pause stays (`storage/repositories/source.py:50`): `PausedStays` is what the code keeps to, and this line the opposite | `YamlOverwrites` | `Catalog.cfg` |
| "配置文件格式校验失败时，系统拒绝加载 …，不影响已有配置" (a file that fails its check is refused and affects nothing) | `prd/prd-intellisource-v1.md:58` (AC-003) | the file is skipped and its subscriptions, not named by any other, are paused (`config/subscription_loader.py:76`) | `RefusedFileIsHarmless` | `Catalog.cfg` |
| "a name already present in the database is skipped, so DB edits are never clobbered" | `pipeline/definition_service.py:137-138` | the names are listed once and upserted later, over the row that is there by then (`definition_service.py:142`, `:148`) | `SeedsClobberNothing` | `Deployment.cfg` |
| sessions without activity for 30 days are cleaned up | `arch/arch-intellisource-v1-data.md:297` | `last_active_at` is null until the second turn, and null is not before anything (`storage/repositories/chat_session.py:67`) | `InactiveSessionsGo` | `Chat.cfg` |

Two more have no definition, since nothing depends on them in a model: `arch-v1`
line 303 promises two retries of a failed database operation, and the code has
none; the data model (lines 62 and 65) gives `sources.type` and `sources.status`
CHECK constraints, and no migration creates them.

## What else the models show

The models describe the program as it is. Where that is less than a reader might
expect, though no document promises it, the properties are stated around it; these
are the places.

Tasks and runs
* A run that is faster than the commit of its batch leaves its row pending
  (`api/routers/tasks.py:265`); a crash leaves the row running.
* An empty feed makes the process step degraded, and the run fails.
* The output of a retried step is not merged, so the next tool falls back on what
  the context held; later runs find the rows (`ListedIsOffered`).
* One item whose processing raises blocks those behind it in a run.
* `backfill_embeddings` never commits its session (`scheduler/tasks.py:520`).
* The rate limiter, proxies and adaptive interval belong to `fetch()`, which no
  production path calls.

Distribution and digests
* A refused WeChat token stays in the cache until it expires.
* A rule with `min_score > 0` matches nothing, because no content has the
  credibility that the score multiplies by (`scorer.py:22`).
* Subscriptions with frequency `hourly` are served by nobody.
* A row that commits after a digest with a later watermark was sent, or that does
  not fit in the window of 200, is in no digest (`digest_dispatch.py:100`,
  `periodic.py:34`): `LossExplained` excepts
  these, and what a template left out.
* The digest task does not refresh its template registry (`digest.py:94`).

Agent and chat
* A confirmed call that is refused appends a tool message without a call
  (`flexible.py:857`); `SentHistoryPaired` excepts it.
* Two turns of one session overlap and one of them is lost; so is a turn whose
  row the cleanup removes. Two first messages of a messenger user create two rows,
  and from then on neither is used (`storage/repositories/chat_session.py:36`).
* A messenger user whose platform refuses the answer and then the fallback text
  (a dead token, say) gets nothing, and nothing retries: `RepliedOrRefused` says
  that this, and a process that dies, are the only ways.
* A summary that compaction stores is not replayed.
* A webhook that the platform repeats is answered twice.
* A row of the call log that cannot be written is dropped silently
  (`llm/gateway/_retry.py:108-129`): `Audited` counts it as lost.

Configuration and definitions
* One bad entry keeps its whole file out, without an error in the answer.
* A row that a POST, PATCH or DELETE commits between the SELECT of a sync and its
  commit stays as that request left it (`SyncIsExact` names these in `stale`). A
  subscription whose status was PATCHed to a string other than `paused` is not
  reactivated by a sync (`storage/repositories/subscription.py:136-137`).
* The labels of reloads are always "1", so only the first reload of each table is
  recorded (`source/service.py`, `config/loader.py:195`).
* A source that was deleted is not reactivated by reloads or topics
  (`PausedStays`), a subscription is; duplicate names are invisible to a sync.
* A patch of a source or subscription is not validated. Overlapping patches of a
  pipeline take fields back; one whose second SELECT finds the row gone re-inserts
  it.
* A null for `tags` of a source or `formats` of a template that a tool of the agent
  passes on is stored as a JSON null. The source then fails `GET /sources`, the
  template `db_template_from_row` (`distributor/templates/db_template.py:36`), until
  the field is set again: the one exception of `RowsLoad`.
* An active template that does not load ends the hydration of every template after
  it (`db_template.py:93-96`), and the push goes on with what was registered
  (`distributor/facade.py:281-288`): `RendersCurrent` excepts these pushes.
* A shipped pipeline that was deleted is seeded again at the next start
  (`pipeline/definition_service.py:137`); a deleted template stays registered in
  the processes that know it.
* Compose lets the first start of the API wait for the migration
  (`src/docker/docker-compose.yml:92-93`), but not worker and Beat, nor a restart: Beat
  can start with an empty schedule, which it keeps (`scheduler/boot.py:284`). The
  model lets any process start at any time.
* The resize of the vectors fails, in either direction, on stored embeddings.

## Not modelled

* Search (`search/hybrid.py`, `storage/vector.py`): SQL and score arithmetic over
  floats, one query per call, no state.
* Read-only routers, middleware, setup commands (`cli/commands/init.py`,
  `stack.py`, `doctor.py`), observability: input, output and counters that
  nothing reads back.
* Within modelled components: layout and text of messages, prompts and prices,
  token estimates, the condition language of pipeline steps, signatures of
  webhooks and confirm tokens, digests that an LLM writes (and from which it may
  drop items of its own accord), the connection pool, the arithmetic of intervals
  and quiet hours (their outcome is a choice), `cluster` work of the worker.

`PROJECT.json` lists every component with what of it is modelled, every hazard
of the code with the properties about it, and for every definition the source
lines it stands for.

## Plan

* Models that could grow: the condition language as a recursive function, quiet
  hours and next send time as pure operators, two tables at once in `Surfaces`.
