# A verification project for unagnt

unagnt runs LLM agents: a server (`unagntd`) takes run requests over HTTP, from
webhooks, triggers and schedules, queues them, executes them with retries,
streams their events, and stores rows, events and dead letters. Agents call
tools behind a policy and an approval gate. Workflows compose agents into a DAG
with checkpoints. Around this core there are services a run relies on (policy
versions, context, replay, delegation, sessions) and a control plane (costs,
plugins, templates, operators, backups, scaling). This directory holds TLA+
models of those parts, TLC configurations that check them, and TLAPS proofs of
their main properties.

Checking everything:

    tlc -workers 2 -config MCRunnerFaults.cfg Runner       # one line per run below
    tlapm RunnerProofs.tla                                 # and the other *Proofs.tla

`PROJECT.json` lists components, runs, mutants, findings, hazards and theorems,
and maps every definition to the source lines it models.

## 1. Inventory

The core, one module or more for each part, and proofs:

| part | source | modules | what is hard |
|---|---|---|---|
| run pipeline | `pkg/orchestrate/runner.go`, `queue_memory.go`, `server.go`, `webhook.go` | `Runner`, `RunEvents` | full queue, cancel against backoff, separate writes that fail singly, crash |
| event hub, SSE stream | `pkg/observe/eventhub.go`, `pkg/orchestrate/stream.go` | `EventHub` | dropped events, closing while publishing, late subscribers |
| DAG and executor | `pkg/workflow/dag.go`, `executor.go`, `state.go` | `DAG`, `WorkflowExecutor` | goroutines of a level, crash between two writes, resume |
| agent engine, policy gate, approvals | `pkg/runtime`, `pkg/tool/policy_executor.go`, `pkg/policy/approval_queue*.go` | `AgentEngine` | late and repeated decisions, timeouts, lost requests |

The services a run relies on:

| part | source | module | what is hard |
|---|---|---|---|
| run and replay commands | `cmd/unagnt/run.go`, `replay.go`, `pkg/replay`, `runtime/replay.go` | `RunReplay` | verdict of a replay, position of the cursor |
| recorder | `pkg/replay/recorder.go` | `RunReplay` | writes to a snapshot that was handed out |
| policy versions | `pkg/policy/version_store.go`, `cmd/unagnt/policy.go` | `PolicyVersions` | three statements and a file without a transaction |
| simulation and tests of policies | `policy/simulator.go`, `test_runner.go` | `PolicySimulator` | versions that change under a test |
| audit log | `policy/audit.go`, `pkg/api/analytics.go` | `PolicyAudit` | statistics in two queries, the second limited |
| Redis run queue | `orchestrate/queue_redis.go` | `RedisQueue` | idle timeout, lost answers, crash after the pop |
| rate limiter | `orchestrate/ratelimit.go` | `RateLimiter` | refill, windows, late requests |
| dead-letter pruner | `orchestrate/deadletter_pruner.go` | `DeadLetterPruner` | archive or prune fails, a file is replaced |
| step workflows | `orchestrate/workflow.go` | `StepWorkflow` | status and outputs after errors, parallel writers |
| context | `pkg/context` | `ContextAssembly` | order and budget, concurrent providers |
| knowledge store | `context/knowledge_store.go` | `KnowledgeBase` | chunk boundaries, ingesting again |
| debugger | `workflow/debug.go`, `pkg/api/workflow.go` | `DebugSession` | signals left over or dropped |
| delegation | `runtime/delegation.go` | `Delegation` | identifiers of one second, names that begin with `async-` |
| collaboration | `pkg/collaboration` | `Collaboration` | bounded channels, leaving while a message is routed |
| sessions | `pkg/auth/session.go` | `Sessions` | a late stamp on a revoked session |
| risk and compliance | `pkg/risk`, `cmd/unagnt/risk.go` | `RiskEngine` | thresholds, a report in three queries |

The control plane:

| part | source | module | what is hard |
|---|---|---|---|
| costs and budgets | `pkg/cost`, `cmd/unagnt/costs.go` | `CostBudget` | a flush that fails or is the last, alerts by several callers |
| SLA monitor | `pkg/monitoring/sla.go` | `SlaMonitor` | counters read after the unlock |
| model performance | `pkg/mlops` | `ModelPerformance` | bounded buffer, percentiles |
| plugin registry | `pkg/registry` | `PluginRegistry` | file and row, review and rating |
| plugin watcher | `registry/watcher.go` | `PluginWatcher` | events that are old when handled or never come |
| plugins on disk | `pkg/tool`, `cmd/unagnt/plugin.go` | `PluginHost` | reload while in use, close in two steps |
| workflow command | `cmd/unagnt/workflow.go` | `WorkflowCLI`, on `DAG` | edges in the order of a map |
| templates and marketplace | `registry/workflow_marketplace.go`, `workflow/templates.go` | `TemplateMarket` | running mean, two statements |
| workflow operator | `k8s/operator/workflow_controller.go` | `WorkflowOperator` | lagging cache, restart between two calls |
| agent and policy operators | `agent_controller.go`, `policy_controller.go` | `ClusterOperator` | edits while reconciling |
| backups | `backup/manager.go` | `BackupManager` | object and record, shared temporary files |
| replicas | `backup/region.go`, `manager.go` | `BackupManager` | pings and records in two steps, one lock for some of them |
| edge sync | `pkg/sync`, `pkg/api/sync.go` | `EdgeSync` | bundles cut or half applied, old rows |
| autoscaler | `autoscaling/scaler.go` | `Autoscaler` | policies replaced during an evaluation, errors of calls that took effect |

Handlers submit to the run pipeline. The pipeline executes an attempt through
the agent engine and publishes to the event hub. The engine and the approval
nodes of workflows share the approval queue. The executor and the workflow
command take their levels from the DAG. `RedisQueue` is the other backend of the
pipeline's queue, `DeadLetterPruner` removes what the pipeline buried.

## 2. Modules

`RunEvents` is what consumers of a run's events may rely on: `Runner` implements
it, `EventHub` extends it as its publisher. `RunnerWorkerProofs`, `RunnerProofs`,
`EventHubProofs`, `WorkflowProofs`, `EngineProofs`, `OperatorProofs`,
`PolicyVersionProofs` and `DelegationProofs` hold the theorems. The modules whose
name begins with `MC` give constants for TLC; `MCServices` and `MCControlPlane`
compose the services and the control plane (below). A definition whose comment
says "Mutant" is a changed form of the one after it, used to see that a
property notices the change.

### Runner

`ingress[r]` is the progress of the handler that submits run `r`; `wpc[w]` is the
place of worker `w` in `Runner.execute`. One action stands for the code between
two points where another goroutine or a crash can interfere: a save, an event, an
attempt, a wait. `CreateRun`, `ReplayDeadLetter` and `WebhookRun` save a pending
row, `SubmitSaved` enqueues, `RejectRun` and `FallbackRun` are the two reactions
to a full queue, `SubmitUnsaved` is the way of triggers and schedules. A store
call fails when its context is done, and may fail at any time under
`StoreFaults`; a request context cancelled during a save is such a failure.
`PersistTimeout` is the 2 s limit of the context of the final writes. Agent, goal,
payload and time are left out. A run id is fresh, so it is submitted once.

### EventHub

An event is its position in the log of its run. `Publish` is atomic: it holds the
read lock, its sends do not block, and its channels are independent. A stream
is `new`, in its `loop`, `leaving` (returned, before the deferred Unsubscribe) or
`gone`. `UnsubscribeAll` is exported and has no caller outside tests; it is
included. A stream is `Roomy` when its channel can hold what its run has still
to publish when it subscribes: only such a stream is promised every event. Events are taken to be marshallable: the `continue` for one that
is not, which would also pass over a terminal event, is left out.

### WorkflowExecutor and DAG

`DAG` translates the algorithms: `hasCycleDFS` threads the visited and recursion
sets, `Orders` are the orders in which Go may range over a map, `edges[n]` is a
sequence because edges may repeat. `WorkflowExecutor` is for any DAG whose
dependencies are on lower levels, which is what `PlanFollowsFile` establishes
for `GetExecutionLevels`; `MCWorkflowExecutor` checks its instance against
`DAG`. A goroutine goes from its condition through the node to `SaveNodeState`.
`LoadNodeStates` may leave out stored rows, as the code does with rows it cannot
scan and with a result that is cut short; `lost` are the nodes of those rows.
State store and condition evaluator are taken to be configured. `Node.Timeout`
and `Node.Retry` are read by nothing and have no place in the model. The race
on the outputs map is modelled by its fatal outcome (`Crash` under
`RaceOnOutputs`), besides the outcome where nothing happens.

### AgentEngine

A run or an approval node `w` waits for the call `<<w, step>>`; request ids are
UUIDs, so a call stands for its request. `Durable` is the set of runs and nodes
whose queue is the SQLite one, whose calls fail when the context is done or under
`QueueFaults`; the memory queue ignores contexts and is lost in a crash. `Decide`
is a person at the API, at any time after the request was made. A decision on a
request that is unknown or resolved changes nothing and has no step. Policy,
planner and tools answer by choice. The
approval webhook and a policy without an approval gate are not modelled.

### Services and control plane

The services share no state with each other in the program, nor do the parts of
the control plane. `MCServices` and `MCControlPlane` therefore have one variable
`focus`, chosen by the first state, that says whose steps are explored: the
other variables keep their initial values, and a run is the union of the state
graphs of the parts. Each module has its own `Init` and `Next` under a name of its
own (`PolicyInit`, `PolicyNext`) and prefixes its variables.

In these modules a command or request that makes several statements, calls or
unlocks in between is a record with a program counter, one action per
statement, so that other callers come in between: `SaveDeactivate`, `SaveFile`,
`SaveInsert` for `SaveVersion`; `GetSession` and the later stamp of
`updateLastActivity`; the two queries of `GetStats`. What is one statement or
runs under one lock is one action. Failing calls are an alternative of the action
with the code's error path. History variables (what a caller was
shown, when a version cleared the others, what was owed to a channel) are only
read by properties.

- `RunReplay` has the run command with the history, rows and snapshot it
  writes, the five replay modes with their verdict, and the planner and executor
  that feed a history back into an engine; its second part is the recorder, from StartRecording to
  StopRecording with the switches of its configuration.
- `PolicyVersions` has processes that save, activate and delete versions; the lookup
  of a deletion may fail, which the code takes for no active version.
  `PolicySimulator` evaluates the rules of a version on past events and on test
  files while versions change; documents that are not JSON take the code's other
  branch. `PolicyAudit` logs, counts, lists and exports; `TopReasons` is the choice
  that order and limit leave to the database.
- `RedisQueue` has the list, workers that block in BRPOP and end for good after an
  idle timeout or an error, with or without an item popped for them, pushes that
  ran twice or ran and reported an error, items that do not decode, the execution
  by a webhook's handler, and restarts. `RateLimiter` has integer time,
  the bucket in memory and the sliding window of the script.
  `DeadLetterPruner` archives and prunes beside new dead letters; a file is known by
  run id and second, and a failed write may leave it truncated.
- `StepWorkflow` runs sequential and parallel steps with conditions, error modes
  and output keys. `ContextAssembly` fetches from providers that may run in
  parallel, sorts and cuts to budgets. `KnowledgeBase` splits texts into
  overlapping chunks, given as sequences of word lengths.
- `DebugSession` has breakpoints, the one-slot resume channel and two callers.
  `Delegation` has calls, identifiers made of a name and a second, and the result
  table; `AsyncName` is the agent's name behind `async-`, which may be another agent's. `Collaboration` has registration, routing that takes a snapshot of
  channels, full buffers and the workspace. `Sessions` has lookups whose stamp is
  written later. `RiskEngine` computes scores as exact fractions; a
  report may miss rows it cannot read.
- `CostBudget` tracks, swaps and flushes a buffer up to the one flush after `Stop`,
  answers `GET costs` by two queries, and guards a budget for two checkers. `SlaMonitor` and `ModelPerformance` keep counters and a bounded buffer.
- `PluginRegistry` publishes a file and then a row, and inserts a review and then
  recomputes the rating. `PluginWatcher` walks a directory with a
  subdirectory and handles queued file events, reading a file as it is by then;
  events may be lost, and none come from the subdirectory or when `Add` failed. `PluginHost` loads,
  reloads and closes modules. `TemplateMarket` publishes, rates and installs.
- `WorkflowCLI` builds a `DAG` from a file, with edges in any order, since the code
  ranges over a map.
- `WorkflowOperator` and `ClusterOperator` reconcile against an API server with
  revisions: a cache that lags, calls that fail, answers that are lost, restarts between two
  calls, users who edit meanwhile. API server and pods are external.
- `BackupManager` dumps into a temporary file, stores an object and then its row,
  and cleans up; restores go up to the point where the code gives up. `storage`
  is the repository's `S3BackupStorage`, which accepts uploads and stores nothing, or one that
  keeps them. Its second part has health checks that ping a replica and then write its
  record, replica by replica, with and without the router's lock, while reads choose.
  `EdgeSync` pushes and pulls row by row. `Autoscaler` evaluates policies that
  may be replaced during an evaluation, and `Scale` may take effect and still fail.
  A user who deletes the Deployment of an agent is not in `ClusterOperator`.

## 3. Runs

| run | instance | shows |
|---|---|---|
| `runner_faults` | 2 runs, 1 worker, queue of 1, 1 retry, store faults, slow runs, 1 crash | dead letters only of failed runs, one callback, terminal rows are final |
| `runner_workers` | 2 runs, 2 workers, queue of 1, 1 retry, no faults, fair | a run is in one place; `Runner` implements `RunEvents`; queued runs settle; a cancelled run is not recorded as failed |
| `hub` | 2 runs, 2 streams, buffer of 2, `UnsubscribeAll`, fair | events in order, nothing lost to a `Roomy` stream, streams end |
| `workflow` | join of 4 nodes, 3 calls, store faults, cancel, crash, fair | dependency order, checkpoints, a recorded node is run again only if its row was not read, calls return |
| `engine` | 1 run of 2 steps and 2 approval nodes, on SQLite and memory queues, queue faults, crash, fair | approval before every gated call; decisions and done contexts release who waits |
| `services` | the sixteen services, one at a time | fourteen invariants, below |
| `control_plane` | the fourteen parts, one at a time | eight invariants and two action properties, below |
| `runner_buried` | slow runs | finding: no dead letter after 2 s |
| `workflow_outputs`, `workflow_failed` | 2 calls | findings about Resume |
| `engine_manual` | 1 run | finding about the autonomy level |
| `sync_conflict` | 2 edge nodes, 2 runs, no faults | finding: an older row replaces a newer one |

What `services` checks:

- `RecordsTrustworthy`: a replay shows the run's own calls and judges them rightly, a fed-back
  history stays aligned, a recording is not changed after it ended.
- `OneActiveVersion`: two versions are active only after overlapping activations,
  none only after a save that did not finish or a deletion whose lookup failed or
  was overtaken.
- `SimulationAccounts`: the first matching rule decides, and counts and reasons
  account for every action, although versions change meanwhile.
- `StatsAccount`: the reasons add up to more than the denials only by decisions
  that arrived in between, and to fewer only when their limit is used up, which leaves
  out rarer ones; listings omit nothing but what the limit cuts.
- `TakenOnce`: every push is waiting, executed once or popped and lost; a run is
  executed twice only when its push ran twice, or ran and was refused.
- `WindowRespected`: at most twice the limit passes in any window in memory, the
  limit with Redis; only a limit of 0 locks the map for good.
- `ArchiveKept`: nothing is pruned that turned old after the listing; what was
  written to the archive stays whole unless its file name is used again.
- `StepResultsExact`: outputs do not depend on the order in which parallel steps end.
- `ContextFaithful`: budgets hold in order of priority; chunks cover a document.
- `ResumeNotLost`: an execution that should go on has a token to take, and nodes
  run once and in order under any pausing and stepping.
- `ResultBelongs`: a delegation's result is of a call with the same identifier, and
  of the same agent but for names that differ by `async-`.
- `MessagesAccounted`: a route reaches every open channel with room once, in order.
  An agent cut off because its id begins with that of one who unsubscribed is
  excused, as the code does that.
- `SessionsHonest`: no late stamp brings back a revoked session, and requests are
  served only on sessions that had not expired at their lookup.
- `RiskConsistent`: a riskier action is treated more mildly only where the approval
  threshold lies above the critical one; a report counts every assessment of its
  period that it could read once.

What `control_plane` checks:

- `CostsAccounted`: every amount is in one place through failing flushes, what stays
  in memory after `Stop` is what was tracked after the last flush, and reports of one
  window agree, or differ by a flush between two queries.
- `MonitoringAccounts`: reports stay within what was recorded, uptime is judged
  rightly at both ends, every sample is in one snapshot.
- `RegistryConsistent`: a row's artifact is on disk; the rating is the average,
  but for the named failures.
- `PluginsServed`: the watcher ends with the last state of every file of whose last
  change it was told or which it loaded since; the host
  serves open modules only, validation counts each manifest once.
- `PlanFollowsFile`: cycle check, levels and order agree with their definitions for
  every graph of the bound; acceptance of a file does not depend on map order.
- `MarketAccounts`: mean and downloads are exact under interleaved requests.
- `CopiesReliable`: a recorded backup was accepted by the storage and is a whole dump
  unless its temporary file was shared, a cleanup takes only what is past retention,
  reads never mix two refreshes, push and pull agree with the server.
- `ScalingPaced`: a policy object that scaled with success does not scale again
  within its cooldown, nor out of bounds.
- `PhaseFollowsJob`: a phase is backed by what the job did, and a job by a typed map.
- `ReconciledInOrder`: a service selects the pods that exist; a policy becomes
  active only on complete rules.

Why the bounds are enough: two runs and a queue of one make the queue full and
put a run behind another one; two workers let one overtake the other; one retry
gives an attempt that may be repeated and one that may not; one crash reaches
every point of a single execution, and a second one starts from the same kind of
state. Two streams let one leave while the other is served; a buffer of 2 for a
run of 3 events overflows for a stream that subscribes first and has room for one
that comes after the first event. The join has two nodes on one level and
dependents two levels deep, and three calls are one execution and a resume of a
resume. Calls of different runs of the engine share no state but the queue, in
which they have different requests.

In the composed runs, two callers, processes or checkers interleave wherever the
code lets them, and a third would repeat what two can do to each other:
the statements of one command are at most four, and the properties relate pairs.
The sets of configurations, documents, uploads, manifests and files in the MC
modules have one member for each branch of the code they go through. Limits are
the smallest that are both reached and passed: a page of 1, a batch of 2 for three letters of
which two share a file name, a buffer of 2 for three samples, five permissions,
a channel of 1 for two messages, a bundle of 1 for two runs, one listed reason of two,
two versions of a template, a window of 4 ticks in 7.
Agent identifiers `a` and `ab` begin with each other, since the code
unsubscribes by prefix. Graphs have up to 4 nodes and 3 edges, which gives a
diamond's halves, every cycle up to length three and a repeated edge. An operator reconciles
three times with two ticks of the clock, one edit and one failed pod, which is enough for a status
computed from a copy that an edit has overtaken. Both runs say
`CHECK_DEADLOCK FALSE` because a bounded instance stops when its bounds are used up;
the other passing runs check deadlock.

Fairness. Goroutines are scheduled (`WF` on a worker's, a handler's, a stream's or
the executor's steps), and what they wait for returns: an attempt is bounded by
the agent's timeout and steps, a node likewise, a ticker fires. Submissions,
cancellations, decisions, timeouts, failures of a store or queue and crashes are
never fair: a run that waits for a pending approval may wait forever. `StopNode`
has strong fairness: a sleeping approval node alternates between sleeping and
polling, and Go's `select` takes a ready case at random, so the done context is
taken eventually. The composed runs state safety only.

## 4. Findings

Each violated property states what a document or comment says; the trace shows
what the code does. Details and quotes are in `PROJECT.json`.

1. `runner_buried`: runs that fail later than 2 s after their start leave no dead
   letter (`runner.go:104`).
2. `workflow_outputs`: after a crash between node row and checkpoint, Resume
   skips the node and has lost its output (`executor.go:338`).
3. `workflow_failed`: Resume skips failed nodes and reports completion
   (`executor.go:386`).
4. `engine_manual`: the autonomy level is not consulted (`policy_executor.go:22`).
5. `sync_conflict`: a bundle's row replaces a newer one (`local_store.go:77`),
   while the guide says that the newer one wins.

Met while modelling, without a run of their own:

- A stream opened after the end of its run waits for a terminal event that was
  published before, and ends when its client leaves (`stream.go:32`;
  `docs/adr/0006-sse-streaming.md:121` has "On completion/error, stream closes").
  `StreamEnds` is therefore about streams that subscribe before the end.
- A condition is evaluated on the outputs map without the mutex its siblings
  store under (`executor.go:174` and `:221`); the Go runtime may end the process.
  The model has that outcome: `Crash` under `RaceOnOutputs`.
- Edges point from a node to the nodes that run after it, while names and
  comments call them dependencies (`dag.go:342`).
- Approve and Deny answer with success for a request that is unknown or
  resolved (`server.go:546`; `docs/runbooks/approval-queues.md:34` has a 404).
- `LoadNodeStates` passes over rows it cannot scan and does not ask whether the
  reading was cut short (`state.go:155`), so Resume may execute a recorded node
  again and reports no error (`lost` in `WorkflowExecutor`).
- `DeleteVersion` refuses the active version only if its lookup succeeds
  (`version_store.go:292`); when that fails, the active version may be deleted.
- The statistics of the audit list ten reasons at most (`audit.go:237`), so with more
  of them the listed ones do not account for all denials.
- A worker of the Redis queue ends for good when BRPOP times out on an idle list or
  fails, and then an item popped for it is lost. A push that ran and reported an
  error leaves an item whose run is also executed by the webhook's handler, or has
  a row that says failed.
- The pruner deletes every old dead letter, also those beyond its batch of 5000, those
  whose archiving failed and those whose file was replaced by another letter's of the
  same name, while `docs/runbooks/dead-letter-retention.md:23` has "dead letters are first
  archived". A failed write may truncate an older archive file.
- A rate limit of 0 divides by zero while the mutex of the map is held.
- An asynchronous delegation that succeeds is stored under an identifier its
  caller does not have (`delegation.go:111` and `:49`), although `:140` has it
  retrieved; a call to an agent named `async-x` shares identifiers with the
  asynchronous calls to `x`.
- With its default weights a risk score reaches about 0.82 at most, so nothing is denied by
  default (the assumption `DefaultsNeverDeny` of `MCServices`;
  `docs/guides/risk-scoring.md:153`). Where `RequireApproval` is set above
  `ThresholdHigh`, as in `docs/guides/risk-scoring.md:590`, scores between the two are
  plainly allowed while lower ones are logged; one configuration of the run is such
  a one. `GetStats` passes over rows it cannot read (`analytics.go:75`).
- `ListUserSessions` scans a NULL address into a string and leaves the row out, and
  storing never sets the address: the list is empty (`session.go:127` has "lists all
  active sessions for a user").
- The knowledge store ingests under the name of the source and searches under
  `knowledge`, while `knowledge_store_test.go:40` and `docs/EMBEDDINGS.md:190` ingest under
  another name and search; files with one base name overwrite each other; a shorter text
  leaves chunks of the longer one behind. A knowledge provider with embeddings and
  without a manager dereferences nil (`ManagerForKnowledge` rules it out).
- The rows the SLA monitor flushes count flushes, not requests, and are all marked
  as successes, so the error rate of a report is always 0 (`sla.go:11` has "tracks SLA metrics
  (uptime, latency, error rate)").
- After `Stop` the cost tracker flushes once; what is tracked later stays in memory
  (`tracker.go:159`). Without a tenant, `GET costs` pairs the total of all with the
  agents of the tenant named by the empty string.
- The watcher loads files of subdirectories and is told of no change to them; a
  failed `Add` and lost events are only logged (`watcher.go:50`, `:107`), and a
  rename is ignored. `plugin validate` does not lower the case of a type, loading does.
- `S3BackupStorage` accepts uploads, stores nothing and cannot download, and
  `restoreDatabase` always fails (`backup/manager.go:270`, `:169`). Backups of one type and
  second, and restores of them, share a temporary file: a recorded object may be half
  a dump. A health check writes an old ping over a newer one, since `CheckHealth` takes no lock.
- A policy that replaces another one under its id scales at once, and so does one whose
  last call of `Scale` took effect and returned an error (`scaler.go:215`).
- A scheduled workflow of the operator runs once: its job keeps its name and the
  phase stays finished (`workflow_controller.go:90`, `k8s/README.md:80`).
- Two backups recorded in one second have one id, so the second is refused and its
  object stays without a row.
- A push always sends from the beginning of time, at most 500 rows, and leaves
  out rows it cannot read.

## 5. Proofs

All theorems hold for every value of the constants under the named assumptions
(`RunnerAssumption`, `EventHubAssumption`, `WorkflowAssumption`,
`EngineAssumption`, `OperatorBounds`, `DelegationNames`), which only give the constants
their types, keep placeholders out of the sets, and require that
dependencies are on lower levels. That different agents have different names behind
`async-` (`AsyncNamesDiffer`) is how the code forms them.

`RunnerProofs`. `IInv` says what a run looks like from outside at each point of
its way: nothing published, decided or called back before and in the queue
(`Fresh`); begun and without a terminal event while it is attempted (`Started`);
announced once with its verdict afterwards (`Announced`). `OnePlace` is part of
it, because a step of a worker must not disturb another worker's run. Neither
`EventOrder` nor `CallbackOnce` is inductive without it. One lemma per action
shows that the action keeps `IInv` (those of a worker's steps are in
`RunnerWorkerProofs`); the theorems follow, and so does the refinement of
`RunEvents`, for which the number of published events and of attempts are tied to
each other.

`EventHubProofs`. `NothingLost` of a `Roomy` stream needs the bound on the log of
a run (`LogBounded`) and that a stream has nothing before it subscribes
(`SinceBounded`). `InOrder` needs that what a client has got, followed by what its channel
holds, is increasing (`Ordered`) and within the log, so that an event
published now goes to the end.

`WorkflowProofs`. The invariant follows the position of the call: nodes passed are
settled, nodes ahead are untouched or belong to an earlier call, outputs and
checkpoint agree level by level. A stored row is what its call goes by unless the
call did not read it (`lost`), so `RecordedStaysDone` excepts exactly those nodes.

`EngineProofs`. The invariant ties request, decision and place of the waiting run
to each other; a gated call about to be made has been approved.

`OperatorProofs`. A cached object of the stored revision is the stored object
(`CacheBehind`). As long as a reconcile's copy has the stored revision, what it is
about to write is a legal move from the stored phase (`CopyMoves`); every other
write raises the revision, after which the API server refuses the copy. What the
controller has seen of the job may be old but is never taken back. The agent and
policy controllers need the same of labels and rules.

`PolicyVersionProofs`. Between a save's UPDATE and its INSERT, whatever is active
became so after the UPDATE (`SaveCleared`); hence, when its row goes in, each of
two active versions cleared the others before the other became active. A deletion
whose lookup answered "none" can take the last active version only if it was activated
since; `polLost` tells that from a lookup that failed or found another version.

`DelegationProofs`. Every stored or given result is of a call that has ended and made
the identifier (`Of`). Errors are stored under a name behind `async-`, the rest under
the agent's own, and equal identifiers have equal names; this leaves the agent itself,
or one whose name is the other's behind `async-`.

Only model-checked: all liveness properties (`QueuedRunSettles`,
`CancelTakesEffect`, `StreamEnds`, `CallReturns`, `DecisionReachesWaiter`,
`StoppedEnds`), since the prover has no rules for fairness; `DAG` and `WorkflowCLI`,
whose algorithms are recursive operators; and the other properties of the
composed runs, many of which sum over folds, which would take induction over data.

## 6. Not modelled

`PROJECT.json` has a reason for each part that is `not_modelled` and says what is left
of those that are `partly` modelled. In short:

- Clients of services (language models, MCP, vector stores, object storage, sign-on,
  remote plugin sources): their answers are choices where the code uses them.
- Text: rule matching and conditions in an expression language, templates,
  model routing, diffs of policies, diagnostics, exports' layout.
- Placeholders and commands that print fixed text: the model registry, workflow
  status and list, plugin search, install, update and publish, risk statistics and trend,
  the context command, point-in-time recovery, log archives, the predictive
  scaler and its back ends, parts of the snapshot store.
- Statistics over floating point values: A/B tests and the risk trend.
- Cryptography, access control and tenancy, which are outside the aim of this project.
- Views that only read (REST, GraphQL, metrics), configuration, license, the client
  SDK, demos, and generated code.
- Of the scheduler and the trigger bus: cron timing and subscriptions; how they
  submit a run is in `Runner`. The approval webhook.
