# TLA+ models of Gooseherd

Gooseherd takes requests (Slack, dashboard, command line, observer triggers, work items), turns
each into a *run* of a coding-agent pipeline, and follows the pull requests that come out of it
through CI and review. This directory holds TLA+ models of the parts where order, crashes and
stale reads decide whether that is done correctly, the TLC configurations that check them on small
instances, and TLAPS proofs for instances of any size. Source paths below are relative to
`src/src/` (the repository's own `src/`).

## Inventory

What each part keeps, what it does, whom it talks to, what is hard about it, and when it is right.

| Component | State | Operations | Talks to | Hard | Right when |
|---|---|---|---|---|---|
| Run manager `run-manager.ts` | PQueue tasks, retry markers, abort controllers (all lost in a crash) | enqueue, retry, continue, promote a conversation, cancel, processRun, terminal callbacks | store, backends, callbacks | every await is a place where a cancellation, a report or a crash gets in | a run is executed once at a time, none is forgotten, callbacks fire once, the verdict is justified |
| Run store `store.ts` | table `runs` (status and phase written together) | create, update (no compare-and-set), promote, recover | run manager, CLI, dashboard | read-then-write without a transaction | rows move only as the status contract says |
| Startup recovery `runtime/startup-recovery.ts` | none | rewind interrupted rows, requeue them | store, run manager | runs of other processes share the table | each interrupted run is queued again, once |
| Local trigger `local-trigger.ts` | one run in its own process | insert, execute, report | store | its rows are in the server's table | the server never executes them |
| Backends `runtime/*-backend.ts` | an execution | execute, abort | pipeline engine | – | an execution returns or throws |
| Pipeline engine `pipeline/pipeline-engine.ts` | context bag, loop and jump counters, sandbox handle | nodes, gotos, loops, skips, abort | nodes, containers, phase callback | jumps, loops and the nested walk behind `setup_sandbox` each have a budget of their own; the abort signal is read between nodes only | finite, no failure is lost, no container stays |
| CI loop `pipeline/ci/` | `commitSha`, the working copy | wait for checks, agent rounds, local test, push | GitHub, agent | a push may fail after it arrived; the agent may rewrite history | a success was seen on the last pushed commit |
| Branch rewriting `pipeline/nodes/` (clone, sync_base_branch, resolve_rebase_conflicts, squash, push) | refs of the clone, the lease | rebase, squash, push with a lease | GitHub, agent | people push to the same branch meanwhile | nobody's change is lost, the rewritten head has its CI |
| Feature delivery state machine `work-items/feature-delivery-*.ts`, `workflow-policy.ts` | none (pure) | reducer, review policy, transition table | all writers of work items | three tables that have to agree | decisions are accepted in full, gates are kept |
| Work item store `work-items/store.ts` | table `work_items` | updateState and linkPullRequest under an advisory lock | all of the following | the lock covers the write, not the read before it | transitions follow the table |
| GitHub webhooks `work-items/github-sync.ts` | none | pull request, check suite, review | reducer, store, GitHub, orchestrator | several awaits per payload; payloads of old heads | items follow the pull request |
| Orchestrator `work-items/orchestrator.ts` | none (one transaction per launch) | reconcile, triage verdict, rerun, progress, rollback | store, run store, run manager, GitHub | decisions taken inside the run they are about | one system run at a time, a bounded number of reruns, every verdict followed up |
| Branch sync monitor `work-items/branch-sync-monitor.ts` | none | poll pull requests, recover stuck items | GitHub, store, orchestrator | works on a list it read long ago | nothing that needs help is left alone |
| Run checkpoints `runs/` | table of checkpoints | emit, process, replay at startup | orchestrator | processed, then marked: a crash in between repeats it | each has its effect, and a repetition costs one rerun at most |
| Control plane, runner, Kubernetes backend, reconciler `runtime/`, `runner/` | tokens, events, completion, cancellation per run | launch, stream, complete, cancel, drain, reconcile | pods | at-least-once delivery, late events, disagreeing facts | one completion decides, no checkpoint is lost |
| Runner DB slots `runtime/runner-db-*.ts` | slot table | acquire, provision, release, sweep | run manager, Postgres | ownership by age, release without owner | a database has one user |
| Supervisor `supervisor/` | watched runs, retry counters | watch, time out, retry | run manager, store | registers a run after an await | bounded retries, no run failed after its end |
| Observer `observer/` | deduplication, rate and cooldown counters | trigger, batch, approve | run manager | limits in windows | limits are kept |
| Work item service `work-items/service.ts` | table `review_requests` | request and answer reviews, confirm, reject, override | work item store | judges a round and writes the state in statements of their own | an item in review waits for somebody; a delivery ends it |
| Sessions `sessions/` | plan and iterations | plan, run, evaluate | run manager | one of several steps fails | ends, within its budget |
| Slack app, conversations, dashboard, Jira, identity, config, LLM, learning store, eval | – | requests over the stores | – | – | – |

`PROJECT.json` has the same list with sources and status, and the hazards, each at its line.

## Modules

| Module | What it is | Extends |
|---|---|---|
| `RunLifecycle` | one table, one server that crashes and restarts, its queue and workers, `local-trigger` processes | – |
| `RunContract` | abstract: what the run manager promises about the status column | – |
| `RunLifecycle_proofs`, `RunContract_proofs` | safety of `RunLifecycle`; its refinement of `RunContract` | `RunLifecycle` |
| `KubernetesRun` | one Kubernetes run: backend, runner, control plane, reconciler, restart | – |
| `RunVerdict` | abstract: a recorded completion decides, once | – |
| `KubernetesRun_proofs` | safety and types of `KubernetesRun`; its refinement of `RunVerdict` | `KubernetesRun` |
| `RunnerSlots` | the pool of test databases, its users and its sweeper | – |
| `Supervisor` | watchdog and automatic retries | – |
| `Discovery` | the review rounds of a discovery item | – |
| `RunServices_proofs` | safety of the three modules above; the types of all services of `MCServices` | `MCServices`, `Observer_proofs`, `Pipeline_proofs` |
| `Observer`, `FailurePoller` | batches of events and their limits; the GitHub Actions poller | – |
| `Observer_proofs` | the observer's budget and deduplication; the poller reports once | `Observer`, `FailurePoller` |
| `PipelineEngine` | one walk through a pipeline with its container | – |
| `CiLoop` | `wait_ci`, `fix_ci` and the loop around them | – |
| `BranchRewrite` | rebase, squash and push of a branch that others push to | – |
| `Pipeline_proofs` | safety of the three modules above | `PipelineEngine`, `CiLoop`, `BranchRewrite` |
| `FeatureDelivery` | the reducer, the policy and the transition table as operators | – |
| `FeatureDelivery_proofs` | every decision on every item is sound, and each of its patches is | `FeatureDelivery` |
| `WorkItems` | one adopted pull request: GitHub, webhook handlers, launches, runs and their checkpoints, the monitor, crashes and the replay at startup | `FeatureDelivery` |
| `WorkItems_proofs` | types; one system run at a time; sound decisions after any race; green CI and approvals while handlers come one after the other | `WorkItems`, `FeatureDelivery_proofs` |
| `MCRunLifecycle`, `MCKubernetesRun`, `MCWorkItems` | symmetry sets, policies and bounds for TLC | the above |
| `MCServices` | eight modules that share no state, one behaviour after the other (`part` says which) | `RunnerSlots`, `Supervisor`, `Observer`, `FailurePoller`, `CiLoop`, `PipelineEngine`, `BranchRewrite`, `Discovery` |

In all of them one step is the code between two awaits, and a handler may go on with what it read
before. A crash wipes what lives in the process and keeps what lives in a table.

### RunLifecycle

Persistent are `phase` (the row: `Status(phase)` is the status column, because every writer stores
both), `localChannel` and `notified` (an observer's count of the terminal callbacks); the rest is
the memory of the server process and is wiped by `Crash`: handlers about to schedule a run
(`scheduling`, `retryOf`, `promoting`), PQueue tasks (`pending`), retry markers, abort controllers,
and per worker the place in `processRun` (`pc`, `job`, `node`, `aborted`, `verdict`). A
`cancelRun` call is `cancelPc`/`cancelCtl`: found the controller, wrote `cancel_requested`,
aborts. `processRun` is split as `Dispatch`, `LoadSkips | LoadProceeds`, `Start`, `Register`,
`BeginPipeline | DispatchFails`, the pipeline's `ObserveAbort`, `StartNode`, `ReportPhase`,
`NodeSucceeds | NodeFails`, then `PipelineReturns` or `CatchError`, `ReadVerdict`,
`WriteTerminal`, `NotifyTerminal`. Rows are in any phase the code can write; a report may cover
up `cancel_requested`, as the unconditional UPDATE does.

Left out: failing database calls, Slack cards, tokens. Kubernetes runs, slots and the supervisor
have modules of their own.

### KubernetesRun and RunVerdict

The row, `run_completions`, `run_events` and `run_checkpoints` (`row`, `completion`, `events`,
`recorded`); the worker in `processRun` and the backend's `execute` (`wpc`: launch, drain, wait,
completion window, translation, clean-up), the reconciler's calls (`rec`), the pod's two promises
(`rpc` with its request in `call`, and `poller`), and what the Kubernetes API reports of the job
(`job`). A request is lost, handled with its answer lost, or answered; the client repeats it, and
one that it gave up may still be handled much later (`adrift`). Pods die at any time, a
cancellation is requested once, the server crashes once and reconciles at startup.

`RunVerdict` is the promise: at most one completion is recorded, it never changes, and a row is
written `completed` only when it says success. `VerdictContract` instantiates it.

### RunnerSlots, Supervisor

`RunnerSlots` has the slot table with the age of each claim, the run whose data the databases
hold, and the steps of `acquireForRun`, the release after an end, the release of a run cancelled
in the queue, and the sweeper. Provisioning and dropping fail halfway, calls fail, the server
crashes. `Supervisor` has the map of watched runs, the lookups of node events that are under way,
the watchdog's UPDATE and the two ends that one run then reports; the count of retries in an entry
is what the cap looks at, the length of the real chain (`depth`) is history.

### Observer and FailurePoller

An event is its deduplication key. A timer takes batches whether or not the last one is done, so a
batch is a process with the await it is at; the daily counter and the deduplication entry are
written after the run was started. `started`, `uncounted`, `repeats`, `unmarked` are history.
`FailurePoller` numbers workflow runs as GitHub does, by their start; they end in any order.

### PipelineEngine, CiLoop, BranchRewrite

`PipelineEngine` walks a pipeline given as a sequence of records (what the node does, whether it
has a failure loop, `complete_with_warning`, `fail_run`, an `if`). Handlers return anything,
decisions answer anything, docker may fail after the fact, the abort arrives at any time.
`CiLoop` numbers commits: what GitHub lists for each, what arrived (`remote`), what
`origin/<branch>` says (`tracked`), HEAD, and the `commitSha` that the next wait looks at.
`BranchRewrite` takes a history as the set of its commits and a commit as the changes it makes and
the number of times they were rewritten, which is all that plain pushes, leases and lost changes
tell apart. People push and merge at any time.

### Discovery

The service's calls on `work_items` and `review_requests`, each a sequence of statements of its
own: only `updateState` locks the item and checks the transition. `calm` records that calls came
one after the other, `late` that somebody answered a request of an earlier round.

### FeatureDelivery and WorkItems

An item is state, substate, the flags that somebody reads, and the head commit. A decision of the
reducer is a sequence of patches, each a separate `updateState`, and whether the orchestrator is
asked for a run. Product review is reachable through flags only: nothing under `src/` sets
`product_review_required`.

In `WorkItems` every webhook handler, run callback and the monitor is a thread with the stage it
is at, the row it last read or wrote (`cur`) and the patches it still has to write (`todo`). A
stage that decides and writes without an await in between that could change the outcome is one
step (`Commits`); one that first asks GitHub or the runs table keeps its patches for later steps
(`Write`), so the item may move in between. `updateState`, `linkPullRequest`, the launch
transaction and the rollback hold the item's advisory lock (store.ts:42-48,
orchestrator.ts:129, :559) and are one step each. A transition that the table refuses throws: the
handler is over, with the patches so far written.

A pull-request payload goes `Deliver`, `Link`, `SyncAutomation`, `SyncReviewLabels`,
`SyncLifecycle`, (`BypassSelfReview`, `Reconcile`), `Finish`; a check suite `Deliver`,
`CheckSuite`, `CiCompleted`, its writes, `Reconcile`; a run `StartRun`, `EmitVerdict` with
`FixNeeded | Rerun`, `Progress`, `Complete | Fail`, `TriageFallback | Rollback`.

A checkpoint is a row of `checkpoints`: `Emits` inserts it unless an earlier execution of the run
did (one row per run and key), the thread of the run processes it, and `Mark` says that it was
processed; a handler that throws leaves it unmarked. `Crash` empties every thread and keeps the
tables. Then the process replays (`server.at`): webhooks that arrive are lost (`HookLost`), the
unmarked rows are processed once each in their order (`Replays`, in the thread `Startup`), and
`Recover` queues the active runs, which begin again and emit the same keys. Only then handlers,
runs and the monitor go on, since the server listens last (index.ts:1146-1160,
startup-recovery.ts:43). A server that is down and one that replays are one state: both lose what
arrives. `asked` is what GitHub was asked to rerun for a run that was launched while the item was
at that commit, `reruns` what the item's events say; a crash can come between the two, or between
the second and the mark, so `RerunBudget` allows one request more per crash, and no other. That a
begun-again run finds its row matters: were it to insert another, a single crash would cost two.
It is a promise for pull requests that nobody closes while the server crashes (`WorkItemRuns` has
no such event, and the theorem says so): an item that is done refuses the patch of a rerun, its row
stays unmarked, and each crash has it processed twice, on startup and when the run begins again.

The item starts adopted with its CI pending, or opted out by somebody who took the label off since.

Left out: adoption itself, the Kubernetes runtime (whose checkpoints are in `KubernetesRun`), QA-preparation,
branch-sync and finalisation runs (they do not write the item), cancelled system runs, failing
database and GitHub calls except where a refusal changes the item, events that are only logged.
The monitor's cooldown is a free choice of whether it acts.

## Checks

| Run | Instance | Shows |
|---|---|---|
| `RunLifecycle` | 2 server runs, 1 CLI run, 2 workers, 1 node (about 570 000 states) | `TypeOK`, `OneExecution`, `NoRunForgotten`, `NotifiedAtMostOnce`, `ControllerMatchesExecution`; `RunLifecycle` implements `RunContract`; `TerminalOnlyCancelledLate` |
| `RunLifecycleLive` | 2 runs, 1 worker, 2 nodes with 2 phases, promotions overlap (about 300 000 states) | once the server stays up, every queued run ends or is being cancelled |
| `RunPromotionRace` | 1 run, 2 overlapping promotions | **violated**: the second promotion takes a run that is already queued or executing |
| `RunLocalRetry` | a retry of a CLI run, one restart | **violated**: the retry stays queued with nobody to execute it |
| `KubernetesRun` | 1 run, 1 phase or checkpoint and 3 events in all, 1 request given up, 1 crash, 1 cancellation (about 290 000 states) | `TypeOK`, `ExitMeansRecorded`, `OrphanWasRunning`, `OnlyCompletionOverturns`, `VerdictContract`; `Settles` and `CheckpointsArrive` under fairness |
| `Services` | the eight parts of `MCServices` (about 157 000 states) | slots `Isolation`, `SlotsComeBack`; supervisor `RetryDepth`; observer `BudgetKept`, `ActsOncePerBatch`; poller `ReportedOnce`; CI `VerdictOnLastPush`, `NoUngatedPush`, `CiLoopEnds`; engine `FailureReported`, `NoStrayContainer`, `EngineEnds`; branch `PushesKeepChanges`, `CiSeesPush`; discovery `WaitsForSomebody`, `DeliveryIsFinal`, `CurrentRoundReviewed`; `ServicesTypeOK` |
| `PollerMissesFailure` | 2 workflow runs | **violated**: one that fails after a later one was reported is never reported |
| `RebaseDropsPush` | 1 merge, 1 push by somebody else | **violated**: the agent's fallback overwrites the push |
| `WorkItemReview` | one handler, 2 heads, 2 runs, 2 events (about 1.9 million states) | `GreenBehindReview`, `QuietReview`, `ApprovalsKept` |
| `WorkItemRuns` | two threads interleave, 2 runs, 1 event, 1 crash (about 790 000 states) | `TypeOK`, `OneSystemRun`, `RerunBudget`, `SoundDecisions` |
| `WorkItemFixNeeded` | one head, no other events, fairness | **violated**: no repair run follows a `fix_needed` verdict |
| `WorkItemStaleGreen` | label off, push, label on | **violated**: the item advances on the green CI of the old head |

The eight parts of `Services` share no state and no action: a behaviour chooses a part at the start
and the others keep still, so the run is their sum and not their product.

Bounds, and why they are enough.

- *Runs.* Two runs and two workers give every pair of overlapping executions, retries and
  cancellations; a third actor of the same kind adds no new pair, and the proofs cover the rest.
  `PromoteLimit` is the number of promotions of one conversation that overlap: 1 where the code's
  callers are taken to be serial, 2 where the race is shown. Each run has at most one outstanding
  `cancelRun`.
- *Kubernetes.* One checkpoint can be overtaken by two other events (`MaxEvents`); one lost
  request is enough for each exchange to fail and for a late one to arrive after the end. The
  proofs hold for every bound.
- *Slots.* One slot and three runs: the owner, the one that reclaims it, and one waiting.
- *Supervisor.* `MaxAutoRetries` 1 with three runs leaves room for a chain that is one too long;
  one midnight and two time-outs let each end be reported twice.
- *Observer.* Two keys (one without a repository), two batches, queues of two and one, a budget of
  one a day, three events, one mishap (crash, failed write, midnight or expired entry).
- *CI loop.* Two fix rounds with three inner rounds, one commit of the agent's own.
- *Engine.* Two pipelines of three and four nodes which have every kind of node: with and without
  `setup_sandbox`, loops with and without warning, decisions inside and outside the sandbox. One
  jump per walk, two rounds per loop, one docker fault.
- *Branch.* Two merges, since the fallback and the node that is tried again can each find one, and
  two pushes, before and after the fetch. `MaxBehind` 0: every merge counts.
- *Discovery.* Two calls at a time, two requests; rounds may be of one request or two.
- *Work items.* Two heads are an old one and a new one; `HookLimit` bounds payloads under way,
  `EventLimit` what people do, `Overlap` the threads in the middle of their work, `RunLimit` the
  launches (a guard of the launch itself: beyond it TLC does not look). `RerunLimit` and
  `RepairLimit` stand for the constants of the code. One crash (`CrashLimit`) meets every stage of
  every thread and every place between a checkpoint's row and its mark; a crash during the replay
  would be a second one, which the proofs cover. The two initial items make up for the single event
  beside the crash.

`HandlerSymmetry`, `Symmetry` are used for safety only. `CHECK_DEADLOCK FALSE` is set where the
system may rest: a pull request may be closed, a Kubernetes run be over, a service have nothing to
do. `RunLifecycle` checks deadlock.

`GreenBehindReview`, `QuietReview` and `ApprovalsKept` are checked while handlers run one after the
other and no webhook is lost in a crash. With two at a time `GreenBehindReview` fails: a handler
writes a review state that it decided on before a failed CI took the green away. The code promises
nothing then, so this is recorded as a hazard and not as a property. In the same way `Isolation`
asks for the default time-outs, no crash and no run cancelled in the queue, `WaitsForSomebody` and
`CurrentRoundReviewed` for calls one after the other, and `ReportedOnce` says nothing of failures
that are not reported; what happens beyond is under "Not guaranteed".

Every property has a mutant in the module it is about (`(Mutant: ...)`), an operator that
changes the model as a plausible mistake would; with it TLC finds the property violated.

Fairness. `RunLifecycle`: promises are settled while the process lives (weak fairness of each
worker's and handler's next step; node waits have timeouts); PQueue is first-in first-out, so a
waiting task is dispatched although others come (strong fairness of `Dispatch`); crashes are not
bounded but the property asks about behaviours in which they end. `KubernetesRun`: the server's
process gets its turns, and its two waiting loops read a clock, so that they cannot go round for
ever (strong fairness of their time-outs); nothing is assumed of the runner, the network or the
job. `RunnerSlots`: releases and the sweeper's interval go on, and a call that can succeed does not
fail for ever. `CiLoop`, `PipelineEngine`: the next step of the engine is taken, since agents,
commands and polls have time-outs. `WorkItems`: webhooks arrive, threads go on, runs end, the
monitor's interval fires, the startup of the server goes on. Strong fairness there makes up for `Overlap`, which is a bound of the
model and must not starve anybody.

## Proofs

TLAPS checks every theorem for any values of the constants that satisfy the named assumptions.

`RunLifecycle_proofs`, `RunContract_proofs`: for any sets of runs and workers and any pipeline, from
`RunIdsAssumption`, `PipelineAssumption` and, except for `TypeCorrect`, `PromoteLimit <= 1`. The
safety properties are not inductive: that two workers never hold one run rests on which rows are
queued when a handler, a task or a worker claims them. `IInv` adds that: `ClaimInv` (a claim on a
run says its row is queued, a promotion that it is a conversation), `WorkerInv` (the place of a
worker determines the possible rows of its run), `CliInv`, `StartupInv`, `CancelInv` (whom a
request can still reach), `NotifyInv`. Each action has a lemma `<Action>Keeps` with one leaf per
conjunct; `Inductive` puts them together, and `ExecutesOnce`, `ForgetsNoRun`, `NotifiesOnce`,
`ConsumesMarkers`, `ControllerInReach` follow. `Refinement` maps every step to a step of
`RunContract` or a stutter; it needs `VerdictInv` besides (a worker about to write "cancelled"
has read a request). `EndedOnlyCancelledLate` is the action property, from the same invariant.

`KubernetesRun_proofs`: `KInv` is `RowTypes`, `SuccessInv` (whoever holds the verdict `completed`,
be it the row, the worker or the reconciler, has a recorded success behind it), `ExitInv` (a runner
that waits for the answer to a completion sent the one it means), `TurnInv` (worker, reconciler
and server: one of them at a time has the row), `RecoveryInv` (after a crash the reconciler is at
work or has seen the job running). From it
`ExitIsEvidence`, `RestartSettles`, `CompletionOverturns` and the refinement `KeepsVerdict`.
`KubernetesTypes` needs `CountTypes` beside it: what has been drained is the number of an event that
was stored (a finite set of numbers has a greatest), and no event is numbered beyond the bound.

`RunServices_proofs`: `PoolInv` says who may still touch a slot (its owner, the closer of the run
that ended, the sweeper, never two of them), as long as nothing happened that `Isolation` excludes
(`Calm`). `SInv` ties the count in a supervisor's entry to the real depth of the chain, for every
event that may still be under way. `DeliveryInv` counts: the confirmations about to commit and
those that have are never more than the calls.

`ReviewInv`, for any numbers of calls and requests, is `RoundTypes` (a round is not opened before
the earlier ones have a request each, so its number is at most that of the request) and `CalmInv`:
as long as calls did not overlap, `StageInv` says what the one that is under way has made sure of at
its place, for example that a round which it is about to judge has nothing superseded, and that
between two calls an item in review has a pending request. `SomebodyIsAsked` and `ReviewsRound`
follow. The latest round is a CHOOSE over the rows; `NewestIs` and its neighbours say what an
answer, a withdrawal and a new request do to it.

`ServicesTypes` is about the specification that the run `Services` checks: `PartsInv` puts the
types of the eight parts side by side, each kept by the steps of its own part and untouched by the
others. For the supervisor that took `RetryCounts`: a chain's count is bounded by the retries that
were made before, and those by the runs there are.

`Observer_proofs`: `ObInv` accounts for every run that the history counts: it is in the table, or
a batch is about to enter it, or it was lost. For the poller the reported runs are below the cursor
or in the hands of the poll. `ObserverTypesHold` and `PollerTypesHold` are their types.

`Pipeline_proofs`: `FlagTypes` and `EInv` (where the handle and the container can differ, what an
unfinished failure means at each place, how many jumps each walk has left, what may have started
since the abort), `CiInv` (the working copy, the gate and `commitSha` at each stage), `RewriteInv`
(`ContentsInv`: each history holds the changes of the one it was built from; `NotedInv`: a rewrite
is in the context bag; `WaitInv`: who skips the wait pushed nothing). `BranchTypesHold` rests on the histories being finite
sets: a rebase and a squash build finite ones from finite ones, and so a squash that numbers its
commit after the newest generation finds one.

`FeatureDelivery_proofs`: for every item and every policy, by cases over the reducer.
`PathSound` is the heart: the path that the policy computes climbs one allowed state after the
other and passes a gate only with its flag. `EveryDecisionSound` collects the events. `EveryDecisionClimbs` says the
same of each patch by itself: only the first one changes flags, so the item is sound wherever a
decision breaks off.

`WorkItems_proofs`: for every policy and bound. `IInv` is small: the row keeps its columns and a
known state (`ItemInv`: whatever a stale thread writes, `updateState` refuses or stays in the
table), and of two active runs one is the other (`RunsInv`: a launch looks for active runs in the
transaction that appends; no run that ended goes back, and recovery queues only what was active).
Crashes need nothing more: what they wipe, a thread's row and patches, the invariant does not rest
on. `LaunchesOne` and `DecidesSoundly` follow.

`WorkItemsTypeOK` is the type invariant: `TInv` adds what a payload, a run, a checkpoint and a thread
look like, and that a thread at a stage which decides from the row it read has read one. It asks of
`WorkItemsAssumption` that there is a commit (`HeadLimit >= 1`): the item is adopted with one.

`GreenReviews` and `ApprovedReviews` are theorems for `Overlap = 1`, one handler at a time, which is
also how the run checks them and without which the first is false; they put no bound on payloads,
their order, losses and crashes. `SerialInv`: at most one thread is busy (`OneBusy`; while the server
replays it is the startup's); the row that it holds is the item as it stands, since nobody else
writes; and the patches that it has left climb from there (`Climbs`), so the next one may be
written and the item is green after it. That a crash in the middle of a decision leaves a sound
item is the part a test would hardly reach: it rests on `EveryDecisionClimbs`.

`RerunsBudgeted` holds in two settings: `CrashLimit = 0`, with any number of threads and with pull
requests that are closed; or any number of crashes, while handlers come one after the other and
nobody closes the pull request. Its `BudgetInv` follows a request from the launch to the mark:
`VerdictInv` (each triage run has one verdict row, and without a crash no run gets back to where it
had given none), `ProcessInv` (a rerun row is processed by the thread of its run, which is active,
or by the startup: with `OneActive` by one thread at a time), `MarkInv` (with crashes, a rerun row
without a mark belongs to an active run and is in somebody's hands), and `AskedInv`: what was asked
is recorded, or a thread stands between the two (`Recording`), or a crash came between; and as long
as some active run may still ask (`ToAsk`: it has given no verdict, or its rerun row is still to be
processed) there is budget left. A launch finds `reruns` below the limit and nobody else active,
which is why the budget is there at that moment. `Aside` is what most steps are: they touch no rerun
row, no thread that processes one and no run that has one to process; `AsideProcess`, `AsideToAsk`
and `AsideAsked` deal with them all at once. The second setting needs that a rerun's patch is never
refused (or its row would stay unmarked): `SerialInv` and `OpenInv`, that no row, payload or patch
under way ends the item, which is where `DecisionWithin` of `FeatureDelivery_proofs` comes in (a
decision on an item that is neither done nor closed writes managed states only). The run
`WorkItemRuns`, with two threads and a crash and no closed pull request, is in neither setting:
there, overlapping handlers may in principle have a rerun's patch refused, and the property is
checked only.

`QuietReviews` holds for handlers one after the other (`Overlap = 1`), payloads in their order, no
crash and no change of the adoption label, with any number of commits, suites, reviews, labels, runs
and reruns; `WorkItemStaleGreen` is what happens without the last condition. Rest is the end of a
chain, and `FreshInv` is the chain, while the pull request is open. `HooksFresh`: the heads that the
payloads name climb from the item's to the pull request's, each of them the item's or announced by a
`synchronize` under way (`Announced`) or by the handler that is about to store it (`Linking`), so
that a payload never takes the head back. `ItemFresh`, `TodoFresh`: the item is managed, or opted
out before any green, and nothing under way writes `ci_green` unless CI passed at the item's head.
`StageFresh`: what a handler knows at each stage. And `ci_green` stands for a CI that passed there,
except between the two steps of the handler of new commits (`Moving`): it has stored the head and
not yet reset the item; nobody comes in between, which is where `Overlap = 1` is needed. A rerun
turns only a failed CI back to pending, so it cannot take the ground from under a green.
`WritesFresh` and `CommitsFresh` deal with the stages, `SentFresh` with what GitHub sends, and
`DeliverFresh` with the shift of the queue.

Proved and not listed in a run: `BoundsJumps` (each of the two walks has its own `maxGotos`),
`BoundsLate` (what starts after an abort), `ConsumesMarkers`.

Model-checked only: everything about fairness (`QueuedRunsSettle`, `Settles`, `CheckpointsArrive`,
`SlotsComeBack`, `CiLoopEnds`, `EngineEnds`), which the prover cannot do, and
`RerunBudget` with a crash and overlapping handlers. Every safety property of a passing run is a
theorem, under the hypotheses that its statement names.

## Findings

- **Overlapping promotions** (`store.ts:364`): check and UPDATE are two statements, so the guard
  "is not in conversation status" does not hold when it counts.
- **Retries of local-trigger runs** (`run-manager.ts:583`): they inherit the channel by which the
  restart recognises rows of another process.
- **Missed workflow failures** (`observer/sources/github-poller.ts:80`): the cursor is the highest id
  of a failed run, but workflow runs end in another order than they are numbered.
- **The rebase that drops a push** (`pipeline/nodes/resolve-rebase-conflicts.ts:256`): the lease
  names a head that was fetched after the clone, and with an explicit name `--force-if-includes`
  does nothing, so the "second check" of the comment above it does not exist.
- **The repair that never starts** (`work-items/orchestrator.ts:337`): the verdict is processed
  while the triage run is still active, and its own progress then takes the item to `waiting_ci`.
  The test for it uses a completed triage run.
- **Stale green** (`work-items/feature-delivery-reducer.ts:452`): new commits are ignored while the
  item is cancelled, and its revival keeps `ci_green`; the design document requires the reset.

## Not guaranteed

What the models had to leave to the code because it does not promise it. None of this is a run of
its own; some of it is a precondition of a property.

- *Slots.* With `KUBERNETES_RUN_WAIT_TIMEOUT_SECONDS` above the sweeper's 30 minutes
  (`index.ts:831`), after a cancellation in the queue, or after a crash, a slot can be reclaimed
  while its pod still runs, and two pods share the databases.
- *Supervisor.* The watchdog fails a run whose worker goes on and may complete it
  (run-supervisor.ts:215, its comment :222-223); a run registered late is watched after its end.
- *Observer.* The cooldown never applies (safety.ts:138: it reads an entry that the deduplication
  has refused or deleted). A deferral starts the retry count and the age afresh, so "10 retries,
  24 hours" does not bound an event's life. The approval's "auto-expire" is not implemented and its
  button can be pressed twice (slack-app.ts:420-460). A reload registers the terminal callback
  again, and outcomes count twice (daemon.ts:79).
- *CI.* No checks at all count as success after the wait; `shouldAbortFixLoop` (ci-monitor.ts:229)
  is tested and never used; after the agent amended a pushed commit and left edits, the plain push
  of `fix_ci` is rejected every time.
- *Engine.* A soft failure with a `_goto` passes by `on_soft_fail: fail_run`; a container whose
  inspection or removal failed stays until the next start cleans up. The workspace cleaner takes
  only completed and failed runs as ended, so directories of cancelled runs stay.
- *Branch.* When `sync_base_branch` fails before it can see a conflict, the fallback rewrites and
  pushes the branch and the run ends without waiting for CI (the exception in `CiSeesPush`).
- *Kubernetes.* docs/kubernetes-sandbox-runtime-spec.md says that terminal states never change
  (:380-381) and that a cancellation has priority (:394-396); a recorded completion overturns both,
  and a success without a completion that disagrees is recorded as the pod reported it.
- *Discovery.* An answer to a request of an earlier round moves the item while the new round is
  pending (work-items-design.md:313 speaks of the current round); overlapping answers can leave an
  item in review with nothing pending; two overlapping confirmations create two deliveries although
  the document says 1:1 (:92), the unique index having been dropped (drizzle/0013); an override to
  `done` creates none.
- *Work items.* A launch counts the reruns of the item's head (`orchestrator.ts:143-148`), but the
  run reruns and records the head that it fetched (`triage-ci-node.ts:112`): while the item has not
  heard of a push, failures of the old commit can have the new one rerun without end. `RerunBudget`
  therefore speaks of runs whose head is the one they were launched for; with one head, as in
  `WorkItemRuns`, these are all runs. Nor is there a budget for a rerun that meets a crash on a pull
  request that was merged: the item is done, the patch throws, the row stays unmarked
  (runs/run-checkpoint-processor.ts:31) and GitHub is asked again on startup and once more when the run
  begins again. A ready-for-merge label while another run is active starts no
  finalisation, and nothing tries again; a triage verdict that arrives after a cancellation revives
  the item (orchestrator.ts:244); a review run that fails after its prefetch leaves the item in
  `collecting_context`. After a lost webhook the monitor mends only closed and opted-out pull
  requests and stuck failures; a missed push leaves the item at the old head. A repair that is
  launched by a Kubernetes verdict drained after the end of its run is queued in the table and
  handed to nobody: the checkpoint processor's orchestrator has no run manager (index.ts:725).
- *Runs.* A run that was being cancelled when the server died stays `cancel_requested`; two messages
  can open two conversations of one thread, two clicks two retries.

## Plan

1. *(done)* `RunLifecycle`, `RunContract`, their proofs; `FeatureDelivery`, `WorkItems`, their proofs.
2. *(done)* `KubernetesRun` with its abstract specification and refinement; `RunnerSlots`;
   `Supervisor`; `Observer`, `FailurePoller`; their proofs.
3. *(done)* `PipelineEngine`, `CiLoop`, `BranchRewrite`, `Discovery`; their proofs.
4. *(done)* Checkpoint rows, their marks and the replay in `WorkItems`, with crashes. *(left)* The
   adoption of a pull request by label when two payloads race; cancelled system runs; verdicts of
   Kubernetes runs that are drained after the run ended.
5. *(done)* The types of every module; the review rounds of `Discovery`; `GreenBehindReview` and
   `ApprovalsKept` and `QuietReview` for serial handlers; `RerunBudget`. *(left)* `RerunBudget`
   with crashes and overlapping handlers.
6. *(left)* The composition of `RunLifecycle` with `Supervisor` and `RunnerSlots`. Each has an
   abstraction of the other's rows today: a run of `Supervisor` ends when it likes, and a run of
   `RunnerSlots` is done with its slot when it likes, which allows more than the composition does.

## Not modelled

- *Rendering, parsing, prompts and clients*: the dashboard's pages, Slack messages and modals, log
  parsing, the GitHub, Jira and LLM clients, configuration, the context that a run is given, the
  scripts. They are most of the repository's lines and keep no state that an order of events could
  spoil; what they return is a free choice in the models that call them. A model of their text
  would be as long as they are. This is also why the share of mapped lines stays small: the control
  that decides states is a small part of this code.
- *The other pipeline nodes and quality gates*: git, shell, agent and model calls whose outcome
  (success, soft failure, failure, skip or jump) is all that reaches the engine.
- *Authentication, sessions of people, setup wizard, teams and identity*: single statements over a
  table.
- *The conversation orchestrator and the Slack app*: a loop of model calls with tools. The runs that
  it opens, promotes, cancels and retries are actions of `RunLifecycle`.
- *Sessions*: nothing under `src/` starts one; the terminal callback finds none.
- *Learning store, run events, statistics, token accounting*: written after the fact and read by
  people; `addTokenUsage` (store.ts:503) loses increments of concurrent nodes.
