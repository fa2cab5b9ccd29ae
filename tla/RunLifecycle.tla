---------------------------- MODULE RunLifecycle ----------------------------
(***************************************************************************)
(* The life of an in-process run (runtime "local" or "docker"): the rows   *)
(* of the `runs` table, the RunManager that queues, executes, cancels,     *)
(* retries and promotes them, the restart recovery, and the local-trigger  *)
(* command line that writes to the same table from a process of its own.   *)
(*                                                                         *)
(* The table survives a crash; everything else the manager keeps lives in  *)
(* its process.  A step of the model is the code between two awaits: what  *)
(* a handler read before an await may be stale when it goes on.            *)
(*                                                                         *)
(* Every status write of the code sets status and phase together, so the   *)
(* row is its phase and the status is the function Status of it.           *)
(*                                                                         *)
(* Kubernetes runs are written by the runtime reconciler too and are not   *)
(* in this module.                                                         *)
(***************************************************************************)
EXTENDS Naturals, FiniteSets

CONSTANTS
    ServerRuns,    \* run ids the server may create
    CliRuns,       \* run ids the local-trigger command may create
    NoRun,
    Workers,       \* the concurrency slots of the PQueue (runnerConcurrency)
    NoWorker,
    Nodes,         \* pipeline nodes a run executes
    NodePhases,    \* the phases its nodes may report
    PromoteLimit   \* bound: promotions of one conversation that may overlap

Runs == ServerRuns \cup CliRuns

AllNodePhases ==
    {"running", "cloning", "rebasing", "agent", "validating", "pushing",
     "deploying", "triage_ci", "awaiting_ci", "ci_fixing"}

ASSUME RunIdsAssumption ==
    /\ ServerRuns \cap CliRuns = {}
    /\ NoRun \notin ServerRuns \cup CliRuns
    /\ NoWorker \notin Workers
ASSUME PipelineAssumption == Nodes \in Nat \ {0} /\ NodePhases \subseteq AllNodePhases
ASSUME BoundsAssumption == PromoteLimit \in Nat

VARIABLES
    phase,         \* the row of each run; "absent" before its insert
    localChannel,  \* the rows whose channelId is "local"
    notified,      \* terminal callbacks fired for each run (learning outcomes)
    cli,           \* the local-trigger process of each CliRun
    server,        \* "up", "down", or "recovering" during startup
    recovered,     \* the rows recoverInProgressRuns has returned
    scheduling,    \* handlers that wrote a queued row and will call queue.add
    promoting,     \* promotions that have read status "conversation"
    retryOf,       \* the original of the retryRun call that creates a run
    pending,       \* PQueue tasks that wait for a worker, for each run
    marker,        \* retryMarkers
    controller,    \* runAbortControllers: the worker that registered it
    job,           \* the run each worker processes
    pc,            \* ... and how far processRun is
    node,          \* ... the pipeline nodes it has started
    aborted,       \* ... its AbortSignal
    verdict,       \* ... the terminal status it is about to write
    cancelPc,      \* how far the cancelRun call on each run is
    cancelCtl      \* ... and whose controller it holds

rows   == <<phase, localChannel, notified>>
queues == <<scheduling, promoting, retryOf, pending, marker>>
worker == <<job, pc, node, aborted, verdict>>
cancel == <<cancelPc, cancelCtl>>
vars   == <<rows, cli, server, recovered, queues, controller, worker, cancel>>

Terminal == {"completed", "failed", "cancelled"}
Phases   == AllNodePhases \cup Terminal
              \cup {"absent", "conversation", "queued", "cancel_requested"}

\* mapPhaseToRunStatus for the phases a node reports; every other write
\* stores the same word in both columns.
Status(p) ==
    IF p \in AllNodePhases \ {"validating", "pushing"} THEN "running" ELSE p

\* (Mutant: a restart also takes up the runs that were being cancelled.)
RecoverableCancelled ==
    {"queued", "running", "validating", "pushing", "ci_fixing", "cancel_requested"}

Recoverable == {"queued", "running", "validating", "pushing", "ci_fixing"}
Retryable   == {"failed", "completed"}

WorkerPcs == {"idle", "load", "start", "register", "dispatch", "check",
              "node", "returned", "failing", "verdict", "write", "notify"}
\* Between runAbortControllers.set and runAbortControllers.delete.
Executing == {"dispatch", "check", "node", "returned", "failing"}

TypeOK ==
    /\ phase \in [Runs -> Phases]
    /\ localChannel \subseteq Runs
    /\ notified \in [Runs -> Nat]
    /\ cli \in [CliRuns -> {"none", "created", "executing", "over"}]
    /\ server \in {"up", "down", "recovering"}
    /\ recovered \subseteq Runs
    /\ scheduling \in [Runs -> Nat]
    /\ promoting \in [Runs -> Nat]
    /\ retryOf \in [Runs -> Runs \cup {NoRun}]
    /\ pending \in [Runs -> Nat]
    /\ marker \in [Runs -> Runs \cup {NoRun}]
    /\ controller \in [Runs -> Workers \cup {NoWorker}]
    /\ job \in [Workers -> Runs \cup {NoRun}]
    /\ pc \in [Workers -> WorkerPcs]
    /\ node \in [Workers -> 0 .. Nodes]
    /\ aborted \in [Workers -> BOOLEAN]
    /\ verdict \in [Workers -> Terminal]
    /\ cancelPc \in [Runs -> {"idle", "found", "written"}]
    /\ cancelCtl \in [Runs -> Workers \cup {NoWorker}]

Init ==
    /\ phase = [r \in Runs |-> "absent"]
    /\ localChannel = {}
    /\ notified = [r \in Runs |-> 0]
    /\ cli = [r \in CliRuns |-> "none"]
    /\ server = "up"
    /\ recovered = {}
    /\ scheduling = [r \in Runs |-> 0]
    /\ promoting = [r \in Runs |-> 0]
    /\ retryOf = [r \in Runs |-> NoRun]
    /\ pending = [r \in Runs |-> 0]
    /\ marker = [r \in Runs |-> NoRun]
    /\ controller = [r \in Runs |-> NoWorker]
    /\ job = [w \in Workers |-> NoRun]
    /\ pc = [w \in Workers |-> "idle"]
    /\ node = [w \in Workers |-> 0]
    /\ aborted = [w \in Workers |-> FALSE]
    /\ verdict = [w \in Workers |-> "failed"]
    /\ cancelPc = [r \in Runs |-> "idle"]
    /\ cancelCtl = [r \in Runs |-> NoWorker]

-----------------------------------------------------------------------------
(* Creating runs.  createRun inserts the row, reads it back, and only then *)
(* does the caller put the run on the queue.                               *)

Insert(r, p) ==
    /\ phase[r] = "absent"
    /\ phase' = [phase EXCEPT ![r] = p]

\* enqueueRun
Enqueue(r) ==
    /\ server = "up" /\ retryOf[r] = NoRun
    /\ Insert(r, "queued")
    /\ scheduling' = [scheduling EXCEPT ![r] = @ + 1]
    /\ UNCHANGED <<localChannel, notified, cli, server, recovered, promoting,
                   retryOf, pending, marker, controller, worker, cancel>>

\* continueRun: a follow-up of a run in any status, in the parent's channel.
Continue(p, r) ==
    /\ server = "up" /\ retryOf[r] = NoRun /\ phase[p] # "absent"
    /\ Insert(r, "queued")
    /\ localChannel' = IF p \in localChannel THEN localChannel \cup {r} ELSE localChannel
    /\ scheduling' = [scheduling EXCEPT ![r] = @ + 1]
    /\ UNCHANGED <<notified, cli, server, recovered, promoting, retryOf,
                   pending, marker, controller, worker, cancel>>

\* (Mutant: a handler schedules its run a second time.)
ScheduleAgain(r) ==
    /\ server = "up" /\ phase[r] = "queued"
    /\ scheduling' = [scheduling EXCEPT ![r] = @ - 1]
    /\ pending' = [pending EXCEPT ![r] = @ + 1]
    /\ UNCHANGED <<rows, cli, server, recovered, promoting, retryOf, marker,
                   controller, worker, cancel>>

\* scheduleRunProcessing, for a handler other than retryRun
Schedule(r) ==
    /\ scheduling[r] > 0
    /\ scheduling' = [scheduling EXCEPT ![r] = @ - 1]
    /\ pending' = [pending EXCEPT ![r] = @ + 1]
    /\ UNCHANGED <<rows, cli, server, recovered, promoting, retryOf, marker,
                   controller, worker, cancel>>

\* retryRun: the original must have failed or completed when it is read.
RetryRead(o, r) ==
    /\ server = "up" /\ phase[r] = "absent" /\ retryOf[r] = NoRun
    /\ Status(phase[o]) \in Retryable
    /\ retryOf' = [retryOf EXCEPT ![r] = o]
    /\ UNCHANGED <<rows, cli, server, recovered, scheduling, promoting,
                   pending, marker, controller, worker, cancel>>

\* createRunRecord, in the original's channel
RetryInsert(r) ==
    /\ retryOf[r] # NoRun
    /\ Insert(r, "queued")
    /\ localChannel' = IF retryOf[r] \in localChannel
                         THEN localChannel \cup {r} ELSE localChannel
    /\ UNCHANGED <<notified, cli, server, recovered, queues, controller, worker, cancel>>

\* The marker is set before the run is scheduled, in the same step.
RetrySchedule(r) ==
    /\ retryOf[r] # NoRun /\ phase[r] # "absent"
    /\ marker' = [marker EXCEPT ![r] = retryOf[r]]
    /\ retryOf' = [retryOf EXCEPT ![r] = NoRun]
    /\ pending' = [pending EXCEPT ![r] = @ + 1]
    /\ UNCHANGED <<rows, cli, server, recovered, scheduling, promoting,
                   controller, worker, cancel>>

\* getOrCreateConversationRun, when the thread has no conversation run
OpenConversation(r) ==
    /\ server = "up" /\ retryOf[r] = NoRun
    /\ Insert(r, "conversation")
    /\ UNCHANGED <<localChannel, notified, cli, server, recovered, queues,
                   controller, worker, cancel>>

\* (Mutant: the promotion does not check that the row is a conversation.)
PromoteReadUnchecked(r) ==
    /\ server = "up" /\ promoting[r] < PromoteLimit
    /\ phase[r] # "absent"
    /\ promoting' = [promoting EXCEPT ![r] = @ + 1]
    /\ UNCHANGED <<rows, cli, server, recovered, scheduling, retryOf, pending,
                   marker, controller, worker, cancel>>

\* promoteConversationRun reads the row and throws unless it is a
\* conversation; the UPDATE that follows does not look again.
PromoteRead(r) ==
    /\ server = "up" /\ promoting[r] < PromoteLimit
    /\ Status(phase[r]) = "conversation"
    /\ promoting' = [promoting EXCEPT ![r] = @ + 1]
    /\ UNCHANGED <<rows, cli, server, recovered, scheduling, retryOf, pending,
                   marker, controller, worker, cancel>>

PromoteWrite(r) ==
    /\ promoting[r] > 0
    /\ promoting' = [promoting EXCEPT ![r] = @ - 1]
    /\ phase' = [phase EXCEPT ![r] = "queued"]
    /\ scheduling' = [scheduling EXCEPT ![r] = @ + 1]
    /\ UNCHANGED <<localChannel, notified, cli, server, recovered, retryOf,
                   pending, marker, controller, worker, cancel>>

-----------------------------------------------------------------------------
(* processRun.  Each worker of the queue runs one at a time.               *)

\* PQueue hands the next task to a free slot.
Dispatch(w, r) ==
    /\ pending[r] > 0 /\ pc[w] = "idle"
    /\ pending' = [pending EXCEPT ![r] = @ - 1]
    /\ job' = [job EXCEPT ![w] = r]
    /\ pc' = [pc EXCEPT ![w] = "load"]
    /\ UNCHANGED <<rows, cli, server, recovered, scheduling, promoting,
                   retryOf, marker, controller, node, aborted, verdict, cancel>>

Step(w, from, to) ==
    /\ pc[w] = from
    /\ pc' = [pc EXCEPT ![w] = to]
    /\ UNCHANGED job

\* The task ends and its slot becomes free.
Release(w, from) ==
    /\ pc[w] = from
    /\ pc' = [pc EXCEPT ![w] = "idle"]
    /\ job' = [job EXCEPT ![w] = NoRun]
    /\ node' = [node EXCEPT ![w] = 0]
    /\ aborted' = [aborted EXCEPT ![w] = FALSE]
    /\ verdict' = [verdict EXCEPT ![w] = "failed"]

DropMarker(r) == marker' = [marker EXCEPT ![r] = NoRun]

\* The row is already terminal: nothing to do.
LoadSkips(w) ==
    /\ Release(w, "load")
    /\ Status(phase[job[w]]) \in Terminal
    /\ DropMarker(job[w])
    /\ UNCHANGED <<rows, cli, server, recovered, scheduling, promoting,
                   retryOf, pending, controller, cancel>>

\* (Mutant: the retry marker outlives the task it was set for.)
LoadKeepsMarker(w) ==
    /\ Step(w, "load", "start")
    /\ Status(phase[job[w]]) \notin Terminal
    /\ UNCHANGED <<rows, cli, server, recovered, queues, controller, node,
                   aborted, verdict, cancel>>

LoadProceeds(w) ==
    /\ Step(w, "load", "start")
    /\ Status(phase[job[w]]) \notin Terminal
    /\ DropMarker(job[w])
    /\ UNCHANGED <<rows, cli, server, recovered, scheduling, promoting, retryOf,
                   pending, controller, node, aborted, verdict, cancel>>

\* The row says "running" one await before the run can be cancelled.
Start(w) ==
    /\ Step(w, "start", "register")
    /\ phase' = [phase EXCEPT ![job[w]] = "cloning"]
    /\ UNCHANGED <<localChannel, notified, cli, server, recovered, queues,
                   controller, node, aborted, verdict, cancel>>

Register(w) ==
    /\ Step(w, "register", "dispatch")
    /\ controller' = [controller EXCEPT ![job[w]] = w]
    /\ UNCHANGED <<rows, cli, server, recovered, queues, node, aborted, verdict, cancel>>

\* What a step inside backend.execute leaves alone.
Elsewhere == <<rows, cli, server, recovered, queues, controller, cancel>>

\* refreshRunForDispatch and resolvePipeline, then backend.execute ...
BeginPipeline(w) ==
    /\ Step(w, "dispatch", "check")
    /\ UNCHANGED <<Elsewhere, node, aborted, verdict>>

\* ... unless the prefetch fails or loses its race with the abort signal.
DispatchFails(w) ==
    /\ Step(w, "dispatch", "failing")
    /\ UNCHANGED <<Elsewhere, node, aborted, verdict>>

\* executePipeline looks at the abort signal before each node.
ObserveAbort(w) ==
    /\ Step(w, "check", "failing")
    /\ aborted[w]
    /\ UNCHANGED <<Elsewhere, node, aborted, verdict>>

StartNode(w) ==
    /\ Step(w, "check", "node")
    /\ ~aborted[w] /\ node[w] < Nodes
    /\ node' = [node EXCEPT ![w] = @ + 1]
    /\ UNCHANGED <<Elsewhere, aborted, verdict>>

\* (Mutant: a phase callback that is not awaited lands after the end.)
ReportPhaseLate(w, p) ==
    /\ pc[w] \in {"node", "notify"}
    /\ phase' = [phase EXCEPT ![job[w]] = p]
    /\ UNCHANGED <<localChannel, notified, cli, server, recovered, queues,
                   controller, worker, cancel>>

\* phaseCallback: an UPDATE that does not look at the status it replaces.
ReportPhase(w, p) ==
    /\ pc[w] = "node"
    /\ phase' = [phase EXCEPT ![job[w]] = p]
    /\ UNCHANGED <<localChannel, notified, cli, server, recovered, queues,
                   controller, worker, cancel>>

NodeSucceeds(w) ==
    /\ Step(w, "node", IF node[w] = Nodes THEN "returned" ELSE "check")
    /\ UNCHANGED <<Elsewhere, node, aborted, verdict>>

NodeFails(w) ==
    /\ Step(w, "node", "failing")
    /\ UNCHANGED <<Elsewhere, node, aborted, verdict>>

\* runAbortControllers.delete(run): a cancelRun call that already holds the
\* controller keeps an object nobody listens to.
Unregister(w) ==
    /\ controller' = [controller EXCEPT ![job[w]] = NoWorker]
    /\ cancelCtl' = [r \in Runs |-> IF cancelCtl[r] = w THEN NoWorker ELSE cancelCtl[r]]

\* backend.execute has returned a result: the run will be "completed",
\* whatever its row says.
PipelineReturns(w) ==
    /\ Step(w, "returned", "write")
    /\ Unregister(w)
    /\ verdict' = [verdict EXCEPT ![w] = "completed"]
    /\ UNCHANGED <<rows, cli, server, recovered, queues, node, aborted, cancelPc>>

\* (Mutant: the error path forgets to delete the controller.)
CatchErrorLeaks(w) ==
    /\ Step(w, "failing", "verdict")
    /\ UNCHANGED <<rows, cli, server, recovered, queues, controller, node,
                   aborted, verdict, cancel>>

\* The catch block: delete the controller, then read the row ...
CatchError(w) ==
    /\ Step(w, "failing", "verdict")
    /\ Unregister(w)
    /\ UNCHANGED <<rows, cli, server, recovered, queues, node, aborted, verdict, cancelPc>>

\* (Mutant: the verdict is taken from the abort signal, not from the row.)
VerdictFromSignal(w) ==
    /\ Step(w, "verdict", "write")
    /\ verdict' = [verdict EXCEPT ![w] = IF aborted[w] THEN "cancelled" ELSE "failed"]
    /\ UNCHANGED <<Elsewhere, node, aborted>>

\* ... and decide by it.
ReadVerdict(w) ==
    /\ Step(w, "verdict", "write")
    /\ verdict' = [verdict EXCEPT ![w] =
                     IF Status(phase[job[w]]) = "cancel_requested"
                       THEN "cancelled" ELSE "failed"]
    /\ UNCHANGED <<Elsewhere, node, aborted>>

WriteTerminal(w) ==
    /\ Step(w, "write", "notify")
    /\ phase' = [phase EXCEPT ![job[w]] = verdict[w]]
    /\ UNCHANGED <<localChannel, notified, cli, server, recovered, queues,
                   controller, node, aborted, verdict, cancel>>

\* After the Slack card and summary: fireTerminalCallbacks, and the task ends.
NotifyTerminal(w) ==
    /\ Release(w, "notify")
    /\ notified' = [notified EXCEPT ![job[w]] = @ + 1]
    /\ UNCHANGED <<phase, localChannel, cli, server, recovered, queues,
                   controller, cancel>>

-----------------------------------------------------------------------------
(* cancelRun.  Without a controller it returns false and changes nothing;  *)
(* with one it writes the row first and aborts afterwards.  At most one    *)
(* call for each run is in progress at a time (bound).                     *)

CancelFind(r) ==
    /\ server = "up" /\ cancelPc[r] = "idle"
    /\ controller[r] # NoWorker
    /\ cancelPc' = [cancelPc EXCEPT ![r] = "found"]
    /\ cancelCtl' = [cancelCtl EXCEPT ![r] = controller[r]]
    /\ UNCHANGED <<rows, cli, server, recovered, queues, controller, worker>>

CancelWrite(r) ==
    /\ cancelPc[r] = "found"
    /\ phase' = [phase EXCEPT ![r] = "cancel_requested"]
    /\ cancelPc' = [cancelPc EXCEPT ![r] = "written"]
    /\ UNCHANGED <<localChannel, notified, cli, server, recovered, queues,
                   controller, worker, cancelCtl>>

CancelAbort(r) ==
    /\ cancelPc[r] = "written"
    /\ aborted' = [w \in Workers |-> aborted[w] \/ w = cancelCtl[r]]
    /\ cancelPc' = [cancelPc EXCEPT ![r] = "idle"]
    /\ cancelCtl' = [cancelCtl EXCEPT ![r] = NoWorker]
    /\ UNCHANGED <<rows, cli, server, recovered, queues, controller, job, pc,
                   node, verdict>>

-----------------------------------------------------------------------------
(* Crash and startup.  main() recovers the runs before it opens any of the *)
(* interfaces a request could come from.                                   *)

Crash ==
    /\ server \in {"up", "recovering"}
    /\ server' = "down"
    /\ recovered' = {}
    /\ scheduling' = [r \in Runs |-> 0]
    /\ promoting' = [r \in Runs |-> 0]
    /\ retryOf' = [r \in Runs |-> NoRun]
    /\ pending' = [r \in Runs |-> 0]
    /\ marker' = [r \in Runs |-> NoRun]
    /\ controller' = [r \in Runs |-> NoWorker]
    /\ job' = [w \in Workers |-> NoRun]
    /\ pc' = [w \in Workers |-> "idle"]
    /\ node' = [w \in Workers |-> 0]
    /\ aborted' = [w \in Workers |-> FALSE]
    /\ verdict' = [w \in Workers |-> "failed"]
    /\ cancelPc' = [r \in Runs |-> "idle"]
    /\ cancelCtl' = [r \in Runs |-> NoWorker]
    /\ UNCHANGED <<rows, cli>>

\* (Mutant: the recovery misses the runs that were being executed.)
RecoverQueuedOnly ==
    /\ server = "down"
    /\ server' = "recovering"
    /\ recovered' = {r \in Runs : Status(phase[r]) = "queued"}
    /\ UNCHANGED <<rows, cli, queues, controller, worker, cancel>>

\* recoverInProgressRuns: one UPDATE over the whole table.
RecoverRows ==
    /\ server = "down"
    /\ server' = "recovering"
    /\ recovered' = {r \in Runs : Status(phase[r]) \in Recoverable}
    /\ phase' = [r \in Runs |-> IF r \in recovered' THEN "queued" ELSE phase[r]]
    /\ UNCHANGED <<localChannel, notified, cli, queues, controller, worker, cancel>>

\* recoverRunsAfterRestart requeues what came back, except channel "local".
RequeueRecovered ==
    /\ server = "recovering"
    /\ server' = "up"
    /\ pending' = [r \in Runs |-> IF r \in recovered \ localChannel
                                    THEN pending[r] + 1 ELSE pending[r]]
    /\ recovered' = {}
    /\ UNCHANGED <<rows, cli, scheduling, promoting, retryOf, marker,
                   controller, worker, cancel>>

-----------------------------------------------------------------------------
(* local-trigger: a process of its own that inserts a row in channel       *)
(* "local" and executes it itself.                                         *)

CliCreate(r) ==
    /\ cli[r] = "none"
    /\ Insert(r, "queued")
    /\ localChannel' = localChannel \cup {r}
    /\ cli' = [cli EXCEPT ![r] = "created"]
    /\ UNCHANGED <<notified, server, recovered, queues, controller, worker, cancel>>

CliStart(r) ==
    /\ cli[r] = "created"
    /\ phase' = [phase EXCEPT ![r] = "cloning"]
    /\ cli' = [cli EXCEPT ![r] = "executing"]
    /\ UNCHANGED <<localChannel, notified, server, recovered, queues,
                   controller, worker, cancel>>

CliReportPhase(r, p) ==
    /\ cli[r] = "executing"
    /\ phase' = [phase EXCEPT ![r] = p]
    /\ UNCHANGED <<localChannel, notified, cli, server, recovered, queues,
                   controller, worker, cancel>>

CliEnd(r) ==
    /\ cli[r] = "executing"
    /\ \E s \in {"completed", "failed"} : phase' = [phase EXCEPT ![r] = s]
    /\ cli' = [cli EXCEPT ![r] = "over"]
    /\ UNCHANGED <<localChannel, notified, server, recovered, queues,
                   controller, worker, cancel>>

CliDies(r) ==
    /\ cli[r] \in {"created", "executing"}
    /\ cli' = [cli EXCEPT ![r] = "over"]
    /\ UNCHANGED <<rows, server, recovered, queues, controller, worker, cancel>>

-----------------------------------------------------------------------------
Create ==
    \E r \in ServerRuns :
        \/ Enqueue(r) \/ OpenConversation(r) \/ RetryInsert(r)
        \/ Schedule(r) \/ RetrySchedule(r) \/ PromoteRead(r) \/ PromoteWrite(r)
        \/ \E o \in Runs : Continue(o, r) \/ RetryRead(o, r)

WorkerStep(w) ==
    \/ LoadSkips(w) \/ LoadProceeds(w) \/ Start(w) \/ Register(w)
    \/ BeginPipeline(w) \/ DispatchFails(w) \/ ObserveAbort(w) \/ StartNode(w)
    \/ NodeSucceeds(w) \/ NodeFails(w) \/ PipelineReturns(w) \/ CatchError(w)
    \/ ReadVerdict(w) \/ WriteTerminal(w) \/ NotifyTerminal(w)

Process ==
    \E w \in Workers :
        \/ WorkerStep(w)
        \/ \E r \in Runs : Dispatch(w, r)
        \/ \E p \in NodePhases : ReportPhase(w, p)

Cancel == \E r \in Runs : CancelFind(r) \/ CancelWrite(r) \/ CancelAbort(r)

Server == Crash \/ RecoverRows \/ RequeueRecovered

LocalTrigger ==
    \E r \in CliRuns :
        \/ CliCreate(r) \/ CliStart(r) \/ CliEnd(r) \/ CliDies(r)
        \/ \E p \in NodePhases : CliReportPhase(r, p)

Next == Create \/ Process \/ Cancel \/ Server \/ LocalTrigger

Spec == Init /\ [][Next]_vars

\* Promises are settled and timers fire as long as the process lives; the
\* queue is first-in first-out, so a waiting task is dispatched although
\* other tasks keep taking the slot that becomes free (strong fairness).  A
\* pipeline is finite: a node that runs ends (git, agent and CI waits have
\* timeouts).  The supervisor of the process starts it again.
Fairness ==
    /\ \A w \in Workers : WF_vars(WorkerStep(w))
    /\ \A r \in Runs : SF_vars(\E w \in Workers : Dispatch(w, r))
    /\ \A r \in ServerRuns :
          WF_vars(Schedule(r) \/ RetryInsert(r) \/ RetrySchedule(r) \/ PromoteWrite(r))
    /\ \A r \in Runs : WF_vars(CancelWrite(r) \/ CancelAbort(r))
    /\ WF_vars(RecoverRows \/ RequeueRecovered)

LiveSpec == Spec /\ Fairness

-----------------------------------------------------------------------------
(* Properties.                                                             *)

Jobs(r) == {w \in Workers : job[w] = r}

Claims(r) == scheduling[r] + pending[r] + (IF retryOf[r] # NoRun THEN 1 ELSE 0)

\* Something in the process will act on the row: a handler about to schedule
\* it, a task in the queue, or a worker.
Driven(r) == Claims(r) > 0 \/ Jobs(r) # {}

\* One execution at a time: a run never has two of: a handler about to
\* schedule it, a queued task, a worker.  (Two would mean two agents pushing
\* to one branch.)  processRun does not check that the run is not already
\* being executed, so this rests on who calls scheduleRunProcessing.
OneExecution ==
    \A r \in Runs :
        /\ Claims(r) <= 1
        /\ Claims(r) = 1 => Jobs(r) = {}
        /\ \A v, w \in Jobs(r) : v = w

\* No run is forgotten: while the server is up, a row in a status that a
\* restart would recover has somebody in the process working on it; so no
\* interleaving of requests, crashes and recoveries leaves a run "queued" or
\* "running" for ever.  Rows in channel "local" are left to local-trigger.
NoRunForgotten ==
    server = "up" =>
        \A r \in ServerRuns \ localChannel :
            Status(phase[r]) \in Recoverable => Driven(r)

\* The terminal callbacks (learning outcomes, supervisor, work items) fire at
\* most once for a run, whatever is cancelled, crashes and is recovered.
NotifiedAtMostOnce == \A r \in Runs : notified[r] <= 1

\* A retry marker belongs to a task that processRun has not yet taken past
\* its requeue path ("so the map can't grow unbounded").
MarkersConsumed ==
    \A r \in Runs :
        marker[r] # NoRun =>
            pending[r] > 0 \/ \E w \in Jobs(r) : pc[w] = "load"

\* A controller is registered exactly while the pipeline of its run is being
\* executed: no pipeline is out of reach of cancelRun, and none that ended
\* can be "cancelled".
ControllerMatchesExecution ==
    /\ \A w \in Workers : pc[w] \in Executing => controller[job[w]] = w
    /\ \A r \in Runs : controller[r] # NoWorker =>
          job[controller[r]] = r /\ pc[controller[r]] \in Executing

\* What a terminal row can still become: nothing, except cancel_requested by
\* a cancelRun call that found the controller before the run ended.
TerminalOnlyCancelledLate ==
    [][\A r \in ServerRuns :
          Status(phase[r]) \in Terminal =>
              \/ phase'[r] = phase[r]
              \/ phase'[r] = "cancel_requested" /\ cancelPc[r] = "found"]_vars

\* promoteConversationRun throws "is not in conversation status": a promotion
\* takes effect on a conversation only.
PromotesConversationsOnly ==
    [][\A r \in ServerRuns :
          promoting'[r] < promoting[r] /\ server' = "up" =>
              Status(phase[r]) = "conversation"]_vars

\* The rows that the restart does not requeue belong to local-trigger, as
\* the startup log says of them.
OnlyCliRunsSkipped ==
    server = "up" =>
        \A r \in ServerRuns : Status(phase[r]) \in Recoverable => Driven(r)

\* The state of RunContract: the status column of the server's runs ...
rowStatus == [r \in ServerRuns |-> Status(phase[r])]

\* ... and the runs whose processRun is between its first UPDATE and its last.
Attempting == Executing \cup {"register", "verdict", "write"}
attempting == {r \in ServerRuns : \E w \in Jobs(r) : pc[w] \in Attempting}

\* The rows move only as RunContract says.
Contract == INSTANCE RunContract WITH
    Runs <- ServerRuns, status <- rowStatus, attempts <- attempting

ImplementsContract == Contract!Spec

\* If the server stops crashing, every queued run ends or is being cancelled.
QueuedRunsSettle ==
    <>[](server = "up") =>
        \A r \in ServerRuns :
            (phase[r] = "queued" /\ r \notin localChannel) ~>
                (Status(phase[r]) \in Terminal \cup {"cancel_requested"})
=============================================================================
