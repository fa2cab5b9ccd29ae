--------------------------- MODULE KubernetesRun ---------------------------
(***************************************************************************)
(* One run with runtime "kubernetes": the worker of the RunManager that    *)
(* launches a job and watches it, the runner in the pod that reports to    *)
(* the control plane over HTTP, the control plane's tables, the            *)
(* reconciler, and the restart of the server.                              *)
(*                                                                         *)
(* A request may be lost, handled with its answer lost, or answered; the   *)
(* client sends it again until it is answered or its attempts are used up. *)
(* The attempts are not counted: a request that its flow waits for may be  *)
(* handled any number of times, and the client may give up on it.  One     *)
(* given up may still be on its way and be handled much later.             *)
(*                                                                         *)
(* The job's state is what the Kubernetes API reports of it.  The other    *)
(* runs, the DB slot (module RunnerSlots), token usage and the artifacts   *)
(* are left out.  The run token is valid from the launch to the cleanup;   *)
(* the run.started event belongs to Boot.                                  *)
(***************************************************************************)
EXTENDS Integers, Sequences, FiniteSets, FiniteSetsExt

CONSTANTS
    PipelineEvents, \* bound: phases and checkpoints the pipeline emits
    MaxEvents,   \* bound: events the runner emits
    Losses,      \* bound: requests the runner's client gives up
    Crashes,     \* bound: crashes of the server
    Cancels      \* bound: calls of cancelRun

ASSUME LimitsAssumption ==
    /\ PipelineEvents \in Nat
    /\ MaxEvents \in Nat /\ Losses \in Nat /\ Crashes \in Nat /\ Cancels \in Nat

VARIABLES
    row,          \* the run's status; "cloning" and "agent" are phases of "running"
    completion,   \* the row of run_completions: "none" or its status
    events,       \* the rows of run_events
    recorded,     \* sequence numbers of the checkpoints in run_checkpoints
    server,       \* the server process
    crashes,
    cancels,      \* calls of cancelRun
    wpc,          \* how far processRun and the backend's execute are
    resume,       \* ... where they go on after a drain
    drained,      \* ... lastDrainedEventSequence
    fact,         \* ... the terminal fact they saw
    verdict,      \* ... the status to write
    aborted,      \* ... the AbortSignal
    rec,          \* the two reconcileRun calls a run can have
    job,          \* the Kubernetes job
    rpc,          \* the runner's main flow
    outcome,      \* ... what it is about to report
    position,     \* ... events the pipeline has emitted
    sequence,     \* ... the counter of emit
    call,         \* ... the requests its two flows wait for
    poller,       \* the runner's cancellation poll
    losses,       \* ... how many it gave up
    adrift        \* ... those of them that the server may still handle

rows    == <<row, completion, events, recorded>>
process == <<server, crashes, cancels>>
worker  == <<wpc, resume, drained, fact, verdict, aborted>>
runner  == <<rpc, outcome, position, sequence, call, poller, losses, adrift>>
vars    == <<rows, process, worker, rec, job, runner>>

Terminal     == {"completed", "failed", "cancelled"}
Working      == {"queued", "cloning", "agent", "cancel_requested"}
Rows         == Working \cup Terminal

\* (Mutant: a restart reconciles the statuses it would requeue.)
Requeueable  == {"queued", "cloning", "agent"}

\* RECONCILABLE_RUN_STATUSES
Reconcilable == {"queued", "cloning", "agent", "cancel_requested"}

Outcomes     == {"success", "failed"}
Facts        == {"succeeded", "failed", "missing", "running"}
Flows        == {"main", "poll"}
NoCall       == [kind |-> "none", n |-> 0]
EventKinds   == {"phase", "checkpoint", "note"}
Requests     == [kind : EventKinds, n : 1 .. MaxEvents]
                  \cup [kind : Outcomes, n : {0}]
RecIds       == {"early", "late"}
RecPcs       == {"none", "drain", "read", "fact", "grace", "write", "done"}

TypeOK ==
    /\ row \in Rows
    /\ completion \in {"none"} \cup Outcomes
    /\ events \subseteq [kind : EventKinds, n : 1 .. MaxEvents]
    /\ recorded \subseteq 1 .. MaxEvents
    /\ server \in {"up", "down", "recovering"}
    /\ crashes \in 0 .. Crashes
    /\ cancels \in 0 .. Cancels
    /\ wpc \in {"queued", "start", "dispatch", "launch", "drain", "fact", "completion", "cleanup", "settle",
                "off"}
    /\ resume \in {"fact", "completion", "cleanup"}
    /\ drained \in 0 .. MaxEvents
    /\ fact \in Facts
    /\ verdict \in {"completed", "failed"}
    /\ aborted \in BOOLEAN
    /\ rec \in [RecIds -> [pc : RecPcs, seen : {"none"} \cup Outcomes, row : Rows,
                           fact : Facts, verdict : {"none"} \cup Terminal]]
    /\ job \in {"absent", "running", "succeeded", "failed", "deleted"}
    /\ rpc \in {"off", "boot", "pipeline", "emitting", "join", "attempting",
                "completing", "dead"}
    /\ outcome \in Outcomes
    /\ position \in 0 .. PipelineEvents
    /\ sequence \in 0 .. MaxEvents
    /\ call \in [Flows -> Requests \cup {NoCall}]
    /\ poller \in {"off", "poll", "emitting", "done"}
    /\ losses \in 0 .. Losses
    /\ adrift \subseteq Requests

NoRec == [pc |-> "none", seen |-> "none", row |-> "queued", fact |-> "missing",
          verdict |-> "none"]

Init ==
    /\ row = "queued" /\ completion = "none"
    /\ events = {} /\ recorded = {}
    /\ server = "up" /\ crashes = 0
    /\ cancels = 0
    /\ wpc = "queued" /\ resume = "fact" /\ drained = 0
    /\ fact = "running" /\ verdict = "failed" /\ aborted = FALSE
    /\ rec = [i \in RecIds |-> NoRec]
    /\ job = "absent"
    /\ rpc = "off" /\ outcome = "failed" /\ position = 0 /\ sequence = 0
    /\ call = [f \in Flows |-> NoCall]
    /\ poller = "off" /\ losses = 0 /\ adrift = {}

\* The runner's process has ended.
RunnerGone ==
    /\ rpc' = "dead" /\ poller' = "off" /\ call' = [f \in Flows |-> NoCall]
    /\ outcome' = "failed" /\ position' = 0 /\ sequence' = 0

-----------------------------------------------------------------------------
(* processRun up to the job.                                               *)

\* processRun leaves a run that has already ended.
Load ==
    /\ wpc = "queued"
    /\ wpc' = IF row \in Terminal THEN "off" ELSE "start"
    /\ UNCHANGED <<rows, process, resume, drained, fact, verdict, aborted, rec,
                   job, runner>>

\* The status is written without a look at what it was; the controller is
\* registered with it.
Start ==
    /\ wpc = "start"
    /\ row' = "cloning" /\ wpc' = "dispatch"
    /\ UNCHANGED <<completion, events, recorded, process, resume, drained, fact,
                   verdict, aborted, rec, job, runner>>

\* refreshRunForDispatch fails when the signal aborts its prefetch.
DispatchAborts ==
    /\ wpc = "dispatch" /\ aborted
    /\ wpc' = "settle" /\ verdict' = "failed"
    /\ UNCHANGED <<rows, process, resume, drained, fact, aborted, rec, job,
                   runner>>

\* execute: the phase callback writes "agent" over whatever the row says.
Dispatch ==
    /\ wpc = "dispatch"
    /\ row' = "agent" /\ wpc' = "launch"
    /\ UNCHANGED <<completion, events, recorded, process, resume, drained, fact,
                   verdict, aborted, rec, job, runner>>

\* createRunEnvelope, issueRunToken, applySecret and applyJob
Launch ==
    /\ wpc = "launch"
    /\ job' = "running" /\ rpc' = "boot"
    /\ wpc' = "drain" /\ resume' = "fact"
    /\ UNCHANGED <<row, completion, events, recorded, process, drained, fact,
                   verdict, aborted, rec, outcome, position, sequence, call,
                   poller, losses, adrift>>

LaunchFails ==
    /\ wpc = "launch"
    /\ wpc' = "cleanup" /\ verdict' = "failed"
    /\ UNCHANGED <<rows, process, resume, drained, fact, aborted, rec, job,
                   runner>>

-----------------------------------------------------------------------------
(* The backend watches the job: it drains the runner's events, reads the   *)
(* job's state, and once that is terminal waits for the completion.        *)

Checkpoints(some) == {e.n : e \in {x \in some : x.kind = "checkpoint"}}

\* (Mutant: a job that is gone has a fact of its own.)
JobFactRaw == IF job = "absent" THEN "missing" ELSE job

JobFact ==
    CASE job = "running"                 -> "running"
      [] job \in {"succeeded", "failed"} -> job
      [] OTHER                           -> "missing"

\* readKubernetesTerminalFact: a pod that cannot pull its image counts as failed.
PossibleFacts ==
    {JobFact} \cup (IF rpc = "boot" /\ job = "running" THEN {"failed"} ELSE {})

NewEvents == {e \in events : e.n > drained}

\* drainRunnerEvents: the events above lastDrainedEventSequence in order; a
\* phase is written to the row, a checkpoint recorded, the other kinds only
\* move the number.  Reading and delivering are one step: what happens between
\* two deliveries could as well happen before or after them.  "Run cancelled"
\* is thrown at the top of the waiting loop.
Drain ==
    /\ wpc = "drain"
    /\ ~(resume = "fact" /\ aborted)
    /\ drained' = IF NewEvents = {} THEN drained ELSE Max({e.n : e \in NewEvents})
    /\ row' = IF \E e \in NewEvents : e.kind = "phase" THEN "agent" ELSE row
    /\ recorded' = recorded \cup Checkpoints(NewEvents)
    /\ wpc' = resume
    /\ UNCHANGED <<completion, events, process, resume, fact, verdict, aborted,
                   rec, job, runner>>

ReadFact ==
    /\ wpc = "fact"
    /\ fact' \in PossibleFacts
    /\ resume' = IF fact' = "running" THEN "fact" ELSE "completion"
    /\ wpc' = "drain"
    /\ UNCHANGED <<rows, process, drained, verdict, aborted, rec, job, runner>>

ThrowCancelled ==
    /\ aborted
    /\ \/ wpc = "drain" /\ resume = "fact"
       \/ wpc = "completion" /\ completion = "none"
    /\ wpc' = "cleanup" /\ verdict' = "failed"
    /\ UNCHANGED <<rows, process, resume, drained, fact, aborted, rec, job,
                   runner>>

\* (Mutant: only an aborted wait looks at its deadline.)
AbortedTimeout ==
    /\ wpc = "drain" /\ resume = "fact" /\ aborted
    /\ wpc' = "cleanup" /\ verdict' = "failed"
    /\ UNCHANGED <<rows, process, resume, drained, fact, aborted, rec, job,
                   runner>>

\* waitForTerminalFact gives up after waitTimeoutMs.
WaitTimeout ==
    /\ wpc = "drain" /\ resume = "fact"
    /\ wpc' = "cleanup" /\ verdict' = "failed"
    /\ UNCHANGED <<rows, process, resume, drained, fact, aborted, rec, job,
                   runner>>

\* translateOutcome, of the completion read and the fact seen before it
Translate(decision) ==
    IF decision = "success" /\ fact \in {"succeeded", "missing"}
      THEN "completed" ELSE "failed"

ReadCompletion ==
    /\ wpc = "completion" /\ completion # "none"
    /\ verdict' = Translate(completion)
    /\ wpc' = "drain" /\ resume' = "cleanup"
    /\ UNCHANGED <<rows, process, drained, fact, aborted, rec, job, runner>>

\* No completion yet: drain and look again ...
AwaitCompletion ==
    /\ wpc = "completion" /\ completion = "none" /\ ~aborted
    /\ wpc' = "drain"
    /\ UNCHANGED <<rows, process, resume, drained, fact, verdict, aborted, rec,
                   job, runner>>

\* ... until completionWaitMs is over.
CompletionWindowEnds ==
    /\ wpc = "completion" /\ completion = "none"
    /\ verdict' = Translate("none")
    /\ wpc' = "drain" /\ resume' = "cleanup"
    /\ UNCHANGED <<rows, process, drained, fact, aborted, rec, job, runner>>

\* cleanup: deleting a job that is not there fails, and so may any call of it;
\* the rest is skipped then.  The run token is the last thing to go: from then
\* on the runner is refused, and how its pod ends makes no difference.
Cleanup ==
    /\ wpc = "cleanup"
    /\ \/ UNCHANGED <<job, runner>>
       \/ /\ job \in {"running", "succeeded", "failed"}
          /\ job' = "deleted" /\ UNCHANGED runner
       \/ /\ job \in {"running", "succeeded", "failed"}
          /\ job' = "deleted"
          /\ RunnerGone /\ adrift' = {} /\ UNCHANGED losses
    /\ wpc' = "settle"
    /\ UNCHANGED <<row, completion, events, recorded, process, resume, drained,
                   fact, verdict, aborted, rec>>

\* What the call of processRun held is gone with it.
WorkerGone ==
    /\ wpc' = "off" /\ resume' = "fact" /\ drained' = 0
    /\ fact' = "running" /\ verdict' = "failed" /\ aborted' = FALSE

\* A failure reads the row to tell a cancelled run from a failed one.  Then
\* fireTerminalCallbacks: the reconciler is started and not awaited.
Settle ==
    /\ wpc = "settle"
    /\ row' = IF verdict = "failed" /\ row = "cancel_requested" THEN "cancelled" ELSE verdict
    /\ WorkerGone
    /\ rec' = [rec EXCEPT !["late"].pc = "drain"]
    /\ UNCHANGED <<completion, events, recorded, process, job, runner>>

-----------------------------------------------------------------------------
(* cancelRun: it reads the row, looks for the controller, and writes.      *)

Registered == wpc \in {"dispatch", "launch", "drain", "fact", "completion",
                       "cleanup", "settle"}

\* A run with a controller: the row asks for the cancellation, and before the
\* job runs the signal aborts it.  (A write of cancelRun that comes later than
\* its look at the row is the subject of module RunLifecycle.)
CancelRegistered ==
    /\ server = "up" /\ cancels < Cancels
    /\ Registered
    /\ cancels' = cancels + 1
    /\ row' = "cancel_requested"
    /\ aborted' = (aborted \/ row \in {"queued", "cloning"})
    /\ UNCHANGED <<completion, events, recorded, server, crashes, wpc, resume,
                   drained, fact, verdict, rec, job, runner>>

\* A queued run without one is cancelled at once, with its terminal callbacks;
\* the worker may have loaded it before.
CancelQueued ==
    /\ server = "up" /\ cancels < Cancels
    /\ ~Registered /\ row = "queued"
    /\ cancels' = cancels + 1
    /\ row' = "cancelled"
    /\ rec' = [rec EXCEPT !["early"].pc = "drain"]
    /\ UNCHANGED <<completion, events, recorded, server, crashes, worker, job,
                   runner>>

-----------------------------------------------------------------------------
(* The runner: runPipelineRunner, its cancellation poll and the requests   *)
(* of its client.                                                          *)

\* A request is sent, and the flow waits for its answer.
Send(flow, request) == call' = [call EXCEPT ![flow] = request]

\* emit: the number is taken before the request is sent.
Emit(flow, kind) ==
    /\ sequence < MaxEvents
    /\ sequence' = sequence + 1
    /\ Send(flow, [kind |-> kind, n |-> sequence + 1])

Exit(code) ==
    /\ RunnerGone
    /\ job' = IF job = "running" THEN code ELSE job

\* getPayload and run.started, or the runner ends before its pipeline.
Boot ==
    /\ rpc = "boot" /\ server = "up"
    /\ rpc' = "pipeline" /\ poller' = "poll"
    /\ UNCHANGED <<rows, process, worker, rec, job, outcome, position, sequence,
                   call, losses, adrift>>

BootFails ==
    /\ rpc = "boot"
    /\ Exit("failed")
    /\ UNCHANGED <<rows, process, worker, rec, losses, adrift>>

PipelineEmits ==
    /\ rpc = "pipeline" /\ position < PipelineEvents
    /\ position' = position + 1
    /\ \E kind \in {"phase", "checkpoint"} : Emit("main", kind)
    /\ rpc' = "emitting"
    /\ UNCHANGED <<rows, process, worker, rec, job, outcome, poller, losses,
                   adrift>>

\* The pipeline ends; it throws for an abort or a failure of its own.
PipelineEnds ==
    /\ rpc = "pipeline"
    /\ outcome' \in Outcomes
    /\ rpc' = "join"
    /\ UNCHANGED <<rows, process, worker, rec, job, position, sequence, call,
                   poller, losses, adrift>>

\* stopPolling; the poll's last iteration is awaited; run.completion_attempted
\* is emitted (with run.warning before it when the pipeline failed).
Attempt ==
    /\ rpc = "join" /\ poller \in {"poll", "done"}
    /\ poller' = "done"
    /\ Emit("main", "note")
    /\ rpc' = "attempting"
    /\ UNCHANGED <<rows, process, worker, rec, job, outcome, position, losses,
                   adrift>>

\* A poll that reads cancel_requested: the event first, then the abort.
PollCancelled ==
    /\ poller = "poll" /\ rpc \in {"pipeline", "emitting", "join"}
    /\ server = "up" /\ row = "cancel_requested"
    /\ Emit("poll", "note")
    /\ poller' = "emitting"
    /\ UNCHANGED <<rows, process, worker, rec, job, rpc, outcome, position,
                   losses, adrift>>

MainGoesOn(next, result, request) ==
    /\ rpc' = next /\ outcome' = result
    /\ Send("main", request)
    /\ UNCHANGED <<job, position, sequence, poller>>

\* The main flow's request is answered: it goes on.  A completion carries a key
\* of its own: the two that a run may send are different requests.
MainHears ==
    \/ rpc = "emitting" /\ MainGoesOn("pipeline", outcome, NoCall)
    \/ rpc = "attempting" /\ MainGoesOn("completing", outcome, [kind |-> outcome, n |-> 0])
    \/ rpc = "completing" /\ Exit(IF outcome = "success" THEN "succeeded" ELSE "failed")

\* (Mutant: a success that was never answered counts as delivered.)
MainShrugs ==
    \/ rpc = "emitting" /\ MainGoesOn("join", "failed", NoCall)
    \/ rpc = "attempting" /\ outcome = "success" /\ MainGoesOn("join", "failed", NoCall)
    \/ rpc = "completing" /\ outcome = "success" /\ Exit("succeeded")
    \/ rpc # "emitting" /\ outcome = "failed" /\ Exit("failed")

\* Or an error is thrown, when the budget of attempts is used up, or at once
\* for the statuses 401 and 409.  The success path falls into the catch block,
\* which reports a failure; an error there ends the runner.
MainThrows ==
    \/ rpc = "emitting" /\ MainGoesOn("join", "failed", NoCall)
    \/ rpc # "emitting" /\ outcome = "success" /\ MainGoesOn("join", "failed", NoCall)
    \/ rpc # "emitting" /\ outcome = "failed" /\ Exit("failed")

\* The poll ends with its abort; it swallows the errors of its requests.
PollReturns(heard) ==
    /\ poller' = IF heard \/ rpc = "join" THEN "done" ELSE "poll"
    /\ call' = [call EXCEPT !["poll"] = NoCall]
    /\ UNCHANGED <<job, rpc, outcome, position, sequence>>

Returns(flow, heard) ==
    \/ flow = "main" /\ heard /\ MainHears
    \/ flow = "main" /\ ~heard /\ MainThrows
    \/ flow = "poll" /\ PollReturns(heard)

Notes == [kind : {"note"}, n : 1 .. MaxEvents]

\* The last attempt timed out; the request may still arrive.  (A note that
\* comes late changes nothing that is modelled.)
GiveUp(flow) ==
    /\ call[flow] # NoCall /\ losses < Losses
    /\ losses' = losses + 1
    /\ adrift' \in {adrift} \cup {adrift \cup {c} : c \in {call[flow]} \ Notes}
    /\ Returns(flow, FALSE)
    /\ UNCHANGED <<rows, process, worker, rec>>

\* An out-of-memory kill, an eviction, the loss of the node
RunnerDies ==
    /\ job = "running"
    /\ Exit("failed")
    /\ UNCHANGED <<rows, process, worker, rec, losses, adrift>>

\* The pod of a deleted job ends when its grace period does, if not before.
RunnerKilled ==
    /\ job = "deleted" /\ rpc # "dead"
    /\ RunnerGone
    /\ UNCHANGED <<rows, process, worker, rec, job, losses, adrift>>

\* ttlSecondsAfterFinished: within five minutes a backend that watches the
\* job has seen it finished.
JobExpires ==
    /\ job \in {"succeeded", "failed"} /\ wpc = "off"
    /\ job' = "deleted"
    /\ UNCHANGED <<rows, process, worker, rec, runner>>

-----------------------------------------------------------------------------
(* The control plane: routeControlPlaneRequest and its store.              *)

\* (Mutant: a later completion replaces the first.)
RecordLatest(kind) == completion' = kind

\* recordCompletion: a transaction under the run's advisory lock.  The first
\* completion is kept; the same key is answered as before, another is refused.
RecordCompletion(kind) ==
    completion' = IF completion = "none" THEN kind ELSE completion

Accepted(request) == request.kind \in Outcomes => completion \in {"none", request.kind}

\* appendEvent: one row for an event id
Handle(request) ==
    /\ server = "up"
    /\ \/ /\ request.kind \in EventKinds
          /\ events' = events \cup {request} /\ UNCHANGED completion
       \/ /\ request.kind \in Outcomes
          /\ RecordCompletion(request.kind) /\ UNCHANGED events

\* Its answer is lost, and the client will send it again.
HandleUnheard(flow) ==
    /\ call[flow] # NoCall
    /\ Handle(call[flow])
    /\ UNCHANGED <<row, recorded, process, worker, rec, job, runner>>

\* It comes after its client has given up.
HandleLate(request) ==
    /\ request \in adrift
    /\ Handle(request)
    /\ adrift' = adrift \ {request}
    /\ UNCHANGED <<row, recorded, process, worker, rec, job, rpc, outcome,
                   position, sequence, call, poller, losses>>

Answer(flow) ==
    /\ call[flow] # NoCall
    /\ Handle(call[flow])
    /\ Returns(flow, Accepted(call[flow]))
    /\ UNCHANGED <<row, recorded, process, worker, rec, losses, adrift>>

-----------------------------------------------------------------------------
(* RuntimeReconciler.reconcileRun                                          *)

RecDone(record) == [NoRec EXCEPT !.pc = "done", !.fact = record.fact]

\* (Mutant: the reconciler leaves the checkpoints to the backend.)
RecSkipsDrain(i) ==
    /\ rec[i].pc = "drain"
    /\ rec' = [rec EXCEPT ![i].pc = "read"]
    /\ UNCHANGED <<rows, process, worker, job, runner>>

\* drainCheckpointEvents, from the first event on
RecDrain(i) ==
    /\ rec[i].pc = "drain"
    /\ recorded' = recorded \cup Checkpoints(events)
    /\ rec' = [rec EXCEPT ![i].pc = "read"]
    /\ UNCHANGED <<row, completion, events, process, worker, job, runner>>

\* (Mutant: an ended run without a completion is judged as well.)
RecReadsAny(i) ==
    /\ rec[i].pc = "read"
    /\ rec' = [rec EXCEPT ![i].seen = completion, ![i].row = row, ![i].pc = "fact"]
    /\ UNCHANGED <<rows, process, worker, job, runner>>

\* The completion and the row; an ended run without a completion is left alone.
RecRead(i) ==
    /\ rec[i].pc = "read"
    /\ rec' = IF completion = "none" /\ row \in Terminal
                THEN [rec EXCEPT ![i] = RecDone(@)]
                ELSE [rec EXCEPT ![i].seen = completion, ![i].row = row, ![i].pc = "fact"]
    /\ UNCHANGED <<rows, process, worker, job, runner>>

\* applyCompletion, and the failure of a run whose completion never came
Judgement(seen, seenFact) ==
    IF seen = "success" /\ seenFact \in {"succeeded", "missing"} THEN "completed" ELSE "failed"

\* The job's fact; what the row said was read before it.
RecReadFact(i) ==
    /\ rec[i].pc = "fact"
    /\ \E seenFact \in PossibleFacts :
         LET known == [rec EXCEPT ![i].fact = seenFact] IN
         \/ /\ seenFact = "running"
            /\ rec' = [known EXCEPT ![i] = RecDone(@)]
         \/ /\ seenFact # "running" /\ rec[i].row = "cancel_requested"
            /\ rec' = [known EXCEPT ![i].pc = "write", ![i].verdict = "cancelled"]
         \/ /\ seenFact # "running" /\ rec[i].row # "cancel_requested" /\ rec[i].seen # "none"
            /\ rec' = [known EXCEPT ![i].pc = "write",
                                   ![i].verdict = Judgement(rec[i].seen, seenFact)]
         \/ /\ seenFact # "running" /\ rec[i].row # "cancel_requested" /\ rec[i].seen = "none"
            /\ rec' = [known EXCEPT ![i].pc = "grace"]
    /\ UNCHANGED <<rows, process, worker, job, runner>>

\* waitForLateCompletion: a poll finds one, or the window, which a restart
\* does not have, ends without.
RecGrace(i) ==
    /\ rec[i].pc = "grace"
    /\ \E late \in {"none"} \cup (IF server = "up" THEN {completion} ELSE {}) :
         rec' = [rec EXCEPT ![i].pc = "write", ![i].seen = late,
                            ![i].verdict = Judgement(late, rec[i].fact)]
    /\ UNCHANGED <<rows, process, worker, job, runner>>

RecWrite(i) ==
    /\ rec[i].pc = "write"
    /\ row' = rec[i].verdict
    /\ rec' = [rec EXCEPT ![i] = RecDone(@)]
    /\ UNCHANGED <<completion, events, recorded, process, worker, job, runner>>

-----------------------------------------------------------------------------
(* The server goes down, and what its process held is gone.                *)

Crash ==
    /\ server # "down" /\ crashes < Crashes
    /\ server' = "down" /\ crashes' = crashes + 1
    /\ WorkerGone
    /\ rec' = [i \in RecIds |-> IF rec[i].pc = "none" THEN NoRec ELSE RecDone(rec[i])]
    /\ UNCHANGED <<rows, cancels, job, runner>>

\* recoverRunsAfterRestart: recoverInProgressRuns passes over Kubernetes runs;
\* those in progress are reconciled once, before the HTTP listener is up.
Restart ==
    /\ server = "down"
    /\ server' = "recovering"
    /\ rec' = IF row \in Reconcilable
                THEN [rec EXCEPT !["late"] = [NoRec EXCEPT !.pc = "drain"]] ELSE rec
    /\ UNCHANGED <<rows, crashes, cancels, worker, job, runner>>

Listen ==
    /\ server = "recovering" /\ rec["late"].pc \in {"none", "done"}
    /\ server' = "up"
    /\ UNCHANGED <<rows, crashes, cancels, worker, rec, job, runner>>

-----------------------------------------------------------------------------

ProcessRun == \/ Load \/ Start \/ DispatchAborts \/ Dispatch \/ Launch \/ LaunchFails
              \/ Settle
Watch == \/ Drain \/ ReadFact \/ ThrowCancelled \/ WaitTimeout
         \/ ReadCompletion \/ AwaitCompletion \/ CompletionWindowEnds
         \/ Cleanup
CancelRun == CancelRegistered \/ CancelQueued
Runner == \/ Boot \/ BootFails \/ PipelineEmits \/ PipelineEnds \/ Attempt
          \/ PollCancelled \/ RunnerDies \/ RunnerKilled
          \/ JobExpires \/ (\E flow \in Flows : GiveUp(flow) \/ Answer(flow))
Reconcile(i) == \/ RecDrain(i) \/ RecRead(i) \/ RecReadFact(i) \/ RecGrace(i)
                \/ RecWrite(i)

Next == \/ ProcessRun \/ Watch \/ CancelRun \/ Runner
        \/ (\E flow \in Flows : HandleUnheard(flow))
        \/ (\E request \in Requests : HandleLate(request))
        \/ (\E i \in RecIds : Reconcile(i))
        \/ Crash \/ Restart \/ Listen

Spec == Init /\ [][Next]_vars

(***************************************************************************)
(* The server's process gets its turns while it is up, the reconciler too. *)
(* The two waiting loops read a clock: one that goes round for ever passes *)
(* its deadline.  Nothing is assumed of the runner, the network or the job.*)
(***************************************************************************)
Fairness ==
    /\ WF_vars(ProcessRun) /\ WF_vars(Watch)
    /\ SF_vars(WaitTimeout) /\ SF_vars(CompletionWindowEnds)
    /\ \A i \in RecIds : WF_vars(Reconcile(i))
    /\ WF_vars(Restart) /\ WF_vars(Listen)

LiveSpec == Spec /\ Fairness

-----------------------------------------------------------------------------
(* Properties                                                              *)

Ended == row \in Terminal

\* A worker may have started the run although it was cancelled in the queue.
Revived == rec["early"].pc # "none"

\* The runner's exit code is evidence: a job that succeeded has its success
\* recorded, whatever was lost, repeated or refused on the way.
ExitMeansRecorded == job = "succeeded" => completion = "success"

\* One that has stated an end states another only on the word of a recorded
\* completion: a contradicted or lost verdict of the backend may be corrected
\* by the reconciler, never replaced by a guess.
OnlyCompletionOverturns ==
    [][/\ row \in Terminal /\ row' \in Terminal /\ row' # row /\ ~Revived
       => /\ completion # "none"
          /\ row' = "completed" => completion = "success"]_vars

\* A restart leaves a run open only when it saw the job still running: every
\* other Kubernetes run is settled before the listener is up.
OrphanWasRunning ==
    server = "up" /\ crashes > 0 /\ wpc = "off" /\ ~Ended
      => rec["late"].fact = "running"

\* A run ends, unless a restart dropped the worker that would end it.
Settles == row = "queued" ~> Ended \/ crashes > 0

\* A checkpoint that was stored while the run was open reaches
\* run_checkpoints, even when an event with a higher number overtook it and
\* the backend never delivers it.
AllRecorded == Checkpoints(events) \subseteq recorded
CheckpointsArrive == ~Ended /\ ~AllRecorded ~> AllRecorded \/ crashes > 0

\* The promise of module RunVerdict.
Verdict == INSTANCE RunVerdict WITH Rows <- Rows, NoDecision <- "none",
                                    decision <- completion
VerdictContract == Verdict!Spec
=============================================================================
