------------------------- MODULE RunContract_proofs -------------------------
(***************************************************************************)
(* RunLifecycle implements RunContract, and what else follows from its     *)
(* inductive invariant: a pipeline is always within reach of cancelRun,    *)
(* and a row that has ended moves only under a late cancelRun.             *)
(***************************************************************************)
EXTENDS RunLifecycle_proofs

\* A worker that is about to write "cancelled" has seen the request, and
\* nobody but cancelRun touches the row in between.
VerdictInv ==
    \A w \in Workers :
        pc[w] = "write" /\ verdict[w] = "cancelled"
            => phase[job[w]] = "cancel_requested"

-----------------------------------------------------------------------------
\* The abstract state.

LEMMA SamePhases == phase' = phase => rowStatus' = rowStatus
BY DEF rowStatus

LEMMA SameWorkers == UNCHANGED <<job, pc>> => attempting' = attempting
BY DEF attempting, Jobs

\* A worker that moves within its attempt, or outside it.
LEMMA SameAttempts ==
  ASSUME TypeOK, NEW w \in Workers, NEW to, UNCHANGED job,
         pc' = [pc EXCEPT ![w] = to],
         pc[w] \in Attempting <=> to \in Attempting
  PROVE  attempting' = attempting
BY DEF TypeOK, attempting, Jobs

\* A slot that is taken or given back outside an attempt.
LEMMA SameAttemptsOutside ==
  ASSUME TypeOK, NEW w \in Workers, NEW to, NEW r,
         pc[w] \notin Attempting, to \notin Attempting,
         job' = [job EXCEPT ![w] = r], pc' = [pc EXCEPT ![w] = to]
  PROVE  attempting' = attempting
BY DEF TypeOK, attempting, Jobs

\* One row changes.
LEMMA OneRow ==
  ASSUME TypeOK, NEW r \in ServerRuns, NEW p, phase' = [phase EXCEPT ![r] = p]
  PROVE  rowStatus' = [rowStatus EXCEPT ![r] = Status(p)]
BY DEF TypeOK, rowStatus, Status, Runs

\* A row of local-trigger changes.
LEMMA OtherRow ==
  ASSUME TypeOK, NEW r \in CliRuns, NEW p, phase' = [phase EXCEPT ![r] = p]
  PROVE  rowStatus' = rowStatus
BY RunIdsAssumption DEF TypeOK, rowStatus, Status, Runs

LEMMA AttemptedIsLive ==
  ASSUME IInv, NEW r \in ServerRuns, r \in attempting
  PROVE  phase[r] \in Live
BY DEF IInv, WorkerInv, attempting, Jobs

LEMMA StatusOf ==
  ASSUME IInv, NEW r \in ServerRuns
  PROVE  /\ rowStatus[r] = Status(phase[r])
         /\ phase[r] \in AllNodePhases => rowStatus[r] \in Contract!Active
         /\ phase[r] \in Terminal => rowStatus[r] \in Contract!Finished
         /\ phase[r] \notin AllNodePhases => rowStatus[r] = phase[r]
BY DEF rowStatus, Status, AllNodePhases, Terminal, Contract!Active, Contract!Finished

-----------------------------------------------------------------------------
\* Each action is a step of RunContract, or none.

abstract == <<rowStatus, attempting>>

LEMMA InsertOpens ==
  ASSUME IInv, NEW r \in ServerRuns, NEW p \in {"queued", "conversation"},
         Insert(r, p), UNCHANGED worker
  PROVE  Contract!Open(r)
<1>1. rowStatus[r] = "absent" BY DEF Insert, rowStatus, Status, AllNodePhases
<1>2. rowStatus' = [rowStatus EXCEPT ![r] = p]
      BY OneRow DEF IInv, Insert, Status, AllNodePhases
<1>3. attempting' = attempting BY SameWorkers DEF worker
<1> QED BY <1>1, <1>2, <1>3 DEF Contract!Open

LEMMA PromoteWriteStep ==
  ASSUME IInv, NEW r \in ServerRuns, PromoteWrite(r)
  PROVE  Contract!Promote(r)
<1>1. rowStatus[r] = "conversation"
      BY DEF PromoteWrite, IInv, ClaimInv, rowStatus, Status, AllNodePhases, Runs
<1>2. rowStatus' = [rowStatus EXCEPT ![r] = "queued"]
      BY OneRow DEF IInv, PromoteWrite, Status, AllNodePhases
<1>3. attempting' = attempting BY SameWorkers DEF PromoteWrite, worker
<1> QED BY <1>1, <1>2, <1>3 DEF Contract!Promote

LEMMA WorksOnServerRun ==
  ASSUME IInv, NEW w \in Workers, pc[w] # "idle"
  PROVE  job[w] \in ServerRuns /\ job[w] \in Runs
BY DEF IInv, WorkerInv, Runs

LEMMA StartStep ==
  ASSUME IInv, NEW w \in Workers, Start(w)
  PROVE  Contract!Begin(job[w])
<1> DEFINE r == job[w]
<1>0. r \in ServerRuns /\ r \in Runs BY WorksOnServerRun DEF Start, Step
<1>1. phase[r] = "queued" /\ rowStatus[r] = "queued"
      BY <1>0 DEF Start, Step, IInv, WorkerInv, rowStatus, Status, AllNodePhases
<1>2. r \notin attempting
      BY <1>0, <1>1, AttemptedIsLive DEF Live, AllNodePhases
<1>3. rowStatus' = [rowStatus EXCEPT ![r] = "running"]
  <2>1. Status("cloning") = "running" BY DEF Status, AllNodePhases
  <2> QED BY <1>0, <2>1, OneRow DEF IInv, Start
<1>4. attempting' = attempting \cup {r}
      BY <1>0 DEF IInv, TypeOK, Start, Step, attempting, Jobs, Attempting
<1> QED BY <1>1, <1>2, <1>3, <1>4 DEF Contract!Begin

LEMMA AttemptsJob ==
  ASSUME IInv, NEW w \in Workers, pc[w] \in Attempting
  PROVE  job[w] \in attempting /\ job[w] \in ServerRuns
BY WorksOnServerRun DEF attempting, Jobs, Attempting, Executing

LEMMA ReportPhaseStep ==
  ASSUME IInv, NEW w \in Workers, NEW p \in NodePhases, ReportPhase(w, p)
  PROVE  Contract!Progress(job[w])
<1> DEFINE r == job[w]
<1>0. r \in attempting /\ r \in ServerRuns
      BY AttemptsJob DEF ReportPhase, Attempting, Executing
<1>1. rowStatus[r] \in Contract!Active \cup {"cancel_requested"}
      BY <1>0, AttemptedIsLive, StatusOf DEF Live, AllNodePhases
<1>2. rowStatus' = [rowStatus EXCEPT ![r] = Status(p)]
      BY <1>0, OneRow DEF IInv, ReportPhase
<1>3. Status(p) \in Contract!Active
      BY PipelineAssumption DEF Status, AllNodePhases, Contract!Active
<1>4. attempting' = attempting BY SameWorkers DEF ReportPhase, worker
<1> QED BY <1>0, <1>1, <1>2, <1>3, <1>4 DEF Contract!Progress

LEMMA CancelWriteStep ==
  ASSUME IInv, NEW r \in Runs, CancelWrite(r)
  PROVE  Contract!RequestCancel(r) \/ UNCHANGED abstract
<1>0. r \in ServerRuns /\ phase[r] \in Live \cup Terminal
      BY DEF CancelWrite, IInv, CancelInv
<1>1. rowStatus' = [rowStatus EXCEPT ![r] = "cancel_requested"]
      BY <1>0, OneRow DEF IInv, CancelWrite, Status, AllNodePhases
<1>2. attempting' = attempting BY SameWorkers DEF CancelWrite, worker
<1>3. CASE phase[r] = "cancel_requested"
  <2>1. rowStatus[r] = "cancel_requested"
        BY <1>0, <1>3, StatusOf DEF AllNodePhases
  <2>2. rowStatus' = rowStatus
        BY <1>0, <1>1, <2>1 DEF rowStatus
  <2> QED BY <1>2, <2>2 DEF abstract
<1>4. CASE phase[r] # "cancel_requested"
  <2>1. rowStatus[r] \in Contract!Active \cup Contract!Finished
        BY <1>0, <1>4, StatusOf DEF Live
  <2> QED BY <1>1, <1>2, <2>1 DEF Contract!RequestCancel
<1> QED BY <1>3, <1>4

LEMMA WriteTerminalStep ==
  ASSUME IInv, VerdictInv, NEW w \in Workers, WriteTerminal(w)
  PROVE  Contract!Finish(job[w])
<1> DEFINE r == job[w]
<1>0. r \in attempting /\ r \in ServerRuns /\ pc[w] = "write"
      BY AttemptsJob DEF WriteTerminal, Step, Attempting
<1>1. rowStatus[r] \in Contract!Active \cup {"cancel_requested"}
      BY <1>0, AttemptedIsLive, StatusOf DEF Live, AllNodePhases
<1>2. rowStatus' = [rowStatus EXCEPT ![r] = verdict[w]]
  <2>1. verdict[w] \in Terminal BY DEF IInv, TypeOK
  <2>2. Status(verdict[w]) = verdict[w]
        BY <2>1 DEF Status, Terminal, AllNodePhases
  <2> QED BY <1>0, <2>2, OneRow DEF IInv, WriteTerminal
<1>3. verdict[w] \in Contract!Finished
      BY DEF IInv, TypeOK, Terminal, Contract!Finished
<1>4. verdict[w] = "cancelled" => rowStatus[r] = "cancel_requested"
      BY <1>0, StatusOf DEF VerdictInv, AllNodePhases
<1>5. attempting' = attempting \ {r}
  <2>1. \A v \in Workers : job[v] = r => v = w
        BY <1>0 DEF IInv, OneExecution, Jobs, Runs
  <2> QED BY <1>0, <2>1
          DEF IInv, TypeOK, WriteTerminal, Step, attempting, Jobs, Attempting, Executing
<1> QED BY <1>0, <1>1, <1>2, <1>3, <1>4, <1>5 DEF Contract!Finish

LEMMA CrashStep ==
  ASSUME IInv, Crash
  PROVE  Contract!Stop
<1>1. rowStatus' = rowStatus BY SamePhases DEF Crash, rows
<1>2. attempting' = {}
      BY DEF Crash, attempting, Jobs, Attempting, Executing
<1> QED BY <1>1, <1>2 DEF Contract!Stop

LEMMA RecoverRowsStep ==
  ASSUME IInv, RecoverRows
  PROVE  Contract!Recover
<1>1. attempting = {}
      BY DEF RecoverRows, IInv, StartupInv, attempting, Jobs, Attempting, Executing
<1>2. attempting' = attempting BY SameWorkers DEF RecoverRows, worker
<1>3. ASSUME NEW r \in ServerRuns
      PROVE  rowStatus'[r] = IF rowStatus[r] \in Contract!Active
                               THEN "queued" ELSE rowStatus[r]
      BY <1>3 DEF RecoverRows, rowStatus, Status, Recoverable, AllNodePhases,
                  Contract!Active, Runs
<1>4. rowStatus' = [r \in ServerRuns |-> IF rowStatus[r] \in Contract!Active
                                           THEN "queued" ELSE rowStatus[r]]
      BY <1>3 DEF rowStatus
<1> QED BY <1>1, <1>2, <1>4 DEF Contract!Recover

LEMMA CliStep ==
  ASSUME IInv, NEW r \in CliRuns,
         \/ CliCreate(r) \/ CliStart(r) \/ CliEnd(r) \/ CliDies(r)
         \/ \E p \in NodePhases : CliReportPhase(r, p)
  PROVE  UNCHANGED abstract
<1>1. attempting' = attempting
      BY SameWorkers DEF CliCreate, CliStart, CliEnd, CliDies, CliReportPhase, worker
<1>2. rowStatus' = rowStatus
      BY SamePhases, OtherRow DEF IInv, CliCreate, Insert, CliStart, CliEnd,
         CliDies, CliReportPhase, rows
<1> QED BY <1>1, <1>2 DEF abstract

\* The bookkeeping of the queue, of retries and of cancelRun does not show.
LEMMA QueueStep ==
  ASSUME \/ \E r \in ServerRuns : \/ Schedule(r) \/ RetrySchedule(r) \/ PromoteRead(r)
                                  \/ \E o \in Runs : RetryRead(o, r)
         \/ \E r \in Runs : CancelFind(r) \/ CancelAbort(r)
         \/ RequeueRecovered
  PROVE  UNCHANGED abstract
<1>1. UNCHANGED <<phase, job, pc>>
      BY DEF Schedule, RetrySchedule, PromoteRead, RetryRead, CancelFind,
         CancelAbort, RequeueRecovered, rows, worker
<1> QED BY <1>1, SamePhases, SameWorkers DEF abstract

LEMMA WithinAttempt ==
  ASSUME IInv, NEW w \in Workers,
         \/ LoadProceeds(w) \/ Register(w) \/ BeginPipeline(w) \/ DispatchFails(w)
         \/ ObserveAbort(w) \/ StartNode(w) \/ NodeSucceeds(w) \/ NodeFails(w)
         \/ PipelineReturns(w) \/ CatchError(w) \/ ReadVerdict(w)
  PROVE  UNCHANGED abstract
<1> USE DEF LoadProceeds, Register, BeginPipeline, DispatchFails, ObserveAbort,
        StartNode, NodeSucceeds, NodeFails, PipelineReturns, CatchError,
        ReadVerdict, Step, Elsewhere, rows
<1>1. PICK to \in WorkerPcs : /\ pc' = [pc EXCEPT ![w] = to]
                              /\ pc[w] \in Attempting <=> to \in Attempting
      BY DEF WorkerPcs, Attempting, Executing
<1>2. UNCHANGED <<phase, job>> OBVIOUS
<1> HIDE DEF LoadProceeds, Register, BeginPipeline, DispatchFails, ObserveAbort,
        StartNode, NodeSucceeds, NodeFails, PipelineReturns, CatchError,
        ReadVerdict, Step, Elsewhere, rows
<1> QED BY <1>1, <1>2, SamePhases, SameAttempts DEF abstract, IInv

LEMMA TakeAndRelease ==
  ASSUME IInv, NEW w \in Workers,
         \/ LoadSkips(w) \/ NotifyTerminal(w) \/ \E r \in Runs : Dispatch(w, r)
  PROVE  UNCHANGED abstract
<1>1. phase' = phase BY DEF LoadSkips, NotifyTerminal, Dispatch, rows
<1>2. PICK to \in {"idle", "load"}, r \in Runs \cup {NoRun} :
          pc' = [pc EXCEPT ![w] = to] /\ job' = [job EXCEPT ![w] = r]
      BY DEF LoadSkips, NotifyTerminal, Dispatch, Release
<1>3. pc[w] \notin Attempting
      BY DEF LoadSkips, NotifyTerminal, Dispatch, Release, Attempting, Executing
<1>4. to \notin Attempting BY <1>2 DEF Attempting, Executing
<1> QED BY <1>1, <1>2, <1>3, <1>4, SamePhases, SameAttemptsOutside DEF abstract, IInv

LEMMA NextStep ==
  ASSUME IInv, VerdictInv, [Next]_vars
  PROVE  [Contract!Next]_abstract
<1>1. CASE Create
  <2>1. ASSUME NEW r \in ServerRuns,
               \/ Enqueue(r) \/ OpenConversation(r) \/ RetryInsert(r)
               \/ \E o \in Runs : Continue(o, r)
        PROVE  Contract!Open(r)
        BY <2>1, InsertOpens DEF Enqueue, OpenConversation, RetryInsert, Continue
  <2> QED BY <1>1, <2>1, QueueStep, PromoteWriteStep DEF Create, Contract!Next
<1>2. CASE Process
  <2>1. ASSUME NEW w \in Workers, Start(w) \/ WriteTerminal(w)
        PROVE  Contract!Next
        BY <2>1, StartStep, WriteTerminalStep, WorksOnServerRun
        DEF Start, WriteTerminal, Step, Contract!Next
  <2>2. ASSUME NEW w \in Workers, NEW p \in NodePhases, ReportPhase(w, p)
        PROVE  Contract!Next
        BY <2>2, ReportPhaseStep, WorksOnServerRun DEF ReportPhase, Contract!Next
  <2> QED BY <1>2, <2>1, <2>2, WithinAttempt, TakeAndRelease DEF Process, WorkerStep
<1>3. CASE Cancel
  <2>1. ASSUME NEW r \in Runs, CancelWrite(r)
        PROVE  [Contract!Next]_abstract
        BY <2>1, CancelWriteStep DEF CancelWrite, IInv, CancelInv, Contract!Next
  <2> QED BY <1>3, <2>1, QueueStep DEF Cancel
<1>4. CASE Server
      BY <1>4, CrashStep, RecoverRowsStep, QueueStep DEF Server, Contract!Next
<1>5. CASE LocalTrigger
      BY <1>5, CliStep DEF LocalTrigger
<1>6. CASE UNCHANGED vars
      BY <1>6, SamePhases, SameWorkers DEF vars, rows, worker, abstract
<1> QED BY <1>1, <1>2, <1>3, <1>4, <1>5, <1>6 DEF Next

-----------------------------------------------------------------------------
\* The two invariants beside IInv.

\* Nobody else executes the run of a worker.
LEMMA AloneOnRun ==
  ASSUME IInv, NEW v \in Workers, NEW w \in Workers, pc[v] # "idle", job[v] = job[w]
  PROVE  v = w
BY WorksOnServerRun DEF IInv, OneExecution, Jobs

\* What a step of Create, Cancel or LocalTrigger leaves alone.
LEMMA WorkersUntouched ==
  ASSUME Create \/ LocalTrigger \/ (\E r \in Runs : CancelFind(r) \/ CancelWrite(r))
  PROVE  UNCHANGED <<worker, controller>>
BY DEF Create, Enqueue, OpenConversation, RetryInsert, Schedule, RetrySchedule,
       PromoteRead, PromoteWrite, Continue, RetryRead, LocalTrigger, CliCreate,
       CliStart, CliEnd, CliDies, CliReportPhase, CancelFind, CancelWrite

\* Rows in cancel_requested are left alone by all but their worker.
LEMMA RequestStands ==
  ASSUME IInv, NEW r \in ServerRuns, phase[r] = "cancel_requested",
         Create \/ LocalTrigger \/ Cancel
  PROVE  phase'[r] = "cancel_requested"
<1> USE DEF IInv, TypeOK, Runs
<1>1. CASE Create
      BY <1>1 DEF Create, Enqueue, OpenConversation, RetryInsert, Schedule,
         RetrySchedule, PromoteRead, PromoteWrite, Continue, RetryRead, Insert,
         ClaimInv, rows
<1>2. CASE LocalTrigger
      BY <1>2, RunIdsAssumption DEF LocalTrigger, CliCreate, CliStart, CliEnd,
         CliDies, CliReportPhase, Insert, rows
<1>3. CASE Cancel
      BY <1>3 DEF Cancel, CancelFind, CancelWrite, CancelAbort, rows
<1> QED BY <1>1, <1>2, <1>3

LEMMA NextVerdictInv ==
  ASSUME IInv, VerdictInv, [Next]_vars
  PROVE  VerdictInv'
<1> SUFFICES ASSUME NEW v \in Workers, pc'[v] = "write", verdict'[v] = "cancelled"
             PROVE  phase'[job'[v]] = "cancel_requested"
    BY DEF VerdictInv
<1> DEFINE Same == pc'[v] = pc[v] /\ verdict'[v] = verdict[v] /\ job'[v] = job[v]
<1>1. ASSUME Same PROVE phase[job[v]] = "cancel_requested" /\ job[v] \in ServerRuns
      BY <1>1, WorksOnServerRun DEF VerdictInv
<1>2. CASE Create \/ LocalTrigger \/ Cancel
  <2>1. Same
        BY <1>2, WorkersUntouched DEF Cancel, CancelAbort, worker
  <2> QED BY <1>1, <1>2, <2>1, RequestStands
<1>3. ASSUME NEW w \in Workers, WorkerStep(w) \/ (\E r \in Runs : Dispatch(w, r))
             \/ (\E p \in NodePhases : ReportPhase(w, p))
      PROVE  phase'[job'[v]] = "cancel_requested"
  <2>1. CASE w # v
    <3>1. Same
          BY <1>3, <2>1 DEF IInv, TypeOK, WorkerStep, LoadSkips, LoadProceeds, Start,
             Register, BeginPipeline, DispatchFails, ObserveAbort, StartNode,
             NodeSucceeds, NodeFails, PipelineReturns, CatchError, ReadVerdict,
             WriteTerminal, NotifyTerminal, Dispatch, ReportPhase, Step, Release,
             worker
    <3>2. phase' = phase \/ phase' = [phase EXCEPT ![job[w]] = phase'[job[w]]]
          BY <1>3 DEF WorkerStep, LoadSkips, LoadProceeds, Start, IInv, TypeOK,
             Register, BeginPipeline, DispatchFails, ObserveAbort, StartNode,
             NodeSucceeds, NodeFails, PipelineReturns, CatchError, ReadVerdict,
             WriteTerminal, NotifyTerminal, Dispatch, ReportPhase, Elsewhere, rows
    <3>3. job[w] # job[v]
          BY <2>1, <3>1, AloneOnRun
    <3> QED BY <1>1, <3>1, <3>2, <3>3 DEF IInv, TypeOK, Runs
  <2>2. CASE w = v
    <3>1. ReadVerdict(w)
          BY <1>3, <2>2 DEF IInv, TypeOK, WorkerStep, LoadSkips, LoadProceeds, Start,
             Register, BeginPipeline, DispatchFails, ObserveAbort, StartNode,
             NodeSucceeds, NodeFails, PipelineReturns, CatchError,
             WriteTerminal, NotifyTerminal, Dispatch, ReportPhase, Step, Release,
             worker
    <3> QED BY <2>2, <3>1 DEF IInv, TypeOK, ReadVerdict, Step, Elsewhere, rows,
               Status, AllNodePhases
  <2> QED BY <2>1, <2>2
<1>4. CASE Server
  <2>1. CASE Crash BY <2>1 DEF Crash
  <2>2. CASE RecoverRows \/ RequeueRecovered
        BY <2>2 DEF RecoverRows, RequeueRecovered, IInv, StartupInv, worker
  <2> QED BY <1>4, <2>1, <2>2 DEF Server
<1>5. CASE UNCHANGED vars
      BY <1>1, <1>5 DEF vars, worker, rows
<1> QED BY <1>2, <1>3, <1>4, <1>5 DEF Next, Process

LEMMA NextController ==
  ASSUME IInv, IInv', ControllerMatchesExecution, [Next]_vars
  PROVE  ControllerMatchesExecution'
<1> SUFFICES ASSUME NEW v \in Workers, pc'[v] \in Executing
             PROVE  controller'[job'[v]] = v
    BY DEF ControllerMatchesExecution, IInv, CancelInv
<1> DEFINE Same == pc'[v] = pc[v] /\ job'[v] = job[v]
<1>1. ASSUME Same PROVE controller[job[v]] = v /\ job[v] \in Runs
      BY <1>1, WorksOnServerRun DEF ControllerMatchesExecution, Executing
<1>2. CASE Create \/ LocalTrigger \/ Cancel
      BY <1>1, <1>2, WorkersUntouched DEF Cancel, CancelAbort, worker
<1>3. ASSUME NEW w \in Workers, WorkerStep(w) \/ (\E r \in Runs : Dispatch(w, r))
             \/ (\E p \in NodePhases : ReportPhase(w, p))
      PROVE  controller'[job'[v]] = v
  <2>1. CASE w # v
    <3>1. Same
          BY <1>3, <2>1 DEF IInv, TypeOK, WorkerStep, LoadSkips, LoadProceeds, Start,
             Register, BeginPipeline, DispatchFails, ObserveAbort, StartNode,
             NodeSucceeds, NodeFails, PipelineReturns, CatchError, ReadVerdict,
             WriteTerminal, NotifyTerminal, Dispatch, ReportPhase, Step, Release,
             worker
    <3>2. controller' = controller
          \/ controller' = [controller EXCEPT ![job[w]] = controller'[job[w]]]
          BY <1>3 DEF WorkerStep, LoadSkips, LoadProceeds, Start, IInv, TypeOK,
             Register, BeginPipeline, DispatchFails, ObserveAbort, StartNode,
             NodeSucceeds, NodeFails, PipelineReturns, CatchError, ReadVerdict,
             WriteTerminal, NotifyTerminal, Dispatch, ReportPhase, Elsewhere,
             Unregister
    <3>3. job[w] # job[v]
          BY <2>1, <3>1, AloneOnRun DEF Executing
    <3> QED BY <1>1, <3>1, <3>2, <3>3 DEF IInv, TypeOK
  <2>2. CASE w = v /\ Register(w)
        BY <2>2, WorksOnServerRun DEF IInv, TypeOK, Register, Step
  <2>3. CASE w = v /\ ~Register(w)
    <3>1. /\ controller' = controller /\ job' = job /\ pc[v] \in Executing
          BY <1>3, <2>3 DEF IInv, TypeOK, WorkerStep, LoadSkips, LoadProceeds, Start,
             BeginPipeline, DispatchFails, ObserveAbort, StartNode, NodeSucceeds,
             NodeFails, PipelineReturns, CatchError, ReadVerdict, WriteTerminal,
             NotifyTerminal, Dispatch, ReportPhase, Step, Release, worker,
             Elsewhere, Executing
    <3> QED BY <3>1 DEF ControllerMatchesExecution
  <2> QED BY <2>1, <2>2, <2>3
<1>4. CASE Server
  <2>1. CASE Crash BY <2>1 DEF Crash, Executing
  <2>2. CASE RecoverRows \/ RequeueRecovered
        BY <1>1, <2>2 DEF RecoverRows, RequeueRecovered, worker
  <2> QED BY <1>4, <2>1, <2>2 DEF Server
<1>5. CASE UNCHANGED vars
      BY <1>1, <1>5 DEF vars, worker
<1> QED BY <1>2, <1>3, <1>4, <1>5 DEF Next, Process

LEMMA EndedRowMoves ==
  ASSUME IInv, [Next]_vars, NEW r \in ServerRuns, Status(phase[r]) \in Terminal
  PROVE  \/ phase'[r] = phase[r]
         \/ phase'[r] = "cancel_requested" /\ cancelPc[r] = "found"
<1>0. phase[r] \in Terminal BY DEF Status, Terminal
<1> USE DEF IInv, TypeOK, Runs, Terminal
<1>1. CASE Create
      BY <1>0, <1>1 DEF Create, Enqueue, OpenConversation, RetryInsert, Schedule,
         RetrySchedule, PromoteRead, PromoteWrite, Continue, RetryRead, Insert,
         ClaimInv, rows
<1>2. CASE LocalTrigger
      BY <1>2, RunIdsAssumption DEF LocalTrigger, CliCreate, CliStart, CliEnd,
         CliDies, CliReportPhase, Insert, rows
<1>3. CASE Cancel
      BY <1>3 DEF Cancel, CancelFind, CancelWrite, CancelAbort, rows
<1>4. ASSUME NEW w \in Workers, WorkerStep(w) \/ (\E q \in Runs : Dispatch(w, q))
             \/ (\E p \in NodePhases : ReportPhase(w, p))
      PROVE  phase'[r] = phase[r]
  <2>1. CASE pc[w] \in {"start", "node", "write"}
    <3>1. job[w] # r
          BY <1>0, <2>1 DEF WorkerInv, Attempting, Executing, Live, AllNodePhases
    <3> QED BY <1>4, <3>1 DEF WorkerStep, LoadSkips, LoadProceeds, Start, Register,
               BeginPipeline, DispatchFails, ObserveAbort, StartNode,
               NodeSucceeds, NodeFails, PipelineReturns, CatchError,
               ReadVerdict, WriteTerminal, NotifyTerminal, Dispatch,
               ReportPhase, Elsewhere, rows
  <2>2. CASE pc[w] \notin {"start", "node", "write"}
        BY <1>4, <2>2 DEF WorkerStep, LoadSkips, LoadProceeds, Start, Register,
           BeginPipeline, DispatchFails, ObserveAbort, StartNode, NodeSucceeds,
           NodeFails, PipelineReturns, CatchError, ReadVerdict, WriteTerminal,
           NotifyTerminal, Dispatch, ReportPhase, Step, Elsewhere, rows
  <2> QED BY <2>1, <2>2
<1>5. CASE Server
      BY <1>0, <1>5 DEF Server, Crash, RecoverRows, RequeueRecovered, rows, Status,
         Recoverable, AllNodePhases
<1>6. CASE UNCHANGED vars BY <1>6 DEF vars, rows
<1> QED BY <1>1, <1>2, <1>3, <1>4, <1>5, <1>6 DEF Next, Process

-----------------------------------------------------------------------------
\* The server executes runs exactly as RunContract promises: every step of the
\* detailed specification moves the status of one run as the contract allows,
\* or none at all.
THEOREM Refinement == ASSUME PromoteLimit <= 1 PROVE Spec => ImplementsContract
<1>1. Init => VerdictInv BY DEF Init, VerdictInv
<1>2. IInv /\ VerdictInv /\ [Next]_vars => VerdictInv' BY NextVerdictInv
<1>3. Init => Contract!Init
      BY DEF Init, Contract!Init, rowStatus, attempting, Status, AllNodePhases,
         Jobs, Attempting, Executing, Runs
<1>4. IInv /\ VerdictInv /\ [Next]_vars => [Contract!Next]_<<rowStatus, attempting>>
      BY NextStep DEF abstract
<1> QED BY <1>1, <1>2, <1>3, <1>4, Inductive, PTL
        DEF Spec, ImplementsContract, Contract!Spec

\* The controller of a run is registered exactly while its pipeline executes,
\* so cancelRun reaches every pipeline and never one that is over.
THEOREM ControllerInReach ==
  ASSUME PromoteLimit <= 1 PROVE Spec => []ControllerMatchesExecution
<1>1. Init => ControllerMatchesExecution
      BY DEF Init, ControllerMatchesExecution, Executing
<1>2. IInv /\ IInv' /\ ControllerMatchesExecution /\ [Next]_vars
          => ControllerMatchesExecution'
      BY NextController
<1> QED BY <1>1, <1>2, Inductive, PTL DEF Spec

\* A row that has ended stays as it is, unless a cancelRun call that found the
\* controller before the end writes cancel_requested over it.
THEOREM EndedOnlyCancelledLate ==
  ASSUME PromoteLimit <= 1 PROVE Spec => TerminalOnlyCancelledLate
<1>1. IInv /\ [Next]_vars =>
        [\A r \in ServerRuns :
            Status(phase[r]) \in Terminal =>
                \/ phase'[r] = phase[r]
                \/ phase'[r] = "cancel_requested" /\ cancelPc[r] = "found"]_vars
      BY EndedRowMoves
<1> QED BY <1>1, Inductive, PTL DEF Spec, TerminalOnlyCancelledLate
=============================================================================
