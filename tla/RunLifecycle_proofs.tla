------------------------ MODULE RunLifecycle_proofs -------------------------
(***************************************************************************)
(* Safety of RunLifecycle for any number of runs, workers and pipeline     *)
(* nodes, as long as promotions of one conversation do not overlap.        *)
(***************************************************************************)
EXTENDS RunLifecycle, TLAPS

Live  == AllNodePhases \cup {"cancel_requested"}
Ended == Terminal \cup {"cancel_requested"}

\* What a claim on a run says about its row.
ClaimInv ==
    \A r \in Runs :
        /\ scheduling[r] > 0 \/ pending[r] > 0 => phase[r] = "queued"
        /\ retryOf[r] # NoRun => r \in ServerRuns /\ phase[r] \in {"absent", "queued"}
        /\ promoting[r] > 0 => promoting[r] = 1 /\ phase[r] = "conversation"

\* What a worker's place says about the row of its run.
WorkerInv ==
    \A w \in Workers :
        /\ pc[w] = "idle" <=> job[w] = NoRun
        /\ job[w] # NoRun => job[w] \in ServerRuns
        /\ pc[w] \in {"load", "start"} => phase[job[w]] = "queued"
        /\ pc[w] \in Attempting => phase[job[w]] \in Live
        /\ pc[w] = "notify" => phase[job[w]] \in Ended

\* The server never works on a run of local-trigger.
CliInv ==
    \A r \in CliRuns :
        /\ scheduling[r] = 0 /\ pending[r] = 0 /\ promoting[r] = 0
        /\ notified[r] = 0
        /\ phase[r] # "absent" \/ cli[r] # "none" => r \in localChannel
        /\ phase[r] # "conversation"

\* Outside "up" the process has no work in hand, and the startup knows every
\* row it has to requeue.
StartupInv ==
    /\ server # "up" =>
          /\ \A r \in Runs : scheduling[r] = 0 /\ pending[r] = 0 /\ promoting[r] = 0
                                /\ retryOf[r] = NoRun /\ cancelPc[r] = "idle"
          /\ \A w \in Workers : pc[w] = "idle"
    /\ server # "recovering" => recovered = {}
    /\ server = "recovering" =>
          /\ \A r \in recovered : phase[r] # "absent"
          /\ \A r \in recovered \cap ServerRuns : phase[r] = "queued"
          /\ \A r \in ServerRuns : Status(phase[r]) \in Recoverable => r \in recovered

\* A cancelRun call in progress means that the run was executed.
CancelInv ==
    /\ \A r \in Runs :
          controller[r] # NoWorker =>
             job[controller[r]] = r /\ pc[controller[r]] \in Executing
    /\ \A r \in Runs : cancelPc[r] # "idle" =>
          r \in ServerRuns /\ phase[r] \in Live \cup Terminal

\* A run whose end was announced has no execution left that could end.
NotifyInv ==
    \A r \in Runs :
        /\ notified[r] <= 1
        /\ notified[r] > 0 => phase[r] \in Ended /\ Jobs(r) = {}

IInv ==
    /\ TypeOK
    /\ OneExecution
    /\ ClaimInv
    /\ WorkerInv
    /\ CliInv
    /\ StartupInv
    /\ CancelInv
    /\ NotifyInv
    /\ NoRunForgotten
    /\ MarkersConsumed

-----------------------------------------------------------------------------
\* Facts used below.

LEMMA CountOneMore ==
  ASSUME NEW S, NEW f \in [S -> Nat], NEW x
  PROVE  [f EXCEPT ![x] = @ + 1] \in [S -> Nat]
<1> DEFINE g == [f EXCEPT ![x] = @ + 1]
<1>1. ASSUME NEW s \in S PROVE g[s] \in Nat
  <2>1. CASE s = x BY <2>1
  <2>2. CASE s # x BY <2>2
  <2> QED BY <2>1, <2>2
<1>2. g = [s \in S |-> g[s]]
      OBVIOUS
<1> QED BY <1>1, <1>2

\* The end of a task keeps the types of what its worker holds.
LEMMA ReleaseType ==
  ASSUME TypeOK, NEW w \in Workers, NEW from, Release(w, from)
  PROVE  /\ job' \in [Workers -> Runs \cup {NoRun}]
         /\ pc' \in [Workers -> WorkerPcs]
         /\ node' \in [Workers -> 0 .. Nodes]
         /\ aborted' \in [Workers -> BOOLEAN]
         /\ verdict' \in [Workers -> Terminal]
BY PipelineAssumption DEF TypeOK, Release, WorkerPcs, Terminal

\* Every step keeps the types, however many promotions overlap.
LEMMA TypeStep == TypeOK /\ [Next]_vars => TypeOK'
<1> SUFFICES ASSUME TypeOK, [Next]_vars PROVE TypeOK'
    OBVIOUS
<1> USE RunIdsAssumption, PipelineAssumption DEF TypeOK, Runs, Phases, rows,
        queues, worker, cancel
<1>1. ASSUME NEW r \in ServerRuns, Enqueue(r) PROVE TypeOK'
    BY <1>1 DEF Enqueue, Insert
<1>2. ASSUME NEW p \in Runs, NEW r \in ServerRuns, Continue(p, r) PROVE TypeOK'
    BY <1>2 DEF Continue, Insert
<1>3. ASSUME NEW r \in ServerRuns, Schedule(r) PROVE TypeOK'
    BY <1>3 DEF Schedule
<1>4. ASSUME NEW o \in Runs, NEW r \in ServerRuns, RetryRead(o, r)
       PROVE TypeOK'
    BY <1>4 DEF RetryRead
<1>5. ASSUME NEW r \in ServerRuns, RetryInsert(r) PROVE TypeOK'
    BY <1>5 DEF RetryInsert, Insert
<1>6. ASSUME NEW r \in ServerRuns, RetrySchedule(r) PROVE TypeOK'
    BY <1>6 DEF RetrySchedule
<1>7. ASSUME NEW r \in ServerRuns, OpenConversation(r) PROVE TypeOK'
    BY <1>7 DEF OpenConversation, Insert
<1>8. ASSUME NEW r \in ServerRuns, PromoteRead(r) PROVE TypeOK'
    BY <1>8 DEF PromoteRead
<1>9. ASSUME NEW r \in ServerRuns, PromoteWrite(r) PROVE TypeOK'
    BY <1>9 DEF PromoteWrite
<1>10. ASSUME NEW w \in Workers, NEW r \in Runs, Dispatch(w, r) PROVE TypeOK'
    BY <1>10 DEF Dispatch, WorkerPcs
<1>11. ASSUME NEW w \in Workers, LoadSkips(w) PROVE TypeOK'
    BY <1>11, ReleaseType DEF LoadSkips, DropMarker
<1>12. ASSUME NEW w \in Workers, LoadProceeds(w) PROVE TypeOK'
    BY <1>12 DEF LoadProceeds, DropMarker, Step, WorkerPcs
<1>13. ASSUME NEW w \in Workers, Start(w) PROVE TypeOK'
    BY <1>13 DEF Start, Step, WorkerPcs, AllNodePhases
<1>14. ASSUME NEW w \in Workers, Register(w) PROVE TypeOK'
    BY <1>14 DEF Register, Step, WorkerPcs
<1>15. ASSUME NEW w \in Workers, BeginPipeline(w) PROVE TypeOK'
    BY <1>15 DEF BeginPipeline, Step, Elsewhere, WorkerPcs
<1>16. ASSUME NEW w \in Workers, DispatchFails(w) PROVE TypeOK'
    BY <1>16 DEF DispatchFails, Step, Elsewhere, WorkerPcs
<1>17. ASSUME NEW w \in Workers, ObserveAbort(w) PROVE TypeOK'
    BY <1>17 DEF ObserveAbort, Step, Elsewhere, WorkerPcs
<1>18. ASSUME NEW w \in Workers, StartNode(w) PROVE TypeOK'
    BY <1>18 DEF StartNode, Step, Elsewhere, WorkerPcs
<1>19. ASSUME NEW w \in Workers, NodeSucceeds(w) PROVE TypeOK'
    BY <1>19 DEF NodeSucceeds, Step, Elsewhere, WorkerPcs
<1>20. ASSUME NEW w \in Workers, NodeFails(w) PROVE TypeOK'
    BY <1>20 DEF NodeFails, Step, Elsewhere, WorkerPcs
<1>21. ASSUME NEW w \in Workers, PipelineReturns(w) PROVE TypeOK'
    BY <1>21 DEF PipelineReturns, Step, Unregister, WorkerPcs, Terminal
<1>22. ASSUME NEW w \in Workers, CatchError(w) PROVE TypeOK'
    BY <1>22 DEF CatchError, Step, Unregister, WorkerPcs
<1>23. ASSUME NEW w \in Workers, ReadVerdict(w) PROVE TypeOK'
    BY <1>23 DEF ReadVerdict, Step, Elsewhere, WorkerPcs, Terminal
<1>24. ASSUME NEW w \in Workers, WriteTerminal(w) PROVE TypeOK'
    BY <1>24 DEF WriteTerminal, Step, WorkerPcs
<1>25. ASSUME NEW w \in Workers, NotifyTerminal(w) PROVE TypeOK'
  <2>1. notified' \in [Runs -> Nat]
        BY <1>25, CountOneMore DEF NotifyTerminal
  <2> QED BY <1>25, <2>1, ReleaseType DEF NotifyTerminal
<1>26. ASSUME NEW w \in Workers, NEW p \in NodePhases, ReportPhase(w, p)
       PROVE TypeOK'
    BY <1>26 DEF ReportPhase
<1>27. ASSUME NEW r \in Runs, CancelFind(r) PROVE TypeOK'
    BY <1>27 DEF CancelFind
<1>28. ASSUME NEW r \in Runs, CancelWrite(r) PROVE TypeOK'
    BY <1>28 DEF CancelWrite
<1>29. ASSUME NEW r \in Runs, CancelAbort(r) PROVE TypeOK'
    BY <1>29 DEF CancelAbort
<1>30. ASSUME Crash PROVE TypeOK'
    BY <1>30 DEF Crash, WorkerPcs, Terminal
<1>31. ASSUME RecoverRows PROVE TypeOK'
    BY <1>31 DEF RecoverRows
<1>32. ASSUME RequeueRecovered PROVE TypeOK'
    BY <1>32 DEF RequeueRecovered
<1>33. ASSUME NEW r \in CliRuns, CliCreate(r) PROVE TypeOK'
    BY <1>33 DEF CliCreate, Insert
<1>34. ASSUME NEW r \in CliRuns, CliStart(r) PROVE TypeOK'
    BY <1>34 DEF CliStart, AllNodePhases
<1>35. ASSUME NEW r \in CliRuns, CliEnd(r) PROVE TypeOK'
    BY <1>35 DEF CliEnd, Terminal
<1>36. ASSUME NEW r \in CliRuns, CliDies(r) PROVE TypeOK'
    BY <1>36 DEF CliDies
<1>37. ASSUME NEW r \in CliRuns, NEW p \in NodePhases, CliReportPhase(r, p)
       PROVE TypeOK'
    BY <1>37 DEF CliReportPhase
<1>38. CASE UNCHANGED vars
    BY <1>38 DEF vars
<1> QED BY <1>1, <1>2, <1>3, <1>4, <1>5, <1>6, <1>7, <1>8, <1>9, <1>10, <1>11,
    <1>12, <1>13, <1>14, <1>15, <1>16, <1>17, <1>18, <1>19, <1>20, <1>21,
    <1>22, <1>23, <1>24, <1>25, <1>26, <1>27, <1>28, <1>29, <1>30, <1>31,
    <1>32, <1>33, <1>34, <1>35, <1>36, <1>37, <1>38
    DEF Next, Create, Process, WorkerStep, Cancel, Server, LocalTrigger

\* Nobody works on a row that does not exist or is still a conversation.
LEMMA Untouched ==
  ASSUME IInv, NEW r \in Runs, phase[r] \in {"absent", "conversation"},
         retryOf[r] = NoRun
  PROVE  Claims(r) = 0 /\ Jobs(r) = {}
<1>1. scheduling[r] = 0 /\ pending[r] = 0
      BY DEF IInv, TypeOK, ClaimInv
<1>2. ASSUME NEW w \in Workers, job[w] = r PROVE FALSE
      BY <1>2, RunIdsAssumption
      DEF IInv, TypeOK, WorkerInv, Runs, Live, Ended, Attempting, Executing,
          Terminal, AllNodePhases, WorkerPcs
<1> QED BY <1>1, <1>2 DEF Claims, Jobs

\* A step of backend.execute that only moves the worker on.
LEMMA ExecutionStepKeeps ==
  ASSUME IInv, TypeOK', NEW w \in Workers, NEW to \in Executing,
         pc[w] \in Executing, pc' = [pc EXCEPT ![w] = to],
         UNCHANGED <<Elsewhere, job>>
  PROVE  IInv'
<1> USE DEF IInv, Elsewhere, rows, queues, cancel
<1>1. WorkerInv' BY DEF WorkerInv, TypeOK, Attempting, Executing
<1>2. StartupInv' BY DEF StartupInv, Executing
<1>3. CancelInv' BY DEF CancelInv, TypeOK
<1>4. MarkersConsumed' BY DEF MarkersConsumed, Jobs, Executing
<1>5. OneExecution' /\ ClaimInv' /\ CliInv' /\ NotifyInv' /\ NoRunForgotten'
      BY DEF OneExecution, Claims, Jobs, ClaimInv, CliInv, NotifyInv,
             NoRunForgotten, Driven
<1> QED BY <1>1, <1>2, <1>3, <1>4, <1>5

-----------------------------------------------------------------------------
\* Creating and scheduling runs.

LEMMA EnqueueKeeps ==
  ASSUME IInv, TypeOK', NEW r \in ServerRuns, Enqueue(r)
  PROVE  IInv'
<1> USE DEF IInv, Enqueue, worker, cancel, Insert
<1>0. Claims(r) = 0 /\ Jobs(r) = {}
      BY Untouched DEF Runs, Status, AllNodePhases
<1>1. OneExecution' BY <1>0 DEF OneExecution, Claims, Jobs, TypeOK
<1>2. ClaimInv' BY DEF ClaimInv, TypeOK
<1>3. WorkerInv' BY DEF WorkerInv, Live, Ended, Terminal, AllNodePhases
<1>4. CliInv' BY RunIdsAssumption DEF CliInv
<1>5. StartupInv' BY DEF StartupInv
<1>6. CancelInv' BY DEF CancelInv, Live, Terminal, AllNodePhases
<1>7. NotifyInv' BY DEF NotifyInv, Jobs, Ended, Terminal
<1>8. NoRunForgotten' BY DEF NoRunForgotten, Driven, Claims, Jobs, TypeOK
<1>9. MarkersConsumed' BY DEF MarkersConsumed, Jobs
<1> QED BY <1>1, <1>2, <1>3, <1>4, <1>5, <1>6, <1>7, <1>8, <1>9

LEMMA ContinueKeeps ==
  ASSUME IInv, TypeOK', NEW p \in Runs, NEW r \in ServerRuns, Continue(p, r)
  PROVE  IInv'
<1> USE DEF IInv, Continue, worker, cancel, Insert
<1>0. Claims(r) = 0 /\ Jobs(r) = {}
      BY Untouched DEF Runs, Status, AllNodePhases
<1>1. OneExecution' BY <1>0 DEF OneExecution, Claims, Jobs, TypeOK
<1>2. ClaimInv' BY DEF ClaimInv, TypeOK
<1>3. WorkerInv' BY DEF WorkerInv, Live, Ended, Terminal, AllNodePhases
<1>4. CliInv' BY RunIdsAssumption DEF CliInv
<1>5. StartupInv' BY DEF StartupInv
<1>6. CancelInv' BY DEF CancelInv, Live, Terminal, AllNodePhases
<1>7. NotifyInv' BY DEF NotifyInv, Jobs, Ended, Terminal
<1>8. NoRunForgotten' BY DEF NoRunForgotten, Driven, Claims, Jobs, TypeOK
<1>9. MarkersConsumed' BY DEF MarkersConsumed, Jobs
<1> QED BY <1>1, <1>2, <1>3, <1>4, <1>5, <1>6, <1>7, <1>8, <1>9

LEMMA ScheduleKeeps ==
  ASSUME IInv, TypeOK', NEW r \in ServerRuns, Schedule(r)
  PROVE  IInv'
<1> USE DEF IInv, Schedule, cancel, worker, rows
<1>1. OneExecution' BY DEF OneExecution, Claims, Jobs, TypeOK
<1>2. ClaimInv' BY DEF ClaimInv
<1>3. CliInv' BY DEF CliInv
<1>4. StartupInv' BY DEF StartupInv
<1>5. NoRunForgotten' BY DEF NoRunForgotten, Driven, Claims, Jobs, TypeOK
<1>6. MarkersConsumed' BY DEF MarkersConsumed, Jobs, TypeOK
<1>7. WorkerInv' /\ CancelInv' /\ NotifyInv'
      BY DEF WorkerInv, CancelInv, NotifyInv, Jobs
<1> QED BY <1>1, <1>2, <1>3, <1>4, <1>5, <1>6, <1>7

LEMMA RetryReadKeeps ==
  ASSUME IInv, TypeOK', NEW o \in Runs, NEW r \in ServerRuns, RetryRead(o, r)
  PROVE  IInv'
<1> USE DEF IInv, RetryRead, worker, rows, cancel
<1>0. Claims(r) = 0 /\ Jobs(r) = {}
      BY Untouched DEF Runs, Status, AllNodePhases
<1>1. OneExecution' BY <1>0 DEF OneExecution, Claims, Jobs, TypeOK
<1>2. ClaimInv' BY DEF ClaimInv
<1>3. StartupInv' BY DEF StartupInv
<1>4. NoRunForgotten' BY DEF NoRunForgotten, Driven, Claims, Jobs, TypeOK
<1>5. WorkerInv' /\ CliInv' /\ CancelInv' /\ NotifyInv' /\ MarkersConsumed'
      BY DEF WorkerInv, CliInv, CancelInv, NotifyInv, Jobs, MarkersConsumed
<1> QED BY <1>1, <1>2, <1>3, <1>4, <1>5

LEMMA RetryInsertKeeps ==
  ASSUME IInv, TypeOK', NEW r \in ServerRuns, RetryInsert(r)
  PROVE  IInv'
<1> USE DEF IInv, RetryInsert, queues, worker, cancel, Insert
<1>1. ClaimInv' BY DEF ClaimInv
<1>2. WorkerInv' BY DEF WorkerInv, Live, Ended, Terminal, AllNodePhases
<1>3. CliInv' BY RunIdsAssumption DEF CliInv
<1>4. StartupInv' BY DEF StartupInv, TypeOK
<1>5. CancelInv' BY DEF CancelInv, Live, Terminal, AllNodePhases
<1>6. NotifyInv' BY DEF NotifyInv, Jobs, Ended, Terminal
<1>7. NoRunForgotten' BY DEF NoRunForgotten, Driven, Claims, Jobs, TypeOK
<1>8. OneExecution' /\ MarkersConsumed'
      BY DEF OneExecution, Claims, Jobs, MarkersConsumed
<1> QED BY <1>1, <1>2, <1>3, <1>4, <1>5, <1>6, <1>7, <1>8

LEMMA RetryScheduleKeeps ==
  ASSUME IInv, TypeOK', NEW r \in ServerRuns, RetrySchedule(r)
  PROVE  IInv'
<1> USE DEF IInv, RetrySchedule, worker, rows, cancel
<1>1. OneExecution' BY DEF OneExecution, Claims, Jobs, TypeOK
<1>2. ClaimInv' BY DEF ClaimInv
<1>3. CliInv' BY RunIdsAssumption DEF CliInv
<1>4. StartupInv' BY DEF StartupInv
<1>5. NoRunForgotten' BY DEF NoRunForgotten, Driven, Claims, Jobs, TypeOK
<1>6. MarkersConsumed' BY DEF MarkersConsumed, Jobs, TypeOK
<1>7. WorkerInv' /\ CancelInv' /\ NotifyInv'
      BY DEF WorkerInv, CancelInv, NotifyInv, Jobs
<1> QED BY <1>1, <1>2, <1>3, <1>4, <1>5, <1>6, <1>7

LEMMA OpenConversationKeeps ==
  ASSUME IInv, TypeOK', NEW r \in ServerRuns, OpenConversation(r)
  PROVE  IInv'
<1> USE DEF IInv, OpenConversation, cancel, queues, worker, Insert
<1>1. ClaimInv' BY DEF ClaimInv
<1>2. WorkerInv' BY DEF WorkerInv, Live, Ended, Terminal, AllNodePhases
<1>3. CliInv' BY RunIdsAssumption DEF CliInv
<1>4. StartupInv' BY DEF StartupInv
<1>5. CancelInv' BY DEF CancelInv, Live, Terminal, AllNodePhases
<1>6. NotifyInv' BY DEF NotifyInv, Jobs, Ended, Terminal
<1>7. NoRunForgotten' BY DEF NoRunForgotten, Driven, Claims, Jobs,
        AllNodePhases, Status, Recoverable
<1>8. OneExecution' /\ MarkersConsumed'
      BY DEF OneExecution, Claims, Jobs, MarkersConsumed
<1> QED BY <1>1, <1>2, <1>3, <1>4, <1>5, <1>6, <1>7, <1>8

LEMMA PromoteReadKeeps ==
  ASSUME IInv, TypeOK', PromoteLimit <= 1, NEW r \in ServerRuns, PromoteRead(r)
  PROVE  IInv'
<1> USE DEF IInv, PromoteRead, worker, rows, cancel
<1>1. ClaimInv' BY BoundsAssumption DEF ClaimInv, TypeOK, Status
<1>2. CliInv' BY RunIdsAssumption DEF CliInv
<1>3. StartupInv' BY DEF StartupInv
<1>4. OneExecution' /\ WorkerInv' /\ CancelInv' /\ NotifyInv' /\
      NoRunForgotten' /\ MarkersConsumed'
      BY DEF OneExecution, Claims, Jobs, WorkerInv, CancelInv, NotifyInv,
        NoRunForgotten, Driven, MarkersConsumed
<1> QED BY <1>1, <1>2, <1>3, <1>4

LEMMA PromoteWriteKeeps ==
  ASSUME IInv, TypeOK', NEW r \in ServerRuns, PromoteWrite(r)
  PROVE  IInv'
<1> USE DEF IInv, PromoteWrite, worker, cancel
<1>0. Claims(r) = 0 /\ Jobs(r) = {}
      BY Untouched DEF Runs, Status, AllNodePhases, ClaimInv, TypeOK
<1>1. OneExecution' BY <1>0 DEF OneExecution, Claims, Jobs, TypeOK
<1>2. ClaimInv' BY DEF ClaimInv, TypeOK
<1>3. WorkerInv' BY DEF WorkerInv, Runs, ClaimInv, Live, Ended, Terminal,
        AllNodePhases
<1>4. CliInv' BY DEF CliInv
<1>5. StartupInv' BY DEF StartupInv, TypeOK
<1>6. CancelInv' BY DEF CancelInv, ClaimInv, Live, Terminal, AllNodePhases
<1>7. NotifyInv' BY DEF NotifyInv, Jobs, ClaimInv, Ended, Terminal
<1>8. NoRunForgotten' BY DEF NoRunForgotten, Driven, Claims, Jobs, TypeOK
<1>9. MarkersConsumed' BY DEF MarkersConsumed, Jobs
<1> QED BY <1>1, <1>2, <1>3, <1>4, <1>5, <1>6, <1>7, <1>8, <1>9

-----------------------------------------------------------------------------
\* processRun.

LEMMA DispatchKeeps ==
  ASSUME IInv, TypeOK', NEW w \in Workers, NEW r \in Runs, Dispatch(w, r)
  PROVE  IInv'
<1> USE DEF IInv, Dispatch, rows, cancel
<1>1. OneExecution' BY DEF OneExecution, Claims, Jobs, TypeOK
<1>2. ClaimInv' BY DEF ClaimInv
<1>3. WorkerInv' BY RunIdsAssumption DEF WorkerInv, TypeOK, Runs, ClaimInv,
        CliInv, Attempting, Executing
<1>4. CliInv' BY DEF CliInv
<1>5. StartupInv' BY DEF StartupInv
<1>6. CancelInv' BY RunIdsAssumption DEF CancelInv, Runs, WorkerInv
<1>7. NotifyInv' BY DEF NotifyInv, Jobs, ClaimInv, Ended, Terminal
<1>8. NoRunForgotten' BY RunIdsAssumption DEF NoRunForgotten, Driven, Claims,
        Jobs, TypeOK, WorkerInv
<1>9. MarkersConsumed' BY DEF MarkersConsumed, Jobs, TypeOK
<1> QED BY <1>1, <1>2, <1>3, <1>4, <1>5, <1>6, <1>7, <1>8, <1>9

LEMMA LoadSkipsKeeps ==
  ASSUME IInv, TypeOK', NEW w \in Workers, LoadSkips(w)
  PROVE  IInv'
<1> USE DEF IInv, LoadSkips, Release, DropMarker, rows, cancel
<1>1. OneExecution' BY RunIdsAssumption DEF OneExecution, Claims, Jobs, Runs
<1>2. WorkerInv' BY DEF WorkerInv, Terminal, Status
<1>3. StartupInv' BY DEF StartupInv
<1>4. CancelInv' BY DEF CancelInv, Executing
<1>5. NotifyInv' BY RunIdsAssumption DEF NotifyInv, Jobs, Runs
<1>6. NoRunForgotten' BY DEF NoRunForgotten, Driven, Claims, Jobs, Terminal,
        Recoverable
<1>7. MarkersConsumed' BY DEF MarkersConsumed, Jobs, TypeOK
<1>8. ClaimInv' /\ CliInv'
      BY DEF ClaimInv, CliInv
<1> QED BY <1>1, <1>2, <1>3, <1>4, <1>5, <1>6, <1>7, <1>8

LEMMA LoadProceedsKeeps ==
  ASSUME IInv, TypeOK', NEW w \in Workers, LoadProceeds(w)
  PROVE  IInv'
<1> USE DEF IInv, LoadProceeds, DropMarker, Step, rows, cancel
<1>1. WorkerInv' BY DEF WorkerInv, Attempting, Executing
<1>2. StartupInv' BY DEF StartupInv
<1>3. CancelInv' BY DEF CancelInv, Executing
<1>4. MarkersConsumed' BY DEF MarkersConsumed, Jobs, TypeOK
<1>5. OneExecution' /\ ClaimInv' /\ CliInv' /\ NotifyInv' /\ NoRunForgotten'
      BY DEF OneExecution, Claims, Jobs, ClaimInv, CliInv, NotifyInv,
        NoRunForgotten, Driven
<1> QED BY <1>1, <1>2, <1>3, <1>4, <1>5

LEMMA StartKeeps ==
  ASSUME IInv, TypeOK', NEW w \in Workers, Start(w)
  PROVE  IInv'
<1> USE DEF IInv, Start, queues, Step, cancel
<1>a. job[w] \in Runs /\ w \in Jobs(job[w])
      BY RunIdsAssumption DEF TypeOK, Jobs, WorkerInv, Runs
<1>b. Claims(job[w]) \in Nat
      BY <1>a DEF TypeOK, Claims
<1>0. Claims(job[w]) = 0
      BY <1>a, <1>b DEF OneExecution
<1>1. ClaimInv' BY <1>0, <1>a DEF ClaimInv, TypeOK, WorkerInv, Claims
<1>2. WorkerInv' BY DEF WorkerInv, TypeOK, OneExecution, Jobs, Live,
        AllNodePhases
<1>3. CliInv' BY DEF CliInv, WorkerInv
<1>4. StartupInv' BY DEF StartupInv
<1>5. CancelInv' BY DEF CancelInv, Live, Executing, AllNodePhases
<1>6. NotifyInv' BY DEF NotifyInv, Jobs
<1>7. NoRunForgotten' BY DEF NoRunForgotten, Driven, Claims, Jobs
<1>8. MarkersConsumed' BY DEF MarkersConsumed, Jobs
<1>9. OneExecution' BY DEF OneExecution, Claims, Jobs
<1> QED BY <1>1, <1>2, <1>3, <1>4, <1>5, <1>6, <1>7, <1>8, <1>9

LEMMA RegisterKeeps ==
  ASSUME IInv, TypeOK', NEW w \in Workers, Register(w)
  PROVE  IInv'
<1> USE DEF IInv, Register, queues, cancel, Step, rows
<1>1. WorkerInv' BY DEF WorkerInv, Attempting
<1>2. StartupInv' BY DEF StartupInv
<1>3. CancelInv' BY DEF CancelInv, TypeOK, Executing
<1>4. MarkersConsumed' BY DEF MarkersConsumed, Jobs
<1>5. OneExecution' /\ ClaimInv' /\ CliInv' /\ NotifyInv' /\ NoRunForgotten'
      BY DEF OneExecution, Claims, Jobs, ClaimInv, CliInv, NotifyInv,
        NoRunForgotten, Driven
<1> QED BY <1>1, <1>2, <1>3, <1>4, <1>5

LEMMA ReportPhaseKeeps ==
  ASSUME IInv, TypeOK', NEW w \in Workers, NEW p \in NodePhases, ReportPhase(w,
         p)
  PROVE  IInv'
<1> USE DEF IInv, ReportPhase, cancel, queues, worker
<1>1. ClaimInv' BY DEF ClaimInv, WorkerInv, Live, Attempting, Executing,
        AllNodePhases
<1>2. WorkerInv' BY PipelineAssumption DEF WorkerInv, Runs, OneExecution, Jobs,
        Live
<1>3. CliInv' BY RunIdsAssumption DEF CliInv, WorkerInv
<1>4. StartupInv' BY DEF StartupInv
<1>5. CancelInv' BY PipelineAssumption DEF CancelInv, Live
<1>6. NotifyInv' BY DEF NotifyInv, Jobs
<1>7. NoRunForgotten' BY DEF NoRunForgotten, Driven, Claims, Jobs
<1>8. OneExecution' /\ MarkersConsumed'
      BY DEF OneExecution, Claims, Jobs, MarkersConsumed
<1> QED BY <1>1, <1>2, <1>3, <1>4, <1>5, <1>6, <1>7, <1>8

LEMMA PipelineReturnsKeeps ==
  ASSUME IInv, TypeOK', NEW w \in Workers, PipelineReturns(w)
  PROVE  IInv'
<1> USE DEF IInv, PipelineReturns, queues, Step, rows, Unregister
<1>1. WorkerInv' BY DEF WorkerInv, Attempting, Executing
<1>2. StartupInv' BY DEF StartupInv
<1>3. CancelInv' BY DEF CancelInv, TypeOK
<1>4. MarkersConsumed' BY DEF MarkersConsumed, Jobs
<1>5. OneExecution' /\ ClaimInv' /\ CliInv' /\ NotifyInv' /\ NoRunForgotten'
      BY DEF OneExecution, Claims, Jobs, ClaimInv, CliInv, NotifyInv,
        NoRunForgotten, Driven
<1> QED BY <1>1, <1>2, <1>3, <1>4, <1>5

LEMMA CatchErrorKeeps ==
  ASSUME IInv, TypeOK', NEW w \in Workers, CatchError(w)
  PROVE  IInv'
<1> USE DEF IInv, CatchError, queues, Step, rows, Unregister
<1>1. WorkerInv' BY DEF WorkerInv, Attempting, Executing
<1>2. StartupInv' BY DEF StartupInv
<1>3. CancelInv' BY DEF CancelInv, TypeOK
<1>4. MarkersConsumed' BY DEF MarkersConsumed, Jobs
<1>5. OneExecution' /\ ClaimInv' /\ CliInv' /\ NotifyInv' /\ NoRunForgotten'
      BY DEF OneExecution, Claims, Jobs, ClaimInv, CliInv, NotifyInv,
        NoRunForgotten, Driven
<1> QED BY <1>1, <1>2, <1>3, <1>4, <1>5

LEMMA ReadVerdictKeeps ==
  ASSUME IInv, TypeOK', NEW w \in Workers, ReadVerdict(w)
  PROVE  IInv'
<1> USE DEF IInv, ReadVerdict, Step, Elsewhere, queues, cancel, rows
<1>1. WorkerInv' BY DEF WorkerInv, Attempting
<1>2. StartupInv' BY DEF StartupInv
<1>3. CancelInv' BY DEF CancelInv, Executing
<1>4. MarkersConsumed' BY DEF MarkersConsumed, Jobs
<1>5. OneExecution' /\ ClaimInv' /\ CliInv' /\ NotifyInv' /\ NoRunForgotten'
      BY DEF OneExecution, Claims, Jobs, ClaimInv, CliInv, NotifyInv,
        NoRunForgotten, Driven
<1> QED BY <1>1, <1>2, <1>3, <1>4, <1>5

LEMMA WriteTerminalKeeps ==
  ASSUME IInv, TypeOK', NEW w \in Workers, WriteTerminal(w)
  PROVE  IInv'
<1> USE DEF IInv, WriteTerminal, queues, Step, cancel
<1>1. ClaimInv' BY DEF ClaimInv, WorkerInv, Live, Attempting, AllNodePhases
<1>2. WorkerInv' BY DEF WorkerInv, TypeOK, OneExecution, Jobs, Ended, Attempting,
        Executing
<1>3. CliInv' BY RunIdsAssumption DEF CliInv, WorkerInv
<1>4. StartupInv' BY DEF StartupInv
<1>5. CancelInv' BY DEF CancelInv, TypeOK, Executing
<1>6. NotifyInv' BY DEF NotifyInv, Jobs
<1>7. NoRunForgotten' BY DEF NoRunForgotten, Driven, Claims, Jobs
<1>8. MarkersConsumed' BY DEF MarkersConsumed, Jobs
<1>9. OneExecution' BY DEF OneExecution, Claims, Jobs
<1> QED BY <1>1, <1>2, <1>3, <1>4, <1>5, <1>6, <1>7, <1>8, <1>9

LEMMA NotifyTerminalKeeps ==
  ASSUME IInv, TypeOK', NEW w \in Workers, NotifyTerminal(w)
  PROVE  IInv'
<1> USE DEF IInv, NotifyTerminal, cancel, queues, Release
<1>1. OneExecution' BY RunIdsAssumption DEF OneExecution, Claims, Jobs, Runs
<1>2. WorkerInv' BY DEF WorkerInv, TypeOK, Attempting, Executing
<1>3. CliInv' BY RunIdsAssumption DEF CliInv, TypeOK, WorkerInv
<1>4. StartupInv' BY DEF StartupInv
<1>5. CancelInv' BY DEF CancelInv, Executing
<1>6. NotifyInv' BY RunIdsAssumption DEF NotifyInv, Jobs, TypeOK, Runs,
        OneExecution, WorkerInv
<1>7. NoRunForgotten' BY DEF NoRunForgotten, Driven, Claims, Jobs, WorkerInv,
        Ended, Terminal, AllNodePhases, Status, Recoverable
<1>8. MarkersConsumed' BY DEF MarkersConsumed, Jobs
<1>9. ClaimInv' BY DEF ClaimInv
<1> QED BY <1>1, <1>2, <1>3, <1>4, <1>5, <1>6, <1>7, <1>8, <1>9

LEMMA ExecutionKeeps ==
  ASSUME IInv, TypeOK', NEW w \in Workers,
         \/ BeginPipeline(w) \/ DispatchFails(w) \/ ObserveAbort(w)
         \/ StartNode(w) \/ NodeSucceeds(w) \/ NodeFails(w)
  PROVE  IInv'
<1>1. PICK to \in Executing : pc' = [pc EXCEPT ![w] = to]
      BY DEF BeginPipeline, DispatchFails, ObserveAbort, StartNode,
             NodeSucceeds, NodeFails, Step, Executing
<1>2. pc[w] \in Executing /\ UNCHANGED <<Elsewhere, job>>
      BY DEF BeginPipeline, DispatchFails, ObserveAbort, StartNode,
             NodeSucceeds, NodeFails, Step, Executing
<1> QED BY <1>1, <1>2, ExecutionStepKeeps

-----------------------------------------------------------------------------
\* cancelRun.

LEMMA CancelFindKeeps ==
  ASSUME IInv, TypeOK', NEW r \in Runs, CancelFind(r)
  PROVE  IInv'
<1> USE DEF IInv, CancelFind, queues, worker, rows
<1>1. StartupInv' BY DEF StartupInv
<1>2. CancelInv' BY DEF CancelInv, TypeOK, WorkerInv, Attempting, Executing
<1>3. OneExecution' /\ ClaimInv' /\ WorkerInv' /\ CliInv' /\ NotifyInv' /\
      NoRunForgotten' /\ MarkersConsumed'
      BY DEF OneExecution, Claims, Jobs, ClaimInv, WorkerInv, CliInv,
        NotifyInv, NoRunForgotten, Driven, MarkersConsumed
<1> QED BY <1>1, <1>2, <1>3

LEMMA CancelWriteKeeps ==
  ASSUME IInv, TypeOK', NEW r \in Runs, CancelWrite(r)
  PROVE  IInv'
<1> USE DEF IInv, CancelWrite, queues, worker
<1>1. ClaimInv' BY DEF ClaimInv, CancelInv, Live, Terminal, AllNodePhases
<1>2. WorkerInv' BY DEF WorkerInv, CancelInv, Live, Ended, Terminal,
        AllNodePhases
<1>3. CliInv' BY DEF CliInv, CancelInv, Live, Terminal, AllNodePhases
<1>4. StartupInv' BY DEF StartupInv
<1>5. CancelInv' BY DEF CancelInv, Live
<1>6. NotifyInv' BY DEF NotifyInv, Jobs, Ended
<1>7. NoRunForgotten' BY DEF NoRunForgotten, Driven, Claims, Jobs,
        AllNodePhases, Status, Recoverable
<1>8. OneExecution' /\ MarkersConsumed'
      BY DEF OneExecution, Claims, Jobs, MarkersConsumed
<1> QED BY <1>1, <1>2, <1>3, <1>4, <1>5, <1>6, <1>7, <1>8

LEMMA CancelAbortKeeps ==
  ASSUME IInv, TypeOK', NEW r \in Runs, CancelAbort(r)
  PROVE  IInv'
<1> USE DEF IInv, CancelAbort, queues, rows
<1>1. StartupInv' BY DEF StartupInv
<1>2. CancelInv' BY DEF CancelInv
<1>3. OneExecution' /\ ClaimInv' /\ WorkerInv' /\ CliInv' /\ NotifyInv' /\
      NoRunForgotten' /\ MarkersConsumed'
      BY DEF OneExecution, Claims, Jobs, ClaimInv, WorkerInv, CliInv,
        NotifyInv, NoRunForgotten, Driven, MarkersConsumed
<1> QED BY <1>1, <1>2, <1>3

-----------------------------------------------------------------------------
\* Crash and startup.

LEMMA CrashKeeps ==
  ASSUME IInv, TypeOK', Crash
  PROVE  IInv'
<1> USE DEF IInv, Crash, rows
<1>1. OneExecution' BY RunIdsAssumption DEF OneExecution, Claims, Jobs, Runs
<1>2. ClaimInv' BY DEF ClaimInv
<1>3. WorkerInv' BY DEF WorkerInv, Attempting, Executing
<1>4. CliInv' BY DEF CliInv, Runs
<1>5. StartupInv' BY DEF StartupInv
<1>6. CancelInv' BY DEF CancelInv
<1>7. NotifyInv' BY RunIdsAssumption DEF NotifyInv, Jobs, Runs
<1>8. NoRunForgotten' BY DEF NoRunForgotten, Driven, Claims, Jobs
<1>9. MarkersConsumed' BY DEF MarkersConsumed, Jobs
<1> QED BY <1>1, <1>2, <1>3, <1>4, <1>5, <1>6, <1>7, <1>8, <1>9

LEMMA RecoverRowsKeeps ==
  ASSUME IInv, TypeOK', RecoverRows
  PROVE  IInv'
<1> USE DEF IInv, RecoverRows, queues, worker, cancel
<1>1. ClaimInv' BY DEF ClaimInv, AllNodePhases, Status, Recoverable
<1>2. WorkerInv' BY DEF WorkerInv, StartupInv, Attempting, Executing
<1>3. CliInv' BY DEF CliInv, Runs, AllNodePhases, Status, Recoverable
<1>4. StartupInv' BY DEF StartupInv, Runs
<1>5. CancelInv' BY DEF CancelInv, StartupInv
<1>6. NotifyInv' BY DEF NotifyInv, Jobs, Ended, Terminal, AllNodePhases,
        Status, Recoverable
<1>7. NoRunForgotten' BY DEF NoRunForgotten, Driven, Claims, Jobs
<1>8. OneExecution' /\ MarkersConsumed'
      BY DEF OneExecution, Claims, Jobs, MarkersConsumed
<1> QED BY <1>1, <1>2, <1>3, <1>4, <1>5, <1>6, <1>7, <1>8

LEMMA RequeueRecoveredKeeps ==
  ASSUME IInv, TypeOK', RequeueRecovered
  PROVE  IInv'
<1> USE DEF IInv, RequeueRecovered, worker, rows, cancel
<1>1. OneExecution' BY RunIdsAssumption DEF OneExecution, Claims, Jobs, Runs,
        WorkerInv, StartupInv
<1>2. ClaimInv' BY DEF ClaimInv, Runs, CliInv, StartupInv
<1>3. CliInv' BY DEF CliInv, Runs, StartupInv
<1>4. StartupInv' BY DEF StartupInv
<1>5. NoRunForgotten' BY DEF NoRunForgotten, Driven, Claims, Jobs, Runs,
        StartupInv
<1>6. MarkersConsumed' BY DEF MarkersConsumed, Jobs, TypeOK
<1>7. WorkerInv' /\ CancelInv' /\ NotifyInv'
      BY DEF WorkerInv, CancelInv, NotifyInv, Jobs
<1> QED BY <1>1, <1>2, <1>3, <1>4, <1>5, <1>6, <1>7

-----------------------------------------------------------------------------
\* local-trigger.

LEMMA CliCreateKeeps ==
  ASSUME IInv, TypeOK', NEW r \in CliRuns, CliCreate(r)
  PROVE  IInv'
<1> USE DEF IInv, CliCreate, cancel, queues, worker, Insert
<1>1. ClaimInv' BY DEF ClaimInv
<1>2. WorkerInv' BY RunIdsAssumption DEF WorkerInv
<1>3. CliInv' BY DEF CliInv
<1>4. StartupInv' BY RunIdsAssumption DEF StartupInv
<1>5. CancelInv' BY RunIdsAssumption DEF CancelInv
<1>6. NotifyInv' BY DEF NotifyInv, Jobs, Ended, Terminal
<1>7. NoRunForgotten' BY DEF NoRunForgotten, Driven, Claims, Jobs
<1>8. OneExecution' /\ MarkersConsumed'
      BY DEF OneExecution, Claims, Jobs, MarkersConsumed
<1> QED BY <1>1, <1>2, <1>3, <1>4, <1>5, <1>6, <1>7, <1>8

LEMMA CliStartKeeps ==
  ASSUME IInv, TypeOK', NEW r \in CliRuns, CliStart(r)
  PROVE  IInv'
<1> USE DEF IInv, CliStart, cancel, queues, worker
<1>1. ClaimInv' BY RunIdsAssumption DEF ClaimInv, CliInv
<1>2. WorkerInv' BY RunIdsAssumption DEF WorkerInv
<1>3. CliInv' BY RunIdsAssumption DEF CliInv, AllNodePhases
<1>4. StartupInv' BY RunIdsAssumption DEF StartupInv
<1>5. CancelInv' BY RunIdsAssumption DEF CancelInv
<1>6. NotifyInv' BY DEF NotifyInv, Jobs, CliInv
<1>7. NoRunForgotten' BY RunIdsAssumption DEF NoRunForgotten, Driven, Claims,
        Jobs
<1>8. OneExecution' /\ MarkersConsumed'
      BY DEF OneExecution, Claims, Jobs, MarkersConsumed
<1> QED BY <1>1, <1>2, <1>3, <1>4, <1>5, <1>6, <1>7, <1>8

LEMMA CliReportPhaseKeeps ==
  ASSUME IInv, TypeOK', NEW r \in CliRuns, NEW p \in NodePhases,
         CliReportPhase(r, p)
  PROVE  IInv'
<1> USE DEF IInv, CliReportPhase, cancel, queues, worker
<1>1. ClaimInv' BY RunIdsAssumption DEF ClaimInv, CliInv
<1>2. WorkerInv' BY RunIdsAssumption DEF WorkerInv
<1>3. CliInv' BY RunIdsAssumption, PipelineAssumption DEF CliInv, AllNodePhases
<1>4. StartupInv' BY RunIdsAssumption, PipelineAssumption DEF StartupInv,
        AllNodePhases
<1>5. CancelInv' BY RunIdsAssumption DEF CancelInv
<1>6. NotifyInv' BY DEF NotifyInv, Jobs, CliInv
<1>7. NoRunForgotten' BY RunIdsAssumption DEF NoRunForgotten, Driven, Claims,
        Jobs
<1>8. OneExecution' /\ MarkersConsumed'
      BY DEF OneExecution, Claims, Jobs, MarkersConsumed
<1> QED BY <1>1, <1>2, <1>3, <1>4, <1>5, <1>6, <1>7, <1>8

LEMMA CliEndKeeps ==
  ASSUME IInv, TypeOK', NEW r \in CliRuns, CliEnd(r)
  PROVE  IInv'
<1> USE DEF IInv, CliEnd, queues, worker, cancel
<1>1. ClaimInv' BY RunIdsAssumption DEF ClaimInv, CliInv
<1>2. WorkerInv' BY RunIdsAssumption DEF WorkerInv
<1>3. CliInv' BY RunIdsAssumption DEF CliInv
<1>4. StartupInv' BY RunIdsAssumption DEF StartupInv
<1>5. CancelInv' BY RunIdsAssumption DEF CancelInv
<1>6. NotifyInv' BY DEF NotifyInv, Jobs, Ended, Terminal
<1>7. NoRunForgotten' BY RunIdsAssumption DEF NoRunForgotten, Driven, Claims,
        Jobs
<1>8. OneExecution' /\ MarkersConsumed'
      BY DEF OneExecution, Claims, Jobs, MarkersConsumed
<1> QED BY <1>1, <1>2, <1>3, <1>4, <1>5, <1>6, <1>7, <1>8

LEMMA CliDiesKeeps ==
  ASSUME IInv, TypeOK', NEW r \in CliRuns, CliDies(r)
  PROVE  IInv'
<1> USE DEF IInv, CliDies, cancel, queues, worker, rows
<1>1. CliInv' BY DEF CliInv
<1>2. OneExecution' /\ ClaimInv' /\ WorkerInv' /\ StartupInv' /\ CancelInv' /\
      NotifyInv' /\ NoRunForgotten' /\ MarkersConsumed'
      BY DEF OneExecution, Claims, Jobs, ClaimInv, WorkerInv, StartupInv,
        CancelInv, NotifyInv, NoRunForgotten, Driven, MarkersConsumed
<1> QED BY <1>1, <1>2

-----------------------------------------------------------------------------
\* The invariant.

LEMMA InitIInv == Init => IInv
<1> SUFFICES ASSUME Init PROVE IInv
    OBVIOUS
<1> USE RunIdsAssumption, PipelineAssumption DEF Init, Runs
<1>1. TypeOK BY DEF TypeOK, Phases, WorkerPcs, Terminal
<1>2. OneExecution BY DEF OneExecution, Claims, Jobs
<1>3. ClaimInv /\ WorkerInv /\ CliInv /\ StartupInv
      BY DEF ClaimInv, WorkerInv, CliInv, StartupInv, Attempting, Executing,
             Status, AllNodePhases, Recoverable
<1>4. CancelInv /\ NotifyInv /\ NoRunForgotten /\ MarkersConsumed
      BY DEF CancelInv, NotifyInv, NoRunForgotten, MarkersConsumed, Status,
             AllNodePhases, Recoverable
<1> QED BY <1>1, <1>2, <1>3, <1>4 DEF IInv

LEMMA NextIInv == ASSUME PromoteLimit <= 1, IInv, [Next]_vars PROVE IInv'
<1>0. TypeOK' BY TypeStep DEF IInv
<1>1. CASE Create
      BY <1>0, <1>1, EnqueueKeeps, ContinueKeeps, ScheduleKeeps,
         RetryReadKeeps, RetryInsertKeeps, RetryScheduleKeeps,
         OpenConversationKeeps, PromoteReadKeeps, PromoteWriteKeeps
      DEF Create
<1>2. CASE Process
      BY <1>0, <1>2, ExecutionKeeps, DispatchKeeps, LoadSkipsKeeps,
         LoadProceedsKeeps, StartKeeps, RegisterKeeps, ReportPhaseKeeps,
         PipelineReturnsKeeps, CatchErrorKeeps, ReadVerdictKeeps,
         WriteTerminalKeeps, NotifyTerminalKeeps
      DEF Process, WorkerStep
<1>3. CASE Cancel
      BY <1>0, <1>3, CancelFindKeeps, CancelWriteKeeps, CancelAbortKeeps DEF Cancel
<1>4. CASE Server
      BY <1>0, <1>4, CrashKeeps, RecoverRowsKeeps, RequeueRecoveredKeeps DEF Server
<1>5. CASE LocalTrigger
      BY <1>0, <1>5, CliCreateKeeps, CliStartKeeps, CliReportPhaseKeeps,
         CliEndKeeps, CliDiesKeeps
      DEF LocalTrigger
<1>6. CASE UNCHANGED vars
      BY <1>0, <1>6
      DEF IInv, OneExecution, ClaimInv, WorkerInv, CliInv, StartupInv, CancelInv,
          NotifyInv, NoRunForgotten, MarkersConsumed, Driven, Claims, Jobs, vars,
          rows, queues, worker, cancel
<1> QED BY <1>1, <1>2, <1>3, <1>4, <1>5, <1>6 DEF Next

\* The variables keep their types.
THEOREM TypeCorrect == Spec => []TypeOK
<1>1. Init => TypeOK BY InitIInv DEF IInv
<1> QED BY <1>1, TypeStep, PTL DEF Spec

\* The inductive invariant, as long as promotions of one conversation do not
\* overlap (store.ts promoteConversationRun does not look at the row again).
THEOREM Inductive == ASSUME PromoteLimit <= 1 PROVE Spec => []IInv
<1>1. IInv /\ [Next]_vars => IInv' BY NextIInv
<1> QED BY <1>1, InitIInv, PTL DEF Spec

\* No run is ever executed, queued or about to be queued twice at a time:
\* for any number of server runs, workers, retries, restarts and cancels.
THEOREM ExecutesOnce == ASSUME PromoteLimit <= 1 PROVE Spec => []OneExecution
<1>1. IInv => OneExecution BY DEF IInv
<1> QED BY <1>1, Inductive, PTL

\* A run that a restart would recover has somebody working on it.
THEOREM ForgetsNoRun == ASSUME PromoteLimit <= 1 PROVE Spec => []NoRunForgotten
<1>1. IInv => NoRunForgotten BY DEF IInv
<1> QED BY <1>1, Inductive, PTL

\* The terminal callbacks of a run fire at most once, across restarts.
THEOREM NotifiesOnce ==
  ASSUME PromoteLimit <= 1 PROVE Spec => []NotifiedAtMostOnce
<1>1. IInv => NotifiedAtMostOnce BY DEF IInv, NotifyInv, NotifiedAtMostOnce
<1> QED BY <1>1, Inductive, PTL

\* The map of retry markers holds only runs that wait in the queue.
THEOREM ConsumesMarkers ==
  ASSUME PromoteLimit <= 1 PROVE Spec => []MarkersConsumed
<1>1. IInv => MarkersConsumed BY DEF IInv
<1> QED BY <1>1, Inductive, PTL

=============================================================================
