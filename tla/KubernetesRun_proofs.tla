------------------------ MODULE KubernetesRun_proofs ------------------------
(***************************************************************************)
(* What the row of a Kubernetes run says can be relied on, for every       *)
(* number of events, lost requests, crashes and cancellations.             *)
(***************************************************************************)
EXTENDS KubernetesRun, WellFoundedInduction, TLAPS

RecRecords == [pc : RecPcs, seen : {"none"} \cup Outcomes, row : Rows, fact : Facts,
               verdict : {"none"} \cup Terminal]
Kinds == EventKinds \cup Outcomes \cup {"none"}
WorkerPcs == {"queued", "start", "dispatch", "launch", "drain", "fact", "completion",
              "cleanup", "settle", "off"}
RunnerPcs == {"off", "boot", "pipeline", "emitting", "join", "attempting", "completing", "dead"}

\* The types that the argument needs
RowTypes ==
    /\ row \in Rows /\ completion \in {"none"} \cup Outcomes
    /\ server \in {"up", "down", "recovering"} /\ crashes \in Nat
    /\ wpc \in WorkerPcs /\ fact \in Facts /\ verdict \in {"completed", "failed"}
    /\ rec \in [RecIds -> RecRecords]
    /\ job \in {"absent", "running", "succeeded", "failed", "deleted"}
    /\ rpc \in RunnerPcs /\ outcome \in Outcomes
    /\ resume \in {"fact", "completion", "cleanup"} /\ "main" \in DOMAIN call

\* Whoever says or is about to say "completed" knows of a recorded success.
SuccessInv ==
    /\ row = "completed" => completion = "success"
    /\ verdict = "completed" => completion = "success"
    /\ \A i \in RecIds : /\ rec[i].seen \in {"none", completion}
                         /\ rec[i].verdict = "completed" => completion = "success"
                         /\ rec[i].pc = "write" => rec[i].verdict \in Terminal

\* A runner that waits for the answer to a completion sent the one it means.
ExitInv ==
    /\ rpc = "completing" => call["main"].kind = outcome
    /\ ExitMeansRecorded

\* Worker, reconciler and server: one of them at a time has the row.
TurnInv ==
    /\ server # "up" \/ crashes > 0 \/ rec["late"].pc # "none" => wpc = "off"
    /\ ~Revived /\ wpc # "off" => row \notin Terminal
    /\ ~Revived /\ rec["late"].pc \in {"fact", "grace", "write"} =>
          /\ rec["late"].row = row
          /\ row \in Terminal => completion # "none"

\* After a crash the reconciler is at work, or has seen the job running.
RecoveryInv ==
    /\ crashes > 0 /\ server = "up" => rec["late"].pc \in {"none", "done"}
    /\ crashes > 0 /\ server # "down" /\ row \notin Terminal /\ rec["late"].pc \in {"none", "done"} =>
          rec["late"].fact = "running"

KInv == RowTypes /\ SuccessInv /\ ExitInv /\ TurnInv /\ RecoveryInv

-----------------------------------------------------------------------------
(* What the helpers return                                                 *)

LEMMA Statuses ==
    /\ Terminal \subseteq Rows /\ Working \subseteq Rows /\ Working \cap Terminal = {}
    /\ Rows = Working \cup Terminal /\ Reconcilable = Working
  BY DEF Terminal, Working, Rows, Reconcilable

\* (The CASE is a choice of the three.)
LEMMA FactType == ASSUME RowTypes PROVE PossibleFacts \subseteq Facts
<1>1. JobFact \in Facts
  <2>1. CASE job = "running"
    BY <2>1, Zenon DEF JobFact, Facts
  <2>2. CASE job \in {"succeeded", "failed"}
    <3>1. job # "running"
      BY <2>2
    <3>2. JobFact = job
      BY <2>2, <3>1, Zenon DEF JobFact
    <3> QED BY <2>2, <3>2 DEF Facts
  <2>3. CASE job \notin {"running", "succeeded", "failed"}
    <3>1. job # "running" /\ job \notin {"succeeded", "failed"}
      BY <2>3
    <3>2. JobFact = "missing"
      BY <3>1, Zenon DEF JobFact
    <3> QED BY <3>2 DEF Facts
  <2> QED BY <2>1, <2>2, <2>3
<1> QED BY <1>1 DEF PossibleFacts, Facts

LEMMA RecDoneIs ==
    ASSUME NEW r \in RecRecords
    PROVE  /\ RecDone(r) \in RecRecords /\ RecDone(r).pc = "done" /\ RecDone(r).fact = r.fact
           /\ RecDone(r).seen = "none" /\ RecDone(r).verdict = "none"
           /\ RecDone(r).row \in Rows
  BY DEF RecDone, NoRec, RecRecords, RecPcs, Rows, Working

LEMMA NoRecIs ==
    /\ NoRec \in RecRecords /\ NoRec.pc = "none" /\ NoRec.seen = "none" /\ NoRec.verdict = "none"
    /\ [NoRec EXCEPT !.pc = "drain"] \in RecRecords
    /\ [NoRec EXCEPT !.pc = "drain"].pc = "drain"
    /\ [NoRec EXCEPT !.pc = "drain"].seen = "none" /\ [NoRec EXCEPT !.pc = "drain"].verdict = "none"
  BY DEF NoRec, RecRecords, RecPcs, Rows, Working, Facts

\* A judgement of "completed" is one over a success.
LEMMA JudgementIs ==
    ASSUME NEW seen, NEW seenFact
    PROVE  /\ Judgement(seen, seenFact) \in Terminal
           /\ Judgement(seen, seenFact) = "completed" => seen = "success"
  BY DEF Judgement, Terminal

\* A request that is handled decides a completion at most once.
LEMMA HandleIs ==
    ASSUME completion \in {"none"} \cup Outcomes, NEW request, Handle(request)
    PROVE  /\ server = "up"
           /\ completion' = completion \/ (completion = "none" /\ completion' \in Outcomes)
           /\ request.kind \in Outcomes /\ Accepted(request) => completion' = request.kind
<1>1. CASE request.kind \in EventKinds /\ UNCHANGED completion
  BY <1>1 DEF Handle, EventKinds, Outcomes
<1>2. CASE request.kind \in Outcomes /\ RecordCompletion(request.kind)
  BY <1>2 DEF Handle, RecordCompletion, Accepted, Outcomes
<1> QED BY <1>1, <1>2 DEF Handle

-----------------------------------------------------------------------------
(* The steps, by what they may change                                      *)

\* One of the reconciler's calls moves.
RecMoves(i, v) == rec' = [rec EXCEPT ![i] = v]

LEMMA RecordSteps ==
    ASSUME RowTypes, NEW i \in RecIds, Reconcile(i)
    PROVE  \E v \in RecRecords :
             /\ RecMoves(i, v) /\ rec[i].pc \notin {"none", "done"}
             /\ \/ /\ v.pc \in {"read", "fact", "grace", "write"} /\ UNCHANGED row
                   /\ v.seen \in {"none", rec[i].seen, completion}
                   /\ v.verdict = "completed" => v.seen = "success" \/ v.verdict = rec[i].verdict
                   /\ v.pc = "write" => v.verdict \in Terminal
                   /\ \/ v.row = rec[i].row /\ rec[i].pc \in {"fact", "grace"}
                      \/ v.row = row /\ (row \in Terminal => completion # "none")
                      \/ v.pc = "read"
                \/ /\ v.pc = "done" /\ v.seen = "none" /\ v.verdict = "none" /\ UNCHANGED row
                   /\ row \in Terminal \/ v.fact = "running"
                \/ /\ v.pc = "done" /\ v.seen = "none" /\ v.verdict = "none"
                   /\ rec[i].pc = "write" /\ row' = rec[i].verdict
<1> DEFINE r == rec[i]
<1>0. r \in RecRecords
  BY DEF RowTypes
<1>1. CASE RecDrain(i)
  <2> DEFINE v == [r EXCEPT !.pc = "read"]
  <2>1. RecMoves(i, v) /\ rec[i].pc = "drain" /\ UNCHANGED row
    BY <1>1 DEF RecDrain, RecMoves, RowTypes
  <2>2. v \in RecRecords /\ v.pc = "read" /\ v.seen = r.seen /\ v.verdict = r.verdict
    BY <1>0 DEF RecRecords, RecPcs
  <2> QED BY <2>1, <2>2
<1>2. CASE RecRead(i)
  <2>1. rec[i].pc = "read" /\ UNCHANGED row
    BY <1>2 DEF RecRead, rows
  <2>2. CASE completion = "none" /\ row \in Terminal
    <3>1. RecMoves(i, RecDone(r))
      BY <1>2, <2>2 DEF RecRead, RecMoves, RowTypes
    <3> QED BY <1>0, <2>1, <2>2, <3>1, RecDoneIs
  <2>3. CASE ~(completion = "none" /\ row \in Terminal)
    <3> DEFINE v == [r EXCEPT !.seen = completion, !.row = row, !.pc = "fact"]
    <3>1. RecMoves(i, v)
      BY <1>2, <2>3 DEF RecRead, RecMoves, RowTypes
    <3>2. /\ v \in RecRecords /\ v.pc = "fact" /\ v.seen = completion /\ v.verdict = r.verdict
          /\ v.row = row
      BY <1>0 DEF RecRecords, RecPcs, RowTypes
    <3> QED BY <2>1, <2>3, <3>1, <3>2
  <2> QED BY <2>2, <2>3
<1>3. CASE RecReadFact(i)
  <2>1. PICK seen \in PossibleFacts :
          LET known == [rec EXCEPT ![i].fact = seen] IN
            \/ /\ seen = "running" /\ rec' = [known EXCEPT ![i] = RecDone(@)]
            \/ /\ seen # "running" /\ rec[i].row = "cancel_requested"
               /\ rec' = [known EXCEPT ![i].pc = "write", ![i].verdict = "cancelled"]
            \/ /\ seen # "running" /\ rec[i].row # "cancel_requested" /\ rec[i].seen # "none"
               /\ rec' = [known EXCEPT ![i].pc = "write",
                                      ![i].verdict = Judgement(rec[i].seen, seen)]
            \/ /\ seen # "running" /\ rec[i].row # "cancel_requested" /\ rec[i].seen = "none"
               /\ rec' = [known EXCEPT ![i].pc = "grace"]
    BY <1>3 DEF RecReadFact
  <2>2. rec[i].pc = "fact" /\ UNCHANGED row /\ seen \in Facts
    BY <1>3, FactType DEF RecReadFact, rows
  <2> DEFINE k == [r EXCEPT !.fact = seen]
             c == [k EXCEPT !.pc = "write", !.verdict = "cancelled"]
             j == [k EXCEPT !.pc = "write", !.verdict = Judgement(r.seen, seen)]
             g == [k EXCEPT !.pc = "grace"]
  <2>3. k \in RecRecords /\ k.fact = seen /\ k.row = r.row /\ k.seen = r.seen /\ k.verdict = r.verdict
    BY <1>0, <2>2 DEF RecRecords
  <2>4. CASE seen = "running" /\ RecMoves(i, RecDone(k))
    <3> DEFINE d == RecDone(k)
    <3>1. /\ d \in RecRecords /\ d.pc = "done" /\ d.fact = "running" /\ d.seen = "none"
          /\ d.verdict = "none"
      BY <2>3, <2>4, RecDoneIs
    <3>2. RecMoves(i, d)
      BY <2>4
    <3> HIDE DEF d, k, c, j, g
    <3> QED BY <2>2, <3>1, <3>2
  <2>5. CASE RecMoves(i, c)
    <3>1. c \in RecRecords /\ c.pc = "write" /\ c.verdict = "cancelled" /\ c.seen = r.seen /\ c.row = r.row
      BY <2>3 DEF RecRecords, RecPcs, Terminal
    <3> QED BY <2>2, <2>5, <3>1 DEF Terminal
  <2>6. CASE RecMoves(i, j)
    <3>1. /\ j \in RecRecords /\ j.pc = "write" /\ j.verdict = Judgement(r.seen, seen)
          /\ j.seen = r.seen /\ j.row = r.row
      BY <2>3, JudgementIs DEF RecRecords, RecPcs
    <3>2. j.verdict \in Terminal /\ (j.verdict = "completed" => j.seen = "success")
      BY <3>1, JudgementIs
    <3>3. RecMoves(i, j)
      BY <2>6
    <3> HIDE DEF k, c, j, g
    <3> QED BY <2>2, <3>1, <3>2, <3>3
  <2>7. CASE RecMoves(i, g)
    <3>1. g \in RecRecords /\ g.pc = "grace" /\ g.verdict = r.verdict /\ g.seen = r.seen /\ g.row = r.row
      BY <2>3 DEF RecRecords, RecPcs
    <3> QED BY <2>2, <2>7, <3>1
  <2>8. \/ seen = "running" /\ RecMoves(i, RecDone(k))
        \/ RecMoves(i, c) \/ RecMoves(i, j) \/ RecMoves(i, g)
    BY <2>1 DEF RecMoves, RowTypes
  <2> QED BY <2>4, <2>5, <2>6, <2>7, <2>8
<1>4. CASE RecGrace(i)
  <2>1. PICK late \in {"none", completion} :
          rec' = [rec EXCEPT ![i].pc = "write", ![i].seen = late,
                             ![i].verdict = Judgement(late, rec[i].fact)]
    BY <1>4 DEF RecGrace
  <2> DEFINE v == [r EXCEPT !.pc = "write", !.seen = late, !.verdict = Judgement(late, r.fact)]
  <2>2. RecMoves(i, v) /\ rec[i].pc = "grace" /\ UNCHANGED row
    BY <1>4, <2>1 DEF RecGrace, RecMoves, rows, RowTypes
  <2>3. /\ v \in RecRecords /\ v.pc = "write" /\ v.seen = late /\ v.row = r.row
        /\ v.verdict = Judgement(late, r.fact)
    BY <1>0, JudgementIs DEF RecRecords, RecPcs, RowTypes
  <2> QED BY <2>2, <2>3, JudgementIs
<1>5. CASE RecWrite(i)
  <2>1. RecMoves(i, RecDone(r)) /\ rec[i].pc = "write" /\ row' = rec[i].verdict
    BY <1>5 DEF RecWrite, RecMoves, RowTypes
  <2> QED BY <1>0, <2>1, RecDoneIs
<1> QED BY <1>1, <1>2, <1>3, <1>4, <1>5 DEF Reconcile

\* A step of processRun or the backend short of Settle, or cancelRun's abort
WorkerMoves ==
    /\ wpc # "off" /\ wpc' \in WorkerPcs /\ resume' \in {"fact", "completion", "cleanup"}
    /\ completion' = completion /\ server' = server /\ crashes' = crashes /\ rec' = rec
    /\ row' \in {row, "cloning", "agent", "cancel_requested"}
    /\ fact' \in Facts /\ verdict' \in {"completed", "failed"}
    /\ verdict' = "completed" => completion = "success" \/ verdict = "completed"
    /\ job' \in {"absent", "running", "succeeded", "failed", "deleted"}
    /\ job' = "succeeded" => job = "succeeded"
    /\ rpc' \in RunnerPcs /\ outcome' \in Outcomes
    /\ rpc' = "completing" => rpc = "completing" /\ call' = call /\ outcome' = outcome
    /\ "main" \in DOMAIN call'

LEMMA WorkerSteps ==
    ASSUME RowTypes,
           \/ Load \/ Start \/ DispatchAborts \/ Dispatch \/ Launch \/ LaunchFails
           \/ Watch \/ CancelRegistered
    PROVE  WorkerMoves
<1> USE DEF RowTypes, WorkerMoves, rows, process, worker, runner
<1>1. CASE Load
  BY <1>1 DEF Load, WorkerPcs
<1>2. CASE Start
  BY <1>2 DEF Start, WorkerPcs
<1>3. CASE DispatchAborts
  BY <1>3 DEF DispatchAborts, WorkerPcs
<1>4. CASE Dispatch
  BY <1>4 DEF Dispatch, WorkerPcs
<1>5. CASE Launch
  BY <1>5 DEF Launch, WorkerPcs, RunnerPcs
<1>6. CASE LaunchFails
  BY <1>6 DEF LaunchFails, WorkerPcs
<1>7. CASE Drain
  BY <1>7 DEF Drain, WorkerPcs
<1>8. CASE ReadFact
  BY <1>8, FactType DEF ReadFact, WorkerPcs
<1>9. CASE ThrowCancelled
  BY <1>9 DEF ThrowCancelled, WorkerPcs
<1>10. CASE WaitTimeout
  BY <1>10 DEF WaitTimeout, WorkerPcs
<1>11. CASE ReadCompletion
  BY <1>11 DEF ReadCompletion, Translate, WorkerPcs
<1>12. CASE AwaitCompletion
  BY <1>12 DEF AwaitCompletion, WorkerPcs
<1>13. CASE CompletionWindowEnds
  BY <1>13 DEF CompletionWindowEnds, Translate, WorkerPcs
<1>14. CASE Cleanup
  BY <1>14 DEF Cleanup, RunnerGone, Flows, WorkerPcs, RunnerPcs, Outcomes
<1>15. CASE CancelRegistered
  BY <1>15 DEF CancelRegistered, Registered, WorkerPcs
<1> QED
  BY <1>1, <1>2, <1>3, <1>4, <1>5, <1>6, <1>7, <1>8, <1>9, <1>10, <1>11, <1>12, <1>13,
     <1>14, <1>15 DEF Watch

\* A step of the runner, or of the control plane for it
RunnerMoves ==
    /\ row' = row /\ server' = server /\ crashes' = crashes /\ rec' = rec
    /\ wpc' = wpc /\ resume' = resume /\ fact' = fact /\ verdict' = verdict
    /\ completion' = completion \/ (completion = "none" /\ completion' \in Outcomes)
    /\ job' \in {"absent", "running", "succeeded", "failed", "deleted"}
    /\ job' = "succeeded" => job = "succeeded" \/ completion' = "success"
    /\ rpc' \in RunnerPcs /\ outcome' \in Outcomes
    /\ rpc' = "completing" => call'["main"].kind = outcome'
    /\ "main" \in DOMAIN call'

\* The runner's main flow hears of its request, or gives up on it.
LEMMA ReturnSteps ==
    ASSUME RowTypes, ExitInv,
           NEW flow \in Flows, NEW heard \in BOOLEAN,
           Returns(flow, heard),
           heard /\ call[flow].kind \in Outcomes => completion' = call[flow].kind
    PROVE  /\ job' \in {"absent", "running", "succeeded", "failed", "deleted"}
           /\ job' = "succeeded" => job = "succeeded" \/ completion' = "success"
           /\ rpc' \in RunnerPcs /\ outcome' \in Outcomes
           /\ rpc' = "completing" => call'["main"].kind = outcome'
           /\ "main" \in DOMAIN call'
<1> USE DEF RowTypes, ExitInv, RunnerPcs, Outcomes
<1>1. CASE flow = "main" /\ heard /\ MainHears
  <2>1. CASE rpc = "emitting" /\ MainGoesOn("pipeline", outcome, NoCall)
    BY <2>1 DEF MainGoesOn, Send
  <2>2. CASE rpc = "attempting" /\ MainGoesOn("completing", outcome, [kind |-> outcome, n |-> 0])
    BY <2>2 DEF MainGoesOn, Send
  <2>3. CASE rpc = "completing" /\ Exit(IF outcome = "success" THEN "succeeded" ELSE "failed")
    <3>1. completion' = outcome
      BY <1>1, <2>3
    <3> QED BY <2>3, <3>1 DEF Exit, RunnerGone, Flows
  <2> QED BY <1>1, <2>1, <2>2, <2>3 DEF MainHears
<1>2. CASE flow = "main" /\ ~heard /\ MainThrows
  BY <1>2 DEF MainThrows, MainGoesOn, Send, Exit, RunnerGone, Flows
<1>3. CASE flow = "poll" /\ PollReturns(heard)
  BY <1>3 DEF PollReturns
<1> QED BY <1>1, <1>2, <1>3 DEF Returns
LEMMA RunnerSteps ==
    ASSUME RowTypes, ExitInv,
           \/ Runner \/ (\E flow \in Flows : HandleUnheard(flow))
           \/ (\E request \in Requests : HandleLate(request))
    PROVE  RunnerMoves
<1> USE DEF RowTypes, ExitInv, RunnerMoves, rows, process, worker, runner, RunnerPcs, Outcomes
<1>1. CASE Boot
  BY <1>1 DEF Boot
<1>2. CASE BootFails
  BY <1>2 DEF BootFails, Exit, RunnerGone, Flows
<1>3. CASE PipelineEmits
  BY <1>3 DEF PipelineEmits, Emit, Send
<1>4. CASE PipelineEnds
  BY <1>4 DEF PipelineEnds
<1>5. CASE Attempt
  BY <1>5 DEF Attempt, Emit, Send
<1>6. CASE PollCancelled
  BY <1>6 DEF PollCancelled, Emit, Send
<1>7. CASE RunnerDies
  BY <1>7 DEF RunnerDies, Exit, RunnerGone, Flows
<1>8. CASE RunnerKilled
  BY <1>8 DEF RunnerKilled, RunnerGone, Flows
<1>9. CASE JobExpires
  BY <1>9 DEF JobExpires
<1>10. ASSUME NEW flow \in Flows, GiveUp(flow)
       PROVE  RunnerMoves
  <2>1. Returns(flow, FALSE)
    BY <1>10 DEF GiveUp
  <2>2. /\ row' = row /\ server' = server /\ crashes' = crashes /\ rec' = rec
        /\ wpc' = wpc /\ resume' = resume /\ fact' = fact /\ verdict' = verdict
        /\ completion' = completion
    BY <1>10 DEF GiveUp
  <2> QED BY <2>1, <2>2, ReturnSteps
<1>11. ASSUME NEW flow \in Flows, Answer(flow)
       PROVE  RunnerMoves
  <2> DEFINE heard == Accepted(call[flow])
  <2>1. Returns(flow, heard) /\ Handle(call[flow])
    BY <1>11 DEF Answer
  <2>2. /\ row' = row /\ server' = server /\ crashes' = crashes /\ rec' = rec
        /\ wpc' = wpc /\ resume' = resume /\ fact' = fact /\ verdict' = verdict
    BY <1>11, <2>1 DEF Answer, Handle
  <2>3. /\ completion' = completion \/ (completion = "none" /\ completion' \in Outcomes)
        /\ heard /\ call[flow].kind \in Outcomes => completion' = call[flow].kind
    BY <2>1, HandleIs
  <2>4. heard \in BOOLEAN
    BY DEF Accepted
  <2> HIDE DEF heard
  <2> QED BY <2>1, <2>2, <2>3, <2>4, ReturnSteps
<1>12. ASSUME NEW flow \in Flows, HandleUnheard(flow)
       PROVE  RunnerMoves
  <2>1. completion' = completion \/ (completion = "none" /\ completion' \in Outcomes)
    BY <1>12, HandleIs DEF HandleUnheard
  <2> QED BY <1>12, <2>1 DEF HandleUnheard, Handle
<1>13. ASSUME NEW request \in Requests, HandleLate(request)
       PROVE  RunnerMoves
  <2>1. completion' = completion \/ (completion = "none" /\ completion' \in Outcomes)
    BY <1>13, HandleIs DEF HandleLate
  <2> QED BY <1>13, <2>1 DEF HandleLate, Handle
<1> QED
  BY <1>1, <1>2, <1>3, <1>4, <1>5, <1>6, <1>7, <1>8, <1>9, <1>10, <1>11, <1>12, <1>13
  DEF Runner

-----------------------------------------------------------------------------
(* What each group of steps keeps                                          *)

LEMMA WorkerKeeps == ASSUME KInv, WorkerMoves PROVE KInv'
<1> USE DEF KInv, WorkerMoves
<1>1. RowTypes'
  BY Statuses DEF RowTypes, Working
<1>2. SuccessInv'
  BY DEF SuccessInv
<1>3. ExitInv'
  BY DEF ExitInv, ExitMeansRecorded
<1>4. TurnInv'
  BY DEF TurnInv, Revived, Terminal
<1>5. RecoveryInv'
  BY DEF RecoveryInv, TurnInv
<1> QED BY <1>1, <1>2, <1>3, <1>4, <1>5

LEMMA RunnerKeeps == ASSUME KInv, RunnerMoves PROVE KInv'
<1> USE DEF KInv, RunnerMoves
<1>1. RowTypes'
  BY DEF RowTypes
<1>2. SuccessInv'
  BY DEF SuccessInv, Outcomes
<1>3. ExitInv'
  BY DEF ExitInv, ExitMeansRecorded, Outcomes
<1>4. TurnInv'
  BY DEF TurnInv, Revived, Outcomes
<1>5. RecoveryInv'
  BY DEF RecoveryInv
<1> QED BY <1>1, <1>2, <1>3, <1>4, <1>5

\* Nothing is left of the worker: its last write was a verdict it may state.
LEMMA SettleKeeps == ASSUME KInv, Settle PROVE KInv'
<1> USE DEF KInv, rows, process, worker, runner
<1>1. /\ row' \in Terminal /\ (row' = "completed" => completion = "success")
      /\ completion' = completion /\ server' = server /\ crashes' = crashes
      /\ wpc' = "off" /\ resume' = "fact" /\ fact' = "running" /\ verdict' = "failed"
      /\ job' = job /\ rpc' = rpc /\ outcome' = outcome /\ call' = call
  BY DEF Settle, WorkerGone, RowTypes, SuccessInv, Terminal
<1>2. /\ rec' = [rec EXCEPT !["late"].pc = "drain"] /\ wpc = "settle"
  BY DEF Settle
<1>3. rec \in [RecIds -> RecRecords]
  BY DEF RowTypes
<1>4. /\ rec' \in [RecIds -> RecRecords]
      /\ rec'["late"].pc = "drain"
      /\ rec'["early"] = rec["early"]
  BY <1>2, <1>3 DEF RecIds, RecRecords, RecPcs
<1>5. RowTypes'
  BY <1>1, <1>4, Statuses DEF RowTypes, Facts, WorkerPcs
<1>6. SuccessInv'
  <2>1. /\ row' = "completed" => completion' = "success"
        /\ verdict' = "completed" => completion' = "success"
    BY <1>1 DEF SuccessInv
  <2>2. ASSUME NEW i \in RecIds
        PROVE  /\ rec'[i].seen \in {"none", completion'}
               /\ rec'[i].verdict = "completed" => completion' = "success"
               /\ rec'[i].pc = "write" => rec'[i].verdict \in Terminal
    <3>1. /\ rec[i].seen \in {"none", completion}
          /\ rec[i].verdict = "completed" => completion = "success"
          /\ rec[i].pc = "write" => rec[i].verdict \in Terminal
      BY <2>2 DEF SuccessInv
    <3>2. /\ rec'[i].seen = rec[i].seen /\ rec'[i].verdict = rec[i].verdict
          /\ rec'[i].pc = "write" => rec[i].pc = "write"
      BY <1>2, <1>3, <2>2 DEF RecIds, RecRecords
    <3> QED BY <1>1, <3>1, <3>2
  <2> QED BY <2>1, <2>2 DEF SuccessInv
<1>7. ExitInv'
  BY <1>1 DEF ExitInv, ExitMeansRecorded
<1>8. TurnInv'
  BY <1>1, <1>4 DEF TurnInv
<1>9. RecoveryInv'
  BY <1>1, <1>2, <1>4 DEF RecoveryInv, TurnInv
<1> QED BY <1>5, <1>6, <1>7, <1>8, <1>9

LEMMA CancelQueuedKeeps == ASSUME KInv, CancelQueued PROVE KInv'
<1> USE DEF KInv, rows, process, worker, runner
<1>1. /\ row = "queued" /\ row' = "cancelled"
      /\ completion' = completion /\ server' = server /\ crashes' = crashes
      /\ wpc' = wpc /\ resume' = resume /\ fact' = fact /\ verdict' = verdict
      /\ job' = job /\ rpc' = rpc /\ outcome' = outcome /\ call' = call
  BY DEF CancelQueued
<1>2. rec' = [rec EXCEPT !["early"].pc = "drain"]
  BY DEF CancelQueued
<1>3. rec \in [RecIds -> RecRecords]
  BY DEF RowTypes
<1>4. /\ rec' \in [RecIds -> RecRecords]
      /\ rec'["early"].pc = "drain"
      /\ rec'["late"] = rec["late"]
  BY <1>2, <1>3 DEF RecIds, RecRecords, RecPcs
<1>5. RowTypes'
  BY <1>1, <1>4, Statuses DEF RowTypes, Terminal
<1>6. SuccessInv'
  <2>1. /\ row' = "completed" => completion' = "success"
        /\ verdict' = "completed" => completion' = "success"
    BY <1>1 DEF SuccessInv
  <2>2. ASSUME NEW i \in RecIds
        PROVE  /\ rec'[i].seen \in {"none", completion'}
               /\ rec'[i].verdict = "completed" => completion' = "success"
               /\ rec'[i].pc = "write" => rec'[i].verdict \in Terminal
    <3>1. /\ rec[i].seen \in {"none", completion}
          /\ rec[i].verdict = "completed" => completion = "success"
          /\ rec[i].pc = "write" => rec[i].verdict \in Terminal
      BY <2>2 DEF SuccessInv
    <3>2. /\ rec'[i].seen = rec[i].seen /\ rec'[i].verdict = rec[i].verdict
          /\ rec'[i].pc = "write" => rec[i].pc = "write"
      BY <1>2, <1>3, <2>2 DEF RecIds, RecRecords
    <3> QED BY <1>1, <3>1, <3>2
  <2> QED BY <2>1, <2>2 DEF SuccessInv
<1>7. ExitInv'
  BY <1>1 DEF ExitInv, ExitMeansRecorded
<1>8. TurnInv'
  BY <1>1, <1>4 DEF TurnInv, Revived
<1>9. RecoveryInv'
  BY <1>1, <1>4 DEF RecoveryInv, Terminal
<1> QED BY <1>5, <1>6, <1>7, <1>8, <1>9
\* The reconciler's calls
LEMMA ReconcileKeeps ==
    ASSUME KInv, NEW i \in RecIds, Reconcile(i)
    PROVE  KInv'
<1> USE DEF KInv
<1>0. PICK v \in RecRecords :
        /\ RecMoves(i, v) /\ rec[i].pc \notin {"none", "done"}
        /\ \/ /\ v.pc \in {"read", "fact", "grace", "write"} /\ UNCHANGED row
              /\ v.seen \in {"none", rec[i].seen, completion}
              /\ v.verdict = "completed" => v.seen = "success" \/ v.verdict = rec[i].verdict
              /\ v.pc = "write" => v.verdict \in Terminal
              /\ \/ v.row = rec[i].row /\ rec[i].pc \in {"fact", "grace"}
                 \/ v.row = row /\ (row \in Terminal => completion # "none")
                 \/ v.pc = "read"
           \/ /\ v.pc = "done" /\ v.seen = "none" /\ v.verdict = "none" /\ UNCHANGED row
              /\ row \in Terminal \/ v.fact = "running"
           \/ /\ v.pc = "done" /\ v.seen = "none" /\ v.verdict = "none"
              /\ rec[i].pc = "write" /\ row' = rec[i].verdict
  BY RecordSteps
<1>1. /\ completion' = completion /\ server' = server /\ crashes' = crashes
      /\ wpc' = wpc /\ resume' = resume /\ fact' = fact /\ verdict' = verdict
      /\ job' = job /\ rpc' = rpc /\ outcome' = outcome /\ call' = call
  BY DEF Reconcile, RecDrain, RecRead, RecReadFact, RecGrace, RecWrite, rows, process, worker,
         runner
<1>2. rec \in [RecIds -> RecRecords]
  BY DEF RowTypes
<1>3. /\ rec' \in [RecIds -> RecRecords] /\ rec'[i] = v
      /\ \A j \in RecIds \ {i} : rec'[j] = rec[j]
  BY <1>0, <1>2 DEF RecMoves
<1>4. row' = row \/ (row' = rec[i].verdict /\ rec[i].pc = "write" /\ v.pc = "done")
  BY <1>0
<1>5. /\ rec[i].seen \in {"none", completion}
      /\ rec[i].verdict = "completed" => completion = "success"
      /\ rec[i].pc = "write" => rec[i].verdict \in Terminal
  BY DEF SuccessInv
<1>6. row' \in Rows /\ (row' = "completed" => completion = "success")
      /\ (row' # row => row' \in Terminal)
  BY <1>4, <1>5, Statuses DEF RowTypes, SuccessInv
<1>7. RowTypes'
  BY <1>1, <1>3, <1>6 DEF RowTypes
<1>8. SuccessInv'
  <2>1. /\ row' = "completed" => completion' = "success"
        /\ verdict' = "completed" => completion' = "success"
    BY <1>1, <1>6 DEF SuccessInv
  <2>2. /\ v.seen \in {"none", completion}
        /\ v.verdict = "completed" => completion = "success"
        /\ v.pc = "write" => v.verdict \in Terminal
    BY <1>0, <1>5
  <2>3. ASSUME NEW j \in RecIds
        PROVE  /\ rec'[j].seen \in {"none", completion'}
               /\ rec'[j].verdict = "completed" => completion' = "success"
               /\ rec'[j].pc = "write" => rec'[j].verdict \in Terminal
    <3>1. CASE j = i
      BY <1>1, <1>3, <2>2, <3>1
    <3>2. CASE j # i
      <4>1. rec'[j] = rec[j]
        BY <1>3, <3>2
      <4> QED BY <1>1, <4>1 DEF SuccessInv
    <3> QED BY <3>1, <3>2
  <2> QED BY <2>1, <2>3 DEF SuccessInv
<1>9. ExitInv'
  BY <1>1 DEF ExitInv, ExitMeansRecorded
<1>10. rec["early"].pc # "none" => rec'["early"].pc # "none"
  BY <1>0, <1>3 DEF RecIds
<1>11. i = "early" => rec["early"].pc # "none" /\ rec'["late"] = rec["late"]
  BY <1>0, <1>3 DEF RecIds
<1>12. i = "late" => rec["late"].pc # "none" /\ rec'["late"] = v /\ rec'["early"] = rec["early"]
  BY <1>0, <1>3 DEF RecIds
<1>13. TurnInv'
  <2>1. server # "up" \/ crashes > 0 \/ rec'["late"].pc # "none" => wpc = "off"
    BY <1>11, <1>12 DEF TurnInv, RecIds
  <2>2. ASSUME rec'["early"].pc = "none"
        PROVE  /\ wpc # "off" => row' \notin Terminal
               /\ rec'["late"].pc \in {"fact", "grace", "write"} =>
                     /\ rec'["late"].row = row'
                     /\ row' \in Terminal => completion # "none"
    <3>1. ~Revived /\ i = "late" /\ wpc = "off"
      BY <1>10, <1>11, <1>12, <2>2 DEF Revived, RecIds, TurnInv
    <3>2. ASSUME v.pc \in {"fact", "grace", "write"}
          PROVE  v.row = row' /\ (row' \in Terminal => completion # "none")
      BY <1>0, <3>1, <3>2 DEF TurnInv
    <3> QED BY <1>12, <3>1, <3>2
  <2> QED BY <1>1, <2>1, <2>2 DEF TurnInv, Revived
<1>14. RecoveryInv'
  <2>1. CASE i = "early"
    BY <1>1, <1>6, <1>11, <2>1 DEF RecoveryInv
  <2>2. CASE i = "late"
    <3>1. ~(crashes > 0 /\ server = "up")
      BY <1>0, <2>2 DEF RecoveryInv
    <3>2. v.pc = "done" /\ row' \notin Terminal => v.fact = "running"
      BY <1>0, <1>5
    <3>3. v.pc # "none"
      BY <1>0
    <3> QED BY <1>1, <1>12, <2>2, <3>1, <3>2, <3>3 DEF RecoveryInv
  <2> QED BY <2>1, <2>2 DEF RecIds
<1> QED BY <1>7, <1>8, <1>9, <1>13, <1>14

\* The process goes, and comes back.
LEMMA CrashKeeps == ASSUME KInv, Crash PROVE KInv'
<1> USE DEF KInv, rows, process, worker, runner
<1>1. /\ row' = row /\ completion' = completion /\ server' = "down" /\ crashes' = crashes + 1
      /\ wpc' = "off" /\ resume' = "fact" /\ fact' = "running" /\ verdict' = "failed"
      /\ job' = job /\ rpc' = rpc /\ outcome' = outcome /\ call' = call
  BY DEF Crash, WorkerGone
<1>2. rec' = [i \in RecIds |-> IF rec[i].pc = "none" THEN NoRec ELSE RecDone(rec[i])]
  BY DEF Crash
<1>3. rec \in [RecIds -> RecRecords] /\ crashes \in Nat
  BY DEF RowTypes
<1>4. ASSUME NEW i \in RecIds
      PROVE  /\ rec'[i] \in RecRecords /\ rec'[i].seen = "none" /\ rec'[i].verdict = "none"
             /\ rec'[i].pc \in {"none", "done"} /\ (rec[i].pc # "none" => rec'[i].pc # "none")
  <2>1. CASE rec[i].pc = "none"
    <3>1. rec'[i] = NoRec
      BY <1>2, <2>1
    <3> QED BY <2>1, <3>1, NoRecIs
  <2>2. CASE rec[i].pc # "none"
    <3>1. rec'[i] = RecDone(rec[i]) /\ rec[i] \in RecRecords
      BY <1>2, <1>3, <2>2
    <3> QED BY <3>1, RecDoneIs
  <2> QED BY <2>1, <2>2
<1>5. rec' \in [RecIds -> RecRecords]
  BY <1>2, <1>4
<1>6. crashes' \in Nat
  BY <1>1, <1>3
<1>7. RowTypes'
  BY <1>1, <1>5, <1>6 DEF RowTypes, Facts, WorkerPcs
<1>8. SuccessInv'
  <2>1. row = "completed" => completion = "success"
    BY DEF SuccessInv
  <2>2. ASSUME NEW j \in RecIds
        PROVE  /\ rec'[j].seen \in {"none", completion'}
               /\ rec'[j].verdict = "completed" => completion' = "success"
               /\ rec'[j].pc = "write" => rec'[j].verdict \in Terminal
    BY <1>4, <2>2
  <2> QED BY <1>1, <2>1, <2>2 DEF SuccessInv
<1>9. ExitInv'
  BY <1>1 DEF ExitInv, ExitMeansRecorded
<1>10. rec'["late"].pc \in {"none", "done"} /\ (Revived => rec'["early"].pc # "none")
  BY <1>4 DEF RecIds, Revived
<1>11. TurnInv'
  BY <1>1, <1>10 DEF TurnInv, Revived
<1>12. RecoveryInv'
  BY <1>1, <1>10 DEF RecoveryInv
<1> QED BY <1>7, <1>8, <1>9, <1>11, <1>12

LEMMA RestartKeeps == ASSUME KInv, Restart \/ Listen PROVE KInv'
<1> USE DEF KInv, rows, process, worker, runner
<1>1. /\ row' = row /\ completion' = completion /\ crashes' = crashes
      /\ wpc' = wpc /\ resume' = resume /\ fact' = fact /\ verdict' = verdict
      /\ job' = job /\ rpc' = rpc /\ outcome' = outcome /\ call' = call
  BY DEF Restart, Listen
<1>2. /\ server # "up" /\ wpc = "off"
      /\ server' \in {"up", "recovering"}
  BY DEF Restart, Listen, TurnInv
<1>3. rec \in [RecIds -> RecRecords]
  BY DEF RowTypes
<1>4. CASE rec' = rec
  <2>1. RowTypes'
    BY <1>1, <1>2, <1>4 DEF RowTypes
  <2>2. SuccessInv'
    BY <1>1, <1>4 DEF SuccessInv
  <2>3. ExitInv'
    BY <1>1 DEF ExitInv, ExitMeansRecorded
  <2>4. TurnInv'
    BY <1>1, <1>2, <1>4 DEF TurnInv, Revived
  <2>5. CASE Listen
    <3>1. rec["late"].pc \in {"none", "done"} /\ server = "recovering"
      BY <2>5 DEF Listen
    <3>2. RecoveryInv'
      BY <1>1, <1>2, <1>4, <3>1 DEF RecoveryInv
    <3> QED BY <2>1, <2>2, <2>3, <2>4, <3>2
  <2>6. CASE Restart
    <3> DEFINE d == [NoRec EXCEPT !.pc = "drain"]
    <3>1. row \in Terminal \/ rec' = [rec EXCEPT !["late"] = d]
      BY <2>6, Statuses DEF Restart, RowTypes
    <3>2. row \in Terminal \/ rec'["late"].pc = "drain"
      BY <1>3, <3>1, NoRecIs DEF RecIds
    <3>3. server' = "recovering"
      BY <2>6 DEF Restart
    <3>4. RecoveryInv'
      BY <1>1, <3>2, <3>3 DEF RecoveryInv
    <3> QED BY <2>1, <2>2, <2>3, <2>4, <3>4
  <2> QED BY <2>5, <2>6
<1>5. CASE rec' = [rec EXCEPT !["late"] = [NoRec EXCEPT !.pc = "drain"]] /\ server' = "recovering"
  <2> DEFINE d == [NoRec EXCEPT !.pc = "drain"]
  <2>1. d \in RecRecords /\ d.pc = "drain" /\ d.seen = "none" /\ d.verdict = "none"
    BY NoRecIs
  <2>2. rec' = [rec EXCEPT !["late"] = d]
    BY <1>5
  <2> HIDE DEF d
  <2>3. rec' \in [RecIds -> RecRecords] /\ rec'["late"] = d /\ rec'["early"] = rec["early"]
    BY <1>3, <2>1, <2>2 DEF RecIds
  <2>4. RowTypes'
    BY <1>1, <1>2, <2>3 DEF RowTypes
  <2>5. SuccessInv'
    <3>1. /\ row = "completed" => completion = "success"
          /\ verdict = "completed" => completion = "success"
      BY DEF SuccessInv
    <3>2. ASSUME NEW j \in RecIds
          PROVE  /\ rec'[j].seen \in {"none", completion'}
                 /\ rec'[j].verdict = "completed" => completion' = "success"
                 /\ rec'[j].pc = "write" => rec'[j].verdict \in Terminal
      <4>1. rec'[j] = d \/ rec'[j] = rec[j]
        BY <2>3, <3>2 DEF RecIds
      <4>2. CASE rec'[j] = d
        BY <2>1, <4>2
      <4>3. CASE rec'[j] = rec[j]
        BY <1>1, <3>2, <4>3 DEF SuccessInv
      <4> QED BY <4>1, <4>2, <4>3
    <3> QED BY <1>1, <3>1, <3>2 DEF SuccessInv
  <2>6. ExitInv'
    BY <1>1 DEF ExitInv, ExitMeansRecorded
  <2>7. TurnInv'
    BY <1>1, <1>2, <2>1, <2>3 DEF TurnInv, Revived
  <2>8. RecoveryInv'
    BY <1>5, <2>1, <2>3 DEF RecoveryInv
  <2> QED BY <2>4, <2>5, <2>6, <2>7, <2>8
<1> QED BY <1>4, <1>5 DEF Restart, Listen

-----------------------------------------------------------------------------
(* The theorems                                                            *)

LEMMA KInit == Init => KInv
<1> SUFFICES ASSUME Init PROVE KInv
  OBVIOUS
<1> USE DEF Init
<1>1. RowTypes
  BY NoRecIs, Statuses DEF RowTypes, Working, Facts, WorkerPcs, RunnerPcs, Outcomes, Flows
<1>2. SuccessInv
  BY NoRecIs DEF SuccessInv
<1>3. ExitInv
  BY DEF ExitInv, ExitMeansRecorded
<1>4. TurnInv
  BY NoRecIs DEF TurnInv, Revived, Terminal, RecIds
<1>5. RecoveryInv
  BY DEF RecoveryInv
<1> QED BY <1>1, <1>2, <1>3, <1>4, <1>5 DEF KInv

LEMMA KNext == KInv /\ [Next]_vars => KInv'
<1> SUFFICES ASSUME KInv, [Next]_vars PROVE KInv'
  OBVIOUS
<1>1. CASE \/ Load \/ Start \/ DispatchAborts \/ Dispatch \/ Launch \/ LaunchFails
           \/ Watch \/ CancelRegistered
  BY <1>1, WorkerSteps, WorkerKeeps DEF KInv
<1>2. CASE Settle
  BY <1>2, SettleKeeps
<1>3. CASE CancelQueued
  BY <1>3, CancelQueuedKeeps
<1>4. CASE \/ Runner \/ (\E flow \in Flows : HandleUnheard(flow))
           \/ (\E request \in Requests : HandleLate(request))
  BY <1>4, RunnerSteps, RunnerKeeps DEF KInv
<1>5. CASE \E i \in RecIds : Reconcile(i)
  BY <1>5, ReconcileKeeps
<1>6. CASE Crash
  BY <1>6, CrashKeeps
<1>7. CASE Restart \/ Listen
  BY <1>7, RestartKeeps
<1>8. CASE UNCHANGED vars
  BY <1>8 DEF KInv, RowTypes, SuccessInv, ExitInv, ExitMeansRecorded, TurnInv, Revived,
              RecoveryInv, vars, rows, process, worker, runner
<1> QED
  BY <1>1, <1>2, <1>3, <1>4, <1>5, <1>6, <1>7, <1>8 DEF Next, ProcessRun, CancelRun

\* The whole invariant holds in every reachable state of the Kubernetes run
\* (kubernetes-backend.ts, runner/index.ts, control-plane-store.ts, reconciler.ts).
THEOREM KubernetesInductive == Spec => []KInv
<1>1. KInv /\ [Next]_vars => KInv'
  BY KNext
<1> QED BY KInit, <1>1, PTL DEF Spec

\* A job that exited with success has its success recorded (runner/index.ts
\* exits with 0 only on the answer to its completion).
THEOREM ExitIsEvidence == Spec => []ExitMeansRecorded
<1>1. KInv => ExitMeansRecorded
  BY DEF KInv, ExitInv
<1> QED BY KubernetesInductive, <1>1, PTL

\* After a restart only a run whose job was seen running is open (reconciler.ts
\* settles the others before the listener is up).
THEOREM RestartSettles == Spec => []OrphanWasRunning
<1>1. KInv => OrphanWasRunning
  BY DEF KInv, RecoveryInv, OrphanWasRunning, Ended
<1> QED BY KubernetesInductive, <1>1, PTL

\* The row and the completion keep the promise of module RunVerdict: the
\* completion is decided once, and "completed" is only said of a success.
THEOREM KeepsVerdict == Spec => VerdictContract
<1>1. Init => Verdict!Init
  BY DEF Init, Verdict!Init, Rows, Working
<1>2. KInv /\ KInv' /\ [Next]_vars => [Verdict!Next]_(Verdict!vars)
  <2> SUFFICES ASSUME KInv, KInv', [Next]_vars
               PROVE  [Verdict!Next]_(Verdict!vars)
    OBVIOUS
  <2> USE DEF Verdict!Next, Verdict!vars, Verdict!Decide, Verdict!Progress, Verdict!Complete
  <2>1. row' \in Rows /\ (row' = "completed" => completion' = "success")
    BY DEF KInv, RowTypes, SuccessInv
  <2>2. completion' = completion \/ (completion = "none" /\ completion' \in Outcomes /\ row' = row)
    <3>1. CASE \/ Runner \/ (\E flow \in Flows : HandleUnheard(flow))
               \/ (\E request \in Requests : HandleLate(request))
      BY <3>1, RunnerSteps DEF KInv, RunnerMoves
    <3>2. CASE \/ Load \/ Start \/ DispatchAborts \/ Dispatch \/ Launch \/ LaunchFails
               \/ Watch \/ CancelRegistered
      BY <3>2, WorkerSteps DEF KInv, WorkerMoves
    <3>3. CASE \/ Settle \/ CancelQueued \/ Crash \/ Restart \/ Listen \/ UNCHANGED vars
      BY <3>3 DEF Settle, CancelQueued, Crash, Restart, Listen, vars, rows
    <3>4. CASE \E i \in RecIds : Reconcile(i)
      BY <3>4 DEF Reconcile, RecDrain, RecRead, RecReadFact, RecGrace, RecWrite, rows
    <3> QED BY <3>1, <3>2, <3>3, <3>4 DEF Next, ProcessRun, CancelRun
  <2>3. CASE completion' = completion
    BY <2>1, <2>3
  <2>4. CASE completion = "none" /\ completion' \in Outcomes /\ row' = row
    BY <2>4 DEF Outcomes
  <2> QED BY <2>2, <2>3, <2>4
<1> QED BY <1>1, <1>2, KubernetesInductive, PTL DEF Spec, VerdictContract, Verdict!Spec

\* A stated end is replaced by another only on the word of a recorded
\* completion, unless the run was started although it was cancelled in the
\* queue (run-manager.ts writes without a look, reconciler.ts judges late).
THEOREM CompletionOverturns == Spec => OnlyCompletionOverturns
<1> DEFINE Overturn == /\ row \in Terminal /\ row' \in Terminal /\ row' # row /\ ~Revived
                      => /\ completion # "none"
                         /\ row' = "completed" => completion = "success"
<1>1. KInv /\ KInv' /\ [Next]_vars => [Overturn]_vars
  <2> SUFFICES ASSUME KInv, KInv', [Next]_vars,
                      row \in Terminal, row' \in Terminal, row' # row, ~Revived
               PROVE  /\ completion # "none"
                      /\ row' = "completed" => completion = "success"
    OBVIOUS
  <2>1. wpc = "off"
    BY DEF KInv, TurnInv
  <2>2. PICK i \in RecIds : Reconcile(i)
    <3>1. CASE \/ Runner \/ (\E flow \in Flows : HandleUnheard(flow))
               \/ (\E request \in Requests : HandleLate(request))
      BY <3>1, RunnerSteps DEF KInv, RunnerMoves
    <3>2. CASE \/ Load \/ Start \/ DispatchAborts \/ Dispatch \/ Launch \/ LaunchFails
               \/ Watch \/ CancelRegistered
      BY <2>1, <3>2, WorkerSteps DEF KInv, WorkerMoves
    <3>3. CASE \/ Settle \/ CancelQueued \/ Crash \/ Restart \/ Listen \/ UNCHANGED vars
      BY <2>1, <3>3 DEF Settle, CancelQueued, Crash, Restart, Listen, vars, rows, Terminal
    <3> QED BY <3>1, <3>2, <3>3 DEF Next, ProcessRun, CancelRun
  <2>3. row' = rec[i].verdict /\ rec[i].pc = "write"
    BY <2>2 DEF Reconcile, RecDrain, RecRead, RecReadFact, RecGrace, RecWrite, rows
  <2>4. i = "late"
    BY <2>2, <2>3 DEF Revived, RecIds
  <2>5. completion # "none"
    BY <2>3, <2>4 DEF KInv, TurnInv
  <2>6. row' = "completed" => completion = "success"
    BY <2>3 DEF KInv, SuccessInv
  <2> QED BY <2>5, <2>6
<1> QED BY <1>1, KubernetesInductive, PTL DEF Spec, OnlyCompletionOverturns

-----------------------------------------------------------------------------
(* The remaining types: counters stay within their bounds, and what the    *)
(* runner sends, the server stores and the backend delivers are numbered   *)
(* alike.                                                                  *)

StoredEvents == [kind : EventKinds, n : 1 .. MaxEvents]

CountTypes ==
    /\ events \subseteq StoredEvents /\ recorded \subseteq 1 .. MaxEvents
    /\ crashes \in 0 .. Crashes /\ cancels \in 0 .. Cancels
    /\ drained \in 0 .. MaxEvents /\ aborted \in BOOLEAN
    /\ position \in 0 .. PipelineEvents /\ sequence \in 0 .. MaxEvents
    /\ call \in [Flows -> Requests \cup {NoCall}]
    /\ poller \in {"off", "poll", "emitting", "done"}
    /\ losses \in 0 .. Losses /\ adrift \subseteq Requests

LEMMA KubernetesLimits ==
    /\ PipelineEvents \in Nat /\ MaxEvents \in Nat /\ Losses \in Nat /\ Crashes \in Nat
    /\ Cancels \in Nat
  BY LimitsAssumption

\* The number that a drain ends with is one of those that it delivers.
LEMMA MaxIsOne ==
    ASSUME NEW S \in SUBSET (1 .. MaxEvents), S # {} PROVE Max(S) \in S
<1> USE KubernetesLimits
<1> DEFINE T == {MaxEvents - n : n \in S}
<1>1. T \subseteq Nat /\ T # {}
  OBVIOUS
<1>2. PICK x \in T : \A y \in T : ~(<<y, x>> \in OpToRel(<, Nat))
  BY <1>1, WFMin, NatLessThanWellFounded, Zenon
<1>3. PICK m \in S : x = MaxEvents - m
  OBVIOUS
<1>4. ASSUME NEW n \in S PROVE m >= n
  <2>1. MaxEvents - n \in T
    OBVIOUS
  <2>2. ~(MaxEvents - n < MaxEvents - m)
    BY <1>1, <1>2, <1>3, <2>1 DEF OpToRel
  <2>3. m \in Int /\ n \in Int
    OBVIOUS
  <2> QED BY <2>2, <2>3
<1>5. \E n \in S : \A k \in S : n >= k
  BY <1>3, <1>4
<1> QED BY <1>5 DEF Max

LEMMA DrainCounts == ASSUME CountTypes, Drain PROVE CountTypes'
<1>1. NewEvents \subseteq StoredEvents
  BY DEF NewEvents, CountTypes
<1>2. Checkpoints(NewEvents) \subseteq 1 .. MaxEvents
  BY <1>1 DEF Checkpoints, StoredEvents
<1>3. drained' \in 0 .. MaxEvents
  <2> DEFINE S == {e.n : e \in NewEvents}
  <2>1. S \in SUBSET (1 .. MaxEvents)
    BY <1>1 DEF StoredEvents
  <2>2. NewEvents # {} => S # {}
    OBVIOUS
  <2>3. drained' = IF NewEvents = {} THEN drained ELSE Max(S)
    BY DEF Drain
  <2> HIDE DEF S
  <2>4. NewEvents # {} => Max(S) \in 1 .. MaxEvents
    BY <2>1, <2>2, MaxIsOne
  <2> QED BY <2>3, <2>4, KubernetesLimits DEF CountTypes
<1>4. recorded' \subseteq 1 .. MaxEvents
  BY <1>2 DEF Drain, CountTypes
<1> QED BY <1>3, <1>4 DEF Drain, CountTypes, process, runner

LEMMA EmitCounts ==
    ASSUME CountTypes, NEW flow \in Flows, NEW kind \in EventKinds, Emit(flow, kind)
    PROVE  sequence' \in 0 .. MaxEvents /\ call' \in [Flows -> Requests \cup {NoCall}]
<1>1. sequence + 1 \in 1 .. MaxEvents /\ sequence' = sequence + 1
  BY KubernetesLimits DEF Emit, CountTypes
<1>2. [kind |-> kind, n |-> sequence + 1] \in Requests
  BY <1>1 DEF Requests
<1> QED BY <1>1, <1>2 DEF Emit, Send, CountTypes

LEMMA GoneWorkerCounts ==
    ASSUME WorkerGone PROVE drained' \in 0 .. MaxEvents /\ aborted' \in BOOLEAN
<1>1. drained' = 0 /\ aborted' = FALSE
  BY DEF WorkerGone
<1>2. 0 \in 0 .. MaxEvents
  BY KubernetesLimits
<1> QED BY <1>1, <1>2

LEMMA GoneCounts ==
    ASSUME RunnerGone
    PROVE  /\ position' \in 0 .. PipelineEvents /\ sequence' \in 0 .. MaxEvents
           /\ call' \in [Flows -> Requests \cup {NoCall}]
           /\ poller' \in {"off", "poll", "emitting", "done"}
  BY KubernetesLimits DEF RunnerGone

\* A flow that hears or gives up sends nothing but a completion.
LEMMA ReturnCounts ==
    ASSUME RowTypes, CountTypes, NEW flow \in Flows, NEW heard \in BOOLEAN, Returns(flow, heard)
    PROVE  /\ position' \in 0 .. PipelineEvents /\ sequence' \in 0 .. MaxEvents
           /\ call' \in [Flows -> Requests \cup {NoCall}]
           /\ poller' \in {"off", "poll", "emitting", "done"}
<1>1. CASE flow = "poll" /\ PollReturns(heard)
  BY <1>1 DEF PollReturns, CountTypes, Flows
<1>2. CASE \E code : Exit(code)
  BY <1>2, GoneCounts DEF Exit
<1>3. CASE \E request \in Requests \cup {NoCall} : \E next, result : MainGoesOn(next, result, request)
  BY <1>3 DEF MainGoesOn, Send, CountTypes, Flows
<1>4. [kind |-> outcome, n |-> 0] \in Requests
  BY DEF RowTypes, Requests
<1>5. ASSUME MainHears PROVE \/ \E code : Exit(code)
                             \/ \E request \in Requests \cup {NoCall} : \E next, result :
                                  MainGoesOn(next, result, request)
  <2>1. CASE rpc = "emitting" /\ MainGoesOn("pipeline", outcome, NoCall)
    BY <2>1
  <2>2. CASE MainGoesOn("completing", outcome, [kind |-> outcome, n |-> 0])
    BY <1>4, <2>2
  <2>3. CASE Exit(IF outcome = "success" THEN "succeeded" ELSE "failed")
    BY <2>3
  <2> QED BY <1>5, <2>1, <2>2, <2>3 DEF MainHears
<1>6. ASSUME MainThrows PROVE \/ \E code : Exit(code)
                              \/ \E request \in Requests \cup {NoCall} : \E next, result :
                                   MainGoesOn(next, result, request)
  <2>1. CASE MainGoesOn("join", "failed", NoCall)
    BY <2>1
  <2>2. CASE Exit("failed")
    BY <2>2
  <2> QED BY <1>6, <2>1, <2>2 DEF MainThrows
<1> QED BY <1>1, <1>2, <1>3, <1>5, <1>6 DEF Returns

LEMMA HandleCounts ==
    ASSUME CountTypes, NEW request \in Requests \cup {NoCall}, Handle(request)
    PROVE  events' \subseteq StoredEvents
<1>1. CASE request.kind \in EventKinds /\ events' = events \cup {request}
  <2>1. request # NoCall /\ request \notin [kind : Outcomes, n : {0}]
    BY <1>1 DEF NoCall, EventKinds, Outcomes
  <2> QED BY <1>1, <2>1 DEF Requests, StoredEvents, CountTypes
<1>2. CASE events' = events
  BY <1>2 DEF CountTypes
<1> QED BY <1>1, <1>2 DEF Handle

LEMMA CountStep == ASSUME RowTypes, CountTypes, [Next]_vars PROVE CountTypes'
<1> USE DEF rows, process, worker, runner
<1>1. CASE Load \/ Start \/ DispatchAborts \/ Dispatch \/ Launch \/ LaunchFails
  BY <1>1 DEF Load, Start, DispatchAborts, Dispatch, Launch, LaunchFails, CountTypes
<1>2. CASE Settle
  <2>1. WorkerGone /\ UNCHANGED <<events, recorded, process, runner>>
    BY <1>2 DEF Settle
  <2> QED BY <2>1, GoneWorkerCounts DEF CountTypes
<1>3. CASE Drain
  BY <1>3, DrainCounts
<1>4. CASE ReadFact \/ ThrowCancelled \/ WaitTimeout \/ ReadCompletion \/ AwaitCompletion
             \/ CompletionWindowEnds
  BY <1>4 DEF ReadFact, ThrowCancelled, WaitTimeout, ReadCompletion, AwaitCompletion,
              CompletionWindowEnds, CountTypes
<1>5. CASE Cleanup
  <2>1. CASE UNCHANGED runner
    BY <1>5, <2>1 DEF Cleanup, CountTypes
  <2>2. CASE RunnerGone /\ adrift' = {} /\ UNCHANGED losses
    BY <1>5, <2>2, GoneCounts DEF Cleanup, CountTypes
  <2> QED BY <1>5, <2>1, <2>2 DEF Cleanup
<1>6. CASE CancelRegistered \/ CancelQueued
  <2>1. cancels < Cancels /\ cancels' = cancels + 1
    BY <1>6 DEF CancelRegistered, CancelQueued
  <2>2. cancels' \in 0 .. Cancels
    BY <2>1, KubernetesLimits DEF CountTypes
  <2>3. \/ aborted' = aborted
        \/ aborted' = (aborted \/ row \in {"queued", "cloning"})
    BY <1>6 DEF CancelRegistered, CancelQueued
  <2>4. aborted' \in BOOLEAN
    BY <2>3 DEF CountTypes
  <2> QED BY <1>6, <2>2, <2>4 DEF CancelRegistered, CancelQueued, CountTypes
<1>7. CASE Boot \/ PipelineEnds \/ JobExpires
  BY <1>7 DEF Boot, PipelineEnds, JobExpires, CountTypes
<1>8. CASE BootFails \/ RunnerDies \/ RunnerKilled
  BY <1>8, GoneCounts DEF BootFails, RunnerDies, RunnerKilled, Exit, CountTypes
<1>9. CASE PipelineEmits \/ Attempt \/ PollCancelled
  <2>1. /\ "main" \in Flows /\ "poll" \in Flows
        /\ "phase" \in EventKinds /\ "checkpoint" \in EventKinds /\ "note" \in EventKinds
    BY DEF Flows, EventKinds
  <2>2. \E flow \in Flows, kind \in EventKinds : Emit(flow, kind)
    BY <1>9, <2>1 DEF PipelineEmits, Attempt, PollCancelled
  <2>3. sequence' \in 0 .. MaxEvents /\ call' \in [Flows -> Requests \cup {NoCall}]
    BY <2>2, EmitCounts
  <2>4. position' \in 0 .. PipelineEvents /\ poller' \in {"off", "poll", "emitting", "done"}
    BY <1>9, KubernetesLimits DEF PipelineEmits, Attempt, PollCancelled, CountTypes
  <2> QED BY <1>9, <2>3, <2>4 DEF PipelineEmits, Attempt, PollCancelled, CountTypes
<1>10. ASSUME NEW flow \in Flows, GiveUp(flow) PROVE CountTypes'
  <2>1. /\ Returns(flow, FALSE) /\ losses' = losses + 1 /\ losses < Losses /\ call[flow] # NoCall
        /\ UNCHANGED <<events, recorded, crashes, cancels, drained, aborted>>
    BY <1>10 DEF GiveUp
  <2>2. call[flow] \in Requests
    BY <2>1 DEF CountTypes
  <2>3. adrift' \subseteq Requests
    BY <1>10, <2>2 DEF GiveUp, CountTypes
  <2>4. losses' \in 0 .. Losses
    BY <2>1, KubernetesLimits DEF CountTypes
  <2>5. /\ position' \in 0 .. PipelineEvents /\ sequence' \in 0 .. MaxEvents
        /\ call' \in [Flows -> Requests \cup {NoCall}]
        /\ poller' \in {"off", "poll", "emitting", "done"}
    BY <2>1, ReturnCounts
  <2> QED BY <2>1, <2>3, <2>4, <2>5 DEF CountTypes
<1>11. ASSUME NEW flow \in Flows, Answer(flow) PROVE CountTypes'
  <2>1. call[flow] \in Requests \cup {NoCall}
    BY DEF CountTypes
  <2>2. events' \subseteq StoredEvents
    BY <1>11, <2>1, HandleCounts DEF Answer
  <2>3. Accepted(call[flow]) \in BOOLEAN
    BY DEF Accepted
  <2>4. /\ position' \in 0 .. PipelineEvents /\ sequence' \in 0 .. MaxEvents
        /\ call' \in [Flows -> Requests \cup {NoCall}]
        /\ poller' \in {"off", "poll", "emitting", "done"}
    BY <1>11, <2>3, ReturnCounts DEF Answer
  <2> QED BY <1>11, <2>2, <2>4 DEF Answer, CountTypes
<1>12. ASSUME NEW flow \in Flows, HandleUnheard(flow) PROVE CountTypes'
  <2>1. events' \subseteq StoredEvents
    BY <1>12, HandleCounts DEF HandleUnheard, CountTypes
  <2> QED BY <1>12, <2>1 DEF HandleUnheard, CountTypes
<1>13. ASSUME NEW request \in Requests, HandleLate(request) PROVE CountTypes'
  <2>1. events' \subseteq StoredEvents
    BY <1>13, HandleCounts DEF HandleLate
  <2> QED BY <1>13, <2>1 DEF HandleLate, CountTypes
<1>14. ASSUME NEW i \in RecIds, Reconcile(i) PROVE CountTypes'
  <2>1. recorded' \subseteq 1 .. MaxEvents
    <3>1. Checkpoints(events) \subseteq 1 .. MaxEvents
      BY DEF Checkpoints, CountTypes, StoredEvents
    <3>2. recorded' \in {recorded, recorded \cup Checkpoints(events)}
      BY <1>14, Zenon DEF Reconcile, RecDrain, RecRead, RecReadFact, RecGrace, RecWrite
    <3> QED BY <3>1, <3>2 DEF CountTypes
  <2>2. UNCHANGED <<events, process, worker, job, runner>>
    BY <1>14, Zenon DEF Reconcile, RecDrain, RecRead, RecReadFact, RecGrace, RecWrite
  <2> QED BY <2>1, <2>2 DEF CountTypes
<1>15. CASE Crash
  <2>1. crashes' \in 0 .. Crashes
    BY <1>15, KubernetesLimits DEF Crash, CountTypes
  <2>2. WorkerGone /\ UNCHANGED <<rows, cancels, runner>>
    BY <1>15 DEF Crash
  <2> QED BY <2>1, <2>2, GoneWorkerCounts DEF CountTypes
<1>16. CASE Restart \/ Listen
  BY <1>16 DEF Restart, Listen, CountTypes
<1>17. CASE UNCHANGED vars
  BY <1>17 DEF vars, CountTypes
<1> QED
  BY <1>1, <1>2, <1>3, <1>4, <1>5, <1>6, <1>7, <1>8, <1>9, <1>10, <1>11, <1>12, <1>13, <1>14,
     <1>15, <1>16, <1>17 DEF Next, ProcessRun, Watch, CancelRun, Runner

\* Every row, request and place of a Kubernetes run is one that the program
\* can have, and a number that the backend has delivered is one it stored.
THEOREM KubernetesTypes == Spec => []TypeOK
<1>1. ASSUME Init PROVE CountTypes
  <2>1. /\ events = {} /\ recorded = {} /\ adrift = {}
        /\ crashes = 0 /\ cancels = 0 /\ drained = 0 /\ position = 0 /\ sequence = 0
        /\ losses = 0
    BY <1>1 DEF Init
  <2>2. /\ 0 \in 0 .. Crashes /\ 0 \in 0 .. Cancels /\ 0 \in 0 .. MaxEvents
        /\ 0 \in 0 .. PipelineEvents /\ 0 \in 0 .. Losses
    BY KubernetesLimits
  <2>3. call \in [Flows -> Requests \cup {NoCall}]
    BY <1>1 DEF Init
  <2>4. aborted \in BOOLEAN /\ poller \in {"off", "poll", "emitting", "done"}
    BY <1>1 DEF Init
  <2> QED BY <2>1, <2>2, <2>3, <2>4 DEF CountTypes
<1>2. KInv /\ CountTypes /\ [Next]_vars => CountTypes'
  BY CountStep DEF KInv
<1>3. KInv /\ CountTypes => TypeOK
  BY DEF KInv, RowTypes, CountTypes, TypeOK, StoredEvents, RecRecords, WorkerPcs, RunnerPcs
<1> QED BY <1>1, <1>2, <1>3, KubernetesInductive, PTL DEF Spec
=============================================================================
