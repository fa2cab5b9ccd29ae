--------------------------- MODULE WorkItems_proofs ---------------------------
(***************************************************************************)
(* Safety of WorkItems for every policy and every bound: webhooks, runs    *)
(* and the monitor interleave as they like, and the server may crash       *)
(* wherever it is.                                                         *)
(***************************************************************************)
EXTENDS WorkItems, FeatureDelivery_proofs, SequenceTheorems, FiniteSetTheorems

\* The row keeps its columns, and its state is one the store knows.
ItemInv ==
    /\ item = [state |-> item.state, substate |-> item.substate,
               flags |-> item.flags, head |-> item.head]
    /\ item.state \in States

\* The runs form a sequence; of two active runs, one is the other.
RunsInv ==
    /\ \E S : runs \in Seq(S)
    /\ \A r \in DOMAIN runs : "status" \in DOMAIN runs[r]
    /\ \A r, s \in Active : r = s

IInv == ItemInv /\ RunsInv

-----------------------------------------------------------------------------
LEMMA InitHolds == Init => IInv
<1> SUFFICES ASSUME Init PROVE IInv
  OBVIOUS
<1>1. ItemInv
  <2>1. CASE item = AdoptedItem
    BY <2>1 DEF AdoptedItem, ItemInv, States, Managed
  <2>2. CASE item = OptedOutItem
    <3>1. "cancelled" \in States
      BY DEF States
    <3> QED BY <2>2, <3>1 DEF AdoptedItem, OptedOutItem, ItemInv
  <2> QED BY <2>1, <2>2 DEF Init
<1>2. RunsInv
  <2>1. runs = << >>
    BY DEF Init
  <2>2. runs \in Seq({})
    BY <2>1
  <2> QED BY <2>1, <2>2 DEF RunsInv, Active
<1> QED BY <1>1, <1>2 DEF IInv

\* A write is refused, or leads to a state the store knows.
LEMMA CommitKeeps ==
    ASSUME ItemInv, NEW t, NEW rec, Commit(t, rec) PROVE ItemInv'
<1>1. CASE UNCHANGED item
  BY <1>1 DEF ItemInv
<1>2. CASE /\ Allowed(item.state, Head(rec.todo).state)
           /\ item' = Patched(item, Head(rec.todo))
  <2> DEFINE p == Head(rec.todo)
  <2>1. p.state \in States
    BY <1>2 DEF ItemInv, Allowed, Successors, States, Managed, ReviewStates
  <2> HIDE DEF p
  <2>2. item' = [item EXCEPT !.state = p.state, !.substate = p.substate,
                             !.flags = (@ \cup p.add) \ p.remove]
    BY <1>2 DEF Patched, p
  <2> QED BY <2>1, <2>2 DEF ItemInv
<1> QED BY <1>1, <1>2 DEF Commit

LEMMA CommitsKeeps ==
    ASSUME ItemInv, NEW t, NEW patches, NEW stage, Commits(t, patches, stage) PROVE ItemInv'
  BY CommitKeeps DEF Commits

\* Replacing one run by another keeps the runs a sequence, and makes no
\* second active run unless the run was active before.
LEMMA SetRunKeeps ==
    ASSUME RunsInv, NEW r \in DOMAIN runs, NEW rec, SetRun(r, rec),
           "status" \in DOMAIN rec,
           rec.status \in ActiveStatuses => runs[r].status \in ActiveStatuses
    PROVE  RunsInv'
<1>1. runs' = [runs EXCEPT ![r] = rec]
  BY DEF SetRun
<1>2. PICK S : runs \in Seq(S)
  BY DEF RunsInv
<1>3. runs' \in Seq(S \cup {rec}) /\ DOMAIN runs' = DOMAIN runs
  <2>1. runs \in Seq(S \cup {rec})
    BY <1>2
  <2>2. rec \in S \cup {rec}
    OBVIOUS
  <2> QED BY <1>1, <2>1, <2>2, ExceptSeq
<1>4. \A s \in DOMAIN runs' : runs'[s] = IF s = r THEN rec ELSE runs[s]
  BY <1>1, <1>3
<1>5. Active' \subseteq Active
  BY <1>3, <1>4 DEF Active
<1> QED BY <1>3, <1>4, <1>5 DEF RunsInv

\* A new run is the only active one.
LEMMA AppendKeeps ==
    ASSUME RunsInv, NEW rec, runs' = Append(runs, rec), "status" \in DOMAIN rec, Active = {}
    PROVE  RunsInv'
<1>1. PICK S : runs \in Seq(S)
  BY DEF RunsInv
<1>2. runs' \in Seq(S \cup {rec}) /\ DOMAIN runs' = DOMAIN runs \cup {Len(runs) + 1}
  BY <1>1
<1>3. /\ \A s \in DOMAIN runs : runs'[s] = runs[s]
      /\ runs'[Len(runs) + 1] = rec
  BY <1>1
<1>4. Active' \subseteq {Len(runs) + 1}
  BY <1>2, <1>3 DEF Active
<1> QED BY <1>2, <1>3, <1>4 DEF RunsInv

LEMMA ReconcileKeeps ==
    ASSUME IInv, NEW t, Reconcile(t) PROVE IInv'
<1>1. ItemInv'
  BY DEF Reconcile, IInv, ItemInv
<1>2. CASE UNCHANGED runs
  BY <1>1, <1>2 DEF IInv, RunsInv, Active
<1>3. CASE /\ Active = {}
           /\ runs' = Append(runs, NewRun(LaunchKind(item), item.substate))
  <2>1. "status" \in DOMAIN NewRun(LaunchKind(item), item.substate)
    BY DEF NewRun
  <2> QED BY <1>1, <1>3, <2>1, AppendKeeps DEF IInv
<1> QED BY <1>2, <1>3 DEF Reconcile

\* The steps of GitHub leave the item and its runs alone.
LEMMA GitHubKeeps ==
    ASSUME IInv, GitHubStep PROVE IInv'
<1>1. UNCHANGED <<item, runs>>
  BY DEF GitHubStep, Push, CiCompletes, SuiteCompletes, ChangeLabel, Review, ClosePr, records
<1> QED BY <1>1 DEF IInv, ItemInv, RunsInv, Active

\* So do the steps of a thread that only read.
ReadingStep(t) ==
    \/ CheckSuite(t) \/ CiCompleted(t) \/ RecordRerun(t) \/ TriageFallback(t) \/ Mark(t)
    \/ \E a \in BOOLEAN : Rerun(t, a)
    \/ \E i \in DOMAIN hooks : Deliver(t, i)

LEMMA ReadingKeeps ==
    ASSUME IInv, NEW t, ReadingStep(t) PROVE IInv'
<1>1. UNCHANGED <<item, runs>>
  BY DEF ReadingStep, CheckSuite, CiCompleted, RecordRerun, TriageFallback,
         Rerun, Deliver, Mark, records
<1> QED BY <1>1 DEF IInv, ItemInv, RunsInv, Active

LEMMA MonitorKeeps ==
    ASSUME IInv, MonitorStep PROVE IInv'
<1>1. UNCHANGED <<item, runs>>
  BY DEF MonitorStep, PollItem, PollPullRequest, RecoverStuck, records
<1> QED BY <1>1 DEF IInv, ItemInv, RunsInv, Active

\* The steps of a thread that write the item.
WritingStep(t) ==
    \/ Write(t) \/ SyncAutomation(t) \/ SyncReviewLabels(t) \/ SyncLifecycle(t)
    \/ BypassSelfReview(t) \/ Finish(t) \/ ReviewWebhook(t) \/ FixNeeded(t)

LEMMA WritingKeeps ==
    ASSUME IInv, NEW t, WritingStep(t) PROVE IInv'
<1>1. UNCHANGED runs
  BY DEF WritingStep, Write, SyncAutomation, SyncReviewLabels, SyncLifecycle,
         BypassSelfReview, Finish, ReviewWebhook, FixNeeded, records
<1>2. \/ UNCHANGED item
      \/ \E rec : Commit(t, rec)
  <2>1. CASE Write(t)
    BY <2>1 DEF Write
  <2>2. CASE SyncAutomation(t)
    BY <2>2 DEF SyncAutomation, Commits
  <2>3. CASE SyncReviewLabels(t)
    BY <2>3 DEF SyncReviewLabels, Commits
  <2>4. CASE SyncLifecycle(t)
    BY <2>4 DEF SyncLifecycle, Commits
  <2>5. CASE BypassSelfReview(t)
    BY <2>5 DEF BypassSelfReview, Commits
  <2>6. CASE Finish(t)
    BY <2>6 DEF Finish, Commits
  <2>7. CASE ReviewWebhook(t)
    BY <2>7 DEF ReviewWebhook, Commits
  <2>8. CASE FixNeeded(t)
    BY <2>8 DEF FixNeeded, Commits
  <2> QED BY <2>1, <2>2, <2>3, <2>4, <2>5, <2>6, <2>7, <2>8 DEF WritingStep
<1>3. ItemInv'
  BY <1>2, CommitKeeps DEF IInv, ItemInv
<1> QED BY <1>1, <1>3 DEF IInv, RunsInv, Active

LEMMA LinkKeeps ==
    ASSUME IInv, NEW t, Link(t) PROVE IInv'
  BY DEF Link, records, IInv, ItemInv, RunsInv, Active

LEMMA RollbackKeeps ==
    ASSUME IInv, NEW t, Rollback(t) PROVE IInv'
  BY DEF Rollback, records, IInv, ItemInv, RunsInv, Active

\* Run r is replaced by rec, and is not brought back to life.
Replaced(r, rec) ==
    /\ SetRun(r, rec) /\ "status" \in DOMAIN rec
    /\ rec.status \in ActiveStatuses => runs[r].status \in ActiveStatuses

\* A run goes from queued to running to its end, and never back.
LEMMA RunKeeps ==
    ASSUME IInv, NEW r \in DOMAIN runs, RunStep(r) PROVE IInv'
<1>1. ItemInv'
  BY DEF RunStep, StartRun, Progress, Complete, EmitVerdict, Fail, IInv, ItemInv
<1>2. PICK rec : Replaced(r, rec)
  <2> USE DEF IInv, RunsInv, ActiveStatuses, Replaced
  <2>1. CASE StartRun(r)
    BY <2>1 DEF StartRun
  <2>2. ASSUME NEW type, Progress(r, type) PROVE \E rec : Replaced(r, rec)
    BY <2>2 DEF Progress, Running
  <2>3. CASE Complete(r)
    BY <2>3 DEF Complete
  <2>4. ASSUME NEW v, EmitVerdict(r, v) PROVE \E rec : Replaced(r, rec)
    BY <2>4 DEF EmitVerdict, Running
  <2>5. ASSUME NEW prefetch, Fail(r, prefetch) PROVE \E rec : Replaced(r, rec)
    BY <2>5 DEF Fail
  <2> QED BY <2>1, <2>2, <2>3, <2>4, <2>5 DEF RunStep
<1> QED BY <1>1, <1>2, SetRunKeeps DEF IInv, Replaced

\* A crash and the loss of a webhook touch neither the item nor its runs, and
\* recovery only queues what was active.
LEMMA CrashKeeps ==
    ASSUME IInv, Crash \/ \E i \in DOMAIN hooks : HookLost(i) PROVE IInv'
<1>1. UNCHANGED <<item, runs>>
  BY DEF Crash, HookLost, records
<1> QED BY <1>1 DEF IInv, ItemInv, RunsInv, Active

LEMMA RecoverKeeps ==
    ASSUME IInv, Recover PROVE IInv'
<1> DEFINE Requeued(r) == [runs[r] EXCEPT !.status = "queued", !.stage = "none"]
           After(r)    == IF r \in Active THEN Requeued(r) ELSE runs[r]
           T           == {After(r) : r \in DOMAIN runs}
<1>1. PICK S : runs \in Seq(S)
  BY DEF IInv, RunsInv
<1>2. runs' = [r \in DOMAIN runs |-> After(r)]
  BY DEF Recover
<1>3. DOMAIN runs = 1..Len(runs) /\ Len(runs) \in Nat
  BY <1>1
<1>4. runs' \in Seq(T) /\ DOMAIN runs' = DOMAIN runs
  <2>1. runs' \in [1..Len(runs) -> T]
    BY <1>2, <1>3
  <2> QED BY <2>1, <1>3, SeqDef
<1>5. ASSUME NEW r \in DOMAIN runs
      PROVE  "status" \in DOMAIN runs'[r] /\ (r \in Active' => r \in Active)
  <2>1. "status" \in DOMAIN runs[r] /\ runs'[r] = After(r)
    BY <1>2 DEF IInv, RunsInv
  <2>2. CASE r \in Active
    BY <2>1, <2>2
  <2>3. CASE r \notin Active
    BY <2>1, <2>3 DEF Active
  <2> QED BY <2>2, <2>3
<1>6. RunsInv'
  BY <1>4, <1>5 DEF IInv, RunsInv, Active
<1>7. ItemInv'
  BY DEF Recover, IInv, ItemInv
<1> QED BY <1>6, <1>7 DEF IInv

LEMMA ServerKeeps ==
    ASSUME IInv, ServerStep PROVE IInv'
<1>1. CASE Replays
  <2>1. UNCHANGED <<item, runs>>
    BY <1>1 DEF Replays, records
  <2> QED BY <2>1 DEF IInv, ItemInv, RunsInv, Active
<1> QED BY <1>1, RecoverKeeps DEF ServerStep

LEMMA StepHolds == IInv /\ [Next]_vars => IInv'
<1> SUFFICES ASSUME IInv, [Next]_vars PROVE IInv'
  OBVIOUS
<1>1. CASE UNCHANGED vars
  BY <1>1 DEF vars, records, IInv, ItemInv, RunsInv, Active
<1>2. CASE GitHubStep
  BY <1>2, GitHubKeeps
<1>3. ASSUME NEW t \in Handlers, NEW i \in DOMAIN hooks, Deliver(t, i) PROVE IInv'
  BY <1>3, ReadingKeeps DEF ReadingStep
<1>4. ASSUME NEW t \in Threads, ThreadStep(t) PROVE IInv'
  BY <1>4, ReadingKeeps, WritingKeeps, ReconcileKeeps, LinkKeeps, RollbackKeeps
  DEF ThreadStep, ReadingStep, WritingStep
<1>5. ASSUME NEW r \in DOMAIN runs, RunStep(r) PROVE IInv'
  BY <1>5, RunKeeps
<1>6. CASE MonitorStep
  BY <1>6, MonitorKeeps
<1>7. CASE Crash \/ \E i \in DOMAIN hooks : HookLost(i)
  BY <1>7, CrashKeeps
<1>8. CASE ServerStep
  BY <1>8, ServerKeeps
<1> QED BY <1>1, <1>2, <1>3, <1>4, <1>5, <1>6, <1>7, <1>8 DEF Next

\* In every reachable state the row is one the store knows, and of two
\* active runs, one is the other.
THEOREM Inductive == Spec => []IInv
  BY InitHolds, StepHolds, PTL DEF Spec

\* No two system runs of an item are queued or running at a time.
THEOREM LaunchesOne == Spec => []OneSystemRun
<1>1. IInv => OneSystemRun
  <2> SUFFICES ASSUME IInv PROVE Cardinality(Active) <= 1
    BY DEF OneSystemRun
  <2>1. CASE Active = {}
    BY <2>1, FS_EmptySet
  <2>2. CASE Active # {}
    <3>1. PICK r : r \in Active
      BY <2>2
    <3>2. \A x, y \in Active : x = y
      BY DEF IInv, RunsInv
    <3>3. Active = {r}
      BY <3>1, <3>2
    <3> QED BY <3>3, FS_Singleton
  <2> QED BY <2>1, <2>2
<1> QED BY <1>1, Inductive, PTL

\* Whatever races did to the item: every decision the reducer may take on it
\* is accepted by the store, patch after patch, and skips no gate.
THEOREM DecidesSoundly == Spec => []SoundDecisions
<1>1. IInv => SoundDecisions
  BY EveryDecisionSound DEF IInv, ItemInv, SoundDecisions
<1> QED BY <1>1, Inductive, PTL

-----------------------------------------------------------------------------
(* Types.  Beyond TypeOK: what a webhook, a run and a thread look like, that *)
(* a stage which uses the row it read has read one, and that a run knows its *)
(* commit from its start on.                                                *)

HookTypes ==
    [kind   : {"pull_request", "check_suite", "review"},
     action : {"synchronize", "labeled", "unlabeled", "merged", "closed", "completed",
               "approved", "changes_requested"},
     label  : Labels \cup {"none"}, head : Heads, labels : SUBSET Labels]
RunTypes ==
    [kind : {"self_review", "apply_review_feedback", "triage_ci", "repair_ci"},
     source : Substates, status : {"queued", "running", "completed", "failed"},
     target : Heads, head : Heads \cup {0}, stage : {"none", "started", "decided", "reported"}]
RowTypes ==
    [run : 1..RunLimit, type : {"verdict", "wait", "terminal"},
     verdict : {"none", "fix_needed", "rerun"}, head : Heads, processed : BOOLEAN]
\* The stages that use the row that the thread holds.
CurStages ==
    {"link", "automation", "labels", "lifecycle", "revived", "reconcile_revived", "finish",
     "check_suite", "success", "failure", "review", "rerun", "fix_needed"}
Stages == CurStages \cup
    {"idle", "reconcile", "mark", "rerun_event", "fallback", "rollback", "poll", "stuck", "none"}

ThreadTypes ==
    [pc : Stages, msg : {<< >>} \cup HookTypes \cup [kind : {"checkpoint"}, row : Nat],
     cur : {<< >>} \cup Items, todo : Seq(Patches), off : BOOLEAN]

ThreadTyped(rec) ==
    /\ rec \in ThreadTypes
    /\ rec.pc \in CurStages => rec.cur \in Items
    /\ rec.pc = "link" => rec.msg.head \in Heads

ThreadsTyped == DOMAIN thread = Threads /\ \A t \in Threads : ThreadTyped(thread[t])

GitHubTyped ==
    /\ pr \in [status : {"open", "merged", "closed"}, head : Heads, labels : SUBSET Labels]
    /\ ci \in [Heads -> {"pending", "success", "failure"}]
    /\ hooks \in Seq(HookTypes) /\ events \in 0..EventLimit

RunsTyped ==
    /\ runs \in Seq(RunTypes) /\ Len(runs) <= RunLimit
    /\ \A r \in DOMAIN runs : runs[r].stage # "none" => runs[r].head \in Heads

CountsTyped == reruns \in [Heads -> Nat] /\ asked \in [Heads -> Nat]

RowsTyped ==
    /\ checkpoints \in Seq(RowTypes)
    /\ server \in [at : {"up", "replay"}, crashes : 0..CrashLimit,
                   replayed : 0..Len(checkpoints)]

TInv ==
    /\ item \in Items /\ GitHubTyped /\ RunsTyped /\ CountsTyped /\ RowsTyped
    /\ ThreadsTyped

LEMMA TypedMeansTypeOK == TInv => TypeOK
<1> SUFFICES ASSUME TInv PROVE TypeOK
  OBVIOUS
<1>1. \A i \in DOMAIN checkpoints : checkpoints[i] \in RowTypes
  BY DEF TInv, RowsTyped
<1>2. \A t \in Threads :
        /\ \A i \in DOMAIN thread[t].todo : thread[t].todo[i] \in Patches
        /\ thread[t].cur = << >> \/ thread[t].cur \in Items
  BY DEF TInv, ThreadsTyped, ThreadTyped, ThreadTypes
<1> QED
  BY <1>1, <1>2 DEF TypeOK, TInv, GitHubTyped, RunsTyped, CountsTyped, RowsTyped, ThreadsTyped,
                   RowTypes

LEMMA IdleTyped == ThreadTyped(Idle)
<1>1. << >> \in Seq(Patches)
  OBVIOUS
<1> QED BY <1>1 DEF ThreadTyped, ThreadTypes, Idle, CurStages, Stages

LEMMA InitTyped == Init => TInv
<1> SUFFICES ASSUME Init PROVE TInv
  OBVIOUS
<1>1. 1 \in Heads /\ HeadLimit \in Nat /\ EventLimit \in Nat /\ RunLimit \in Nat
      /\ CrashLimit \in Nat
  BY WorkItemsAssumption DEF Heads
<1>2. AdoptedItem \in Items /\ OptedOutItem \in Items
  BY <1>1 DEF AdoptedItem, OptedOutItem, Items, States, Managed, Substates, AutoReviewSubstates,
         Flags
<1>3. GitHubTyped
  BY <1>1 DEF Init, GitHubTyped, Labels
<1>4. RunsTyped /\ CountsTyped /\ RowsTyped
  BY <1>1 DEF Init, RunsTyped, CountsTyped, RowsTyped
<1>5. ThreadsTyped
  <2> DEFINE first == [Idle EXCEPT !.pc = "reconcile"]
  <2>1. << >> \in Seq(Patches)
    OBVIOUS
  <2>2. ThreadTyped(first)
    BY <2>1 DEF ThreadTyped, ThreadTypes, Idle, CurStages, Stages
  <2> HIDE DEF first
  <2>3. PICK h \in Handlers :
          thread = [t \in Threads |-> IF t = h /\ Automated(item) THEN first ELSE Idle]
    BY DEF Init, first
  <2> QED BY <2>2, <2>3, IdleTyped DEF ThreadsTyped
<1> QED BY <1>2, <1>3, <1>4, <1>5 DEF TInv, Init

-----------------------------------------------------------------------------
\* Every record a thread goes on with, or what it leaves when it is done.
LEMMA BecomesTyped ==
    ASSUME ThreadsTyped, NEW t, NEW rec, ThreadTyped(rec), Becomes(t, rec)
    PROVE  ThreadsTyped'
<1> DEFINE mark == [Idle EXCEPT !.pc = "mark", !.msg = rec.msg]
<1>1. << >> \in Seq(Patches)
  OBVIOUS
<1>2. ThreadTyped(mark)
  BY <1>1 DEF ThreadTyped, ThreadTypes, Idle, CurStages, Stages
<1>3. PICK new : new \in {rec, mark, Idle} /\ thread' = [thread EXCEPT ![t] = new]
  BY DEF Becomes
<1>4. ThreadTyped(new)
  BY <1>2, <1>3, IdleTyped
<1> HIDE DEF mark
<1> QED BY <1>3, <1>4 DEF ThreadsTyped

\* A thread that goes on at another stage, with patches to write.
Staged(rec, patches, pc) == [rec EXCEPT !.todo = patches, !.pc = pc]

LEMMA StagedTyped ==
    ASSUME NEW rec, ThreadTyped(rec), NEW patches \in Seq(Patches), NEW pc \in Stages,
           pc # "link", pc \in CurStages => rec.pc \in CurStages
    PROVE  ThreadTyped(Staged(rec, patches, pc))
  BY DEF ThreadTyped, ThreadTypes, Staged

LEMMA GoesTyped ==
    ASSUME ThreadsTyped, NEW t \in Threads, NEW pc \in Stages, pc # "link",
           pc \in CurStages => thread[t].pc \in CurStages, Goes(t, pc)
    PROVE  ThreadsTyped'
<1>1. ThreadTyped([thread[t] EXCEPT !.pc = pc])
  BY DEF ThreadsTyped, ThreadTyped, ThreadTypes
<1> QED BY <1>1, BecomesTyped DEF Goes

LEMMA WritesTyped ==
    ASSUME ThreadsTyped, NEW t \in Threads, NEW patches \in Seq(Patches), NEW pc \in Stages,
           pc # "link", pc \in CurStages => thread[t].pc \in CurStages, Writes(t, patches, pc)
    PROVE  ThreadsTyped'
<1>1. ThreadTyped(Staged(thread[t], patches, pc))
  BY StagedTyped DEF ThreadsTyped
<1> QED BY <1>1, BecomesTyped DEF Writes, Staged

\* A write leads to a row, and the thread holds the row it wrote.
LEMMA CommitTyped ==
    ASSUME item \in Items, ThreadsTyped, NEW t, NEW rec, ThreadTyped(rec), Commit(t, rec)
    PROVE  item' \in Items /\ ThreadsTyped'
<1>1. CASE rec.todo = << >>
  BY <1>1, BecomesTyped DEF Commit
<1>2. CASE rec.todo # << >>
  <2> DEFINE p == Head(rec.todo)
  <2>1. rec.todo \in Seq(Patches) /\ p \in Patches /\ Tail(rec.todo) \in Seq(Patches)
    BY <1>2 DEF ThreadTyped, ThreadTypes
  <2>2. CASE Allowed(item.state, p.state)
    <3>1. /\ item' = Patched(item, p)
          /\ Becomes(t, [rec EXCEPT !.todo = Tail(@), !.cur = item'])
      BY <1>2, <2>2 DEF Commit
    <3>2. item' \in Items
      BY <2>1, <3>1 DEF Patched, Patches, Items
    <3>3. ThreadTyped([rec EXCEPT !.todo = Tail(@), !.cur = item'])
      BY <2>1, <3>2 DEF ThreadTyped, ThreadTypes
    <3> QED BY <3>1, <3>2, <3>3, BecomesTyped
  <2>3. CASE ~Allowed(item.state, p.state)
    <3>1. /\ UNCHANGED item
          /\ \E new \in {[rec EXCEPT !.todo = << >>, !.pc = "stuck"], Idle} : Becomes(t, new)
      BY <1>2, <2>3 DEF Commit
    <3>2. ThreadTyped([rec EXCEPT !.todo = << >>, !.pc = "stuck"])
      <4>1. << >> \in Seq(Patches)
        OBVIOUS
      <4> QED BY <4>1 DEF ThreadTyped, ThreadTypes, CurStages, Stages
    <3> QED BY <3>1, <3>2, IdleTyped, BecomesTyped
  <2> QED BY <2>2, <2>3
<1> QED BY <1>1, <1>2

LEMMA CommitsTyped ==
    ASSUME item \in Items, ThreadsTyped, NEW t \in Threads, NEW patches \in Seq(Patches),
           NEW pc \in Stages, pc # "link", pc \in CurStages => thread[t].pc \in CurStages,
           Commits(t, patches, pc)
    PROVE  item' \in Items /\ ThreadsTyped'
<1>1. ThreadTyped(Staged(thread[t], patches, pc))
  BY StagedTyped DEF ThreadsTyped
<1> QED BY <1>1, CommitTyped DEF Commits, Staged

-----------------------------------------------------------------------------
\* A webhook that is taken off the list leaves a list of webhooks.
LEMMA RemovedTyped ==
    ASSUME NEW S, NEW s \in Seq(S), NEW i \in DOMAIN s
    PROVE  RemoveAt(s, i) \in Seq(S)
<1>1. DOMAIN s = 1..Len(s) /\ Len(s) \in Nat
  OBVIOUS
<1>2. /\ SubSeq(s, 1, i - 1) \in Seq(S)
      /\ SubSeq(s, i + 1, Len(s)) \in Seq(S)
  BY <1>1
<1> QED BY <1>2 DEF RemoveAt

LEMMA NoPatches == << >> \in Seq(Patches)
  OBVIOUS

LEMMA PushTyped ==
    ASSUME TInv, Push PROVE GitHubTyped'
<1> USE DEF TInv, GitHubTyped
<1>1. pr.head + 1 \in Heads
  <2>1. pr.head \in Nat /\ pr.head >= 1 /\ pr.head < HeadLimit /\ HeadLimit \in Nat
    BY WorkItemsAssumption DEF Push, Heads
  <2> QED BY <2>1 DEF Heads
<1>2. pr' \in [status : {"open", "merged", "closed"}, head : Heads, labels : SUBSET Labels]
  BY <1>1 DEF Push
<1>3. Hook("pull_request", "synchronize", "none") \in HookTypes
  BY <1>2 DEF Hook, HookTypes
<1> QED BY <1>2, <1>3 DEF Push

LEMMA GitHubTypedStep ==
    ASSUME TInv, GitHubStep PROVE GitHubTyped'
<1> USE DEF TInv, GitHubTyped
<1>1. ASSUME NEW h \in Heads PROVE CheckSuiteHook(h) \in HookTypes
  BY DEF CheckSuiteHook, HookTypes, Labels
<1>2. ASSUME NEW what, May(what) PROVE events + 1 \in 0..EventLimit
  BY <1>2, WorkItemsAssumption DEF May
<1>3. ASSUME NEW h \in Heads, NEW c \in {"success", "failure"}, CiCompletes(h, c)
      PROVE  GitHubTyped'
  BY <1>1, <1>3 DEF CiCompletes
<1>4. ASSUME NEW h \in Heads, SuiteCompletes(h) PROVE GitHubTyped'
  BY <1>1, <1>2, <1>4 DEF SuiteCompletes
<1>5. ASSUME NEW l \in Labels, ChangeLabel(l) PROVE GitHubTyped'
  <2>1. pr' \in [status : {"open", "merged", "closed"}, head : Heads, labels : SUBSET Labels]
    BY <1>5 DEF ChangeLabel
  <2>2. \A a \in {"labeled", "unlabeled"} : Hook("pull_request", a, l) \in HookTypes
    BY <2>1 DEF Hook, HookTypes
  <2> QED BY <1>2, <1>5, <2>1, <2>2 DEF ChangeLabel
<1>6. ASSUME NEW s \in {"approved", "changes_requested"}, Review(s) PROVE GitHubTyped'
  <2>1. pr' = pr /\ Hook("review", s, "none") \in HookTypes
    BY <1>6 DEF Review, Hook, HookTypes
  <2> QED BY <1>2, <1>6, <2>1 DEF Review
<1>7. ASSUME NEW s \in {"merged", "closed"}, ClosePr(s) PROVE GitHubTyped'
  <2>1. pr' \in [status : {"open", "merged", "closed"}, head : Heads, labels : SUBSET Labels]
    BY <1>7 DEF ClosePr
  <2>2. Hook("pull_request", s, "none") \in HookTypes
    BY <2>1 DEF Hook, HookTypes
  <2> QED BY <1>2, <1>7, <2>1, <2>2 DEF ClosePr
<1> QED BY <1>3, <1>4, <1>5, <1>6, <1>7, PushTyped DEF GitHubStep

LEMMA DeliverTyped ==
    ASSUME TInv, NEW t, NEW i \in DOMAIN hooks, Deliver(t, i) PROVE TInv'
<1> DEFINE rec == [pc |-> CASE hooks[i].kind = "pull_request" -> "link"
                            [] hooks[i].kind = "check_suite"  -> "check_suite"
                            [] OTHER                          -> "review",
                   msg |-> hooks[i], cur |-> item, todo |-> << >>,
                   off |-> ~Automated(item) /\ item.state # "cancelled"]
<1>1. hooks[i] \in HookTypes /\ << >> \in Seq(Patches)
  BY DEF TInv, GitHubTyped
<1>2. ThreadTyped(rec)
  BY <1>1 DEF TInv, ThreadTyped, ThreadTypes, Stages, CurStages, HookTypes
<1>3. ThreadsTyped'
  BY <1>2, BecomesTyped DEF TInv, Deliver
<1>4. hooks' \in Seq(HookTypes)
  BY RemovedTyped DEF TInv, GitHubTyped, Deliver
<1> QED BY <1>3, <1>4
        DEF TInv, GitHubTyped, RunsTyped, CountsTyped, RowsTyped, Deliver, records, counts

\* The part of TInv that a step of a thread which changes neither runs nor
\* counts nor checkpoints leaves alone.
LEMMA ThreadOnly ==
    ASSUME TInv, item' \in Items, ThreadsTyped', UNCHANGED <<github, records, server>>
    PROVE  TInv'
  BY DEF TInv, GitHubTyped, RunsTyped, CountsTyped, RowsTyped, github, records, counts

\* A decision on the row that a thread holds is a list of patches.
LEMMA DecisionOfRow ==
    ASSUME NEW row \in Items, NEW d \in Decisions(row) PROVE d.patches \in Seq(Patches)
  BY DecisionTyped DEF Items

-----------------------------------------------------------------------------
\* A webhook's handler.
HandlerStep(t) ==
    \/ Link(t) \/ SyncAutomation(t) \/ SyncReviewLabels(t) \/ SyncLifecycle(t)
    \/ BypassSelfReview(t) \/ Finish(t) \/ CheckSuite(t) \/ CiCompleted(t) \/ ReviewWebhook(t)

LEMMA LinkTyped ==
    ASSUME TInv, NEW t \in Threads, Link(t) PROVE TInv'
<1>1. ThreadTyped(thread[t]) /\ thread[t].msg.head \in Heads
  BY DEF TInv, ThreadsTyped, ThreadTyped, Link, At
<1>2. CASE thread[t].msg.head = thread[t].cur.head
  <2>1. Goes(t, "automation") /\ UNCHANGED item
    BY <1>2 DEF Link
  <2>2. ThreadsTyped'
    BY <2>1, GoesTyped DEF TInv, Stages, CurStages, Link, At
  <2> QED BY <2>1, <2>2, ThreadOnly DEF TInv, Link
<1>3. CASE thread[t].msg.head # thread[t].cur.head
  <2>1. /\ item' = [item EXCEPT !.head = thread[t].msg.head]
        /\ Becomes(t, [thread[t] EXCEPT !.pc = "automation", !.cur = item'])
    BY <1>3 DEF Link
  <2>2. item' \in Items
    BY <1>1, <2>1 DEF TInv, Items
  <2>3. ThreadTyped([thread[t] EXCEPT !.pc = "automation", !.cur = item'])
    BY <1>1, <2>2 DEF ThreadTyped, ThreadTypes, Stages, CurStages
  <2>4. ThreadsTyped'
    BY <2>1, <2>3, BecomesTyped DEF TInv
  <2> QED BY <2>2, <2>4, ThreadOnly DEF Link
<1> QED BY <1>2, <1>3

LEMMA SyncAutomationTyped ==
    ASSUME TInv, NEW t \in Threads, SyncAutomation(t) PROVE TInv'
<1> DEFINE cur == thread[t].cur
<1>1. cur \in Items
  BY DEF TInv, ThreadsTyped, ThreadTyped, SyncAutomation, At, CurStages
<1> DEFINE patch(has) == Patch(cur.state, cur.substate,
                               IF has THEN {} ELSE {"ai_assist_disabled"},
                               IF has THEN {"ai_assist_disabled"} ELSE {})
<1>2. PICK patches \in {<< >>, <<patch(TRUE)>>, <<patch(FALSE)>>},
           pc \in {"lifecycle", "labels"} : Commits(t, patches, pc)
  BY DEF SyncAutomation
<1>3. patches \in Seq(Patches)
  <2>1. \A has \in BOOLEAN : <<patch(has)>> \in Seq(Patches)
    BY <1>1, PatchTyped DEF Items, Flags
  <2> HIDE DEF patch
  <2> QED BY <1>2, <2>1, NoPatches
<1>4. item' \in Items /\ ThreadsTyped'
  BY <1>2, <1>3, CommitsTyped DEF TInv, Stages, CurStages, SyncAutomation, At
<1> QED BY <1>4, ThreadOnly DEF SyncAutomation

LEMMA SyncReviewLabelsTyped ==
    ASSUME TInv, NEW t \in Threads, SyncReviewLabels(t) PROVE TInv'
<1> DEFINE d == LabelsSynced(thread[t].cur, thread[t].msg.labels \cap ReviewFlags)
<1>1. thread[t].cur \in Items
  BY DEF TInv, ThreadsTyped, ThreadTyped, SyncReviewLabels, At, CurStages
<1>2. d.patches \in Seq(Patches)
  <2>1. d \in Decisions(thread[t].cur)
    BY DEF Decisions
  <2> QED BY <1>1, <2>1, DecisionOfRow
<1>3. item' \in Items /\ ThreadsTyped'
  BY <1>2, CommitsTyped DEF TInv, Stages, CurStages, SyncReviewLabels, At
<1> QED BY <1>3, ThreadOnly DEF SyncReviewLabels

LEMMA RevivedTyped ==
    ASSUME NEW conclusion PROVE <<RevivedPatch(conclusion)>> \in Seq(Patches)
<1>1. PICK sub \in Substates, add \in SUBSET Flags :
        RevivedPatch(conclusion) = Patch("auto_review", sub, add, {"ai_assist_disabled"})
  <2>1. /\ {} \in SUBSET Flags /\ {"ci_green"} \in SUBSET Flags
        /\ {"self_review_done"} \in SUBSET Flags
        /\ "ci_failed" \in Substates /\ "ci_green_pending_self_review" \in Substates
        /\ "pr_adopted" \in Substates /\ "waiting_ci" \in Substates
    BY DEF Substates, AutoReviewSubstates, Flags, ResetFlags
  <2>2. AdoptedItem.substate \in Substates /\ AdoptedItem.flags \in SUBSET Flags
    BY <2>1 DEF AdoptedItem
  <2> QED BY <2>1, <2>2 DEF RevivedPatch
<1>2. "auto_review" \in States /\ {"ai_assist_disabled"} \in SUBSET Flags
  BY DEF States, Managed, Flags
<1> QED BY <1>1, <1>2, PatchTyped

LEMMA SyncLifecycleTyped ==
    ASSUME TInv, NEW t \in Threads, SyncLifecycle(t) PROVE TInv'
<1>1. \/ Commits(t, <<Patch("cancelled", "none", {"ai_assist_disabled"}, {})>>, "finish")
      \/ /\ \E c : Writes(t, <<RevivedPatch(c)>>, "revived")
         /\ UNCHANGED item
      \/ Goes(t, "finish") /\ UNCHANGED item
  BY DEF SyncLifecycle
<1>2. <<Patch("cancelled", "none", {"ai_assist_disabled"}, {})>> \in Seq(Patches)
  BY PatchTyped DEF States, Substates, Flags
<1>3. item' \in Items /\ ThreadsTyped'
  <2> USE DEF TInv, Stages, CurStages, SyncLifecycle, At
  <2>1. CASE Commits(t, <<Patch("cancelled", "none", {"ai_assist_disabled"}, {})>>, "finish")
    BY <1>2, <2>1, CommitsTyped
  <2>2. ASSUME NEW c, Writes(t, <<RevivedPatch(c)>>, "revived"), UNCHANGED item
        PROVE  item' \in Items /\ ThreadsTyped'
    BY <2>2, RevivedTyped, WritesTyped
  <2>3. CASE Goes(t, "finish") /\ UNCHANGED item
    BY <2>3, GoesTyped
  <2> QED BY <1>1, <2>1, <2>2, <2>3
<1> QED BY <1>3, ThreadOnly DEF SyncLifecycle

LEMMA BypassSelfReviewTyped ==
    ASSUME TInv, NEW t \in Threads, BypassSelfReview(t) PROVE TInv'
<1>1. thread[t].cur \in Items
  BY DEF TInv, ThreadsTyped, ThreadTyped, BypassSelfReview, At, CurStages
<1>2. PICK patches \in {<< >>, CiSucceeded(thread[t].cur, FALSE).patches} :
        Commits(t, patches, "reconcile_revived")
  BY DEF BypassSelfReview
<1>3. patches \in Seq(Patches)
  <2>1. CiSucceeded(thread[t].cur, FALSE) \in Decisions(thread[t].cur)
    BY DEF Decisions
  <2>2. CiSucceeded(thread[t].cur, FALSE).patches \in Seq(Patches)
    BY <1>1, <2>1, DecisionOfRow
  <2> QED BY <1>2, <2>2, NoPatches
<1>4. item' \in Items /\ ThreadsTyped'
  BY <1>2, <1>3, CommitsTyped DEF TInv, Stages, CurStages, BypassSelfReview, At
<1> QED BY <1>4, ThreadOnly DEF BypassSelfReview

LEMMA ClosedTyped ==
    ASSUME NEW status PROVE <<Closed(status)>> \in Seq(Patches)
<1>1. /\ "done" \in States /\ "cancelled" \in States
      /\ "merged" \in Substates /\ "closed_unmerged" \in Substates
      /\ {} \in SUBSET Flags /\ {"pr_closed"} \in SUBSET Flags
  BY DEF States, Substates, Flags
<1>2. /\ <<Patch("done", "merged", {}, {})>> \in Seq(Patches)
      /\ <<Patch("cancelled", "closed_unmerged", {"pr_closed"}, {})>> \in Seq(Patches)
  BY <1>1, PatchTyped
<1> QED BY <1>2 DEF Closed

LEMMA FinishTyped ==
    ASSUME TInv, NEW t \in Threads, Finish(t) PROVE TInv'
<1>1. thread[t].cur \in Items
  BY DEF TInv, ThreadsTyped, ThreadTyped, Finish, At, CurStages
<1>2. PICK patches \in {<< >>, <<Closed(thread[t].msg.action)>>,
                        PrSynchronized(thread[t].cur).patches},
           pc \in {"idle", "reconcile"} : Commits(t, patches, pc)
  BY DEF Finish
<1>3. patches \in Seq(Patches)
  <2>1. PrSynchronized(thread[t].cur) \in Decisions(thread[t].cur)
    BY DEF Decisions
  <2>2. PrSynchronized(thread[t].cur).patches \in Seq(Patches)
    BY <1>1, <2>1, DecisionOfRow
  <2> QED BY <1>2, <2>2, NoPatches, ClosedTyped
<1>4. item' \in Items /\ ThreadsTyped'
  BY <1>2, <1>3, CommitsTyped DEF TInv, Stages, CurStages, Finish, At
<1> QED BY <1>4, ThreadOnly DEF Finish

LEMMA CheckSuiteTyped ==
    ASSUME TInv, NEW t \in Threads, CheckSuite(t) PROVE TInv'
<1>1. PICK pc \in {"idle", "pending", "success", "failure"} : Goes(t, pc) /\ pc # "pending"
  <2>1. thread[t].cur \in Items
    BY DEF TInv, ThreadsTyped, ThreadTyped, CheckSuite, At, CurStages
  <2>2. ci[thread[t].cur.head] \in {"pending", "success", "failure"}
    BY <2>1 DEF TInv, GitHubTyped, Items
  <2> QED BY <2>2 DEF CheckSuite
<1>2. ThreadsTyped'
  BY <1>1, GoesTyped DEF TInv, Stages, CurStages, CheckSuite, At
<1> QED BY <1>2, ThreadOnly DEF TInv, CheckSuite

LEMMA CiCompletedTyped ==
    ASSUME TInv, NEW t \in Threads, CiCompleted(t) PROVE TInv'
<1>1. thread[t].cur \in Items
  BY DEF TInv, ThreadsTyped, ThreadTyped, CiCompleted, At, CurStages
<1>2. PICK d \in Decisions(thread[t].cur) : Decides(t, d)
  <2>1. PICK a \in BOOLEAN : \/ Decides(t, CiSucceeded(thread[t].cur, a))
                             \/ Decides(t, CiFailed(thread[t].cur, a))
    BY DEF CiCompleted
  <2> QED BY <2>1 DEF Decisions
<1>3. d.patches \in Seq(Patches)
  BY <1>1, <1>2, DecisionOfRow
<1>4. ThreadsTyped'
  BY <1>2, <1>3, WritesTyped DEF TInv, Stages, CurStages, Decides
<1> QED BY <1>4, ThreadOnly DEF TInv, CiCompleted

LEMMA ReviewWebhookTyped ==
    ASSUME TInv, NEW t \in Threads, ReviewWebhook(t) PROVE TInv'
<1> DEFINE d == ReviewSubmitted(thread[t].cur, thread[t].msg.action = "approved")
<1>1. thread[t].cur \in Items
  BY DEF TInv, ThreadsTyped, ThreadTyped, ReviewWebhook, At, CurStages
<1>2. d.patches \in Seq(Patches)
  <2>1. d \in Decisions(thread[t].cur)
    BY DEF Decisions
  <2> QED BY <1>1, <2>1, DecisionOfRow
<1>3. PICK pc \in {"idle", "reconcile"} : Commits(t, d.patches, pc)
  BY DEF ReviewWebhook
<1>4. item' \in Items /\ ThreadsTyped'
  BY <1>2, <1>3, CommitsTyped DEF TInv, Stages, CurStages
<1> QED BY <1>4, ThreadOnly DEF ReviewWebhook

LEMMA HandlerTyped ==
    ASSUME TInv, NEW t \in Threads, HandlerStep(t) PROVE TInv'
  BY LinkTyped, SyncAutomationTyped, SyncReviewLabelsTyped, SyncLifecycleTyped,
     BypassSelfReviewTyped, FinishTyped, CheckSuiteTyped, CiCompletedTyped, ReviewWebhookTyped
  DEF HandlerStep

-----------------------------------------------------------------------------
\* Runs and their checkpoints.
LEMMA ReconcileTyped ==
    ASSUME TInv, NEW t \in Threads, Reconcile(t) PROVE TInv'
<1>1. ThreadsTyped'
  <2>1. PICK pc \in {"idle", "finish"} :
          Goes(t, pc) /\ (pc = "finish" => thread[t].pc = "reconcile_revived")
    BY DEF Reconcile
  <2> QED BY <2>1, GoesTyped DEF TInv, Stages, CurStages
<1>2. item' \in Items
  <2>1. LaunchSubstate(item) \in Substates
    BY DEF TInv, Items, LaunchSubstate, Substates, AutoReviewSubstates
  <2> QED BY <2>1 DEF TInv, Items, Reconcile, Flags, ResetFlags
<1>3. RunsTyped'
  <2>1. CASE UNCHANGED runs
    BY <2>1 DEF TInv, RunsTyped
  <2>2. CASE /\ Len(runs) < RunLimit
             /\ runs' = Append(runs, NewRun(LaunchKind(item), item.substate))
    <3> DEFINE new == NewRun(LaunchKind(item), item.substate)
    <3>1. new \in RunTypes /\ new.stage = "none"
      BY DEF TInv, Items, NewRun, RunTypes, LaunchKind
    <3> HIDE DEF new
    <3>2. /\ runs' \in Seq(RunTypes) /\ Len(runs') = Len(runs) + 1
          /\ \A r \in DOMAIN runs' : runs'[r] = IF r \in DOMAIN runs THEN runs[r] ELSE new
      BY <2>2, <3>1 DEF TInv, RunsTyped, new
    <3>3. Len(runs') <= RunLimit
      BY <2>2, <3>2, WorkItemsAssumption DEF TInv, RunsTyped
    <3> QED BY <3>1, <3>2, <3>3 DEF TInv, RunsTyped
  <2> QED BY <2>1, <2>2 DEF Reconcile
<1> QED BY <1>1, <1>2, <1>3
        DEF TInv, Reconcile, GitHubTyped, CountsTyped, RowsTyped, github, counts

LEMMA ProcessesTyped ==
    ASSUME TInv, NEW t, NEW row \in RowTypes, NEW i \in Nat, Processes(t, row, i)
    PROVE  ThreadsTyped'
<1> DEFINE start == [Idle EXCEPT !.msg = [kind |-> "checkpoint", row |-> i], !.cur = item]
<1>1. /\ item \in Items
      /\ << >> \in Seq(Patches)
      /\ ProgressReady(item).patches \in Seq(Patches)
  <2>1. ProgressReady(item) \in Decisions(item)
    BY DEF Decisions
  <2> QED BY <2>1, DecisionOfRow, NoPatches DEF TInv
<1>2. ThreadTyped([start EXCEPT !.pc = row.verdict])
  BY <1>1 DEF ThreadTyped, ThreadTypes, Idle, Stages, CurStages, RowTypes
<1>3. ThreadTyped([start EXCEPT !.todo = ProgressReady(item).patches])
  BY <1>1 DEF ThreadTyped, ThreadTypes, Idle, Stages, CurStages
<1>4. \/ Becomes(t, [start EXCEPT !.pc = row.verdict])
      \/ Becomes(t, [start EXCEPT !.todo = ProgressReady(item).patches])
  BY DEF Processes
<1> HIDE DEF start
<1> QED BY <1>2, <1>3, <1>4, BecomesTyped DEF TInv

LEMMA EmitsTyped ==
    ASSUME TInv, NEW r \in DOMAIN runs, runs[r].head \in Heads,
           NEW type \in {"verdict", "wait", "terminal"},
           NEW verdict \in {"none", "fix_needed", "rerun"}, Emits(r, type, verdict),
           UNCHANGED server
    PROVE  RowsTyped' /\ ThreadsTyped'
<1> DEFINE new == [run |-> r, type |-> type, verdict |-> verdict,
                   head |-> runs[r].head, processed |-> FALSE]
<1>1. r \in 1..RunLimit
  <2>1. DOMAIN runs = 1..Len(runs) /\ Len(runs) <= RunLimit /\ Len(runs) \in Nat
        /\ RunLimit \in Nat
    BY WorkItemsAssumption DEF TInv, RunsTyped
  <2> QED BY <2>1
<1>2. new \in RowTypes
  BY <1>1 DEF RowTypes
<1>3. CASE /\ checkpoints' = Append(checkpoints, new)
           /\ Processes(RunThread(r), Last(checkpoints'), Len(checkpoints'))
  <2> HIDE DEF new
  <2>1. /\ checkpoints' \in Seq(RowTypes) /\ Len(checkpoints') = Len(checkpoints) + 1
        /\ Len(checkpoints') \in Nat /\ checkpoints'[Len(checkpoints')] = new
        /\ Len(checkpoints) \in Nat
    BY <1>2, <1>3 DEF TInv, RowsTyped
  <2>2. Last(checkpoints') = new
    BY <2>1 DEF Last
  <2>3. ThreadsTyped'
    BY <1>2, <1>3, <2>1, <2>2, ProcessesTyped
  <2>4. RowsTyped'
    BY <2>1 DEF TInv, RowsTyped
  <2> QED BY <2>3, <2>4
<1>4. ASSUME NEW i \in Rows(r, type), UNCHANGED checkpoints,
             UNCHANGED thread \/ Processes(RunThread(r), checkpoints[i], i)
      PROVE  RowsTyped' /\ ThreadsTyped'
  <2>1. checkpoints[i] \in RowTypes /\ i \in Nat
    BY <1>4 DEF TInv, RowsTyped, Rows
  <2>2. ThreadsTyped'
    <3>1. CASE UNCHANGED thread
      BY <3>1 DEF TInv, ThreadsTyped
    <3>2. CASE Processes(RunThread(r), checkpoints[i], i)
      BY <2>1, <3>2, ProcessesTyped
    <3> QED BY <1>4, <3>1, <3>2
  <2> QED BY <1>4, <2>2 DEF TInv, RowsTyped
<1> QED BY <1>3, <1>4 DEF Emits

\* A run that is replaced by another record of a run.
LEMMA SetRunTyped ==
    ASSUME RunsTyped, NEW r \in DOMAIN runs, NEW rec \in RunTypes, SetRun(r, rec),
           rec.stage # "none" => rec.head \in Heads
    PROVE  RunsTyped'
<1>1. /\ runs' \in Seq(RunTypes) /\ DOMAIN runs' = DOMAIN runs /\ Len(runs') = Len(runs)
  BY ExceptSeq DEF RunsTyped, SetRun
<1>2. \A s \in DOMAIN runs' : runs'[s] = IF s = r THEN rec ELSE runs[s]
  BY <1>1 DEF SetRun
<1> QED BY <1>1, <1>2 DEF RunsTyped

\* What every run of the list is.
LEMMA RunTyped ==
    ASSUME RunsTyped, NEW r \in DOMAIN runs
    PROVE  runs[r] \in RunTypes /\ (runs[r].stage # "none" => runs[r].head \in Heads)
  BY DEF RunsTyped

LEMMA StartRunTyped ==
    ASSUME TInv, NEW r \in DOMAIN runs, StartRun(r) PROVE TInv'
<1> DEFINE rec == [runs[r] EXCEPT !.status = "running", !.head = pr.head, !.stage = "started"]
<1>1. rec \in RunTypes /\ rec.head \in Heads
  BY RunTyped DEF TInv, GitHubTyped, RunTypes
<1> HIDE DEF rec
<1>2. RunsTyped'
  BY <1>1, SetRunTyped DEF TInv, StartRun, rec
<1> QED BY <1>2
        DEF TInv, StartRun, GitHubTyped, CountsTyped, RowsTyped, ThreadsTyped, github, counts

LEMMA CompleteTyped ==
    ASSUME TInv, NEW r \in DOMAIN runs, Complete(r) PROVE TInv'
<1> DEFINE rec == [runs[r] EXCEPT !.status = "completed"]
<1>1. rec \in RunTypes /\ (rec.stage # "none" => rec.head \in Heads)
  BY RunTyped DEF TInv, RunTypes
<1> HIDE DEF rec
<1>2. RunsTyped'
  BY <1>1, SetRunTyped DEF TInv, Complete, rec
<1> QED BY <1>2
        DEF TInv, Complete, GitHubTyped, CountsTyped, RowsTyped, ThreadsTyped, github, counts

LEMMA EmitVerdictTyped ==
    ASSUME TInv, NEW r \in DOMAIN runs, NEW v \in {"fix_needed", "rerun"}, EmitVerdict(r, v)
    PROVE  TInv'
<1> DEFINE rec == [runs[r] EXCEPT !.stage = "decided"]
<1>1. rec \in RunTypes /\ rec.head \in Heads /\ runs[r].head \in Heads
  BY RunTyped DEF TInv, RunTypes, EmitVerdict, Running
<1> HIDE DEF rec
<1>2. RunsTyped'
  BY <1>1, SetRunTyped DEF TInv, EmitVerdict, rec
<1>3. RowsTyped' /\ ThreadsTyped'
  BY <1>1, EmitsTyped DEF EmitVerdict
<1> QED BY <1>2, <1>3 DEF TInv, EmitVerdict, GitHubTyped, CountsTyped, github, counts

LEMMA ProgressTyped ==
    ASSUME TInv, NEW r \in DOMAIN runs, NEW type \in {"wait", "terminal"}, Progress(r, type)
    PROVE  TInv'
<1> DEFINE rec == [runs[r] EXCEPT !.stage = "reported"]
<1>1. rec \in RunTypes /\ rec.head \in Heads /\ runs[r].head \in Heads
  BY RunTyped DEF TInv, RunTypes, Progress, Running
<1> HIDE DEF rec
<1>2. RunsTyped'
  BY <1>1, SetRunTyped DEF TInv, Progress, rec
<1>3. RowsTyped' /\ ThreadsTyped'
  <2>1. CASE UNCHANGED <<checkpoints, thread>>
    BY <2>1 DEF TInv, RowsTyped, ThreadsTyped, Progress
  <2>2. CASE Emits(r, type, "none")
    BY <1>1, <2>2, EmitsTyped DEF Progress
  <2> QED BY <2>1, <2>2 DEF Progress
<1> QED BY <1>2, <1>3 DEF TInv, Progress, GitHubTyped, CountsTyped, github, counts

LEMMA FailTyped ==
    ASSUME TInv, NEW r \in DOMAIN runs, NEW prefetch, Fail(r, prefetch) PROVE TInv'
<1> DEFINE rec == [runs[r] EXCEPT !.status = "failed"]
<1>1. rec \in RunTypes /\ (rec.stage # "none" => rec.head \in Heads)
  BY RunTyped DEF TInv, RunTypes
<1> HIDE DEF rec
<1>2. RunsTyped'
  BY <1>1, SetRunTyped DEF TInv, Fail, rec
<1>3. ThreadsTyped'
  <2>1. PICK pc \in {"fallback", "rollback", "idle"} :
          Becomes(RunThread(r), [Idle EXCEPT !.pc = pc])
    BY DEF Fail
  <2>2. ThreadTyped([Idle EXCEPT !.pc = pc])
    BY NoPatches DEF ThreadTyped, ThreadTypes, Idle, Stages, CurStages
  <2> QED BY <2>1, <2>2, BecomesTyped DEF TInv
<1> QED BY <1>2, <1>3 DEF TInv, Fail, GitHubTyped, CountsTyped, RowsTyped, github, counts

LEMMA RunStepTyped ==
    ASSUME TInv, NEW r \in DOMAIN runs, RunStep(r) PROVE TInv'
  BY StartRunTyped, CompleteTyped, EmitVerdictTyped, ProgressTyped, FailTyped DEF RunStep

-----------------------------------------------------------------------------
\* What the thread of a run, or of the startup, does with a checkpoint.
CheckpointStep(t) ==
    \/ Write(t) \/ FixNeeded(t) \/ RecordRerun(t) \/ TriageFallback(t) \/ Rollback(t) \/ Mark(t)
    \/ \E a \in BOOLEAN : Rerun(t, a)

LEMMA WriteTyped ==
    ASSUME TInv, NEW t \in Threads, Write(t) PROVE TInv'
<1>1. item' \in Items /\ ThreadsTyped'
  BY CommitTyped DEF TInv, ThreadsTyped, Write
<1> QED BY <1>1, ThreadOnly DEF Write

LEMMA FixNeededTyped ==
    ASSUME TInv, NEW t \in Threads, FixNeeded(t) PROVE TInv'
<1> DEFINE patch(remove) ==
             Patch("auto_review", "ci_failed", {"ci_triage_fix_decided"}, remove)
<1>1. PICK patches \in {<< >>, <<patch({"ci_green"})>>, <<patch({})>>} :
        Commits(t, patches, "reconcile")
  BY DEF FixNeeded
<1>2. patches \in Seq(Patches)
  <2>1. \A remove \in {{"ci_green"}, {}} : <<patch(remove)>> \in Seq(Patches)
    BY PatchTyped DEF States, Managed, Substates, AutoReviewSubstates, Flags, ResetFlags
  <2> HIDE DEF patch
  <2> QED BY <1>1, <2>1, NoPatches
<1>3. item' \in Items /\ ThreadsTyped'
  BY <1>1, <1>2, CommitsTyped DEF TInv, Stages, CurStages
<1> QED BY <1>3, ThreadOnly DEF FixNeeded

LEMMA RecordRerunTyped ==
    ASSUME TInv, NEW t \in Threads, RecordRerun(t) PROVE TInv'
<1>1. reruns' \in [Heads -> Nat]
  <2>1. reruns \in [Heads -> Nat]
    BY DEF TInv, CountsTyped
  <2> DEFINE head == checkpoints[thread[t].msg.row].head
  <2>2. reruns' = [reruns EXCEPT ![head] = @ + 1]
    BY DEF RecordRerun
  <2> HIDE DEF head
  <2>3. CASE head \in Heads
    <3>1. reruns[head] + 1 \in Nat
      BY <2>1, <2>3
    <3> QED BY <2>1, <2>2, <3>1
  <2>4. CASE head \notin Heads
    BY <2>1, <2>2, <2>4
  <2> QED BY <2>3, <2>4
<1>2. ThreadsTyped'
  BY GoesTyped DEF TInv, RecordRerun, Stages, CurStages
<1> QED BY <1>1, <1>2
        DEF TInv, RecordRerun, GitHubTyped, RunsTyped, CountsTyped, RowsTyped, github

LEMMA TriageFallbackTyped ==
    ASSUME TInv, NEW t \in Threads, TriageFallback(t) PROVE TInv'
<1>1. ThreadTyped([thread[t] EXCEPT !.pc = "fix_needed", !.cur = item])
  BY DEF TInv, ThreadsTyped, ThreadTyped, ThreadTypes, Stages, CurStages
<1>2. ThreadsTyped'
  BY <1>1, BecomesTyped DEF TInv, TriageFallback
<1> QED BY <1>2, ThreadOnly DEF TInv, TriageFallback

LEMMA RollbackTyped ==
    ASSUME TInv, NEW t \in Threads, Rollback(t) PROVE TInv'
<1>1. ThreadsTyped'
  BY GoesTyped DEF TInv, Rollback, Stages, CurStages
<1>2. item' \in Items
  <2>1. CASE UNCHANGED item
    BY <2>1 DEF TInv
  <2>2. CASE /\ t[2] \in AutoReviewRuns
             /\ item' = [item EXCEPT !.substate = runs[t[2]].source]
    <3>1. runs[t[2]].source \in Substates
      BY <2>2, RunTyped DEF TInv, AutoReviewRuns, RunTypes
    <3> QED BY <2>2, <3>1 DEF TInv, Items
  <2> QED BY <2>1, <2>2 DEF Rollback
<1> QED BY <1>1, <1>2, ThreadOnly DEF Rollback

LEMMA MarkTyped ==
    ASSUME TInv, NEW t \in Threads, Mark(t) PROVE TInv'
<1>1. ThreadsTyped'
  BY BecomesTyped, IdleTyped DEF TInv, Mark
<1> DEFINE i == thread[t].msg.row
<1>2. checkpoints' \in Seq(RowTypes) /\ Len(checkpoints') = Len(checkpoints)
  <2>1. CASE i \in DOMAIN checkpoints
    <3>1. checkpoints[i] \in RowTypes /\ checkpoints \in Seq(RowTypes)
      BY <2>1 DEF TInv, RowsTyped
    <3>2. [checkpoints[i] EXCEPT !.processed = TRUE] \in RowTypes
      BY <3>1 DEF RowTypes
    <3>3. checkpoints' = [checkpoints EXCEPT ![i] = [checkpoints[i] EXCEPT !.processed = TRUE]]
      BY DEF Mark
    <3> QED BY <2>1, <3>1, <3>2, <3>3, ExceptSeq
  <2>2. CASE i \notin DOMAIN checkpoints
    <3>1. checkpoints' = checkpoints
      BY <2>2 DEF Mark, TInv, RowsTyped
    <3> QED BY <3>1 DEF TInv, RowsTyped
  <2> QED BY <2>1, <2>2
<1> QED BY <1>1, <1>2
        DEF TInv, Mark, GitHubTyped, RunsTyped, CountsTyped, RowsTyped, github, counts

LEMMA RerunTyped ==
    ASSUME TInv, NEW t \in Threads, NEW accepted \in BOOLEAN, Rerun(t, accepted) PROVE TInv'
<1> DEFINE cur == thread[t].cur
           again == <<Patch("auto_review", "ci_rerunning", {}, {"ci_green"})>>
           unavailable == <<Patch(cur.state, cur.substate, {"ci_rerun_exhausted"}, {})>>
<1>1. cur \in Items
  BY DEF TInv, ThreadsTyped, ThreadTyped, Rerun, At, CurStages
<1>2. again \in Seq(Patches) /\ unavailable \in Seq(Patches)
  BY <1>1, PatchTyped
  DEF Items, States, Managed, Substates, AutoReviewSubstates, Flags, ResetFlags
<1> HIDE DEF again, unavailable
<1>3. PICK patches \in {<< >>, again, unavailable}, pc \in {"rerun_event", "idle"} :
        Writes(t, patches, pc)
  BY DEF Rerun, again, unavailable
<1>4. ThreadsTyped'
  <2>1. patches \in Seq(Patches)
    BY <1>2, <1>3, NoPatches
  <2> QED BY <1>3, <2>1, WritesTyped DEF TInv, Stages, CurStages
<1>5. GitHubTyped'
  <2>1. ci' \in [Heads -> {"pending", "success", "failure"}]
    BY DEF TInv, GitHubTyped, Rerun
  <2> QED BY <2>1 DEF TInv, GitHubTyped, Rerun
<1>6. CountsTyped'
  <2> DEFINE head == checkpoints[thread[t].msg.row].head
  <2>1. asked' = asked \/ asked' = [asked EXCEPT ![head] = @ + 1]
    BY DEF Rerun
  <2> HIDE DEF head
  <2>2. asked' \in [Heads -> Nat] /\ UNCHANGED reruns
    BY <2>1 DEF TInv, CountsTyped, Rerun
  <2> QED BY <2>2 DEF TInv, CountsTyped
<1> QED BY <1>4, <1>5, <1>6 DEF TInv, Rerun, RunsTyped, RowsTyped

LEMMA CheckpointTyped ==
    ASSUME TInv, NEW t \in Threads, CheckpointStep(t) PROVE TInv'
  BY WriteTyped, FixNeededTyped, RecordRerunTyped, TriageFallbackTyped, RollbackTyped,
     MarkTyped, RerunTyped
  DEF CheckpointStep

-----------------------------------------------------------------------------
\* The monitor, and the server that goes down and comes up.
LEMMA MonitorTyped ==
    ASSUME TInv, MonitorStep PROVE TInv'
<1>1. Monitor \in Threads
  BY DEF Threads
<1>2. ThreadsTyped'
  <2>1. CASE PollItem
    <3>1. ThreadTyped([Idle EXCEPT !.pc = "poll", !.cur = item])
      BY NoPatches DEF TInv, ThreadTyped, ThreadTypes, Idle, Stages, CurStages
    <3> QED BY <2>1, <3>1, BecomesTyped DEF TInv, PollItem
  <2>2. CASE PollPullRequest
    <3> DEFINE back == <<Patch("auto_review", "pr_adopted", {}, {"ai_assist_disabled"})>>
    <3>1. back \in Seq(Patches)
      BY PatchTyped DEF States, Managed, Substates, AutoReviewSubstates, Flags
    <3> HIDE DEF back
    <3>2. \/ \E status : Writes(Monitor, <<Closed(status)>>, "idle")
          \/ Writes(Monitor, back, "reconcile")
          \/ \E pc \in {"idle", "stuck"} : Goes(Monitor, pc)
      BY <2>2 DEF PollPullRequest, back
    <3> QED BY <1>1, <3>1, <3>2, ClosedTyped, WritesTyped, GoesTyped DEF TInv, Stages, CurStages
  <2>3. CASE RecoverStuck
    <3>1. PICK pc \in {"idle", "reconcile"} : Goes(Monitor, pc)
      BY <2>3 DEF RecoverStuck
    <3> QED BY <1>1, <3>1, GoesTyped DEF TInv, Stages, CurStages
  <2> QED BY <2>1, <2>2, <2>3 DEF MonitorStep
<1>3. item' = item /\ UNCHANGED <<github, records, server>>
  BY DEF MonitorStep, PollItem, PollPullRequest, RecoverStuck
<1> QED BY <1>2, <1>3, ThreadOnly DEF TInv

LEMMA CrashTyped ==
    ASSUME TInv, Crash PROVE TInv'
<1>1. ThreadsTyped'
  BY IdleTyped DEF Crash, ThreadsTyped
<1>2. RowsTyped'
  <2>1. server.crashes + 1 \in 0..CrashLimit
    BY WorkItemsAssumption DEF TInv, RowsTyped, Crash
  <2>2. Len(checkpoints) \in Nat
    BY DEF TInv, RowsTyped
  <2> QED BY <2>1, <2>2 DEF TInv, RowsTyped, Crash, records
<1> QED BY <1>1, <1>2
        DEF TInv, Crash, GitHubTyped, RunsTyped, CountsTyped, github, records, counts

LEMMA HookLostTyped ==
    ASSUME TInv, NEW i \in DOMAIN hooks, HookLost(i) PROVE TInv'
<1>1. hooks' \in Seq(HookTypes)
  BY RemovedTyped DEF TInv, GitHubTyped, HookLost
<1> QED BY <1>1
        DEF TInv, HookLost, GitHubTyped, RunsTyped, CountsTyped, RowsTyped, ThreadsTyped,
            records, counts

LEMMA ReplaysTyped ==
    ASSUME TInv, Replays PROVE TInv'
<1>1. PICK i \in Unprocessed :
        server' = [server EXCEPT !.replayed = i] /\ Processes(Startup, checkpoints[i], i)
  BY DEF Replays
<1>2. checkpoints[i] \in RowTypes /\ i \in Nat /\ i \in 0..Len(checkpoints)
  BY <1>1 DEF TInv, RowsTyped, Unprocessed
<1>3. ThreadsTyped'
  BY <1>1, <1>2, ProcessesTyped
<1>4. RowsTyped'
  BY <1>1, <1>2 DEF TInv, RowsTyped, Replays, records
<1> QED BY <1>3, <1>4
        DEF TInv, Replays, GitHubTyped, RunsTyped, CountsTyped, github, records, counts

LEMMA RecoverTyped ==
    ASSUME TInv, Recover PROVE TInv'
<1> DEFINE After(r) == IF r \in Active
                         THEN [runs[r] EXCEPT !.status = "queued", !.stage = "none"]
                         ELSE runs[r]
<1>1. DOMAIN runs = 1..Len(runs) /\ Len(runs) \in Nat /\ Len(runs) <= RunLimit
  BY DEF TInv, RunsTyped
<1>2. \A r \in DOMAIN runs :
        After(r) \in RunTypes /\ (After(r).stage # "none" => After(r).head \in Heads)
  BY RunTyped DEF TInv, RunTypes
<1>3. runs' = [r \in DOMAIN runs |-> After(r)]
  BY DEF Recover
<1> HIDE DEF After
<1>4. runs' \in Seq(RunTypes) /\ Len(runs') = Len(runs) /\ DOMAIN runs' = DOMAIN runs
  <2>1. runs' \in [1..Len(runs) -> RunTypes]
    BY <1>1, <1>2, <1>3
  <2> QED BY <1>1, <2>1, SeqDef, LenProperties
<1>5. RunsTyped'
  BY <1>1, <1>2, <1>3, <1>4 DEF RunsTyped
<1>6. RowsTyped'
  <2>1. Len(checkpoints) \in Nat
    BY DEF TInv, RowsTyped
  <2>2. /\ server' = [server EXCEPT !.at = "up", !.replayed = 0]
        /\ UNCHANGED checkpoints
    BY DEF Recover
  <2>3. server' \in [at : {"up", "replay"}, crashes : 0..CrashLimit,
                      replayed : 0..Len(checkpoints)]
    <3>1. server \in [at : {"up", "replay"}, crashes : 0..CrashLimit,
                      replayed : 0..Len(checkpoints)]
      BY DEF TInv, RowsTyped
    <3>2. 0 \in 0..Len(checkpoints)
      BY <2>1
    <3> QED BY <2>2, <3>1, <3>2
  <2> QED BY <2>2, <2>3 DEF TInv, RowsTyped
<1> QED BY <1>5, <1>6
        DEF TInv, Recover, GitHubTyped, CountsTyped, ThreadsTyped, github, counts

LEMMA StepTyped == TInv /\ [Next]_vars => TInv'
<1> SUFFICES ASSUME TInv, [Next]_vars PROVE TInv'
  OBVIOUS
<1>1. CASE UNCHANGED vars
  BY <1>1 DEF vars, github, records, counts, TInv, GitHubTyped, RunsTyped, CountsTyped,
              RowsTyped, ThreadsTyped
<1>2. CASE GitHubStep
  <2>1. UNCHANGED <<item, records, server, thread>>
    BY <1>2 DEF GitHubStep, Push, CiCompletes, SuiteCompletes, ChangeLabel, Review, ClosePr
  <2> QED BY <1>2, <2>1, GitHubTypedStep
          DEF TInv, RunsTyped, CountsTyped, RowsTyped, ThreadsTyped, records, counts
<1>3. ASSUME NEW t \in Handlers, NEW i \in DOMAIN hooks, Deliver(t, i) PROVE TInv'
  BY <1>3, DeliverTyped
<1>4. ASSUME NEW t \in Threads, ThreadStep(t) PROVE TInv'
  BY <1>4, HandlerTyped, CheckpointTyped, ReconcileTyped
  DEF ThreadStep, HandlerStep, CheckpointStep
<1>5. ASSUME NEW r \in DOMAIN runs, RunStep(r) PROVE TInv'
  BY <1>5, RunStepTyped
<1>6. CASE MonitorStep
  BY <1>6, MonitorTyped
<1>7. CASE Crash \/ \E i \in DOMAIN hooks : HookLost(i)
  BY <1>7, CrashTyped, HookLostTyped
<1>8. CASE ServerStep
  BY <1>8, ReplaysTyped, RecoverTyped DEF ServerStep
<1> QED BY <1>1, <1>2, <1>3, <1>4, <1>5, <1>6, <1>7, <1>8 DEF Next

\* Whatever interleaves, arrives late, is lost or crashes: the item, every
\* run, checkpoint, webhook and thread is one that the program can have.
THEOREM Typed == Spec => []TInv
  BY InitTyped, StepTyped, PTL DEF Spec

THEOREM WorkItemsTypeOK == Spec => []TypeOK
  BY Typed, TypedMeansTypeOK, PTL

-----------------------------------------------------------------------------
(* One thread at a time (Overlap = 1): every handler finishes what it does  *)
(* before the next one starts, whatever order the webhooks come in and      *)
(* wherever the server crashes.  Then the row that a thread read is the     *)
(* item, and what it still has to write goes with the item as it is.        *)

\* The stages that decide from the row that the thread holds, or pass it on.
HeldStages ==
    {"link", "automation", "labels", "lifecycle", "revived", "check_suite", "success",
     "failure", "review", "rerun"}

OneBusy ==
    /\ \A t, u \in Busy : t = u
    /\ server.at # "up" => Busy \subseteq {Startup}

Held(row, rec) ==
    /\ Climbs(row, rec.todo)
    /\ rec.pc \in HeldStages => rec.cur = row

SerialInv ==
    /\ TInv /\ OneBusy /\ Green(item)
    /\ \A t \in Threads : Held(item, thread[t])

\* A step into a later review has its approvals.
Approved == Passes(item.state, item'.state, item'.flags)

LEMMA NothingClimbs == ASSUME NEW row PROVE Climbs(row, << >>)
  BY DEF Climbs

LEMMA IdleHeld == Held(item, Idle) /\ Held(item', Idle)
  BY NothingClimbs DEF Held, Idle, HeldStages

\* A patch that does not lead behind auto_review needs nothing.
LEMMA BackClimbs ==
    ASSUME NEW row, NEW s, s \notin ReviewStates, NEW sub, NEW add, NEW remove
    PROVE  Climbs(row, <<Patch(s, sub, add, remove)>>)
<1> DEFINE patches == <<Patch(s, sub, add, remove)>>
<1>1. DOMAIN patches = {1} /\ patches[1].state = s
  BY DEF Patch
<1> HIDE DEF patches
<1>2. Climbs(row, patches)
  BY <1>1 DEF Climbs, Passes, Late, ReviewStates
<1> QED BY <1>2 DEF patches

\* Nor does one that stays where the item is and leaves its CI alone.
LEMMA StayClimbs ==
    ASSUME NEW row, NEW sub, NEW add, NEW remove, "ci_green" \notin remove
    PROVE  Climbs(row, <<Patch(row.state, sub, add, remove)>>)
<1> DEFINE patches == <<Patch(row.state, sub, add, remove)>>
<1>1. DOMAIN patches = {1} /\ patches[1] = Patch(row.state, sub, add, remove)
  OBVIOUS
<1> HIDE DEF patches
<1>2. Climbs(row, patches)
  BY <1>1 DEF Climbs, Passes, Green, Patch
<1> QED BY <1>2 DEF patches

LEMMA DecisionClimbs ==
    ASSUME NEW row \in Items, NEW d \in Decisions(row) PROVE Climbs(row, d.patches)
  BY EveryDecisionClimbs DEF Items

\* Writing the first patch of a list that climbs leaves one that does, and
\* the approvals and the green CI are there.
LEMMA PatchedClimbs ==
    ASSUME NEW row \in Items, NEW patches \in Seq(Patches), patches # << >>,
           Climbs(row, patches), Green(row)
    PROVE  LET next == Patched(row, Head(patches))
           IN  /\ Climbs(next, Tail(patches)) /\ Green(next)
               /\ Passes(row.state, next.state, next.flags)
<1> DEFINE p     == Head(patches)
           next  == Patched(row, p)
           flags == (row.flags \cup p.add) \ p.remove
           rest  == Tail(patches)
           before(i) == IF i = 1 THEN row.state ELSE patches[i - 1].state
           after(i)  == IF i = 1 THEN next.state ELSE rest[i - 1].state
<1>1. /\ p = patches[1] /\ 1 \in DOMAIN patches
      /\ \A i \in DOMAIN rest :
           i \in Nat \ {0} /\ i + 1 \in DOMAIN patches /\ rest[i] = patches[i + 1]
      /\ \A i \in DOMAIN rest : i # 1 => rest[i - 1] = patches[i]
  OBVIOUS
<1>2. next.state = p.state /\ next.flags = flags
  BY DEF Patched, Items
<1>3. \A i \in DOMAIN patches :
        /\ i # 1 => patches[i].add = {} /\ patches[i].remove = {}
        /\ Passes(before(i), patches[i].state, flags)
        /\ patches[i].state \in ReviewStates => "ci_green" \in flags
  BY <1>1 DEF Climbs
<1>4. Green(next) /\ Passes(row.state, next.state, next.flags)
  <2>1. before(1) = row.state
    OBVIOUS
  <2> HIDE DEF before, flags, next
  <2> QED BY <1>1, <1>2, <1>3, <2>1 DEF Green
<1>5. ASSUME NEW i \in DOMAIN rest
      PROVE  /\ rest[i].add = {} /\ rest[i].remove = {}
             /\ Passes(after(i), rest[i].state, flags)
             /\ rest[i].state \in ReviewStates => "ci_green" \in flags
  <2>1. i \in Nat \ {0} /\ i + 1 # 1 /\ i + 1 \in DOMAIN patches /\ rest[i] = patches[i + 1]
    BY <1>1
  <2>2. before(i + 1) = after(i)
    <3>1. before(i + 1) = patches[i].state
      BY <2>1
    <3>2. CASE i = 1
      BY <1>1, <1>2, <3>1, <3>2
    <3>3. CASE i # 1
      BY <1>1, <3>1, <3>3
    <3> QED BY <3>2, <3>3
  <2> HIDE DEF before, after, rest, flags
  <2> QED BY <1>3, <2>1, <2>2
<1>6. Climbs(next, rest)
  <2> DEFINE left == (next.flags \cup rest[1].add) \ rest[1].remove
  <2>1. \A i \in DOMAIN rest : 1 \in DOMAIN rest
    OBVIOUS
  <2>2. \A i \in DOMAIN rest : left = flags
    BY <1>2, <1>5, <2>1
  <2> HIDE DEF next, rest, flags, after, left
  <2>3. \A i \in DOMAIN rest :
          /\ i # 1 => rest[i].add = {} /\ rest[i].remove = {}
          /\ Passes(after(i), rest[i].state, left)
          /\ Green(next) /\ rest[i].state \in ReviewStates => "ci_green" \in left
    BY <1>5, <2>2
  <2> QED BY <2>3 DEF Climbs, left, after
<1> QED BY <1>4, <1>6

-----------------------------------------------------------------------------
\* The only thread that is busy, or that starts while none is, goes on.
Alone(t) == t \in Threads /\ Busy \subseteq {t}

LEMMA BusyAlone ==
    ASSUME OneBusy, NEW t \in Threads, thread[t] # Idle
    PROVE  Alone(t) /\ (server.at = "up" \/ t = Startup)
  BY DEF OneBusy, Busy, Alone

LEMMA StartsAlone ==
    ASSUME OneBusy, Overlap = 1, NEW t, MayStart(t)
    PROVE  Busy = {} /\ server.at = "up"
<1>1. CASE Busy # {}
  <2>1. PICK u : u \in Busy
    BY <1>1
  <2>2. Busy = {u}
    BY <2>1 DEF OneBusy
  <2>3. Cardinality(Busy) = 1
    BY <2>2, FS_Singleton
  <2> QED BY <2>3 DEF MayStart
<1> QED BY <1>1 DEF MayStart

LEMMA BecomesSerial ==
    ASSUME TInv, NEW t, Busy \subseteq {t}, NEW rec, Becomes(t, rec), Held(item', rec),
           server'.at = "up" \/ t = Startup
    PROVE  OneBusy' /\ \A u \in Threads : Held(item', thread'[u])
<1> DEFINE mark == [Idle EXCEPT !.pc = "mark", !.msg = rec.msg]
<1>1. PICK new : new \in {rec, mark, Idle} /\ thread' = [thread EXCEPT ![t] = new]
  BY DEF Becomes
<1>2. Held(item', mark)
  BY NothingClimbs DEF Held, Idle, HeldStages
<1>3. Held(item', new)
  BY <1>1, <1>2, IdleHeld
<1>4. \A u \in Threads : thread'[u] = IF u = t THEN new ELSE Idle
  BY <1>1 DEF TInv, ThreadsTyped, Busy
<1> HIDE DEF mark
<1>5. \A u \in Threads : Held(item', thread'[u])
  <2>1. ASSUME NEW u \in Threads PROVE Held(item', thread'[u])
    <3>1. CASE u = t
      BY <1>3, <1>4, <3>1 DEF Held
    <3>2. CASE u # t
      BY <1>4, <3>2, IdleHeld DEF Held
    <3> QED BY <3>1, <3>2
  <2> QED BY <2>1
<1>6. Busy' \subseteq {t}
  BY <1>4 DEF Busy
<1> QED BY <1>5, <1>6 DEF OneBusy

\* A commit of patches that climb: the item climbs, and the thread holds it.
LEMMA CommitSerial ==
    ASSUME TInv, Green(item), NEW t, Busy \subseteq {t}, server'.at = "up" \/ t = Startup,
           NEW rec, ThreadTyped(rec), Held(item, rec), Commit(t, rec)
    PROVE  /\ OneBusy' /\ \A u \in Threads : Held(item', thread'[u])
           /\ Green(item)' /\ Approved
<1>1. CASE rec.todo = << >>
  <2>1. Becomes(t, rec) /\ UNCHANGED item
    BY <1>1 DEF Commit
  <2>2. Held(item', rec)
    BY <2>1 DEF Held
  <2> QED BY <2>1, <2>2, BecomesSerial DEF Approved, Passes, Green
<1>2. CASE rec.todo # << >>
  <2> DEFINE p == Head(rec.todo)
             next == Patched(item, p)
             stuck == [rec EXCEPT !.todo = << >>, !.pc = "stuck"]
             written == [rec EXCEPT !.todo = Tail(@), !.cur = item']
  <2>1. rec.todo \in Seq(Patches) /\ item \in Items
    BY DEF TInv, ThreadTyped, ThreadTypes
  <2>2. CASE Allowed(item.state, p.state)
    <3>1. item' = next /\ Becomes(t, written)
      BY <1>2, <2>2 DEF Commit
    <3>2. /\ Climbs(item', Tail(rec.todo)) /\ Green(item')
          /\ Passes(item.state, item'.state, item'.flags)
      BY <1>2, <2>1, <3>1, PatchedClimbs DEF Held
    <3>3. written.todo = Tail(rec.todo) /\ written.cur = item'
      BY DEF ThreadTyped, ThreadTypes
    <3> HIDE DEF written, next
    <3>4. Held(item', written)
      BY <3>2, <3>3 DEF Held
    <3> QED BY <3>1, <3>2, <3>4, BecomesSerial DEF Approved, Green
  <2>3. CASE ~Allowed(item.state, p.state)
    <3>1. UNCHANGED item /\ \E new \in {stuck, Idle} : Becomes(t, new)
      BY <1>2, <2>3 DEF Commit
    <3>2. stuck.todo = << >> /\ stuck.pc = "stuck"
      BY DEF ThreadTyped, ThreadTypes
    <3> HIDE DEF stuck
    <3>3. Held(item', stuck)
      BY <3>2, NothingClimbs DEF Held, HeldStages
    <3> QED BY <3>1, <3>3, IdleHeld, BecomesSerial DEF Approved, Passes, Green
  <2> QED BY <2>2, <2>3
<1> QED BY <1>1, <1>2

\* What every step keeps when one thread is busy at a time.
SerialKept ==
    /\ OneBusy' /\ Green(item)' /\ Approved
    /\ \A u \in Threads : Held(item', thread'[u])

LEMMA CommitsSerial ==
    ASSUME SerialInv, NEW t \in Threads, thread[t] # Idle, UNCHANGED server,
           NEW patches \in Seq(Patches), NEW pc \in Stages, pc # "link",
           pc \in CurStages => thread[t].pc \in CurStages,
           pc \in HeldStages => thread[t].pc \in HeldStages,
           Climbs(item, patches), Commits(t, patches, pc)
    PROVE  SerialKept
<1> DEFINE rec == Staged(thread[t], patches, pc)
<1>1. ThreadTyped(thread[t]) /\ Held(item, thread[t])
  BY DEF SerialInv, TInv, ThreadsTyped
<1>2. ThreadTyped(rec)
  BY <1>1, StagedTyped
<1>3. rec.todo = patches /\ rec.pc = pc /\ rec.cur = thread[t].cur
  BY <1>1 DEF Staged, ThreadTyped, ThreadTypes
<1>4. Commit(t, rec)
  BY DEF Commits, Staged
<1> HIDE DEF rec
<1>5. Held(item, rec)
  BY <1>1, <1>3 DEF Held
<1>6. Busy \subseteq {t} /\ (server'.at = "up" \/ t = Startup)
  BY BusyAlone DEF SerialInv, Alone
<1> QED BY <1>2, <1>4, <1>5, <1>6, CommitSerial DEF SerialInv, SerialKept

\* The thread goes on, with patches to write, and the item stays.
LEMMA WritesSerial ==
    ASSUME SerialInv, NEW t \in Threads, thread[t] # Idle, UNCHANGED <<item, server>>,
           NEW patches, NEW pc, pc \in HeldStages => thread[t].pc \in HeldStages,
           Climbs(item, patches), Writes(t, patches, pc)
    PROVE  SerialKept
<1> DEFINE rec == Staged(thread[t], patches, pc)
<1>1. ThreadTyped(thread[t]) /\ Held(item, thread[t])
  BY DEF SerialInv, TInv, ThreadsTyped
<1>2. rec.todo = patches /\ rec.pc = pc /\ rec.cur = thread[t].cur
  BY <1>1 DEF Staged, ThreadTyped, ThreadTypes
<1>3. Becomes(t, rec)
  BY DEF Writes, Staged
<1> HIDE DEF rec
<1>4. Held(item', rec)
  BY <1>1, <1>2 DEF Held
<1>5. Busy \subseteq {t} /\ (server'.at = "up" \/ t = Startup)
  BY BusyAlone DEF SerialInv, Alone
<1> QED BY <1>3, <1>4, <1>5, BecomesSerial DEF SerialInv, SerialKept, Approved, Passes, Green

\* The thread goes on, and writes nothing.
LEMMA GoesSerial ==
    ASSUME SerialInv, NEW t \in Threads, thread[t] # Idle, UNCHANGED server,
           item'.state = item.state, "ci_green" \in item.flags => "ci_green" \in item'.flags,
           thread[t].todo = << >>, NEW pc,
           pc \in HeldStages => thread[t].pc \in HeldStages /\ UNCHANGED item, Goes(t, pc)
    PROVE  SerialKept
<1> DEFINE rec == [thread[t] EXCEPT !.pc = pc]
<1>1. ThreadTyped(thread[t]) /\ Held(item, thread[t])
  BY DEF SerialInv, TInv, ThreadsTyped
<1>2. rec.todo = << >> /\ rec.pc = pc /\ rec.cur = thread[t].cur
  BY <1>1 DEF ThreadTyped, ThreadTypes
<1>3. Becomes(t, rec)
  BY DEF Goes
<1> HIDE DEF rec
<1>4. Held(item', rec)
  BY <1>1, <1>2, NothingClimbs DEF Held
<1>5. Busy \subseteq {t} /\ (server'.at = "up" \/ t = Startup)
  BY BusyAlone DEF SerialInv, Alone
<1> QED BY <1>3, <1>4, <1>5, BecomesSerial DEF SerialInv, SerialKept, Approved, Passes, Green

-----------------------------------------------------------------------------
\* A thread that stands at a stage is busy; at these it holds the item.
LEMMA AtBusy ==
    ASSUME SerialInv, NEW t \in Threads, NEW pc, At(t, pc), pc # "idle"
    PROVE  /\ thread[t] # Idle /\ thread[t].todo = << >> /\ thread[t].pc = pc
           /\ pc \in HeldStages => thread[t].cur = item
  BY DEF At, Idle, SerialInv, Held

LEMMA HandlerSerial ==
    ASSUME SerialInv, NEW t \in Threads, HandlerStep(t) PROVE SerialKept
<1> DEFINE cur == thread[t].cur
<1>0. item \in Items
  BY DEF SerialInv, TInv
<1>1. CASE Link(t)
  <2>1. At(t, "link") /\ UNCHANGED server
    BY <1>1 DEF Link
  <2>2. thread[t] # Idle /\ thread[t].todo = << >> /\ thread[t].pc = "link" /\ cur = item
    BY <2>1, AtBusy DEF HeldStages
  <2>3. CASE Goes(t, "automation") /\ UNCHANGED item
    BY <2>1, <2>2, <2>3, GoesSerial DEF HeldStages
  <2>4. CASE /\ item' = [item EXCEPT !.head = thread[t].msg.head]
             /\ Becomes(t, [thread[t] EXCEPT !.pc = "automation", !.cur = item'])
    <3> DEFINE rec == [thread[t] EXCEPT !.pc = "automation", !.cur = item']
    <3>1. rec.todo = << >> /\ rec.cur = item'
      BY <2>2 DEF SerialInv, TInv, ThreadsTyped, ThreadTyped, ThreadTypes
    <3>2. item'.state = item.state /\ item'.flags = item.flags
      BY <1>0, <2>4 DEF Items
    <3> HIDE DEF rec
    <3>3. Held(item', rec)
      BY <3>1, NothingClimbs DEF Held
    <3>4. Busy \subseteq {t} /\ (server'.at = "up" \/ t = Startup)
      BY <2>1, <2>2, BusyAlone DEF SerialInv, Alone
    <3>5. Becomes(t, rec)
      BY <2>4 DEF rec
    <3> QED BY <3>2, <3>3, <3>4, <3>5, BecomesSerial
            DEF SerialInv, SerialKept, Approved, Passes, Green
  <2> QED BY <1>1, <2>3, <2>4 DEF Link
<1>2. CASE SyncAutomation(t)
  <2> DEFINE patch(has) == Patch(item.state, item.substate,
                                 IF has THEN {} ELSE {"ai_assist_disabled"},
                                 IF has THEN {"ai_assist_disabled"} ELSE {})
  <2>1. At(t, "automation") /\ UNCHANGED server
    BY <1>2 DEF SyncAutomation
  <2>2. thread[t] # Idle /\ thread[t].pc = "automation" /\ cur = item
    BY <2>1, AtBusy DEF HeldStages
  <2>3. PICK patches \in {<< >>, <<patch(TRUE)>>, <<patch(FALSE)>>},
             pc \in {"lifecycle", "labels"} : Commits(t, patches, pc)
    BY <1>2, <2>2 DEF SyncAutomation
  <2>4. \A has \in BOOLEAN : <<patch(has)>> \in Seq(Patches) /\ Climbs(item, <<patch(has)>>)
    BY <1>0, PatchTyped, StayClimbs DEF Items, Flags
  <2> HIDE DEF patch
  <2>5. patches \in Seq(Patches) /\ Climbs(item, patches)
    BY <2>3, <2>4, NoPatches, NothingClimbs
  <2> QED BY <2>1, <2>2, <2>3, <2>5, CommitsSerial DEF Stages, CurStages, HeldStages
<1>3. CASE SyncReviewLabels(t)
  <2> DEFINE d == LabelsSynced(item, thread[t].msg.labels \cap ReviewFlags)
  <2>1. At(t, "labels") /\ UNCHANGED server
    BY <1>3 DEF SyncReviewLabels
  <2>2. thread[t] # Idle /\ thread[t].pc = "labels" /\ cur = item
    BY <2>1, AtBusy DEF HeldStages
  <2>3. Commits(t, d.patches, "lifecycle")
    BY <1>3, <2>2 DEF SyncReviewLabels
  <2>4. d \in Decisions(item)
    BY DEF Decisions
  <2> HIDE DEF d
  <2>5. d.patches \in Seq(Patches) /\ Climbs(item, d.patches)
    BY <1>0, <2>4, DecisionOfRow, DecisionClimbs
  <2> QED BY <2>1, <2>2, <2>3, <2>5, CommitsSerial DEF Stages, CurStages, HeldStages
<1>4. CASE SyncLifecycle(t)
  <2> DEFINE out == <<Patch("cancelled", "none", {"ai_assist_disabled"}, {})>>
  <2>1. At(t, "lifecycle") /\ UNCHANGED server
    BY <1>4 DEF SyncLifecycle
  <2>2. thread[t] # Idle /\ thread[t].todo = << >> /\ thread[t].pc = "lifecycle"
    BY <2>1, AtBusy
  <2>3. \/ Commits(t, out, "finish")
        \/ (\E c : Writes(t, <<RevivedPatch(c)>>, "revived")) /\ UNCHANGED item
        \/ Goes(t, "finish") /\ UNCHANGED item
    BY <1>4 DEF SyncLifecycle
  <2>4. out \in Seq(Patches) /\ Climbs(item, out)
    BY PatchTyped, BackClimbs DEF States, Substates, Flags, ReviewStates
  <2>5. ASSUME NEW c PROVE Climbs(item, <<RevivedPatch(c)>>)
    <3>1. PICK sub, add : RevivedPatch(c) = Patch("auto_review", sub, add, {"ai_assist_disabled"})
      BY DEF RevivedPatch
    <3> QED BY <3>1, BackClimbs DEF ReviewStates
  <2> HIDE DEF out
  <2>6. CASE Commits(t, out, "finish")
    BY <2>1, <2>2, <2>4, <2>6, CommitsSerial DEF Stages, CurStages, HeldStages
  <2>7. ASSUME NEW c, Writes(t, <<RevivedPatch(c)>>, "revived"), UNCHANGED item
        PROVE  SerialKept
    BY <2>1, <2>2, <2>5, <2>7, WritesSerial DEF HeldStages
  <2>8. CASE Goes(t, "finish") /\ UNCHANGED item
    BY <2>1, <2>2, <2>8, GoesSerial DEF HeldStages
  <2> QED BY <2>3, <2>6, <2>7, <2>8
<1>5. CASE BypassSelfReview(t)
  <2> DEFINE d == CiSucceeded(item, FALSE)
  <2>1. At(t, "revived") /\ UNCHANGED server
    BY <1>5 DEF BypassSelfReview
  <2>2. thread[t] # Idle /\ thread[t].pc = "revived" /\ cur = item
    BY <2>1, AtBusy DEF HeldStages
  <2>3. PICK patches \in {<< >>, d.patches} : Commits(t, patches, "reconcile_revived")
    BY <1>5, <2>2 DEF BypassSelfReview
  <2>4. d \in Decisions(item)
    BY DEF Decisions
  <2> HIDE DEF d
  <2>5. patches \in Seq(Patches) /\ Climbs(item, patches)
    BY <1>0, <2>3, <2>4, NoPatches, NothingClimbs, DecisionOfRow, DecisionClimbs
  <2> QED BY <2>1, <2>2, <2>3, <2>5, CommitsSerial DEF Stages, CurStages, HeldStages
<1>6. CASE Finish(t)
  <2>1. At(t, "finish") /\ UNCHANGED server
    BY <1>6 DEF Finish
  <2>2. thread[t] # Idle /\ thread[t].pc = "finish" /\ cur \in Items
    BY <2>1, AtBusy DEF SerialInv, TInv, ThreadsTyped, ThreadTyped, CurStages
  <2>3. PICK patches \in {<< >>, <<Closed(thread[t].msg.action)>>, PrSynchronized(cur).patches},
             pc \in {"idle", "reconcile"} : Commits(t, patches, pc)
    BY <1>6 DEF Finish
  <2>4. PrSynchronized(cur).patches \in Seq(Patches)
    <3>1. PrSynchronized(cur) \in Decisions(cur)
      BY DEF Decisions
    <3> QED BY <2>2, <3>1, DecisionOfRow
  <2>5. Climbs(item, PrSynchronized(cur).patches)
    <3>1. \/ PrSynchronized(cur).patches = << >>
          \/ \E remove : PrSynchronized(cur).patches
                           = <<Patch("auto_review", "waiting_ci", {}, remove)>>
      BY DEF PrSynchronized, NoDecision, Decision
    <3> QED BY <3>1, NothingClimbs, BackClimbs DEF ReviewStates
  <2>6. Climbs(item, <<Closed(thread[t].msg.action)>>)
    BY BackClimbs DEF Closed, ReviewStates
  <2>7. patches \in Seq(Patches) /\ Climbs(item, patches)
    BY <2>3, <2>4, <2>5, <2>6, NoPatches, NothingClimbs, ClosedTyped
  <2> QED BY <2>1, <2>2, <2>3, <2>7, CommitsSerial DEF Stages, CurStages, HeldStages
<1>7. CASE CheckSuite(t)
  <2>1. At(t, "check_suite") /\ UNCHANGED <<item, server>> /\ \E pc : Goes(t, pc)
    BY <1>7 DEF CheckSuite
  <2>2. thread[t] # Idle /\ thread[t].todo = << >> /\ thread[t].pc = "check_suite"
    BY <2>1, AtBusy
  <2> QED BY <2>1, <2>2, GoesSerial DEF HeldStages
<1>8. CASE CiCompleted(t)
  <2>1. PICK pc \in {"success", "failure"} : At(t, pc)
    BY <1>8 DEF CiCompleted
  <2>2. thread[t] # Idle /\ thread[t].pc \in HeldStages /\ cur = item
    BY <2>1, AtBusy DEF HeldStages
  <2>3. UNCHANGED <<item, server>>
    BY <1>8 DEF CiCompleted
  <2>4. PICK d \in Decisions(item) : Decides(t, d)
    <3>1. PICK a \in BOOLEAN : Decides(t, CiSucceeded(item, a)) \/ Decides(t, CiFailed(item, a))
      BY <1>8, <2>2 DEF CiCompleted
    <3> QED BY <3>1 DEF Decisions
  <2>5. Climbs(item, d.patches) /\ \E next : Writes(t, d.patches, next)
    BY <1>0, <2>4, DecisionClimbs DEF Decides
  <2> QED BY <2>2, <2>3, <2>5, WritesSerial
<1>9. CASE ReviewWebhook(t)
  <2> DEFINE d == ReviewSubmitted(item, thread[t].msg.action = "approved")
  <2>1. At(t, "review") /\ UNCHANGED server
    BY <1>9 DEF ReviewWebhook
  <2>2. thread[t] # Idle /\ thread[t].pc = "review" /\ cur = item
    BY <2>1, AtBusy DEF HeldStages
  <2>3. PICK pc \in {"idle", "reconcile"} : Commits(t, d.patches, pc)
    BY <1>9, <2>2 DEF ReviewWebhook
  <2>4. d \in Decisions(item)
    BY DEF Decisions
  <2> HIDE DEF d
  <2>5. d.patches \in Seq(Patches) /\ Climbs(item, d.patches)
    BY <1>0, <2>4, DecisionOfRow, DecisionClimbs
  <2> QED BY <2>1, <2>2, <2>3, <2>5, CommitsSerial DEF Stages, CurStages, HeldStages
<1> QED BY <1>1, <1>2, <1>3, <1>4, <1>5, <1>6, <1>7, <1>8, <1>9 DEF HandlerStep

LEMMA ReconcileSerial ==
    ASSUME SerialInv, NEW t \in Threads, Reconcile(t) PROVE SerialKept
<1>1. /\ thread[t] # Idle /\ thread[t].todo = << >> /\ UNCHANGED server
  BY DEF Reconcile, Idle
<1>2. item'.state = item.state /\ ("ci_green" \in item.flags => "ci_green" \in item'.flags)
  BY DEF Reconcile, SerialInv, TInv, Items
<1>3. PICK pc \in {"idle", "finish"} : Goes(t, pc)
  BY DEF Reconcile
<1> QED BY <1>1, <1>2, <1>3, GoesSerial DEF HeldStages

\* A checkpoint is processed: by the thread of its run, or on startup.
LEMMA ProcessesSerial ==
    ASSUME SerialInv, NEW t, Busy = {}, NEW row, NEW i, Processes(t, row, i),
           UNCHANGED item, server'.at = "up" \/ t = Startup
    PROVE  SerialKept
<1> DEFINE start == [Idle EXCEPT !.msg = [kind |-> "checkpoint", row |-> i], !.cur = item]
           verdict == [start EXCEPT !.pc = row.verdict]
           ready == [start EXCEPT !.todo = ProgressReady(item).patches]
<1>1. Climbs(item, ProgressReady(item).patches)
  <2>1. ProgressReady(item) \in Decisions(item)
    BY DEF Decisions
  <2> QED BY <2>1, DecisionClimbs DEF SerialInv, TInv
<1>2. Held(item', verdict) /\ Held(item', ready)
  <2>1. verdict.todo = << >> /\ verdict.cur = item
    BY DEF Idle
  <2>2. ready.todo = ProgressReady(item).patches /\ ready.cur = item
    BY DEF Idle
  <2> HIDE DEF verdict, ready
  <2> QED BY <1>1, <2>1, <2>2, NothingClimbs DEF Held
<1>3. Becomes(t, verdict) \/ Becomes(t, ready)
  BY DEF Processes
<1> HIDE DEF verdict, ready
<1> QED BY <1>2, <1>3, BecomesSerial DEF SerialInv, SerialKept, Approved, Passes, Green

\* A thread that starts: with the item as it is, or without a row.
LEMMA StartsSerial ==
    ASSUME SerialInv, NEW t, Busy = {}, NEW rec, rec.todo = << >>,
           rec.pc \in HeldStages => rec.cur = item,
           Becomes(t, rec), UNCHANGED <<item, server>>, server.at = "up"
    PROVE  SerialKept
<1>1. Held(item', rec)
  BY NothingClimbs DEF Held
<1> QED BY <1>1, BecomesSerial DEF SerialInv, SerialKept, Approved, Passes, Green

\* What leaves the threads and the item alone.
LEMMA SerialStays ==
    ASSUME SerialInv, UNCHANGED <<item, thread>>, server'.at = server.at PROVE SerialKept
  BY DEF SerialInv, SerialKept, OneBusy, Busy, Green, Held, Approved, Passes

LEMMA EmitsSerial ==
    ASSUME SerialInv, NEW r, Busy = {}, server.at = "up", NEW type, NEW verdict,
           Emits(r, type, verdict), UNCHANGED <<item, server>>
    PROVE  SerialKept
<1>1. \/ \E row, i : Processes(RunThread(r), row, i)
      \/ UNCHANGED thread
  BY DEF Emits
<1> QED BY <1>1, ProcessesSerial, SerialStays

LEMMA RunSerial ==
    ASSUME SerialInv, Overlap = 1, NEW r \in DOMAIN runs, RunStep(r) PROVE SerialKept
<1>1. CASE StartRun(r) \/ Complete(r)
  <2>1. UNCHANGED <<item, thread, server>>
    BY <1>1 DEF StartRun, Complete
  <2> QED BY <2>1, SerialStays
<1>2. ASSUME NEW v, EmitVerdict(r, v) PROVE SerialKept
  <2>1. MayStart(RunThread(r)) /\ Emits(r, "verdict", v) /\ UNCHANGED <<item, server>>
    BY <1>2 DEF EmitVerdict, Running
  <2> QED BY <2>1, StartsAlone, EmitsSerial DEF SerialInv
<1>3. ASSUME NEW type, Progress(r, type) PROVE SerialKept
  <2>1. /\ MayStart(RunThread(r)) /\ UNCHANGED <<item, server>>
        /\ UNCHANGED thread \/ Emits(r, type, "none")
    BY <1>3 DEF Progress, Running
  <2> QED BY <2>1, StartsAlone, EmitsSerial, SerialStays DEF SerialInv
<1>4. ASSUME NEW prefetch, Fail(r, prefetch) PROVE SerialKept
  <2>1. PICK pc \in {"fallback", "rollback", "idle"} :
          Becomes(RunThread(r), [Idle EXCEPT !.pc = pc])
    BY <1>4 DEF Fail
  <2>2. MayStart(RunThread(r)) /\ UNCHANGED <<item, server>>
    BY <1>4 DEF Fail
  <2> DEFINE rec == [Idle EXCEPT !.pc = pc]
  <2>3. rec.todo = << >> /\ rec.pc \notin HeldStages
    BY DEF Idle, HeldStages
  <2> HIDE DEF rec
  <2> QED BY <2>1, <2>2, <2>3, StartsAlone, StartsSerial DEF SerialInv, rec
<1> QED BY <1>1, <1>2, <1>3, <1>4 DEF RunStep

LEMMA CheckpointSerial ==
    ASSUME SerialInv, NEW t \in Threads, CheckpointStep(t) PROVE SerialKept
<1>0. item \in Items
  BY DEF SerialInv, TInv
<1>1. CASE Write(t)
  <2>1. thread[t] # Idle /\ Commit(t, thread[t]) /\ UNCHANGED server
    BY <1>1 DEF Write, Idle
  <2>2. ThreadTyped(thread[t]) /\ Held(item, thread[t])
    BY DEF SerialInv, TInv, ThreadsTyped
  <2>3. Busy \subseteq {t} /\ (server'.at = "up" \/ t = Startup)
    BY <2>1, BusyAlone DEF SerialInv, Alone
  <2> QED BY <2>1, <2>2, <2>3, CommitSerial DEF SerialInv, SerialKept
<1>2. CASE FixNeeded(t)
  <2> DEFINE patch(remove) ==
               Patch("auto_review", "ci_failed", {"ci_triage_fix_decided"}, remove)
  <2>1. At(t, "fix_needed") /\ UNCHANGED server
    BY <1>2 DEF FixNeeded
  <2>2. thread[t] # Idle /\ thread[t].pc = "fix_needed"
    BY <2>1, AtBusy
  <2>3. PICK patches \in {<< >>, <<patch({"ci_green"})>>, <<patch({})>>} :
          Commits(t, patches, "reconcile")
    BY <1>2 DEF FixNeeded
  <2>4. \A remove \in {{"ci_green"}, {}} :
          <<patch(remove)>> \in Seq(Patches) /\ Climbs(item, <<patch(remove)>>)
    BY PatchTyped, BackClimbs
    DEF States, Managed, Substates, AutoReviewSubstates, Flags, ResetFlags, ReviewStates
  <2> HIDE DEF patch
  <2>5. patches \in Seq(Patches) /\ Climbs(item, patches)
    BY <2>3, <2>4, NoPatches, NothingClimbs
  <2> QED BY <2>1, <2>2, <2>3, <2>5, CommitsSerial DEF Stages, CurStages, HeldStages
<1>3. CASE RecordRerun(t)
  <2>1. At(t, "rerun_event") /\ Goes(t, "idle") /\ UNCHANGED <<item, server>>
    BY <1>3 DEF RecordRerun
  <2>2. thread[t] # Idle /\ thread[t].todo = << >>
    BY <2>1, AtBusy
  <2> QED BY <2>1, <2>2, GoesSerial DEF HeldStages
<1>4. CASE TriageFallback(t)
  <2> DEFINE rec == [thread[t] EXCEPT !.pc = "fix_needed", !.cur = item]
  <2>1. At(t, "fallback") /\ Becomes(t, rec) /\ UNCHANGED <<item, server>>
    BY <1>4 DEF TriageFallback
  <2>2. thread[t] # Idle /\ thread[t].todo = << >>
    BY <2>1, AtBusy
  <2>3. rec.todo = << >> /\ rec.pc = "fix_needed"
    BY <2>2 DEF SerialInv, TInv, ThreadsTyped, ThreadTyped, ThreadTypes
  <2> HIDE DEF rec
  <2>4. Held(item', rec)
    BY <2>3, NothingClimbs DEF Held, HeldStages
  <2>5. Busy \subseteq {t} /\ (server'.at = "up" \/ t = Startup)
    BY <2>1, <2>2, BusyAlone DEF SerialInv, Alone
  <2> QED BY <2>1, <2>4, <2>5, BecomesSerial
          DEF SerialInv, SerialKept, Approved, Passes, Green
<1>5. CASE Rollback(t)
  <2>1. At(t, "rollback") /\ Goes(t, "idle") /\ UNCHANGED server
    BY <1>5 DEF Rollback
  <2>2. thread[t] # Idle /\ thread[t].todo = << >>
    BY <2>1, AtBusy
  <2>3. item'.state = item.state /\ item'.flags = item.flags
    BY <1>0, <1>5 DEF Rollback, Items
  <2> QED BY <2>1, <2>2, <2>3, GoesSerial DEF HeldStages
<1>6. CASE Mark(t)
  <2>1. At(t, "mark") /\ Becomes(t, Idle) /\ UNCHANGED <<item, server>>
    BY <1>6 DEF Mark
  <2>2. thread[t] # Idle
    BY <2>1, AtBusy
  <2>3. Busy \subseteq {t} /\ (server'.at = "up" \/ t = Startup)
    BY <2>1, <2>2, BusyAlone DEF SerialInv, Alone
  <2> QED BY <2>1, <2>3, IdleHeld, BecomesSerial
          DEF SerialInv, SerialKept, Approved, Passes, Green
<1>7. ASSUME NEW a \in BOOLEAN, Rerun(t, a) PROVE SerialKept
  <2> DEFINE again == <<Patch("auto_review", "ci_rerunning", {}, {"ci_green"})>>
             unavailable == <<Patch(item.state, item.substate, {"ci_rerun_exhausted"}, {})>>
  <2>1. At(t, "rerun") /\ UNCHANGED <<item, server>>
    BY <1>7 DEF Rerun
  <2>2. thread[t] # Idle /\ thread[t].pc = "rerun" /\ thread[t].cur = item
    BY <2>1, AtBusy DEF HeldStages
  <2>3. PICK patches \in {<< >>, again, unavailable}, pc \in {"rerun_event", "idle"} :
          Writes(t, patches, pc)
    BY <1>7, <2>2 DEF Rerun
  <2>4. Climbs(item, again) /\ Climbs(item, unavailable)
    BY BackClimbs, StayClimbs DEF ReviewStates
  <2> HIDE DEF again, unavailable
  <2>5. Climbs(item, patches)
    BY <2>3, <2>4, NothingClimbs
  <2> QED BY <2>1, <2>2, <2>3, <2>5, WritesSerial DEF HeldStages
<1> QED BY <1>1, <1>2, <1>3, <1>4, <1>5, <1>6, <1>7 DEF CheckpointStep

LEMMA MonitorSerial ==
    ASSUME SerialInv, Overlap = 1, MonitorStep PROVE SerialKept
<1>0. Monitor \in Threads
  BY DEF Threads
<1>1. CASE PollItem
  <2> DEFINE rec == [Idle EXCEPT !.pc = "poll", !.cur = item]
  <2>1. Busy = {} /\ server.at = "up"
    BY <1>1, StartsAlone DEF PollItem, SerialInv
  <2>2. Becomes(Monitor, rec) /\ UNCHANGED <<item, server>>
    BY <1>1 DEF PollItem
  <2>3. rec.todo = << >> /\ rec.pc \notin HeldStages
    BY DEF Idle, HeldStages
  <2> HIDE DEF rec
  <2> QED BY <2>1, <2>2, <2>3, StartsSerial
<1>2. CASE PollPullRequest
  <2> DEFINE back == <<Patch("auto_review", "pr_adopted", {}, {"ai_assist_disabled"})>>
  <2>1. At(Monitor, "poll") /\ UNCHANGED <<item, server>>
    BY <1>2 DEF PollPullRequest
  <2>2. thread[Monitor] # Idle /\ thread[Monitor].todo = << >>
    BY <1>0, <2>1, AtBusy
  <2>3. \/ \E status : Writes(Monitor, <<Closed(status)>>, "idle")
        \/ Writes(Monitor, back, "reconcile")
        \/ \E pc \in {"idle", "stuck"} : Goes(Monitor, pc)
    BY <1>2 DEF PollPullRequest
  <2>4. Climbs(item, back) /\ \A status : Climbs(item, <<Closed(status)>>)
    BY BackClimbs DEF Closed, ReviewStates
  <2> HIDE DEF back
  <2> QED BY <1>0, <2>1, <2>2, <2>3, <2>4, WritesSerial, GoesSerial DEF HeldStages
<1>3. CASE RecoverStuck
  <2>1. At(Monitor, "stuck") /\ UNCHANGED <<item, server>>
        /\ \E pc \in {"idle", "reconcile"} : Goes(Monitor, pc)
    BY <1>3 DEF RecoverStuck
  <2>2. thread[Monitor] # Idle /\ thread[Monitor].todo = << >>
    BY <1>0, <2>1, AtBusy
  <2> QED BY <1>0, <2>1, <2>2, GoesSerial DEF HeldStages
<1> QED BY <1>1, <1>2, <1>3 DEF MonitorStep

\* The server goes down, loses webhooks, and comes up again.
LEMMA ServerSerial ==
    ASSUME SerialInv, Crash \/ (\E i \in DOMAIN hooks : HookLost(i)) \/ ServerStep
    PROVE  SerialKept
<1>1. CASE Crash
  <2>1. \A t \in Threads : thread'[t] = Idle
    BY <1>1 DEF Crash
  <2>2. Busy' = {}
    BY <2>1 DEF Busy
  <2>3. UNCHANGED item
    BY <1>1 DEF Crash
  <2> QED BY <2>1, <2>2, <2>3, IdleHeld DEF SerialInv, SerialKept, OneBusy, Approved, Passes, Green
<1>2. ASSUME NEW i, HookLost(i) PROVE SerialKept
  BY <1>2, SerialStays DEF HookLost
<1>3. CASE Replays
  <2>1. Busy = {}
    BY <1>3 DEF Replays, SerialInv, OneBusy, Busy
  <2>2. UNCHANGED item /\ \E i : Processes(Startup, checkpoints[i], i)
    BY <1>3 DEF Replays
  <2> QED BY <2>1, <2>2, ProcessesSerial
<1>4. CASE Recover
  <2>1. Busy = {}
    BY <1>4 DEF Recover, SerialInv, OneBusy, Busy
  <2>2. UNCHANGED <<item, thread>>
    BY <1>4 DEF Recover
  <2>3. Busy' = {}
    BY <2>1, <2>2 DEF Busy
  <2> QED BY <2>2, <2>3 DEF SerialInv, SerialKept, OneBusy, Held, Approved, Passes, Green
<1> QED BY <1>1, <1>2, <1>3, <1>4 DEF ServerStep

LEMMA DeliverSerial ==
    ASSUME SerialInv, Overlap = 1, NEW t, NEW i \in DOMAIN hooks, Deliver(t, i)
    PROVE  SerialKept
<1>1. Busy = {} /\ server.at = "up"
  BY StartsAlone DEF Deliver, SerialInv
<1>2. PICK pc, off : Becomes(t, [pc |-> pc, msg |-> hooks[i], cur |-> item,
                                 todo |-> << >>, off |-> off])
  BY DEF Deliver
<1>3. UNCHANGED <<item, server>>
  BY DEF Deliver
<1> QED BY <1>1, <1>2, <1>3, StartsSerial

LEMMA SerialInit == Init => SerialInv
<1> SUFFICES ASSUME Init PROVE SerialInv
  OBVIOUS
<1>1. TInv
  BY InitTyped
<1>2. item.state \notin ReviewStates
  <2>1. AdoptedItem.state = "auto_review" /\ OptedOutItem.state = "cancelled"
    BY DEF AdoptedItem, OptedOutItem
  <2> QED BY <2>1 DEF Init, ReviewStates
<1> DEFINE first == [Idle EXCEPT !.pc = "reconcile"]
<1>3. PICK h \in Handlers :
        thread = [t \in Threads |-> IF t = h /\ Automated(item) THEN first ELSE Idle]
  BY DEF Init
<1>4. Held(item, first)
  BY NothingClimbs DEF Held, Idle, HeldStages
<1> HIDE DEF first
<1>5. \A t \in Threads : Held(item, thread[t])
  BY <1>3, <1>4, IdleHeld
<1>6. OneBusy
  <2>1. Busy \subseteq {h} /\ server.at = "up"
    BY <1>3 DEF Busy, Init
  <2> QED BY <2>1 DEF OneBusy
<1> QED BY <1>1, <1>2, <1>5, <1>6 DEF SerialInv, Green

LEMMA SerialStep ==
    ASSUME Overlap = 1 PROVE SerialInv /\ [Next]_vars => SerialInv' /\ Approved
<1> SUFFICES ASSUME SerialInv, [Next]_vars PROVE SerialInv' /\ Approved
  OBVIOUS
<1>1. TInv'
  BY StepTyped DEF SerialInv
<1>2. SerialKept
  <2>1. CASE UNCHANGED vars
    BY <2>1, SerialStays DEF vars
  <2>2. CASE GitHubStep
    <3>1. UNCHANGED <<item, thread, server>>
      BY <2>2 DEF GitHubStep, Push, CiCompletes, SuiteCompletes, ChangeLabel, Review, ClosePr
    <3> QED BY <3>1, SerialStays
  <2>3. ASSUME NEW t \in Handlers, NEW i \in DOMAIN hooks, Deliver(t, i) PROVE SerialKept
    BY <2>3, DeliverSerial
  <2>4. ASSUME NEW t \in Threads, ThreadStep(t) PROVE SerialKept
    BY <2>4, HandlerSerial, CheckpointSerial, ReconcileSerial
    DEF ThreadStep, HandlerStep, CheckpointStep
  <2>5. ASSUME NEW r \in DOMAIN runs, RunStep(r) PROVE SerialKept
    BY <2>5, RunSerial
  <2>6. CASE MonitorStep
    BY <2>6, MonitorSerial
  <2>7. CASE Crash \/ (\E i \in DOMAIN hooks : HookLost(i)) \/ ServerStep
    BY <2>7, ServerSerial
  <2> QED BY <2>1, <2>2, <2>3, <2>4, <2>5, <2>6, <2>7 DEF Next
<1> QED BY <1>1, <1>2 DEF SerialInv, SerialKept, Green, Held

\* One handler at a time: the thread that is busy holds the item as it is,
\* and whatever it has still to write keeps the gates.
THEOREM Serial == ASSUME Overlap = 1 PROVE Spec => []SerialInv
<1>1. SerialInv /\ [Next]_vars => SerialInv'
  BY SerialStep
<1> QED BY <1>1, SerialInit, PTL DEF Spec

\* No item gets, or stays, behind auto_review without a green CI.
THEOREM GreenReviews == ASSUME Overlap = 1 PROVE Spec => []GreenBehindReview
<1>1. SerialInv => GreenBehindReview
  BY DEF SerialInv, Green, GreenBehindReview
<1> QED BY <1>1, Serial, PTL

\* No step takes an item into a later review, or into ready_for_merge,
\* without the approvals: not even one that writes what was decided before
\* a refused write, a crash or a replay.
THEOREM ApprovedReviews == ASSUME Overlap = 1 PROVE Spec => ApprovalsKept
<1>1. SerialInv /\ [Next]_vars
        => [ /\ item.state \notin Late /\ item'.state \in Late
                  => "engineering_review_done" \in item'.flags
             /\ item.state # "ready_for_merge" /\ item'.state = "ready_for_merge"
                  => "qa_review_done" \in item'.flags ]_vars
  BY SerialStep DEF Approved, Passes
<1> QED BY <1>1, Serial, PTL DEF Spec, ApprovalsKept
-----------------------------------------------------------------------------
(* The budget of reruns, in two settings: nothing crashes; or the server    *)
(* crashes as often as it likes, while handlers come one after the other    *)
(* and nobody closes the pull request.  (An item that is done refuses the   *)
(* patch of a rerun, so that its checkpoint stays unmarked and is processed *)
(* twice after every crash: on startup, and when the run begins again.)     *)

Undisturbed == Overlap = 1 /\ "close" \notin Happens

VerdictRows == {i \in DOMAIN checkpoints : checkpoints[i].type = "verdict"}
RerunRows == {i \in VerdictRows : checkpoints[i].verdict = "rerun"}
RunOf(i) == checkpoints[i].run

\* The thread processes the checkpoint i.
OnRow(rec, i) == rec.msg = [kind |-> "checkpoint", row |-> i]
Asking(rec) == rec.pc \in {"rerun", "rerun_event"}

\* Verdicts are given by triage runs, one by each; without a crash, no run
\* gets back to where it has not given it yet.
VerdictInv ==
    /\ \A i \in DOMAIN checkpoints : RunOf(i) \in DOMAIN runs
    /\ \A i \in VerdictRows : runs[RunOf(i)].kind = "triage_ci"
    /\ \A i, j \in VerdictRows : RunOf(i) = RunOf(j) => i = j
    /\ CrashLimit = 0 =>
         /\ server.at = "up"
         /\ \A i \in VerdictRows : /\ runs[RunOf(i)].stage \in {"decided", "reported"}
                                   /\ runs[RunOf(i)].status # "queued"

\* What a thread has left to write when it processes a rerun.
RerunTodo(row, rec) ==
    /\ rec.pc = "rerun" => rec.todo = << >>
    /\ rec.todo # << >> =>
         \E p \in Patches :
            /\ rec.todo = <<p>>
            /\ rec.pc = "rerun_event" => p.state = "auto_review"
            /\ Undisturbed => p.state \in {"auto_review", row.state}

\* A rerun is processed by the thread of its run, which is active, or on startup.
Processing(t, i) ==
    /\ t = IF server.at = "up" THEN RunThread(RunOf(i)) ELSE Startup
    /\ server.at = "up" \/ server.replayed = i
    /\ RunOf(i) \in Active
    /\ thread[t].pc \in {"rerun", "rerun_event", "idle", "mark"}
    /\ RerunTodo(item, thread[t])

ProcessInv ==
    \A t \in Threads :
      /\ \A i : OnRow(thread[t], i) => i \in DOMAIN checkpoints
      /\ \A i \in RerunRows : OnRow(thread[t], i) => Processing(t, i)
      /\ Asking(thread[t]) => \E i \in RerunRows : OnRow(thread[t], i)
      /\ thread[t].pc = "mark" => \E i \in DOMAIN checkpoints : OnRow(thread[t], i)

\* The setting with crashes: a rerun that is not marked is about to be.
MarkInv ==
    CrashLimit # 0 =>
      \A i \in RerunRows : ~checkpoints[i].processed =>
        /\ RunOf(i) \in Active
        /\ server.at = "up" => OnRow(thread[RunThread(RunOf(i))], i)
        /\ server.at # "up" => i > server.replayed \/ OnRow(thread[Startup], i)

\* Nothing ends the item while nobody closes its pull request.
PullStages == {"link", "automation", "labels", "lifecycle", "revived", "reconcile_revived", "finish"}
OpenHooks == {msg \in HookTypes : msg.action \notin {"merged", "closed"}}
AlivePatches == {p \in Patches : p.state \in Alive}
OpenRec(rec) ==
    /\ rec.pc \in PullStages => rec.msg \in OpenHooks
    /\ rec.todo \in Seq(AlivePatches)
OpenInv ==
    /\ item.state \in Alive /\ pr.status = "open" /\ hooks \in Seq(OpenHooks)
    /\ \A t \in Threads : OpenRec(thread[t])

\* GitHub was asked, and this is not recorded yet.
Recording(h) ==
    \E t \in Threads : \E i \in RerunRows :
       /\ thread[t].pc = "rerun_event" /\ OnRow(thread[t], i)
       /\ checkpoints[i].head = h /\ runs[RunOf(i)].target = h

\* Run r may still ask: it has given no verdict, or that it gave is to be processed.
MayAsk(r) ==
    \/ \A i \in VerdictRows : RunOf(i) # r
    \/ \E i \in RerunRows :
          /\ RunOf(i) = r
          /\ \/ server.at # "up" /\ i > server.replayed /\ ~checkpoints[i].processed
             \/ \E t \in Threads : thread[t].pc = "rerun" /\ OnRow(thread[t], i)

ToAsk(h) ==
    \E r \in Active : runs[r].kind = "triage_ci" /\ runs[r].target = h /\ MayAsk(r)

\* What was asked is recorded, or is about to be, or a crash came between; and
\* as long as a run may ask, there is budget left.
AskedInv ==
    \A h \in Heads :
      /\ item.state # "done" =>
           \/ asked[h] <= reruns[h] + server.crashes
           \/ Recording(h) /\ asked[h] <= reruns[h] + server.crashes + 1
      /\ asked[h] <= RerunLimit + server.crashes
      /\ ToAsk(h) => asked[h] < RerunLimit + server.crashes

OneActive == \A r, s \in Active : r = s

BudgetInv ==
    /\ TInv /\ OneActive /\ VerdictInv /\ ProcessInv /\ MarkInv /\ AskedInv
    /\ Undisturbed => SerialInv /\ OpenInv

-----------------------------------------------------------------------------
LEMMA OneRow ==
    ASSUME NEW rec, NEW i, NEW j, OnRow(rec, i), OnRow(rec, j) PROVE i = j
<1>1. [kind |-> "checkpoint", row |-> i].row = [kind |-> "checkpoint", row |-> j].row
  BY DEF OnRow
<1> QED BY <1>1

LEMMA OnRowMessage ==
    ASSUME NEW rec, NEW i, OnRow(rec, i)
    PROVE  IsCheckpoint(rec.msg) /\ rec.msg.row = i /\ rec.msg # << >>
<1>1. rec.msg.row = i /\ rec.msg.kind = "checkpoint"
  BY DEF OnRow
<1>2. DOMAIN rec.msg # {} /\ DOMAIN << >> = {}
  BY DEF OnRow
<1> QED BY <1>1, <1>2 DEF IsCheckpoint

\* The processing of reruns is one thread's at a time.
LEMMA OneProcessing ==
    ASSUME BudgetInv, NEW t \in Threads, NEW u \in Threads, NEW i \in RerunRows,
           NEW j \in RerunRows, OnRow(thread[t], i), OnRow(thread[u], j)
    PROVE  t = u /\ i = j
<1>1. Processing(t, i) /\ Processing(u, j)
  BY DEF BudgetInv, ProcessInv
<1>2. RunOf(i) = RunOf(j)
  BY <1>1 DEF BudgetInv, OneActive, Processing
<1>3. i = j
  BY <1>2 DEF BudgetInv, VerdictInv, RerunRows
<1> QED BY <1>1, <1>3 DEF Processing

\* A thread that has nothing to do with a rerun
Plain(rec) ==
    /\ ~Asking(rec)
    /\ \A i : OnRow(rec, i) => i \in DOMAIN checkpoints \ RerunRows
    /\ rec.pc = "mark" => \E i \in DOMAIN checkpoints : OnRow(rec, i)

LEMMA IdlePlain == Plain(Idle) /\ Plain(Idle)'
<1>1. \A i : ~OnRow(Idle, i)
  BY OnRowMessage DEF Idle
<1>2. \A i : ~OnRow(Idle, i)'
  BY <1>1 DEF OnRow, Idle
<1> QED BY <1>1, <1>2 DEF Plain, Asking, Idle

LEMMA StagePlain ==
    ASSUME BudgetInv, NEW t \in Threads, thread[t].pc \notin {"rerun", "rerun_event", "idle", "mark"}
    PROVE  Plain(thread[t]) /\ thread[t] # Idle
<1>1. \A i : OnRow(thread[t], i) => i \in DOMAIN checkpoints
  BY DEF BudgetInv, ProcessInv
<1>2. \A i \in RerunRows : ~OnRow(thread[t], i)
  BY DEF BudgetInv, ProcessInv, Processing
<1> QED BY <1>1, <1>2 DEF Plain, Asking, Idle

\* A step that leaves the reruns, the runs that are active and the threads
\* that process reruns alone.
RunsAside ==
    /\ DOMAIN runs \subseteq DOMAIN runs'
    /\ \A r \in DOMAIN runs : runs'[r].kind = runs[r].kind /\ runs'[r].target = runs[r].target
    /\ \A i \in RerunRows : RunOf(i) \in Active /\ RunOf(i) \notin Active' =>
          /\ \A t \in Threads : ~OnRow(thread[t], i)
          /\ CrashLimit # 0 => checkpoints[i].processed

RowsAside ==
    /\ DOMAIN checkpoints \subseteq DOMAIN checkpoints'
    /\ VerdictRows \subseteq VerdictRows' /\ RerunRows' = RerunRows
    /\ \A i \in VerdictRows : checkpoints'[i].run = checkpoints[i].run
    /\ \A i \in RerunRows : checkpoints'[i] = checkpoints[i]

ThreadsAside ==
    \A t \in Threads : thread'[t] = thread[t] \/ (Plain(thread[t]) /\ Plain(thread[t])')

ItemAside ==
    /\ item.state = "done" => item'.state = "done"
    /\ \/ item'.state = item.state
       \/ ~Undisturbed
       \/ \A t \in Threads : \A i \in RerunRows : ~OnRow(thread[t], i)

Aside == RunsAside /\ RowsAside /\ ThreadsAside /\ ItemAside /\ UNCHANGED <<counts, server>>

LEMMA AsideProcess == ASSUME BudgetInv, Aside PROVE ProcessInv' /\ MarkInv'
<1> USE DEF Aside
<1>1. ASSUME NEW t \in Threads, NEW i, OnRow(thread[t], i)' PROVE i \in DOMAIN checkpoints'
  BY <1>1 DEF ThreadsAside, Plain, RowsAside, BudgetInv, ProcessInv, OnRow
<1>2. ASSUME NEW t \in Threads, NEW i \in RerunRows, OnRow(thread[t], i)' PROVE Processing(t, i)'
  <2>1. thread'[t] = thread[t]
    BY <1>2 DEF ThreadsAside, Plain, RowsAside
  <2>2. OnRow(thread[t], i)
    BY <1>2, <2>1 DEF OnRow
  <2>3. Processing(t, i)
    BY <2>2 DEF BudgetInv, ProcessInv
  <2>4. RunOf(i)' = RunOf(i) /\ RunOf(i) \in Active'
    BY <2>2, <2>3 DEF RunsAside, RowsAside, RunOf, RerunRows, Processing
  <2>5. RerunTodo(item', thread'[t])
    BY <2>1, <2>2, <2>3 DEF ItemAside, Processing, RerunTodo
  <2> QED BY <2>1, <2>3, <2>4, <2>5 DEF Processing, RunOf, RerunTodo
<1>3. ASSUME NEW t \in Threads, Asking(thread[t])' PROVE \E i \in RerunRows : OnRow(thread[t], i)'
  <2>1. thread'[t] = thread[t]
    BY <1>3 DEF ThreadsAside, Plain, Asking
  <2> QED BY <1>3, <2>1 DEF BudgetInv, ProcessInv, OnRow, Asking
<1>4. ASSUME NEW t \in Threads, thread'[t].pc = "mark"
      PROVE  \E i \in DOMAIN checkpoints' : OnRow(thread[t], i)'
  <2>1. CASE thread'[t] = thread[t]
    BY <1>4, <2>1 DEF BudgetInv, ProcessInv, OnRow, RowsAside
  <2>2. CASE Plain(thread[t])'
    BY <1>4, <2>2 DEF Plain
  <2> QED BY <2>1, <2>2 DEF ThreadsAside
<1>5. ProcessInv'
  BY <1>1, <1>2, <1>3, <1>4 DEF ProcessInv, RowsAside
<1>6. MarkInv'
  <2>1. ASSUME NEW t \in Threads, NEW i \in RerunRows, OnRow(thread[t], i)
        PROVE  OnRow(thread[t], i)'
    BY <2>1 DEF ThreadsAside, Plain, OnRow
  <2>2. ASSUME CrashLimit # 0, NEW i \in RerunRows, ~checkpoints'[i].processed
        PROVE  /\ RunOf(i)' = RunOf(i) /\ RunOf(i) \in Active'
               /\ server'.at = "up" => OnRow(thread[RunThread(RunOf(i))], i)'
               /\ server'.at # "up" => i > server'.replayed \/ OnRow(thread[Startup], i)'
    <3>1. checkpoints'[i] = checkpoints[i] /\ UNCHANGED server
      BY DEF RowsAside
    <3>2. /\ RunOf(i) \in Active
          /\ server.at = "up" => OnRow(thread[RunThread(RunOf(i))], i)
          /\ server.at # "up" => i > server.replayed \/ OnRow(thread[Startup], i)
      BY <2>2, <3>1 DEF BudgetInv, MarkInv
    <3>3. RunOf(i)' = RunOf(i) /\ RunOf(i) \in Active'
      BY <2>2, <3>1, <3>2 DEF RunsAside, RunOf
    <3>4. Startup \in Threads
      BY DEF Threads
    <3>5. RunThread(RunOf(i)) \in Threads
      <4>1. checkpoints[i] \in RowTypes
        BY DEF BudgetInv, TInv, RowsTyped, RerunRows, VerdictRows
      <4> QED BY <4>1 DEF RowTypes, RunOf, Threads
    <3> QED BY <2>1, <3>1, <3>2, <3>3, <3>4, <3>5
  <2> QED BY <2>2 DEF MarkInv, RowsAside, RunOf
<1> QED BY <1>5, <1>6

\* No run that may ask comes up, unless another one is launched.
LEMMA AsideToAsk ==
    ASSUME BudgetInv, Aside, Active' \subseteq Active, NEW h, ToAsk(h)' PROVE ToAsk(h)
<1> USE DEF Aside
<1>1. ASSUME NEW t \in Threads, NEW i \in RerunRows, OnRow(thread[t], i)'
      PROVE  thread'[t] = thread[t]
  BY <1>1 DEF ThreadsAside, Plain, RowsAside
<1>2. ASSUME NEW r, MayAsk(r)' PROVE MayAsk(r)
  <2>1. CASE \A i \in VerdictRows : RunOf(i)' # r
    BY <2>1 DEF MayAsk, RowsAside, RunOf
  <2>2. CASE ~\A i \in VerdictRows : RunOf(i)' # r
    <3>1. PICK i \in RerunRows :
            /\ RunOf(i)' = r
            /\ \/ server'.at # "up" /\ i > server'.replayed /\ ~checkpoints'[i].processed
               \/ \E t \in Threads : thread'[t].pc = "rerun" /\ OnRow(thread[t], i)'
      BY <1>2, <2>2 DEF MayAsk, RowsAside
    <3>2. \/ server.at # "up" /\ i > server.replayed /\ ~checkpoints[i].processed
          \/ \E t \in Threads : thread[t].pc = "rerun" /\ OnRow(thread[t], i)
      BY <1>1, <3>1 DEF RowsAside, OnRow
    <3>3. RunOf(i) = r
      BY <3>1 DEF RowsAside, RunOf
    <3> QED BY <3>2, <3>3 DEF MayAsk
  <2> QED BY <2>1, <2>2
<1>3. PICK r \in Active' : runs'[r].kind = "triage_ci" /\ runs'[r].target = h /\ MayAsk(r)'
  BY DEF ToAsk
<1>4. r \in Active /\ r \in DOMAIN runs
  BY <1>3 DEF Active
<1>5. runs[r].kind = "triage_ci" /\ runs[r].target = h /\ MayAsk(r)
  BY <1>2, <1>3, <1>4 DEF RunsAside
<1> QED BY <1>4, <1>5 DEF ToAsk

LEMMA AsideAsked ==
    ASSUME BudgetInv, Aside,
           \A h \in Heads : ToAsk(h)' => ToAsk(h) \/ asked[h] < RerunLimit + server.crashes
    PROVE  AskedInv'
<1> USE DEF Aside
<1>1. ASSUME NEW t \in Threads, NEW i \in RerunRows, OnRow(thread[t], i)
      PROVE  thread'[t] = thread[t]
  BY <1>1 DEF ThreadsAside, Plain, RowsAside
<1>2. \A i \in RerunRows : RunOf(i) \in DOMAIN runs /\ RunOf(i)' = RunOf(i)
  BY DEF BudgetInv, VerdictInv, RerunRows, VerdictRows, RowsAside, RunOf
<1>3. ASSUME NEW h \in Heads, Recording(h) PROVE Recording(h)'
  <2>1. PICK t \in Threads, i \in RerunRows :
          /\ thread[t].pc = "rerun_event" /\ OnRow(thread[t], i)
          /\ checkpoints[i].head = h /\ runs[RunOf(i)].target = h
    BY <1>3 DEF Recording
  <2>2. /\ thread'[t].pc = "rerun_event" /\ OnRow(thread[t], i)'
        /\ checkpoints'[i].head = h /\ runs'[RunOf(i)'].target = h
    BY <1>1, <1>2, <2>1 DEF RunsAside, RowsAside, OnRow
  <2> QED BY <2>2 DEF Recording, RowsAside
<1>4. UNCHANGED <<reruns, asked, server>> /\ (item'.state # "done" => item.state # "done")
  BY DEF counts, ItemAside
<1> QED BY <1>3, <1>4 DEF AskedInv, BudgetInv

-----------------------------------------------------------------------------
\* What a thread does at a stage: it goes on at pc, having written the first
\* of the patches or with all of them to write, or with another row.
Moves(t, patches, pc) ==
    \/ Commits(t, patches, pc)
    \/ Writes(t, patches, pc) /\ UNCHANGED item
    \/ Goes(t, pc) /\ item'.state = item.state
    \/ Becomes(t, [thread[t] EXCEPT !.pc = pc, !.cur = item']) /\ item'.state = item.state

\* The store ends an item once.
LEMMA CommitAbsorbed ==
    ASSUME NEW t, NEW rec, Commit(t, rec), item.state = "done", item \in Items
    PROVE  item'.state = "done"
<1>1. CASE UNCHANGED item
  BY <1>1
<1>2. CASE /\ Allowed(item.state, Head(rec.todo).state)
           /\ item' = Patched(item, Head(rec.todo))
  <2>1. Head(rec.todo).state = "done"
    BY <1>2 DEF Allowed, Successors, States, Managed, ReviewStates
  <2> QED BY <1>2, <2>1 DEF Patched, Items
<1> QED BY <1>1, <1>2 DEF Commit

\* The record a thread goes on with, or what it leaves when it is done.
LEMMA BecomesAside ==
    ASSUME BudgetInv, RowsAside, NEW t \in Threads, Plain(thread[t]), NEW rec, Becomes(t, rec),
           rec.pc \notin {"rerun", "rerun_event"},
           rec.pc = "mark" => \E i \in DOMAIN checkpoints' : OnRow(rec, i),
           \A i : OnRow(rec, i) => i \in DOMAIN checkpoints' \ RerunRows',
           IsCheckpoint(rec.msg) => \E i : OnRow(rec, i)
    PROVE  ThreadsAside
<1> DEFINE mark == [Idle EXCEPT !.pc = "mark", !.msg = rec.msg]
<1>1. \/ thread' = [thread EXCEPT ![t] = rec]
      \/ thread' = [thread EXCEPT ![t] = mark] /\ IsCheckpoint(rec.msg)
      \/ thread' = [thread EXCEPT ![t] = Idle]
  BY DEF Becomes
<1>2. mark.pc = "mark" /\ mark.msg = rec.msg
  BY DEF Idle
<1> HIDE DEF mark
<1>3. PICK new : /\ thread' = [thread EXCEPT ![t] = new]
                 /\ new = rec \/ (new = mark /\ IsCheckpoint(rec.msg)) \/ new = Idle
  BY <1>1
<1>4. /\ new.pc \notin {"rerun", "rerun_event"}
      /\ \A i : OnRow(new, i) => i \in DOMAIN checkpoints' \ RerunRows'
      /\ new.pc = "mark" => \E i \in DOMAIN checkpoints' : OnRow(new, i)
  <2>1. CASE new = rec
    BY <2>1
  <2>2. CASE new = mark /\ IsCheckpoint(rec.msg)
    BY <1>2, <2>2 DEF OnRow
  <2>3. CASE new = Idle
    <3>1. \A i : ~OnRow(Idle, i)
      BY OnRowMessage DEF Idle
    <3> QED BY <2>3, <3>1 DEF Idle
  <2> QED BY <1>3, <2>1, <2>2, <2>3
<1>5. \A u \in Threads : thread'[u] = IF u = t THEN new ELSE thread[u]
  BY <1>3 DEF BudgetInv, TInv, ThreadsTyped
<1>6. Plain(thread[t])'
  BY <1>4, <1>5 DEF Plain, Asking, OnRow
<1> QED BY <1>5, <1>6 DEF ThreadsAside

LEMMA AloneAside ==
    ASSUME BudgetInv, NEW t \in Threads, thread[t] # Idle, Plain(thread[t]),
           item.state = "done" => item'.state = "done"
    PROVE  ItemAside
<1>1. ASSUME Undisturbed, NEW u \in Threads, NEW i \in RerunRows PROVE ~OnRow(thread[u], i)
  <2>1. CASE u = t
    BY <2>1 DEF Plain
  <2>2. CASE u # t
    <3>1. thread[u] = Idle
      BY <1>1, <2>2, BusyAlone DEF BudgetInv, SerialInv, Alone, Busy
    <3> QED BY <3>1, IdlePlain DEF Plain
  <2> QED BY <2>1, <2>2
<1> QED BY <1>1 DEF ItemAside

LEMMA MoveAside ==
    ASSUME BudgetInv, RunsAside, UNCHANGED <<counts, checkpoints, server>>,
           NEW t \in Threads, thread[t] # Idle, Plain(thread[t]),
           NEW patches, NEW pc, pc \notin {"rerun", "rerun_event"},
           pc = "mark" => thread[t].pc = "mark", Moves(t, patches, pc)
    PROVE  Aside
<1>1. RowsAside
  BY DEF RowsAside, VerdictRows, RerunRows
<1>2. /\ thread[t] \in ThreadTypes /\ item \in Items
      /\ thread[t].todo \in Seq(Patches)
  BY DEF BudgetInv, TInv, ThreadsTyped, ThreadTyped, ThreadTypes
<1>3. ASSUME NEW rec, Becomes(t, rec),
             (rec.msg = thread[t].msg /\ rec.pc \in {pc, "stuck"}) \/ rec = Idle
      PROVE  ThreadsAside
  <2>1. Idle.msg = << >> /\ Idle.pc = "idle"
    BY DEF Idle
  <2>2. ~IsCheckpoint(<< >>) /\ \A i : << >> # [kind |-> "checkpoint", row |-> i]
    BY OnRowMessage DEF IsCheckpoint, OnRow
  <2>3. \A i : OnRow(rec, i) => OnRow(thread[t], i)
    BY <1>3, <2>1, <2>2 DEF OnRow
  <2>4. \A i : OnRow(rec, i) => i \in DOMAIN checkpoints' \ RerunRows'
    BY <2>3 DEF Plain, RerunRows, VerdictRows
  <2>5. IsCheckpoint(rec.msg) => \E i : OnRow(rec, i)
    <3>1. ASSUME IsCheckpoint(thread[t].msg)
          PROVE  thread[t].msg \in [kind : {"checkpoint"}, row : Nat]
      BY <1>2, <3>1 DEF IsCheckpoint, ThreadTypes, HookTypes
    <3> QED BY <1>3, <2>1, <2>2, <3>1 DEF OnRow
  <2>6. rec.pc = "mark" => \E i \in DOMAIN checkpoints' : OnRow(rec, i)
    BY <1>3, <2>1 DEF Plain, OnRow
  <2>7. rec.pc \notin {"rerun", "rerun_event"}
    BY <1>3, <2>1
  <2> QED BY <1>1, <1>3, <2>4, <2>5, <2>6, <2>7, BecomesAside
<1>4. CASE Commits(t, patches, pc)
  <2> DEFINE rec == Staged(thread[t], patches, pc)
             stuck == [rec EXCEPT !.todo = << >>, !.pc = "stuck"]
             written == [rec EXCEPT !.todo = Tail(@), !.cur = item']
  <2>1. Commit(t, rec)
    BY <1>4 DEF Commits, Staged
  <2>2. rec.msg = thread[t].msg /\ rec.pc = pc
    BY <1>2 DEF Staged, ThreadTypes
  <2>3. stuck.msg = thread[t].msg /\ stuck.pc = "stuck"
    BY <1>2 DEF Staged, ThreadTypes
  <2>4. written.msg = thread[t].msg /\ written.pc = pc
    BY <1>2 DEF Staged, ThreadTypes
  <2>5. Becomes(t, rec) \/ Becomes(t, written) \/ Becomes(t, stuck) \/ Becomes(t, Idle)
    BY <2>1 DEF Commit
  <2>6. item.state = "done" => item'.state = "done"
    BY <1>2, <2>1, CommitAbsorbed
  <2> HIDE DEF rec, stuck, written
  <2>7. ThreadsAside
    BY <1>3, <2>2, <2>3, <2>4, <2>5
  <2> QED BY <1>1, <2>6, <2>7, AloneAside DEF Aside
<1>5. CASE Writes(t, patches, pc) /\ UNCHANGED item
  <2> DEFINE rec == Staged(thread[t], patches, pc)
  <2>1. rec.msg = thread[t].msg /\ rec.pc = pc
    BY <1>2 DEF Staged, ThreadTypes
  <2>2. Becomes(t, rec)
    BY <1>5 DEF Writes, Staged
  <2> HIDE DEF rec
  <2> QED BY <1>1, <1>3, <1>5, <2>1, <2>2 DEF Aside, ItemAside
<1>6. CASE Goes(t, pc) /\ item'.state = item.state
  <2> DEFINE rec == [thread[t] EXCEPT !.pc = pc]
  <2>1. rec.msg = thread[t].msg /\ rec.pc = pc
    BY <1>2 DEF ThreadTypes
  <2>2. Becomes(t, rec)
    BY <1>6 DEF Goes
  <2> HIDE DEF rec
  <2> QED BY <1>1, <1>3, <1>6, <2>1, <2>2 DEF Aside, ItemAside
<1>7. CASE /\ Becomes(t, [thread[t] EXCEPT !.pc = pc, !.cur = item'])
           /\ item'.state = item.state
  <2> DEFINE rec == [thread[t] EXCEPT !.pc = pc, !.cur = item']
  <2>1. rec.msg = thread[t].msg /\ rec.pc = pc
    BY <1>2 DEF ThreadTypes
  <2>2. Becomes(t, rec)
    BY <1>7
  <2> HIDE DEF rec
  <2> QED BY <1>1, <1>3, <1>7, <2>1, <2>2 DEF Aside, ItemAside
<1> QED BY <1>4, <1>5, <1>6, <1>7 DEF Moves

-----------------------------------------------------------------------------
(* While nobody closes the pull request, nothing ends the item.            *)

LEMMA OneAlivePatch ==
    ASSUME NEW s \in Alive, NEW sub \in Substates, NEW add \in SUBSET Flags,
           NEW remove \in SUBSET Flags
    PROVE  <<Patch(s, sub, add, remove)>> \in Seq(AlivePatches)
<1>1. <<Patch(s, sub, add, remove)>> \in Seq(Patches) /\ Patch(s, sub, add, remove).state = s
  BY PatchTyped DEF Alive, States, Patch
<1>2. Patch(s, sub, add, remove) \in Patches
  BY DEF Patch, Patches, Alive, States
<1> QED BY <1>1, <1>2 DEF AlivePatches

LEMMA AliveDecision ==
    ASSUME NEW row \in Items, row.state \in Alive, NEW d \in Decisions(row)
    PROVE  d.patches \in Seq(AlivePatches)
<1>1. d.patches \in Seq(Patches)
  BY DecisionOfRow
<1>2. PICK add : Within(d.patches, add)
  BY DecisionWithin
<1>3. \A i \in DOMAIN d.patches : d.patches[i].state \in Alive
  BY <1>2 DEF Within, Alive
<1>4. \A i \in DOMAIN d.patches : d.patches[i] \in AlivePatches
  BY <1>1, <1>3 DEF AlivePatches
<1>5. d.patches \in [1..Len(d.patches) -> AlivePatches] /\ Len(d.patches) \in Nat
  BY <1>1, <1>4
<1> QED BY <1>5

\* The row that a thread holds while it is the only one
LEMMA AliveCur ==
    ASSUME BudgetInv, Undisturbed, NEW t \in Threads, thread[t].pc \in HeldStages
    PROVE  thread[t].cur \in Items /\ thread[t].cur.state \in Alive /\ thread[t].cur = item
  BY DEF BudgetInv, SerialInv, Held, OpenInv, TInv

LEMMA BecomesOpen ==
    ASSUME BudgetInv, Undisturbed, item'.state \in Alive, UNCHANGED pr,
           hooks' \in Seq(OpenHooks), NEW t, NEW rec, OpenRec(rec), Becomes(t, rec)
    PROVE  OpenInv'
<1> DEFINE mark == [Idle EXCEPT !.pc = "mark", !.msg = rec.msg]
<1>1. PICK new : new \in {rec, mark, Idle} /\ thread' = [thread EXCEPT ![t] = new]
  BY DEF Becomes
<1>2. OpenRec(mark) /\ OpenRec(Idle)
  <2>1. mark.todo = << >> /\ mark.pc = "mark" /\ Idle.todo = << >> /\ Idle.pc = "idle"
    BY DEF Idle
  <2>2. << >> \in Seq(AlivePatches)
    OBVIOUS
  <2> HIDE DEF mark
  <2> QED BY <2>1, <2>2 DEF OpenRec, PullStages
<1>3. OpenRec(new)
  BY <1>1, <1>2
<1> HIDE DEF mark
<1>4. \A u \in Threads : OpenRec(thread'[u])
  BY <1>1, <1>3 DEF BudgetInv, OpenInv, TInv, ThreadsTyped
<1>5. pr'.status = "open"
  BY DEF BudgetInv, OpenInv
<1> QED BY <1>4, <1>5 DEF OpenInv, OpenRec

LEMMA CommitOpen ==
    ASSUME BudgetInv, Undisturbed, UNCHANGED <<pr, hooks>>, NEW t \in Threads, NEW patches,
           NEW pc, OpenRec(Staged(thread[t], patches, pc)), Commits(t, patches, pc)
    PROVE  OpenInv'
<1> DEFINE rec == Staged(thread[t], patches, pc)
           p == Head(rec.todo)
           stuck == [rec EXCEPT !.todo = << >>, !.pc = "stuck"]
           written == [rec EXCEPT !.todo = Tail(@), !.cur = item']
<1>1. /\ hooks' \in Seq(OpenHooks) /\ item.state \in Alive /\ item \in Items
      /\ thread[t] \in ThreadTypes
  BY DEF BudgetInv, OpenInv, TInv, ThreadsTyped, ThreadTyped
<1>2. Commit(t, rec) /\ OpenRec(rec)
  BY DEF Commits, Staged
<1>3. /\ stuck.todo = << >> /\ stuck.pc = "stuck"
      /\ written.todo = Tail(rec.todo) /\ written.pc = rec.pc /\ written.msg = rec.msg
  BY <1>1 DEF Staged, ThreadTypes
<1> HIDE DEF rec
<1>4. OpenRec(Idle) /\ OpenRec(stuck)
  <2>1. Idle.todo = << >> /\ Idle.pc = "idle"
    BY DEF Idle
  <2>2. << >> \in Seq(AlivePatches)
    OBVIOUS
  <2> HIDE DEF stuck
  <2> QED BY <1>3, <2>1, <2>2 DEF OpenRec, PullStages
<1>5. CASE UNCHANGED item
  <2>1. Becomes(t, rec) \/ Becomes(t, stuck) \/ Becomes(t, Idle) \/ (Becomes(t, written) /\ rec.todo # << >>)
    BY <1>2 DEF Commit
  <2>2. rec.todo # << >> => OpenRec(written)
    <3> HIDE DEF written
    <3> QED BY <1>2, <1>3 DEF OpenRec
  <2> HIDE DEF stuck, written
  <2> QED BY <1>1, <1>2, <1>4, <1>5, <2>1, <2>2, BecomesOpen
<1>6. CASE /\ rec.todo # << >> /\ item' = Patched(item, p) /\ Becomes(t, written)
  <2>1. p \in AlivePatches
    BY <1>2, <1>6 DEF OpenRec
  <2>2. item'.state \in Alive
    BY <1>1, <1>6, <2>1 DEF Patched, Items, AlivePatches
  <2>3. OpenRec(written)
    <3> HIDE DEF written
    <3> QED BY <1>2, <1>6, <1>3 DEF OpenRec
  <2> HIDE DEF written
  <2> QED BY <1>1, <1>6, <2>2, <2>3, BecomesOpen
<1> QED BY <1>2, <1>5, <1>6 DEF Commit

LEMMA MoveOpen ==
    ASSUME BudgetInv, Undisturbed, UNCHANGED <<pr, hooks>>, NEW t \in Threads,
           NEW patches \in Seq(AlivePatches), NEW pc,
           pc \in PullStages => thread[t].pc \in PullStages, Moves(t, patches, pc)
    PROVE  OpenInv'
<1>1. /\ thread[t] \in ThreadTypes /\ OpenRec(thread[t])
      /\ hooks' \in Seq(OpenHooks) /\ item.state \in Alive
  BY DEF BudgetInv, TInv, ThreadsTyped, ThreadTyped, OpenInv
<1> DEFINE staged == Staged(thread[t], patches, pc)
<1>2. OpenRec(staged)
  <2>1. staged.todo = patches /\ staged.pc = pc /\ staged.msg = thread[t].msg
    BY <1>1 DEF Staged, ThreadTypes
  <2> HIDE DEF staged
  <2> QED BY <1>1, <2>1 DEF OpenRec
<1>3. CASE Commits(t, patches, pc)
  <2> HIDE DEF staged
  <2> QED BY <1>2, <1>3, CommitOpen DEF staged
<1>4. CASE Writes(t, patches, pc) /\ UNCHANGED item
  <2>1. Becomes(t, staged)
    BY <1>4 DEF Writes, Staged
  <2> HIDE DEF staged
  <2> QED BY <1>1, <1>2, <1>4, <2>1, BecomesOpen
<1>5. CASE Goes(t, pc) /\ item'.state = item.state
  <2> DEFINE rec == [thread[t] EXCEPT !.pc = pc]
  <2>1. rec.todo = thread[t].todo /\ rec.pc = pc /\ rec.msg = thread[t].msg
    BY <1>1 DEF ThreadTypes
  <2>2. Becomes(t, rec)
    BY <1>5 DEF Goes
  <2> HIDE DEF rec
  <2>3. OpenRec(rec)
    BY <1>1, <2>1 DEF OpenRec
  <2> QED BY <1>1, <1>5, <2>2, <2>3, BecomesOpen
<1>6. CASE /\ Becomes(t, [thread[t] EXCEPT !.pc = pc, !.cur = item'])
           /\ item'.state = item.state
  <2> DEFINE rec == [thread[t] EXCEPT !.pc = pc, !.cur = item']
  <2>1. rec.todo = thread[t].todo /\ rec.pc = pc /\ rec.msg = thread[t].msg
    BY <1>1 DEF ThreadTypes
  <2>2. Becomes(t, rec)
    BY <1>6
  <2> HIDE DEF rec
  <2>3. OpenRec(rec)
    BY <1>1, <2>1 DEF OpenRec
  <2> QED BY <1>1, <1>6, <2>2, <2>3, BecomesOpen
<1> QED BY <1>3, <1>4, <1>5, <1>6 DEF Moves

-----------------------------------------------------------------------------
\* A stage that has nothing to do with a rerun: where the thread goes on, and
\* that what it decides to write does not end the item while nobody closes
\* the pull request.
PlainMove(t, patches, pc) ==
    /\ thread[t].pc \notin {"rerun", "rerun_event", "idle", "mark"}
    /\ pc \notin {"rerun", "rerun_event", "mark"}
    /\ Undisturbed => patches \in Seq(AlivePatches)
    /\ pc \in PullStages => thread[t].pc \in PullStages
    /\ Moves(t, patches, pc)

PlainStep(t) == \E patches, pc : PlainMove(t, patches, pc)

LEMMA NoAlivePatches == << >> \in Seq(AlivePatches)
  OBVIOUS

LEMMA SameStatePatch ==
    ASSUME NEW row \in Items, row.state \in Alive, NEW add \in SUBSET Flags,
           NEW remove \in SUBSET Flags
    PROVE  <<Patch(row.state, row.substate, add, remove)>> \in Seq(AlivePatches)
  BY OneAlivePatch DEF Items

LEMMA ClosedOpen ==
    ASSUME BudgetInv, Undisturbed, NEW t \in Threads, thread[t].pc \in PullStages
    PROVE  thread[t].msg.action \notin {"merged", "closed"}
  BY DEF BudgetInv, OpenInv, OpenRec, OpenHooks

LEMMA RevivedAlive ==
    ASSUME NEW conclusion PROVE <<RevivedPatch(conclusion)>> \in Seq(AlivePatches)
<1>1. <<RevivedPatch(conclusion)>> \in Seq(Patches)
  BY RevivedTyped
<1>2. RevivedPatch(conclusion).state = "auto_review"
  BY DEF RevivedPatch, Patch
<1> DEFINE s == <<RevivedPatch(conclusion)>>
<1>3. s[1] = RevivedPatch(conclusion) /\ DOMAIN s = {1}
  OBVIOUS
<1>4. s[1] \in Patches
  BY <1>1, <1>3
<1>5. RevivedPatch(conclusion) \in AlivePatches
  BY <1>2, <1>3, <1>4 DEF AlivePatches, Alive, Managed
<1> QED BY <1>5

LEMMA SyncedAlive ==
    ASSUME NEW row \in Items PROVE PrSynchronized(row).patches \in Seq(AlivePatches)
<1>1. CASE row.state \in Alive
  <2>1. PrSynchronized(row) \in Decisions(row)
    BY DEF Decisions
  <2> QED BY <1>1, <2>1, AliveDecision
<1>2. CASE row.state \notin Alive
  BY <1>2, NoAlivePatches DEF PrSynchronized, NoDecision, Decision, Alive
<1> QED BY <1>1, <1>2

\* The handler of a pull request's webhook, up to its last stage
LEMMA PullPlain ==
    ASSUME BudgetInv, NEW t \in Threads,
           Link(t) \/ SyncAutomation(t) \/ SyncReviewLabels(t) \/ SyncLifecycle(t)
    PROVE  PlainStep(t)
<1> DEFINE cur == thread[t].cur
<1>1. CASE Link(t)
  <2>1. thread[t].pc = "link"
    BY <1>1 DEF Link, At
  <2>2. CASE Goes(t, "automation") /\ UNCHANGED item
    <3>1. Moves(t, << >>, "automation")
      BY <2>2 DEF Moves
    <3>2. PlainMove(t, << >>, "automation")
      BY <2>1, <3>1, NoAlivePatches DEF PlainMove, PullStages
    <3> QED BY <3>2 DEF PlainStep
  <2>3. CASE /\ item' = [item EXCEPT !.head = thread[t].msg.head]
             /\ Becomes(t, [thread[t] EXCEPT !.pc = "automation", !.cur = item'])
    <3>1. item'.state = item.state
      BY <2>3 DEF BudgetInv, TInv, Items
    <3>2. Moves(t, << >>, "automation")
      BY <2>3, <3>1 DEF Moves
    <3>3. PlainMove(t, << >>, "automation")
      BY <2>1, <3>2, NoAlivePatches DEF PlainMove, PullStages
    <3> QED BY <3>3 DEF PlainStep
  <2> QED BY <1>1, <2>2, <2>3 DEF Link
<1>2. CASE SyncAutomation(t)
  <2> DEFINE flag == {"ai_assist_disabled"}
             on == <<Patch(cur.state, cur.substate, {}, flag)>>
             off == <<Patch(cur.state, cur.substate, flag, {})>>
  <2>1. thread[t].pc = "automation"
    BY <1>2 DEF SyncAutomation, At
  <2>2. PICK patches \in {<< >>, on, off}, pc \in {"lifecycle", "labels"} :
          Commits(t, patches, pc)
    BY <1>2 DEF SyncAutomation
  <2>3. flag \in SUBSET Flags /\ {} \in SUBSET Flags
    BY DEF Flags
  <2>4. Undisturbed => on \in Seq(AlivePatches) /\ off \in Seq(AlivePatches)
    BY <2>1, <2>3, AliveCur, SameStatePatch DEF HeldStages
  <2> HIDE DEF on, off
  <2>5. Undisturbed => patches \in Seq(AlivePatches)
    BY <2>2, <2>4, NoAlivePatches
  <2>6. PlainMove(t, patches, pc)
    BY <2>1, <2>2, <2>5 DEF PlainMove, Moves, PullStages
  <2> QED BY <2>6 DEF PlainStep
<1>3. CASE SyncReviewLabels(t)
  <2> DEFINE d == LabelsSynced(cur, thread[t].msg.labels \cap ReviewFlags)
  <2>1. thread[t].pc = "labels" /\ Commits(t, d.patches, "lifecycle")
    BY <1>3 DEF SyncReviewLabels, At
  <2>2. d \in Decisions(cur)
    BY DEF Decisions
  <2> HIDE DEF d
  <2>3. Undisturbed => d.patches \in Seq(AlivePatches)
    BY <2>1, <2>2, AliveCur, AliveDecision DEF HeldStages
  <2>4. PlainMove(t, d.patches, "lifecycle")
    BY <2>1, <2>3 DEF PlainMove, Moves, PullStages
  <2> QED BY <2>4 DEF PlainStep
<1>4. CASE SyncLifecycle(t)
  <2> DEFINE off == <<Patch("cancelled", "none", {"ai_assist_disabled"}, {})>>
             back == <<RevivedPatch(ci[thread[t].msg.head])>>
  <2>1. thread[t].pc = "lifecycle"
    BY <1>4 DEF SyncLifecycle, At
  <2>2. \/ Commits(t, off, "finish")
        \/ Writes(t, back, "revived") /\ UNCHANGED item
        \/ Goes(t, "finish") /\ UNCHANGED item
    BY <1>4 DEF SyncLifecycle
  <2>3. off \in Seq(AlivePatches)
    BY OneAlivePatch DEF Alive, Substates, Flags
  <2>4. back \in Seq(AlivePatches)
    BY RevivedAlive
  <2> HIDE DEF off, back
  <2>5. \E pc \in {"finish", "revived"}, patches \in {off, back} : Moves(t, patches, pc)
    BY <2>2 DEF Moves
  <2>6. \E pc \in {"finish", "revived"}, patches \in {off, back} : PlainMove(t, patches, pc)
    BY <2>1, <2>3, <2>4, <2>5 DEF PlainMove, PullStages
  <2> QED BY <2>6 DEF PlainStep
<1> QED BY <1>1, <1>2, <1>3, <1>4

LEMMA HandlerPlain ==
    ASSUME BudgetInv, NEW t \in Threads, HandlerStep(t) PROVE PlainStep(t)
<1> DEFINE cur == thread[t].cur
<1>1. CASE BypassSelfReview(t)
  <2> DEFINE d == CiSucceeded(cur, FALSE)
  <2>1. thread[t].pc = "revived"
    BY <1>1 DEF BypassSelfReview, At
  <2>2. PICK patches \in {<< >>, d.patches} : Commits(t, patches, "reconcile_revived")
    BY <1>1 DEF BypassSelfReview
  <2>3. d \in Decisions(cur)
    BY DEF Decisions
  <2> HIDE DEF d
  <2>4. Undisturbed => patches \in Seq(AlivePatches)
    BY <2>1, <2>2, <2>3, NoAlivePatches, AliveCur, AliveDecision DEF HeldStages
  <2>5. PlainMove(t, patches, "reconcile_revived")
    BY <2>1, <2>2, <2>4 DEF PlainMove, Moves, PullStages
  <2> QED BY <2>5 DEF PlainStep
<1>2. CASE Finish(t)
  <2>1. thread[t].pc = "finish"
    BY <1>2 DEF Finish, At
  <2>2. cur \in Items
    BY <2>1 DEF BudgetInv, TInv, ThreadsTyped, ThreadTyped, CurStages
  <2> DEFINE synced == PrSynchronized(cur).patches
             action == thread[t].msg.action
             closed == <<Closed(action)>>
  <2>3. PICK patches \in {<< >>, synced, closed}, pc \in {"idle", "reconcile"} :
          /\ Commits(t, patches, pc)
          /\ patches \in {<< >>, synced} \/ action \in {"merged", "closed"}
    <3>1. \/ Commits(t, closed, "idle") /\ action \in {"merged", "closed"}
          \/ Commits(t, synced, "idle")
          \/ \E pc \in {"idle", "reconcile"} : Commits(t, << >>, pc)
      BY <1>2 DEF Finish
    <3> HIDE DEF synced, closed, action
    <3> QED BY <3>1
  <2>4. Undisturbed => patches \in Seq(AlivePatches)
    BY <2>1, <2>2, <2>3, NoAlivePatches, SyncedAlive, ClosedOpen DEF PullStages
  <2>5. PlainMove(t, patches, pc)
    BY <2>1, <2>3, <2>4 DEF PlainMove, Moves, PullStages
  <2> QED BY <2>5 DEF PlainStep
<1>3. CASE CheckSuite(t)
  <2>1. thread[t].pc = "check_suite" /\ UNCHANGED item
    BY <1>3 DEF CheckSuite, At
  <2>2. PICK pc \in {"idle", "success", "failure"} : Goes(t, pc)
    <3>1. cur \in Items
      BY <2>1 DEF BudgetInv, TInv, ThreadsTyped, ThreadTyped, CurStages
    <3>2. ci[cur.head] \in {"pending", "success", "failure"}
      BY <3>1 DEF BudgetInv, TInv, GitHubTyped, Items
    <3> QED BY <1>3, <3>2 DEF CheckSuite
  <2>3. PlainMove(t, << >>, pc)
    BY <2>1, <2>2, NoAlivePatches DEF PlainMove, Moves, PullStages
  <2> QED BY <2>3 DEF PlainStep
<1>4. CASE CiCompleted(t)
  <2>1. thread[t].pc \in {"success", "failure"} /\ UNCHANGED item
    BY <1>4 DEF CiCompleted, At
  <2>2. PICK d \in Decisions(cur) : Decides(t, d)
    <3>1. PICK a \in BOOLEAN : Decides(t, CiSucceeded(cur, a)) \/ Decides(t, CiFailed(cur, a))
      BY <1>4 DEF CiCompleted
    <3> QED BY <3>1 DEF Decisions
  <2>3. PICK pc \in {"idle", "reconcile"} : Writes(t, d.patches, pc)
    BY <2>2 DEF Decides
  <2>4. Undisturbed => d.patches \in Seq(AlivePatches)
    BY <2>1, <2>2, AliveCur, AliveDecision DEF HeldStages
  <2>5. PlainMove(t, d.patches, pc)
    BY <2>1, <2>3, <2>4 DEF PlainMove, Moves, PullStages
  <2> QED BY <2>5 DEF PlainStep
<1>5. CASE ReviewWebhook(t)
  <2> DEFINE d == ReviewSubmitted(cur, thread[t].msg.action = "approved")
  <2>1. thread[t].pc = "review"
    BY <1>5 DEF ReviewWebhook, At
  <2>2. PICK pc \in {"idle", "reconcile"} : Commits(t, d.patches, pc)
    BY <1>5 DEF ReviewWebhook
  <2>3. d \in Decisions(cur)
    BY DEF Decisions
  <2> HIDE DEF d
  <2>4. Undisturbed => d.patches \in Seq(AlivePatches)
    BY <2>1, <2>3, AliveCur, AliveDecision DEF HeldStages
  <2>5. PlainMove(t, d.patches, pc)
    BY <2>1, <2>2, <2>4 DEF PlainMove, Moves, PullStages
  <2> QED BY <2>5 DEF PlainStep
<1> QED BY <1>1, <1>2, <1>3, <1>4, <1>5, PullPlain DEF HandlerStep

\* The follow-up of a run's failure, and of a verdict that a fix is needed
LEMMA FollowUpPlain ==
    ASSUME BudgetInv, NEW t \in Threads, FixNeeded(t) \/ TriageFallback(t) \/ Rollback(t)
    PROVE  PlainStep(t)
<1>1. CASE FixNeeded(t)
  <2> DEFINE fix(remove) == <<Patch("auto_review", "ci_failed", {"ci_triage_fix_decided"}, remove)>>
  <2>1. thread[t].pc = "fix_needed"
    BY <1>1 DEF FixNeeded, At
  <2>2. PICK patches \in {<< >>, fix({"ci_green"}), fix({})} : Commits(t, patches, "reconcile")
    BY <1>1 DEF FixNeeded
  <2>3. \A remove \in {{"ci_green"}, {}} : fix(remove) \in Seq(AlivePatches)
    BY OneAlivePatch
    DEF Alive, Managed, Substates, AutoReviewSubstates, Flags, ResetFlags
  <2> HIDE DEF fix
  <2>4. patches \in Seq(AlivePatches)
    BY <2>2, <2>3, NoAlivePatches
  <2>5. PlainMove(t, patches, "reconcile")
    BY <2>1, <2>2, <2>4 DEF PlainMove, Moves, PullStages
  <2> QED BY <2>5 DEF PlainStep
<1>2. CASE TriageFallback(t)
  <2>1. /\ thread[t].pc = "fallback" /\ UNCHANGED item
        /\ Becomes(t, [thread[t] EXCEPT !.pc = "fix_needed", !.cur = item'])
    BY <1>2 DEF TriageFallback, At
  <2>2. Moves(t, << >>, "fix_needed")
    BY <2>1 DEF Moves
  <2>3. PlainMove(t, << >>, "fix_needed")
    BY <2>1, <2>2, NoAlivePatches DEF PlainMove, PullStages
  <2> QED BY <2>3 DEF PlainStep
<1>3. CASE Rollback(t)
  <2>1. thread[t].pc = "rollback" /\ Goes(t, "idle")
    BY <1>3 DEF Rollback, At
  <2>2. item'.state = item.state
    BY <1>3 DEF Rollback, BudgetInv, TInv, Items
  <2>3. PlainMove(t, << >>, "idle")
    BY <2>1, <2>2, NoAlivePatches DEF PlainMove, Moves, PullStages
  <2> QED BY <2>3 DEF PlainStep
<1> QED BY <1>1, <1>2, <1>3

LEMMA ReconcilePlain ==
    ASSUME BudgetInv, NEW t \in Threads, Reconcile(t) PROVE PlainStep(t)
<1>1. thread[t].pc \in {"reconcile", "reconcile_revived"}
  BY DEF Reconcile
<1>2. item'.state = item.state
  BY DEF Reconcile, BudgetInv, TInv, Items
<1>3. PICK pc \in {"idle", "finish"} : Goes(t, pc) /\ (pc = "finish" => thread[t].pc = "reconcile_revived")
  BY DEF Reconcile
<1>4. PlainMove(t, << >>, pc)
  BY <1>1, <1>2, <1>3, NoAlivePatches DEF PlainMove, Moves, PullStages
<1> QED BY <1>4 DEF PlainStep

LEMMA MonitorPlain ==
    ASSUME BudgetInv, PollPullRequest \/ RecoverStuck PROVE PlainStep(Monitor)
<1>1. CASE PollPullRequest
  <2> DEFINE back == <<Patch("auto_review", "pr_adopted", {}, {"ai_assist_disabled"})>>
  <2>1. thread[Monitor].pc = "poll" /\ UNCHANGED item
    BY <1>1 DEF PollPullRequest, At
  <2>2. \/ Writes(Monitor, <<Closed(pr.status)>>, "idle") /\ pr.status # "open"
        \/ Writes(Monitor, back, "reconcile")
        \/ \E pc \in {"idle", "stuck"} : Goes(Monitor, pc)
    BY <1>1 DEF PollPullRequest
  <2>3. back \in Seq(AlivePatches)
    BY OneAlivePatch DEF Alive, Managed, Substates, AutoReviewSubstates, Flags
  <2> HIDE DEF back
  <2>4. CASE Writes(Monitor, <<Closed(pr.status)>>, "idle") /\ pr.status # "open"
    <3>1. ~Undisturbed
      BY <2>4 DEF BudgetInv, OpenInv
    <3>2. PlainMove(Monitor, <<Closed(pr.status)>>, "idle")
      BY <2>1, <2>4, <3>1 DEF PlainMove, Moves, PullStages
    <3> QED BY <3>2 DEF PlainStep
  <2>5. CASE Writes(Monitor, back, "reconcile")
    <3>1. PlainMove(Monitor, back, "reconcile")
      BY <2>1, <2>3, <2>5 DEF PlainMove, Moves, PullStages
    <3> QED BY <3>1 DEF PlainStep
  <2>6. ASSUME NEW pc \in {"idle", "stuck"}, Goes(Monitor, pc) PROVE PlainStep(Monitor)
    <3>1. PlainMove(Monitor, << >>, pc)
      BY <2>1, <2>6, NoAlivePatches DEF PlainMove, Moves, PullStages
    <3> QED BY <3>1 DEF PlainStep
  <2> QED BY <2>2, <2>4, <2>5, <2>6
<1>2. CASE RecoverStuck
  <2>1. thread[Monitor].pc = "stuck" /\ UNCHANGED item
    BY <1>2 DEF RecoverStuck, At
  <2>2. PICK pc \in {"idle", "reconcile"} : Goes(Monitor, pc)
    BY <1>2 DEF RecoverStuck
  <2>3. PlainMove(Monitor, << >>, pc)
    BY <2>1, <2>2, NoAlivePatches DEF PlainMove, Moves, PullStages
  <2> QED BY <2>3 DEF PlainStep
<1> QED BY <1>1, <1>2

-----------------------------------------------------------------------------
\* A step of the thread that processes the rerun i: it goes on with it, or is
\* done with it.
RerunStep(t, i) ==
    /\ UNCHANGED <<runs, server>>
    /\ \A u \in Threads \ {t} : thread'[u] = thread[u]
    /\ DOMAIN checkpoints' = DOMAIN checkpoints
    /\ VerdictRows' = VerdictRows /\ RerunRows' = RerunRows
    /\ \A j \in DOMAIN checkpoints : /\ checkpoints'[j].run = checkpoints[j].run
                                     /\ checkpoints'[j].head = checkpoints[j].head
    /\ \A j \in DOMAIN checkpoints \ {i} : checkpoints'[j] = checkpoints[j]
    /\ \/ /\ OnRow(thread'[t], i) /\ thread'[t].pc \in {"rerun_event", "idle", "mark"}
          /\ RerunTodo(item', thread'[t])
       \/ thread'[t] = Idle /\ (checkpoints'[i].processed \/ CrashLimit = 0)

LEMMA RerunStepKeeps ==
    ASSUME BudgetInv, NEW t \in Threads, NEW i \in RerunRows, OnRow(thread[t], i), RerunStep(t, i)
    PROVE  ProcessInv' /\ MarkInv' /\ \A h : ~ToAsk(h)'
<1> USE DEF RerunStep
<1>1. Processing(t, i)
  BY DEF BudgetInv, ProcessInv
<1>2. \A j : ~OnRow(Idle, j)
  BY OnRowMessage DEF Idle
<1>3. ASSUME NEW u \in Threads, NEW j, OnRow(thread'[u], j), u = t PROVE j = i
  BY <1>2, <1>3, OneRow
<1>4. ASSUME NEW u \in Threads, NEW j \in RerunRows, OnRow(thread'[u], j) PROVE u = t /\ j = i
  <2>1. CASE u = t
    BY <1>3, <1>4, <2>1
  <2>2. CASE u # t
    BY <1>4, <2>2, OneProcessing
  <2> QED BY <2>1, <2>2
<1>5. i \in DOMAIN checkpoints /\ Active' = Active /\ \A j \in RerunRows : RunOf(j)' = RunOf(j)
  BY DEF RerunRows, VerdictRows, Active, RunOf
<1>6. ProcessInv'
  <2>1. ASSUME NEW u \in Threads, NEW j, OnRow(thread'[u], j) PROVE j \in DOMAIN checkpoints'
    <3>1. CASE u = t
      BY <1>3, <1>5, <2>1, <3>1
    <3>2. CASE u # t
      BY <2>1, <3>2 DEF BudgetInv, ProcessInv
    <3> QED BY <3>1, <3>2
  <2>2. ASSUME NEW u \in Threads, NEW j \in RerunRows, OnRow(thread'[u], j) PROVE Processing(u, j)'
    <3>1. u = t /\ j = i /\ thread'[t] # Idle
      BY <1>2, <1>4, <2>2
    <3> QED BY <1>1, <1>5, <3>1 DEF Processing, RerunTodo
  <2>3. ASSUME NEW u \in Threads, Asking(thread'[u])
        PROVE  \E j \in RerunRows : OnRow(thread'[u], j)
    <3>1. CASE u = t
      BY <2>3, <3>1 DEF Asking, Idle
    <3>2. CASE u # t
      BY <2>3, <3>2 DEF BudgetInv, ProcessInv
    <3> QED BY <3>1, <3>2
  <2>4. ASSUME NEW u \in Threads, thread'[u].pc = "mark"
        PROVE  \E j \in DOMAIN checkpoints' : OnRow(thread'[u], j)
    <3>1. CASE u = t
      BY <1>5, <2>4, <3>1 DEF Idle
    <3>2. CASE u # t
      BY <2>4, <3>2 DEF BudgetInv, ProcessInv
    <3> QED BY <3>1, <3>2
  <2> QED BY <2>1, <2>2, <2>3, <2>4 DEF ProcessInv, OnRow, Asking
<1>7. MarkInv'
  <2>1. ASSUME CrashLimit # 0, NEW j \in RerunRows, ~checkpoints'[j].processed
        PROVE  /\ RunOf(j)' \in Active'
               /\ server'.at = "up" => OnRow(thread'[RunThread(RunOf(j)')], j)
               /\ server'.at # "up" => j > server'.replayed \/ OnRow(thread'[Startup], j)
    <3>1. CASE j = i
      BY <1>1, <1>5, <2>1, <3>1 DEF Processing
    <3>2. CASE j # i
      <4>1. checkpoints'[j] = checkpoints[j]
        BY <3>2 DEF RerunRows, VerdictRows
      <4>2. /\ RunOf(j) \in Active
            /\ server.at = "up" => OnRow(thread[RunThread(RunOf(j))], j)
            /\ server.at # "up" => j > server.replayed \/ OnRow(thread[Startup], j)
        BY <2>1, <4>1 DEF BudgetInv, MarkInv
      <4>3. RunOf(j) # RunOf(i)
        BY <3>2 DEF BudgetInv, VerdictInv, RerunRows
      <4> QED BY <1>1, <4>2, <4>3 DEF BudgetInv, OneActive, Processing
    <3> QED BY <3>1, <3>2
  <2> QED BY <2>1 DEF MarkInv, OnRow
<1>8. ASSUME NEW h, ToAsk(h)' PROVE FALSE
  <2>1. PICK r \in Active : MayAsk(r)'
    BY <1>5, <1>8 DEF ToAsk
  <2>2. r = RunOf(i)
    BY <1>1 DEF BudgetInv, OneActive, Processing
  <2>3. i \in VerdictRows /\ RunOf(i)' = r
    BY <1>5, <2>2 DEF RerunRows
  <2>4. PICK j \in RerunRows :
          /\ RunOf(j)' = r
          /\ \/ server'.at # "up" /\ j > server'.replayed
             \/ \E u \in Threads : thread'[u].pc = "rerun" /\ OnRow(thread'[u], j)
    BY <2>1, <2>3 DEF MayAsk, OnRow
  <2>5. j = i
    BY <1>5, <2>2, <2>4 DEF BudgetInv, VerdictInv, RerunRows
  <2>6. CASE server.at # "up" /\ i > server.replayed
    <3>1. server.replayed = i /\ i \in Nat
      BY <1>1, <1>5, <2>6 DEF Processing, BudgetInv, TInv, RowsTyped
    <3> QED BY <2>6, <3>1
  <2>7. CASE \E u \in Threads : thread'[u].pc = "rerun" /\ OnRow(thread'[u], i)
    BY <1>2, <1>4, <2>7 DEF Idle
  <2> QED BY <2>4, <2>5, <2>6, <2>7
<1> QED BY <1>6, <1>7, <1>8

\* What is recorded next is the rerun that is processed.
LEMMA RecordingIs ==
    ASSUME BudgetInv, NEW t \in Threads, NEW i \in RerunRows, OnRow(thread[t], i),
           NEW h, Recording(h)
    PROVE  /\ thread[t].pc = "rerun_event"
           /\ checkpoints[i].head = h /\ runs[RunOf(i)].target = h
<1>1. PICK u \in Threads, j \in RerunRows :
        /\ thread[u].pc = "rerun_event" /\ OnRow(thread[u], j)
        /\ checkpoints[j].head = h /\ runs[RunOf(j)].target = h
  BY DEF Recording
<1>2. u = t /\ j = i
  BY <1>1, OneProcessing
<1> QED BY <1>1, <1>2

\* The thread goes on with the rerun: what becomes of it
LEMMA RerunBecomes ==
    ASSUME BudgetInv, NEW t \in Threads, NEW i, NEW rec, OnRow(rec, i),
           rec.pc \in {"rerun_event", "idle", "mark"}, RerunTodo(item', rec), Becomes(t, rec)
    PROVE  /\ \A u \in Threads \ {t} : thread'[u] = thread[u]
           /\ OnRow(thread'[t], i) /\ thread'[t].pc \in {"rerun_event", "idle", "mark"}
           /\ RerunTodo(item', thread'[t])
           /\ rec.pc = "rerun_event" => thread'[t].pc = "rerun_event"
<1> DEFINE mark == [Idle EXCEPT !.pc = "mark", !.msg = rec.msg]
<1>1. IsCheckpoint(rec.msg)
  BY OnRowMessage
<1>2. PICK new : /\ thread' = [thread EXCEPT ![t] = new]
                 /\ new = rec \/ (new = mark /\ rec.pc = "idle")
  BY <1>1 DEF Becomes
<1>3. mark.pc = "mark" /\ mark.msg = rec.msg /\ mark.todo = << >>
  BY DEF Idle
<1> HIDE DEF mark
<1>4. \A u \in Threads : thread'[u] = IF u = t THEN new ELSE thread[u]
  BY <1>2 DEF BudgetInv, TInv, ThreadsTyped
<1>5. RerunTodo(item', mark)
  BY <1>3 DEF RerunTodo
<1> QED BY <1>2, <1>3, <1>4, <1>5 DEF OnRow, RerunTodo

-----------------------------------------------------------------------------
Setting == CrashLimit = 0 \/ Undisturbed

\* What a step keeps of the budget.
BudgetKept == ProcessInv' /\ MarkInv' /\ AskedInv'

\* The thread that asks processes a rerun.
LEMMA AskingRow ==
    ASSUME BudgetInv, NEW t \in Threads, Asking(thread[t])
    PROVE  \E i \in RerunRows :
              /\ OnRow(thread[t], i) /\ thread[t].msg.row = i
              /\ checkpoints[i].head \in Heads /\ i \in DOMAIN checkpoints
<1>1. PICK i \in RerunRows : OnRow(thread[t], i)
  BY DEF BudgetInv, ProcessInv
<1>2. i \in DOMAIN checkpoints /\ checkpoints[i] \in RowTypes
  BY DEF RerunRows, VerdictRows, BudgetInv, TInv, RowsTyped
<1> QED BY <1>1, <1>2, OnRowMessage DEF RowTypes

\* GitHub is asked: only as long as there is budget left.
LEMMA RerunBudgeted ==
    ASSUME BudgetInv, NEW t \in Threads, NEW accepted \in BOOLEAN, Rerun(t, accepted)
    PROVE  BudgetKept
<1> DEFINE again == Patch("auto_review", "ci_rerunning", {}, {"ci_green"})
           cur == thread[t].cur
           spent == Patch(cur.state, cur.substate, {"ci_rerun_exhausted"}, {})
<1>1. /\ thread[t].pc = "rerun" /\ UNCHANGED <<item, runs, reruns, checkpoints, server>>
      /\ thread[t] \in ThreadTypes
  BY DEF Rerun, At, BudgetInv, TInv, ThreadsTyped, ThreadTyped
<1>2. PICK i \in RerunRows :
        /\ OnRow(thread[t], i) /\ thread[t].msg.row = i
        /\ checkpoints[i].head \in Heads /\ i \in DOMAIN checkpoints
  BY <1>1, AskingRow DEF Asking
<1> DEFINE head == checkpoints[i].head
           run == runs[RunOf(i)]
<1>3. \/ /\ accepted
         /\ asked' = IF run.target = head THEN [asked EXCEPT ![head] = @ + 1] ELSE asked
         /\ Writes(t, <<again>>, "rerun_event")
      \/ /\ ~accepted /\ asked' = asked
         /\ Writes(t, << >>, "idle") \/ Writes(t, <<spent>>, "idle")
  BY <1>1, <1>2 DEF Rerun, RunOf
<1>4. again \in Patches /\ again.state = "auto_review"
  BY DEF Patch, Patches, States, Managed, Substates, AutoReviewSubstates, Flags, ResetFlags
<1>5. spent \in Patches /\ (Undisturbed => spent.state = item.state)
  <2>1. cur \in Items
    BY <1>1 DEF BudgetInv, TInv, ThreadsTyped, ThreadTyped, CurStages
  <2>2. Undisturbed => cur = item
    BY <1>1, AliveCur DEF HeldStages
  <2> QED BY <2>1, <2>2 DEF Patch, Patches, Items, Flags, ResetFlags
<1> HIDE DEF again, spent
<1>6. PICK patches \in {<< >>, <<again>>, <<spent>>}, pc \in {"rerun_event", "idle"} :
        /\ Writes(t, patches, pc)
        /\ pc = "rerun_event" => patches = <<again>>
        /\ accepted <=> pc = "rerun_event"
  BY <1>3
<1> DEFINE rec == Staged(thread[t], patches, pc)
<1>7. rec.todo = patches /\ rec.pc = pc /\ rec.msg = thread[t].msg
  BY <1>1 DEF Staged, ThreadTypes
<1>8. Becomes(t, rec)
  BY <1>6 DEF Writes, Staged
<1> HIDE DEF rec
<1>9. RerunTodo(item', rec)
  BY <1>1, <1>4, <1>5, <1>6, <1>7 DEF RerunTodo
<1>10. OnRow(rec, i)
  BY <1>2, <1>7 DEF OnRow
<1>11. /\ \A u \in Threads \ {t} : thread'[u] = thread[u]
       /\ OnRow(thread'[t], i) /\ thread'[t].pc \in {"rerun_event", "idle", "mark"}
       /\ RerunTodo(item', thread'[t])
       /\ rec.pc = "rerun_event" => thread'[t].pc = "rerun_event"
  BY <1>7, <1>8, <1>9, <1>10, RerunBecomes
<1>12. RerunStep(t, i)
  BY <1>1, <1>11 DEF RerunStep, VerdictRows, RerunRows
<1>13. ProcessInv' /\ MarkInv' /\ \A h : ~ToAsk(h)'
  BY <1>2, <1>12, RerunStepKeeps
<1>14. \A h \in Heads : ~Recording(h)
  BY <1>1, <1>2, RecordingIs
<1>15. AskedInv'
  <2>1. ASSUME NEW h \in Heads
        PROVE  /\ item'.state # "done" =>
                    \/ asked'[h] <= reruns'[h] + server'.crashes
                    \/ Recording(h)' /\ asked'[h] <= reruns'[h] + server'.crashes + 1
               /\ asked'[h] <= RerunLimit + server'.crashes
    <3>0. /\ asked \in [Heads -> Nat] /\ reruns[h] \in Nat /\ server.crashes \in Nat
          /\ RerunLimit \in Nat
      <4>1. server.crashes \in Nat
        BY WorkItemsAssumption DEF BudgetInv, TInv, RowsTyped
      <4> QED BY <4>1, WorkItemsAssumption DEF BudgetInv, TInv, CountsTyped
    <3>1. /\ item.state # "done" => asked[h] <= reruns[h] + server.crashes
          /\ asked[h] <= RerunLimit + server.crashes
      BY <1>14 DEF BudgetInv, AskedInv
    <3>2. CASE asked'[h] = asked[h]
      BY <1>1, <3>1, <3>2
    <3>3. CASE asked'[h] # asked[h]
      <4>1. accepted /\ run.target = head /\ h = head /\ asked'[h] = asked[h] + 1
        BY <1>2, <1>3, <3>0, <3>3
      <4>2. Recording(h)'
        <5>1. thread'[t].pc = "rerun_event" /\ OnRow(thread'[t], i)
          BY <1>6, <1>7, <1>11, <4>1
        <5>2. i \in RerunRows' /\ checkpoints'[i].head = h /\ runs'[RunOf(i)'].target = h
          BY <1>1, <4>1 DEF RerunRows, VerdictRows, RunOf
        <5> QED BY <5>1, <5>2 DEF Recording, OnRow
      <4>3. ToAsk(h)
        <5>1. RunOf(i) \in Active
          BY <1>2 DEF BudgetInv, ProcessInv, Processing
        <5>2. run.kind = "triage_ci"
          BY DEF BudgetInv, VerdictInv, RerunRows
        <5>3. MayAsk(RunOf(i))
          BY <1>1, <1>2 DEF MayAsk
        <5> QED BY <4>1, <5>1, <5>2, <5>3 DEF ToAsk
      <4>4. asked[h] < RerunLimit + server.crashes
        BY <4>3 DEF BudgetInv, AskedInv
      <4>5. asked[h] \in Nat
        BY <3>0
      <4>6. asked'[h] <= RerunLimit + server.crashes
        BY <3>0, <4>1, <4>4, <4>5
      <4>7. item.state # "done" => asked'[h] <= reruns[h] + server.crashes + 1
        BY <3>0, <3>1, <4>1, <4>5
      <4> QED BY <1>1, <4>2, <4>6, <4>7
    <3> QED BY <3>2, <3>3
  <2> QED BY <1>13, <2>1 DEF AskedInv
<1> QED BY <1>13, <1>15 DEF BudgetKept

LEMMA RecordBudgeted ==
    ASSUME BudgetInv, NEW t \in Threads, RecordRerun(t) PROVE BudgetKept
<1>1. /\ thread[t].pc = "rerun_event" /\ thread[t].todo = << >> /\ Goes(t, "idle")
      /\ UNCHANGED <<item, runs, asked, checkpoints, server>> /\ thread[t] \in ThreadTypes
  BY DEF RecordRerun, At, BudgetInv, TInv, ThreadsTyped, ThreadTyped
<1>2. PICK i \in RerunRows :
        /\ OnRow(thread[t], i) /\ thread[t].msg.row = i
        /\ checkpoints[i].head \in Heads /\ i \in DOMAIN checkpoints
  BY <1>1, AskingRow DEF Asking
<1> DEFINE head == checkpoints[i].head
           rec == [thread[t] EXCEPT !.pc = "idle"]
<1>3. rec.todo = << >> /\ rec.pc = "idle" /\ rec.msg = thread[t].msg
  BY <1>1 DEF ThreadTypes
<1>4. Becomes(t, rec)
  BY <1>1 DEF Goes
<1> HIDE DEF rec
<1>5. OnRow(rec, i) /\ RerunTodo(item', rec)
  BY <1>2, <1>3 DEF OnRow, RerunTodo
<1>6. /\ \A u \in Threads \ {t} : thread'[u] = thread[u]
      /\ OnRow(thread'[t], i) /\ thread'[t].pc \in {"rerun_event", "idle", "mark"}
      /\ RerunTodo(item', thread'[t])
  BY <1>3, <1>4, <1>5, RerunBecomes
<1>7. RerunStep(t, i)
  BY <1>1, <1>6 DEF RerunStep, VerdictRows, RerunRows
<1>8. ProcessInv' /\ MarkInv' /\ \A h : ~ToAsk(h)'
  BY <1>2, <1>7, RerunStepKeeps
<1>9. ASSUME NEW h \in Heads
      PROVE  /\ item'.state # "done" => asked'[h] <= reruns'[h] + server'.crashes
             /\ asked'[h] <= RerunLimit + server'.crashes
  <2>1. asked[h] \in Nat /\ reruns \in [Heads -> Nat] /\ reruns[h] \in Nat /\ server.crashes \in Nat
    <3>1. server.crashes \in Nat
      BY WorkItemsAssumption DEF BudgetInv, TInv, RowsTyped
    <3> QED BY <3>1 DEF BudgetInv, TInv, CountsTyped
  <2>2. reruns' = [reruns EXCEPT ![head] = @ + 1]
    BY <1>2 DEF RecordRerun
  <2>3. CASE h = head
    <3>1. reruns'[h] = reruns[h] + 1
      BY <2>1, <2>2, <2>3
    <3>2. item.state # "done" => asked[h] <= reruns[h] + server.crashes + 1
      BY <2>1 DEF BudgetInv, AskedInv
    <3>3. asked[h] <= RerunLimit + server.crashes
      BY DEF BudgetInv, AskedInv
    <3> QED BY <1>1, <2>1, <3>1, <3>2, <3>3
  <2>4. CASE h # head
    <3>1. reruns'[h] = reruns[h]
      BY <2>1, <2>2, <2>4
    <3>2. ~Recording(h)
      BY <1>2, <2>4, RecordingIs
    <3> QED BY <1>1, <3>1, <3>2 DEF BudgetInv, AskedInv
  <2> QED BY <2>3, <2>4
<1>10. AskedInv'
  BY <1>8, <1>9 DEF AskedInv
<1> QED BY <1>8, <1>10 DEF BudgetKept

-----------------------------------------------------------------------------
LEMMA AsideKept == ASSUME BudgetInv, Aside, Active' \subseteq Active PROVE BudgetKept
  BY AsideProcess, AsideToAsk, AsideAsked DEF BudgetKept

LEMMA RunsStay == ASSUME UNCHANGED runs PROVE RunsAside /\ Active' = Active
  BY DEF RunsAside, Active

\* A thread is on a rerun, or it has nothing to do with one.
LEMMA RerunOrPlain ==
    ASSUME BudgetInv, NEW t \in Threads
    PROVE  Plain(thread[t]) \/ \E i \in RerunRows : OnRow(thread[t], i)
  BY DEF BudgetInv, ProcessInv, Plain

LEMMA PlainAside ==
    ASSUME BudgetInv, NEW t \in Threads, PlainStep(t), RunsAside,
           UNCHANGED <<counts, checkpoints, server>>
    PROVE  Aside
<1>1. PICK patches, pc : PlainMove(t, patches, pc)
  BY DEF PlainStep
<1>2. Plain(thread[t]) /\ thread[t] # Idle
  BY <1>1, StagePlain DEF PlainMove
<1> QED BY <1>1, <1>2, MoveAside DEF PlainMove

\* A thread that writes the next of its patches
LEMMA WriteMoves ==
    ASSUME BudgetInv, NEW t \in Threads, Write(t)
    PROVE  Moves(t, thread[t].todo, thread[t].pc) /\ thread[t] # Idle
<1>1. thread[t] \in ThreadTypes /\ Commit(t, thread[t])
  BY DEF Write, BudgetInv, TInv, ThreadsTyped, ThreadTyped
<1>2. Staged(thread[t], thread[t].todo, thread[t].pc) = thread[t]
  BY <1>1 DEF Staged, ThreadTypes
<1>3. Commit(t, Staged(thread[t], thread[t].todo, thread[t].pc))
  BY <1>1, <1>2
<1> QED BY <1>3 DEF Moves, Commits, Staged, Write, Idle

LEMMA WriteBudgeted ==
    ASSUME BudgetInv, Setting, NEW t \in Threads, Write(t) PROVE BudgetKept
<1>1. UNCHANGED <<runs, counts, checkpoints, server>>
  BY DEF Write, records
<1>2. CASE Plain(thread[t])
  <2>1. Aside
    BY <1>1, <1>2, WriteMoves, MoveAside, RunsStay DEF Plain, Asking
  <2> QED BY <1>1, <2>1, AsideKept, RunsStay
<1>3. ASSUME NEW i \in RerunRows, OnRow(thread[t], i) PROVE BudgetKept
  <2> DEFINE rec == thread[t]
             written == [rec EXCEPT !.todo = Tail(@), !.cur = item']
  <2>1. /\ rec \in ThreadTypes /\ item \in Items /\ rec.todo # << >> /\ Commit(t, rec)
        /\ Processing(t, i)
    BY <1>3 DEF Write, BudgetInv, TInv, ThreadsTyped, ThreadTyped, ProcessInv
  <2>2. PICK p \in Patches : /\ rec.todo = <<p>>
                             /\ rec.pc = "rerun_event" => p.state = "auto_review"
                             /\ Undisturbed => p.state \in {"auto_review", item.state}
    BY <2>1 DEF Processing, RerunTodo
  <2>3. rec.pc \in {"rerun_event", "idle", "mark"} /\ Head(rec.todo) = p /\ Tail(rec.todo) = << >>
    BY <2>1, <2>2 DEF Processing, RerunTodo
  <2>4. t # Monitor
    BY <2>1 DEF Processing, RunThread, Startup, Monitor
  <2>5. Undisturbed => Allowed(item.state, p.state)
    BY <2>2 DEF BudgetInv, OpenInv, Alive, Allowed, Successors, States, Managed, ReviewStates
  <2>6. rec.pc = "rerun_event" => Allowed(item.state, p.state) \/ item.state = "done"
    BY <2>1, <2>2 DEF Items, Allowed, Successors, States, Managed, ReviewStates
  <2>7. item.state = "done" => item'.state = "done"
    BY <2>1, CommitAbsorbed
  <2>8. ASSUME NEW h \in Heads
        PROVE  asked[h] <= RerunLimit + server.crashes
    BY DEF BudgetInv, AskedInv
  <2>9. CASE Allowed(item.state, p.state)
    <3>1. Becomes(t, written)
      BY <2>1, <2>3, <2>9 DEF Commit
    <3>2. written.todo = << >> /\ written.pc = rec.pc /\ written.msg = rec.msg
      BY <2>1, <2>3 DEF ThreadTypes
    <3> HIDE DEF written
    <3>3. OnRow(written, i) /\ RerunTodo(item', written)
      BY <1>3, <2>3, <3>2 DEF OnRow, RerunTodo
    <3>4. /\ \A u \in Threads \ {t} : thread'[u] = thread[u]
          /\ OnRow(thread'[t], i) /\ thread'[t].pc \in {"rerun_event", "idle", "mark"}
          /\ RerunTodo(item', thread'[t])
          /\ rec.pc = "rerun_event" => thread'[t].pc = "rerun_event"
      BY <2>3, <3>1, <3>2, <3>3, RerunBecomes
    <3>5. RerunStep(t, i)
      BY <1>1, <3>4 DEF RerunStep, VerdictRows, RerunRows
    <3>6. ProcessInv' /\ MarkInv' /\ \A h : ~ToAsk(h)'
      BY <1>3, <3>5, RerunStepKeeps
    <3>7. ASSUME NEW h \in Heads, Recording(h) PROVE Recording(h)'
      <4>1. rec.pc = "rerun_event" /\ checkpoints[i].head = h /\ runs[RunOf(i)].target = h
        BY <1>3, <3>7, RecordingIs
      <4>2. i \in RerunRows' /\ checkpoints'[i].head = h /\ runs'[RunOf(i)'].target = h
        BY <1>1, <4>1 DEF RerunRows, VerdictRows, RunOf
      <4> QED BY <3>4, <4>1, <4>2 DEF Recording, OnRow
    <3>8. AskedInv'
      BY <1>1, <2>7, <2>8, <3>6, <3>7 DEF BudgetInv, AskedInv, counts
    <3> QED BY <3>6, <3>8 DEF BudgetKept
  <2>10. CASE ~Allowed(item.state, p.state)
    <3>1. Becomes(t, Idle) /\ item' = item
      BY <2>1, <2>3, <2>4, <2>10 DEF Commit
    <3>2. thread' = [thread EXCEPT ![t] = Idle]
      BY <3>1 DEF Becomes, Idle, IsCheckpoint
    <3>3. thread'[t] = Idle /\ \A u \in Threads \ {t} : thread'[u] = thread[u]
      BY <3>2 DEF BudgetInv, TInv, ThreadsTyped
    <3>4. CrashLimit = 0
      BY <2>5, <2>10 DEF Setting
    <3>5. RerunStep(t, i)
      BY <1>1, <3>3, <3>4 DEF RerunStep, VerdictRows, RerunRows
    <3>6. ProcessInv' /\ MarkInv' /\ \A h : ~ToAsk(h)'
      BY <1>3, <3>5, RerunStepKeeps
    <3>7. ASSUME NEW h \in Heads, Recording(h) PROVE item.state = "done"
      BY <1>3, <2>6, <2>10, <3>7, RecordingIs
    <3>8. AskedInv'
      BY <1>1, <2>8, <3>1, <3>6, <3>7 DEF BudgetInv, AskedInv, counts
    <3> QED BY <3>6, <3>8 DEF BudgetKept
  <2> QED BY <2>9, <2>10
<1> QED BY <1>2, <1>3, RerunOrPlain

LEMMA MarkBudgeted ==
    ASSUME BudgetInv, NEW t \in Threads, Mark(t) PROVE BudgetKept
<1>1. /\ thread[t].pc = "mark" /\ Becomes(t, Idle) /\ UNCHANGED <<item, runs, counts, server>>
      /\ checkpoints \in Seq(RowTypes)
  BY DEF Mark, At, BudgetInv, TInv, RowsTyped
<1>2. PICK i \in DOMAIN checkpoints : OnRow(thread[t], i)
  BY <1>1 DEF BudgetInv, ProcessInv
<1>3. checkpoints' = [checkpoints EXCEPT ![i].processed = TRUE]
  BY <1>2, OnRowMessage DEF Mark
<1>4. /\ DOMAIN checkpoints' = DOMAIN checkpoints
      /\ \A j \in DOMAIN checkpoints \ {i} : checkpoints'[j] = checkpoints[j]
      /\ checkpoints'[i].type = checkpoints[i].type /\ checkpoints'[i].run = checkpoints[i].run
      /\ checkpoints'[i].verdict = checkpoints[i].verdict
      /\ checkpoints'[i].head = checkpoints[i].head /\ checkpoints'[i].processed
  <2>1. checkpoints'[i] = [checkpoints[i] EXCEPT !.processed = TRUE]
    BY <1>1, <1>2, <1>3
  <2>2. checkpoints[i] \in RowTypes
    BY <1>1, <1>2
  <2>3. /\ DOMAIN checkpoints' = DOMAIN checkpoints
        /\ \A j \in DOMAIN checkpoints \ {i} : checkpoints'[j] = checkpoints[j]
    BY <1>1, <1>2, <1>3
  <2> QED BY <2>1, <2>2, <2>3 DEF RowTypes
<1>5. /\ \A j \in DOMAIN checkpoints : /\ checkpoints'[j].run = checkpoints[j].run
                                         /\ checkpoints'[j].head = checkpoints[j].head
                                         /\ checkpoints'[j].type = checkpoints[j].type
                                         /\ checkpoints'[j].verdict = checkpoints[j].verdict
      /\ VerdictRows' = VerdictRows
  BY <1>4 DEF VerdictRows
<1>6. RerunRows' = RerunRows
  BY <1>5 DEF RerunRows, VerdictRows
<1>7. thread' = [thread EXCEPT ![t] = Idle]
  BY <1>1 DEF Becomes, Idle, IsCheckpoint
<1>8. thread'[t] = Idle /\ \A u \in Threads \ {t} : thread'[u] = thread[u]
  BY <1>7 DEF BudgetInv, TInv, ThreadsTyped
<1>9. CASE i \in RerunRows
  <2>1. RerunStep(t, i)
    BY <1>1, <1>4, <1>5, <1>6, <1>8 DEF RerunStep
  <2>2. ProcessInv' /\ MarkInv' /\ \A h : ~ToAsk(h)'
    BY <1>2, <1>9, <2>1, RerunStepKeeps
  <2>3. \A h \in Heads : ~Recording(h)
    BY <1>1, <1>2, <1>9, RecordingIs
  <2>4. AskedInv'
    BY <1>1, <2>2, <2>3 DEF BudgetInv, AskedInv, counts
  <2> QED BY <2>2, <2>4 DEF BudgetKept
<1>10. CASE i \notin RerunRows
  <2>1. RowsAside
    BY <1>4, <1>5, <1>6, <1>10 DEF RowsAside, RerunRows, VerdictRows
  <2>2. Plain(thread[t])
    BY <1>1, <1>2, <1>10, OneRow DEF Plain, Asking
  <2>3. Plain(thread[t])'
    <3>1. \A j : ~OnRow(Idle, j)
      BY IdlePlain, OnRowMessage DEF Idle
    <3> QED BY <1>8, <3>1 DEF Plain, Asking, OnRow, Idle
  <2>4. ThreadsAside
    BY <1>8, <2>2, <2>3 DEF ThreadsAside
  <2>5. Aside
    BY <1>1, <2>1, <2>4, RunsStay DEF Aside, ItemAside
  <2> QED BY <1>1, <2>5, AsideKept, RunsStay
<1> QED BY <1>9, <1>10

-----------------------------------------------------------------------------
\* A step that changes neither threads nor item nor records
LEMMA StillKept ==
    ASSUME BudgetInv, UNCHANGED <<item, records, server, thread>> PROVE BudgetKept
<1>1. RowsAside /\ ThreadsAside /\ ItemAside
  BY DEF RowsAside, VerdictRows, RerunRows, ThreadsAside, ItemAside, records
<1>2. Aside /\ Active' = Active
  BY <1>1, RunsStay DEF Aside, records
<1> QED BY <1>2, AsideKept

LEMMA ReconcileBudgeted ==
    ASSUME BudgetInv, NEW t \in Threads, Reconcile(t) PROVE BudgetKept
<1>1. PlainStep(t) /\ UNCHANGED <<counts, checkpoints, server>>
  BY ReconcilePlain DEF Reconcile
<1>2. CASE UNCHANGED runs
  BY <1>1, <1>2, PlainAside, AsideKept, RunsStay
<1>3. CASE /\ ShouldAutoLaunch(item) /\ Active = {}
           /\ ~(item.substate = "ci_failed" /\ reruns[item.head] >= RerunLimit)
           /\ runs' = Append(runs, NewRun(LaunchKind(item), item.substate))
  <2> DEFINE new == NewRun(LaunchKind(item), item.substate)
  <2>1. runs \in Seq(RunTypes)
    BY DEF BudgetInv, TInv, RunsTyped
  <2>2. /\ DOMAIN runs' = DOMAIN runs \cup {Len(runs) + 1}
        /\ \A r \in DOMAIN runs : runs'[r] = runs[r]
        /\ runs'[Len(runs) + 1] = new
    BY <1>3, <2>1
  <2>3. new.kind = LaunchKind(item) /\ new.target = item.head
    BY DEF NewRun
  <2> HIDE DEF new
  <2>4. RunsAside
    BY <1>3, <2>2 DEF RunsAside
  <2>5. Aside
    BY <1>1, <2>4, PlainAside
  <2>6. ASSUME NEW h \in Heads, ToAsk(h)' PROVE asked[h] < RerunLimit + server.crashes
    <3>1. PICK r \in Active' : runs'[r].kind = "triage_ci" /\ runs'[r].target = h
      BY <2>6 DEF ToAsk
    <3>2. r = Len(runs) + 1
      BY <1>3, <2>2, <3>1 DEF Active
    <3>3. item.head = h /\ LaunchKind(item) = "triage_ci"
      BY <2>2, <2>3, <3>1, <3>2
    <3>4. item.substate = "ci_failed" /\ item.state = "auto_review"
      BY <1>3, <3>3 DEF LaunchKind, ShouldAutoLaunch
    <3>5. ~Recording(h)
      BY <1>3 DEF Recording, BudgetInv, ProcessInv, Processing
    <3>6. asked[h] <= reruns[h] + server.crashes
      BY <3>4, <3>5 DEF BudgetInv, AskedInv
    <3>7. ~(reruns[h] >= RerunLimit)
      BY <1>3, <3>3, <3>4
    <3>8. asked[h] \in Nat /\ reruns[h] \in Nat /\ server.crashes \in Nat /\ RerunLimit \in Nat
      <4>1. server.crashes \in Nat
        BY WorkItemsAssumption DEF BudgetInv, TInv, RowsTyped
      <4> QED BY <4>1, WorkItemsAssumption DEF BudgetInv, TInv, CountsTyped
    <3> QED BY <3>6, <3>7, <3>8
  <2> QED BY <2>5, <2>6, AsideProcess, AsideAsked DEF BudgetKept
<1> QED BY <1>2, <1>3 DEF Reconcile

\* A thread that starts on something else than a rerun
LEMMA StartAside ==
    ASSUME BudgetInv, RowsAside, NEW t \in Threads, thread[t] = Idle, NEW rec, Becomes(t, rec),
           rec.pc \notin {"rerun", "rerun_event", "mark"},
           \/ ~IsCheckpoint(rec.msg)
           \/ \E i \in DOMAIN checkpoints' \ RerunRows' : OnRow(rec, i)
    PROVE  ThreadsAside
<1>1. Plain(thread[t])
  BY IdlePlain DEF Plain, OnRow
<1>2. \A i : OnRow(rec, i) => i \in DOMAIN checkpoints' \ RerunRows'
  BY OneRow, OnRowMessage
<1>3. IsCheckpoint(rec.msg) => \E i : OnRow(rec, i)
  OBVIOUS
<1> QED BY <1>1, <1>2, <1>3, BecomesAside

LEMMA OutsideBudgeted ==
    ASSUME BudgetInv,
           \/ \E t \in Handlers, i \in DOMAIN hooks : Deliver(t, i)
           \/ PollItem
    PROVE  BudgetKept
<1>1. /\ UNCHANGED <<item, records, server>> /\ RowsAside /\ RunsAside /\ Active' = Active
      /\ UNCHANGED counts
  <2>1. UNCHANGED <<item, records, server>>
    BY DEF Deliver, PollItem
  <2> QED BY <2>1, RunsStay DEF records, RowsAside, VerdictRows, RerunRows
<1>2. ThreadsAside
  <2>1. ASSUME NEW t \in Handlers, NEW i \in DOMAIN hooks, Deliver(t, i) PROVE ThreadsAside
    <3> DEFINE rec == [pc |-> CASE hooks[i].kind = "pull_request" -> "link"
                                [] hooks[i].kind = "check_suite"  -> "check_suite"
                                [] OTHER                          -> "review",
                       msg |-> hooks[i], cur |-> item, todo |-> << >>,
                       off |-> ~Automated(item) /\ item.state # "cancelled"]
    <3>1. hooks[i] \in HookTypes
      BY DEF BudgetInv, TInv, GitHubTyped
    <3>2. ~IsCheckpoint(hooks[i])
      BY <3>1 DEF IsCheckpoint, HookTypes
    <3>3. rec.msg = hooks[i] /\ rec.pc \in {"link", "check_suite", "review"}
      OBVIOUS
    <3>4. Becomes(t, rec) /\ thread[t] = Idle /\ t \in Threads
      BY <2>1 DEF Deliver, MayStart, Threads
    <3> HIDE DEF rec
    <3> QED BY <1>1, <3>2, <3>3, <3>4, StartAside
  <2>2. CASE PollItem
    <3> DEFINE rec == [Idle EXCEPT !.pc = "poll", !.cur = item]
    <3>1. rec.msg = << >> /\ rec.pc = "poll"
      BY DEF Idle
    <3>2. Becomes(Monitor, rec) /\ thread[Monitor] = Idle /\ Monitor \in Threads
      BY <2>2 DEF PollItem, MayStart, Threads
    <3> HIDE DEF rec
    <3> QED BY <1>1, <3>1, <3>2, StartAside DEF IsCheckpoint
  <2> QED BY <2>1, <2>2
<1> QED BY <1>1, <1>2, AsideKept DEF Aside, ItemAside

\* What becomes of a run while its rerun is not being processed
LEMMA SetRunAside ==
    ASSUME BudgetInv, NEW r \in Active, NEW rec, SetRun(r, rec),
           rec.kind = runs[r].kind, rec.target = runs[r].target,
           \/ rec.status \in ActiveStatuses
           \/ server.at = "up" /\ thread[RunThread(r)] = Idle
    PROVE  RunsAside /\ Active' \subseteq Active
<1>1. runs \in Seq(RunTypes) /\ r \in DOMAIN runs
  BY DEF BudgetInv, TInv, RunsTyped, Active
<1>2. /\ DOMAIN runs' = DOMAIN runs /\ runs'[r] = rec
      /\ \A s \in DOMAIN runs \ {r} : runs'[s] = runs[s]
  BY <1>1 DEF SetRun
<1>3. Active' \subseteq Active
  BY <1>2 DEF Active
<1>4. ASSUME NEW i \in RerunRows, RunOf(i) \in Active, RunOf(i) \notin Active'
      PROVE  /\ \A t \in Threads : ~OnRow(thread[t], i)
             /\ CrashLimit # 0 => checkpoints[i].processed
  <2>1. RunOf(i) = r
    BY <1>4 DEF BudgetInv, OneActive
  <2>2. rec.status \notin ActiveStatuses
    BY <1>1, <1>2, <1>4, <2>1 DEF Active
  <2>3. server.at = "up" /\ \A j : ~OnRow(thread[RunThread(r)], j)
    BY <2>2, IdlePlain, OnRowMessage DEF Idle
  <2> QED BY <2>1, <2>3 DEF BudgetInv, ProcessInv, Processing, MarkInv
<1> QED BY <1>2, <1>3, <1>4 DEF RunsAside

\* The processing of a row that is no rerun
LEMMA ProcessesAside ==
    ASSUME BudgetInv, RowsAside, NEW t \in Threads, thread[t] = Idle, NEW row,
           NEW i \in DOMAIN checkpoints' \ RerunRows',
           row.type = "verdict" => row.verdict \in {"none", "fix_needed"}, Processes(t, row, i)
    PROVE  ThreadsAside
<1> DEFINE start == [Idle EXCEPT !.msg = [kind |-> "checkpoint", row |-> i], !.cur = item]
           verdict == [start EXCEPT !.pc = row.verdict]
           ready == [start EXCEPT !.todo = ProgressReady(item).patches]
<1>1. OnRow(verdict, i) /\ OnRow(ready, i) /\ verdict.pc = row.verdict /\ ready.pc = "idle"
  BY DEF Idle, OnRow
<1>2. (row.type = "verdict" /\ Becomes(t, verdict)) \/ Becomes(t, ready)
  BY DEF Processes
<1> HIDE DEF verdict, ready
<1> QED BY <1>1, <1>2, StartAside

-----------------------------------------------------------------------------
NewRow(r, type, verdict) ==
    [run |-> r, type |-> type, verdict |-> verdict, head |-> runs[r].head, processed |-> FALSE]

\* A row that is inserted comes after the others.
LEMMA InsertedRow ==
    ASSUME BudgetInv, NEW r, NEW type, NEW verdict,
           checkpoints' = Append(checkpoints, NewRow(r, type, verdict))
    PROVE  LET n == Len(checkpoints) + 1
           IN  /\ n \notin DOMAIN checkpoints /\ DOMAIN checkpoints' = DOMAIN checkpoints \cup {n}
               /\ checkpoints'[n] = NewRow(r, type, verdict)
               /\ \A i \in DOMAIN checkpoints : checkpoints'[i] = checkpoints[i]
               /\ Last(checkpoints') = checkpoints'[n] /\ Len(checkpoints') = n
<1>1. checkpoints \in Seq(RowTypes)
  BY DEF BudgetInv, TInv, RowsTyped
<1> DEFINE new == NewRow(r, type, verdict)
<1> HIDE DEF new
<1>2. checkpoints' = Append(checkpoints, new)
  BY DEF new
<1>3. /\ Len(checkpoints') = Len(checkpoints) + 1
      /\ DOMAIN checkpoints' = DOMAIN checkpoints \cup {Len(checkpoints) + 1}
      /\ Len(checkpoints) + 1 \notin DOMAIN checkpoints
      /\ checkpoints'[Len(checkpoints) + 1] = new
      /\ \A i \in DOMAIN checkpoints : checkpoints'[i] = checkpoints[i]
  BY <1>1, <1>2
<1> QED BY <1>3 DEF new, Last

\* A run's row that is no rerun is inserted, or processed once more.
LEMMA EmitsAside ==
    ASSUME BudgetInv, NEW r, RunThread(r) \in Threads, thread[RunThread(r)] = Idle,
           NEW type, NEW verdict, type = "verdict" => verdict \in {"none", "fix_needed"},
           \A i \in RerunRows \cap Rows(r, type) : checkpoints[i].processed,
           Emits(r, type, verdict)
    PROVE  RowsAside /\ ThreadsAside
<1>1. CASE /\ checkpoints' = Append(checkpoints, NewRow(r, type, verdict))
           /\ Processes(RunThread(r), Last(checkpoints'), Len(checkpoints'))
  <2> DEFINE n == Len(checkpoints) + 1
             new == NewRow(r, type, verdict)
  <2>1. /\ n \notin DOMAIN checkpoints /\ DOMAIN checkpoints' = DOMAIN checkpoints \cup {n}
        /\ checkpoints'[n] = new
        /\ \A i \in DOMAIN checkpoints : checkpoints'[i] = checkpoints[i]
        /\ Last(checkpoints') = checkpoints'[n] /\ Len(checkpoints') = n
    BY <1>1, InsertedRow
  <2>2. new.type = type /\ new.verdict = verdict
    BY DEF NewRow
  <2> HIDE DEF new, n
  <2>3. VerdictRows \subseteq VerdictRows'
    BY <2>1 DEF VerdictRows
  <2>4. RerunRows' = RerunRows /\ n \notin RerunRows'
    BY <2>1, <2>2 DEF RerunRows, VerdictRows
  <2>5. RowsAside
    BY <2>1, <2>3, <2>4 DEF RowsAside, RerunRows, VerdictRows
  <2>6. Processes(RunThread(r), new, n)
    BY <1>1, <2>1
  <2> QED BY <2>1, <2>2, <2>4, <2>5, <2>6, ProcessesAside
<1>2. ASSUME NEW i \in Rows(r, type), UNCHANGED checkpoints,
             IF checkpoints[i].processed THEN UNCHANGED thread
                                         ELSE Processes(RunThread(r), checkpoints[i], i)
      PROVE  RowsAside /\ ThreadsAside
  <2>1. RowsAside
    BY <1>2 DEF RowsAside, VerdictRows, RerunRows
  <2>2. CASE checkpoints[i].processed
    BY <1>2, <2>1, <2>2 DEF ThreadsAside
  <2>3. CASE ~checkpoints[i].processed
    <3>1. i \in DOMAIN checkpoints /\ i \notin RerunRows
      BY <1>2, <2>3 DEF Rows
    <3>2. checkpoints[i] \in RowTypes
      BY <3>1 DEF BudgetInv, TInv, RowsTyped
    <3>3. checkpoints[i].type = "verdict" => checkpoints[i].verdict \in {"none", "fix_needed"}
      BY <3>1, <3>2 DEF RowTypes, RerunRows, VerdictRows
    <3>4. i \in DOMAIN checkpoints' \ RerunRows'
      BY <1>2, <3>1 DEF RerunRows, VerdictRows
    <3> QED BY <1>2, <2>1, <2>3, <3>3, <3>4, ProcessesAside
  <2> QED BY <2>1, <2>2, <2>3
<1> QED BY <1>1, <1>2 DEF Emits, NewRow

\* The processing of a rerun starts.
LEMMA ProcessesRerun ==
    ASSUME BudgetInv, NEW t \in Threads, NEW row, row.type = "verdict", row.verdict = "rerun",
           NEW i, Processes(t, row, i)
    PROVE  /\ OnRow(thread'[t], i) /\ thread'[t].pc = "rerun" /\ thread'[t].todo = << >>
           /\ \A u \in Threads \ {t} : thread'[u] = thread[u]
<1> DEFINE start == [Idle EXCEPT !.msg = [kind |-> "checkpoint", row |-> i], !.cur = item]
           rec == [start EXCEPT !.pc = row.verdict]
<1>1. OnRow(rec, i) /\ rec.pc = "rerun" /\ rec.todo = << >>
  BY DEF Idle, OnRow
<1>2. Becomes(t, rec)
  BY DEF Processes
<1> HIDE DEF rec
<1>3. thread' = [thread EXCEPT ![t] = rec]
  BY <1>1, <1>2 DEF Becomes
<1> QED BY <1>1, <1>3 DEF BudgetInv, TInv, ThreadsTyped

\* A run decides on a rerun: it may, and is the only one that processes any.
LEMMA NewRerun ==
    ASSUME BudgetInv, NEW r \in Active, server.at = "up", RunThread(r) \in Threads,
           runs[r].kind = "triage_ci", Rows(r, "verdict") = {},
           checkpoints' = Append(checkpoints, NewRow(r, "verdict", "rerun")),
           Processes(RunThread(r), Last(checkpoints'), Len(checkpoints')),
           RunsAside, Active' = Active, UNCHANGED <<item, counts, server>>
    PROVE  BudgetKept
<1> DEFINE new == NewRow(r, "verdict", "rerun")
<1>1. PICK n : /\ n \notin DOMAIN checkpoints
               /\ DOMAIN checkpoints' = DOMAIN checkpoints \cup {n}
               /\ checkpoints'[n] = new
               /\ \A i \in DOMAIN checkpoints : checkpoints'[i] = checkpoints[i]
               /\ Last(checkpoints') = checkpoints'[n] /\ Len(checkpoints') = n
  BY InsertedRow
<1>2. new.type = "verdict" /\ new.verdict = "rerun" /\ new.run = r
  BY DEF NewRow
<1> HIDE DEF new
<1>3. Processes(RunThread(r), new, n)
  BY <1>1
<1>4. /\ OnRow(thread'[RunThread(r)], n) /\ thread'[RunThread(r)].pc = "rerun"
      /\ thread'[RunThread(r)].todo = << >>
      /\ \A u \in Threads \ {RunThread(r)} : thread'[u] = thread[u]
  BY <1>2, <1>3, ProcessesRerun
<1>5. RerunRows' = RerunRows \cup {n} /\ VerdictRows' = VerdictRows \cup {n}
  BY <1>1, <1>2 DEF RerunRows, VerdictRows
<1>6. /\ RunOf(n)' = r
      /\ \A i \in VerdictRows : RunOf(i)' = RunOf(i) /\ RunOf(i) # r
  BY <1>1, <1>2 DEF RunOf, VerdictRows, Rows
<1>7. \A i \in RerunRows : RunOf(i) \notin Active
  BY <1>6 DEF BudgetInv, OneActive, RerunRows
<1>8. \A u \in Threads, i \in RerunRows : ~OnRow(thread[u], i)
  BY <1>7 DEF BudgetInv, ProcessInv, Processing
<1>9. ASSUME NEW u \in Threads, NEW i \in RerunRows', OnRow(thread'[u], i)
      PROVE  u = RunThread(r) /\ i = n
  <2>1. CASE u = RunThread(r)
    BY <1>4, <1>9, <2>1, OneRow
  <2>2. CASE u # RunThread(r)
    <3>1. OnRow(thread[u], i)
      BY <1>4, <1>9, <2>2
    <3>2. i \in DOMAIN checkpoints
      BY <3>1 DEF BudgetInv, ProcessInv
    <3> QED BY <1>1, <1>5, <1>8, <3>1, <3>2
  <2> QED BY <2>1, <2>2
<1>10. ProcessInv'
  <2>1. ASSUME NEW u \in Threads, NEW i, OnRow(thread'[u], i) PROVE i \in DOMAIN checkpoints'
    <3>1. CASE u = RunThread(r)
      BY <1>1, <1>4, <2>1, <3>1, OneRow
    <3>2. CASE u # RunThread(r)
      BY <1>1, <1>4, <2>1, <3>2 DEF BudgetInv, ProcessInv
    <3> QED BY <3>1, <3>2
  <2>2. Processing(RunThread(r), n)'
    BY <1>4, <1>6 DEF Processing, RerunTodo
  <2>3. ASSUME NEW u \in Threads, Asking(thread'[u])
        PROVE  \E i \in RerunRows' : OnRow(thread'[u], i)
    <3>1. CASE u = RunThread(r)
      BY <1>4, <1>5, <3>1
    <3>2. CASE u # RunThread(r)
      BY <1>4, <1>5, <2>3, <3>2 DEF BudgetInv, ProcessInv
    <3> QED BY <3>1, <3>2
  <2>4. ASSUME NEW u \in Threads, thread'[u].pc = "mark"
        PROVE  \E i \in DOMAIN checkpoints' : OnRow(thread'[u], i)
    BY <1>1, <1>4, <2>4 DEF BudgetInv, ProcessInv
  <2> QED BY <1>9, <2>1, <2>2, <2>3, <2>4 DEF ProcessInv, OnRow, Asking
<1>11. MarkInv'
  <2>1. ASSUME CrashLimit # 0, NEW i \in RerunRows', ~checkpoints'[i].processed PROVE i = n
    <3>1. CASE i \in RerunRows
      <4>1. checkpoints'[i] = checkpoints[i]
        BY <1>1, <3>1 DEF RerunRows, VerdictRows
      <4> QED BY <1>7, <2>1, <3>1, <4>1 DEF BudgetInv, MarkInv
    <3> QED BY <1>5, <3>1
  <2> QED BY <1>4, <1>6, <2>1 DEF MarkInv, OnRow
<1>12. ASSUME NEW h \in Heads, ToAsk(h)' PROVE ToAsk(h)
  <2>1. PICK s \in Active' : runs'[s].kind = "triage_ci" /\ runs'[s].target = h
    BY <1>12 DEF ToAsk
  <2>2. s = r
    BY <2>1 DEF BudgetInv, OneActive
  <2>3. runs[r].target = h
    BY <2>1, <2>2 DEF RunsAside, Active
  <2>4. MayAsk(r)
    BY <1>6 DEF MayAsk
  <2> QED BY <2>3, <2>4 DEF ToAsk
<1>13. \A h : ~Recording(h)
  BY <1>8 DEF Recording
<1>14. AskedInv'
  BY <1>12, <1>13 DEF BudgetInv, AskedInv, counts
<1> QED BY <1>10, <1>11, <1>14 DEF BudgetKept

-----------------------------------------------------------------------------
LEMMA ThreadOfRun ==
    ASSUME BudgetInv, NEW r \in DOMAIN runs PROVE RunThread(r) \in Threads
<1>1. r \in 1..RunLimit
  BY WorkItemsAssumption DEF BudgetInv, TInv, RunsTyped
<1> QED BY <1>1 DEF Threads

\* A run that begins again after a crash finds its rerun marked.
LEMMA RerunIsMarked ==
    ASSUME BudgetInv, NEW r \in DOMAIN runs, Running(r, "started"),
           NEW i \in RerunRows \cap Rows(r, "verdict")
    PROVE  checkpoints[i].processed
<1>1. RunOf(i) = r /\ i \in VerdictRows
  BY DEF Rows, RunOf, RerunRows
<1>2. CrashLimit # 0
  BY <1>1 DEF BudgetInv, VerdictInv, Running
<1>3. server.at = "up" /\ ~OnRow(thread[RunThread(r)], i)
  BY OnRowMessage DEF Running, MayStart, Idle
<1> QED BY <1>1, <1>2, <1>3 DEF BudgetInv, MarkInv

LEMMA VerdictBudgeted ==
    ASSUME BudgetInv, NEW r \in DOMAIN runs, NEW v \in {"fix_needed", "rerun"}, EmitVerdict(r, v)
    PROVE  BudgetKept
<1> DEFINE t == RunThread(r)
           rec == [runs[r] EXCEPT !.stage = "decided"]
<1>1. /\ Running(r, "started") /\ runs[r].kind = "triage_ci" /\ SetRun(r, rec)
      /\ Emits(r, "verdict", v) /\ UNCHANGED <<item, counts, server>>
  BY DEF EmitVerdict
<1>2. server.at = "up" /\ thread[t] = Idle /\ r \in Active
  BY <1>1 DEF Running, MayStart, Active, ActiveStatuses
<1>3. rec.kind = runs[r].kind /\ rec.target = runs[r].target /\ rec.status \in ActiveStatuses
  <2>1. runs[r] \in RunTypes
    BY DEF BudgetInv, TInv, RunsTyped
  <2> QED BY <1>1, <2>1 DEF RunTypes, Running, ActiveStatuses
<1>4. RunsAside /\ Active' \subseteq Active
  BY <1>1, <1>2, <1>3, SetRunAside
<1>5. CASE v = "rerun" /\ Rows(r, "verdict") = {}
  <2>1. Active' = Active
    <3>1. runs' = [runs EXCEPT ![r] = rec]
      BY <1>1 DEF SetRun
    <3> HIDE DEF rec
    <3>2. r \in Active'
      BY <1>3, <3>1 DEF Active
    <3> QED BY <1>2, <1>4, <3>2 DEF BudgetInv, OneActive
  <2>2. /\ checkpoints' = Append(checkpoints, NewRow(r, "verdict", "rerun"))
        /\ Processes(t, Last(checkpoints'), Len(checkpoints'))
    BY <1>1, <1>5 DEF Emits, NewRow
  <2> HIDE DEF rec
  <2> QED BY <1>1, <1>2, <1>4, <1>5, <2>1, <2>2, NewRerun, ThreadOfRun
<1>6. CASE ~(v = "rerun" /\ Rows(r, "verdict") = {})
  <2>1. \A i \in RerunRows \cap Rows(r, "verdict") : checkpoints[i].processed
    BY <1>1, RerunIsMarked
  <2>2. Emits(r, "verdict", "fix_needed")
    BY <1>1, <1>6 DEF Emits
  <2>3. RowsAside /\ ThreadsAside
    BY <1>2, <2>1, <2>2, EmitsAside, ThreadOfRun
  <2> QED BY <1>1, <1>4, <2>3, AsideKept DEF Aside, ItemAside
<1> QED BY <1>5, <1>6

LEMMA RunBudgeted ==
    ASSUME BudgetInv, NEW r \in DOMAIN runs, RunStep(r) PROVE BudgetKept
<1> DEFINE t == RunThread(r)
<1>0. runs[r] \in RunTypes /\ t \in Threads
  BY ThreadOfRun DEF BudgetInv, TInv, RunsTyped
<1>1. CASE StartRun(r)
  <2> DEFINE rec == [runs[r] EXCEPT !.status = "running", !.head = pr.head, !.stage = "started"]
  <2>1. rec.kind = runs[r].kind /\ rec.target = runs[r].target /\ rec.status = "running"
    BY <1>0 DEF RunTypes
  <2>2. SetRun(r, rec) /\ r \in Active /\ UNCHANGED <<item, counts, checkpoints, server, thread>>
    BY <1>1 DEF StartRun, Active, ActiveStatuses
  <2> HIDE DEF rec
  <2>3. RunsAside /\ Active' \subseteq Active
    BY <2>1, <2>2, SetRunAside DEF ActiveStatuses
  <2>4. RowsAside /\ ThreadsAside
    BY <2>2 DEF RowsAside, VerdictRows, RerunRows, ThreadsAside
  <2> QED BY <2>2, <2>3, <2>4, AsideKept DEF Aside, ItemAside
<1>2. CASE Complete(r)
  <2> DEFINE rec == [runs[r] EXCEPT !.status = "completed"]
  <2>1. rec.kind = runs[r].kind /\ rec.target = runs[r].target
    BY <1>0 DEF RunTypes
  <2>2. /\ SetRun(r, rec) /\ r \in Active /\ server.at = "up" /\ thread[t] = Idle
        /\ UNCHANGED <<item, counts, checkpoints, server, thread>>
    BY <1>2 DEF Complete, Active, ActiveStatuses
  <2> HIDE DEF rec
  <2>3. RunsAside /\ Active' \subseteq Active
    BY <2>1, <2>2, SetRunAside
  <2>4. RowsAside /\ ThreadsAside
    BY <2>2 DEF RowsAside, VerdictRows, RerunRows, ThreadsAside
  <2> QED BY <2>2, <2>3, <2>4, AsideKept DEF Aside, ItemAside
<1>3. ASSUME NEW type \in {"wait", "terminal"}, Progress(r, type) PROVE BudgetKept
  <2> DEFINE rec == [runs[r] EXCEPT !.stage = "reported"]
  <2>1. /\ SetRun(r, rec) /\ r \in Active /\ thread[t] = Idle /\ runs[r].status = "running"
        /\ UNCHANGED <<item, counts, server>>
    BY <1>3 DEF Progress, Running, MayStart, Active, ActiveStatuses
  <2>2. rec.kind = runs[r].kind /\ rec.target = runs[r].target /\ rec.status = "running"
    BY <1>0, <2>1 DEF RunTypes
  <2> HIDE DEF rec
  <2>3. RunsAside /\ Active' \subseteq Active
    BY <2>1, <2>2, SetRunAside DEF ActiveStatuses
  <2>4. RerunRows \cap Rows(r, type) = {}
    BY DEF RerunRows, VerdictRows, Rows
  <2>5. RowsAside /\ ThreadsAside
    <3>1. CASE UNCHANGED <<checkpoints, thread>>
      BY <3>1 DEF RowsAside, VerdictRows, RerunRows, ThreadsAside
    <3>2. CASE Emits(r, type, "none")
      BY <1>0, <2>1, <2>4, <3>2, EmitsAside
    <3> QED BY <1>3, <3>1, <3>2 DEF Progress
  <2> QED BY <2>1, <2>3, <2>5, AsideKept DEF Aside, ItemAside
<1>4. ASSUME NEW v \in {"fix_needed", "rerun"}, EmitVerdict(r, v) PROVE BudgetKept
  BY <1>4, VerdictBudgeted
<1>5. ASSUME NEW prefetch \in BOOLEAN, Fail(r, prefetch) PROVE BudgetKept
  <2> DEFINE rec == [runs[r] EXCEPT !.status = "failed"]
  <2>1. rec.kind = runs[r].kind /\ rec.target = runs[r].target
    BY <1>0 DEF RunTypes
  <2>2. /\ SetRun(r, rec) /\ r \in Active /\ server.at = "up" /\ thread[t] = Idle
        /\ UNCHANGED <<item, counts, checkpoints, server>>
    BY <1>5 DEF Fail, MayStart, Active, ActiveStatuses
  <2>3. PICK pc \in {"fallback", "rollback", "idle"} : Becomes(t, [Idle EXCEPT !.pc = pc])
    BY <1>5 DEF Fail
  <2> DEFINE new == [Idle EXCEPT !.pc = pc]
  <2>4. new.msg = << >> /\ new.pc = pc
    BY DEF Idle
  <2> HIDE DEF rec
  <2>5. RunsAside /\ Active' \subseteq Active
    BY <2>1, <2>2, SetRunAside
  <2>6. RowsAside
    BY <2>2 DEF RowsAside, VerdictRows, RerunRows
  <2>7. Becomes(t, new)
    BY <2>3
  <2> HIDE DEF new
  <2>8. ThreadsAside
    BY <1>0, <2>2, <2>4, <2>6, <2>7, StartAside DEF IsCheckpoint
  <2> QED BY <2>2, <2>5, <2>6, <2>8, AsideKept DEF Aside, ItemAside
<1> QED BY <1>1, <1>2, <1>3, <1>4, <1>5 DEF RunStep

-----------------------------------------------------------------------------
\* A crash: what was asked may not be recorded, but one more is allowed.
LEMMA CrashBudgeted == ASSUME BudgetInv, Crash PROVE BudgetKept
<1>1. /\ UNCHANGED <<item, runs, reruns, asked, checkpoints>>
      /\ server' = [at |-> "replay", crashes |-> server.crashes + 1, replayed |-> 0]
      /\ \A t \in Threads : thread'[t] = Idle
  BY DEF Crash, records, counts
<1>2. server.crashes \in Nat /\ CrashLimit # 0 /\ RerunLimit \in Nat
  BY WorkItemsAssumption DEF BudgetInv, TInv, RowsTyped, Crash
<1>3. RerunRows' = RerunRows /\ VerdictRows' = VerdictRows /\ Active' = Active
  BY <1>1 DEF RerunRows, VerdictRows, Active
<1>4. \A i : ~OnRow(Idle, i)
  BY OnRowMessage DEF Idle
<1>5. ProcessInv'
  BY <1>1, <1>4 DEF ProcessInv, OnRow, Asking, Idle
<1>6. MarkInv'
  <2>1. ASSUME NEW i \in RerunRows, ~checkpoints[i].processed PROVE RunOf(i) \in Active /\ i > 0
    BY <1>2, <2>1 DEF BudgetInv, MarkInv, RerunRows, VerdictRows, TInv, RowsTyped
  <2> QED BY <1>1, <1>3, <2>1 DEF MarkInv, RunOf
<1>7. AskedInv'
  <2>1. ASSUME NEW h \in Heads
        PROVE  /\ item'.state # "done" => asked'[h] <= reruns'[h] + server'.crashes
               /\ asked'[h] <= RerunLimit + server'.crashes
               /\ asked'[h] < RerunLimit + server'.crashes
    <3>1. asked[h] \in Nat /\ reruns[h] \in Nat
      BY DEF BudgetInv, TInv, CountsTyped
    <3>2. /\ item.state # "done" => asked[h] <= reruns[h] + server.crashes + 1
          /\ asked[h] <= RerunLimit + server.crashes
      BY <1>2, <3>1 DEF BudgetInv, AskedInv
    <3>3. server'.crashes = server.crashes + 1
      BY <1>1
    <3> QED BY <1>1, <1>2, <3>1, <3>2, <3>3
  <2> QED BY <2>1 DEF AskedInv
<1> QED BY <1>5, <1>6, <1>7 DEF BudgetKept

\* While the server is down, no thread is on a rerun that startup is not on.
LEMMA StartupIdle ==
    ASSUME BudgetInv, server.at # "up", thread[Startup] = Idle,
           NEW t \in Threads, NEW i \in RerunRows
    PROVE  ~OnRow(thread[t], i)
<1>1. ~OnRow(Idle, i)
  BY OnRowMessage DEF Idle
<1> QED BY <1>1 DEF BudgetInv, ProcessInv, Processing

LEMMA RecoverBudgeted == ASSUME BudgetInv, Recover PROVE BudgetKept
<1> DEFINE After(r) == IF r \in Active
                         THEN [runs[r] EXCEPT !.status = "queued", !.stage = "none"]
                         ELSE runs[r]
<1>0. /\ runs \in Seq(RunTypes)
      /\ server \in [at : {"up", "replay"}, crashes : 0..CrashLimit,
                     replayed : 0..Len(checkpoints)]
  BY DEF BudgetInv, TInv, RunsTyped, RowsTyped
<1>a. /\ UNCHANGED <<item, reruns, asked, checkpoints, thread>>
      /\ server.at = "replay" /\ thread[Startup] = Idle /\ Unprocessed = {}
  BY Zenon DEF Recover, counts
<1>b. server' = [server EXCEPT !.at = "up", !.replayed = 0]
  BY Zenon DEF Recover
<1>c. runs' = [r \in DOMAIN runs |-> After(r)]
  BY Zenon DEF Recover
<1>1. /\ UNCHANGED <<item, reruns, asked, checkpoints, thread>>
      /\ server' = [server EXCEPT !.at = "up", !.replayed = 0]
      /\ server.at = "replay" /\ thread[Startup] = Idle /\ Unprocessed = {}
      /\ runs \in Seq(RunTypes)
      /\ server \in [at : {"up", "replay"}, crashes : 0..CrashLimit,
                     replayed : 0..Len(checkpoints)]
  BY <1>0, <1>a, <1>b
<1>2. RerunRows' = RerunRows /\ VerdictRows' = VerdictRows
  BY <1>1 DEF RerunRows, VerdictRows
<1>3. /\ DOMAIN runs' = DOMAIN runs
      /\ \A r \in DOMAIN runs : /\ runs'[r].kind = runs[r].kind /\ runs'[r].target = runs[r].target
                                /\ r \in Active <=> runs'[r].status \in ActiveStatuses
  <2>1. ASSUME NEW r \in DOMAIN runs
        PROVE  /\ After(r).kind = runs[r].kind /\ After(r).target = runs[r].target
               /\ r \in Active <=> After(r).status \in ActiveStatuses
    <3>1. runs[r] \in RunTypes
      BY <1>0
    <3>2. CASE r \in Active
      <4>1. After(r) = [runs[r] EXCEPT !.status = "queued", !.stage = "none"]
        BY <3>2
      <4> HIDE DEF After
      <4> QED BY <3>1, <3>2, <4>1 DEF RunTypes, ActiveStatuses
    <3>3. CASE r \notin Active
      BY <3>3 DEF Active
    <3> QED BY <3>2, <3>3
  <2> HIDE DEF After
  <2> QED BY <1>c, <2>1
<1>4. Active' = Active
  BY <1>3 DEF Active
<1>5. \A t \in Threads, i \in RerunRows : ~OnRow(thread[t], i)
  BY <1>1, StartupIdle
<1>6. server'.at = "up" /\ server'.crashes = server.crashes
  BY <1>1
<1>7. ProcessInv'
  BY <1>1, <1>2, <1>5 DEF BudgetInv, ProcessInv, OnRow, Asking
<1>8. MarkInv'
  <2>1. ASSUME CrashLimit # 0, NEW i \in RerunRows PROVE checkpoints[i].processed
    <3>1. i \in DOMAIN checkpoints /\ i \notin Unprocessed
      BY <1>1 DEF RerunRows, VerdictRows
    <3>2. checkpoints[i].processed \/ ~(i > server.replayed)
      BY <3>1 DEF Unprocessed
    <3>3. Startup \in Threads
      BY DEF Threads
    <3> QED BY <1>1, <1>5, <2>1, <3>2, <3>3 DEF BudgetInv, MarkInv
  <2> QED BY <1>1, <1>2, <2>1 DEF MarkInv
<1>9. ASSUME NEW h \in Heads, ToAsk(h)' PROVE ToAsk(h)
  <2>1. PICK r \in Active : runs[r].kind = "triage_ci" /\ runs[r].target = h /\ MayAsk(r)'
    BY <1>3, <1>4, <1>9 DEF ToAsk, Active
  <2>2. \A i \in VerdictRows : RunOf(i) # r
    BY <1>1, <1>2, <1>5, <1>6, <2>1 DEF MayAsk, RunOf, OnRow
  <2> QED BY <2>1, <2>2 DEF ToAsk, MayAsk
<1>10. \A h : ~Recording(h)
  BY <1>5 DEF Recording
<1>11. AskedInv'
  BY <1>1, <1>6, <1>9, <1>10 DEF BudgetInv, AskedInv
<1> QED BY <1>7, <1>8, <1>11 DEF BudgetKept

LEMMA ReplaysBudgeted == ASSUME BudgetInv, Replays PROVE BudgetKept
<1>1. PICK i \in Unprocessed :
        /\ \A j \in Unprocessed : i <= j
        /\ server' = [server EXCEPT !.replayed = i]
        /\ Processes(Startup, checkpoints[i], i)
  BY DEF Replays
<1>2. /\ UNCHANGED <<item, runs, reruns, asked, checkpoints>>
      /\ server.at = "replay" /\ thread[Startup] = Idle /\ Startup \in Threads
      /\ server \in [at : {"up", "replay"}, crashes : 0..CrashLimit,
                     replayed : 0..Len(checkpoints)]
      /\ checkpoints \in Seq(RowTypes)
  BY DEF Replays, records, counts, BudgetInv, TInv, RowsTyped, Threads
<1>3. /\ server'.at = "replay" /\ server'.crashes = server.crashes /\ server'.replayed = i
      /\ server.replayed \in Nat /\ CrashLimit # 0
  <2>1. CrashLimit # 0
    BY <1>2 DEF BudgetInv, VerdictInv
  <2> QED BY <1>1, <1>2, <2>1
<1>4. i \in DOMAIN checkpoints /\ ~checkpoints[i].processed /\ i > server.replayed /\ i \in Nat
  BY <1>1, <1>2 DEF Unprocessed
<1>5. RerunRows' = RerunRows /\ VerdictRows' = VerdictRows /\ Active' = Active
  BY <1>2 DEF RerunRows, VerdictRows, Active
<1>6. \A t \in Threads, j \in RerunRows : ~OnRow(thread[t], j)
  BY <1>2, StartupIdle
<1>7. \A j \in RerunRows : ~checkpoints[j].processed =>
        RunOf(j) \in Active /\ j \in Unprocessed /\ j \in Nat
  BY <1>2, <1>3, <1>6 DEF BudgetInv, MarkInv, Unprocessed, RerunRows, VerdictRows
<1>8. /\ \A t \in Threads \ {Startup} : thread'[t] = thread[t]
      /\ i \in RerunRows =>
           OnRow(thread'[Startup], i) /\ thread'[Startup].pc = "rerun" /\ thread'[Startup].todo = << >>
      /\ i \notin RerunRows => Plain(thread[Startup])'
  <2>1. CASE i \in RerunRows
    BY <1>1, <1>2, <2>1, ProcessesRerun DEF RerunRows, VerdictRows
  <2>2. CASE i \notin RerunRows
    <3>1. RowsAside
      BY <1>2, <1>5 DEF RowsAside, RerunRows, VerdictRows
    <3>0. checkpoints[i] \in RowTypes
      BY <1>2, <1>4
    <3>2. checkpoints[i].type = "verdict" => checkpoints[i].verdict \in {"none", "fix_needed"}
      BY <1>4, <2>2, <3>0 DEF RowTypes, RerunRows, VerdictRows
    <3>3. i \in DOMAIN checkpoints' \ RerunRows'
      BY <1>2, <1>4, <1>5, <2>2
    <3>4. ThreadsAside
      BY <1>1, <1>2, <3>1, <3>2, <3>3, ProcessesAside
    <3>5. \A t \in Threads \ {Startup} : thread'[t] = thread[t]
      BY <1>1 DEF Processes, Becomes, BudgetInv, TInv, ThreadsTyped
    <3>6. thread'[Startup] = thread[Startup] => Plain(thread[Startup])'
      BY <1>2, IdlePlain DEF Plain, OnRow, Asking
    <3> QED BY <1>2, <2>2, <3>4, <3>5, <3>6 DEF ThreadsAside
  <2> QED BY <2>1, <2>2
<1>9. ASSUME NEW t \in Threads, NEW j \in RerunRows, OnRow(thread'[t], j)
      PROVE  t = Startup /\ j = i /\ i \in RerunRows
  <2>1. t = Startup
    BY <1>6, <1>8, <1>9
  <2>2. i \in RerunRows
    BY <1>5, <1>8, <1>9, <2>1 DEF Plain, OnRow
  <2> QED BY <1>8, <1>9, <2>1, <2>2, OneRow
<1>10. ProcessInv'
  <2>1. ASSUME NEW t \in Threads, NEW j, OnRow(thread'[t], j) PROVE j \in DOMAIN checkpoints'
    <3>1. CASE t # Startup
      BY <1>2, <1>8, <2>1, <3>1 DEF BudgetInv, ProcessInv
    <3>2. CASE t = Startup /\ i \in RerunRows
      BY <1>2, <1>4, <1>8, <2>1, <3>2, OneRow
    <3>3. CASE t = Startup /\ i \notin RerunRows
      BY <1>8, <2>1, <3>3 DEF Plain, OnRow
    <3> QED BY <3>1, <3>2, <3>3
  <2>2. i \in RerunRows => Processing(Startup, i)'
    BY <1>2, <1>3, <1>4, <1>5, <1>7, <1>8 DEF Processing, RerunTodo, RunOf
  <2>3. ASSUME NEW t \in Threads, Asking(thread'[t])
        PROVE  \E j \in RerunRows' : OnRow(thread'[t], j)
    <3>1. CASE t # Startup
      BY <1>5, <1>8, <2>3, <3>1 DEF BudgetInv, ProcessInv
    <3>2. CASE t = Startup
      BY <1>5, <1>8, <2>3, <3>2 DEF Plain, Asking
    <3> QED BY <3>1, <3>2
  <2>4. ASSUME NEW t \in Threads, thread'[t].pc = "mark"
        PROVE  \E j \in DOMAIN checkpoints' : OnRow(thread'[t], j)
    <3>1. CASE t # Startup
      BY <1>2, <1>8, <2>4, <3>1 DEF BudgetInv, ProcessInv
    <3>2. CASE t = Startup
      BY <1>8, <2>4, <3>2 DEF Plain, OnRow
    <3> QED BY <3>1, <3>2
  <2> QED BY <1>5, <1>9, <2>1, <2>2, <2>3, <2>4 DEF ProcessInv, OnRow, Asking
<1>11. MarkInv'
  <2>1. ASSUME NEW j \in RerunRows, ~checkpoints[j].processed
        PROVE  RunOf(j) \in Active /\ (j > i \/ (j = i /\ i \in RerunRows))
    BY <1>1, <1>4, <1>7, <2>1
  <2> QED BY <1>2, <1>3, <1>5, <1>8, <2>1 DEF MarkInv, RunOf, OnRow
<1>12. ASSUME NEW h \in Heads, ToAsk(h)' PROVE ToAsk(h)
  <2>1. PICK r \in Active : runs[r].kind = "triage_ci" /\ runs[r].target = h /\ MayAsk(r)'
    BY <1>2, <1>5, <1>12 DEF ToAsk
  <2>2. MayAsk(r)
    <3>1. CASE \A j \in VerdictRows : RunOf(j)' # r
      BY <1>2, <3>1 DEF MayAsk, RunOf
    <3>2. CASE \E j \in RerunRows :
                 /\ RunOf(j)' = r
                 /\ \/ j > server'.replayed /\ ~checkpoints'[j].processed
                    \/ \E t \in Threads : thread'[t].pc = "rerun" /\ OnRow(thread'[t], j)
      <4>1. PICK j \in RerunRows :
                 /\ RunOf(j)' = r
                 /\ \/ j > server'.replayed /\ ~checkpoints'[j].processed
                    \/ \E t \in Threads : thread'[t].pc = "rerun" /\ OnRow(thread'[t], j)
        BY <3>2
      <4>2. j \in Nat
        BY <1>2 DEF RerunRows, VerdictRows
      <4>3. RunOf(j) = r /\ j > server.replayed /\ ~checkpoints[j].processed
        BY <1>2, <1>3, <1>4, <1>9, <4>1, <4>2 DEF RunOf
      <4> QED BY <1>2, <4>3 DEF MayAsk
    <3> QED BY <1>3, <1>5, <2>1, <3>1, <3>2 DEF MayAsk, OnRow
  <2> QED BY <2>1, <2>2 DEF ToAsk
<1>13. \A h : ~Recording(h)
  BY <1>6 DEF Recording
<1>14. AskedInv'
  BY <1>2, <1>3, <1>12, <1>13 DEF BudgetInv, AskedInv
<1> QED BY <1>10, <1>11, <1>14 DEF BudgetKept

-----------------------------------------------------------------------------
\* A run that has given its verdict, and is not about to begin again
Given(rec) == rec.stage \in {"decided", "reported"} /\ rec.status # "queued"

RunsForth ==
    /\ DOMAIN runs \subseteq DOMAIN runs'
    /\ \A r \in DOMAIN runs : /\ runs'[r].kind = runs[r].kind
                              /\ CrashLimit = 0 /\ Given(runs[r]) => Given(runs'[r])

\* No verdict is added to those that were given.
LEMMA VerdictsStay ==
    ASSUME BudgetInv, RunsForth, server'.at = server.at \/ CrashLimit # 0,
           \A i \in DOMAIN checkpoints' :
              \/ /\ i \in DOMAIN checkpoints
                 /\ checkpoints'[i].run = checkpoints[i].run
                 /\ checkpoints'[i].type = checkpoints[i].type
              \/ checkpoints'[i].run \in DOMAIN runs' /\ checkpoints'[i].type # "verdict"
    PROVE  VerdictInv'
<1>1. VerdictRows' \subseteq VerdictRows /\ \A i \in VerdictRows' : RunOf(i)' = RunOf(i)
  BY DEF VerdictRows, RunOf
<1>2. \A i \in DOMAIN checkpoints' : RunOf(i)' \in DOMAIN runs'
  BY DEF BudgetInv, VerdictInv, RunsForth, RunOf
<1>3. \A i \in VerdictRows' : runs'[RunOf(i)'].kind = "triage_ci"
  BY <1>1, <1>2 DEF BudgetInv, VerdictInv, RunsForth, VerdictRows
<1>4. \A i, j \in VerdictRows' : RunOf(i)' = RunOf(j)' => i = j
  BY <1>1 DEF BudgetInv, VerdictInv
<1>5. CrashLimit = 0 => /\ server'.at = "up"
                        /\ \A i \in VerdictRows' : Given(runs'[RunOf(i)'])
  BY <1>1 DEF BudgetInv, VerdictInv, RunsForth, Given, VerdictRows
<1> QED BY <1>2, <1>3, <1>4, <1>5 DEF VerdictInv, Given

LEMMA SetRunForth ==
    ASSUME BudgetInv, NEW r \in DOMAIN runs, NEW rec, SetRun(r, rec), rec.kind = runs[r].kind,
           CrashLimit = 0 /\ Given(runs[r]) => Given(rec)
    PROVE  RunsForth
<1>1. runs \in Seq(RunTypes)
  BY DEF BudgetInv, TInv, RunsTyped
<1>2. /\ DOMAIN runs' = DOMAIN runs /\ runs'[r] = rec
      /\ \A s \in DOMAIN runs \ {r} : runs'[s] = runs[s]
  BY <1>1 DEF SetRun
<1> QED BY <1>2 DEF RunsForth

\* The row of a run that waits or completes
LEMMA ReportVerdicts ==
    ASSUME BudgetInv, RunsForth, UNCHANGED server, NEW r \in DOMAIN runs,
           NEW type \in {"wait", "terminal"}, Emits(r, type, "none")
    PROVE  VerdictInv'
<1>1. CASE UNCHANGED checkpoints
  BY <1>1, VerdictsStay DEF BudgetInv, VerdictInv
<1>2. CASE checkpoints' = Append(checkpoints, NewRow(r, type, "none"))
  <2> DEFINE new == NewRow(r, type, "none")
  <2>1. PICK n : /\ DOMAIN checkpoints' = DOMAIN checkpoints \cup {n} /\ checkpoints'[n] = new
                 /\ \A i \in DOMAIN checkpoints : checkpoints'[i] = checkpoints[i]
    BY <1>2, InsertedRow
  <2>2. new.run = r /\ new.type # "verdict"
    BY DEF NewRow
  <2> HIDE DEF new
  <2>3. r \in DOMAIN runs'
    BY DEF RunsForth
  <2> QED BY <2>1, <2>2, <2>3, VerdictsStay
<1> QED BY <1>1, <1>2 DEF Emits, NewRow

\* The verdict of a run: its only one
LEMMA VerdictGiven ==
    ASSUME BudgetInv, NEW r \in DOMAIN runs, NEW v \in {"fix_needed", "rerun"}, EmitVerdict(r, v)
    PROVE  VerdictInv'
<1> DEFINE rec == [runs[r] EXCEPT !.stage = "decided"]
           new == NewRow(r, "verdict", v)
<1>1. /\ SetRun(r, rec) /\ UNCHANGED server
      /\ runs[r].status = "running" /\ runs[r].kind = "triage_ci"
  BY DEF EmitVerdict, Running
<1>2. runs[r] \in RunTypes
  BY DEF BudgetInv, TInv, RunsTyped
<1>3. rec.kind = runs[r].kind /\ Given(rec)
  BY <1>1, <1>2 DEF RunTypes, Given
<1> HIDE DEF rec
<1>4. RunsForth
  BY <1>1, <1>3, SetRunForth
<1>5. CASE UNCHANGED checkpoints
  BY <1>1, <1>4, <1>5, VerdictsStay
<1>6. CASE Rows(r, "verdict") = {} /\ checkpoints' = Append(checkpoints, new)
  <2>1. PICK n : /\ n \notin DOMAIN checkpoints
                 /\ DOMAIN checkpoints' = DOMAIN checkpoints \cup {n} /\ checkpoints'[n] = new
                 /\ \A i \in DOMAIN checkpoints : checkpoints'[i] = checkpoints[i]
    BY <1>6, InsertedRow
  <2>2. new.run = r /\ new.type = "verdict"
    BY DEF NewRow
  <2> HIDE DEF new
  <2>3. runs'[r] = rec /\ DOMAIN runs' = DOMAIN runs /\ runs'[r].kind = "triage_ci"
    <3>1. runs \in Seq(RunTypes)
      BY DEF BudgetInv, TInv, RunsTyped
    <3> QED BY <1>1, <1>3, <3>1 DEF SetRun
  <2>4. VerdictRows' = VerdictRows \cup {n} /\ n \notin VerdictRows
    BY <2>1, <2>2 DEF VerdictRows
  <2>5. /\ RunOf(n)' = r
        /\ \A i \in DOMAIN checkpoints : RunOf(i)' = RunOf(i)
        /\ \A i \in VerdictRows : RunOf(i) # r
    BY <1>6, <2>1, <2>2 DEF RunOf, VerdictRows, Rows
  <2>6. \A i \in VerdictRows : i \in DOMAIN checkpoints /\ RunOf(i) \in DOMAIN runs
    BY DEF VerdictRows, BudgetInv, VerdictInv
  <2>7. \A i \in DOMAIN checkpoints' : RunOf(i)' \in DOMAIN runs'
    BY <2>1, <2>3, <2>5 DEF BudgetInv, VerdictInv
  <2>8. \A i \in VerdictRows' : runs'[RunOf(i)'].kind = "triage_ci"
    BY <1>4, <2>3, <2>4, <2>5, <2>6 DEF BudgetInv, VerdictInv, RunsForth
  <2>9. \A i, j \in VerdictRows' : RunOf(i)' = RunOf(j)' => i = j
    BY <2>4, <2>5, <2>6 DEF BudgetInv, VerdictInv
  <2>10. CrashLimit = 0 => /\ server'.at = "up"
                           /\ \A i \in VerdictRows' : Given(runs'[RunOf(i)'])
    BY <1>1, <1>3, <1>4, <2>3, <2>4, <2>5, <2>6 DEF BudgetInv, VerdictInv, RunsForth, Given
  <2> QED BY <2>7, <2>8, <2>9, <2>10 DEF VerdictInv, Given
<1> QED BY <1>5, <1>6 DEF EmitVerdict, Emits, NewRow

LEMMA RunVerdicts ==
    ASSUME BudgetInv, NEW r \in DOMAIN runs, RunStep(r) PROVE VerdictInv'
<1>0. runs[r] \in RunTypes
  BY DEF BudgetInv, TInv, RunsTyped
<1>1. CASE StartRun(r)
  <2> DEFINE rec == [runs[r] EXCEPT !.status = "running", !.head = pr.head, !.stage = "started"]
  <2>1. rec.kind = runs[r].kind
    BY <1>0 DEF RunTypes
  <2>2. SetRun(r, rec) /\ ~Given(runs[r]) /\ UNCHANGED <<checkpoints, server>>
    BY <1>1 DEF StartRun, Given
  <2> HIDE DEF rec
  <2> QED BY <2>1, <2>2, SetRunForth, VerdictsStay
<1>2. ASSUME NEW status \in {"completed", "failed"}, UNCHANGED <<checkpoints, server>>,
             SetRun(r, [runs[r] EXCEPT !.status = status])
      PROVE  VerdictInv'
  <2> DEFINE rec == [runs[r] EXCEPT !.status = status]
  <2>1. rec.kind = runs[r].kind /\ rec.stage = runs[r].stage /\ rec.status # "queued"
    BY <1>0 DEF RunTypes
  <2>2. SetRun(r, rec)
    BY <1>2
  <2> HIDE DEF rec
  <2> QED BY <1>2, <2>1, <2>2, SetRunForth, VerdictsStay DEF Given
<1>3. ASSUME NEW type \in {"wait", "terminal"}, Progress(r, type) PROVE VerdictInv'
  <2> DEFINE rec == [runs[r] EXCEPT !.stage = "reported"]
  <2>1. SetRun(r, rec) /\ runs[r].status = "running" /\ UNCHANGED server
    BY <1>3 DEF Progress, Running
  <2>2. rec.kind = runs[r].kind /\ Given(rec)
    BY <1>0, <2>1 DEF RunTypes, Given
  <2> HIDE DEF rec
  <2>3. RunsForth
    BY <2>1, <2>2, SetRunForth
  <2>4. UNCHANGED checkpoints \/ Emits(r, type, "none")
    BY <1>3 DEF Progress
  <2> QED BY <2>1, <2>3, <2>4, ReportVerdicts, VerdictsStay
<1>4. CASE Complete(r)
  BY <1>2, <1>4 DEF Complete
<1>5. ASSUME NEW prefetch, Fail(r, prefetch) PROVE VerdictInv'
  BY <1>2, <1>5 DEF Fail
<1> QED BY <1>1, <1>3, <1>4, <1>5, VerdictGiven DEF RunStep

LEMMA ReconcileVerdicts ==
    ASSUME BudgetInv, NEW t, Reconcile(t) PROVE VerdictInv'
<1>1. runs \in Seq(RunTypes)
  BY DEF BudgetInv, TInv, RunsTyped
<1>2. UNCHANGED <<checkpoints, server>>
  BY DEF Reconcile
<1>3. UNCHANGED runs \/ \E rec : runs' = Append(runs, rec)
  BY DEF Reconcile
<1>4. ASSUME NEW rec, runs' = Append(runs, rec) PROVE RunsForth
  <2>1. /\ DOMAIN runs \subseteq DOMAIN runs'
        /\ \A r \in DOMAIN runs : runs'[r] = runs[r]
    BY <1>1, <1>4
  <2> QED BY <2>1 DEF RunsForth
<1>5. RunsForth
  BY <1>3, <1>4 DEF RunsForth
<1> QED BY <1>2, <1>5, VerdictsStay

LEMMA MarkVerdicts ==
    ASSUME BudgetInv, NEW t \in Threads, Mark(t) PROVE VerdictInv'
<1> DEFINE m == thread[t].msg.row
<1>1. checkpoints' = [checkpoints EXCEPT ![m].processed = TRUE] /\ UNCHANGED <<runs, server>>
  BY DEF Mark
<1>2. \A i \in DOMAIN checkpoints : checkpoints[i] \in RowTypes
  BY DEF BudgetInv, TInv, RowsTyped
<1> HIDE DEF m
<1>3. ASSUME NEW i \in DOMAIN checkpoints
      PROVE  /\ checkpoints'[i].run = checkpoints[i].run
             /\ checkpoints'[i].type = checkpoints[i].type
  <2>1. checkpoints'[i] = IF i = m THEN [checkpoints[i] EXCEPT !.processed = TRUE]
                                   ELSE checkpoints[i]
    BY <1>1
  <2>2. checkpoints[i] \in RowTypes
    BY <1>2
  <2> QED BY <2>1, <2>2 DEF RowTypes
<1>4. DOMAIN checkpoints' = DOMAIN checkpoints
  BY <1>1
<1>5. RunsForth
  BY <1>1 DEF RunsForth
<1> QED BY <1>1, <1>3, <1>4, <1>5, VerdictsStay

\* A crash, and what startup makes of it
LEMMA ServerVerdicts ==
    ASSUME BudgetInv, Crash \/ ServerStep PROVE VerdictInv'
<1>1. CrashLimit # 0
  <2>1. CASE Crash
    BY <2>1, WorkItemsAssumption DEF BudgetInv, TInv, RowsTyped, Crash
  <2>2. CASE ServerStep
    <3>1. server.at = "replay"
      BY <2>2, Zenon DEF ServerStep, Replays, Recover
    <3> QED BY <3>1 DEF BudgetInv, VerdictInv
  <2> QED BY <2>1, <2>2
<1>2. UNCHANGED checkpoints
  BY Zenon DEF Crash, ServerStep, Replays, Recover, records
<1>3. RunsForth
  <2>1. CASE UNCHANGED runs
    BY <2>1 DEF RunsForth
  <2>2. CASE Recover
    <3> DEFINE After(r) == IF r \in Active
                             THEN [runs[r] EXCEPT !.status = "queued", !.stage = "none"]
                             ELSE runs[r]
    <3>1. runs' = [r \in DOMAIN runs |-> After(r)]
      BY <2>2, Zenon DEF Recover
    <3>2. ASSUME NEW r \in DOMAIN runs PROVE After(r).kind = runs[r].kind
      <4>1. runs[r] \in RunTypes
        BY DEF BudgetInv, TInv, RunsTyped
      <4> QED BY <4>1 DEF RunTypes
    <3> HIDE DEF After
    <3> QED BY <1>1, <3>1, <3>2 DEF RunsForth
  <2> QED BY <2>1, <2>2 DEF Crash, ServerStep, Replays, records
<1> QED BY <1>1, <1>2, <1>3, VerdictsStay

LEMMA StepVerdicts == BudgetInv /\ [Next]_vars => VerdictInv'
<1> SUFFICES ASSUME BudgetInv, [Next]_vars PROVE VerdictInv'
  OBVIOUS
<1>1. CASE UNCHANGED <<runs, checkpoints, server>>
  BY <1>1, VerdictsStay DEF RunsForth
<1>2. CASE UNCHANGED vars
  BY <1>1, <1>2 DEF vars, records
<1>3. CASE GitHubStep
  BY <1>1, <1>3 DEF GitHubStep, Push, CiCompletes, SuiteCompletes, ChangeLabel, Review, ClosePr,
                    records
<1>4. ASSUME NEW t, NEW i, Deliver(t, i) PROVE VerdictInv'
  BY <1>1, <1>4 DEF Deliver, records
<1>5. ASSUME NEW t \in Threads, ThreadStep(t) PROVE VerdictInv'
  <2>1. CASE HandlerStep(t)
    <3>1. UNCHANGED <<records, server>>
      BY <2>1, Zenon DEF HandlerStep, Link, SyncAutomation, SyncReviewLabels, SyncLifecycle,
                         BypassSelfReview, Finish, CheckSuite, CiCompleted, ReviewWebhook
    <3> QED BY <1>1, <3>1 DEF records
  <2>2. CASE Write(t) \/ FixNeeded(t) \/ TriageFallback(t) \/ Rollback(t)
    BY <1>1, <2>2 DEF Write, FixNeeded, TriageFallback, Rollback, records
  <2>3. CASE RecordRerun(t) \/ \E a \in BOOLEAN : Rerun(t, a)
    <3>1. UNCHANGED <<runs, checkpoints, server>>
      BY <2>3, Zenon DEF RecordRerun, Rerun
    <3> QED BY <1>1, <3>1
  <2> QED BY <1>5, <2>1, <2>2, <2>3, ReconcileVerdicts, MarkVerdicts DEF ThreadStep, HandlerStep
<1>6. ASSUME NEW r \in DOMAIN runs, RunStep(r) PROVE VerdictInv'
  BY <1>6, RunVerdicts
<1>7. CASE MonitorStep
  BY <1>1, <1>7 DEF MonitorStep, PollItem, PollPullRequest, RecoverStuck, records
<1>8. ASSUME NEW i, HookLost(i) PROVE VerdictInv'
  BY <1>1, <1>8 DEF HookLost, records
<1> QED BY <1>2, <1>3, <1>4, <1>5, <1>6, <1>7, <1>8, ServerVerdicts DEF Next

-----------------------------------------------------------------------------
(* Nobody closes the pull request: the item stays alive.                   *)

LEMMA OpenStays ==
    ASSUME BudgetInv, Undisturbed, UNCHANGED <<item, pr, thread>>, hooks' \in Seq(OpenHooks)
    PROVE  OpenInv'
  BY DEF BudgetInv, OpenInv, OpenRec

LEMMA GitHubOpen ==
    ASSUME BudgetInv, Undisturbed, GitHubStep PROVE OpenInv'
<1>0. hooks \in Seq(OpenHooks) /\ pr.status = "open"
  BY DEF BudgetInv, OpenInv
<1>1. item.state \in Alive /\ UNCHANGED <<item, thread>>
  BY DEF BudgetInv, OpenInv, GitHubStep, Push, CiCompletes, SuiteCompletes, ChangeLabel, Review,
         ClosePr, records
<1>2. pr' \in [status : {"open", "merged", "closed"}, head : Heads, labels : SUBSET Labels]
  BY GitHubTypedStep DEF BudgetInv, GitHubTyped
<1>3. ASSUME NEW kind \in {"pull_request", "review"},
             NEW action \in {"synchronize", "labeled", "unlabeled", "approved", "changes_requested"},
             NEW label \in Labels \cup {"none"}
      PROVE  Hook(kind, action, label) \in OpenHooks
  <2> DEFINE msg == Hook(kind, action, label)
  <2>1. msg \in HookTypes /\ msg.action = action
    BY <1>2 DEF Hook, HookTypes
  <2> HIDE DEF msg
  <2>2. msg \in OpenHooks
    BY <2>1 DEF OpenHooks
  <2> QED BY <2>2 DEF msg
<1>4. ASSUME NEW h \in Heads PROVE CheckSuiteHook(h) \in OpenHooks
  BY DEF CheckSuiteHook, OpenHooks, HookTypes, Labels
<1>5. ASSUME NEW msg \in OpenHooks, hooks' = Append(hooks, msg) PROVE hooks' \in Seq(OpenHooks)
  BY <1>0, <1>5
<1>6. ASSUME pr'.status = "open", hooks' \in Seq(OpenHooks) PROVE OpenInv'
  BY <1>1, <1>6 DEF BudgetInv, OpenInv, OpenRec
<1>7. CASE Push
  <2>1. pr'.status = pr.status
    BY <1>7 DEF Push, BudgetInv, TInv, GitHubTyped
  <2>2. Hook("pull_request", "synchronize", "none") \in OpenHooks
    BY <1>3
  <2> QED BY <1>0, <1>5, <1>6, <1>7, <2>1, <2>2 DEF Push
<1>8. ASSUME NEW h \in Heads, NEW c \in {"success", "failure"}, CiCompletes(h, c) PROVE OpenInv'
  BY <1>0, <1>4, <1>5, <1>6, <1>8 DEF CiCompletes
<1>9. ASSUME NEW h \in Heads, SuiteCompletes(h) PROVE OpenInv'
  BY <1>0, <1>4, <1>5, <1>6, <1>9 DEF SuiteCompletes
<1>10. ASSUME NEW l \in Labels, ChangeLabel(l) PROVE OpenInv'
  <2>1. pr'.status = pr.status
    BY <1>10 DEF ChangeLabel, BudgetInv, TInv, GitHubTyped
  <2>2. \A a \in {"labeled", "unlabeled"} : Hook("pull_request", a, l) \in OpenHooks
    BY <1>3
  <2> QED BY <1>0, <1>5, <1>6, <1>10, <2>1, <2>2 DEF ChangeLabel
<1>11. ASSUME NEW s \in {"approved", "changes_requested"}, Review(s) PROVE OpenInv'
  <2>1. Hook("review", s, "none") \in OpenHooks
    BY <1>3
  <2> QED BY <1>0, <1>5, <1>6, <1>11, <2>1 DEF Review
<1>12. ASSUME NEW s, ClosePr(s) PROVE FALSE
  BY <1>12 DEF ClosePr, May, Undisturbed
<1> QED BY <1>7, <1>8, <1>9, <1>10, <1>11, <1>12 DEF GitHubStep

LEMMA DeliverOpen ==
    ASSUME BudgetInv, Undisturbed, NEW t \in Handlers, NEW i \in DOMAIN hooks, Deliver(t, i)
    PROVE  OpenInv'
<1> DEFINE rec == [pc |-> CASE hooks[i].kind = "pull_request" -> "link"
                            [] hooks[i].kind = "check_suite"  -> "check_suite"
                            [] OTHER                          -> "review",
                   msg |-> hooks[i], cur |-> item, todo |-> << >>,
                   off |-> ~Automated(item) /\ item.state # "cancelled"]
<1>1. hooks \in Seq(OpenHooks) /\ item.state \in Alive
  BY DEF BudgetInv, OpenInv
<1>2. hooks' \in Seq(OpenHooks)
  BY <1>1, RemovedTyped DEF Deliver
<1>3. rec.msg \in OpenHooks /\ rec.todo = << >>
  BY <1>1
<1>4. Becomes(t, rec) /\ UNCHANGED <<item, pr>>
  BY DEF Deliver
<1> HIDE DEF rec
<1>5. OpenRec(rec)
  BY <1>3, NoAlivePatches DEF OpenRec
<1> QED BY <1>1, <1>2, <1>4, <1>5, BecomesOpen

LEMMA WriteOpen ==
    ASSUME BudgetInv, Undisturbed, NEW t \in Threads, Write(t) PROVE OpenInv'
<1>1. Moves(t, thread[t].todo, thread[t].pc)
  BY WriteMoves
<1>2. thread[t].todo \in Seq(AlivePatches)
  BY DEF BudgetInv, OpenInv, OpenRec
<1>3. UNCHANGED <<pr, hooks>>
  BY DEF Write, github
<1> QED BY <1>1, <1>2, <1>3, MoveOpen

LEMMA PlainOpen ==
    ASSUME BudgetInv, Undisturbed, NEW t \in Threads, PlainStep(t), UNCHANGED <<pr, hooks>>
    PROVE  OpenInv'
<1>1. PICK patches, pc : PlainMove(t, patches, pc)
  BY DEF PlainStep
<1> QED BY <1>1, MoveOpen DEF PlainMove

\* A rerun is asked for or recorded: the item stays in auto_review.
LEMMA RerunOpen ==
    ASSUME BudgetInv, Undisturbed, NEW t \in Threads, NEW accepted \in BOOLEAN,
           Rerun(t, accepted)
    PROVE  OpenInv'
<1> DEFINE cur == thread[t].cur
           again == <<Patch("auto_review", "ci_rerunning", {}, {"ci_green"})>>
           spent == <<Patch(cur.state, cur.substate, {"ci_rerun_exhausted"}, {})>>
<1>1. thread[t].pc = "rerun" /\ UNCHANGED <<item, pr, hooks>>
  BY DEF Rerun, At
<1>2. PICK patches \in {again, spent, << >>}, pc \in {"rerun_event", "idle"} : Writes(t, patches, pc)
  BY DEF Rerun
<1>3. again \in Seq(AlivePatches)
  <2>1. /\ "auto_review" \in Alive /\ "ci_rerunning" \in Substates
        /\ {} \in SUBSET Flags /\ {"ci_green"} \in SUBSET Flags
    BY DEF Alive, Managed, Substates, AutoReviewSubstates, Flags, ResetFlags
  <2> QED BY <2>1, OneAlivePatch
<1>4. spent \in Seq(AlivePatches)
  <2>1. cur \in Items /\ cur.state \in Alive
    BY <1>1, AliveCur DEF HeldStages
  <2>2. {} \in SUBSET Flags /\ {"ci_rerun_exhausted"} \in SUBSET Flags
    BY DEF Flags, ResetFlags
  <2> QED BY <2>1, <2>2, SameStatePatch
<1> HIDE DEF again, spent
<1>5. patches \in Seq(AlivePatches)
  BY <1>2, <1>3, <1>4, NoAlivePatches
<1>6. Moves(t, patches, pc)
  BY <1>1, <1>2 DEF Moves
<1> QED BY <1>1, <1>2, <1>5, <1>6, MoveOpen DEF PullStages

LEMMA RecordOpen ==
    ASSUME BudgetInv, Undisturbed, NEW t \in Threads, RecordRerun(t) PROVE OpenInv'
<1>1. Goes(t, "idle") /\ UNCHANGED <<item, pr, hooks>>
  BY DEF RecordRerun, github
<1>2. Moves(t, << >>, "idle")
  BY <1>1 DEF Moves
<1> QED BY <1>1, <1>2, NoAlivePatches, MoveOpen DEF PullStages

\* What a thread begins with
LEMMA StartOpen ==
    ASSUME BudgetInv, Undisturbed, UNCHANGED <<item, pr, hooks>>, NEW t, NEW rec,
           rec.pc \notin PullStages, rec.todo \in Seq(AlivePatches), Becomes(t, rec)
    PROVE  OpenInv'
<1>1. OpenRec(rec)
  BY DEF OpenRec
<1>2. hooks' \in Seq(OpenHooks) /\ item'.state \in Alive /\ UNCHANGED pr
  BY DEF BudgetInv, OpenInv
<1> QED BY <1>1, <1>2, BecomesOpen

LEMMA ProcessesOpen ==
    ASSUME BudgetInv, Undisturbed, UNCHANGED <<item, pr, hooks>>, NEW t, NEW row, NEW i,
           row.type = "verdict" => row.verdict \in {"none", "fix_needed", "rerun"},
           Processes(t, row, i)
    PROVE  OpenInv'
<1> DEFINE start == [Idle EXCEPT !.msg = [kind |-> "checkpoint", row |-> i], !.cur = item]
           verdict == [start EXCEPT !.pc = row.verdict]
           ready == [start EXCEPT !.todo = ProgressReady(item).patches]
<1>1. /\ verdict.pc = row.verdict /\ verdict.todo = << >>
      /\ ready.pc = "idle" /\ ready.todo = ProgressReady(item).patches
  BY DEF Idle
<1>2. (row.type = "verdict" /\ Becomes(t, verdict)) \/ Becomes(t, ready)
  BY DEF Processes
<1>3. ProgressReady(item).patches \in Seq(AlivePatches)
  <2>1. ProgressReady(item) \in Decisions(item)
    BY DEF Decisions
  <2> QED BY <2>1, AliveDecision DEF BudgetInv, TInv, OpenInv
<1> HIDE DEF verdict, ready
<1> QED BY <1>1, <1>2, <1>3, NoAlivePatches, StartOpen DEF PullStages

LEMMA RunOpen ==
    ASSUME BudgetInv, Undisturbed, NEW r \in DOMAIN runs, RunStep(r) PROVE OpenInv'
<1>1. UNCHANGED <<item, pr, hooks>> /\ hooks' \in Seq(OpenHooks)
  <2>1. UNCHANGED <<item, github>>
    BY DEF RunStep, StartRun, Complete, Progress, EmitVerdict, Fail
  <2> QED BY <2>1 DEF github, BudgetInv, OpenInv
<1>2. CASE UNCHANGED thread
  BY <1>1, <1>2, OpenStays
<1>3. ASSUME NEW type, NEW v \in {"none", "fix_needed", "rerun"}, Emits(r, type, v)
      PROVE  OpenInv'
  <2>1. CASE /\ checkpoints' = Append(checkpoints, NewRow(r, type, v))
             /\ Processes(RunThread(r), Last(checkpoints'), Len(checkpoints'))
    <3>1. Last(checkpoints') = NewRow(r, type, v)
      BY <2>1, InsertedRow
    <3>2. NewRow(r, type, v).verdict = v
      BY DEF NewRow
    <3> QED BY <1>1, <2>1, <3>1, <3>2, ProcessesOpen
  <2>2. ASSUME NEW i \in Rows(r, type), Processes(RunThread(r), checkpoints[i], i)
        PROVE  OpenInv'
    <3>1. checkpoints[i] \in RowTypes
      BY DEF BudgetInv, TInv, RowsTyped, Rows
    <3>2. checkpoints[i].verdict \in {"none", "fix_needed", "rerun"}
      BY <3>1 DEF RowTypes
    <3> QED BY <1>1, <2>2, <3>2, ProcessesOpen
  <2> QED BY <1>2, <1>3, <2>1, <2>2 DEF Emits, NewRow
<1>4. ASSUME NEW prefetch, Fail(r, prefetch) PROVE OpenInv'
  <2>1. PICK pc \in {"fallback", "rollback", "idle"} :
          Becomes(RunThread(r), [Idle EXCEPT !.pc = pc])
    BY <1>4 DEF Fail
  <2> DEFINE new == [Idle EXCEPT !.pc = pc]
  <2>2. new.pc = pc /\ new.todo = << >> /\ Becomes(RunThread(r), new)
    BY <2>1 DEF Idle
  <2> HIDE DEF new
  <2> QED BY <1>1, <2>2, NoAlivePatches, StartOpen DEF PullStages
<1>5. ASSUME NEW type, Progress(r, type) PROVE OpenInv'
  BY <1>2, <1>3, <1>5 DEF Progress
<1>6. ASSUME NEW v \in {"fix_needed", "rerun"}, EmitVerdict(r, v) PROVE OpenInv'
  BY <1>3, <1>6 DEF EmitVerdict
<1>7. CASE StartRun(r) \/ Complete(r)
  BY <1>2, <1>7 DEF StartRun, Complete
<1> QED BY <1>4, <1>5, <1>6, <1>7 DEF RunStep

LEMMA ServerOpen ==
    ASSUME BudgetInv, Undisturbed, Crash \/ (\E i \in DOMAIN hooks : HookLost(i)) \/ ServerStep
    PROVE  OpenInv'
<1>0. hooks \in Seq(OpenHooks)
  BY DEF BudgetInv, OpenInv
<1>1. CASE Crash
  <2>1. UNCHANGED <<item, pr, hooks>> /\ \A t \in Threads : thread'[t] = Idle
    BY <1>1 DEF Crash, github
  <2>2. OpenRec(Idle)
    BY NoAlivePatches DEF OpenRec, PullStages, Idle
  <2> QED BY <2>1, <2>2 DEF BudgetInv, OpenInv, OpenRec
<1>2. ASSUME NEW i \in DOMAIN hooks, HookLost(i) PROVE OpenInv'
  <2>1. hooks' \in Seq(OpenHooks)
    BY <1>0, <1>2, RemovedTyped DEF HookLost
  <2> QED BY <1>2, <2>1, OpenStays DEF HookLost
<1>3. CASE Replays
  <2>1. PICK i \in Unprocessed : Processes(Startup, checkpoints[i], i)
    BY <1>3 DEF Replays
  <2>2. checkpoints[i] \in RowTypes
    BY DEF BudgetInv, TInv, RowsTyped, Unprocessed
  <2>3. checkpoints[i].verdict \in {"none", "fix_needed", "rerun"}
    BY <2>2 DEF RowTypes
  <2>4. UNCHANGED <<item, pr, hooks>>
    BY <1>3 DEF Replays, github
  <2> QED BY <2>1, <2>3, <2>4, ProcessesOpen
<1>4. CASE Recover
  <2>1. UNCHANGED <<item, pr, hooks, thread>>
    BY <1>4, Zenon DEF Recover, github
  <2> QED BY <1>0, <2>1, OpenStays
<1> QED BY <1>1, <1>2, <1>3, <1>4 DEF ServerStep

LEMMA StepOpen == BudgetInv /\ [Next]_vars => (Undisturbed => OpenInv')
<1> SUFFICES ASSUME BudgetInv, [Next]_vars, Undisturbed PROVE OpenInv'
  OBVIOUS
<1>0. hooks \in Seq(OpenHooks)
  BY DEF BudgetInv, OpenInv
<1>1. CASE UNCHANGED vars
  BY <1>0, <1>1, OpenStays DEF vars, github
<1>2. ASSUME NEW t \in Threads, ThreadStep(t) PROVE OpenInv'
  <2>1. CASE \/ HandlerStep(t) \/ FixNeeded(t) \/ TriageFallback(t) \/ Rollback(t)
             \/ Reconcile(t)
    <3>1. UNCHANGED github
      BY <2>1, Zenon DEF HandlerStep, Link, SyncAutomation, SyncReviewLabels, SyncLifecycle,
                         BypassSelfReview, Finish, CheckSuite, CiCompleted, ReviewWebhook,
                         FixNeeded, TriageFallback, Rollback, Reconcile
    <3>2. PlainStep(t)
      BY <2>1, HandlerPlain, FollowUpPlain, ReconcilePlain
    <3> QED BY <3>1, <3>2, PlainOpen DEF github
  <2>2. CASE Mark(t)
    <3>1. UNCHANGED <<item, pr, hooks>> /\ Becomes(t, Idle)
      BY <2>2 DEF Mark, github
    <3>2. Idle.pc = "idle" /\ Idle.todo = << >>
      BY DEF Idle
    <3> QED BY <3>1, <3>2, NoAlivePatches, StartOpen DEF PullStages
  <2> QED BY <1>2, <2>1, <2>2, WriteOpen, RerunOpen, RecordOpen DEF ThreadStep, HandlerStep
<1>3. CASE MonitorStep
  <2>1. UNCHANGED <<item, pr, hooks>> /\ Monitor \in Threads
    BY <1>3 DEF MonitorStep, PollItem, PollPullRequest, RecoverStuck, github, Threads
  <2>2. CASE PollItem
    <3> DEFINE rec == [Idle EXCEPT !.pc = "poll", !.cur = item]
    <3>1. rec.pc = "poll" /\ rec.todo = << >> /\ Becomes(Monitor, rec)
      BY <2>2 DEF Idle, PollItem
    <3> HIDE DEF rec
    <3> QED BY <2>1, <3>1, NoAlivePatches, StartOpen DEF PullStages
  <2> QED BY <1>3, <2>1, <2>2, MonitorPlain, PlainOpen DEF MonitorStep
<1> QED BY <1>1, <1>2, <1>3, GitHubOpen, DeliverOpen, RunOpen, ServerOpen DEF Next

-----------------------------------------------------------------------------
LEMMA BudgetInit == Init => BudgetInv
<1> SUFFICES ASSUME Init PROVE BudgetInv
  OBVIOUS
<1>1. TInv /\ SerialInv
  BY InitTyped, SerialInit
<1>2. /\ checkpoints = << >> /\ runs = << >> /\ hooks = << >> /\ pr.status = "open"
      /\ server.at = "up" /\ server.crashes = 0
      /\ \A h \in Heads : reruns[h] = 0 /\ asked[h] = 0
  BY DEF Init
<1>3. VerdictRows = {} /\ RerunRows = {} /\ Active = {} /\ DOMAIN checkpoints = {}
  BY <1>2 DEF VerdictRows, RerunRows, Active
<1>4. item.state \in Alive
  <2>1. AdoptedItem.state = "auto_review" /\ OptedOutItem.state = "cancelled"
    BY DEF AdoptedItem, OptedOutItem
  <2> QED BY <2>1 DEF Init, Alive, Managed
<1> DEFINE first == [Idle EXCEPT !.pc = "reconcile"]
<1>5. PICK starter \in Handlers :
        thread = [t \in Threads |-> IF t = starter /\ Automated(item) THEN first ELSE Idle]
  BY DEF Init
<1>6. /\ first.msg = << >> /\ first.pc = "reconcile" /\ first.todo = << >>
      /\ Idle.msg = << >> /\ Idle.pc = "idle" /\ Idle.todo = << >>
  BY DEF Idle
<1> HIDE DEF first
<1>7. \A t \in Threads : /\ thread[t].msg = << >> /\ thread[t].todo = << >>
                         /\ thread[t].pc \in {"reconcile", "idle"}
  BY <1>5, <1>6
<1>8. \A t \in Threads : \A i : ~OnRow(thread[t], i)
  BY <1>7, OnRowMessage
<1>9. ProcessInv
  BY <1>3, <1>7, <1>8 DEF ProcessInv, Asking
<1>10. VerdictInv /\ MarkInv /\ OneActive
  BY <1>2, <1>3 DEF VerdictInv, MarkInv, OneActive
<1>11. AskedInv
  <2>1. RerunLimit \in Nat
    BY WorkItemsAssumption
  <2>2. \A h : ~ToAsk(h)
    BY <1>3 DEF ToAsk
  <2>3. \A h \in Heads : asked[h] <= reruns[h] + server.crashes /\ asked[h] <= RerunLimit + server.crashes
    BY <1>2, <2>1
  <2> QED BY <2>2, <2>3 DEF AskedInv
<1>12. OpenInv
  <2>1. << >> \in Seq(OpenHooks)
    OBVIOUS
  <2>2. \A t \in Threads : OpenRec(thread[t])
    BY <1>7, NoAlivePatches DEF OpenRec, PullStages
  <2> QED BY <1>2, <1>4, <2>1, <2>2 DEF OpenInv
<1> QED BY <1>1, <1>9, <1>10, <1>11, <1>12 DEF BudgetInv

LEMMA StepBudgeted ==
    ASSUME Setting, BudgetInv, [Next]_vars PROVE BudgetKept
<1>1. CASE UNCHANGED vars
  BY <1>1, StillKept DEF vars
<1>2. CASE GitHubStep
  <2>1. UNCHANGED <<item, records, server, thread>>
    BY <1>2 DEF GitHubStep, Push, CiCompletes, SuiteCompletes, ChangeLabel, Review, ClosePr
  <2> QED BY <2>1, StillKept
<1>3. ASSUME NEW t \in Threads, ThreadStep(t) PROVE BudgetKept
  <2>1. CASE HandlerStep(t) \/ FixNeeded(t) \/ TriageFallback(t) \/ Rollback(t)
    <3>1. UNCHANGED <<records, server>>
      BY <2>1, Zenon DEF HandlerStep, Link, SyncAutomation, SyncReviewLabels, SyncLifecycle,
                         BypassSelfReview, Finish, CheckSuite, CiCompleted, ReviewWebhook,
                         FixNeeded, TriageFallback, Rollback
    <3>2. PlainStep(t)
      BY <2>1, HandlerPlain, FollowUpPlain
    <3>3. UNCHANGED <<runs, counts, checkpoints, server>>
      BY <3>1 DEF records
    <3>4. Aside /\ Active' \subseteq Active
      BY <3>2, <3>3, PlainAside, RunsStay
    <3> QED BY <3>4, AsideKept
  <2> QED BY <1>3, <2>1, WriteBudgeted, ReconcileBudgeted, MarkBudgeted, RerunBudgeted,
             RecordBudgeted
          DEF ThreadStep, HandlerStep
<1>4. ASSUME NEW r \in DOMAIN runs, RunStep(r) PROVE BudgetKept
  BY <1>4, RunBudgeted
<1>5. CASE PollPullRequest \/ RecoverStuck
  <2>1. UNCHANGED <<records, server>> /\ Monitor \in Threads
    BY <1>5 DEF PollPullRequest, RecoverStuck, Threads
  <2>2. UNCHANGED <<runs, counts, checkpoints, server>>
    BY <2>1 DEF records
  <2>3. Aside /\ Active' \subseteq Active
    BY <1>5, <2>1, <2>2, MonitorPlain, PlainAside, RunsStay
  <2> QED BY <2>3, AsideKept
<1>6. ASSUME NEW i, HookLost(i) PROVE BudgetKept
  BY <1>6, StillKept DEF HookLost
<1> QED BY <1>1, <1>2, <1>3, <1>4, <1>5, <1>6, OutsideBudgeted, CrashBudgeted, ReplaysBudgeted,
           RecoverBudgeted
        DEF Next, MonitorStep, ServerStep

LEMMA BudgetStep ==
    ASSUME Setting PROVE IInv' /\ BudgetInv /\ [Next]_vars => BudgetInv'
<1> SUFFICES ASSUME IInv', BudgetInv, [Next]_vars PROVE BudgetInv'
  OBVIOUS
<1>1. TInv'
  BY StepTyped DEF BudgetInv
<1>2. OneActive'
  BY DEF IInv, RunsInv, OneActive
<1>3. Undisturbed => SerialInv'
  BY SerialStep DEF BudgetInv, Undisturbed
<1> QED BY <1>1, <1>2, <1>3, StepVerdicts, StepBudgeted, StepOpen DEF BudgetInv, BudgetKept

\* While the server does not crash, and however often it does where handlers
\* come one after the other and nobody closes the pull request: for no commit
\* does GitHub rerun CI more than RerunLimit times, and once more for every
\* crash, whatever webhooks, launches, verdicts and replays interleave.
THEOREM RerunsBudgeted ==
    ASSUME CrashLimit = 0 \/ (Overlap = 1 /\ "close" \notin Happens)
    PROVE  Spec => []RerunBudget
<1>1. IInv' /\ BudgetInv /\ [Next]_vars => BudgetInv'
  BY BudgetStep DEF Setting, Undisturbed
<1>2. BudgetInv => RerunBudget
  BY DEF BudgetInv, AskedInv, RerunBudget
<1> QED BY <1>1, <1>2, BudgetInit, Inductive, PTL DEF Spec

-----------------------------------------------------------------------------
(* A quiet review.  Webhooks arrive in the order of their events, handlers  *)
(* come one after the other, nothing crashes and nobody touches the         *)
(* adoption label.  Then the item's head follows the pull request's, and a  *)
(* green CI is that of the item's head, except while the handler of new     *)
(* commits has stored their head and not yet reset the item.                *)

InSequence == Overlap = 1 /\ InOrder /\ CrashLimit = 0 /\ "assist" \notin Happens

Pull(msg) == msg.kind = "pull_request"
Sync(msg) == Pull(msg) /\ msg.action = "synchronize"

\* What a webhook says while the pull request is open and nobody touches the
\* adoption label, which an item that is opted out does not carry.
Harmless(row, msg) ==
    /\ msg.action \notin {"merged", "closed"} /\ msg.label # "assist"
    /\ row.state = "cancelled" => "assist" \notin msg.labels

\* The handler of new commits is about to store h.
Linking(h) ==
    \E t \in Threads : /\ thread[t].pc = "link" /\ thread[t].msg.action = "synchronize"
                       /\ thread[t].msg.head = h

\* It has, and is about to reset the item.
Moving(rec) == rec.pc \in {"automation", "lifecycle", "finish"} /\ rec.msg.action = "synchronize"

\* The commit h is the item's, or the webhook of its push is on its way: among
\* the next n ones.
Announced(h, n) ==
    \/ h = item.head
    \/ \E i \in DOMAIN hooks : i <= n /\ Sync(hooks[i]) /\ hooks[i].head = h
    \/ Linking(h)

\* Managed, or opted out before it got as far as a green CI
ItemFresh == item.state \in Managed \/ (item.state = "cancelled" /\ "ci_green" \notin item.flags)

HooksFresh ==
    /\ \A i \in DOMAIN hooks : Pull(hooks[i]) =>
          /\ Harmless(item, hooks[i])
          /\ item.head <= hooks[i].head /\ hooks[i].head <= pr.head
          /\ Announced(hooks[i].head, i)
    /\ \A i, j \in DOMAIN hooks :
          i < j /\ Pull(hooks[i]) /\ Pull(hooks[j]) => hooks[i].head <= hooks[j].head
    /\ Announced(pr.head, Len(hooks)) /\ item.head <= pr.head
    /\ item.state = "cancelled" => "assist" \notin pr.labels

LinkFresh(rec) ==
    rec.pc = "link" =>
      /\ rec.todo = << >> /\ Harmless(item, rec.msg)
      /\ rec.msg.head = item.head \/ rec.msg.action = "synchronize"
      /\ item.head <= rec.msg.head /\ rec.msg.head <= pr.head
      /\ \A i \in DOMAIN hooks : Pull(hooks[i]) => rec.msg.head <= hooks[i].head

\* CI passed at the item's head.
Passed == ci[item.head] = "success"

\* What is still to be written neither ends the item nor calls an old commit green.
TodoFresh(row, passed, todo) ==
    /\ \/ \A i \in DOMAIN todo : todo[i].state \in Managed
       \/ row.state = "cancelled" /\ \A i \in DOMAIN todo : todo[i].state = "cancelled"
    /\ \A i \in DOMAIN todo :
          "ci_green" \in todo[i].add => passed /\ todo[i].state \in Managed

StageFresh(row, passed, rec) ==
    /\ rec.pc \in {"automation", "labels", "lifecycle", "finish"} => Harmless(row, rec.msg)
    /\ rec.pc = "labels" => rec.msg.action # "synchronize"
    /\ rec.pc \notin {"revived", "reconcile_revived"}
    /\ rec.pc = "finish" => rec.cur = row
    /\ rec.pc = "success" => passed
    /\ Moving(rec) => rec.todo = << >>
    /\ TodoFresh(row, passed, rec.todo)

Fresh ==
    /\ ItemFresh /\ HooksFresh
    /\ "ci_green" \in item.flags => Passed \/ \E t \in Threads : Moving(thread[t])
    /\ \A t \in Threads : LinkFresh(thread[t]) /\ StageFresh(item, Passed, thread[t])

FreshInv == /\ SerialInv /\ server.at = "up"
            /\ pr.status = "open" => Fresh

LEMMA HooksStay ==
    ASSUME HooksFresh, UNCHANGED <<pr, hooks>>, item'.head = item.head,
           item'.state = "cancelled" => item.state = "cancelled",
           \A h : Linking(h) => Linking(h)' \/ h = item.head
    PROVE  HooksFresh'
<1>1. \A h, n : Announced(h, n) => Announced(h, n)'
  BY DEF Announced
<1>2. \A msg : Harmless(item, msg) => Harmless(item', msg)
  BY DEF Harmless
<1>3. ASSUME NEW i \in DOMAIN hooks, Pull(hooks[i])
      PROVE  /\ Harmless(item', hooks[i])
             /\ item'.head <= hooks[i].head /\ hooks[i].head <= pr.head
             /\ Announced(hooks[i].head, i)'
  BY <1>1, <1>2, <1>3 DEF HooksFresh
<1>4. Announced(pr.head, Len(hooks))'
  BY <1>1 DEF HooksFresh
<1> QED BY <1>3, <1>4 DEF HooksFresh, Harmless

LEMMA HeadsAreNat == Heads \subseteq Nat
  BY WorkItemsAssumption DEF Heads

LEMMA NothingFresh == ASSUME NEW row, NEW passed PROVE TodoFresh(row, passed, << >>)
  BY DEF TodoFresh

LEMMA IdleFresh ==
    ASSUME NEW row, NEW passed
    PROVE  StageFresh(row, passed, Idle) /\ ~Moving(Idle) /\ Idle.pc # "link"
<1>1. Idle.pc = "idle" /\ Idle.todo = << >>
  BY DEF Idle
<1> QED BY <1>1, NothingFresh DEF StageFresh, Moving

\* The only thread goes on, without a word of the pull request.
LEMMA FreshKept ==
    ASSUME FreshInv, pr.status = "open", NEW t \in Threads, Busy \subseteq {t},
           thread[t].pc = "link" => thread[t].msg.head = item.head,
           UNCHANGED <<pr, hooks>>, item'.head = item.head, ItemFresh',
           item'.state = "cancelled" => item.state = "cancelled",
           NEW rec, Becomes(t, rec), rec.pc # "link", StageFresh(item', Passed', rec),
           "ci_green" \in item'.flags => Passed' \/ Moving(rec)
    PROVE  Fresh'
<1> DEFINE mark == [Idle EXCEPT !.pc = "mark", !.msg = rec.msg]
<1>1. PICK new : /\ new \in {rec, mark, Idle} /\ thread' = [thread EXCEPT ![t] = new]
                 /\ Moving(rec) => new = rec
  BY DEF Becomes, Moving
<1>2. mark.pc = "mark" /\ mark.todo = << >>
  BY DEF Idle
<1> HIDE DEF mark
<1>3. StageFresh(item', Passed', mark) /\ mark.pc # "link"
  BY <1>2, NothingFresh DEF StageFresh, Moving
<1>4. StageFresh(item', Passed', new) /\ new.pc # "link"
  BY <1>1, <1>3, IdleFresh
<1>5. \A u \in Threads : thread'[u] = IF u = t THEN new ELSE Idle
  BY <1>1 DEF FreshInv, SerialInv, TInv, ThreadsTyped, Busy
<1>6. \A u \in Threads : StageFresh(item', Passed', thread'[u]) /\ thread'[u].pc # "link"
  BY <1>4, <1>5, IdleFresh
<1>7. \A h : Linking(h) => h = item.head
  BY IdleFresh DEF Linking, Busy
<1>8. HooksFresh'
  BY <1>7, HooksStay DEF FreshInv, Fresh
<1>9. "ci_green" \in item'.flags => Passed' \/ \E u \in Threads : Moving(thread'[u])
  BY <1>1, <1>5
<1>10. \A u \in Threads : LinkFresh(thread[u])' /\ StageFresh(item, Passed, thread[u])'
  BY <1>6 DEF LinkFresh, StageFresh, Moving, Harmless, TodoFresh
<1> QED BY <1>8, <1>9, <1>10 DEF Fresh, Moving

\* A thread that is busy is the only one.
LEMMA BusyFresh ==
    ASSUME FreshInv, NEW t \in Threads, thread[t] # Idle
    PROVE  /\ Busy \subseteq {t} /\ thread[t] \in ThreadTypes /\ item \in Items
           /\ thread[t].pc \in HeldStages => thread[t].cur = item
           /\ pr.status = "open" => StageFresh(item, Passed, thread[t]) /\ ItemFresh
<1>1. Busy \subseteq {t}
  BY DEF FreshInv, SerialInv, OneBusy, Busy
<1> QED BY <1>1 DEF FreshInv, SerialInv, TInv, ThreadsTyped, ThreadTyped, Held, Fresh

\* The patches that it decides on, or is about to write, are written.
LEMMA CommitsFresh ==
    ASSUME FreshInv, pr.status = "open", NEW t \in Threads, thread[t] # Idle,
           UNCHANGED <<pr, hooks, ci>>, thread[t].pc # "link",
           NEW patches \in Seq(Patches), NEW pc, pc \notin {"link", "revived", "reconcile_revived"},
           pc = "success" => Passed, TodoFresh(item, Passed, patches),
           pc \in {"automation", "labels", "lifecycle", "finish"} => Harmless(item, thread[t].msg),
           pc = "finish" => patches # << >> \/ thread[t].cur = item,
           pc = "labels" => thread[t].msg.action # "synchronize",
           Moving(Staged(thread[t], patches, pc)) /\ patches # << >> =>
             Tail(patches) = << >> /\ Allowed(item.state, Head(patches).state),
           \/ Moving(Staged(thread[t], patches, pc)) \/ ~Moving(thread[t])
           \/ "ci_green" \notin item'.flags,
           Commits(t, patches, pc)
    PROVE  Fresh'
<1> DEFINE rec == Staged(thread[t], patches, pc)
           p == Head(patches)
           stuck == [rec EXCEPT !.todo = << >>, !.pc = "stuck"]
           written == [rec EXCEPT !.todo = Tail(@), !.cur = item']
<1>0. /\ Busy \subseteq {t} /\ thread[t] \in ThreadTypes /\ item \in Items
      /\ StageFresh(item, Passed, thread[t]) /\ ItemFresh
  BY BusyFresh
<1>1. Commit(t, rec)
  BY DEF Commits, Staged
<1>2. /\ rec.todo = patches /\ rec.pc = pc /\ rec.msg = thread[t].msg /\ rec.cur = thread[t].cur
      /\ stuck.todo = << >> /\ stuck.pc = "stuck"
      /\ written.todo = Tail(patches) /\ written.pc = pc /\ written.msg = thread[t].msg
      /\ written.cur = item'
  BY <1>0 DEF Staged, ThreadTypes
<1> HIDE DEF rec
<1>3. "ci_green" \in item.flags => Passed \/ Moving(thread[t])
  BY <1>0, IdleFresh DEF FreshInv, Fresh, Busy
<1>4. CASE patches = << >>
  <2>1. Becomes(t, rec) /\ UNCHANGED item
    BY <1>1, <1>2, <1>4 DEF Commit
  <2>2. StageFresh(item', Passed', rec)
    BY <1>2, <1>4, <2>1 DEF StageFresh, Passed
  <2>3. "ci_green" \in item'.flags => Passed' \/ Moving(rec)
    BY <1>3, <2>1 DEF rec, Passed
  <2>4. ItemFresh'
    BY <1>0, <2>1 DEF ItemFresh
  <2> QED BY <1>0, <1>2, <2>1, <2>2, <2>3, <2>4, FreshKept
<1>5. CASE patches # << >> /\ ~Allowed(item.state, p.state)
  <2>1. UNCHANGED item /\ \E new \in {stuck, Idle} : Becomes(t, new)
    BY <1>1, <1>2, <1>5 DEF Commit
  <2> HIDE DEF stuck
  <2>2. ASSUME NEW new \in {stuck, Idle}
        PROVE  StageFresh(item', Passed', new) /\ ~Moving(new) /\ new.pc # "link"
    BY <1>2, IdleFresh, NothingFresh DEF StageFresh, Moving
  <2>3. "ci_green" \in item'.flags => Passed'
    BY <1>3, <1>5, <2>1 DEF Passed, rec
  <2>4. ItemFresh'
    BY <1>0, <2>1 DEF ItemFresh
  <2> QED BY <1>0, <2>1, <2>2, <2>3, <2>4, FreshKept
<1>6. CASE patches # << >> /\ Allowed(item.state, p.state)
  <2>1. item' = Patched(item, p) /\ Becomes(t, written)
    BY <1>1, <1>2, <1>6 DEF Commit
  <2>2. /\ item'.state = p.state /\ item'.head = item.head
        /\ item'.flags = (item.flags \cup p.add) \ p.remove
    BY <1>0, <2>1 DEF Patched, Items
  <2>3. /\ p = patches[1] /\ 1 \in DOMAIN patches
        /\ \A i \in DOMAIN Tail(patches) : i + 1 \in DOMAIN patches /\ Tail(patches)[i] = patches[i + 1]
    BY <1>6
  <2>4. Passed' = Passed
    BY <2>2 DEF Passed
  <2> HIDE DEF p, written
  <2>5. /\ p.state \in Managed \/ (item.state = "cancelled" /\ p.state = "cancelled")
        /\ "ci_green" \in p.add => Passed /\ p.state \in Managed
    BY <2>3 DEF TodoFresh
  <2>6. TodoFresh(item', Passed, Tail(patches))
    BY <2>2, <2>3 DEF TodoFresh
  <2>7. item'.state = "cancelled" => item.state = "cancelled"
    BY <2>2, <2>5 DEF Managed, ReviewStates
  <2>8. ItemFresh'
    <3>1. CASE p.state \in Managed
      BY <2>2, <3>1 DEF ItemFresh
    <3>2. CASE p.state \notin Managed
      BY <1>0, <2>2, <2>5, <3>2 DEF ItemFresh, Managed, ReviewStates
    <3> QED BY <3>1, <3>2
  <2>9. StageFresh(item', Passed', written)
    <3>1. Moving(written) => written.todo = << >>
      BY <1>2 DEF Moving, rec
    <3>2. pc \in {"automation", "labels", "lifecycle", "finish"} => Harmless(item', thread[t].msg)
      BY <2>7 DEF Harmless
    <3>3. TodoFresh(item', Passed', written.todo)
      BY <1>2, <2>4, <2>6
    <3>4. pc = "success" => Passed'
      BY <2>4
    <3> QED BY <1>2, <3>1, <3>2, <3>3, <3>4 DEF StageFresh
  <2>10. "ci_green" \in item'.flags => Passed' \/ Moving(written)
    BY <1>2, <1>3, <2>2, <2>4, <2>5 DEF Moving, rec
  <2> QED BY <1>0, <1>2, <2>1, <2>2, <2>7, <2>8, <2>9, <2>10, FreshKept
<1> QED BY <1>4, <1>5, <1>6

\* A thread goes on, with patches to write.
LEMMA WritesFresh ==
    ASSUME FreshInv, pr.status = "open", NEW t \in Threads, thread[t] # Idle,
           thread[t].pc # "link", UNCHANGED <<pr, hooks>>,
           item'.state = item.state, item'.head = item.head,
           "ci_green" \in item'.flags => "ci_green" \in item.flags, Passed => Passed',
           NEW patches, NEW pc, pc \notin {"link", "revived", "reconcile_revived"},
           pc = "success" => Passed', TodoFresh(item', Passed', patches),
           pc \in {"automation", "labels", "lifecycle", "finish"} => Harmless(item', thread[t].msg),
           pc = "labels" => thread[t].msg.action # "synchronize",
           pc = "finish" => thread[t].cur = item',
           Moving(Staged(thread[t], patches, pc)) => patches = << >>,
           Moving(Staged(thread[t], patches, pc)) \/ ~Moving(thread[t]),
           Writes(t, patches, pc)
    PROVE  Fresh'
<1> DEFINE rec == Staged(thread[t], patches, pc)
<1>1. Busy \subseteq {t} /\ thread[t] \in ThreadTypes /\ ItemFresh
  BY BusyFresh
<1>2. Becomes(t, rec)
  BY DEF Writes, Staged
<1>3. /\ rec.todo = patches /\ rec.pc = pc /\ rec.msg = thread[t].msg /\ rec.cur = thread[t].cur
      /\ Moving(rec) => patches = << >>
      /\ Moving(rec) \/ ~Moving(thread[t])
  BY <1>1 DEF Staged, ThreadTypes
<1> HIDE DEF rec
<1>4. "ci_green" \in item.flags => Passed \/ Moving(thread[t])
  BY <1>1, IdleFresh DEF FreshInv, Fresh, Busy
<1>5. StageFresh(item', Passed', rec)
  BY <1>3 DEF StageFresh
<1>6. ItemFresh'
  BY <1>1 DEF ItemFresh
<1> QED BY <1>1, <1>2, <1>3, <1>4, <1>5, <1>6, FreshKept

\* A thread goes on, and writes nothing.
LEMMA GoesFresh ==
    ASSUME FreshInv, pr.status = "open", NEW t \in Threads, thread[t] # Idle,
           thread[t].pc # "link", thread[t].todo = << >>, UNCHANGED <<pr, hooks, ci>>,
           item'.state = item.state, item'.head = item.head,
           "ci_green" \in item'.flags => "ci_green" \in item.flags,
           NEW pc, pc \notin {"link", "revived", "reconcile_revived", "automation", "labels",
                              "lifecycle"},
           pc = "success" => Passed,
           pc = "finish" => Harmless(item', thread[t].msg) /\ thread[t].cur = item',
           pc = "finish" \/ ~Moving(thread[t]),
           Goes(t, pc)
    PROVE  Fresh'
<1>1. thread[t] \in ThreadTypes
  BY BusyFresh
<1>2. [thread[t] EXCEPT !.pc = pc] = Staged(thread[t], << >>, pc)
  BY <1>1 DEF Staged, ThreadTypes
<1>3. Writes(t, << >>, pc)
  BY <1>2 DEF Goes, Writes, Staged
<1>4. TodoFresh(item', Passed', << >>)
  BY NothingFresh
<1>5. Passed' = Passed
  BY DEF Passed
<1>6. Moving(Staged(thread[t], << >>, pc)) \/ ~Moving(thread[t])
  <2>1. Staged(thread[t], << >>, pc).pc = pc /\ Staged(thread[t], << >>, pc).msg = thread[t].msg
    BY <1>1 DEF Staged, ThreadTypes
  <2> QED BY <2>1 DEF Moving
<1> QED BY <1>3, <1>4, <1>5, <1>6, WritesFresh

\* The next of the patches is written.
LEMMA WriteFresh ==
    ASSUME FreshInv, pr.status = "open", NEW t \in Threads, Write(t) PROVE Fresh'
<1> DEFINE todo == thread[t].todo
           pc == thread[t].pc
<1>1. todo # << >> /\ Commit(t, thread[t]) /\ UNCHANGED <<pr, hooks, ci>> /\ thread[t] # Idle
  BY DEF Write, github, Idle
<1>2. thread[t] \in ThreadTypes /\ StageFresh(item, Passed, thread[t]) /\ LinkFresh(thread[t])
  BY <1>1, BusyFresh DEF FreshInv, Fresh
<1>3. Staged(thread[t], todo, pc) = thread[t]
  BY <1>2 DEF Staged, ThreadTypes
<1>4. Commits(t, todo, pc)
  BY <1>1, <1>3 DEF Commits, Staged
<1>5. todo \in Seq(Patches) /\ ~Moving(thread[t])
  BY <1>1, <1>2 DEF ThreadTypes, StageFresh
<1>6. /\ thread[t].pc # "link" /\ pc \notin {"link", "revived", "reconcile_revived"}
      /\ pc = "success" => Passed
      /\ TodoFresh(item, Passed, todo)
      /\ pc \in {"automation", "labels", "lifecycle", "finish"} => Harmless(item, thread[t].msg)
      /\ pc = "labels" => thread[t].msg.action # "synchronize"
  BY <1>1, <1>2 DEF StageFresh, LinkFresh
<1> HIDE DEF todo, pc
<1>7. ~Moving(Staged(thread[t], todo, pc))
  BY <1>3, <1>5
<1> QED BY <1>1, <1>4, <1>5, <1>6, <1>7, CommitsFresh

-----------------------------------------------------------------------------
\* Decisions that do not call CI green, or do after it passed
LEMMA WithinFresh ==
    ASSUME NEW row, NEW passed, NEW patches, NEW add, Within(patches, add),
           passed \/ "ci_green" \notin add
    PROVE  TodoFresh(row, passed, patches)
  BY DEF Within, TodoFresh

LEMMA PatchFresh ==
    ASSUME NEW row, NEW passed, NEW s, NEW sub, NEW add, NEW remove,
           s \in Managed \/ (s = "cancelled" /\ row.state = "cancelled"),
           "ci_green" \notin add
    PROVE  TodoFresh(row, passed, <<Patch(s, sub, add, remove)>>)
<1> DEFINE patches == <<Patch(s, sub, add, remove)>>
<1>1. DOMAIN patches = {1} /\ patches[1].state = s /\ patches[1].add = add
  BY DEF Patch
<1> HIDE DEF patches
<1>2. TodoFresh(row, passed, patches)
  BY <1>1 DEF TodoFresh
<1> QED BY <1>2 DEF patches

\* What a thread at a stage knows
LEMMA AtFresh ==
    ASSUME FreshInv, pr.status = "open", NEW t \in Threads, NEW pc, At(t, pc), pc # "idle"
    PROVE  /\ thread[t] # Idle /\ thread[t].todo = << >> /\ thread[t].pc = pc
           /\ pc \in HeldStages => thread[t].cur = item
           /\ StageFresh(item, Passed, thread[t]) /\ LinkFresh(thread[t])
           /\ ItemFresh /\ item \in Items /\ thread[t] \in ThreadTypes
<1>1. thread[t] # Idle /\ thread[t].todo = << >> /\ thread[t].pc = pc
  BY DEF At, Idle
<1> QED BY <1>1, BusyFresh DEF FreshInv, Fresh

LEMMA SyncAutomationFresh ==
    ASSUME FreshInv, pr.status = "open", NEW t \in Threads, SyncAutomation(t) PROVE Fresh'
<1> DEFINE flag == {"ai_assist_disabled"}
           msg == thread[t].msg
           pc == IF msg.action = "synchronize" THEN "lifecycle" ELSE "labels"
<1>1. At(t, "automation") /\ UNCHANGED <<pr, hooks, ci>>
  BY DEF SyncAutomation, github
<1>2. /\ thread[t] # Idle /\ thread[t].pc = "automation" /\ thread[t].cur = item
      /\ ItemFresh /\ item \in Items /\ thread[t] \in ThreadTypes /\ Harmless(item, msg)
  BY <1>1, AtFresh DEF HeldStages, StageFresh
<1>3. PICK patches \in {<< >>, <<Patch(item.state, item.substate, {}, flag)>>,
                        <<Patch(item.state, item.substate, flag, {})>>} :
        Commits(t, patches, pc)
  BY <1>2 DEF SyncAutomation
<1>4. ASSUME NEW add \in {{}, flag}, NEW remove \in {{}, flag},
             patches = <<Patch(item.state, item.substate, add, remove)>>
      PROVE  /\ patches \in Seq(Patches) /\ TodoFresh(item, Passed, patches)
             /\ Tail(patches) = << >> /\ Head(patches).state = item.state
  <2>1. Patch(item.state, item.substate, add, remove) \in Patches
    BY <1>2 DEF Patch, Patches, Items, Flags
  <2>2. Patch(item.state, item.substate, add, remove).state = item.state
    BY DEF Patch
  <2>3. TodoFresh(item, Passed, patches)
    BY <1>2, <1>4, PatchFresh DEF ItemFresh
  <2> QED BY <1>4, <2>1, <2>2, <2>3
<1>5. /\ patches \in Seq(Patches) /\ TodoFresh(item, Passed, patches)
      /\ patches # << >> => Tail(patches) = << >> /\ Head(patches).state = item.state
  <2>1. CASE patches = << >>
    BY <2>1, NoPatches, NothingFresh
  <2>2. CASE patches = <<Patch(item.state, item.substate, {}, flag)>>
    BY <1>4, <2>2
  <2>3. CASE patches = <<Patch(item.state, item.substate, flag, {})>>
    BY <1>4, <2>3
  <2> QED BY <1>3, <2>1, <2>2, <2>3
<1>6. Staged(thread[t], patches, pc).pc = pc /\ Staged(thread[t], patches, pc).msg = msg
  BY <1>2 DEF Staged, ThreadTypes
<1>7. Moving(Staged(thread[t], patches, pc)) \/ ~Moving(thread[t])
  BY <1>6 DEF Moving
<1>8. Allowed(item.state, item.state)
  BY DEF Allowed
<1>9. pc \in {"lifecycle", "labels"} /\ (pc = "labels" => msg.action # "synchronize")
  OBVIOUS
<1> HIDE DEF pc
<1> QED BY <1>1, <1>2, <1>3, <1>5, <1>7, <1>8, <1>9, CommitsFresh

LEMMA SyncReviewLabelsFresh ==
    ASSUME FreshInv, pr.status = "open", NEW t \in Threads, SyncReviewLabels(t) PROVE Fresh'
<1> DEFINE done == thread[t].msg.labels \cap ReviewFlags
           patches == LabelsSynced(item, done).patches
<1>1. At(t, "labels") /\ UNCHANGED <<pr, hooks, ci>>
  BY DEF SyncReviewLabels, github
<1>2. /\ thread[t] # Idle /\ thread[t].pc = "labels" /\ thread[t].cur = item
      /\ item \in Items /\ thread[t] \in ThreadTypes /\ Harmless(item, thread[t].msg)
      /\ thread[t].msg.action # "synchronize"
  BY <1>1, AtFresh DEF HeldStages, StageFresh
<1>3. Commits(t, patches, "lifecycle")
  BY <1>2 DEF SyncReviewLabels
<1>4. patches \in Seq(Patches)
  BY <1>2, DecisionTyped DEF Decisions, Items
<1>5. TodoFresh(item, Passed, patches)
  <2>1. "ci_green" \notin done \ item.flags
    BY DEF ReviewFlags
  <2> QED BY <2>1, LabelsWithin, WithinFresh
<1> HIDE DEF patches
<1>6. ~Moving(thread[t]) /\ ~Moving(Staged(thread[t], patches, "lifecycle"))
  BY <1>2 DEF Moving, Staged, ThreadTypes
<1> QED BY <1>1, <1>2, <1>3, <1>4, <1>5, <1>6, CommitsFresh

LEMMA SyncLifecycleFresh ==
    ASSUME FreshInv, pr.status = "open", NEW t \in Threads, SyncLifecycle(t) PROVE Fresh'
<1>1. At(t, "lifecycle") /\ UNCHANGED <<pr, hooks, ci>>
  BY DEF SyncLifecycle, github
<1>2. /\ thread[t] # Idle /\ thread[t].pc = "lifecycle" /\ thread[t].cur = item
      /\ thread[t].todo = << >> /\ Harmless(item, thread[t].msg)
  BY <1>1, AtFresh DEF HeldStages, StageFresh
<1>3. Goes(t, "finish") /\ UNCHANGED item
  BY <1>2 DEF SyncLifecycle, Harmless
<1> QED BY <1>1, <1>2, <1>3, GoesFresh

LEMMA LinkFreshStep ==
    ASSUME FreshInv, pr.status = "open", NEW t \in Threads, Link(t) PROVE Fresh'
<1> DEFINE msg == thread[t].msg
           rec == [thread[t] EXCEPT !.pc = "automation", !.cur = item']
<1>1. At(t, "link") /\ UNCHANGED <<pr, hooks, ci>>
  BY DEF Link, github
<1>2. /\ thread[t] # Idle /\ thread[t].pc = "link" /\ thread[t].cur = item
      /\ thread[t].todo = << >> /\ item \in Items /\ thread[t] \in ThreadTypes
      /\ ItemFresh /\ LinkFresh(thread[t]) /\ Busy \subseteq {t}
  BY <1>1, AtFresh, BusyFresh DEF HeldStages
<1>3. /\ Harmless(item, msg) /\ item.head <= msg.head /\ msg.head <= pr.head
      /\ msg.head = item.head \/ msg.action = "synchronize"
      /\ \A i \in DOMAIN hooks : Pull(hooks[i]) => msg.head <= hooks[i].head
  BY <1>2 DEF LinkFresh
<1>4. CASE msg.head = item.head
  <2> DEFINE new == Staged(thread[t], << >>, "automation")
  <2>1. Goes(t, "automation") /\ UNCHANGED item
    BY <1>2, <1>4 DEF Link
  <2>2. Becomes(t, new)
    BY <1>2, <2>1 DEF Goes, Staged, ThreadTypes
  <2>3. new.todo = << >> /\ new.pc = "automation" /\ new.msg = msg
    BY <1>2 DEF Staged, ThreadTypes
  <2> HIDE DEF new
  <2>4. StageFresh(item', Passed', new)
    BY <1>3, <2>1, <2>3, NothingFresh DEF StageFresh
  <2>5. "ci_green" \in item'.flags => Passed'
    <3>1. ~Moving(thread[t])
      BY <1>2 DEF Moving
    <3> QED BY <1>1, <1>2, <2>1, <3>1, IdleFresh DEF FreshInv, Fresh, Busy, Passed
  <2>6. ItemFresh'
    BY <1>2, <2>1 DEF ItemFresh
  <2> QED BY <1>1, <1>2, <1>4, <2>1, <2>2, <2>3, <2>4, <2>5, <2>6, FreshKept
<1>5. CASE msg.head # item.head
  <2>1. item' = [item EXCEPT !.head = msg.head] /\ Becomes(t, rec)
    BY <1>2, <1>5 DEF Link
  <2>2. item'.state = item.state /\ item'.flags = item.flags /\ item'.head = msg.head
    BY <1>2, <2>1 DEF Items
  <2>3. rec.todo = << >> /\ rec.pc = "automation" /\ rec.msg = msg
    BY <1>2 DEF ThreadTypes
  <2> HIDE DEF rec
  <2>4. \A u \in Threads : thread'[u] = IF u = t THEN rec ELSE Idle
    BY <1>2, <2>1, <2>3 DEF Becomes, FreshInv, SerialInv, TInv, ThreadsTyped, Busy
  <2>5. item.head \in Nat /\ msg.head \in Nat /\ pr.head \in Nat
    BY <1>2, HeadsAreNat DEF FreshInv, SerialInv, TInv, ThreadsTyped, ThreadTyped, GitHubTyped, Items
  <2>6. /\ \A i \in DOMAIN hooks : Pull(hooks[i]) => hooks[i].head # item.head
        /\ pr.head # item.head
    <3>1. \A i \in DOMAIN hooks : hooks[i].head \in Nat
      <4>1. \A i \in DOMAIN hooks : hooks[i] \in HookTypes
        BY DEF FreshInv, SerialInv, TInv, GitHubTyped
      <4> QED BY <4>1, HeadsAreNat DEF HookTypes
    <3> QED BY <1>3, <1>5, <2>5, <3>1
  <2>7. \A h : Linking(h) => h = msg.head
    BY <1>2, IdleFresh DEF Linking, Busy
  <2>8. ASSUME NEW h, NEW n, h # item.head, Announced(h, n)
        PROVE  Announced(h, n)'
    <3>1. h = msg.head => h = item'.head
      BY <2>2
    <3> QED BY <1>1, <2>7, <2>8, <3>1 DEF Announced
  <2>9. HooksFresh'
    <3>1. ASSUME NEW i \in DOMAIN hooks, Pull(hooks[i])
          PROVE  /\ Harmless(item', hooks[i])
                 /\ item'.head <= hooks[i].head /\ hooks[i].head <= pr.head
                 /\ Announced(hooks[i].head, i)'
      <4>1. Harmless(item, hooks[i]) /\ hooks[i].head <= pr.head /\ Announced(hooks[i].head, i)
        BY <3>1 DEF FreshInv, Fresh, HooksFresh
      <4>2. Harmless(item', hooks[i])
        BY <2>2, <4>1 DEF Harmless
      <4>3. item'.head <= hooks[i].head
        BY <1>3, <2>2, <3>1
      <4>4. Announced(hooks[i].head, i)'
        BY <1>1, <2>6, <2>8, <3>1, <4>1
      <4> QED BY <4>1, <4>2, <4>3, <4>4
    <3>2. Announced(pr.head, Len(hooks))
      BY DEF FreshInv, Fresh, HooksFresh
    <3>3. Announced(pr.head, Len(hooks))'
      BY <1>1, <2>6, <2>8, <3>2 DEF Announced
    <3>4. item.state = "cancelled" => "assist" \notin pr.labels
      BY DEF FreshInv, Fresh, HooksFresh
    <3>5. \A i, j \in DOMAIN hooks :
            i < j /\ Pull(hooks[i]) /\ Pull(hooks[j]) => hooks[i].head <= hooks[j].head
      BY DEF FreshInv, Fresh, HooksFresh
    <3> QED BY <1>1, <1>3, <2>2, <3>1, <3>3, <3>4, <3>5 DEF HooksFresh
  <2>10. Harmless(item', msg)
    BY <1>3, <2>2 DEF Harmless
  <2>11. StageFresh(item', Passed', rec) /\ Moving(rec)
    BY <1>3, <1>5, <2>3, <2>10, NothingFresh DEF StageFresh, Moving
  <2>12. \A u \in Threads : /\ StageFresh(item', Passed', thread'[u])
                            /\ thread'[u].pc # "link"
    BY <2>3, <2>4, <2>11, IdleFresh
  <2>13. \A u \in Threads : LinkFresh(thread[u])' /\ StageFresh(item, Passed, thread[u])'
    BY <2>12 DEF LinkFresh, StageFresh, Moving, Harmless, TodoFresh
  <2>14. \E u \in Threads : Moving(thread'[u])
    BY <2>4, <2>11
  <2>15. ItemFresh'
    BY <1>2, <2>2 DEF ItemFresh
  <2> QED BY <2>9, <2>13, <2>14, <2>15 DEF Fresh, Moving
<1> QED BY <1>4, <1>5

LEMMA FinishFresh ==
    ASSUME FreshInv, pr.status = "open", NEW t \in Threads, Finish(t) PROVE Fresh'
<1> DEFINE action == thread[t].msg.action
           patches == PrSynchronized(item).patches
<1>1. At(t, "finish") /\ UNCHANGED <<pr, hooks, ci>>
  BY DEF Finish, github
<1>2. /\ thread[t] # Idle /\ thread[t].pc = "finish" /\ thread[t].cur = item
      /\ item \in Items /\ thread[t] \in ThreadTypes /\ Harmless(item, thread[t].msg)
      /\ ItemFresh
  BY <1>1, AtFresh DEF StageFresh
<1>3. action \notin {"merged", "closed"}
  BY <1>2 DEF Harmless
<1>4. CASE action = "synchronize"
  <2>1. Commits(t, patches, "idle")
    BY <1>2, <1>4 DEF Finish
  <2>2. ~Moving(Staged(thread[t], patches, "idle"))
    BY <1>2 DEF Moving, Staged, ThreadTypes
  <2>3. CASE item.state \in Managed
    <3> DEFINE s == {"ci_green"}
    <3>1. PICK remove \in SUBSET Flags :
            /\ patches = <<Patch("auto_review", "waiting_ci", {}, remove)>>
            /\ "ci_green" \in remove
      BY <2>3 DEF PrSynchronized, Decision, ResetFlags, ReviewFlags, Flags
    <3>2. /\ Patch("auto_review", "waiting_ci", {}, remove) \in Patches
          /\ Patch("auto_review", "waiting_ci", {}, remove).state = "auto_review"
      BY DEF Patch, Patches, States, Managed, Substates, AutoReviewSubstates
    <3>3. patches \in Seq(Patches) /\ patches # << >>
          /\ Head(patches) = Patch("auto_review", "waiting_ci", {}, remove)
      BY <3>1, <3>2
    <3>4. TodoFresh(item, Passed, patches)
      BY <3>1, PatchFresh DEF Managed
    <3>5. Allowed(item.state, "auto_review")
      BY <2>3 DEF Allowed, Successors, Managed, ReviewStates, States
    <3>6. item' = Patched(item, Patch("auto_review", "waiting_ci", {}, remove))
      <4>1. Staged(thread[t], patches, "idle").todo = patches
        BY <1>2 DEF Staged, ThreadTypes
      <4>2. Commit(t, Staged(thread[t], patches, "idle"))
        BY <2>1 DEF Commits, Staged
      <4> QED BY <3>2, <3>3, <3>5, <4>1, <4>2 DEF Commit
    <3>7. "ci_green" \notin item'.flags
      BY <1>2, <3>1, <3>6 DEF Patched, Patch, Items
    <3> HIDE DEF patches
    <3> QED BY <1>1, <1>2, <2>1, <2>2, <3>3, <3>4, <3>7, CommitsFresh
  <2>4. CASE item.state = "cancelled" /\ "ci_green" \notin item.flags
    <3>1. patches = << >>
      BY <2>4 DEF PrSynchronized, NoDecision, Decision, Managed, ReviewStates
    <3>2. item' = item
      <4>1. Staged(thread[t], patches, "idle").todo = patches
        BY <1>2 DEF Staged, ThreadTypes
      <4>2. Commit(t, Staged(thread[t], patches, "idle"))
        BY <2>1 DEF Commits, Staged
      <4> QED BY <3>1, <4>1, <4>2 DEF Commit
    <3> HIDE DEF patches
    <3> QED BY <1>1, <1>2, <2>1, <2>2, <2>4, <3>1, <3>2, NoPatches, NothingFresh, CommitsFresh
  <2> QED BY <1>2, <2>3, <2>4 DEF ItemFresh
<1>5. CASE action # "synchronize"
  <2>1. PICK pc \in {"reconcile", "idle"} : Commits(t, << >>, pc)
    BY <1>2, <1>3, <1>5 DEF Finish
  <2>2. ~Moving(Staged(thread[t], << >>, pc)) /\ ~Moving(thread[t])
    BY <1>2, <1>5 DEF Moving, Staged, ThreadTypes
  <2> QED BY <1>1, <1>2, <2>1, <2>2, NoPatches, NothingFresh, CommitsFresh
<1> QED BY <1>4, <1>5

LEMMA CheckSuiteFresh ==
    ASSUME FreshInv, pr.status = "open", NEW t \in Threads, CheckSuite(t) PROVE Fresh'
<1>1. At(t, "check_suite") /\ UNCHANGED <<pr, hooks, ci, item>>
  BY DEF CheckSuite, github
<1>2. /\ thread[t] # Idle /\ thread[t].pc = "check_suite" /\ thread[t].cur = item
      /\ item \in Items /\ thread[t].todo = << >>
  BY <1>1, AtFresh DEF HeldStages
<1>3. ci[item.head] \in {"pending", "success", "failure"}
  BY <1>2 DEF FreshInv, SerialInv, TInv, GitHubTyped, Items
<1>4. PICK pc \in {"idle", "success", "failure"} : Goes(t, pc) /\ (pc = "success" => Passed)
  BY <1>2, <1>3 DEF CheckSuite, Passed
<1>5. ~Moving(thread[t])
  BY <1>2 DEF Moving
<1> QED BY <1>1, <1>2, <1>4, <1>5, GoesFresh

LEMMA CiCompletedFresh ==
    ASSUME FreshInv, pr.status = "open", NEW t \in Threads, CiCompleted(t) PROVE Fresh'
<1> DEFINE cur == thread[t].cur
           active == cur.state = "auto_review" /\ Active # {}
<1>1. UNCHANGED <<pr, hooks, ci, item>> /\ active \in BOOLEAN
  BY DEF CiCompleted, github
<1>2. PICK d : /\ Decides(t, d) /\ thread[t] # Idle /\ cur = item
               /\ thread[t].pc \in {"success", "failure"}
               /\ TodoFresh(item, Passed, d.patches)
  <2>1. CASE At(t, "success") /\ Decides(t, CiSucceeded(cur, active))
    <3>1. thread[t] # Idle /\ cur = item /\ thread[t].pc = "success" /\ Passed /\ ItemFresh
      BY <2>1, AtFresh DEF HeldStages, StageFresh
    <3>2. \E add : Within(CiSucceeded(item, active).patches, add)
      BY <1>1, <3>1, CiSucceededWithin DEF ItemFresh
    <3>3. TodoFresh(item, Passed, CiSucceeded(item, active).patches)
      BY <3>1, <3>2, WithinFresh
    <3> QED BY <2>1, <3>1, <3>3
  <2>2. CASE At(t, "failure") /\ Decides(t, CiFailed(cur, active))
    <3>1. thread[t] # Idle /\ cur = item /\ thread[t].pc = "failure" /\ ItemFresh
      BY <2>2, AtFresh DEF HeldStages, StageFresh
    <3>2. Within(CiFailed(item, active).patches, {})
      BY <3>1, CiFailedWithin DEF ItemFresh
    <3>3. TodoFresh(item, Passed, CiFailed(item, active).patches)
      BY <3>2, WithinFresh
    <3> QED BY <2>2, <3>1, <3>3
  <2> QED BY <2>1, <2>2 DEF CiCompleted
<1>3. PICK pc \in {"idle", "reconcile"} : Writes(t, d.patches, pc)
  BY <1>2 DEF Decides
<1>4. ~Moving(thread[t]) /\ ~Moving(Staged(thread[t], d.patches, pc))
  BY <1>2, BusyFresh DEF Moving, Staged, ThreadTypes
<1>5. Passed' = Passed
  BY <1>1 DEF Passed
<1> QED BY <1>1, <1>2, <1>3, <1>4, <1>5, WritesFresh

LEMMA ReviewWebhookFresh ==
    ASSUME FreshInv, pr.status = "open", NEW t \in Threads, ReviewWebhook(t) PROVE Fresh'
<1> DEFINE approved == thread[t].msg.action = "approved"
           patches == ReviewSubmitted(item, approved).patches
<1>1. At(t, "review") /\ UNCHANGED <<pr, hooks, ci>>
  BY DEF ReviewWebhook, github
<1>2. /\ thread[t] # Idle /\ thread[t].pc = "review" /\ thread[t].cur = item
      /\ item \in Items /\ thread[t] \in ThreadTypes
  BY <1>1, AtFresh DEF HeldStages
<1>3. PICK pc \in {"idle", "reconcile"} : Commits(t, patches, pc)
  BY <1>2 DEF ReviewWebhook
<1>4. patches \in Seq(Patches)
  <2>1. ReviewSubmitted(item, approved) \in Decisions(item)
    BY DEF Decisions
  <2> QED BY <1>2, <2>1, DecisionOfRow
<1>5. TodoFresh(item, Passed, patches)
  <2>1. approved \in BOOLEAN
    OBVIOUS
  <2>2. PICK add : "ci_green" \notin add /\ Within(patches, add)
    BY <2>1, ReviewWithin
  <2> QED BY <2>2, WithinFresh
<1> HIDE DEF patches
<1>6. ~Moving(thread[t]) /\ ~Moving(Staged(thread[t], patches, pc))
  BY <1>2 DEF Moving, Staged, ThreadTypes
<1> QED BY <1>1, <1>2, <1>3, <1>4, <1>5, <1>6, CommitsFresh

LEMMA HandlerFresh ==
    ASSUME FreshInv, pr.status = "open", NEW t \in Threads, HandlerStep(t) PROVE Fresh'
<1>1. ~BypassSelfReview(t)
  <2>1. SUFFICES ASSUME BypassSelfReview(t) PROVE FALSE
    OBVIOUS
  <2>2. At(t, "revived")
    BY <2>1 DEF BypassSelfReview
  <2> QED BY <2>2, AtFresh DEF StageFresh
<1> QED BY <1>1, LinkFreshStep, SyncAutomationFresh, SyncReviewLabelsFresh, SyncLifecycleFresh,
           FinishFresh, CheckSuiteFresh, CiCompletedFresh, ReviewWebhookFresh
        DEF HandlerStep

\* A thread starts: with a row or without.
LEMMA StartsFresh ==
    ASSUME FreshInv, pr.status = "open", Busy = {}, NEW t \in Threads, NEW rec,
           UNCHANGED <<item, pr, ci, hooks>>, Becomes(t, rec), rec.pc # "link",
           StageFresh(item, Passed, rec)
    PROVE  Fresh'
<1>1. thread[t] = Idle
  BY DEF Busy
<1>2. "ci_green" \in item.flags => Passed
  BY IdleFresh DEF FreshInv, Fresh, Busy
<1>3. StageFresh(item', Passed', rec) /\ Passed' = Passed /\ ItemFresh'
  BY DEF Passed, StageFresh, FreshInv, Fresh, ItemFresh
<1> QED BY <1>1, <1>2, <1>3, IdleFresh, FreshKept

\* ... none of the stages at which it knows anything
LEMMA PlainFresh ==
    ASSUME NEW row, NEW passed, NEW rec, TodoFresh(row, passed, rec.todo),
           rec.pc \in {"idle", "check_suite", "review", "rerun", "fix_needed", "none", "fallback",
                       "rollback", "poll", "stuck", "mark"}
    PROVE  StageFresh(row, passed, rec) /\ rec.pc # "link"
  BY DEF StageFresh, Moving

LEMMA ReconcileFresh ==
    ASSUME FreshInv, pr.status = "open", NEW t \in Threads, Reconcile(t) PROVE Fresh'
<1>1. /\ thread[t] # Idle /\ thread[t].todo = << >> /\ UNCHANGED <<pr, hooks, ci>>
      /\ thread[t].pc \in {"reconcile", "reconcile_revived"}
  BY DEF Reconcile, Idle, github
<1>2. /\ item'.state = item.state /\ item'.head = item.head
      /\ "ci_green" \in item'.flags => "ci_green" \in item.flags
  BY DEF Reconcile, FreshInv, SerialInv, TInv, Items
<1>3. StageFresh(item, Passed, thread[t])
  BY <1>1, BusyFresh
<1>4. thread[t].pc = "reconcile" /\ ~Moving(thread[t])
  BY <1>1, <1>3 DEF StageFresh, Moving
<1>5. Goes(t, "idle")
  BY <1>4 DEF Reconcile
<1> QED BY <1>1, <1>2, <1>4, <1>5, GoesFresh

LEMMA FixNeededFresh ==
    ASSUME FreshInv, pr.status = "open", NEW t \in Threads, FixNeeded(t) PROVE Fresh'
<1> DEFINE fix(remove) == <<Patch("auto_review", "ci_failed", {"ci_triage_fix_decided"}, remove)>>
<1>1. At(t, "fix_needed") /\ UNCHANGED <<pr, hooks, ci>>
  BY DEF FixNeeded, github
<1>2. thread[t] # Idle /\ thread[t].pc = "fix_needed" /\ thread[t] \in ThreadTypes
  BY <1>1, AtFresh
<1>3. PICK patches \in {<< >>, fix({"ci_green"}), fix({})} : Commits(t, patches, "reconcile")
  BY DEF FixNeeded
<1>4. \A remove \in {{"ci_green"}, {}} :
        fix(remove) \in Seq(Patches) /\ TodoFresh(item, Passed, fix(remove))
  <2>1. ASSUME NEW remove \in {{"ci_green"}, {}} PROVE fix(remove) \in Seq(Patches)
    <3>1. Patch("auto_review", "ci_failed", {"ci_triage_fix_decided"}, remove) \in Patches
      BY DEF Patch, Patches, States, Managed, Substates, AutoReviewSubstates, Flags, ResetFlags
    <3> QED BY <3>1
  <2>2. \A remove : TodoFresh(item, Passed, fix(remove))
    BY PatchFresh DEF Managed
  <2> HIDE DEF fix
  <2> QED BY <2>1, <2>2
<1> HIDE DEF fix
<1>5. patches \in Seq(Patches) /\ TodoFresh(item, Passed, patches)
  BY <1>3, <1>4, NoPatches, NothingFresh
<1>6. ~Moving(thread[t]) /\ ~Moving(Staged(thread[t], patches, "reconcile"))
  BY <1>2 DEF Moving, Staged, ThreadTypes
<1> QED BY <1>1, <1>2, <1>3, <1>5, <1>6, CommitsFresh

LEMMA RerunFresh ==
    ASSUME FreshInv, pr.status = "open", NEW t \in Threads, NEW accepted \in BOOLEAN,
           Rerun(t, accepted)
    PROVE  Fresh'
<1> DEFINE again == Patch("auto_review", "ci_rerunning", {}, {"ci_green"})
           spent == Patch(item.state, item.substate, {"ci_rerun_exhausted"}, {})
           head == checkpoints[thread[t].msg.row].head
<1>1. At(t, "rerun") /\ UNCHANGED <<pr, hooks, item>>
  BY DEF Rerun
<1>2. /\ thread[t] # Idle /\ thread[t].pc = "rerun" /\ thread[t].cur = item
      /\ thread[t] \in ThreadTypes /\ ItemFresh /\ item \in Items
  BY <1>1, AtFresh DEF HeldStages
<1>3. PICK patches \in {<< >>, <<again>>, <<spent>>}, pc \in {"rerun_event", "idle"} :
        Writes(t, patches, pc)
  BY <1>2 DEF Rerun
<1>4. Passed => Passed'
  <2>1. CASE accepted
    <3>1. ci[head] = "failure" /\ ci' = [ci EXCEPT ![head] = "pending"]
      BY <2>1 DEF Rerun
    <3>2. item.head \in Heads /\ ci \in [Heads -> {"pending", "success", "failure"}]
      BY <1>2 DEF FreshInv, SerialInv, TInv, GitHubTyped, Items
    <3> HIDE DEF head
    <3> QED BY <1>1, <3>1, <3>2 DEF Passed
  <2>2. CASE ~accepted
    BY <1>1, <2>2 DEF Rerun, Passed
  <2> QED BY <2>1, <2>2
<1>5. TodoFresh(item, Passed', <<again>>) /\ TodoFresh(item, Passed', <<spent>>)
  BY <1>2, PatchFresh DEF ItemFresh, Managed
<1> HIDE DEF again, spent
<1>6. TodoFresh(item', Passed', patches)
  BY <1>1, <1>3, <1>5, NothingFresh
<1>7. ~Moving(thread[t]) /\ ~Moving(Staged(thread[t], patches, pc))
  BY <1>2 DEF Moving, Staged, ThreadTypes
<1> QED BY <1>1, <1>2, <1>3, <1>4, <1>6, <1>7, WritesFresh

\* The rest of what a run's thread does
LEMMA FollowUpFresh ==
    ASSUME FreshInv, pr.status = "open", NEW t \in Threads,
           RecordRerun(t) \/ TriageFallback(t) \/ Rollback(t) \/ Mark(t)
    PROVE  Fresh'
<1>1. CASE RecordRerun(t)
  <2>1. At(t, "rerun_event") /\ UNCHANGED <<pr, hooks, ci, item>> /\ Goes(t, "idle")
    BY <1>1 DEF RecordRerun, github
  <2> QED BY <2>1, AtFresh, GoesFresh DEF Moving
<1>2. CASE TriageFallback(t)
  <2> DEFINE rec == [thread[t] EXCEPT !.pc = "fix_needed", !.cur = item]
  <2>1. At(t, "fallback") /\ UNCHANGED <<pr, hooks, ci, item>> /\ Becomes(t, rec)
    BY <1>2 DEF TriageFallback, github
  <2>2. /\ thread[t] # Idle /\ thread[t].todo = << >> /\ thread[t].pc = "fallback"
        /\ thread[t] \in ThreadTypes /\ ItemFresh
    BY <2>1, AtFresh
  <2>3. rec.pc = "fix_needed" /\ rec.todo = << >>
    BY <2>2 DEF ThreadTypes
  <2> HIDE DEF rec
  <2>4. StageFresh(item', Passed', rec) /\ rec.pc # "link"
    BY <2>3, PlainFresh, NothingFresh
  <2>5. "ci_green" \in item'.flags => Passed'
    BY <2>1, <2>2, BusyFresh, IdleFresh DEF FreshInv, Fresh, Busy, Moving, Passed
  <2>6. ItemFresh' /\ Busy \subseteq {t}
    BY <2>1, <2>2, BusyFresh DEF ItemFresh
  <2> QED BY <2>1, <2>2, <2>4, <2>5, <2>6, FreshKept
<1>3. CASE Rollback(t)
  <2>1. At(t, "rollback") /\ UNCHANGED <<pr, hooks, ci>> /\ Goes(t, "idle")
    BY <1>3 DEF Rollback, github
  <2>2. item'.state = item.state /\ item'.head = item.head /\ item'.flags = item.flags
    BY <1>3 DEF Rollback, FreshInv, SerialInv, TInv, Items
  <2> QED BY <2>1, <2>2, AtFresh, GoesFresh DEF Moving
<1>4. CASE Mark(t)
  <2>1. At(t, "mark") /\ UNCHANGED <<pr, hooks, ci, item>> /\ Becomes(t, Idle)
    BY <1>4 DEF Mark, github
  <2>2. thread[t] # Idle /\ thread[t].pc = "mark" /\ ItemFresh
    BY <2>1, AtFresh
  <2>3. StageFresh(item', Passed', Idle) /\ Idle.pc # "link"
    BY IdleFresh
  <2>4. "ci_green" \in item'.flags => Passed'
    BY <2>1, <2>2, BusyFresh, IdleFresh DEF FreshInv, Fresh, Busy, Moving, Passed
  <2>5. ItemFresh' /\ Busy \subseteq {t}
    BY <2>1, <2>2, BusyFresh DEF ItemFresh
  <2> QED BY <2>1, <2>2, <2>3, <2>4, <2>5, FreshKept
<1> QED BY <1>1, <1>2, <1>3, <1>4

\* The monitor finds the pull request open.
LEMMA MonitorFresh ==
    ASSUME FreshInv, Overlap = 1, pr.status = "open", MonitorStep PROVE Fresh'
<1>0. Monitor \in Threads
  BY DEF Threads
<1>1. CASE PollItem
  <2> DEFINE rec == [Idle EXCEPT !.pc = "poll", !.cur = item]
  <2>1. Busy = {}
    BY <1>1, StartsAlone DEF PollItem, FreshInv, SerialInv
  <2>2. Becomes(Monitor, rec) /\ UNCHANGED <<item, pr, ci, hooks>>
    BY <1>1 DEF PollItem, github
  <2>3. rec.todo = << >> /\ rec.pc = "poll"
    BY DEF Idle
  <2> HIDE DEF rec
  <2>4. StageFresh(item, Passed, rec) /\ rec.pc # "link"
    BY <2>3, PlainFresh, NothingFresh
  <2> QED BY <1>0, <2>1, <2>2, <2>4, StartsFresh
<1>2. CASE PollPullRequest
  <2> DEFINE back == <<Patch("auto_review", "pr_adopted", {}, {"ai_assist_disabled"})>>
  <2>1. At(Monitor, "poll") /\ UNCHANGED <<pr, hooks, ci, item>>
    BY <1>2 DEF PollPullRequest, github
  <2>2. /\ thread[Monitor] # Idle /\ thread[Monitor].todo = << >>
        /\ thread[Monitor].pc = "poll" /\ thread[Monitor] \in ThreadTypes
    BY <1>0, <2>1, AtFresh
  <2>3. \/ Writes(Monitor, back, "reconcile")
        \/ \E pc \in {"idle", "stuck"} : Goes(Monitor, pc)
    BY <1>2 DEF PollPullRequest
  <2>4. TodoFresh(item', Passed', back) /\ Passed' = Passed
    BY <2>1, PatchFresh DEF Managed, Passed
  <2> HIDE DEF back
  <2>5. ~Moving(thread[Monitor]) /\ ~Moving(Staged(thread[Monitor], back, "reconcile"))
    BY <2>2 DEF Moving, Staged, ThreadTypes
  <2>6. CASE Writes(Monitor, back, "reconcile")
    BY <1>0, <2>1, <2>2, <2>4, <2>5, <2>6, WritesFresh
  <2>7. ASSUME NEW pc \in {"idle", "stuck"}, Goes(Monitor, pc) PROVE Fresh'
    BY <1>0, <2>1, <2>2, <2>5, <2>7, GoesFresh
  <2> QED BY <2>3, <2>6, <2>7
<1>3. CASE RecoverStuck
  <2>1. At(Monitor, "stuck") /\ UNCHANGED <<pr, hooks, ci, item>>
    BY <1>3 DEF RecoverStuck, github
  <2>2. PICK pc \in {"idle", "reconcile"} : Goes(Monitor, pc)
    BY <1>3 DEF RecoverStuck
  <2> QED BY <1>0, <2>1, <2>2, AtFresh, GoesFresh DEF Moving
<1> QED BY <1>1, <1>2, <1>3 DEF MonitorStep

\* A checkpoint is processed: a verdict, or a run that made progress.
LEMMA ProcessesFresh ==
    ASSUME FreshInv, pr.status = "open", Busy = {}, NEW t \in Threads, NEW row, NEW i,
           row.type = "verdict" => row.verdict \in {"none", "fix_needed", "rerun"},
           Processes(t, row, i), UNCHANGED <<item, pr, ci, hooks>>
    PROVE  Fresh'
<1> DEFINE start == [Idle EXCEPT !.msg = [kind |-> "checkpoint", row |-> i], !.cur = item]
           verdict == [start EXCEPT !.pc = row.verdict]
           ready == [start EXCEPT !.todo = ProgressReady(item).patches]
<1>1. TodoFresh(item, Passed, ProgressReady(item).patches)
  BY ProgressWithin, WithinFresh
<1>2. /\ verdict.todo = << >> /\ verdict.pc = row.verdict
      /\ ready.todo = ProgressReady(item).patches /\ ready.pc = "idle"
  BY DEF Idle
<1>3. (Becomes(t, verdict) /\ row.type = "verdict") \/ Becomes(t, ready)
  BY DEF Processes
<1> HIDE DEF verdict, ready
<1>4. row.type = "verdict" => StageFresh(item, Passed, verdict) /\ verdict.pc # "link"
  BY <1>2, NothingFresh, PlainFresh
<1>5. StageFresh(item, Passed, ready) /\ ready.pc # "link"
  BY <1>1, <1>2, PlainFresh
<1> QED BY <1>3, <1>4, <1>5, StartsFresh

\* What leaves the pull request, the webhooks, the threads and the item alone.
LEMMA FreshStays ==
    ASSUME FreshInv, pr.status = "open", UNCHANGED <<item, pr, ci, hooks, thread>>
    PROVE  Fresh'
<1>1. Fresh
  BY DEF FreshInv
<1>2. \A h, n : Announced(h, n) => Announced(h, n)'
  BY DEF Announced, Linking
<1>3. HooksFresh'
  BY <1>1, <1>2 DEF Fresh, HooksFresh
<1>4. \A t \in Threads : LinkFresh(thread[t])' /\ StageFresh(item, Passed, thread[t])'
  BY <1>1 DEF Fresh, LinkFresh, StageFresh, Passed, Moving, Harmless, TodoFresh
<1> QED BY <1>1, <1>3, <1>4 DEF Fresh, ItemFresh, Passed, Moving

LEMMA EmitsFresh ==
    ASSUME FreshInv, pr.status = "open", Busy = {}, NEW r, RunThread(r) \in Threads,
           NEW type, NEW verdict \in {"none", "fix_needed", "rerun"},
           Emits(r, type, verdict), UNCHANGED <<item, pr, ci, hooks>>
    PROVE  Fresh'
<1> DEFINE row == [run |-> r, type |-> type, verdict |-> verdict,
                   head |-> runs[r].head, processed |-> FALSE]
<1>1. checkpoints \in Seq(RowTypes)
  BY DEF FreshInv, SerialInv, TInv, RowsTyped
<1>2. \/ checkpoints' = Append(checkpoints, row)
         /\ Processes(RunThread(r), Last(checkpoints'), Len(checkpoints'))
      \/ UNCHANGED thread
      \/ \E i \in DOMAIN checkpoints : Processes(RunThread(r), checkpoints[i], i)
  BY DEF Emits, Rows
<1>3. CASE checkpoints' = Append(checkpoints, row)
           /\ Processes(RunThread(r), Last(checkpoints'), Len(checkpoints'))
  <2>1. row.verdict = verdict
    OBVIOUS
  <2> HIDE DEF row
  <2>2. Last(checkpoints') = row
    BY <1>1, <1>3 DEF Last
  <2> QED BY <1>3, <2>1, <2>2, ProcessesFresh
<1>4. CASE UNCHANGED thread
  BY <1>4, FreshStays
<1>5. ASSUME NEW i \in DOMAIN checkpoints, Processes(RunThread(r), checkpoints[i], i)
      PROVE  Fresh'
  <2>1. checkpoints[i] \in RowTypes
    BY <1>1
  <2>2. checkpoints[i].verdict \in {"none", "fix_needed", "rerun"}
    BY <2>1 DEF RowTypes
  <2> QED BY <1>5, <2>2, ProcessesFresh
<1> HIDE DEF row
<1> QED BY <1>2, <1>3, <1>4, <1>5

LEMMA RunFresh ==
    ASSUME FreshInv, Overlap = 1, pr.status = "open", NEW r \in DOMAIN runs, RunStep(r)
    PROVE  Fresh'
<1>0. RunThread(r) \in Threads
  <2>1. r \in 1..RunLimit
    BY WorkItemsAssumption DEF FreshInv, SerialInv, TInv, RunsTyped
  <2> QED BY <2>1 DEF Threads
<1>1. CASE StartRun(r) \/ Complete(r)
  <2>1. UNCHANGED <<item, pr, ci, hooks, thread>>
    BY <1>1 DEF StartRun, Complete, github
  <2> QED BY <2>1, FreshStays
<1>2. ASSUME NEW v \in {"fix_needed", "rerun"}, EmitVerdict(r, v) PROVE Fresh'
  <2>1. /\ MayStart(RunThread(r)) /\ Emits(r, "verdict", v)
        /\ UNCHANGED <<item, pr, ci, hooks>>
    BY <1>2 DEF EmitVerdict, Running, github
  <2>2. Busy = {}
    BY <2>1, StartsAlone DEF FreshInv, SerialInv
  <2> QED BY <1>0, <2>1, <2>2, EmitsFresh
<1>3. ASSUME NEW type, Progress(r, type) PROVE Fresh'
  <2>1. /\ MayStart(RunThread(r)) /\ UNCHANGED <<item, pr, ci, hooks>>
        /\ UNCHANGED thread \/ Emits(r, type, "none")
    BY <1>3 DEF Progress, Running, github
  <2>2. Busy = {}
    BY <2>1, StartsAlone DEF FreshInv, SerialInv
  <2> QED BY <1>0, <2>1, <2>2, EmitsFresh, FreshStays
<1>4. ASSUME NEW prefetch, Fail(r, prefetch) PROVE Fresh'
  <2>1. PICK pc \in {"fallback", "rollback", "idle"} :
          Becomes(RunThread(r), [Idle EXCEPT !.pc = pc])
    BY <1>4 DEF Fail
  <2>2. MayStart(RunThread(r)) /\ UNCHANGED <<item, pr, ci, hooks>>
    BY <1>4 DEF Fail, github
  <2>3. Busy = {}
    BY <2>2, StartsAlone DEF FreshInv, SerialInv
  <2> DEFINE rec == [Idle EXCEPT !.pc = pc]
  <2>4. rec.todo = << >> /\ rec.pc = pc
    BY DEF Idle
  <2>5. Becomes(RunThread(r), rec)
    BY <2>1
  <2> HIDE DEF rec
  <2>6. StageFresh(item, Passed, rec) /\ rec.pc # "link"
    BY <2>4, PlainFresh, NothingFresh
  <2> QED BY <1>0, <2>2, <2>3, <2>5, <2>6, StartsFresh
<1> QED BY <1>1, <1>2, <1>3, <1>4 DEF RunStep

-----------------------------------------------------------------------------
\* GitHub sends a webhook.
LEMMA SentFresh ==
    ASSUME FreshInv, pr.status = "open", UNCHANGED <<item, thread>>, NEW msg \in HookTypes,
           hooks' = Append(hooks, msg), Passed => Passed', pr'.head \in Heads,
           Pull(msg) => Harmless(item, msg) /\ msg.head = pr'.head,
           pr'.head = pr.head \/ (Sync(msg) /\ pr.head <= pr'.head),
           item.state = "cancelled" => "assist" \notin pr'.labels
    PROVE  Fresh'
<1>1. Fresh /\ hooks \in Seq(HookTypes) /\ item \in Items /\ pr.head \in Heads
  BY DEF FreshInv, SerialInv, TInv, GitHubTyped
<1>2. PICK n \in Nat, head \in Heads : n = Len(hooks) /\ head = pr'.head
  BY <1>1
<1>3. /\ DOMAIN hooks = 1..n /\ DOMAIN hooks' = 1..(n + 1)
      /\ hooks'[n + 1] = msg /\ \A i \in DOMAIN hooks : hooks'[i] = hooks[i]
      /\ Len(hooks') = n + 1
  BY <1>1, <1>2
<1>4. /\ item.head \in Nat /\ pr.head \in Nat /\ head \in Nat
      /\ \A i \in DOMAIN hooks : hooks[i].head \in Nat
  <2>1. \A i \in DOMAIN hooks : hooks[i] \in HookTypes
    BY <1>1
  <2> QED BY <1>1, <2>1, HeadsAreNat DEF Items, HookTypes
<1>5. pr.head <= head
  BY <1>2, <1>4
<1>6. ASSUME NEW h, NEW m, Announced(h, m) PROVE Announced(h, m)'
  <2>1. Linking(h) => Linking(h)'
    BY DEF Linking
  <2> QED BY <1>3, <1>6, <2>1 DEF Announced
<1>7. ASSUME NEW h, Announced(h, n) PROVE Announced(h, n + 1)'
  <2>1. Linking(h) => Linking(h)'
    BY DEF Linking
  <2>2. \A i \in DOMAIN hooks : i <= n => i <= n + 1 /\ i \in DOMAIN hooks'
    BY <1>3
  <2> QED BY <1>3, <1>7, <2>1, <2>2 DEF Announced
<1>8. Announced(head, n + 1)'
  <2>1. CASE head = pr.head
    <3>1. Announced(pr.head, n)
      BY <1>1, <1>2 DEF Fresh, HooksFresh
    <3> QED BY <1>7, <2>1, <3>1
  <2>2. CASE Sync(msg) /\ msg.head = head
    <3>1. n + 1 \in DOMAIN hooks' /\ n + 1 <= n + 1
      BY <1>3
    <3> QED BY <1>3, <2>2, <3>1 DEF Announced
  <2> QED BY <1>2, <2>1, <2>2 DEF Sync
<1>9. ASSUME NEW i \in DOMAIN hooks', Pull(hooks'[i])
      PROVE  /\ Harmless(item, hooks'[i])
             /\ item.head <= hooks'[i].head /\ hooks'[i].head <= head
             /\ Announced(hooks[i].head, i)'
  <2>1. item.head <= pr.head
    BY <1>1 DEF Fresh, HooksFresh
  <2>2. CASE i = n + 1
    <3>1. hooks'[i].head = head /\ Harmless(item, hooks'[i])
      BY <1>2, <1>3, <1>9, <2>2
    <3> QED BY <1>4, <1>5, <1>8, <2>1, <2>2, <3>1
  <2>3. CASE i # n + 1
    <3>1. i \in DOMAIN hooks /\ hooks'[i] = hooks[i]
      BY <1>3, <2>3
    <3>2. /\ Harmless(item, hooks[i]) /\ item.head <= hooks[i].head /\ hooks[i].head <= pr.head
          /\ Announced(hooks[i].head, i)
      BY <1>1, <1>9, <3>1 DEF Fresh, HooksFresh
    <3> QED BY <1>4, <1>5, <1>6, <3>1, <3>2
  <2> QED BY <2>2, <2>3
<1>10. ASSUME NEW i \in DOMAIN hooks', NEW j \in DOMAIN hooks', i < j,
              Pull(hooks'[i]), Pull(hooks'[j])
       PROVE  hooks'[i].head <= hooks'[j].head
  <2>1. i \in DOMAIN hooks /\ hooks'[i] = hooks[i]
    BY <1>3, <1>10
  <2>2. CASE j = n + 1
    <3>1. hooks'[j].head = head
      BY <1>2, <1>3, <1>10, <2>2
    <3> QED BY <1>9, <1>10, <3>1
  <2>3. CASE j # n + 1
    <3>1. j \in DOMAIN hooks /\ hooks'[j] = hooks[j]
      BY <1>3, <2>3
    <3> QED BY <1>1, <1>10, <2>1, <3>1 DEF Fresh, HooksFresh
  <2> QED BY <2>2, <2>3
<1>11. item.head <= head
  <2>1. item.head <= pr.head
    BY <1>1 DEF Fresh, HooksFresh
  <2> QED BY <1>4, <1>5, <2>1
<1>12. HooksFresh'
  <2>1. Announced(pr.head, Len(hooks))'
    BY <1>2, <1>3, <1>8
  <2> QED BY <1>2, <1>9, <1>10, <1>11, <2>1 DEF HooksFresh, Harmless
<1>13. ASSUME NEW t \in Threads
       PROVE  LinkFresh(thread[t])' /\ StageFresh(item, Passed, thread[t])'
  <2>1. LinkFresh(thread[t]) /\ StageFresh(item, Passed, thread[t])
    BY <1>1 DEF Fresh
  <2>2. StageFresh(item, Passed', thread[t])
    BY <2>1 DEF StageFresh, TodoFresh
  <2>3. thread'[t] = thread[t] /\ item' = item
    OBVIOUS
  <2>4. LinkFresh(thread[t])'
    <3>1. CASE thread[t].pc = "link"
      <4>1. thread[t].msg.head \in Nat
        <5>1. ThreadTyped(thread[t])
          BY DEF FreshInv, SerialInv, TInv, ThreadsTyped
        <5> QED BY <3>1, <5>1, HeadsAreNat DEF ThreadTyped
      <4>2. /\ thread[t].todo = << >> /\ Harmless(item, thread[t].msg)
            /\ thread[t].msg.head = item.head \/ thread[t].msg.action = "synchronize"
            /\ item.head <= thread[t].msg.head /\ thread[t].msg.head <= pr.head
            /\ \A i \in DOMAIN hooks : Pull(hooks[i]) => thread[t].msg.head <= hooks[i].head
        BY <2>1, <3>1 DEF LinkFresh
      <4>3. thread[t].msg.head <= head
        BY <1>4, <1>5, <4>1, <4>2
      <4>4. ASSUME NEW i \in DOMAIN hooks', Pull(hooks'[i])
            PROVE  thread[t].msg.head <= hooks'[i].head
        <5>1. CASE i = n + 1
          BY <1>2, <1>3, <4>3, <4>4, <5>1
        <5>2. CASE i # n + 1
          BY <1>3, <4>2, <4>4, <5>2
        <5> QED BY <5>1, <5>2
      <4> QED BY <1>2, <2>3, <4>2, <4>3, <4>4 DEF LinkFresh, Harmless
    <3>2. CASE thread[t].pc # "link"
      BY <2>3, <3>2 DEF LinkFresh
    <3> QED BY <3>1, <3>2
  <2> QED BY <2>2, <2>3, <2>4 DEF StageFresh, Moving, Harmless, TodoFresh
<1>14. "ci_green" \in item'.flags => Passed' \/ \E t \in Threads : Moving(thread'[t])
  BY <1>1 DEF Fresh
<1> QED BY <1>1, <1>12, <1>13, <1>14 DEF Fresh, ItemFresh, Moving

LEMMA GitHubFresh ==
    ASSUME FreshInv, InSequence, pr.status = "open", GitHubStep, pr'.status = "open"
    PROVE  Fresh'
<1>1. /\ pr \in [status : {"open", "merged", "closed"}, head : Heads, labels : SUBSET Labels]
      /\ item \in Items /\ ci \in [Heads -> {"pending", "success", "failure"}]
      /\ item.state = "cancelled" => "assist" \notin pr.labels
  BY DEF FreshInv, SerialInv, TInv, GitHubTyped, Fresh, HooksFresh
<1>2. UNCHANGED <<item, thread>>
  BY DEF GitHubStep, Push, CiCompletes, SuiteCompletes, ChangeLabel, Review, ClosePr
<1>3. pr' \in [status : {"open", "merged", "closed"}, head : Heads, labels : SUBSET Labels]
  BY GitHubTypedStep DEF FreshInv, SerialInv, TInv, GitHubTyped
<1>4. ASSUME NEW kind \in {"pull_request", "review"},
             NEW action \in {"synchronize", "labeled", "unlabeled", "approved", "changes_requested"},
             NEW label \in (Labels \cup {"none"}) \ {"assist"},
             item.state = "cancelled" => "assist" \notin pr'.labels
      PROVE  /\ Hook(kind, action, label) \in HookTypes
             /\ Hook(kind, action, label).head = pr'.head
             /\ Hook(kind, action, label).kind = kind
             /\ Hook(kind, action, label).action = action
             /\ Harmless(item, Hook(kind, action, label))
  BY <1>3, <1>4 DEF Hook, HookTypes, Harmless
<1>5. CASE Push
  <2> DEFINE msg == Hook("pull_request", "synchronize", "none")
  <2>1. /\ pr' = [pr EXCEPT !.head = @ + 1] /\ hooks' = Append(hooks, msg) /\ UNCHANGED ci
    BY <1>5 DEF Push
  <2>2. pr'.labels = pr.labels /\ pr'.head = pr.head + 1
    BY <1>1, <2>1
  <2>3. /\ msg \in HookTypes /\ msg.head = pr'.head /\ msg.kind = "pull_request"
        /\ msg.action = "synchronize" /\ Harmless(item, msg)
    BY <1>1, <1>4, <2>2
  <2> HIDE DEF msg
  <2>4. Passed' = Passed /\ pr.head <= pr'.head /\ pr'.head \in Heads
    BY <1>1, <1>2, <1>3, <2>1, <2>2, HeadsAreNat DEF Passed
  <2> QED BY <1>1, <1>2, <2>1, <2>2, <2>3, <2>4, SentFresh DEF Sync, Pull
<1>6. ASSUME NEW h \in Heads, hooks' = Append(hooks, CheckSuiteHook(h)), UNCHANGED pr,
             Passed => Passed'
      PROVE  Fresh'
  <2>1. CheckSuiteHook(h) \in HookTypes /\ ~Pull(CheckSuiteHook(h))
    BY DEF CheckSuiteHook, HookTypes, Labels, Pull
  <2> QED BY <1>1, <1>2, <1>6, <2>1, SentFresh
<1>7. ASSUME NEW h \in Heads, NEW c \in {"success", "failure"}, CiCompletes(h, c) PROVE Fresh'
  <2>1. /\ ci[h] = "pending" /\ ci' = [ci EXCEPT ![h] = c] /\ UNCHANGED pr
        /\ hooks' = Append(hooks, CheckSuiteHook(h))
    BY <1>7 DEF CiCompletes
  <2>2. Passed => Passed'
    BY <1>1, <1>2, <2>1 DEF Passed, Items
  <2> QED BY <1>6, <2>1, <2>2
<1>8. ASSUME NEW h \in Heads, SuiteCompletes(h) PROVE Fresh'
  <2>1. UNCHANGED <<ci, pr>> /\ hooks' = Append(hooks, CheckSuiteHook(h))
    BY <1>8 DEF SuiteCompletes
  <2> QED BY <1>2, <1>6, <2>1 DEF Passed
<1>9. ASSUME NEW l \in Labels, ChangeLabel(l) PROVE Fresh'
  <2>1. l # "assist" /\ UNCHANGED ci
        /\ pr' = [pr EXCEPT !.labels = IF l \in @ THEN @ \ {l} ELSE @ \cup {l}]
    BY <1>9 DEF ChangeLabel, May, InSequence
  <2>2. /\ pr'.head = pr.head
        /\ item.state = "cancelled" => "assist" \notin pr'.labels
    BY <1>1, <2>1
  <2>3. PICK action \in {"labeled", "unlabeled"} :
          hooks' = Append(hooks, Hook("pull_request", action, l))
    BY <1>9 DEF ChangeLabel
  <2> DEFINE msg == Hook("pull_request", action, l)
  <2>4. msg \in HookTypes /\ msg.head = pr'.head /\ Harmless(item, msg)
    BY <1>4, <2>1, <2>2
  <2>5. hooks' = Append(hooks, msg)
    BY <2>3
  <2> HIDE DEF msg
  <2>6. Passed' = Passed
    BY <1>2, <2>1 DEF Passed
  <2> QED BY <1>1, <1>2, <2>2, <2>4, <2>5, <2>6, SentFresh
<1>10. ASSUME NEW s \in {"approved", "changes_requested"}, Review(s) PROVE Fresh'
  <2> DEFINE msg == Hook("review", s, "none")
  <2>1. UNCHANGED <<ci, pr>> /\ hooks' = Append(hooks, msg)
    BY <1>10 DEF Review
  <2>2. msg \in HookTypes /\ msg.kind = "review"
    BY <1>1, <1>4, <2>1
  <2> HIDE DEF msg
  <2>3. Passed' = Passed
    BY <1>2, <2>1 DEF Passed
  <2> QED BY <1>1, <1>2, <2>1, <2>2, <2>3, SentFresh DEF Pull
<1>11. ASSUME NEW s \in {"merged", "closed"}, ClosePr(s) PROVE FALSE
  BY <1>1, <1>11 DEF ClosePr
<1> QED BY <1>5, <1>7, <1>8, <1>9, <1>10, <1>11 DEF GitHubStep

\* The webhook at the head of the queue arrives: what it announces is now
\* its handler's to store.
LEMMA DeliverFresh ==
    ASSUME FreshInv, InSequence, pr.status = "open", NEW t \in Handlers,
           NEW i \in DOMAIN hooks, Deliver(t, i)
    PROVE  Fresh'
<1> DEFINE msg == hooks[1]
           start == [pc |-> CASE msg.kind = "pull_request" -> "link"
                              [] msg.kind = "check_suite"  -> "check_suite"
                              [] OTHER                     -> "review",
                     msg |-> msg, cur |-> item, todo |-> << >>,
                     off |-> ~Automated(item) /\ item.state # "cancelled"]
<1>1. /\ i = 1 /\ UNCHANGED <<item, pr, ci>> /\ hooks' = RemoveAt(hooks, 1)
      /\ Becomes(t, start) /\ t \in Threads
  BY DEF Deliver, InSequence, Threads
<1>2. Fresh /\ hooks \in Seq(HookTypes) /\ Busy = {}
  BY StartsAlone DEF FreshInv, SerialInv, TInv, GitHubTyped, Deliver, InSequence
<1>3. PICK n \in Nat : Len(hooks) = n + 1
  <2>1. Len(hooks) \in Nat /\ Len(hooks) >= 1
    BY <1>1, <1>2
  <2> QED BY <2>1
<1>4. /\ DOMAIN hooks = 1..(n + 1) /\ DOMAIN hooks' = 1..n /\ Len(hooks') = n
      /\ \A j \in 1..n : hooks'[j] = hooks[j + 1]
  BY <1>1, <1>2, <1>3 DEF RemoveAt
<1>5. PICK rec :
      /\ Becomes(t, rec)
      /\ rec.todo = << >> /\ rec.msg = msg /\ rec.pc \in {"link", "check_suite", "review"}
      /\ rec.pc = "link" <=> msg.kind = "pull_request"
  BY <1>1, <1>2
<1> HIDE DEF start
<1>6. \A u \in Threads : thread'[u] = IF u = t THEN rec ELSE Idle
  BY <1>1, <1>2, <1>5 DEF Becomes, FreshInv, SerialInv, TInv, ThreadsTyped, Busy
<1>7. \A h : ~Linking(h)
  BY <1>2, IdleFresh DEF Linking, Busy
<1>8. \A h : Sync(msg) /\ msg.head = h => Linking(h)'
  BY <1>1, <1>5, <1>6 DEF Linking, Sync, Pull
<1>9. ASSUME NEW h, NEW m \in Nat, Announced(h, m + 1) PROVE Announced(h, m)'
  <2>1. CASE h = item.head
    BY <1>1, <2>1 DEF Announced
  <2>2. ASSUME NEW j \in DOMAIN hooks, j <= m + 1, Sync(hooks[j]), hooks[j].head = h
        PROVE  Announced(h, m)'
    <3>1. CASE j = 1
      BY <1>8, <2>2, <3>1 DEF Announced
    <3>2. CASE j # 1
      <4>1. PICK k \in 1..n : j = k + 1
        <5>1. j - 1 \in 1..n /\ j = (j - 1) + 1
          BY <1>3, <1>4, <3>2
        <5> QED BY <5>1
      <4>2. k \in DOMAIN hooks' /\ hooks'[k] = hooks[j] /\ k <= m
        BY <1>4, <2>2, <4>1
      <4> QED BY <2>2, <4>2 DEF Announced
    <3> QED BY <3>1, <3>2
  <2> QED BY <1>7, <1>9, <2>1, <2>2 DEF Announced
<1>10. ASSUME NEW j \in 1..n, Pull(hooks'[j])
       PROVE  /\ Harmless(item, hooks'[j])
              /\ item.head <= hooks'[j].head /\ hooks'[j].head <= pr.head
              /\ Announced(hooks[j].head, j)'
  <2>1. j + 1 \in DOMAIN hooks /\ hooks'[j] = hooks[j + 1] /\ j \in Nat
    BY <1>4
  <2>2. /\ Harmless(item, hooks[j + 1])
        /\ item.head <= hooks[j + 1].head /\ hooks[j + 1].head <= pr.head
        /\ Announced(hooks[j + 1].head, j + 1)
    BY <1>2, <1>10, <2>1 DEF Fresh, HooksFresh
  <2>3. PICK h : h = hooks[j + 1].head
    OBVIOUS
  <2>4. Announced(h, j)'
    BY <1>9, <2>1, <2>2, <2>3
  <2> QED BY <2>1, <2>2, <2>3, <2>4
<1>11. ASSUME NEW j \in 1..n, NEW k \in 1..n, j < k, Pull(hooks'[j]), Pull(hooks'[k])
       PROVE  hooks'[j].head <= hooks'[k].head
  <2>1. /\ j + 1 \in DOMAIN hooks /\ hooks'[j] = hooks[j + 1]
        /\ k + 1 \in DOMAIN hooks /\ hooks'[k] = hooks[k + 1] /\ j + 1 < k + 1
    BY <1>4, <1>11
  <2> QED BY <1>2, <1>11, <2>1 DEF Fresh, HooksFresh
<1>12. HooksFresh'
  <2>1. Announced(pr.head, n + 1)
    BY <1>2, <1>3 DEF Fresh, HooksFresh
  <2>2. Announced(pr.head, n)'
    BY <1>1, <1>9, <2>1
  <2>3. Announced(pr.head, Len(hooks))'
    BY <1>4, <2>2
  <2>4. item.head <= pr.head /\ (item.state = "cancelled" => "assist" \notin pr.labels)
    BY <1>2 DEF Fresh, HooksFresh
  <2> QED BY <1>1, <1>4, <1>10, <1>11, <2>3, <2>4 DEF HooksFresh, Harmless
<1>13. LinkFresh(rec)'
  <2>1. SUFFICES ASSUME msg.kind = "pull_request" PROVE LinkFresh(rec)'
    BY <1>5 DEF LinkFresh
  <2>2. 1 \in DOMAIN hooks /\ Pull(msg)
    BY <1>1, <2>1 DEF Pull
  <2>3. /\ Harmless(item, msg) /\ item.head <= msg.head /\ msg.head <= pr.head
        /\ Announced(msg.head, 1)
    BY <1>2, <2>2 DEF Fresh, HooksFresh
  <2>4. msg.head = item.head \/ msg.action = "synchronize"
    <3>1. \A j \in DOMAIN hooks : j <= 1 => j = 1
      BY <1>4
    <3> QED BY <1>7, <2>3, <3>1 DEF Announced, Sync
  <2>5. ASSUME NEW j \in 1..n, Pull(hooks'[j]) PROVE msg.head <= hooks'[j].head
    <3>1. j + 1 \in DOMAIN hooks /\ hooks'[j] = hooks[j + 1] /\ 1 < j + 1
      BY <1>4
    <3> QED BY <1>2, <2>2, <2>5, <3>1 DEF Fresh, HooksFresh
  <2> QED BY <1>1, <1>4, <1>5, <2>3, <2>4, <2>5 DEF LinkFresh, Harmless
<1>14. StageFresh(item', Passed', rec)
  BY <1>5, NothingFresh DEF StageFresh, Moving
<1>15. ASSUME NEW u \in Threads
       PROVE  LinkFresh(thread[u])' /\ StageFresh(item, Passed, thread[u])'
  <2>1. CASE u = t
    <3>1. thread'[u] = rec
      BY <1>6, <2>1
    <3>2. StageFresh(item', Passed', thread'[u])
      BY <1>14, <3>1
    <3>3. LinkFresh(thread[u])'
      BY <1>13, <3>1 DEF LinkFresh, Harmless
    <3> QED BY <3>2, <3>3 DEF StageFresh, Moving, Harmless, TodoFresh
  <2>2. CASE u # t
    <3>1. thread'[u] = Idle
      BY <1>6, <2>2
    <3>2. StageFresh(item', Passed', thread'[u]) /\ thread'[u].pc # "link"
      BY <3>1, IdleFresh
    <3> QED BY <3>2 DEF LinkFresh, StageFresh, Moving, Harmless, TodoFresh
  <2> QED BY <2>1, <2>2
<1>16. "ci_green" \in item'.flags => Passed'
  BY <1>1, <1>2, IdleFresh DEF Fresh, Busy, Passed
<1> QED BY <1>1, <1>2, <1>12, <1>15, <1>16 DEF Fresh, ItemFresh, Moving

-----------------------------------------------------------------------------
LEMMA FreshInit == Init => FreshInv
<1> SUFFICES ASSUME Init PROVE FreshInv
  OBVIOUS
<1>1. SerialInv /\ server.at = "up" /\ hooks = << >> /\ pr.head = 1
  BY SerialInit DEF Init
<1>2. /\ item.head = 1 /\ item.state \in {"auto_review", "cancelled"}
      /\ "ci_green" \notin item.flags
      /\ item.state = "cancelled" => pr.labels = {}
  <2>1. CASE item = AdoptedItem
    BY <2>1 DEF AdoptedItem
  <2>2. CASE item = OptedOutItem
    <3>1. ~Automated(item) /\ item.head = 1 /\ item.state = "cancelled"
      BY <2>2 DEF OptedOutItem, AdoptedItem, Automated, Has
    <3>2. "ci_green" \notin item.flags
      BY <2>2 DEF OptedOutItem, AdoptedItem
    <3> QED BY <3>1, <3>2 DEF Init
  <2> QED BY <2>1, <2>2 DEF Init
<1>3. HooksFresh
  BY <1>1, <1>2 DEF HooksFresh, Announced
<1> DEFINE first == [Idle EXCEPT !.pc = "reconcile"]
<1>4. first.pc = "reconcile" /\ first.todo = << >>
  BY DEF Idle
<1>5. \A t \in Threads : thread[t] \in {first, Idle}
  BY DEF Init
<1> HIDE DEF first
<1>6. StageFresh(item, Passed, first) /\ first.pc # "link"
  BY <1>4, NothingFresh DEF StageFresh, Moving
<1>7. \A t \in Threads : LinkFresh(thread[t]) /\ StageFresh(item, Passed, thread[t])
  BY <1>5, <1>6, IdleFresh DEF LinkFresh
<1> QED BY <1>1, <1>2, <1>3, <1>7 DEF FreshInv, Fresh, ItemFresh, Managed

LEMMA FreshStep ==
    ASSUME InSequence PROVE FreshInv /\ [Next]_vars => FreshInv'
<1> SUFFICES ASSUME FreshInv, [Next]_vars PROVE FreshInv'
  OBVIOUS
<1>1. SerialInv'
  BY SerialStep DEF FreshInv, InSequence
<1>2. ~Crash /\ ~ServerStep /\ \A i : ~HookLost(i)
  <2>1. ~Crash
    BY DEF Crash, InSequence, FreshInv, SerialInv, TInv, RowsTyped
  <2>2. ~ServerStep /\ \A i : ~HookLost(i)
    BY DEF ServerStep, Replays, Recover, HookLost, FreshInv
  <2> QED BY <2>1, <2>2
<1>3. UNCHANGED server
  BY <1>2, Zenon
  DEF Next, vars, GitHubStep, Push, CiCompletes, SuiteCompletes, ChangeLabel, Review, ClosePr,
      Deliver, ThreadStep, Write, Reconcile, Link, SyncAutomation, SyncReviewLabels, SyncLifecycle,
      BypassSelfReview, Finish, CheckSuite, CiCompleted, ReviewWebhook, FixNeeded, RecordRerun,
      TriageFallback, Rollback, Mark, Rerun, RunStep, StartRun, Complete, Progress, EmitVerdict,
      Fail, MonitorStep, PollItem, PollPullRequest, RecoverStuck
<1>4. pr'.status = "open" => pr.status = "open"
  <2>1. GitHubStep \/ UNCHANGED pr
    BY <1>2, Zenon
    DEF Next, vars, github, Deliver, ThreadStep, Write, Reconcile, Link, SyncAutomation,
        SyncReviewLabels, SyncLifecycle, BypassSelfReview, Finish, CheckSuite, CiCompleted,
        ReviewWebhook, FixNeeded, RecordRerun, TriageFallback, Rollback, Mark, Rerun, RunStep,
        StartRun, Complete, Progress, EmitVerdict, Fail, MonitorStep, PollItem, PollPullRequest,
        RecoverStuck
  <2>2. GitHubStep => pr.status = "open" \/ UNCHANGED pr
    BY DEF GitHubStep, Push, CiCompletes, SuiteCompletes, ChangeLabel, Review, ClosePr, May
  <2> QED BY <2>1, <2>2
<1>5. ASSUME pr.status = "open", pr'.status = "open" PROVE Fresh'
  <2>1. CASE UNCHANGED vars
    BY <1>5, <2>1, FreshStays DEF vars, github
  <2>2. ASSUME NEW t \in Threads, ThreadStep(t) PROVE Fresh'
    <3>1. \/ Write(t) \/ Reconcile(t) \/ HandlerStep(t) \/ FixNeeded(t)
          \/ RecordRerun(t) \/ TriageFallback(t) \/ Rollback(t) \/ Mark(t)
          \/ \E a \in BOOLEAN : Rerun(t, a)
      BY <2>2 DEF ThreadStep, HandlerStep
    <3> QED BY <1>5, <3>1, WriteFresh, ReconcileFresh, HandlerFresh, FixNeededFresh,
               FollowUpFresh, RerunFresh
  <2>3. CASE GitHubStep
    BY <1>5, <2>3, GitHubFresh
  <2>4. CASE MonitorStep
    BY <1>5, <2>4, MonitorFresh DEF InSequence
  <2>5. ASSUME NEW r \in DOMAIN runs, RunStep(r) PROVE Fresh'
    BY <1>5, <2>5, RunFresh DEF InSequence
  <2>6. ASSUME NEW t \in Handlers, NEW i \in DOMAIN hooks, Deliver(t, i) PROVE Fresh'
    BY <1>5, <2>6, DeliverFresh
  <2> QED BY <1>2, <2>1, <2>2, <2>3, <2>4, <2>5, <2>6 DEF Next
<1> QED BY <1>1, <1>3, <1>4, <1>5 DEF FreshInv

\* When all is handled, an item behind auto_review is at the head of its pull
\* request, and CI passed there: where webhooks arrive in order, handlers come
\* one after the other, the server does not crash, and nobody touches the
\* adoption label.
THEOREM QuietReviews ==
    ASSUME Overlap = 1, InOrder, CrashLimit = 0, "assist" \notin Happens
    PROVE  Spec => []QuietReview
<1>1. FreshInv /\ [Next]_vars => FreshInv'
  BY FreshStep DEF InSequence
<1>2. FreshInv => QuietReview
  <2>1. SUFFICES ASSUME FreshInv, Quiet, pr.status = "open", item.state \in ReviewStates
                 PROVE  item.head = pr.head /\ ci[pr.head] = "success"
    BY DEF QuietReview
  <2>2. \A t \in Threads : thread[t] = Idle
    BY <2>1 DEF Quiet, Busy
  <2>3. Announced(pr.head, Len(hooks)) /\ hooks = << >>
    BY <2>1 DEF FreshInv, Fresh, HooksFresh, Quiet
  <2>4. item.head = pr.head
    BY <2>2, <2>3, IdleFresh DEF Announced, Linking
  <2>5. "ci_green" \in item.flags
    BY <2>1 DEF FreshInv, SerialInv, Green
  <2>6. Passed
    BY <2>1, <2>2, <2>5, IdleFresh DEF FreshInv, Fresh
  <2> QED BY <2>4, <2>6 DEF Passed
<1> QED BY <1>1, <1>2, FreshInit, PTL DEF Spec
=============================================================================
