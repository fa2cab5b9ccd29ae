------------------------------ MODULE WorkItems ------------------------------
(***************************************************************************)
(* One adopted pull request and its feature-delivery work item: GitHub     *)
(* and its webhooks, the handlers that receive them, the orchestrator that *)
(* launches system runs, the checkpoints of those runs, the monitor that   *)
(* polls the pull request, and crashes of the server.                      *)
(*                                                                         *)
(* A step is what happens between two awaits: one read, one updateState or *)
(* one transaction of the database, or one call of GitHub.  updateState    *)
(* and reconcileWorkItem take the item's advisory lock, so each is one     *)
(* step; what a handler read before it is not protected.                   *)
(*                                                                         *)
(* A checkpoint is a row that is inserted once, processed, and then marked *)
(* as processed.  After a crash the rows without a mark are processed once *)
(* more, and then the runs that were active begin again.                   *)
(***************************************************************************)
EXTENDS FeatureDelivery, FiniteSets, SequencesExt

CONSTANTS
    Handlers,      \* concurrent requests of the webhook server, bound
    HeadLimit,     \* commits that are pushed to the pull request, bound
    RunLimit,      \* system runs that are launched, bound
    EventLimit,    \* events on GitHub besides pushes and CI results, bound
    HookLimit,     \* webhooks under way, bound
    Happens,       \* which of them: "assist", "label", "review", "suite", "close"
    Overlap,       \* threads that are in the middle of their work, bound
    InOrder,       \* webhooks arrive in the order of their events
    RerunLimit,    \* MAX_CI_RERUN_ATTEMPTS_PER_HEAD_SHA
    RepairLimit,   \* ciRepairMaxAttempts
    CrashLimit     \* crashes of the server, bound

ASSUME WorkItemsAssumption ==
    /\ {HeadLimit, RunLimit, EventLimit, HookLimit, Overlap, RerunLimit, RepairLimit,
        CrashLimit} \subseteq Nat
    /\ HeadLimit >= 1    \* a pull request has a commit
    /\ InOrder \in BOOLEAN /\ Happens \subseteq {"assist", "label", "review", "suite", "close"}

Heads  == 1..HeadLimit
Labels == {"assist"} \cup ReviewFlags     \* the review labels are named by their flags

RunThread(r) == <<"run", r>>
Monitor == <<"monitor", 0>>
Startup == <<"startup", 0>>
Threads == Handlers \cup {RunThread(r) : r \in 1..RunLimit} \cup {Monitor, Startup}

VARIABLES
    item,      \* the row of work_items
    pr,        \* GitHub: status, head commit and labels of the pull request
    ci,        \* GitHub: the aggregate CI conclusion of every commit
    hooks,     \* webhooks sent and not yet received
    events,    \* those events so far
    runs,      \* the system runs of the item, oldest first
    reruns,    \* ci.rerun_triggered events per head
    asked,     \* how often GitHub did rerun the CI of a head for a run that was
               \* launched while the item was at that head (history)
    checkpoints,  \* the rows of run_checkpoints, oldest first
    server,    \* the server process: its crashes, and the row that it replayed last
    thread     \* where every handler, run callback and the monitor stands

github  == <<pr, ci, hooks, events>>
counts  == <<reruns, asked>>
records == <<runs, counts, checkpoints>>
vars == <<item, github, records, server, thread>>

\* thread[t]: the next stage pc, the payload received, the row last read or
\* written, the patches still to write, and whether the item was waiting
\* with its automation switched off when the payload came.
Idle == [pc |-> "idle", msg |-> << >>, cur |-> << >>, todo |-> << >>, off |-> FALSE]
Busy == {t \in Threads : thread[t] # Idle}

-----------------------------------------------------------------------------
(* Runs.                                                                   *)

ActiveStatuses == {"queued", "running"}
Active == {r \in DOMAIN runs : runs[r].status \in ActiveStatuses}
\* A run is launched for the item's head (target, history) and works on the
\* pull request's (head), which the item may not have heard of.
NewRun(kind, source) ==
    [kind |-> kind, source |-> source, status |-> "queued", target |-> item.head,
     head |-> 0, stage |-> "none"]

\* How the item stands before anything happens: adopted while CI runs, the
\* reconcile of the adoption still to come ...
AdoptedItem ==
    [state    |-> "auto_review",
     substate |-> IF Policy.selfReviewEnabled THEN "pr_adopted" ELSE "waiting_ci",
     flags    |-> IF Policy.selfReviewEnabled THEN {} ELSE {"self_review_done"},
     head     |-> 1]
\* ... or cancelled since, because the adoption label was taken off.
OptedOutItem ==
    [AdoptedItem EXCEPT !.state = "cancelled", !.substate = "none",
                        !.flags = @ \cup {"ai_assist_disabled"}]

Init ==
    /\ item \in {AdoptedItem, OptedOutItem}
    /\ pr = [status |-> "open", head |-> 1,
             labels |-> IF Automated(item) THEN {"assist"} ELSE {}]
    /\ ci = [h \in Heads |-> "pending"]
    /\ hooks = << >> /\ events = 0 /\ runs = << >>
    /\ reruns = [h \in Heads |-> 0] /\ asked = reruns
    /\ checkpoints = << >>
    /\ server = [at |-> "up", crashes |-> 0, replayed |-> 0]
    /\ \E h \in Handlers :
          thread = [t \in Threads |-> IF t = h /\ Automated(item)
                                       THEN [Idle EXCEPT !.pc = "reconcile"] ELSE Idle]

-----------------------------------------------------------------------------
(* Threads.                                                                *)

At(t, pc) == thread[t].pc = pc /\ thread[t].todo = << >>
IsCheckpoint(msg) == msg # << >> /\ msg.kind = "checkpoint"

\* A thread that has nothing left to do forgets what it read, and a checkpoint
\* is marked once it was processed.
Becomes(t, rec) ==
    thread' = [thread EXCEPT ![t] =
                 IF rec.pc # "idle" \/ rec.todo # << >> THEN rec
                 ELSE IF IsCheckpoint(rec.msg) THEN [Idle EXCEPT !.pc = "mark", !.msg = rec.msg]
                 ELSE Idle]
Goes(t, pc) == Becomes(t, [thread[t] EXCEPT !.pc = pc])
\* Go on at pc once the patches are written ...
Writes(t, patches, pc) == Becomes(t, [thread[t] EXCEPT !.todo = patches, !.pc = pc])
Decides(t, decision) ==
    Writes(t, decision.patches, IF decision.reconcile THEN "reconcile" ELSE "idle")

\* ... one updateState a step.  A transition that the store refuses throws:
\* the handler gives up, the monitor goes on with the row it has.
Commit(t, rec) ==
    IF rec.todo = << >>
      THEN Becomes(t, rec) /\ UNCHANGED item
      ELSE LET p == Head(rec.todo)
           IN  IF Allowed(item.state, p.state)
                 THEN /\ item' = Patched(item, p)
                      /\ Becomes(t, [rec EXCEPT !.todo = Tail(@), !.cur = item'])
                 ELSE /\ Becomes(t, IF t = Monitor THEN [rec EXCEPT !.todo = << >>, !.pc = "stuck"]
                                                   ELSE Idle)
                      /\ UNCHANGED item

\* What a stage decides from the row it holds is written at once.
Commits(t, patches, pc) == Commit(t, [thread[t] EXCEPT !.todo = patches, !.pc = pc])

Write(t) ==
    /\ thread[t].todo # << >> /\ Commit(t, thread[t])
    /\ UNCHANGED <<github, records, server>>

\* (Mutant: the transaction looks for active runs before it takes the lock,
\* so that it no longer sees a run that another one launched.)
ReconcileUnlocked(t) ==
    /\ thread[t].pc \in {"reconcile", "reconcile_revived"} /\ thread[t].todo = << >>
    /\ ShouldAutoLaunch(item) /\ Len(runs) < RunLimit
    /\ item' = [item EXCEPT !.substate = LaunchSubstate(item)]
    /\ runs' = Append(runs, NewRun(LaunchKind(item), item.substate))
    /\ Goes(t, "idle")
    /\ UNCHANGED <<github, counts, checkpoints, server>>

\* reconcileWorkItem, under the item's lock
Reconcile(t) ==
    LET launches  == ShouldAutoLaunch(item) /\ Active = {}
        exhausted == item.substate = "ci_failed" /\ reruns[item.head] >= RerunLimit
    IN  /\ thread[t].pc \in {"reconcile", "reconcile_revived"} /\ thread[t].todo = << >>
        /\ \/ /\ ~launches
              /\ UNCHANGED <<item, runs>>
           \/ /\ launches /\ exhausted
              /\ item' = [item EXCEPT !.flags = @ \cup {"ci_rerun_exhausted"}]
              /\ UNCHANGED runs
           \/ /\ launches /\ ~exhausted /\ Len(runs) < RunLimit
              /\ item' = [item EXCEPT !.substate = LaunchSubstate(item)]
              /\ runs' = Append(runs, NewRun(LaunchKind(item), item.substate))
        /\ Goes(t, IF thread[t].pc = "reconcile" THEN "idle" ELSE "finish")
        /\ UNCHANGED <<github, counts, checkpoints, server>>

-----------------------------------------------------------------------------
(* GitHub.                                                                 *)

Hook(kind, action, label) ==
    [kind |-> kind, action |-> action, label |-> label, head |-> pr'.head,
     labels |-> pr'.labels]

CheckSuiteHook(h) ==
    [kind |-> "check_suite", action |-> "completed", label |-> "none", head |-> h, labels |-> {}]

\* Somebody, or a run, pushes a commit.
Push ==
    /\ pr.status = "open" /\ pr.head < HeadLimit /\ Len(hooks) < HookLimit
    /\ pr' = [pr EXCEPT !.head = @ + 1]
    /\ hooks' = Append(hooks, Hook("pull_request", "synchronize", "none"))
    /\ UNCHANGED <<item, ci, events, records, server, thread>>

CiCompletes(h, conclusion) ==
    /\ h <= pr.head /\ ci[h] = "pending" /\ Len(hooks) < HookLimit
    /\ ci' = [ci EXCEPT ![h] = conclusion]
    /\ hooks' = Append(hooks, CheckSuiteHook(h))
    /\ UNCHANGED <<item, pr, events, records, server, thread>>

May(what) ==
    what \in Happens /\ pr.status = "open" /\ events < EventLimit /\ Len(hooks) < HookLimit

\* One more check suite of a commit completes; the aggregate stays.
SuiteCompletes(h) ==
    /\ May("suite") /\ ci[h] # "pending"
    /\ hooks' = Append(hooks, CheckSuiteHook(h))
    /\ events' = events + 1
    /\ UNCHANGED <<item, pr, ci, records, server, thread>>

ChangeLabel(label) ==
    /\ May(IF label = "assist" THEN "assist" ELSE "label")
    /\ pr' = [pr EXCEPT !.labels = IF label \in @ THEN @ \ {label} ELSE @ \cup {label}]
    /\ hooks' = Append(hooks, Hook("pull_request",
                  IF label \in pr.labels THEN "unlabeled" ELSE "labeled", label))
    /\ events' = events + 1
    /\ UNCHANGED <<item, ci, records, server, thread>>

Review(state) ==
    /\ May("review")
    /\ pr' = pr
    /\ hooks' = Append(hooks, Hook("review", state, "none"))
    /\ events' = events + 1
    /\ UNCHANGED <<item, ci, records, server, thread>>

ClosePr(status) ==
    /\ May("close")
    /\ pr' = [pr EXCEPT !.status = status]
    /\ hooks' = Append(hooks, Hook("pull_request", status, "none"))
    /\ events' = events + 1
    /\ UNCHANGED <<item, ci, records, server, thread>>

-----------------------------------------------------------------------------
(* Webhook handlers (github-sync).                                         *)

MayStart(t) == server.at = "up" /\ thread[t] = Idle /\ Cardinality(Busy) < Overlap

\* A webhook arrives, and its handler finds the item.
Deliver(t, i) ==
    LET msg == hooks[i]
    IN  /\ MayStart(t)
        /\ InOrder => i = 1
        /\ hooks' = RemoveAt(hooks, i)
        /\ Becomes(t, [pc |-> CASE msg.kind = "pull_request" -> "link"
                                [] msg.kind = "check_suite"  -> "check_suite"
                                [] OTHER                     -> "review",
                       msg |-> msg, cur |-> item, todo |-> << >>,
                       off |-> ~Automated(item) /\ item.state # "cancelled"])
        /\ UNCHANGED <<item, pr, ci, events, records, server>>

\* syncStoredPullRequestContext: the payload's head becomes the item's.
Link(t) ==
    LET head == thread[t].msg.head
    IN  /\ At(t, "link")
        /\ IF head = thread[t].cur.head
             THEN /\ Goes(t, "automation")
                  /\ UNCHANGED item
             ELSE /\ item' = [item EXCEPT !.head = head]
                  /\ Becomes(t, [thread[t] EXCEPT !.pc = "automation", !.cur = item'])
        /\ UNCHANGED <<github, records, server>>

\* syncAiAssistAutomationFlag: the opt-out follows the adoption label, and
\* the state that was read is written back.
SyncAutomation(t) ==
    LET cur  == thread[t].cur
        has  == "assist" \in thread[t].msg.labels
        next == IF thread[t].msg.action = "synchronize" THEN "lifecycle" ELSE "labels"
        flag == {"ai_assist_disabled"}
    IN  /\ At(t, "automation")
        /\ Commits(t, IF has = Automated(cur) THEN << >>
                       ELSE <<Patch(cur.state, cur.substate, IF has THEN {} ELSE flag,
                                    IF has THEN flag ELSE {})>>, next)
        /\ UNCHANGED <<github, records, server>>

SyncReviewLabels(t) ==
    /\ At(t, "labels")
    /\ Commits(t, LabelsSynced(thread[t].cur, thread[t].msg.labels \cap ReviewFlags).patches,
               "lifecycle")
    /\ UNCHANGED <<github, records, server>>

\* resolveInitialAutoReviewStatus, of the CI of a head
RevivedPatch(conclusion) ==
    LET off == {"ai_assist_disabled"}
    IN  CASE conclusion = "failure" -> Patch("auto_review", "ci_failed", {}, off)
          [] conclusion = "success" ->
               Patch("auto_review", "ci_green_pending_self_review", {"ci_green"}, off)
          [] OTHER -> Patch("auto_review", AdoptedItem.substate, AdoptedItem.flags, off)

\* syncAiAssistLifecycleFromPullRequestLabels
SyncLifecycle(t) ==
    LET msg == thread[t].msg
        cur == thread[t].cur
        has == "assist" \in msg.labels
    IN  /\ At(t, "lifecycle")
        /\ CASE msg.action = "unlabeled" /\ msg.label = "assist" /\ ~has
                  /\ cur.state # "cancelled" ->
                  Commits(t, <<Patch("cancelled", "none", {"ai_assist_disabled"}, {})>>, "finish")
             [] msg.action = "labeled" /\ has /\ cur.state = "cancelled" ->
                  Writes(t, <<RevivedPatch(ci[msg.head])>>, "revived") /\ UNCHANGED item
             [] OTHER -> Goes(t, "finish") /\ UNCHANGED item
        /\ UNCHANGED <<github, records, server>>

\* maybeBypassSelfReviewAfterAdoption
BypassSelfReview(t) ==
    LET cur == thread[t].cur
    IN  /\ At(t, "revived")
        /\ Commits(t, IF /\ ~Policy.selfReviewEnabled /\ cur.state = "auto_review"
                          /\ cur.substate = "ci_green_pending_self_review"
                         THEN CiSucceeded(cur, FALSE).patches ELSE << >>, "reconcile_revived")
        /\ UNCHANGED <<github, records, server>>

Closed(status) ==
    IF status = "merged" THEN Patch("done", "merged", {}, {})
                         ELSE Patch("cancelled", "closed_unmerged", {"pr_closed"}, {})

\* The rest of handlePullRequest
Finish(t) ==
    LET cur == thread[t].cur
        action == thread[t].msg.action
    IN  /\ At(t, "finish")
        /\ CASE action \in {"merged", "closed"} -> Commits(t, <<Closed(action)>>, "idle")
             [] action = "synchronize" -> Commits(t, PrSynchronized(cur).patches, "idle")
             [] OTHER -> Commits(t, << >>,
                           IF thread[t].off /\ Automated(cur) /\ cur.state = "auto_review"
                             THEN "reconcile" ELSE "idle")
        /\ UNCHANGED <<github, records, server>>

\* (Mutant: a result for any commit counts, not only for the item's head.)
CheckSuiteOfAnyHead(t) ==
    /\ At(t, "check_suite")
    /\ IF ci[thread[t].msg.head] = "pending" THEN Goes(t, "idle")
       ELSE Goes(t, ci[thread[t].msg.head])
    /\ UNCHANGED <<item, github, records, server>>

\* handleCheckSuite: only for the item's head, and by the aggregate of CI
CheckSuite(t) ==
    /\ At(t, "check_suite")
    /\ Goes(t, IF thread[t].msg.head # thread[t].cur.head \/ ci[thread[t].cur.head] = "pending"
                 THEN "idle" ELSE ci[thread[t].cur.head])
    /\ UNCHANGED <<item, github, records, server>>

\* ... and the decision, with the runs as they are now
CiCompleted(t) ==
    LET cur    == thread[t].cur
        active == cur.state = "auto_review" /\ Active # {}
    IN  /\ \/ At(t, "success") /\ Decides(t, CiSucceeded(cur, active))
           \/ At(t, "failure") /\ Decides(t, CiFailed(cur, active))
        /\ UNCHANGED <<item, github, records, server>>

ReviewWebhook(t) ==
    /\ At(t, "review")
    /\ LET decision == ReviewSubmitted(thread[t].cur, thread[t].msg.action = "approved")
       IN  Commits(t, decision.patches, IF decision.reconcile THEN "reconcile" ELSE "idle")
    /\ UNCHANGED <<github, records, server>>

-----------------------------------------------------------------------------
(* System runs and their checkpoints (run-manager, orchestrator).          *)

SetRun(r, rec) == runs' = [runs EXCEPT ![r] = rec]

\* The run starts, and prefetches the pull request.
StartRun(r) ==
    /\ server.at = "up" /\ runs[r].status = "queued"
    /\ SetRun(r, [runs[r] EXCEPT !.status = "running", !.head = pr.head, !.stage = "started"])
    /\ UNCHANGED <<item, github, counts, checkpoints, server, thread>>

\* Nothing of a running run is being processed.
Running(r, stage) ==
    runs[r].status = "running" /\ runs[r].stage = stage /\ MayStart(RunThread(r))

\* processUnchecked: the handler of the row's type reads the item, and the
\* reducer decides.
Processes(t, row, i) ==
    LET start == [Idle EXCEPT !.msg = [kind |-> "checkpoint", row |-> i], !.cur = item]
    IN  Becomes(t, IF row.type = "verdict" THEN [start EXCEPT !.pc = row.verdict]
                                           ELSE [start EXCEPT !.todo = ProgressReady(item).patches])

Rows(r, type) == {i \in DOMAIN checkpoints : checkpoints[i].run = r /\ checkpoints[i].type = type}

\* (Mutant: a run that begins again inserts its row once more.)
EmitsAgain(r, type, verdict) ==
    /\ checkpoints' = Append(checkpoints, [run |-> r, type |-> type, verdict |-> verdict,
                                          head |-> runs[r].head, processed |-> FALSE])
    /\ Processes(RunThread(r), Last(checkpoints'), Len(checkpoints'))

\* emitAndProcessCheckpoint: the row that an earlier execution inserted stays
\* as it is, and is processed unless it was.
Emits(r, type, verdict) ==
    \/ /\ Rows(r, type) = {}
       /\ checkpoints' = Append(checkpoints, [run |-> r, type |-> type, verdict |-> verdict,
                                             head |-> runs[r].head, processed |-> FALSE])
       /\ Processes(RunThread(r), Last(checkpoints'), Len(checkpoints'))
    \/ \E i \in Rows(r, type) :
          /\ UNCHANGED checkpoints
          /\ IF checkpoints[i].processed
               THEN UNCHANGED thread ELSE Processes(RunThread(r), checkpoints[i], i)

\* The triage agent decides.
EmitVerdict(r, verdict) ==
    /\ Running(r, "started") /\ runs[r].kind = "triage_ci"
    /\ SetRun(r, [runs[r] EXCEPT !.stage = "decided"])
    /\ Emits(r, "verdict", verdict)
    /\ UNCHANGED <<item, github, counts, server>>

\* RunCheckpointProcessor.process; a handler that threw is not marked.
Mark(t) ==
    /\ At(t, "mark")
    /\ checkpoints' = [checkpoints EXCEPT ![thread[t].msg.row].processed = TRUE]
    /\ Becomes(t, Idle)
    /\ UNCHANGED <<item, github, runs, counts, server>>

\* transitionToCiFailedFix
FixNeeded(t) ==
    LET cur       == thread[t].cur
        substate  == cur.state = "auto_review" /\ cur.substate # "ci_failed"
        flag      == ~Has(cur, "ci_triage_fix_decided")
    IN  /\ At(t, "fix_needed")
        /\ Commits(t, IF ~substate /\ ~flag THEN << >>
                       ELSE <<Patch("auto_review", "ci_failed", {"ci_triage_fix_decided"},
                                    IF substate THEN {"ci_green"} ELSE {})>>, "reconcile")
        /\ UNCHANGED <<github, records, server>>

\* handleCiTriageRerun: GitHub is asked to run the failed jobs again.
Rerun(t, accepted) ==
    LET row  == checkpoints[thread[t].msg.row]
        head == row.head
        run  == runs[row.run]
        cur  == thread[t].cur
    IN  /\ At(t, "rerun")
        /\ accepted => ci[head] = "failure"
        /\ IF accepted
             THEN /\ ci' = [ci EXCEPT ![head] = "pending"]
                  /\ asked' = IF run.target = head THEN [asked EXCEPT ![head] = @ + 1] ELSE asked
                  /\ Writes(t, <<Patch("auto_review", "ci_rerunning", {}, {"ci_green"})>>,
                            "rerun_event")
             ELSE /\ Writes(t, IF Has(cur, "ci_rerun_exhausted") THEN << >>
                               ELSE <<Patch(cur.state, cur.substate, {"ci_rerun_exhausted"}, {})>>,
                            "idle")
                  /\ UNCHANGED <<ci, asked>>
        /\ UNCHANGED <<item, pr, hooks, events, runs, reruns, checkpoints, server>>

\* The rerun is recorded, for the head that the run was given.
RecordRerun(t) ==
    /\ At(t, "rerun_event")
    /\ reruns' = [reruns EXCEPT ![checkpoints[thread[t].msg.row].head] = @ + 1]
    /\ Goes(t, "idle")
    /\ UNCHANGED <<item, github, runs, asked, checkpoints, server>>

\* The checkpoint of a run that waits for CI, or that completes; it does
\* without the second when a wait is on record.
Progress(r, type) ==
    /\ Running(r, IF runs[r].kind = "triage_ci" THEN "decided" ELSE "started")
    /\ type = "wait" => runs[r].kind # "triage_ci"
    /\ SetRun(r, [runs[r] EXCEPT !.stage = "reported"])
    /\ IF type = "terminal" /\ Rows(r, "wait") # {}
         THEN UNCHANGED <<checkpoints, thread>> ELSE Emits(r, type, "none")
    /\ UNCHANGED <<item, github, counts, server>>

Complete(r) ==
    /\ server.at = "up" /\ runs[r].stage = "reported" /\ thread[RunThread(r)] = Idle
    /\ runs[r].status = "running"
    /\ SetRun(r, [runs[r] EXCEPT !.status = "completed"])
    /\ UNCHANGED <<item, github, counts, checkpoints, server, thread>>

\* The run fails, possibly while it prefetches; the failure is followed up.
Fail(r, prefetch) ==
    /\ runs[r].status = "running" /\ MayStart(RunThread(r))
    /\ prefetch => runs[r].stage = "started"
    /\ SetRun(r, [runs[r] EXCEPT !.status = "failed"])
    /\ Becomes(RunThread(r),
         [Idle EXCEPT !.pc = CASE runs[r].kind = "triage_ci" /\ Rows(r, "verdict") = {}
                                    -> "fallback"
                               [] runs[r].kind # "triage_ci" /\ prefetch -> "rollback"
                               [] OTHER -> "idle"])
    /\ UNCHANGED <<item, github, counts, checkpoints, server>>

\* handleCiTriageRunFailure: no verdict counts as fix_needed.
TriageFallback(t) ==
    /\ At(t, "fallback")
    /\ Becomes(t, [thread[t] EXCEPT !.pc = "fix_needed", !.cur = item])
    /\ UNCHANGED <<item, github, records, server>>

AutoReviewRuns == {r \in DOMAIN runs : runs[r].kind \in {"self_review", "apply_review_feedback"}}

\* handlePrefetchFailure: the item returns to where the run was launched,
\* if this is the latest review and the item still collects its context.
Rollback(t) ==
    LET r == t[2]
    IN  /\ At(t, "rollback")
        /\ IF /\ r \in AutoReviewRuns /\ \A s \in AutoReviewRuns : s <= r
              /\ item.state = "auto_review" /\ item.substate = "collecting_context"
             THEN item' = [item EXCEPT !.substate = runs[r].source]
             ELSE UNCHANGED item
        /\ Goes(t, "idle")
        /\ UNCHANGED <<github, records, server>>

-----------------------------------------------------------------------------
(* The branch-sync monitor, which polls the pull request.                  *)

OptedOut(row) ==
    row.state = "cancelled" /\ ~Automated(row) /\ ~Has(row, "pr_closed")

PollItem ==
    /\ MayStart(Monitor)
    /\ item.state \notin {"done", "cancelled"} \/ OptedOut(item)
    /\ Becomes(Monitor, [Idle EXCEPT !.pc = "poll", !.cur = item])
    /\ UNCHANGED <<item, github, records, server>>

PollPullRequest ==
    /\ At(Monitor, "poll")
    /\ CASE pr.status # "open" -> Writes(Monitor, <<Closed(pr.status)>>, "idle")
         [] pr.status = "open" /\ OptedOut(thread[Monitor].cur) ->
              IF "assist" \in pr.labels
                THEN Writes(Monitor, <<Patch("auto_review", "pr_adopted", {},
                                             {"ai_assist_disabled"})>>, "reconcile")
                ELSE Goes(Monitor, "idle")
         [] OTHER -> Goes(Monitor, "stuck")
    /\ UNCHANGED <<item, github, records, server>>

\* A failed CI that no run works on is taken up again, a few times.
RecoverStuck ==
    LET cur == thread[Monitor].cur
        interventions == {r \in DOMAIN runs : runs[r].kind \in {"repair_ci", "triage_ci"}}
    IN  /\ At(Monitor, "stuck")
        /\ Goes(Monitor,
             IF /\ cur.state = "auto_review" /\ cur.substate = "ci_failed" /\ Automated(cur)
                /\ Active = {} /\ Cardinality(interventions) < RepairLimit
               THEN "reconcile" ELSE "idle")
        /\ UNCHANGED <<item, github, records, server>>

-----------------------------------------------------------------------------
(* The server goes down and up again.  What arrives meanwhile is lost; the *)
(* unmarked checkpoints are processed before the runs begin again and the  *)
(* server listens.                                                         *)

Crash ==
    /\ server.crashes < CrashLimit
    /\ server' = [at |-> "replay", crashes |-> server.crashes + 1, replayed |-> 0]
    /\ thread' = [t \in Threads |-> Idle]
    /\ UNCHANGED <<item, github, records>>

HookLost(i) ==
    /\ server.at # "up"
    /\ hooks' = RemoveAt(hooks, i)
    /\ UNCHANGED <<item, pr, ci, events, records, server, thread>>

Unprocessed == {i \in DOMAIN checkpoints : ~checkpoints[i].processed /\ i > server.replayed}

\* processUnprocessed: one after the other, each once
Replays ==
    /\ server.at = "replay" /\ thread[Startup] = Idle
    /\ \E i \in Unprocessed :
          /\ \A j \in Unprocessed : i <= j
          /\ server' = [server EXCEPT !.replayed = i]
          /\ Processes(Startup, checkpoints[i], i)
    /\ UNCHANGED <<item, github, records>>

\* recoverRunsAfterRestart: whatever was active is queued.
Recover ==
    /\ server.at = "replay" /\ thread[Startup] = Idle /\ Unprocessed = {}
    /\ server' = [server EXCEPT !.at = "up", !.replayed = 0]
    /\ runs' = [r \in DOMAIN runs |->
                  IF r \in Active THEN [runs[r] EXCEPT !.status = "queued", !.stage = "none"]
                                  ELSE runs[r]]
    /\ UNCHANGED <<item, github, counts, checkpoints, thread>>

ServerStep == Replays \/ Recover

-----------------------------------------------------------------------------
GitHubStep ==
    \/ Push
    \/ \E h \in Heads, c \in {"success", "failure"} : CiCompletes(h, c)
    \/ \E h \in Heads : SuiteCompletes(h)
    \/ \E l \in Labels : ChangeLabel(l)
    \/ \E s \in {"approved", "changes_requested"} : Review(s)
    \/ \E s \in {"merged", "closed"} : ClosePr(s)

ThreadStep(t) ==
    \/ Write(t) \/ Reconcile(t) \/ Link(t) \/ SyncAutomation(t) \/ SyncReviewLabels(t)
    \/ SyncLifecycle(t) \/ BypassSelfReview(t) \/ Finish(t)
    \/ CheckSuite(t) \/ CiCompleted(t) \/ ReviewWebhook(t)
    \/ FixNeeded(t) \/ RecordRerun(t) \/ TriageFallback(t) \/ Rollback(t) \/ Mark(t)
    \/ \E a \in BOOLEAN : Rerun(t, a)

RunStep(r) ==
    \/ StartRun(r) \/ Complete(r)
    \/ \E type \in {"wait", "terminal"} : Progress(r, type)
    \/ \E v \in {"fix_needed", "rerun"} : EmitVerdict(r, v)
    \/ \E prefetch \in BOOLEAN : Fail(r, prefetch)

MonitorStep == PollItem \/ PollPullRequest \/ RecoverStuck

Next ==
    \/ GitHubStep
    \/ \E t \in Handlers, i \in DOMAIN hooks : Deliver(t, i)
    \/ \E t \in Threads : ThreadStep(t)
    \/ \E r \in DOMAIN runs : RunStep(r)
    \/ MonitorStep
    \/ Crash \/ \E i \in DOMAIN hooks : HookLost(i)
    \/ ServerStep

Spec == Init /\ [][Next]_vars

\* Webhooks arrive, threads and runs go on, the monitor's timer fires.
\* (Overlap is a bound of the model: it must not starve anybody.)
FairSpec ==
    /\ Spec
    /\ \A t \in Threads : WF_vars(ThreadStep(t))
    /\ \A t \in Handlers : SF_vars(\E i \in DOMAIN hooks : Deliver(t, i))
    /\ \A r \in 1..RunLimit : SF_vars(r \in DOMAIN runs /\ RunStep(r))
    /\ WF_vars(MonitorStep) /\ WF_vars(ServerStep)
-----------------------------------------------------------------------------
(* Properties.                                                             *)

Items == [state : States, substate : Substates, flags : SUBSET Flags, head : Heads]

\* Every row, run, webhook and thread is one that the program can have.
TypeOK ==
    /\ item \in Items
    /\ pr \in [status : {"open", "merged", "closed"}, head : Heads, labels : SUBSET Labels]
    /\ ci \in [Heads -> {"pending", "success", "failure"}]
    /\ events \in 0..EventLimit /\ Len(runs) <= RunLimit
    /\ reruns \in [Heads -> Nat] /\ asked \in [Heads -> Nat] /\ DOMAIN thread = Threads
    /\ \A i \in DOMAIN checkpoints :
          checkpoints[i] \in [run : 1..RunLimit, type : {"verdict", "wait", "terminal"},
                             verdict : {"none", "fix_needed", "rerun"}, head : Heads,
                             processed : BOOLEAN]
    /\ server \in [at : {"up", "replay"}, crashes : 0..CrashLimit,
                   replayed : 0..Len(checkpoints)]
    /\ \A t \in Threads :
          /\ \A i \in DOMAIN thread[t].todo : thread[t].todo[i] \in Patches
          /\ thread[t].cur = << >> \/ thread[t].cur \in Items

\* However the webhooks, checkpoints, monitor and launches interleave, at
\* most one system run of the item is queued or running.
OneSystemRun == Cardinality(Active) <= 1

\* Runs that are launched for a commit have GitHub rerun its CI at most
\* RerunLimit times, and once more for each crash, which may fall between the
\* request and its record.  (Not after a crash on a pull request that was
\* closed: its item refuses the patch of a rerun, the checkpoint stays unmarked
\* and is processed twice, on startup and when the run begins again.)
RerunBudget == \A h \in Heads : asked[h] <= RerunLimit + server.crashes

\* An item stands behind auto_review only with a green CI.
GreenBehindReview == item.state \in ReviewStates => "ci_green" \in item.flags

\* Nothing happens any more unless somebody outside acts.
Quiet == Busy = {} /\ hooks = << >> /\ Active = {}

\* When all is handled, an item behind auto_review is at the head of its
\* pull request, and CI passed there.
QuietReview ==
    Quiet /\ pr.status = "open" /\ item.state \in ReviewStates
      => item.head = pr.head /\ ci[pr.head] = "success"

\* No decision on the item as it stands skips a gate, or is refused by the
\* store: a handler that runs alone never fails halfway.
SoundDecisions ==
    \A d \in Decisions(item) : Accepted(item, d.patches) /\ GatesKept(item, d.patches)

\* A step into a later review, or into ready_for_merge, has its approvals.
ApprovalsKept ==
    [][ /\ item.state \notin Late /\ item'.state \in Late
          => "engineering_review_done" \in item'.flags
        /\ item.state # "ready_for_merge" /\ item'.state = "ready_for_merge"
          => "qa_review_done" \in item'.flags ]_vars

\* While the CI of the item's head is red and its failure was triaged as
\* caused by the pull request, a repair run is launched.
FixDecided ==
    /\ item.state = "auto_review" /\ "ci_triage_fix_decided" \in item.flags
    /\ ci[item.head] = "failure" /\ Automated(item)
RepairFollows ==
    FixDecided ~> (~FixDecided \/ \E r \in DOMAIN runs : runs[r].kind = "repair_ci")
=============================================================================
