--------------------------- MODULE FailurePoller ---------------------------
(***************************************************************************)
(* The GitHub Actions poller of one repository: it asks for the failed     *)
(* workflow runs, hands on those above its cursor, and moves the cursor to *)
(* the highest of them before their events reach the queue.                *)
(*                                                                         *)
(* GitHub numbers workflow runs as they are created; they end in any       *)
(* order.  One page holds all failures, and a poll is over before the next *)
(* one is due.                                                             *)
(***************************************************************************)
EXTENDS Naturals

CONSTANTS
    MaxWorkflow,     \* bound: workflow runs
    PollerCrashes    \* bound: crashes of the server

ASSUME PollerAssumption == MaxWorkflow \in Nat /\ PollerCrashes \in Nat

VARIABLES
    workflow,        \* GitHub's workflow runs, by id
    cursor,          \* observer_poll_cursors; 0 for none
    poll, found,     \* the await of a poll, and what it found
    reported,        \* how often a failure reached enqueueEvent
    pollerCrashes

pollerVars == <<workflow, cursor, poll, found, reported, pollerCrashes>>

Workflows == 1 .. MaxWorkflow

PollerTypeOK ==
    /\ workflow \in [Workflows -> {"none", "running", "passed", "failed"}]
    /\ cursor \in 0 .. MaxWorkflow
    /\ poll \in {"idle", "store", "enqueue"} /\ found \subseteq Workflows
    /\ reported \in [Workflows -> Nat]
    /\ pollerCrashes \in 0 .. PollerCrashes

PollerInit ==
    /\ workflow = [w \in Workflows |-> "none"]
    /\ cursor = 0 /\ pollerCrashes = 0
    /\ poll = "idle" /\ found = {}
    /\ reported = [w \in Workflows |-> 0]

WorkflowStarts(w) ==
    /\ workflow[w] = "none" /\ \A v \in 1 .. w - 1 : workflow[v] # "none"
    /\ workflow' = [workflow EXCEPT ![w] = "running"]
    /\ UNCHANGED <<cursor, poll, found, reported, pollerCrashes>>

WorkflowEnds(w) ==
    /\ workflow[w] = "running"
    /\ \E end \in {"passed", "failed"} : workflow' = [workflow EXCEPT ![w] = end]
    /\ UNCHANGED <<cursor, poll, found, reported, pollerCrashes>>

\* (Mutant: the run at the cursor counts as new.)
FailuresFromCursor == {w \in Workflows : workflow[w] = "failed" /\ w >= cursor}

NewFailures == {w \in Workflows : workflow[w] = "failed" /\ w > cursor}

\* getGithubLastRunId and fetchFailedRuns: nobody else moves the cursor.
PollFetches ==
    /\ poll = "idle" /\ NewFailures # {}
    /\ found' = NewFailures
    /\ poll' = "store"
    /\ UNCHANGED <<workflow, cursor, reported, pollerCrashes>>

PollStores ==
    /\ poll = "store"
    /\ cursor' = CHOOSE w \in found : \A v \in found : v <= w
    /\ poll' = "enqueue"
    /\ UNCHANGED <<workflow, found, reported, pollerCrashes>>

\* The events reach the queue when all repositories have been polled.
PollEnqueues ==
    /\ poll = "enqueue"
    /\ reported' = [w \in Workflows |-> reported[w] + IF w \in found THEN 1 ELSE 0]
    /\ poll' = "idle" /\ found' = {}
    /\ UNCHANGED <<workflow, cursor, pollerCrashes>>

\* The server dies, or setGithubLastRunId fails and the poll is given up.
PollLost ==
    /\ pollerCrashes < PollerCrashes
    /\ pollerCrashes' = pollerCrashes + 1
    /\ poll' = "idle" /\ found' = {}
    /\ UNCHANGED <<workflow, cursor, reported>>

PollerNext ==
    \/ \E w \in Workflows : WorkflowStarts(w) \/ WorkflowEnds(w)
    \/ PollFetches \/ PollStores \/ PollEnqueues \/ PollLost

PollerSpec == PollerInit /\ [][PollerNext]_pollerVars

-----------------------------------------------------------------------------
(* Properties                                                              *)

\* A failure makes at most one event, also after a crash, because the cursor is
\* stored first.  Nothing after the poller would notice a second one: the
\* events of a workflow failure have random deduplication keys.
ReportedOnce == \A w \in Workflows : reported[w] <= 1

\* "Returns TriggerEvents for workflow runs not yet seen (based on state store
\* cursor)" (github-poller.ts:46): without a crash, a failed workflow run was
\* handed on, or the poll holds it, or the cursor has not passed it yet.
FailuresAreSeen ==
    pollerCrashes = 0 => \A w \in Workflows : workflow[w] = "failed" =>
      reported[w] > 0 \/ w \in found \/ w > cursor
=============================================================================
