------------------------------ MODULE Observer ------------------------------
(***************************************************************************)
(* ObserverDaemon: events are queued, taken in batches by a timer that     *)
(* does not wait for the batch before it, and pass through the safety      *)
(* checks to a run or an approval request.  Deferred events come back      *)
(* through the autonomous scheduler.                                       *)
(*                                                                         *)
(* An event is its deduplication key; the order of a batch does not matter *)
(* here.  A batch's stage is the await it is at.  Rules, triage, the       *)
(* allowlist, thresholds, rate limits and the budget per repository only   *)
(* drop events and are one choice.  The cooldown is left out: it looks at  *)
(* an entry that the deduplication has already refused or deleted.         *)
(***************************************************************************)
EXTENDS Integers, FiniteSets, Functions

CONSTANTS
    EventKeys,
    Homeless,        \* the keys of events that name no repository
    Batches,         \* bound: batches under way at a time
    NoKey,
    MaxPending,      \* MAX_PENDING_EVENTS
    MaxDeferred,     \* AUTONOMOUS_SCHEDULER_MAX_DEFERRED
    MaxDaily,        \* observerMaxRunsPerDay
    MaxArrivals,     \* bound: events
    MaxMishaps       \* bound: failed writes, crashes, midnights and expired entries

ASSUME ObserverAssumption ==
    /\ IsFiniteSet(EventKeys) /\ IsFiniteSet(Batches) /\ Batches # {}
    /\ Homeless \subseteq EventKeys /\ NoKey \notin EventKeys
    /\ MaxPending \in Nat /\ MaxDeferred \in Nat /\ MaxDaily \in Nat \ {0}
    /\ MaxArrivals \in Nat /\ MaxMishaps \in Nat

VARIABLES
    pendingEvents,   \* pendingWebhookEvents: how many per key
    deferred,        \* the scheduler's queue
    todoEvents,      \* what is left of a batch
    stage, current,  \* the await of a batch, the event it is at
    dedup,           \* the keys with an entry in observer_dedup ...
    expired,         \* ... and those whose entry is past its time
    daily,           \* observer_daily_counters of today
    started,         \* runs and approval requests since midnight (history) ...
    uncounted,       \* ... and those of them that will never be counted
    repeats,         \* per key, the same since its entry expired
    unmarked,
    arrivals, mishaps

observerQueues  == <<pendingEvents, deferred, todoEvents>>
observerTables  == <<dedup, expired, daily>>
observerHistory == <<started, uncounted, repeats, unmarked>>
observerBounds  == <<arrivals, mishaps>>
observerVars    == <<observerQueues, stage, current, observerTables, observerHistory, observerBounds>>

Mishap == mishaps < MaxMishaps /\ mishaps' = mishaps + 1 /\ UNCHANGED arrivals

NoEvents == [k \in EventKeys |-> 0]
Empty(q) == \A k \in EventKeys : q[k] = 0
Full(q, max) == FoldFunction(+, 0, q) >= max

ObserverTypeOK ==
    /\ pendingEvents \in [EventKeys -> Nat] /\ deferred \in [EventKeys -> Nat]
    /\ todoEvents \in [Batches -> [EventKeys -> Nat]]
    /\ stage \in [Batches -> {"idle", "next", "dedup", "budget", "start", "record", "count"}]
    /\ current \in [Batches -> EventKeys \cup {NoKey}]
    /\ dedup \subseteq EventKeys /\ expired \subseteq dedup
    /\ daily \in Nat /\ started \in Nat /\ uncounted \in Nat
    /\ repeats \in [EventKeys -> Nat] /\ unmarked \in [EventKeys -> Nat]
    /\ arrivals \in 0 .. MaxArrivals /\ mishaps \in 0 .. MaxMishaps

ObserverInit ==
    /\ pendingEvents = NoEvents /\ deferred = NoEvents
    /\ todoEvents = [b \in Batches |-> NoEvents]
    /\ stage = [b \in Batches |-> "idle"] /\ current = [b \in Batches |-> NoKey]
    /\ dedup = {} /\ expired = {} /\ daily = 0
    /\ started = 0 /\ uncounted = 0 /\ repeats = NoEvents /\ unmarked = NoEvents
    /\ arrivals = 0 /\ mishaps = 0

-----------------------------------------------------------------------------
(* The queue                                                               *)

\* enqueueEvent: from a webhook or poller, or dropped.
EventArrives(k) ==
    /\ arrivals < MaxArrivals /\ arrivals' = arrivals + 1 /\ UNCHANGED mishaps
    /\ pendingEvents' = [pendingEvents EXCEPT ![k] = IF Full(pendingEvents, MaxPending) THEN @ ELSE @ + 1]
    /\ UNCHANGED <<deferred, todoEvents, stage, current, observerTables, observerHistory>>

\* processPendingEvents takes all there is, whatever other batches do.
TakeBatch(b) ==
    /\ stage[b] = "idle" /\ ~Empty(pendingEvents)
    /\ todoEvents' = [todoEvents EXCEPT ![b] = pendingEvents]
    /\ pendingEvents' = NoEvents
    /\ stage' = [stage EXCEPT ![b] = "next"]
    /\ UNCHANGED <<deferred, current, observerTables, observerHistory, observerBounds>>

BatchDone(b) ==
    /\ stage[b] = "next" /\ Empty(todoEvents[b])
    /\ stage' = [stage EXCEPT ![b] = "idle"]
    /\ UNCHANGED <<observerQueues, current, observerTables, observerHistory, observerBounds>>

-----------------------------------------------------------------------------
(* processEvent                                                            *)

GoesTo(b, at) ==
    /\ stage' = [stage EXCEPT ![b] = at]
    /\ current' = [current EXCEPT ![b] = IF at = "next" THEN NoKey ELSE @]

\* Rule and triage: the event goes on, is dropped, or is deferred.
NextEvent(b, k) ==
    /\ stage[b] = "next" /\ todoEvents[b][k] > 0
    /\ todoEvents' = [todoEvents EXCEPT ![b][k] = @ - 1]
    /\ \/ /\ stage' = [stage EXCEPT ![b] = "dedup"]
          /\ current' = [current EXCEPT ![b] = k]
          /\ UNCHANGED deferred
       \/ UNCHANGED <<stage, current, deferred>>
       \/ /\ deferred' = [deferred EXCEPT ![k] = IF Full(deferred, MaxDeferred) THEN @ ELSE @ + 1]
          /\ UNCHANGED <<stage, current>>
    /\ UNCHANGED <<pendingEvents, observerTables, observerHistory, observerBounds>>

\* hasDedup: an expired entry is deleted and does not count.
ChecksDedup(b) == LET k == current[b] IN
    /\ stage[b] = "dedup"
    /\ IF k \in dedup \ expired
         THEN GoesTo(b, "next") /\ UNCHANGED <<dedup, expired>>
         ELSE /\ GoesTo(b, "budget")
              /\ dedup' = dedup \ {k} /\ expired' = expired \ {k}
    /\ UNCHANGED <<observerQueues, daily, observerHistory, observerBounds>>

\* (Mutant: the limit itself is still let through.)
ChecksBudgetLate(b) ==
    /\ stage[b] = "budget"
    /\ \/ daily <= MaxDaily /\ GoesTo(b, "start")
       \/ GoesTo(b, "next")
    /\ UNCHANGED <<observerQueues, observerTables, observerHistory, observerBounds>>

\* runSafetyChecks: the budget or another check may refuse.
ChecksBudget(b) ==
    /\ stage[b] = "budget"
    /\ \/ daily < MaxDaily /\ GoesTo(b, "start")
       \/ GoesTo(b, "next")
    /\ UNCHANGED <<observerQueues, observerTables, observerHistory, observerBounds>>

\* A table cannot be read: the rest of the batch is lost with the event.
BatchThrows(b) ==
    /\ stage[b] \in {"dedup", "budget"} /\ Mishap
    /\ todoEvents' = [todoEvents EXCEPT ![b] = NoEvents]
    /\ stage' = [stage EXCEPT ![b] = "idle"] /\ current' = [current EXCEPT ![b] = NoKey]
    /\ UNCHANGED <<pendingEvents, deferred, observerTables, observerHistory>>

\* composeRunInput, then the approval request or enqueueRun; each may throw.
Starts(b) == LET k == current[b] IN
    /\ stage[b] = "start"
    /\ \/ /\ GoesTo(b, "record")
          /\ started' = IF k \in Homeless THEN started ELSE started + 1
          /\ repeats' = [repeats EXCEPT ![k] = @ + 1]
       \/ GoesTo(b, "next") /\ UNCHANGED <<started, repeats>>
    /\ UNCHANGED <<observerQueues, observerTables, uncounted, unmarked, observerBounds>>

Uncounted(k) == uncounted' = IF k \in Homeless THEN uncounted ELSE uncounted + 1

\* (Mutant: a request for approval is not entered, only its answer would be.)
RecordsRunsOnly(b) == LET k == current[b] IN
    /\ stage[b] = "record"
    /\ GoesTo(b, "count")
    /\ \/ dedup' = dedup \cup {k} /\ expired' = expired \ {k}
       \/ UNCHANGED <<dedup, expired>>
    /\ UNCHANGED <<observerQueues, daily, observerHistory, observerBounds>>

\* setDedup.  A failed write is logged, and what follows it is skipped.
Records(b) == LET k == current[b] IN
    /\ stage[b] = "record"
    /\ \/ /\ GoesTo(b, "count")
          /\ dedup' = dedup \cup {k} /\ expired' = expired \ {k}
          /\ UNCHANGED <<uncounted, unmarked, observerBounds>>
       \/ /\ Mishap /\ GoesTo(b, "next")
          /\ unmarked' = [unmarked EXCEPT ![k] = @ + 1] /\ Uncounted(k)
          /\ UNCHANGED <<dedup, expired>>
    /\ UNCHANGED <<observerQueues, daily, started, repeats>>

\* addRateLimitEvent and incrementDailyCount
CountsStart(b) == LET k == current[b] IN
    /\ stage[b] = "count"
    /\ GoesTo(b, "next")
    /\ \/ /\ daily' = IF k \in Homeless THEN daily ELSE daily + 1
          /\ UNCHANGED <<uncounted, observerBounds>>
       \/ Mishap /\ Uncounted(k) /\ UNCHANGED daily
    /\ UNCHANGED <<observerQueues, dedup, expired, started, repeats, unmarked>>

-----------------------------------------------------------------------------
(* The scheduler, the clock and the server                                 *)

\* evaluateQueue: one event goes back to the queue when the budget has room.
Reconsider(k) ==
    /\ deferred[k] > 0 /\ daily < MaxDaily
    /\ deferred' = [deferred EXCEPT ![k] = @ - 1]
    /\ pendingEvents' = [pendingEvents EXCEPT ![k] = IF Full(pendingEvents, MaxPending) THEN @ ELSE @ + 1]
    /\ UNCHANGED <<todoEvents, stage, current, observerTables, observerHistory, observerBounds>>

\* Too old, looked at too often, or crowded out by another one.
DropDeferred(k) ==
    /\ deferred[k] > 0
    /\ deferred' = [deferred EXCEPT ![k] = @ - 1]
    /\ UNCHANGED <<pendingEvents, todoEvents, stage, current, observerTables, observerHistory, observerBounds>>

EntryExpires(k) ==
    /\ k \in dedup \ expired /\ Mishap
    /\ expired' = expired \cup {k}
    /\ repeats' = [repeats EXCEPT ![k] = 0] /\ unmarked' = [unmarked EXCEPT ![k] = 0]
    /\ UNCHANGED <<observerQueues, stage, current, dedup, daily, started, uncounted>>

MidnightPasses ==
    /\ Mishap
    /\ daily' = 0 /\ started' = 0 /\ uncounted' = 0
    /\ UNCHANGED <<observerQueues, stage, current, dedup, expired, repeats, unmarked>>

\* What was started and not yet entered or counted never will be.  load() sweeps
\* the expired entries.
ObserverCrash ==
    /\ Mishap
    /\ pendingEvents' = NoEvents /\ deferred' = NoEvents
    /\ todoEvents' = [b \in Batches |-> NoEvents]
    /\ stage' = [b \in Batches |-> "idle"] /\ current' = [b \in Batches |-> NoKey]
    /\ uncounted' = uncounted +
         Cardinality({b \in Batches : stage[b] \in {"record", "count"} /\ current[b] \notin Homeless})
    /\ unmarked' = [k \in EventKeys |-> unmarked[k] +
         Cardinality({b \in Batches : stage[b] = "record" /\ current[b] = k})]
    /\ dedup' = dedup \ expired /\ expired' = {}
    /\ UNCHANGED <<daily, started, repeats>>

ObserverNext ==
    \/ \E k \in EventKeys :
         EventArrives(k) \/ Reconsider(k) \/ DropDeferred(k) \/ EntryExpires(k)
    \/ \E b \in Batches :
         \/ TakeBatch(b) \/ BatchDone(b) \/ (\E k \in EventKeys : NextEvent(b, k))
         \/ ChecksDedup(b) \/ ChecksBudget(b) \/ BatchThrows(b) \/ Starts(b) \/ Records(b) \/ CountsStart(b)
    \/ MidnightPasses \/ ObserverCrash

ObserverSpec == ObserverInit /\ [][ObserverNext]_observerVars

-----------------------------------------------------------------------------
(* Properties                                                              *)

\* The daily budget is exceeded by at most one run for every batch beyond the
\* first that is under way, and one for every count that was lost.
BudgetKept == started < MaxDaily + Cardinality(Batches) + uncounted

\* While a key's entry lasts it is acted on at most once per batch under way,
\* and once more for every entry that could not be written: with one batch and
\* no failure, once.
ActsOncePerBatch ==
    \A k \in EventKeys : repeats[k] <= Cardinality(Batches) + unmarked[k]
=============================================================================
