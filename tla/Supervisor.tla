----------------------------- MODULE Supervisor -----------------------------
(***************************************************************************)
(* RunSupervisor: it watches the node events of runs, fails a run that     *)
(* takes too long, and retries failed ones within a cap per run, a cap per *)
(* day and a cooldown.  Every handler awaits the database in between, and  *)
(* the worker of a run the watchdog failed goes on and reports an end of   *)
(* its own.                                                                *)
(*                                                                         *)
(* Time-outs and cooldowns end at any time.  An error is one that          *)
(* classifyFailureWithRetryability retries ("transient") or not; the       *)
(* watchdog's is not.  Stale-node alerts only post to Slack and are left   *)
(* out.                                                                    *)
(***************************************************************************)
EXTENDS Integers, FiniteSets

CONSTANTS
    WatchedRuns, NoWatched,
    FirstRuns,          \* those that are there from the start
    MaxAutoRetries, MaxRetriesPerDay,
    MaxResets,          \* bound: midnights
    MaxExpiries         \* bound: time-outs of runs

ASSUME SupervisorAssumption ==
    /\ FirstRuns \subseteq WatchedRuns /\ NoWatched \notin WatchedRuns
    /\ IsFiniteSet(WatchedRuns)
    /\ MaxAutoRetries \in Nat /\ MaxRetriesPerDay \in Nat /\ MaxResets \in Nat
    /\ MaxExpiries \in Nat

VARIABLES
    work,        \* the worker of a run
    status,      \* the run's row: its status ...
    cause,       \* ... and the kind of its error
    watched,     \* watchedRuns: the entry's retryCount, or NoEntry
    lookup,      \* handleNodeEvent waits for getRun
    expiry,      \* watchdogSweep waits for its updateRun
    expiries,    \* ... how often it did
    response,    \* handleRunTerminal of the worker's callback and of the watchdog
    retryChain,  \* for a retry the run it all began with
    cooling,     \* the runs whose lastRetryAt is too recent
    dailyRetryCount, resets,
    depth        \* how many automatic retries led to the run (for RetryDepth)

supRows   == <<work, status, cause>>
supMemory == <<watched, lookup, expiry, expiries, response, retryChain, cooling,
               dailyRetryCount, resets>>
supVars   == <<supRows, supMemory, depth>>

Sources  == {"worker", "watchdog"}
Counts   == 0 .. Cardinality(WatchedRuns)
NoEntry  == -1
Silent   == [at |-> "off", count |-> NoEntry]

SupervisorTypeOK ==
    /\ work \in [WatchedRuns -> {"none", "queued", "loaded", "running", "over"}]
    /\ status \in [WatchedRuns -> {"queued", "running", "completed", "failed"}]
    /\ cause \in [WatchedRuns -> {"none", "transient", "permanent"}]
    /\ watched \in [WatchedRuns -> {NoEntry} \cup Counts]
    /\ lookup \subseteq WatchedRuns /\ expiry \subseteq WatchedRuns
    /\ expiries \in 0 .. MaxExpiries
    /\ response \in [WatchedRuns \X Sources ->
                       [at : {"off", "read", "retry"}, count : {NoEntry} \cup Counts]]
    /\ retryChain \in [WatchedRuns -> WatchedRuns \cup {NoWatched}]
    /\ cooling \subseteq WatchedRuns
    /\ dailyRetryCount \in Counts /\ resets \in 0 .. MaxResets
    /\ depth \in [WatchedRuns -> Counts]

SupervisorInit ==
    /\ work = [r \in WatchedRuns |-> IF r \in FirstRuns THEN "queued" ELSE "none"]
    /\ status = [r \in WatchedRuns |-> "queued"]
    /\ cause = [r \in WatchedRuns |-> "none"]
    /\ watched = [r \in WatchedRuns |-> NoEntry]
    /\ lookup = {} /\ expiry = {} /\ expiries = 0
    /\ response = [x \in WatchedRuns \X Sources |-> Silent]
    /\ retryChain = [r \in WatchedRuns |-> NoWatched]
    /\ cooling = {} /\ dailyRetryCount = 0 /\ resets = 0
    /\ depth = [r \in WatchedRuns |-> 0]

Originator(r) == IF retryChain[r] = NoWatched THEN r ELSE retryChain[r]   \* findOriginalRunId

\* (Mutant: a run without an entry counts as never retried.)
CountForgotten(r) == 0

\* resolveRetryCount: the retries of the run that a retry goes back to
ResolveRetryCount(r) ==
    IF retryChain[r] = NoWatched THEN 0
    ELSE Cardinality({q \in WatchedRuns : retryChain[q] = retryChain[r]})

-----------------------------------------------------------------------------
(* The run's own worker                                                    *)

\* processRun reads the row: a run that ended in the queue is dropped.
Loads(r) ==
    /\ work[r] = "queued"
    /\ work' = [work EXCEPT ![r] = IF status[r] = "failed" THEN "over" ELSE "loaded"]
    /\ UNCHANGED <<status, cause, supMemory, depth>>

\* It writes its start, or a node's phase: over any status; the error stays.
Works(r) ==
    /\ work[r] \in {"loaded", "running"}
    /\ work' = [work EXCEPT ![r] = "running"]
    /\ status' = [status EXCEPT ![r] = "running"]
    /\ UNCHANGED <<cause, supMemory, depth>>

\* handleRunTerminal: the entry goes; a failure is looked into.
Terminal(r, end, source) ==
    /\ watched' = [watched EXCEPT ![r] = NoEntry]
    /\ response' = IF end = "failed"
                     THEN [response EXCEPT ![<<r, source>>] = [at |-> "read", count |-> watched[r]]]
                     ELSE response

WorkEnds(r) ==
    /\ work[r] = "running"
    /\ \E end \in {"completed", "failed"} :
         /\ work' = [work EXCEPT ![r] = "over"]
         /\ status' = [status EXCEPT ![r] = end]
         /\ cause' \in {[cause EXCEPT ![r] = why] :
                          why \in IF end = "failed" THEN {"transient", "permanent"} ELSE {cause[r]}}
         /\ Terminal(r, end, "worker")
    /\ UNCHANGED <<lookup, expiry, expiries, retryChain, cooling, dailyRetryCount, resets, depth>>

-----------------------------------------------------------------------------
(* handleNodeEvent: a run without an entry is looked up and then entered,  *)
(* even if it ended in between.                                            *)

NodeStarts(r) ==
    /\ work[r] = "running" /\ watched[r] = NoEntry /\ r \notin lookup
    /\ lookup' = lookup \cup {r}
    /\ UNCHANGED <<supRows, watched, expiry, expiries, response, retryChain, cooling,
                   dailyRetryCount, resets, depth>>

Enter(r) ==
    /\ r \in lookup
    /\ lookup' = lookup \ {r}
    /\ watched' = [watched EXCEPT ![r] = ResolveRetryCount(r)]
    /\ UNCHANGED <<supRows, expiry, expiries, response, retryChain, cooling, dailyRetryCount,
                   resets, depth>>

-----------------------------------------------------------------------------
(* watchdogSweep: the row is failed whatever it says, nobody is aborted.   *)

Expires(r) ==
    /\ watched[r] # NoEntry /\ r \notin expiry /\ expiries < MaxExpiries
    /\ expiry' = expiry \cup {r} /\ expiries' = expiries + 1
    /\ UNCHANGED <<supRows, watched, lookup, response, retryChain, cooling,
                   dailyRetryCount, resets, depth>>

ForceFail(r) ==
    /\ r \in expiry /\ response[<<r, "watchdog">>].at = "off"
    /\ expiry' = expiry \ {r}
    /\ status' = [status EXCEPT ![r] = "failed"]
    /\ cause' = [cause EXCEPT ![r] = "permanent"]
    /\ Terminal(r, "failed", "watchdog")
    /\ UNCHANGED <<work, lookup, expiries, retryChain, cooling, dailyRetryCount, resets, depth>>

-----------------------------------------------------------------------------
(* The rest of handleRunTerminal                                           *)

RetryCount(x) == IF response[x].count = NoEntry THEN ResolveRetryCount(x[1]) ELSE response[x].count

Retryable(x) ==
    /\ cause[x[1]] = "transient"
    /\ RetryCount(x) < MaxAutoRetries
    /\ dailyRetryCount < MaxRetriesPerDay
    /\ Originator(x[1]) \notin cooling

\* The run's error is read and the caps are checked; the Slack reply is awaited.
Decide(x) ==
    /\ response[x].at = "read"
    /\ response' = [response EXCEPT ![x] =
                      IF Retryable(x) THEN [at |-> "retry", count |-> RetryCount(x)] ELSE Silent]
    /\ UNCHANGED <<supRows, watched, lookup, expiry, expiries, retryChain, cooling,
                   dailyRetryCount, resets, depth>>

Unused == {r \in WatchedRuns : work[r] = "none"}

\* retryRun, which refuses a run that is active again (a worker's own failure is
\* its last word, so none is), and the bookkeeping
RetryRun(x) == LET r == CHOOSE q \in Unused : TRUE IN
    /\ response[x].at = "retry" /\ status[x[1]] \in {"failed", "completed"}
    /\ Unused # {}
    /\ response' = [response EXCEPT ![x] = Silent]
    /\ work' = [work EXCEPT ![r] = "queued"]
    /\ retryChain' = [retryChain EXCEPT ![r] = Originator(x[1])]
    /\ cooling' = cooling \cup {Originator(x[1])}
    /\ dailyRetryCount' = dailyRetryCount + 1
    /\ watched' = [watched EXCEPT ![r] = response[x].count + 1]
    /\ depth' = [depth EXCEPT ![r] = depth[x[1]] + 1]
    /\ UNCHANGED <<status, cause, lookup, expiry, expiries, resets>>

CooldownEnds(r) ==
    /\ r \in cooling
    /\ cooling' = cooling \ {r}
    /\ UNCHANGED <<supRows, watched, lookup, expiry, expiries, response, retryChain,
                   dailyRetryCount, resets, depth>>

\* scheduleDailyReset
Midnight ==
    /\ resets < MaxResets
    /\ resets' = resets + 1
    /\ dailyRetryCount' = 0 /\ cooling' = {}
    /\ UNCHANGED <<supRows, watched, lookup, expiry, expiries, response, retryChain, depth>>

SupervisorNext ==
    \/ \E r \in WatchedRuns : \/ Loads(r) \/ Works(r) \/ WorkEnds(r) \/ NodeStarts(r)
                              \/ Enter(r) \/ Expires(r) \/ ForceFail(r) \/ CooldownEnds(r)
    \/ \E x \in WatchedRuns \X Sources :
         Decide(x) \/ RetryRun(x)
    \/ Midnight

SupervisorSpec == SupervisorInit /\ [][SupervisorNext]_supVars

-----------------------------------------------------------------------------
(* Properties                                                              *)

\* No chain of automatic retries grows beyond the cap per run: not when the
\* watchdog and the worker both report a run's failure, when an entry is
\* dropped and made again, or when a late look-up replaces a seeded one.
RetryDepth == \A r \in WatchedRuns : depth[r] <= MaxAutoRetries
=============================================================================
