---------------------------- MODULE RunnerSlots ----------------------------
(***************************************************************************)
(* The pool of test databases for Kubernetes runs: RunnerDbSlotStore,      *)
(* RunnerDbSlotManager, the part of processRun that takes a slot, and the  *)
(* terminal hook and the sweeper of index.ts that give it back.            *)
(*                                                                         *)
(* A slot's row is claimed exactly while it names a run.  Its databases    *)
(* hold one run's data or are gone; dropping or creating only some of the  *)
(* three counts as one or the other.  A claim is old when it was made      *)
(* before the sweeper's cutoff of 30 minutes.  With the default time-outs  *)
(* a watched run and the release after it are over by then; with           *)
(* KUBERNETES_RUN_WAIT_TIMEOUT_SECONDS above the cutoff (LongRuns) they    *)
(* need not be.  The sweeps of one slot do not overlap here.               *)
(***************************************************************************)
EXTENDS Naturals

CONSTANTS
    Slots, SlotRuns, NoSlot, NoOwner,
    LongRuns,        \* runs may be watched for longer than the cutoff
    SlotCancels,     \* bound: runs cancelled in the queue
    SlotCrashes      \* bound: crashes of the server

ASSUME SlotAssumption ==
    /\ NoSlot \notin Slots /\ NoOwner \notin SlotRuns
    /\ LongRuns \in BOOLEAN /\ SlotCancels \in Nat /\ SlotCrashes \in Nat

VARIABLES
    owner,       \* runner_db_slots.run_id
    old,         \* the slots whose claim is older than the cutoff
    data,        \* the run whose data a slot's databases hold
    step,        \* how far a run is
    held,        \* the slot id acquireForRun works with
    using,       \* the slot whose URLs the run's pod got
    closer,      \* the releaseForRun calls of a run
    reclaim,     \* what a sweep does with a slot
    slotCancels, slotCrashes

slotTable == <<owner, old, data>>
slotWork  == <<step, held, using>>
slotVars  == <<slotTable, slotWork, closer, reclaim, slotCancels, slotCrashes>>

\* A run's release after it was cancelled in the queue, and after it ended
Closers == SlotRuns \X {"cancel", "end"}
Off == [at |-> "off", slot |-> NoSlot]

SlotsTypeOK ==
    /\ owner \in [Slots -> SlotRuns \cup {NoOwner}]
    /\ old \subseteq Slots
    /\ data \in [Slots -> SlotRuns \cup {NoOwner}]
    /\ step \in [SlotRuns -> {"queued", "acquire", "provision", "giveback", "launch",
                              "running", "orphaned", "ended"}]
    /\ held \in [SlotRuns -> Slots \cup {NoSlot}]
    /\ using \in [SlotRuns -> Slots \cup {NoSlot}]
    /\ closer \in [Closers -> [at : {"off", "read", "teardown", "release"},
                               slot : Slots \cup {NoSlot}]]
    /\ reclaim \in [Slots -> {"off", "teardown", "release"}]
    /\ slotCancels \in 0 .. SlotCancels
    /\ slotCrashes \in 0 .. SlotCrashes

SlotInit ==
    /\ owner = [s \in Slots |-> NoOwner] /\ old = {}
    /\ data = [s \in Slots |-> NoOwner]
    /\ step = [r \in SlotRuns |-> "queued"]
    /\ held = [r \in SlotRuns |-> NoSlot]
    /\ using = [r \in SlotRuns |-> NoSlot]
    /\ closer = [c \in Closers |-> Off]
    /\ reclaim = [s \in Slots |-> "off"]
    /\ slotCancels = 0 /\ slotCrashes = 0

\* getSlotForRun
SlotsOf(r) == {s \in Slots : owner[s] = r}

\* release, by the slot's id alone; its failure is logged and swallowed.
Release(s) ==
    \/ owner' = [owner EXCEPT ![s] = NoOwner] /\ old' = old \ {s}
    \/ UNCHANGED <<owner, old>>

\* A teardown may fail before, between or after its drops.
TearDown(s) == data' \in {data, [data EXCEPT ![s] = NoOwner]}

-----------------------------------------------------------------------------
(* processRun                                                              *)

Lookup(r) ==
    /\ step[r] = "queued"
    /\ step' = [step EXCEPT ![r] = IF SlotsOf(r) = {} THEN "acquire" ELSE "launch"]
    /\ UNCHANGED <<slotTable, held, using, closer, reclaim, slotCancels, slotCrashes>>

\* acquire: one UPDATE that takes a free slot.
Acquire(r, s) ==
    /\ step[r] = "acquire" /\ owner[s] = NoOwner
    /\ owner' = [owner EXCEPT ![s] = r]
    /\ held' = [held EXCEPT ![r] = s]
    /\ step' = [step EXCEPT ![r] = "provision"]
    /\ UNCHANGED <<old, data, using, closer, reclaim, slotCancels, slotCrashes>>

\* The pool is exhausted: the run is queued again after ten seconds.
Exhausted(r) ==
    /\ step[r] = "acquire" /\ SlotsOf(NoOwner) = {}
    /\ step' = [step EXCEPT ![r] = "queued"]
    /\ UNCHANGED <<slotTable, held, using, closer, reclaim, slotCancels, slotCrashes>>

\* (Mutant: what an earlier run left behind is kept.)
ProvisionKeeps(r) ==
    /\ step[r] = "provision"
    /\ data' = [data EXCEPT ![held[r]] = IF @ = NoOwner THEN r ELSE @]
    /\ step' = [step EXCEPT ![r] = "launch"]
    /\ held' = [held EXCEPT ![r] = NoSlot]
    /\ UNCHANGED <<owner, old, using, closer, reclaim, slotCancels, slotCrashes>>

\* provisionRunnerDb drops what an earlier run left behind.
Provision(r) ==
    /\ step[r] = "provision"
    /\ data' = [data EXCEPT ![held[r]] = r]
    /\ step' = [step EXCEPT ![r] = "launch"]
    /\ held' = [held EXCEPT ![r] = NoSlot]
    /\ UNCHANGED <<owner, old, using, closer, reclaim, slotCancels, slotCrashes>>

\* One of its statements fails: the slot is released and the error thrown again.
ProvisionFails(r) ==
    /\ step[r] = "provision"
    /\ \E left \in {r, NoOwner, data[held[r]]} : data' = [data EXCEPT ![held[r]] = left]
    /\ step' = [step EXCEPT ![r] = "giveback"]
    /\ UNCHANGED <<owner, old, held, using, closer, reclaim, slotCancels, slotCrashes>>

\* The run is over: its row is written and the terminal callbacks fire.
RunOver(r) ==
    /\ step' = [step EXCEPT ![r] = "ended"]
    /\ using' = [using EXCEPT ![r] = NoSlot]
    /\ held' = [held EXCEPT ![r] = NoSlot]

GiveBack(r) ==
    /\ step[r] = "giveback"
    /\ Release(held[r])
    /\ RunOver(r)
    /\ closer' = [closer EXCEPT ![<<r, "end">>] = [Off EXCEPT !.at = "read"]]
    /\ UNCHANGED <<data, reclaim, slotCancels, slotCrashes>>

\* buildExtraEnv looks the slot up again; without one the pod has no databases.
LaunchPod(r) ==
    /\ step[r] = "launch"
    /\ using' \in {[using EXCEPT ![r] = s] :
                     s \in IF SlotsOf(r) = {} THEN {NoSlot} ELSE SlotsOf(r)}
    /\ step' = [step EXCEPT ![r] = "running"]
    /\ UNCHANGED <<slotTable, held, closer, reclaim, slotCancels, slotCrashes>>

PodEnds(r) ==
    /\ step[r] = "running"
    /\ RunOver(r)
    /\ closer' = [closer EXCEPT ![<<r, "end">>] = [Off EXCEPT !.at = "read"]]
    /\ UNCHANGED <<slotTable, reclaim, slotCancels, slotCrashes>>

\* cancelRun of a run whose row is still queued: the worker, past its look at
\* the row, goes on, and the terminal callbacks fire a first time.
CancelInQueue(r) ==
    /\ slotCancels < SlotCancels
    /\ step[r] \in {"queued", "acquire", "provision", "launch"}
    /\ closer[<<r, "cancel">>].at = "off"
    /\ slotCancels' = slotCancels + 1
    /\ step' = [step EXCEPT ![r] = IF @ = "queued" THEN "ended" ELSE @]
    /\ closer' = [closer EXCEPT ![<<r, "cancel">>] = [Off EXCEPT !.at = "read"]]
    /\ UNCHANGED <<slotTable, held, using, reclaim, slotCrashes>>

-----------------------------------------------------------------------------
(* releaseForRun: the slot is looked up, torn down and released.           *)

CloserReads(c) ==
    /\ closer[c].at = "read"
    /\ \/ /\ SlotsOf(c[1]) = {}
          /\ closer' = [closer EXCEPT ![c] = Off]
       \/ \E s \in SlotsOf(c[1]) :
            closer' = [closer EXCEPT ![c] = [at |-> "teardown", slot |-> s]]
    /\ UNCHANGED <<slotTable, slotWork, reclaim, slotCancels, slotCrashes>>

CloserTearsDown(c) ==
    /\ closer[c].at = "teardown"
    /\ TearDown(closer[c].slot)
    /\ closer' = [closer EXCEPT ![c].at = "release"]
    /\ UNCHANGED <<owner, old, slotWork, reclaim, slotCancels, slotCrashes>>

CloserReleases(c) ==
    /\ closer[c].at = "release"
    /\ Release(closer[c].slot)
    /\ closer' = [closer EXCEPT ![c] = Off]
    /\ UNCHANGED <<data, slotWork, reclaim, slotCancels, slotCrashes>>

-----------------------------------------------------------------------------
(* The sweeper                                                             *)

\* A claim grows older than the cutoff.  The server watches a run and releases
\* its slot in less, unless LongRuns; nobody watches after a crash.
Ages(s) ==
    /\ owner[s] # NoOwner /\ s \notin old
    /\ \/ LongRuns
       \/ /\ step[owner[s]] \in {"ended", "orphaned"}
          /\ \A c \in Closers : closer[c].slot # s /\ (closer[c].at = "read" => c[1] # owner[s])
    /\ old' = old \cup {s}
    /\ UNCHANGED <<owner, data, slotWork, closer, reclaim, slotCancels, slotCrashes>>

\* findOrphans
SweepFinds(s) ==
    /\ reclaim[s] = "off" /\ s \in old
    /\ reclaim' = [reclaim EXCEPT ![s] = "teardown"]
    /\ UNCHANGED <<slotTable, slotWork, closer, slotCancels, slotCrashes>>

\* (Mutant: a slot that cannot be torn down is left for the next sweep.)
SweepTearsDownOrLeaves(s) ==
    /\ reclaim[s] = "teardown"
    /\ TearDown(s)
    /\ reclaim' = [reclaim EXCEPT ![s] = IF data'[s] = NoOwner THEN "release" ELSE "off"]
    /\ UNCHANGED <<owner, old, slotWork, closer, slotCancels, slotCrashes>>

\* Without a profile for its run the databases are left as they are.
SweepTearsDown(s) ==
    /\ reclaim[s] = "teardown"
    /\ TearDown(s)
    /\ reclaim' = [reclaim EXCEPT ![s] = "release"]
    /\ UNCHANGED <<owner, old, slotWork, closer, slotCancels, slotCrashes>>

SweepReleases(s) ==
    /\ reclaim[s] = "release"
    /\ Release(s)
    /\ reclaim' = [reclaim EXCEPT ![s] = "off"]
    /\ UNCHANGED <<data, slotWork, closer, slotCancels, slotCrashes>>

-----------------------------------------------------------------------------
(* A crash of the server: its calls are gone, the pods stay.  The restart  *)
(* does not queue Kubernetes runs again, and it fires no callbacks.        *)

SlotCrash ==
    /\ slotCrashes < SlotCrashes
    /\ slotCrashes' = slotCrashes + 1
    /\ step' = [r \in SlotRuns |-> IF step[r] \in {"running", "orphaned"}
                                     THEN "orphaned" ELSE "ended"]
    /\ held' = [r \in SlotRuns |-> NoSlot]
    /\ closer' = [c \in Closers |-> Off]
    /\ reclaim' = [s \in Slots |-> "off"]
    /\ UNCHANGED <<slotTable, using, slotCancels>>

OrphanEnds(r) ==
    /\ step[r] = "orphaned"
    /\ RunOver(r)
    /\ UNCHANGED <<slotTable, closer, reclaim, slotCancels, slotCrashes>>

SlotRunStep(r) ==
    \/ Lookup(r) \/ (\E s \in Slots : Acquire(r, s)) \/ Exhausted(r)
    \/ Provision(r) \/ ProvisionFails(r) \/ GiveBack(r) \/ LaunchPod(r) \/ PodEnds(r)
    \/ CancelInQueue(r) \/ OrphanEnds(r)
CloserStep(c) == CloserReads(c) \/ CloserTearsDown(c) \/ CloserReleases(c)
SweepStep(s) == SweepFinds(s) \/ SweepTearsDown(s) \/ SweepReleases(s)

SlotNext ==
    \/ \E r \in SlotRuns : SlotRunStep(r)
    \/ \E c \in Closers : CloserStep(c)
    \/ \E s \in Slots : Ages(s) \/ SweepStep(s)
    \/ SlotCrash

SlotSpec == SlotInit /\ [][SlotNext]_slotVars

\* The server's calls go on, time passes, and a release repeated often enough
\* gets through.
SlotFairness ==
    /\ \A c \in Closers : WF_slotVars(CloserStep(c))
    /\ \A s \in Slots : /\ WF_slotVars(Ages(s)) /\ WF_slotVars(SweepStep(s))
                        /\ SF_slotVars(SweepReleases(s) /\ owner'[s] = NoOwner)

SlotLiveSpec == SlotSpec /\ SlotFairness

-----------------------------------------------------------------------------
(* Properties                                                              *)

\* With the default time-outs, and as long as no run was cancelled in the queue
\* and the server did not crash, a pod's databases are the ones that were
\* provisioned for it, whatever failed on the way and whatever residue the
\* slot had.
Isolation ==
    ~LongRuns /\ slotCancels = 0 /\ slotCrashes = 0
      => \A r \in SlotRuns : using[r] # NoSlot
           => owner[using[r]] = r /\ data[using[r]] = r

\* A slot is given back after its run's end although releases and teardowns
\* fail, calls are lost in a crash, or nobody was left to make them.
SlotsComeBack ==
    \A s \in Slots : \A r \in SlotRuns :
      owner[s] = r /\ step[r] = "ended" ~> owner[s] # r
=============================================================================
