------------------------ MODULE RunServices_proofs ------------------------
(***************************************************************************)
(* The pool of database slots, the cap on automatic retries, the delivery  *)
(* of a discovery item and its review rounds, for every number of slots,   *)
(* runs and calls, every cap and every number of time-outs.  They share no *)
(* state; each part below is about one of them, and the last one puts all  *)
(* services of MCServices side by side.                                    *)
(***************************************************************************)
EXTENDS MCServices, Observer_proofs, Pipeline_proofs

-----------------------------------------------------------------------------
(* The pool of database slots                                              *)

Steps == {"queued", "acquire", "provision", "giveback", "launch", "running", "orphaned",
          "ended"}
CloserRecords == [at : {"off", "read", "teardown", "release"}, slot : Slots \cup {NoSlot}]

\* The types that the argument needs
PoolTypes ==
    /\ owner \in [Slots -> SlotRuns \cup {NoOwner}]
    /\ old \subseteq Slots
    /\ data \in [Slots -> SlotRuns \cup {NoOwner}]
    /\ step \in [SlotRuns -> Steps]
    /\ held \in [SlotRuns -> Slots \cup {NoSlot}]
    /\ using \in [SlotRuns -> Slots \cup {NoSlot}]
    /\ closer \in [Closers -> CloserRecords]
    /\ reclaim \in [Slots -> {"off", "teardown", "release"}]
    /\ slotCancels \in Nat /\ slotCrashes \in Nat

\* What Isolation presupposes
Calm == ~LongRuns /\ slotCancels = 0 /\ slotCrashes = 0

\* A run owns the slot it provisions and none before; never two.
HeldInv == \A r \in SlotRuns :
    /\ step[r] \in {"provision", "giveback"} => held[r] \in Slots /\ owner[held[r]] = r
    /\ step[r] \in {"queued", "acquire"} => \A s \in Slots : owner[s] # r
    /\ step[r] # "orphaned"
OneSlot == \A s, t \in Slots : owner[s] = owner[t] /\ owner[s] # NoOwner => s = t

\* From the provisioning to the end its databases are its own.
DataInv == \A r \in SlotRuns :
    /\ step[r] = "launch" => \A s \in Slots : owner[s] = r => data[s] = r
    /\ using[r] # NoSlot =>
          step[r] = "running" /\ owner[using[r]] = r /\ data[using[r]] = r

\* Only ended runs are released, each by one call, which knows the owner.
CloserInv == \A c \in Closers :
    /\ closer[c].at # "off" => c[2] = "end" /\ step[c[1]] = "ended"
    /\ closer[c].at \in {"off", "read"} => closer[c].slot = NoSlot
    /\ closer[c].at \in {"teardown", "release"} =>
          closer[c].slot \in Slots /\ owner[closer[c].slot] = c[1]

\* What the sweeper reclaims belongs to an ended run whose release is over.
OldInv == \A s \in Slots :
    /\ s \in old =>
          /\ owner[s] \in SlotRuns /\ step[owner[s]] = "ended"
          /\ \A c \in Closers : closer[c].slot # s /\ (closer[c].at = "read" => c[1] # owner[s])
    /\ reclaim[s] # "off" => s \in old

PoolInv == HeldInv /\ OneSlot /\ DataInv /\ CloserInv /\ OldInv

-----------------------------------------------------------------------------
LEMMA SlotLimits ==
    /\ NoSlot \notin Slots /\ NoOwner \notin SlotRuns
    /\ Off \in CloserRecords /\ Off.at = "off" /\ Off.slot = NoSlot
    /\ [Off EXCEPT !.at = "read"] = [at |-> "read", slot |-> NoSlot]
  BY SlotAssumption DEF Off, CloserRecords

LEMMA PoolInit == SlotInit => PoolTypes /\ PoolInv
<1> SUFFICES ASSUME SlotInit PROVE PoolTypes /\ PoolInv
  OBVIOUS
<1>1. PoolTypes
  BY SlotLimits DEF SlotInit, PoolTypes, Steps
<1>2. HeldInv /\ OneSlot /\ DataInv
  BY SlotLimits DEF SlotInit, HeldInv, OneSlot, DataInv
<1>3. CloserInv /\ OldInv
  BY SlotLimits DEF SlotInit, CloserInv, OldInv
<1> QED BY <1>1, <1>2, <1>3 DEF PoolInv

\* Moving one release call
LEMMA CloserMoves ==
    ASSUME PoolTypes, NEW c \in Closers
    PROVE  /\ \A v \in CloserRecords : [closer EXCEPT ![c] = v] \in [Closers -> CloserRecords]
           /\ \A at \in {"off", "read", "teardown", "release"} :
                 [closer EXCEPT ![c].at = at] \in [Closers -> CloserRecords]
  BY DEF PoolTypes, CloserRecords

\* What a release call finds
LEMMA CloserReadsWhat ==
    ASSUME NEW c \in Closers, CloserReads(c)
    PROVE  /\ closer[c].at = "read"
           /\ UNCHANGED <<slotTable, slotWork, reclaim, slotCancels, slotCrashes>>
           /\ \E v \in CloserRecords :
                /\ closer' = [closer EXCEPT ![c] = v]
                /\ \/ v.at = "off" /\ v.slot = NoSlot
                   \/ v.at = "teardown" /\ v.slot \in Slots /\ owner[v.slot] = c[1]
<1>1. CASE closer' = [closer EXCEPT ![c] = Off]
  BY <1>1, SlotLimits DEF CloserReads
<1>2. ASSUME NEW s \in Slots, owner[s] = c[1],
             closer' = [closer EXCEPT ![c] = [at |-> "teardown", slot |-> s]]
      PROVE  \E v \in CloserRecords :
                /\ closer' = [closer EXCEPT ![c] = v]
                /\ v.at = "teardown" /\ v.slot \in Slots /\ owner[v.slot] = c[1]
  <2>1. [at |-> "teardown", slot |-> s] \in CloserRecords
    BY DEF CloserRecords
  <2> QED BY <1>2, <2>1
<1> QED BY <1>1, <1>2 DEF CloserReads, SlotsOf

LEMMA PoolTypesKeep == PoolTypes /\ [SlotNext]_slotVars => PoolTypes'
<1> SUFFICES ASSUME PoolTypes, [SlotNext]_slotVars PROVE PoolTypes'
  OBVIOUS
<1> USE SlotLimits DEF PoolTypes, slotTable, slotWork, Closers, Steps
<1>0. CASE UNCHANGED slotVars
  BY <1>0 DEF slotVars
<1>1. ASSUME NEW r \in SlotRuns, Lookup(r) PROVE PoolTypes'
  BY <1>1 DEF Lookup, SlotsOf
<1>2. ASSUME NEW r \in SlotRuns, Exhausted(r) PROVE PoolTypes'
  BY <1>2 DEF Exhausted
<1>3. ASSUME NEW r \in SlotRuns, Provision(r) PROVE PoolTypes'
  BY <1>3 DEF Provision
<1>4. ASSUME NEW r \in SlotRuns, ProvisionFails(r) PROVE PoolTypes'
  <2>1. data' \in [Slots -> SlotRuns \cup {NoOwner}]
    <3>1. CASE held[r] \in Slots
      BY <1>4, <3>1 DEF ProvisionFails
    <3>2. CASE held[r] \notin Slots
      BY <1>4, <3>2 DEF ProvisionFails
    <3> QED BY <3>1, <3>2
  <2> QED BY <1>4, <2>1 DEF ProvisionFails
<1>5. ASSUME NEW r \in SlotRuns, GiveBack(r) PROVE PoolTypes'
  <2>0. <<r, "end">> \in Closers /\ [Off EXCEPT !.at = "read"] \in CloserRecords
    BY DEF CloserRecords
  <2>1. closer' \in [Closers -> CloserRecords]
    BY <1>5, <2>0, CloserMoves DEF GiveBack
  <2>2. /\ owner' \in [Slots -> SlotRuns \cup {NoOwner}] /\ old' \subseteq Slots
        /\ data' \in [Slots -> SlotRuns \cup {NoOwner}]
    BY <1>5 DEF GiveBack, Release, RunOver
  <2>3. /\ step' \in [SlotRuns -> Steps]
        /\ held' \in [SlotRuns -> Slots \cup {NoSlot}] /\ using' \in [SlotRuns -> Slots \cup {NoSlot}]
    BY <1>5 DEF GiveBack, Release, RunOver
  <2>4. /\ reclaim' \in [Slots -> {"off", "teardown", "release"}]
        /\ slotCancels' \in Nat /\ slotCrashes' \in Nat
    BY <1>5 DEF GiveBack, Release, RunOver
  <2> QED BY <2>1, <2>2, <2>3, <2>4
<1>6. ASSUME NEW r \in SlotRuns, LaunchPod(r) PROVE PoolTypes'
  BY <1>6 DEF LaunchPod, SlotsOf
<1>7. ASSUME NEW r \in SlotRuns, PodEnds(r) PROVE PoolTypes'
  <2>0. <<r, "end">> \in Closers /\ [Off EXCEPT !.at = "read"] \in CloserRecords
    BY DEF CloserRecords
  <2>1. closer' \in [Closers -> CloserRecords]
    BY <1>7, <2>0, CloserMoves DEF PodEnds
  <2>2. /\ owner' \in [Slots -> SlotRuns \cup {NoOwner}] /\ old' \subseteq Slots
        /\ data' \in [Slots -> SlotRuns \cup {NoOwner}]
    BY <1>7 DEF PodEnds, RunOver
  <2>3. /\ step' \in [SlotRuns -> Steps]
        /\ held' \in [SlotRuns -> Slots \cup {NoSlot}] /\ using' \in [SlotRuns -> Slots \cup {NoSlot}]
    BY <1>7 DEF PodEnds, RunOver
  <2>4. /\ reclaim' \in [Slots -> {"off", "teardown", "release"}]
        /\ slotCancels' \in Nat /\ slotCrashes' \in Nat
    BY <1>7 DEF PodEnds, RunOver
  <2> QED BY <2>1, <2>2, <2>3, <2>4
<1>8. ASSUME NEW r \in SlotRuns, CancelInQueue(r) PROVE PoolTypes'
  <2>0. <<r, "cancel">> \in Closers /\ [Off EXCEPT !.at = "read"] \in CloserRecords
    BY DEF CloserRecords
  <2>1. closer' \in [Closers -> CloserRecords]
    BY <1>8, <2>0, CloserMoves DEF CancelInQueue
  <2>2. /\ owner' \in [Slots -> SlotRuns \cup {NoOwner}] /\ old' \subseteq Slots
        /\ data' \in [Slots -> SlotRuns \cup {NoOwner}]
    BY <1>8 DEF CancelInQueue
  <2>3. /\ step' \in [SlotRuns -> Steps]
        /\ held' \in [SlotRuns -> Slots \cup {NoSlot}] /\ using' \in [SlotRuns -> Slots \cup {NoSlot}]
    BY <1>8 DEF CancelInQueue
  <2>4. /\ reclaim' \in [Slots -> {"off", "teardown", "release"}]
        /\ slotCancels' \in Nat /\ slotCrashes' \in Nat
    BY <1>8 DEF CancelInQueue
  <2> QED BY <2>1, <2>2, <2>3, <2>4
<1>9. ASSUME NEW r \in SlotRuns, OrphanEnds(r) PROVE PoolTypes'
  BY <1>9 DEF OrphanEnds, RunOver
<1>10. ASSUME NEW r \in SlotRuns, NEW s \in Slots, Acquire(r, s) PROVE PoolTypes'
  BY <1>10 DEF Acquire
<1>11. ASSUME NEW c \in Closers, CloserReads(c) PROVE PoolTypes'
  <2>0. PICK v \in CloserRecords : closer' = [closer EXCEPT ![c] = v]
    BY <1>11, CloserReadsWhat
  <2>1. closer' \in [Closers -> CloserRecords]
    BY <2>0, CloserMoves
  <2>2. /\ owner' \in [Slots -> SlotRuns \cup {NoOwner}] /\ old' \subseteq Slots
        /\ data' \in [Slots -> SlotRuns \cup {NoOwner}]
    BY <1>11 DEF CloserReads, SlotsOf
  <2>3. /\ step' \in [SlotRuns -> Steps]
        /\ held' \in [SlotRuns -> Slots \cup {NoSlot}] /\ using' \in [SlotRuns -> Slots \cup {NoSlot}]
    BY <1>11 DEF CloserReads, SlotsOf
  <2>4. /\ reclaim' \in [Slots -> {"off", "teardown", "release"}]
        /\ slotCancels' \in Nat /\ slotCrashes' \in Nat
    BY <1>11 DEF CloserReads, SlotsOf
  <2> QED BY <2>1, <2>2, <2>3, <2>4
<1>12. ASSUME NEW c \in Closers, CloserTearsDown(c) PROVE PoolTypes'
  <2>1. closer' \in [Closers -> CloserRecords]
    BY <1>12, CloserMoves DEF CloserTearsDown, TearDown
  <2>2. /\ owner' \in [Slots -> SlotRuns \cup {NoOwner}] /\ old' \subseteq Slots
        /\ data' \in [Slots -> SlotRuns \cup {NoOwner}]
    BY <1>12 DEF CloserTearsDown, TearDown
  <2>3. /\ step' \in [SlotRuns -> Steps]
        /\ held' \in [SlotRuns -> Slots \cup {NoSlot}] /\ using' \in [SlotRuns -> Slots \cup {NoSlot}]
    BY <1>12 DEF CloserTearsDown, TearDown
  <2>4. /\ reclaim' \in [Slots -> {"off", "teardown", "release"}]
        /\ slotCancels' \in Nat /\ slotCrashes' \in Nat
    BY <1>12 DEF CloserTearsDown, TearDown
  <2> QED BY <2>1, <2>2, <2>3, <2>4
<1>13. ASSUME NEW c \in Closers, CloserReleases(c) PROVE PoolTypes'
  <2>1. closer' \in [Closers -> CloserRecords]
    BY <1>13, CloserMoves DEF CloserReleases, Release
  <2>2. /\ owner' \in [Slots -> SlotRuns \cup {NoOwner}] /\ old' \subseteq Slots
        /\ data' \in [Slots -> SlotRuns \cup {NoOwner}]
    BY <1>13 DEF CloserReleases, Release
  <2>3. /\ step' \in [SlotRuns -> Steps]
        /\ held' \in [SlotRuns -> Slots \cup {NoSlot}] /\ using' \in [SlotRuns -> Slots \cup {NoSlot}]
    BY <1>13 DEF CloserReleases, Release
  <2>4. /\ reclaim' \in [Slots -> {"off", "teardown", "release"}]
        /\ slotCancels' \in Nat /\ slotCrashes' \in Nat
    BY <1>13 DEF CloserReleases, Release
  <2> QED BY <2>1, <2>2, <2>3, <2>4
<1>14. ASSUME NEW s \in Slots, Ages(s) PROVE PoolTypes'
  BY <1>14 DEF Ages
<1>15. ASSUME NEW s \in Slots, SweepFinds(s) PROVE PoolTypes'
  BY <1>15 DEF SweepFinds
<1>16. ASSUME NEW s \in Slots, SweepTearsDown(s) PROVE PoolTypes'
  BY <1>16 DEF SweepTearsDown, TearDown
<1>17. ASSUME NEW s \in Slots, SweepReleases(s) PROVE PoolTypes'
  BY <1>17 DEF SweepReleases, Release
<1>18. CASE SlotCrash
  BY <1>18 DEF SlotCrash
<1> QED
  BY <1>0, <1>1, <1>2, <1>3, <1>4, <1>5, <1>6, <1>7, <1>8, <1>9,
     <1>10, <1>11, <1>12, <1>13, <1>14, <1>15, <1>16, <1>17, <1>18
  DEF SlotNext, SlotRunStep, CloserStep, SweepStep

\* The disturbances are counted and never forgotten.
LEMMA CalmBefore == PoolTypes /\ Calm' /\ [SlotNext]_slotVars => Calm
<1> SUFFICES ASSUME PoolTypes, Calm', [SlotNext]_slotVars PROVE Calm
  OBVIOUS
<1> USE DEF Calm
<1>0. CASE UNCHANGED slotVars
  BY <1>0 DEF slotVars, PoolTypes, slotTable, slotWork
<1>1. ASSUME NEW r \in SlotRuns, Lookup(r) PROVE Calm
  BY <1>1 DEF Lookup, SlotsOf, PoolTypes, slotTable, slotWork
<1>2. ASSUME NEW r \in SlotRuns, Exhausted(r) PROVE Calm
  BY <1>2 DEF Exhausted, PoolTypes, slotTable, slotWork
<1>3. ASSUME NEW r \in SlotRuns, Provision(r) PROVE Calm
  BY <1>3 DEF Provision, PoolTypes, slotTable, slotWork
<1>4. ASSUME NEW r \in SlotRuns, ProvisionFails(r) PROVE Calm
  BY <1>4 DEF ProvisionFails, PoolTypes, slotTable, slotWork
<1>5. ASSUME NEW r \in SlotRuns, GiveBack(r) PROVE Calm
  BY <1>5 DEF GiveBack, Release, RunOver, PoolTypes, slotTable, slotWork
<1>6. ASSUME NEW r \in SlotRuns, LaunchPod(r) PROVE Calm
  BY <1>6 DEF LaunchPod, SlotsOf, PoolTypes, slotTable, slotWork
<1>7. ASSUME NEW r \in SlotRuns, PodEnds(r) PROVE Calm
  BY <1>7 DEF PodEnds, RunOver, PoolTypes, slotTable, slotWork
<1>8. ASSUME NEW r \in SlotRuns, CancelInQueue(r) PROVE Calm
  BY <1>8 DEF CancelInQueue, PoolTypes, slotTable, slotWork
<1>9. ASSUME NEW r \in SlotRuns, OrphanEnds(r) PROVE Calm
  BY <1>9 DEF OrphanEnds, RunOver, PoolTypes, slotTable, slotWork
<1>10. ASSUME NEW r \in SlotRuns, NEW s \in Slots, Acquire(r, s) PROVE Calm
  BY <1>10 DEF Acquire, PoolTypes, slotTable, slotWork
<1>11. ASSUME NEW c \in Closers, CloserReads(c) PROVE Calm
  BY <1>11 DEF CloserReads, SlotsOf, PoolTypes, slotTable, slotWork
<1>12. ASSUME NEW c \in Closers, CloserTearsDown(c) PROVE Calm
  BY <1>12 DEF CloserTearsDown, TearDown, PoolTypes, slotTable, slotWork
<1>13. ASSUME NEW c \in Closers, CloserReleases(c) PROVE Calm
  BY <1>13 DEF CloserReleases, Release, PoolTypes, slotTable, slotWork
<1>14. ASSUME NEW s \in Slots, Ages(s) PROVE Calm
  BY <1>14 DEF Ages, PoolTypes, slotTable, slotWork
<1>15. ASSUME NEW s \in Slots, SweepFinds(s) PROVE Calm
  BY <1>15 DEF SweepFinds, PoolTypes, slotTable, slotWork
<1>16. ASSUME NEW s \in Slots, SweepTearsDown(s) PROVE Calm
  BY <1>16 DEF SweepTearsDown, TearDown, PoolTypes, slotTable, slotWork
<1>17. ASSUME NEW s \in Slots, SweepReleases(s) PROVE Calm
  BY <1>17 DEF SweepReleases, Release, PoolTypes, slotTable, slotWork
<1>18. CASE SlotCrash
  BY <1>18 DEF SlotCrash, PoolTypes, slotTable, slotWork
<1> QED
  BY <1>0, <1>1, <1>2, <1>3, <1>4, <1>5, <1>6, <1>7, <1>8, <1>9,
     <1>10, <1>11, <1>12, <1>13, <1>14, <1>15, <1>16, <1>17, <1>18
  DEF SlotNext, SlotRunStep, CloserStep, SweepStep

\* In a calm history every step keeps the pool's invariant.
LEMMA PoolKeeps ==
    PoolTypes /\ (Calm => PoolInv) /\ [SlotNext]_slotVars => (Calm' => PoolInv')
<1> SUFFICES ASSUME PoolTypes, PoolInv, Calm, Calm', [SlotNext]_slotVars PROVE PoolInv'
  BY CalmBefore
<1> USE SlotLimits DEF PoolTypes, slotTable, slotWork, Closers, Steps
<1>0. CASE UNCHANGED slotVars
  BY <1>0 DEF slotVars, PoolInv, HeldInv, OneSlot, DataInv, CloserInv, OldInv
<1>1. ASSUME NEW r \in SlotRuns, Lookup(r) PROVE PoolInv'
  <2>1. HeldInv'
    BY <1>1 DEF Lookup, SlotsOf, PoolInv, HeldInv, OneSlot, DataInv, CloserInv, OldInv
  <2>2. OneSlot'
    BY <1>1 DEF Lookup, SlotsOf, PoolInv, HeldInv, OneSlot, DataInv, CloserInv, OldInv
  <2>3. DataInv'
    BY <1>1 DEF Lookup, SlotsOf, PoolInv, HeldInv, OneSlot, DataInv, CloserInv, OldInv
  <2>4. CloserInv'
    BY <1>1 DEF Lookup, SlotsOf, PoolInv, HeldInv, OneSlot, DataInv, CloserInv, OldInv
  <2>5. OldInv'
    BY <1>1 DEF Lookup, SlotsOf, PoolInv, HeldInv, OneSlot, DataInv, CloserInv, OldInv
  <2> QED BY <2>1, <2>2, <2>3, <2>4, <2>5 DEF PoolInv
<1>2. ASSUME NEW r \in SlotRuns, Exhausted(r) PROVE PoolInv'
  <2>1. HeldInv'
    BY <1>2 DEF Exhausted, PoolInv, HeldInv, OneSlot, DataInv, CloserInv, OldInv
  <2>2. OneSlot'
    BY <1>2 DEF Exhausted, PoolInv, HeldInv, OneSlot, DataInv, CloserInv, OldInv
  <2>3. DataInv'
    BY <1>2 DEF Exhausted, PoolInv, HeldInv, OneSlot, DataInv, CloserInv, OldInv
  <2>4. CloserInv'
    BY <1>2 DEF Exhausted, PoolInv, HeldInv, OneSlot, DataInv, CloserInv, OldInv
  <2>5. OldInv'
    BY <1>2 DEF Exhausted, PoolInv, HeldInv, OneSlot, DataInv, CloserInv, OldInv
  <2> QED BY <2>1, <2>2, <2>3, <2>4, <2>5 DEF PoolInv
<1>3. ASSUME NEW r \in SlotRuns, Provision(r) PROVE PoolInv'
  <2>1. HeldInv'
    BY <1>3 DEF Provision, PoolInv, HeldInv, OneSlot, DataInv, CloserInv, OldInv
  <2>2. OneSlot'
    BY <1>3 DEF Provision, PoolInv, HeldInv, OneSlot, DataInv, CloserInv, OldInv
  <2>3. DataInv'
    BY <1>3 DEF Provision, PoolInv, HeldInv, OneSlot, DataInv, CloserInv, OldInv
  <2>4. CloserInv'
    BY <1>3 DEF Provision, PoolInv, HeldInv, OneSlot, DataInv, CloserInv, OldInv
  <2>5. OldInv'
    BY <1>3 DEF Provision, PoolInv, HeldInv, OneSlot, DataInv, CloserInv, OldInv
  <2> QED BY <2>1, <2>2, <2>3, <2>4, <2>5 DEF PoolInv
<1>4. ASSUME NEW r \in SlotRuns, ProvisionFails(r) PROVE PoolInv'
  <2>1. HeldInv'
    BY <1>4 DEF ProvisionFails, PoolInv, HeldInv, OneSlot, DataInv, CloserInv, OldInv
  <2>2. OneSlot'
    BY <1>4 DEF ProvisionFails, PoolInv, HeldInv, OneSlot, DataInv, CloserInv, OldInv
  <2>3. DataInv'
    BY <1>4 DEF ProvisionFails, PoolInv, HeldInv, OneSlot, DataInv, CloserInv, OldInv
  <2>4. CloserInv'
    BY <1>4 DEF ProvisionFails, PoolInv, HeldInv, OneSlot, DataInv, CloserInv, OldInv
  <2>5. OldInv'
    BY <1>4 DEF ProvisionFails, PoolInv, HeldInv, OneSlot, DataInv, CloserInv, OldInv
  <2> QED BY <2>1, <2>2, <2>3, <2>4, <2>5 DEF PoolInv
<1>5. ASSUME NEW r \in SlotRuns, GiveBack(r) PROVE PoolInv'
  <2>1. HeldInv'
    BY <1>5 DEF GiveBack, Release, RunOver, PoolInv, HeldInv, OneSlot, DataInv, CloserInv, OldInv
  <2>2. OneSlot'
    BY <1>5 DEF GiveBack, Release, RunOver, PoolInv, HeldInv, OneSlot, DataInv, CloserInv, OldInv
  <2>3. DataInv'
    BY <1>5 DEF GiveBack, Release, RunOver, PoolInv, HeldInv, OneSlot, DataInv, CloserInv, OldInv
  <2>4. CloserInv'
    BY <1>5 DEF GiveBack, Release, RunOver, PoolInv, HeldInv, OneSlot, DataInv, CloserInv, OldInv
  <2>5. OldInv'
    BY <1>5 DEF GiveBack, Release, RunOver, PoolInv, HeldInv, OneSlot, DataInv, CloserInv, OldInv
  <2> QED BY <2>1, <2>2, <2>3, <2>4, <2>5 DEF PoolInv
<1>6. ASSUME NEW r \in SlotRuns, LaunchPod(r) PROVE PoolInv'
  <2>1. HeldInv'
    BY <1>6 DEF LaunchPod, SlotsOf, PoolInv, HeldInv, OneSlot, DataInv, CloserInv, OldInv
  <2>2. OneSlot'
    BY <1>6 DEF LaunchPod, SlotsOf, PoolInv, HeldInv, OneSlot, DataInv, CloserInv, OldInv
  <2>3. DataInv'
    BY <1>6 DEF LaunchPod, SlotsOf, PoolInv, HeldInv, OneSlot, DataInv, CloserInv, OldInv
  <2>4. CloserInv'
    BY <1>6 DEF LaunchPod, SlotsOf, PoolInv, HeldInv, OneSlot, DataInv, CloserInv, OldInv
  <2>5. OldInv'
    BY <1>6 DEF LaunchPod, SlotsOf, PoolInv, HeldInv, OneSlot, DataInv, CloserInv, OldInv
  <2> QED BY <2>1, <2>2, <2>3, <2>4, <2>5 DEF PoolInv
<1>7. ASSUME NEW r \in SlotRuns, PodEnds(r) PROVE PoolInv'
  <2>1. HeldInv'
    BY <1>7 DEF PodEnds, RunOver, PoolInv, HeldInv, OneSlot, DataInv, CloserInv, OldInv
  <2>2. OneSlot'
    BY <1>7 DEF PodEnds, RunOver, PoolInv, HeldInv, OneSlot, DataInv, CloserInv, OldInv
  <2>3. DataInv'
    BY <1>7 DEF PodEnds, RunOver, PoolInv, HeldInv, OneSlot, DataInv, CloserInv, OldInv
  <2>4. CloserInv'
    BY <1>7 DEF PodEnds, RunOver, PoolInv, HeldInv, OneSlot, DataInv, CloserInv, OldInv
  <2>5. OldInv'
    BY <1>7 DEF PodEnds, RunOver, PoolInv, HeldInv, OneSlot, DataInv, CloserInv, OldInv
  <2> QED BY <2>1, <2>2, <2>3, <2>4, <2>5 DEF PoolInv
<1>8. ASSUME NEW r \in SlotRuns, CancelInQueue(r) PROVE PoolInv'
  BY <1>8 DEF CancelInQueue, Calm
<1>9. ASSUME NEW r \in SlotRuns, OrphanEnds(r) PROVE PoolInv'
  <2>1. HeldInv'
    BY <1>9 DEF OrphanEnds, RunOver, PoolInv, HeldInv, OneSlot, DataInv, CloserInv, OldInv
  <2>2. OneSlot'
    BY <1>9 DEF OrphanEnds, RunOver, PoolInv, HeldInv, OneSlot, DataInv, CloserInv, OldInv
  <2>3. DataInv'
    BY <1>9 DEF OrphanEnds, RunOver, PoolInv, HeldInv, OneSlot, DataInv, CloserInv, OldInv
  <2>4. CloserInv'
    BY <1>9 DEF OrphanEnds, RunOver, PoolInv, HeldInv, OneSlot, DataInv, CloserInv, OldInv
  <2>5. OldInv'
    BY <1>9 DEF OrphanEnds, RunOver, PoolInv, HeldInv, OneSlot, DataInv, CloserInv, OldInv
  <2> QED BY <2>1, <2>2, <2>3, <2>4, <2>5 DEF PoolInv
<1>10. ASSUME NEW r \in SlotRuns, NEW s \in Slots, Acquire(r, s) PROVE PoolInv'
  <2>1. HeldInv'
    BY <1>10 DEF Acquire, PoolInv, HeldInv, OneSlot, DataInv, CloserInv, OldInv
  <2>2. OneSlot'
    BY <1>10 DEF Acquire, PoolInv, HeldInv, OneSlot, DataInv, CloserInv, OldInv
  <2>3. DataInv'
    BY <1>10 DEF Acquire, PoolInv, HeldInv, OneSlot, DataInv, CloserInv, OldInv
  <2>4. CloserInv'
    BY <1>10 DEF Acquire, PoolInv, HeldInv, OneSlot, DataInv, CloserInv, OldInv
  <2>5. OldInv'
    BY <1>10 DEF Acquire, PoolInv, HeldInv, OneSlot, DataInv, CloserInv, OldInv
  <2> QED BY <2>1, <2>2, <2>3, <2>4, <2>5 DEF PoolInv
<1>11. ASSUME NEW c \in Closers, CloserReads(c) PROVE PoolInv'
  <2>0. PICK v \in CloserRecords :
          /\ closer' = [closer EXCEPT ![c] = v]
          /\ \/ v.at = "off" /\ v.slot = NoSlot
             \/ v.at = "teardown" /\ v.slot \in Slots /\ owner[v.slot] = c[1]
    BY <1>11, CloserReadsWhat
  <2>1. closer[c].at = "read" /\ UNCHANGED <<slotTable, slotWork, reclaim>>
    BY <1>11 DEF CloserReads
  <2>2. \A e \in Closers : closer'[e] = IF e = c THEN v ELSE closer[e]
    BY <2>0
  <2>3. HeldInv' /\ OneSlot' /\ DataInv'
    BY <2>1 DEF PoolInv, HeldInv, OneSlot, DataInv
  <2>4. CloserInv'
    BY <2>0, <2>1, <2>2 DEF PoolInv, CloserInv
  <2>5. OldInv'
    BY <2>0, <2>1, <2>2 DEF PoolInv, OldInv
  <2> QED BY <2>3, <2>4, <2>5 DEF PoolInv
<1>12. ASSUME NEW c \in Closers, CloserTearsDown(c) PROVE PoolInv'
  <2>1. HeldInv'
    BY <1>12 DEF CloserTearsDown, TearDown, PoolInv, HeldInv, OneSlot, DataInv, CloserInv, OldInv
  <2>2. OneSlot'
    BY <1>12 DEF CloserTearsDown, TearDown, PoolInv, HeldInv, OneSlot, DataInv, CloserInv, OldInv
  <2>3. DataInv'
    BY <1>12 DEF CloserTearsDown, TearDown, PoolInv, HeldInv, OneSlot, DataInv, CloserInv, OldInv
  <2>4. CloserInv'
    BY <1>12 DEF CloserTearsDown, TearDown, PoolInv, HeldInv, OneSlot, DataInv, CloserInv, OldInv
  <2>5. OldInv'
    BY <1>12 DEF CloserTearsDown, TearDown, PoolInv, HeldInv, OneSlot, DataInv, CloserInv, OldInv
  <2> QED BY <2>1, <2>2, <2>3, <2>4, <2>5 DEF PoolInv
<1>13. ASSUME NEW c \in Closers, CloserReleases(c) PROVE PoolInv'
  <2>1. HeldInv'
    BY <1>13 DEF CloserReleases, Release, PoolInv, HeldInv, OneSlot, DataInv, CloserInv, OldInv
  <2>2. OneSlot'
    BY <1>13 DEF CloserReleases, Release, PoolInv, HeldInv, OneSlot, DataInv, CloserInv, OldInv
  <2>3. DataInv'
    BY <1>13 DEF CloserReleases, Release, PoolInv, HeldInv, OneSlot, DataInv, CloserInv, OldInv
  <2>4. CloserInv'
    BY <1>13 DEF CloserReleases, Release, PoolInv, HeldInv, OneSlot, DataInv, CloserInv, OldInv
  <2>5. OldInv'
    BY <1>13 DEF CloserReleases, Release, PoolInv, HeldInv, OneSlot, DataInv, CloserInv, OldInv
  <2> QED BY <2>1, <2>2, <2>3, <2>4, <2>5 DEF PoolInv
<1>14. ASSUME NEW s \in Slots, Ages(s) PROVE PoolInv'
  <2>1. HeldInv'
    BY <1>14 DEF Ages, PoolInv, HeldInv, OneSlot, DataInv, CloserInv, OldInv, Calm
  <2>2. OneSlot'
    BY <1>14 DEF Ages, PoolInv, HeldInv, OneSlot, DataInv, CloserInv, OldInv, Calm
  <2>3. DataInv'
    BY <1>14 DEF Ages, PoolInv, HeldInv, OneSlot, DataInv, CloserInv, OldInv, Calm
  <2>4. CloserInv'
    BY <1>14 DEF Ages, PoolInv, HeldInv, OneSlot, DataInv, CloserInv, OldInv, Calm
  <2>5. OldInv'
    BY <1>14 DEF Ages, PoolInv, HeldInv, OneSlot, DataInv, CloserInv, OldInv, Calm
  <2> QED BY <2>1, <2>2, <2>3, <2>4, <2>5 DEF PoolInv
<1>15. ASSUME NEW s \in Slots, SweepFinds(s) PROVE PoolInv'
  <2>1. HeldInv'
    BY <1>15 DEF SweepFinds, PoolInv, HeldInv, OneSlot, DataInv, CloserInv, OldInv
  <2>2. OneSlot'
    BY <1>15 DEF SweepFinds, PoolInv, HeldInv, OneSlot, DataInv, CloserInv, OldInv
  <2>3. DataInv'
    BY <1>15 DEF SweepFinds, PoolInv, HeldInv, OneSlot, DataInv, CloserInv, OldInv
  <2>4. CloserInv'
    BY <1>15 DEF SweepFinds, PoolInv, HeldInv, OneSlot, DataInv, CloserInv, OldInv
  <2>5. OldInv'
    BY <1>15 DEF SweepFinds, PoolInv, HeldInv, OneSlot, DataInv, CloserInv, OldInv
  <2> QED BY <2>1, <2>2, <2>3, <2>4, <2>5 DEF PoolInv
<1>16. ASSUME NEW s \in Slots, SweepTearsDown(s) PROVE PoolInv'
  <2>1. HeldInv'
    BY <1>16 DEF SweepTearsDown, TearDown, PoolInv, HeldInv, OneSlot, DataInv, CloserInv, OldInv
  <2>2. OneSlot'
    BY <1>16 DEF SweepTearsDown, TearDown, PoolInv, HeldInv, OneSlot, DataInv, CloserInv, OldInv
  <2>3. DataInv'
    BY <1>16 DEF SweepTearsDown, TearDown, PoolInv, HeldInv, OneSlot, DataInv, CloserInv, OldInv
  <2>4. CloserInv'
    BY <1>16 DEF SweepTearsDown, TearDown, PoolInv, HeldInv, OneSlot, DataInv, CloserInv, OldInv
  <2>5. OldInv'
    BY <1>16 DEF SweepTearsDown, TearDown, PoolInv, HeldInv, OneSlot, DataInv, CloserInv, OldInv
  <2> QED BY <2>1, <2>2, <2>3, <2>4, <2>5 DEF PoolInv
<1>17. ASSUME NEW s \in Slots, SweepReleases(s) PROVE PoolInv'
  <2>1. HeldInv'
    BY <1>17 DEF SweepReleases, Release, PoolInv, HeldInv, OneSlot, DataInv, CloserInv, OldInv
  <2>2. OneSlot'
    BY <1>17 DEF SweepReleases, Release, PoolInv, HeldInv, OneSlot, DataInv, CloserInv, OldInv
  <2>3. DataInv'
    BY <1>17 DEF SweepReleases, Release, PoolInv, HeldInv, OneSlot, DataInv, CloserInv, OldInv
  <2>4. CloserInv'
    BY <1>17 DEF SweepReleases, Release, PoolInv, HeldInv, OneSlot, DataInv, CloserInv, OldInv
  <2>5. OldInv'
    BY <1>17 DEF SweepReleases, Release, PoolInv, HeldInv, OneSlot, DataInv, CloserInv, OldInv
  <2> QED BY <2>1, <2>2, <2>3, <2>4, <2>5 DEF PoolInv
<1>18. CASE SlotCrash
  BY <1>18 DEF SlotCrash, Calm
<1> QED
  BY <1>0, <1>1, <1>2, <1>3, <1>4, <1>5, <1>6, <1>7, <1>8, <1>9,
     <1>10, <1>11, <1>12, <1>13, <1>14, <1>15, <1>16, <1>17, <1>18
  DEF SlotNext, SlotRunStep, CloserStep, SweepStep

\* The pool's invariant holds in every calm history.
THEOREM PoolInductive == SlotSpec => [](PoolTypes /\ (Calm => PoolInv))
<1>1. PoolTypes /\ (Calm => PoolInv) /\ [SlotNext]_slotVars
        => PoolTypes' /\ (Calm => PoolInv)'
  BY PoolTypesKeep, PoolKeeps DEF Calm
<1> QED BY <1>1, PoolInit, PTL DEF SlotSpec

\* With the default time-outs, no cancel in the queue and no crash, a pod's
\* databases are those provisioned for it (runner-db-slots.ts,
\* runner-db-slot-manager.ts).
THEOREM Isolates == SlotSpec => []Isolation
<1>1. PoolTypes /\ (Calm => PoolInv) => Isolation
  BY DEF Calm, PoolInv, DataInv, Isolation
<1> QED BY <1>1, PoolInductive, PTL

-----------------------------------------------------------------------------
(* The supervisor                                                          *)
(*                                                                         *)
(* depth[r] counts the retries that led to r.  It is never above any of    *)
(* the three numbers the supervisor may compare with its cap: the count of *)
(* r's entry, the one a response took from it, and the one resolved from   *)
(* retryChain when there is no entry.                                      *)

Responses == WatchedRuns \X Sources

\* The types that the argument needs
SupTypes ==
    /\ work \in [WatchedRuns -> {"none", "queued", "loaded", "running", "over"}]
    /\ watched \in [WatchedRuns -> Int]
    /\ response \in [Responses -> [at : {"off", "read", "retry"}, count : Int]]
    /\ retryChain \in [WatchedRuns -> WatchedRuns \cup {NoWatched}]
    /\ depth \in [WatchedRuns -> Nat]

\* A run that does not exist yet has left no trace.
UnusedInv == \A r \in WatchedRuns : work[r] = "none" =>
    /\ retryChain[r] = NoWatched /\ watched[r] = NoEntry
    /\ r \notin lookup /\ r \notin expiry
    /\ \A s \in Sources : response[<<r, s>>].at = "off"

\* What retryChain says of a run
ChainInv == \A r \in WatchedRuns : depth[r] <= ResolveRetryCount(r)

\* What an entry says
EntryInv == \A r \in WatchedRuns : watched[r] = NoEntry \/ depth[r] <= watched[r]

\* What a response remembers; one that was let through is below the cap.
ResponseInv == \A x \in Responses :
    /\ response[x].at # "off" => response[x].count = NoEntry \/ depth[x[1]] <= response[x].count
    /\ response[x].at = "retry" => /\ depth[x[1]] <= response[x].count
                                   /\ response[x].count < MaxAutoRetries

SInv == SupTypes /\ UnusedInv /\ ChainInv /\ EntryInv /\ ResponseInv /\ RetryDepth

-----------------------------------------------------------------------------
\* The runs that go back to o
Family(o) == {q \in WatchedRuns : retryChain[q] = o}

LEMMA Limits == MaxAutoRetries \in Nat /\ NoWatched \notin WatchedRuns
  BY SupervisorAssumption

LEMMA FamilySize ==
    ASSUME NEW o PROVE IsFiniteSet(Family(o)) /\ Cardinality(Family(o)) \in Nat
<1>1. IsFiniteSet(Family(o))
  BY SupervisorAssumption, FS_Subset DEF Family
<1> QED BY <1>1, FS_CardinalityType

LEMMA Resolved ==
    ASSUME NEW r \in WatchedRuns
    PROVE  ResolveRetryCount(r) = IF retryChain[r] = NoWatched THEN 0
                                  ELSE Cardinality(Family(retryChain[r]))
  BY DEF ResolveRetryCount, Family

LEMMA ResolvedType ==
    ASSUME NEW r \in WatchedRuns PROVE ResolveRetryCount(r) \in Nat
  BY Resolved, FamilySize

\* As long as retryChain and depth stay, so does what it says.
LEMMA ChainStays ==
    ASSUME ChainInv, retryChain' = retryChain, depth' = depth
    PROVE  ChainInv'
  BY DEF ChainInv, ResolveRetryCount

\* What the cap is compared with is never too low.
LEMMA RetryCountHigh ==
    ASSUME SInv, NEW x \in Responses, response[x].at = "read"
    PROVE  RetryCount(x) \in Int /\ depth[x[1]] <= RetryCount(x)
<1>1. x[1] \in WatchedRuns
  BY DEF Responses
<1>2. CASE response[x].count = NoEntry
  <2>1. RetryCount(x) = ResolveRetryCount(x[1])
    BY <1>2 DEF RetryCount
  <2> QED BY <1>1, <2>1, ResolvedType DEF SInv, ChainInv
<1>3. CASE response[x].count # NoEntry
  <2>1. RetryCount(x) = response[x].count
    BY <1>3 DEF RetryCount
  <2> QED BY <1>3, <2>1 DEF SInv, SupTypes, ResponseInv
<1> QED BY <1>2, <1>3

-----------------------------------------------------------------------------
LEMMA SupervisorInitHolds == SupervisorInit => SInv
<1> SUFFICES ASSUME SupervisorInit PROVE SInv
  OBVIOUS
<1>1. SupTypes /\ UnusedInv /\ EntryInv
  BY DEF SupervisorInit, SupTypes, UnusedInv, EntryInv, Responses, Silent, NoEntry
<1>2. ChainInv
  BY DEF SupervisorInit, ChainInv, ResolveRetryCount
<1>3. ResponseInv
  BY DEF SupervisorInit, ResponseInv, Responses, Silent
<1>4. RetryDepth
  BY Limits DEF SupervisorInit, RetryDepth
<1> QED BY <1>1, <1>2, <1>3, <1>4 DEF SInv

\* A step that makes no retry: what is entered or remembered is high enough.
LEMMA QuietStep ==
    ASSUME SInv, UNCHANGED <<retryChain, depth>>, SupTypes', UnusedInv', EntryInv', ResponseInv'
    PROVE  SInv'
<1>1. ChainInv'
  BY ChainStays DEF SInv
<1>2. RetryDepth'
  BY DEF SInv, RetryDepth
<1> QED BY <1>1, <1>2 DEF SInv

\* handleRunTerminal's first step takes the entry's count along.
LEMMA TerminalKeeps ==
    ASSUME SInv, NEW r \in WatchedRuns, NEW end, NEW source \in Sources,
           Terminal(r, end, source), work[r] # "none", UNCHANGED <<retryChain, depth>>,
           lookup' = lookup, expiry' \subseteq expiry,
           work' \in [WatchedRuns -> {"none", "queued", "loaded", "running", "over"}],
           \A q \in WatchedRuns : work'[q] = "none" => work[q] = "none"
    PROVE  SInv'
<1> DEFINE taken == [at |-> "read", count |-> watched[r]]
<1>1. watched' = [watched EXCEPT ![r] = NoEntry]
  BY DEF Terminal
<1>2. response' = response \/ response' = [response EXCEPT ![<<r, source>>] = taken]
  BY DEF Terminal
<1>3. <<r, source>> \in Responses
  BY DEF Responses
<1>4. SupTypes'
  <2>1. watched' \in [WatchedRuns -> Int]
    BY <1>1 DEF SInv, SupTypes, NoEntry
  <2>2. taken \in [at : {"off", "read", "retry"}, count : Int]
    BY DEF SInv, SupTypes
  <2>3. response' \in [Responses -> [at : {"off", "read", "retry"}, count : Int]]
    BY <1>2, <1>3, <2>2 DEF SInv, SupTypes
  <2> QED BY <2>1, <2>3 DEF SInv, SupTypes
<1>5. EntryInv'
  BY <1>1 DEF SInv, EntryInv, SupTypes
<1>6. UnusedInv'
  <2> SUFFICES ASSUME NEW q \in WatchedRuns, work'[q] = "none"
               PROVE  /\ retryChain'[q] = NoWatched /\ watched'[q] = NoEntry
                      /\ q \notin lookup' /\ q \notin expiry'
                      /\ \A s \in Sources : response'[<<q, s>>].at = "off"
    BY DEF UnusedInv
  <2>1. work[q] = "none" /\ q # r
    OBVIOUS
  <2>2. \A s \in Sources : response'[<<q, s>>] = response[<<q, s>>]
    BY <1>2, <1>3, <2>1 DEF SInv, SupTypes, Responses
  <2> QED BY <2>1, <2>2, <1>1 DEF SInv, UnusedInv, SupTypes
<1>7. ResponseInv'
  <2> SUFFICES ASSUME NEW x \in Responses
               PROVE  /\ response'[x].at # "off" =>
                           response'[x].count = NoEntry \/ depth'[x[1]] <= response'[x].count
                      /\ response'[x].at = "retry" => /\ depth'[x[1]] <= response'[x].count
                                                      /\ response'[x].count < MaxAutoRetries
    BY DEF ResponseInv
  <2>1. CASE response'[x] = response[x]
    BY <2>1 DEF SInv, ResponseInv
  <2>2. CASE x = <<r, source>> /\ response'[x] = taken
    BY <2>2 DEF SInv, EntryInv
  <2> QED BY <1>2, <1>3, <2>1, <2>2 DEF SInv, SupTypes
<1> QED BY <1>4, <1>5, <1>6, <1>7, QuietStep

-----------------------------------------------------------------------------
LEMMA SupervisorKeeps == SInv /\ [SupervisorNext]_supVars => SInv'
<1> SUFFICES ASSUME SInv, [SupervisorNext]_supVars PROVE SInv'
  OBVIOUS
<1> USE DEF supRows, supMemory
<1>0. CASE UNCHANGED supVars
  <2>1. SupTypes' /\ UnusedInv' /\ EntryInv' /\ ResponseInv'
    BY <1>0 DEF supVars, SInv, SupTypes, UnusedInv, EntryInv, ResponseInv
  <2> QED BY <1>0, <2>1, QuietStep DEF supVars
<1>1. ASSUME NEW r \in WatchedRuns, Loads(r) \/ Works(r) PROVE SInv'
  <2>1. /\ work' \in [WatchedRuns -> {"none", "queued", "loaded", "running", "over"}]
        /\ \A q \in WatchedRuns : work'[q] = "none" => work[q] = "none"
        /\ UNCHANGED <<supMemory, depth>>
    BY <1>1 DEF Loads, Works, SInv, SupTypes
  <2>2. SupTypes' /\ UnusedInv' /\ EntryInv' /\ ResponseInv'
    BY <2>1 DEF SInv, SupTypes, UnusedInv, EntryInv, ResponseInv
  <2> QED BY <2>1, <2>2, QuietStep
<1>2. ASSUME NEW r \in WatchedRuns, WorkEnds(r) PROVE SInv'
  <2>1. PICK end \in {"completed", "failed"} : Terminal(r, end, "worker")
    BY <1>2 DEF WorkEnds
  <2>2. /\ work[r] = "running" /\ work' = [work EXCEPT ![r] = "over"]
        /\ UNCHANGED <<lookup, expiry, retryChain, depth>>
    BY <1>2 DEF WorkEnds
  <2>3. /\ work' \in [WatchedRuns -> {"none", "queued", "loaded", "running", "over"}]
        /\ \A q \in WatchedRuns : work'[q] = "none" => work[q] = "none"
    BY <2>2 DEF SInv, SupTypes
  <2> QED BY <2>1, <2>2, <2>3, TerminalKeeps DEF Sources
<1>3. ASSUME NEW r \in WatchedRuns, NodeStarts(r) PROVE SInv'
  <2>1. SupTypes' /\ UnusedInv' /\ EntryInv' /\ ResponseInv'
    BY <1>3 DEF NodeStarts, SInv, SupTypes, UnusedInv, EntryInv, ResponseInv
  <2> QED BY <1>3, <2>1, QuietStep DEF NodeStarts
<1>4. ASSUME NEW r \in WatchedRuns, Enter(r) PROVE SInv'
  <2>0. /\ r \in lookup /\ lookup' = lookup \ {r}
        /\ watched' = [watched EXCEPT ![r] = ResolveRetryCount(r)]
        /\ UNCHANGED <<work, expiry, response, retryChain, depth>>
    BY <1>4 DEF Enter
  <2>1. ResolveRetryCount(r) \in Nat /\ depth[r] <= ResolveRetryCount(r)
    BY ResolvedType DEF SInv, ChainInv
  <2>2. SupTypes' /\ EntryInv' /\ ResponseInv'
    BY <2>0, <2>1 DEF SInv, SupTypes, EntryInv, ResponseInv
  <2>3. work[r] # "none"
    BY <2>0 DEF SInv, UnusedInv
  <2>4. UnusedInv'
    BY <2>0, <2>3 DEF SInv, SupTypes, UnusedInv
  <2> QED BY <2>0, <2>2, <2>4, QuietStep
<1>5. ASSUME NEW r \in WatchedRuns, Expires(r) PROVE SInv'
  <2>1. SupTypes' /\ UnusedInv' /\ EntryInv' /\ ResponseInv'
    BY <1>5 DEF Expires, SInv, SupTypes, UnusedInv, EntryInv, ResponseInv
  <2> QED BY <1>5, <2>1, QuietStep DEF Expires
<1>6. ASSUME NEW r \in WatchedRuns, ForceFail(r) PROVE SInv'
  <2>1. /\ r \in expiry /\ expiry' = expiry \ {r} /\ Terminal(r, "failed", "watchdog")
        /\ UNCHANGED <<work, lookup, retryChain, depth>>
    BY <1>6 DEF ForceFail
  <2>2. work[r] # "none"
    BY <2>1 DEF SInv, UnusedInv
  <2>3. /\ work' \in [WatchedRuns -> {"none", "queued", "loaded", "running", "over"}]
        /\ \A q \in WatchedRuns : work'[q] = "none" => work[q] = "none"
    BY <2>1 DEF SInv, SupTypes
  <2> QED BY <2>1, <2>2, <2>3, TerminalKeeps DEF Sources
<1>7. ASSUME NEW x \in Responses, Decide(x) PROVE SInv'
  <2> DEFINE through == [at |-> "retry", count |-> RetryCount(x)]
  <2>1. /\ response[x].at = "read"
        /\ UNCHANGED <<work, watched, lookup, expiry, retryChain, depth>>
    BY <1>7 DEF Decide
  <2>2. \/ response' = [response EXCEPT ![x] = Silent]
        \/ response' = [response EXCEPT ![x] = through] /\ RetryCount(x) < MaxAutoRetries
    BY <1>7 DEF Decide, Retryable
  <2>3. RetryCount(x) \in Int /\ depth[x[1]] <= RetryCount(x)
    BY <2>1, RetryCountHigh
  <2>4. SupTypes' /\ EntryInv'
    BY <2>1, <2>2, <2>3 DEF SInv, SupTypes, EntryInv, Silent, NoEntry
  <2>5. \A y \in Responses : response[y].at = "off" => response'[y].at = "off"
    BY <2>1, <2>2 DEF SInv, SupTypes
  <2>6. UnusedInv'
    BY <2>1, <2>5 DEF SInv, UnusedInv, Responses
  <2>7. ResponseInv'
    <3> SUFFICES ASSUME NEW y \in Responses
                 PROVE  /\ response'[y].at # "off" =>
                             response'[y].count = NoEntry \/ depth'[y[1]] <= response'[y].count
                        /\ response'[y].at = "retry" => /\ depth'[y[1]] <= response'[y].count
                                                        /\ response'[y].count < MaxAutoRetries
      BY DEF ResponseInv
    <3>1. CASE response'[y] = response[y]
      BY <2>1, <3>1 DEF SInv, ResponseInv
    <3>2. CASE y = x /\ response'[y] = Silent
      BY <3>2 DEF Silent
    <3>3. CASE y = x /\ response'[y] = through /\ RetryCount(x) < MaxAutoRetries
      BY <2>1, <2>3, <3>3
    <3> QED BY <2>2, <3>1, <3>2, <3>3 DEF SInv, SupTypes
  <2> QED BY <2>1, <2>4, <2>6, <2>7, QuietStep
<1>8. ASSUME NEW x \in Responses, RetryRun(x) PROVE SInv'
  <2>1. PICK r \in Unused :
          /\ response[x].at = "retry"
          /\ response' = [response EXCEPT ![x] = Silent]
          /\ work' = [work EXCEPT ![r] = "queued"]
          /\ retryChain' = [retryChain EXCEPT ![r] = Originator(x[1])]
          /\ watched' = [watched EXCEPT ![r] = response[x].count + 1]
          /\ depth' = [depth EXCEPT ![r] = depth[x[1]] + 1]
          /\ UNCHANGED <<lookup, expiry>>
    BY <1>8 DEF RetryRun
  <2>2. /\ r \in WatchedRuns /\ work[r] = "none" /\ retryChain[r] = NoWatched
        /\ \A s \in Sources : response[<<r, s>>].at = "off"
    BY DEF Unused, SInv, UnusedInv
  <2>3. x[1] \in WatchedRuns /\ x[1] # r
    BY <2>1, <2>2 DEF Responses
  <2>4. /\ depth[x[1]] <= response[x].count /\ response[x].count < MaxAutoRetries
        /\ response[x].count \in Int /\ depth[x[1]] \in Nat
    BY <2>1, <2>3 DEF SInv, ResponseInv, SupTypes
  <2>5. Originator(x[1]) \in WatchedRuns
    BY <2>3 DEF Originator, SInv, SupTypes
  <2>6. SupTypes'
    BY <2>1, <2>2, <2>3, <2>4, <2>5 DEF SInv, SupTypes, Silent, NoEntry
  <2>7. UnusedInv'
    <3>1. \A y \in Responses : response[y].at = "off" => response'[y].at = "off"
      BY <2>1 DEF SInv, SupTypes
    <3> QED BY <2>1, <2>2, <3>1 DEF SInv, SupTypes, UnusedInv, Responses
  <2>8. EntryInv'
    BY <2>1, <2>2, <2>4 DEF SInv, SupTypes, EntryInv
  <2>9. ResponseInv'
    <3> SUFFICES ASSUME NEW y \in Responses
                 PROVE  /\ response'[y].at # "off" =>
                             response'[y].count = NoEntry \/ depth'[y[1]] <= response'[y].count
                        /\ response'[y].at = "retry" => /\ depth'[y[1]] <= response'[y].count
                                                        /\ response'[y].count < MaxAutoRetries
      BY DEF ResponseInv
    <3>1. CASE y = x
      BY <2>1, <3>1 DEF SInv, SupTypes, Silent
    <3>2. CASE y # x /\ y[1] # r
      <4>1. response'[y] = response[y] /\ depth'[y[1]] = depth[y[1]]
        BY <2>1, <3>2 DEF SInv, SupTypes, Responses
      <4> QED BY <4>1 DEF SInv, ResponseInv
    <3>3. CASE y # x /\ y[1] = r
      <4>1. response'[y].at = "off"
        BY <2>1, <2>2, <3>3 DEF SInv, SupTypes, Responses
      <4> QED BY <4>1
    <3> QED BY <3>1, <3>2, <3>3
  <2>10. RetryDepth'
    BY <2>1, <2>2, <2>4, Limits DEF SInv, SupTypes, RetryDepth
  <2>11. ChainInv'
    <3>0. PICK o \in WatchedRuns : o = Originator(x[1])
      BY <2>5
    <3>1. \A q \in WatchedRuns : q # r => retryChain'[q] = retryChain[q] /\ depth'[q] = depth[q]
      BY <2>1, <2>2 DEF SInv, SupTypes
    <3>2. retryChain'[r] = o /\ depth'[r] = depth[x[1]] + 1
      BY <2>1, <2>2, <3>0 DEF SInv, SupTypes
    <3>3. Family(o)' = Family(o) \cup {r} /\ r \notin Family(o)
      BY <2>2, <3>1, <3>2, Limits DEF Family
    <3>4. Cardinality(Family(o)') = Cardinality(Family(o)) + 1
      BY <3>3, FamilySize, FS_AddElement
    <3>5. depth[x[1]] <= Cardinality(Family(o))
      <4>1. CASE retryChain[x[1]] = NoWatched
        <5>1. depth[x[1]] <= 0
          BY <2>3, <4>1, Resolved DEF SInv, ChainInv
        <5> QED BY <5>1, <2>4, FamilySize
      <4>2. CASE retryChain[x[1]] # NoWatched
        <5>1. o = retryChain[x[1]]
          BY <3>0, <4>2 DEF Originator
        <5> QED BY <2>3, <4>2, <5>1, Resolved DEF SInv, ChainInv
      <4> QED BY <4>1, <4>2
    <3>6. ASSUME NEW q \in WatchedRuns PROVE depth'[q] <= ResolveRetryCount(q)'
      <4>0. PICK c : c = retryChain'[q]
        OBVIOUS
      <4>1. ResolveRetryCount(q)' = IF c = NoWatched THEN 0 ELSE Cardinality(Family(c)')
        BY <4>0 DEF ResolveRetryCount, Family
      <4>2. CASE q = r
        <5>1. c = o /\ c # NoWatched
          BY <4>0, <4>2, <3>2, Limits
        <5> QED BY <4>1, <4>2, <5>1, <3>2, <3>4, <3>5, <2>4, FamilySize
      <4>3. CASE q # r
        <5>1. c = retryChain[q] /\ depth'[q] = depth[q]
          BY <4>0, <4>3, <3>1
        <5>2. depth[q] <= IF c = NoWatched THEN 0 ELSE Cardinality(Family(c))
          BY <5>1, Resolved DEF SInv, ChainInv
        <5>3. CASE c = NoWatched
          BY <4>1, <5>1, <5>2, <5>3
        <5>4. CASE c # NoWatched
          <6>1. Family(c) \subseteq Family(c)'
            BY <2>2, <3>1, <5>4 DEF Family
          <6>2. IsFiniteSet(Family(c)')
            BY SupervisorAssumption, FS_Subset DEF Family
          <6>3. Cardinality(Family(c)) <= Cardinality(Family(c)')
            BY <6>1, <6>2, FS_Subset
          <6>4. Cardinality(Family(c)) \in Nat /\ Cardinality(Family(c)') \in Nat
            BY <6>2, FamilySize, FS_CardinalityType
          <6>5. depth[q] \in Nat
            BY DEF SInv, SupTypes
          <6> QED BY <4>1, <5>1, <5>2, <5>4, <6>3, <6>4, <6>5
        <5> QED BY <5>3, <5>4
      <4> QED BY <4>2, <4>3
    <3> QED BY <3>6 DEF ChainInv
  <2> QED BY <2>6, <2>7, <2>8, <2>9, <2>10, <2>11 DEF SInv
<1>9. CASE (\E r \in WatchedRuns : CooldownEnds(r)) \/ Midnight
  <2>1. SupTypes' /\ UnusedInv' /\ EntryInv' /\ ResponseInv' /\ UNCHANGED <<retryChain, depth>>
    BY <1>9 DEF CooldownEnds, Midnight, SInv, SupTypes, UnusedInv, EntryInv, ResponseInv
  <2> QED BY <2>1, QuietStep
<1> QED
  BY <1>0, <1>1, <1>2, <1>3, <1>4, <1>5, <1>6, <1>7, <1>8, <1>9 DEF SupervisorNext, Responses

\* The three counts stay above the number of retries that were made.
THEOREM SupervisorInductive == SupervisorSpec => []SInv
  BY SupervisorInitHolds, SupervisorKeeps, PTL DEF SupervisorSpec

\* No run is the result of more automatic retries than the cap allows
\* (run-supervisor.ts, handleRunTerminal).
THEOREM CapsRetries == SupervisorSpec => []RetryDepth
<1>1. SInv => RetryDepth
  BY DEF SInv
<1> QED BY <1>1, SupervisorInductive, PTL

-----------------------------------------------------------------------------
(* The review of a discovery item                                          *)

\* The calls that have passed the check for a delivery and will create one
Committing == {c \in Calls : call[c].pc = "commit"}

\* Every call that is committing passed its check while there was no delivery.
DeliveryInv ==
    /\ call = [c \in Calls |-> call[c]]
    /\ \A c \in Calls : "pc" \in DOMAIN call[c]
    /\ deliveries \in Nat
    /\ deliveries + Cardinality(Committing) <= Cardinality(Calls)
    /\ deliveries > 0 => item = "done"

\* Nothing follows the end of a discovery item.
LEMMA DoneIsLast == \A to : TransitionAllowed("done", to) => to = "done"
<1>1. Successors["done"] = {}
  BY DEF Successors, ItemStates
<1> QED BY <1>1 DEF TransitionAllowed

LEMMA FiniteCalls ==
  ASSUME NEW S, S \subseteq Calls
  PROVE  IsFiniteSet(S) /\ Cardinality(S) \in Nat /\ Cardinality(S) <= Cardinality(Calls)
         /\ Cardinality(Calls) \in Nat
  BY DiscoveryAssumption, FS_Subset, FS_CardinalityType

\* A step of a call to somewhere else than its commit adds no committing call.
LEMMA MovesElsewhere ==
  ASSUME DeliveryInv, NEW c \in Calls, NEW record, "pc" \in DOMAIN record,
         record.pc # "commit", call' = [call EXCEPT ![c] = record]
  PROVE  /\ call' = [d \in Calls |-> call'[d]]
         /\ \A d \in Calls : "pc" \in DOMAIN call'[d]
         /\ Committing' \subseteq Committing
         /\ Cardinality(Committing') <= Cardinality(Committing)
         /\ Cardinality(Committing') \in Nat /\ Cardinality(Committing) \in Nat
         /\ Cardinality(Calls) \in Nat
<1>1. call' = [d \in Calls |-> IF d = c THEN record ELSE call[d]]
  BY DEF DeliveryInv
<1>2. Committing' \subseteq Committing
  BY <1>1 DEF Committing
<1>3. Committing \subseteq Calls
  BY DEF Committing
<1>4. /\ Cardinality(Committing') <= Cardinality(Committing)
      /\ Cardinality(Committing') \in Nat /\ Cardinality(Committing) \in Nat
      /\ Cardinality(Calls) \in Nat
  BY <1>2, <1>3, FiniteCalls, FS_Subset, FS_CardinalityType
<1>5. \A d \in Calls : "pc" \in DOMAIN call'[d]
  BY <1>1 DEF DeliveryInv
<1>6. call' = [d \in Calls |-> call'[d]]
  BY <1>1
<1> QED BY <1>2, <1>4, <1>5, <1>6

LEMMA DeliveryInit == DiscoveryInit => DeliveryInv
<1> SUFFICES ASSUME DiscoveryInit PROVE DeliveryInv
  OBVIOUS
<1>1. Committing = {}
  BY DEF DiscoveryInit, Committing, NoCall
<1>2. Cardinality(Committing) = 0 /\ Cardinality(Calls) \in Nat
  BY <1>1, FS_EmptySet, FiniteCalls
<1> QED BY <1>2 DEF DiscoveryInit, DeliveryInv, NoCall

\* What a step that is neither the check nor the commit of a delivery does to the calls.
LEMMA QuietCall ==
  ASSUME DeliveryInv, NEW c \in Calls,
         \/ RequestsReview(c) \/ ListsRounds(c) \/ InsertsRow(c)
         \/ \E i \in DOMAIN rows : RecordsOutcome(c, i)
         \/ CompletesRequest(c) \/ JudgesRound(c) \/ SupersedesRequest(c)
         \/ Rejects(c) \/ Approves(c)
         \/ \E state \in ItemStates : Overrides(c, state)
         \/ WritesState(c) \/ CallFails(c)
  PROVE  /\ deliveries' = deliveries
         /\ \E record : /\ "pc" \in DOMAIN record /\ record.pc # "commit"
                        /\ call' = [call EXCEPT ![c] = record]
         /\ item = "done" => item' = "done"
<1> USE DEF CallBegins, CallMoves, CallReturns, NoCall
<1>1. CASE RequestsReview(c)
  BY <1>1 DEF RequestsReview
<1>2. CASE ListsRounds(c)
  BY <1>2 DEF ListsRounds, DeliveryInv
<1>3. CASE InsertsRow(c)
  BY <1>3 DEF InsertsRow, DeliveryInv
<1>4. CASE \E i \in DOMAIN rows : RecordsOutcome(c, i)
  BY <1>4 DEF RecordsOutcome
<1>5. CASE CompletesRequest(c)
  BY <1>5 DEF CompletesRequest, DeliveryInv
<1>6. CASE JudgesRound(c)
  BY <1>6 DEF JudgesRound, DeliveryInv
<1>7. CASE SupersedesRequest(c)
  BY <1>7 DEF SupersedesRequest, DeliveryInv
<1>8. CASE Rejects(c) \/ Approves(c)
  BY <1>8 DEF Rejects, Approves
<1>9. CASE \E state \in ItemStates : Overrides(c, state)
  BY <1>9 DEF Overrides
<1>10. CASE WritesState(c)
  BY <1>10, DoneIsLast DEF WritesState
<1>11. CASE CallFails(c)
  BY <1>11 DEF CallFails
<1> QED BY <1>1, <1>2, <1>3, <1>4, <1>5, <1>6, <1>7, <1>8, <1>9, <1>10, <1>11

LEMMA DeliveryKeeps == DeliveryInv /\ [DiscoveryNext]_discoveryVars => DeliveryInv'
<1> SUFFICES ASSUME DeliveryInv, [DiscoveryNext]_discoveryVars PROVE DeliveryInv'
  OBVIOUS
<1>1. CASE UNCHANGED discoveryVars
  BY <1>1 DEF DeliveryInv, Committing, discoveryVars
<1>2. CASE DiscoveryNext
  <2>1. PICK c \in Calls :
          \/ RequestsReview(c) \/ ListsRounds(c) \/ InsertsRow(c)
          \/ \E i \in DOMAIN rows : RecordsOutcome(c, i)
          \/ CompletesRequest(c) \/ JudgesRound(c) \/ SupersedesRequest(c)
          \/ Rejects(c) \/ Approves(c) \/ ChecksDelivery(c) \/ CommitsDelivery(c)
          \/ \E state \in ItemStates : Overrides(c, state)
          \/ WritesState(c) \/ CallFails(c)
    BY <1>2 DEF DiscoveryNext
  <2>2. CASE ChecksDelivery(c) /\ item = "waiting_for_pm_confirmation" /\ deliveries = 0
    <3>1. call' = [d \in Calls |-> IF d = c THEN [NoCall EXCEPT !.pc = "commit"] ELSE call[d]]
      BY <2>2 DEF ChecksDelivery, CallMoves, DeliveryInv
    <3>2. Committing' \subseteq Calls
      BY <3>1 DEF Committing
    <3>3. Cardinality(Committing') <= Cardinality(Calls) /\ Cardinality(Committing') \in Nat
      BY <3>2, FiniteCalls
    <3>4. deliveries' = 0
      BY <2>2 DEF ChecksDelivery
    <3>5. /\ call' = [d \in Calls |-> call'[d]]
          /\ \A d \in Calls : "pc" \in DOMAIN call'[d]
      BY <3>1 DEF NoCall, DeliveryInv
    <3> QED BY <3>3, <3>4, <3>5 DEF DeliveryInv
  <2>3. CASE ChecksDelivery(c) /\ ~(item = "waiting_for_pm_confirmation" /\ deliveries = 0)
    <3>1. /\ call' = [call EXCEPT ![c] = NoCall]
          /\ deliveries' = deliveries /\ item' = item
      BY <2>3 DEF ChecksDelivery, CallReturns, CallMoves
    <3>2. "pc" \in DOMAIN NoCall /\ NoCall.pc # "commit"
      BY DEF NoCall
    <3> QED BY <3>1, <3>2, MovesElsewhere DEF DeliveryInv
  <2>4. CASE CommitsDelivery(c)
    <3>1. call' = [call EXCEPT ![c] = NoCall] /\ call[c].pc = "commit"
      BY <2>4 DEF CommitsDelivery, CallReturns, CallMoves
    <3>2. "pc" \in DOMAIN NoCall /\ NoCall.pc # "commit"
      BY DEF NoCall
    <3>3. /\ call' = [d \in Calls |-> call'[d]]
          /\ \A d \in Calls : "pc" \in DOMAIN call'[d]
          /\ Cardinality(Calls) \in Nat
      BY <3>1, <3>2, MovesElsewhere
    <3>4. Committing' = Committing \ {c} /\ c \in Committing
      BY <3>1, <3>2 DEF Committing, DeliveryInv
    <3>5. IsFiniteSet(Committing) /\ Cardinality(Committing) \in Nat
      BY FiniteCalls DEF Committing
    <3>6. /\ Cardinality(Committing') = Cardinality(Committing) - 1
          /\ Cardinality(Committing') \in Nat
      BY <3>4, <3>5, FS_RemoveElement, FS_CardinalityType
    <3>7. CASE TransitionAllowed(item, "done")
      <4>1. item' = "done" /\ deliveries' = deliveries + 1
        BY <2>4, <3>7 DEF CommitsDelivery
      <4> QED BY <3>3, <3>5, <3>6, <4>1 DEF DeliveryInv
    <3>8. CASE ~TransitionAllowed(item, "done")
      <4>1. item' = item /\ deliveries' = deliveries
        BY <2>4, <3>8 DEF CommitsDelivery
      <4> QED BY <3>3, <3>5, <3>6, <4>1 DEF DeliveryInv
    <3> QED BY <3>7, <3>8
  <2>5. CASE ~ChecksDelivery(c) /\ ~CommitsDelivery(c)
    <3>1. /\ deliveries' = deliveries
          /\ \E record : /\ "pc" \in DOMAIN record /\ record.pc # "commit"
                         /\ call' = [call EXCEPT ![c] = record]
          /\ item = "done" => item' = "done"
      BY <2>1, <2>5, QuietCall
    <3> QED BY <3>1, MovesElsewhere DEF DeliveryInv
  <2> QED BY <2>1, <2>2, <2>3, <2>4, <2>5
<1> QED BY <1>1, <1>2

\* A delivery ends its discovery item for good, and there are no more deliveries
\* than confirmations that overlapped (service.ts, workflow-policy.ts).
THEOREM EndsDiscovery == DiscoverySpec => []DeliveryIsFinal
<1>1. DeliveryInv => DeliveryIsFinal
  <2> SUFFICES ASSUME DeliveryInv PROVE DeliveryIsFinal
    OBVIOUS
  <2>1. Cardinality(Committing) \in Nat /\ Cardinality(Calls) \in Nat
    BY FiniteCalls DEF Committing
  <2> QED BY <2>1 DEF DeliveryInv, DeliveryIsFinal
<1> QED BY <1>1, DeliveryInit, DeliveryKeeps, PTL DEF DiscoverySpec

-----------------------------------------------------------------------------
(* The review rounds of a discovery item                                   *)

Places == {"idle", "list", "insert", "complete", "judge", "supersede", "check", "commit", "write"}
CallRecords == [pc : Places, row : 0 .. MaxRows, round : 0 .. MaxRows, next : ItemStates,
                left : SUBSET (1 .. MaxRows)]
RequestStatuses == {"pending", "approved", "changes_requested", "superseded"}
Requests == [round : Nat, status : RequestStatuses]

\* Rows have a newest round.
HasNewest(rs) == \E i \in DOMAIN rs : \A j \in DOMAIN rs : rs[j].round <= rs[i].round

\* A round is not opened before the earlier ones have a request each.
RoundTypes ==
    /\ item \in ItemStates
    /\ rows \in Seq(Requests) /\ Len(rows) <= MaxRows
    /\ \A i \in DOMAIN rows : rows[i].round \in 1 .. i
    /\ rows # << >> => HasNewest(rows)
    /\ call \in [Calls -> CallRecords]
    /\ \A c \in Calls :
          /\ call[c].pc = "insert" => call[c].round \in 1 .. Len(rows) + 1
          /\ call[c].pc \in {"complete", "judge"} => call[c].row \in DOMAIN rows
          /\ call[c].pc = "supersede" => call[c].left \subseteq DOMAIN rows
    /\ deliveries \in Nat /\ calm \in BOOLEAN /\ late \in BOOLEAN

OfLatest == {i \in DOMAIN rows : rows[i].round = Latest}
Asked == \E i \in OfLatest : rows[i].status = "pending"
Unbroken == \A i \in OfLatest : rows[i].status \in {"pending", "approved"}

\* What a call has made sure of by the time it stands at its place, when no
\* other was under way.
StageInv(rec) ==
    /\ rec.pc \in {"list", "insert"} => item = "in_progress"
    /\ rec.pc = "insert" =>
          /\ rec.left # {}
          /\ \A i \in DOMAIN rows :
                /\ rows[i].round <= rec.round
                /\ rows[i].round = rec.round => rows[i].status = "pending"
    /\ rec.pc \in {"complete", "judge", "supersede"} => item = "waiting_for_review"
    /\ rec.pc = "complete" => Asked /\ Unbroken
    /\ rec.pc \in {"complete", "judge"} /\ ~late => rec.row \in OfLatest
    /\ rec.pc = "judge" =>
          /\ rec.row \notin OfLatest => Asked /\ Unbroken
          /\ \A i \in OfLatest : rows[i].status # "superseded"
    /\ rec.pc = "supersede" => rec.next = "in_progress" /\ rec.left # {}
    /\ rec.pc \in {"check", "commit"} => item # "waiting_for_review"
    /\ rec.pc = "write" =>
          /\ item = "waiting_for_review" => TransitionAllowed(item, rec.next)
          /\ rec.next = "waiting_for_review" => Asked /\ Unbroken
          /\ rec.next = "waiting_for_pm_confirmation" /\ ~late =>
                \A i \in OfLatest : rows[i].status = "approved"

AllIdle == \A c \in Calls : call[c].pc = "idle"

\* As long as the calls came one after the other
CalmInv ==
    calm =>
      /\ \A c, d \in Calls : call[c].pc # "idle" /\ call[d].pc # "idle" => c = d
      /\ \A c \in Calls : StageInv(call[c])
      /\ AllIdle /\ item = "waiting_for_review" => Asked /\ Unbroken

ReviewInv == RoundTypes /\ CalmInv


\* The latest round of rows, as Latest has it.
NewestOf(rs) == IF rs = << >> THEN 0
                ELSE CHOOSE n \in {rs[i].round : i \in DOMAIN rs} :
                       \A i \in DOMAIN rs : rs[i].round <= n

LEMMA LatestIsNewest == Latest = NewestOf(rows) /\ Latest' = NewestOf(rows')
  BY DEF Latest, NewestOf

LEMMA RequestRound ==
    ASSUME NEW rs \in Seq(Requests)
    PROVE  \A i \in DOMAIN rs : rs[i] \in Requests /\ rs[i].round \in Nat
<1>1. \A i \in DOMAIN rs : rs[i] \in Requests
  OBVIOUS
<1> QED BY <1>1 DEF Requests

LEMMA NewestIs ==
    ASSUME NEW rs \in Seq(Requests), rs # << >> => HasNewest(rs)
    PROVE  /\ NewestOf(rs) \in Nat
           /\ \A i \in DOMAIN rs : rs[i].round <= NewestOf(rs)
           /\ rs # << >> => \E i \in DOMAIN rs : rs[i].round = NewestOf(rs)
<1>1. CASE rs = << >>
  BY <1>1 DEF NewestOf
<1>2. CASE rs # << >>
  <2> DEFINE rounds == {rs[i].round : i \in DOMAIN rs}
  <2>1. \E n \in rounds : \A i \in DOMAIN rs : rs[i].round <= n
    BY <1>2 DEF HasNewest
  <2>2. NewestOf(rs) = CHOOSE n \in rounds : \A i \in DOMAIN rs : rs[i].round <= n
    BY <1>2 DEF NewestOf
  <2>3. NewestOf(rs) \in rounds /\ \A i \in DOMAIN rs : rs[i].round <= NewestOf(rs)
    BY <2>1, <2>2
  <2>4. \A i \in DOMAIN rs : rs[i] \in Requests /\ rs[i].round \in Nat
    BY RequestRound
  <2> QED BY <2>3, <2>4
<1> QED BY <1>1, <1>2

LEMMA NewestEquals ==
    ASSUME NEW rs \in Seq(Requests), NEW n \in Nat, NEW k \in DOMAIN rs, rs[k].round = n,
           \A i \in DOMAIN rs : rs[i].round <= n
    PROVE  NewestOf(rs) = n
<1>1. HasNewest(rs)
  BY DEF HasNewest
<1>2. \A i \in DOMAIN rs : rs[i].round \in Nat
  BY RequestRound
<1>3. rs # << >>
  OBVIOUS
<1> QED BY <1>1, <1>2, <1>3, NewestIs

WithStatus(rs, k, s) == [rs EXCEPT ![k].status = s]
WithRow(rs, n) == Append(rs, [round |-> n, status |-> "pending"])

\* An answer or a withdrawal changes the status of one row ...
LEMMA StatusChanges ==
    ASSUME NEW rs \in Seq(Requests), NEW k \in DOMAIN rs, NEW s \in RequestStatuses, rs # << >> => HasNewest(rs)
    PROVE  /\ WithStatus(rs, k, s) \in Seq(Requests) /\ Len(WithStatus(rs, k, s)) = Len(rs) /\ DOMAIN WithStatus(rs, k, s) = DOMAIN rs
           /\ \A i \in DOMAIN rs : WithStatus(rs, k, s)[i].round = rs[i].round
           /\ \A i \in DOMAIN rs : WithStatus(rs, k, s)[i].status = IF i = k THEN s ELSE rs[i].status
           /\ HasNewest(WithStatus(rs, k, s)) /\ NewestOf(WithStatus(rs, k, s)) = NewestOf(rs)
<1> DEFINE ns == WithStatus(rs, k, s)
<1>0. \A i \in DOMAIN rs : rs[i] \in Requests
  OBVIOUS
<1>1. [rs[k] EXCEPT !.status = s] \in Requests
  BY <1>0 DEF Requests
<1>2. ns = [rs EXCEPT ![k] = [rs[k] EXCEPT !.status = s]]
  BY DEF WithStatus
<1> HIDE DEF ns
<1>3. ns \in Seq(Requests) /\ Len(ns) = Len(rs) /\ DOMAIN ns = DOMAIN rs
  BY <1>1, <1>2
<1>4. \A i \in DOMAIN rs : ns[i] = IF i = k THEN [rs[k] EXCEPT !.status = s] ELSE rs[i]
  BY <1>2
<1>5. /\ \A i \in DOMAIN rs : ns[i].round = rs[i].round
      /\ \A i \in DOMAIN rs : ns[i].status = IF i = k THEN s ELSE rs[i].status
  BY <1>0, <1>4 DEF Requests
<1>6. rs # << >>
  OBVIOUS
<1>7. HasNewest(ns)
  BY <1>3, <1>5, <1>6 DEF HasNewest
<1>8. /\ NewestOf(rs) \in Nat
      /\ \A i \in DOMAIN rs : rs[i].round <= NewestOf(rs)
      /\ \E i \in DOMAIN rs : rs[i].round = NewestOf(rs)
  BY <1>6, NewestIs
<1>9. PICK m \in DOMAIN rs : rs[m].round = NewestOf(rs)
  BY <1>8
<1>10. NewestOf(ns) = NewestOf(rs)
  BY <1>3, <1>5, <1>8, <1>9, NewestEquals
<1> QED BY <1>3, <1>5, <1>7, <1>10 DEF ns

\* ... and a request of a round that is not older than the others is the latest.
LEMMA RowAdded ==
    ASSUME NEW rs \in Seq(Requests), NEW n \in Nat, rs # << >> => HasNewest(rs)
    PROVE  /\ WithRow(rs, n) \in Seq(Requests) /\ Len(WithRow(rs, n)) = Len(rs) + 1 /\ HasNewest(WithRow(rs, n))
           /\ DOMAIN WithRow(rs, n) = 1 .. Len(rs) + 1
           /\ \A i \in DOMAIN rs : WithRow(rs, n)[i] = rs[i]
           /\ WithRow(rs, n)[Len(rs) + 1] = [round |-> n, status |-> "pending"]
           /\ (\A i \in DOMAIN rs : rs[i].round <= n) => NewestOf(WithRow(rs, n)) = n
<1> DEFINE ns == WithRow(rs, n)
<1>0. [round |-> n, status |-> "pending"] \in Requests
  BY DEF Requests, RequestStatuses
<1>1. /\ ns \in Seq(Requests) /\ Len(ns) = Len(rs) + 1
      /\ DOMAIN ns = 1 .. Len(rs) + 1 /\ DOMAIN rs = 1 .. Len(rs) /\ Len(rs) \in Nat
      /\ \A i \in DOMAIN rs : ns[i] = rs[i]
      /\ ns[Len(rs) + 1] = [round |-> n, status |-> "pending"]
  BY <1>0 DEF WithRow
<1> HIDE DEF ns
<1>2. ns[Len(rs) + 1].round = n
  BY <1>1
<1>3. \A i \in DOMAIN rs : rs[i].round \in Nat
  BY RequestRound
<1>4. HasNewest(ns)
  <2>1. CASE rs = << >>
    BY <2>1, <1>1, <1>2 DEF HasNewest
  <2>2. CASE rs # << >>
    <3>1. PICK m \in DOMAIN rs : \A j \in DOMAIN rs : rs[j].round <= rs[m].round
      BY <2>2 DEF HasNewest
    <3>2. CASE n <= rs[m].round
      <4>1. m \in DOMAIN ns /\ \A j \in DOMAIN ns : ns[j].round <= ns[m].round
        BY <1>1, <1>2, <3>1, <3>2
      <4> QED BY <4>1 DEF HasNewest
    <3>3. CASE ~(n <= rs[m].round)
      <4>1. \A j \in DOMAIN rs : rs[j].round <= n
        BY <1>3, <3>1, <3>3
      <4>2. \A j \in DOMAIN ns : ns[j].round <= n
        BY <1>1, <1>2, <4>1
      <4>3. Len(rs) + 1 \in DOMAIN ns
        BY <1>1
      <4> QED BY <1>2, <4>2, <4>3 DEF HasNewest
    <3> QED BY <3>2, <3>3
  <2> QED BY <2>1, <2>2
<1>5. (\A i \in DOMAIN rs : rs[i].round <= n) => NewestOf(ns) = n
  <2> SUFFICES ASSUME \A i \in DOMAIN rs : rs[i].round <= n PROVE NewestOf(ns) = n
    OBVIOUS
  <2>1. \A j \in DOMAIN ns : ns[j].round <= n
    BY <1>1, <1>2
  <2>2. Len(rs) + 1 \in DOMAIN ns
    BY <1>1
  <2> QED BY <1>1, <1>2, <2>1, <2>2, NewestEquals
<1> QED BY <1>1, <1>4, <1>5 DEF ns


LEMMA RoundLimits == MaxRows \in Nat /\ MaxAsked \in Nat
  BY DiscoveryAssumption

LEMMA LatestType ==
    ASSUME RoundTypes
    PROVE  /\ Latest \in 0 .. Len(rows) /\ Len(rows) \in Nat /\ DOMAIN rows = 1 .. Len(rows)
           /\ \A i \in DOMAIN rows : rows[i] \in Requests /\ rows[i].round \in Nat
                                       /\ rows[i].round <= Latest
           /\ rows # << >> => OfLatest # {}
<1>1. /\ rows \in Seq(Requests) /\ (rows # << >> => HasNewest(rows))
      /\ \A i \in DOMAIN rows : rows[i].round \in 1 .. i
  BY DEF RoundTypes
<1>2. Len(rows) \in Nat /\ DOMAIN rows = 1 .. Len(rows)
  BY <1>1
<1>3. /\ Latest \in Nat
      /\ \A i \in DOMAIN rows : rows[i].round <= Latest
      /\ rows # << >> => \E i \in DOMAIN rows : rows[i].round = Latest
  BY <1>1, NewestIs, LatestIsNewest
<1>4. Latest <= Len(rows)
  <2>1. CASE rows = << >>
    BY <2>1, <1>2 DEF Latest
  <2>2. CASE rows # << >>
    <3>1. PICK i \in DOMAIN rows : rows[i].round = Latest
      BY <1>3, <2>2
    <3>2. rows[i].round \in 1 .. i /\ i \in 1 .. Len(rows)
      BY <1>1, <1>2
    <3> QED BY <1>2, <3>1, <3>2
  <2> QED BY <2>1, <2>2
<1>5. rows # << >> => OfLatest # {}
  BY <1>3 DEF OfLatest
<1> QED BY <1>1, <1>2, <1>3, <1>4, <1>5, RequestRound

\* What a step of call c to rec may do with the rows.
RowsMove(c, rec) ==
    \/ UNCHANGED rows
    \/ /\ call[c].pc = "insert"
       /\ rows' = Append(rows, [round |-> call[c].round, status |-> "pending"])
       /\ Len(rows) < MaxRows
    \/ \E k \in DOMAIN rows, s \in RequestStatuses : rows' = WithStatus(rows, k, s)

\* What the types ask of a call.
CallWithin(rec, length) ==
    /\ rec \in CallRecords
    /\ rec.pc = "insert" => rec.round \in 1 .. length + 1
    /\ rec.pc \in {"complete", "judge"} => rec.row \in 1 .. length
    /\ rec.pc = "supersede" => rec.left \subseteq 1 .. length

LEMMA RowsTyped ==
    ASSUME RoundTypes, NEW c \in Calls, NEW rec, RowsMove(c, rec)
    PROVE  /\ rows' \in Seq(Requests) /\ Len(rows') <= MaxRows
           /\ Len(rows') \in Nat /\ Len(rows) \in Nat /\ Len(rows) <= Len(rows')
           /\ DOMAIN rows' = 1 .. Len(rows')
           /\ \A i \in DOMAIN rows' : rows'[i].round \in 1 .. i
           /\ rows' # << >> => HasNewest(rows')
<1>1. /\ rows \in Seq(Requests) /\ Len(rows) <= MaxRows
      /\ \A i \in DOMAIN rows : rows[i].round \in 1 .. i
      /\ rows # << >> => HasNewest(rows)
  BY DEF RoundTypes
<1>0. rows \in Seq(Requests)
  BY <1>1
<1>9. rows # << >> => HasNewest(rows)
  BY <1>1
<1>2. Len(rows) \in Nat /\ DOMAIN rows = 1 .. Len(rows)
  BY <1>1
<1>3. CASE UNCHANGED rows
  BY <1>1, <1>2, <1>3
<1>4. CASE /\ call[c].pc = "insert"
           /\ rows' = Append(rows, [round |-> call[c].round, status |-> "pending"])
           /\ Len(rows) < MaxRows
  <2>1. call[c].round \in 1 .. Len(rows) + 1
    BY <1>4 DEF RoundTypes
  <2>2. call[c].round \in Nat
    BY <1>2, <2>1
  <2>6. rows' = WithRow(rows, call[c].round)
    BY <1>4 DEF WithRow
  <2>3. /\ rows' \in Seq(Requests) /\ Len(rows') = Len(rows) + 1 /\ HasNewest(rows')
        /\ DOMAIN rows' = 1 .. Len(rows) + 1
        /\ \A i \in DOMAIN rows : rows'[i] = rows[i]
        /\ rows'[Len(rows) + 1] = [round |-> call[c].round, status |-> "pending"]
    BY <1>0, <1>9, <2>2, <2>6, RowAdded
  <2>4. rows'[Len(rows) + 1].round \in 1 .. Len(rows) + 1
    BY <2>1, <2>3
  <2>5. \A i \in DOMAIN rows' : rows'[i].round \in 1 .. i
    BY <1>1, <1>2, <2>3, <2>4
  <2> QED BY <1>2, <1>4, <2>3, <2>5, RoundLimits
<1>5. CASE \E k \in DOMAIN rows, s \in RequestStatuses : rows' = WithStatus(rows, k, s)
  <2>1. PICK k \in DOMAIN rows, s \in RequestStatuses : rows' = WithStatus(rows, k, s)
    BY <1>5
  <2>2. /\ rows' \in Seq(Requests) /\ Len(rows') = Len(rows) /\ DOMAIN rows' = DOMAIN rows
        /\ \A i \in DOMAIN rows : rows'[i].round = rows[i].round
        /\ HasNewest(rows')
    BY <1>0, <1>9, <2>1, StatusChanges
  <2> QED BY <1>1, <1>2, <2>2
<1> QED BY <1>3, <1>4, <1>5 DEF RowsMove

\* One call moves, and the rest follows.
LEMMA RoundStep ==
    ASSUME RoundTypes, NEW c \in Calls, NEW rec, RowsMove(c, rec),
           call' = [call EXCEPT ![c] = rec], CallWithin(rec, Len(rows')),
           item' \in ItemStates, deliveries' \in Nat, calm' \in BOOLEAN, late' \in BOOLEAN
    PROVE  RoundTypes'
<1>1. /\ rows' \in Seq(Requests) /\ Len(rows') <= MaxRows
      /\ Len(rows') \in Nat /\ Len(rows) \in Nat /\ Len(rows) <= Len(rows')
      /\ DOMAIN rows' = 1 .. Len(rows')
      /\ \A i \in DOMAIN rows' : rows'[i].round \in 1 .. i
      /\ rows' # << >> => HasNewest(rows')
  BY RowsTyped
<1>2. rec \in CallRecords /\ call \in [Calls -> CallRecords] /\ DOMAIN rows = 1 .. Len(rows)
  BY LatestType DEF CallWithin, RoundTypes
<1>3. call' \in [Calls -> CallRecords] /\ call'[c] = rec
      /\ \A d \in Calls \ {c} : call'[d] = call[d]
  BY <1>2
<1>4. ASSUME NEW d \in Calls
      PROVE  /\ call'[d].pc = "insert" => call'[d].round \in 1 .. Len(rows') + 1
             /\ call'[d].pc \in {"complete", "judge"} => call'[d].row \in DOMAIN rows'
             /\ call'[d].pc = "supersede" => call'[d].left \subseteq DOMAIN rows'
  <2>1. CASE d = c
    BY <1>1, <1>3, <2>1 DEF CallWithin
  <2>2. CASE d # c
    <3>1. /\ call[d].pc = "insert" => call[d].round \in 1 .. Len(rows) + 1
          /\ call[d].pc \in {"complete", "judge"} => call[d].row \in DOMAIN rows
          /\ call[d].pc = "supersede" => call[d].left \subseteq DOMAIN rows
      BY DEF RoundTypes
    <3>2. 1 .. Len(rows) + 1 \subseteq 1 .. Len(rows') + 1 /\ DOMAIN rows \subseteq DOMAIN rows'
      BY <1>1, <1>2
    <3> QED BY <1>3, <2>2, <3>1, <3>2
  <2> QED BY <2>1, <2>2
<1>5. /\ item' \in ItemStates /\ deliveries' \in Nat /\ calm' \in BOOLEAN /\ late' \in BOOLEAN
  OBVIOUS
<1> QED BY <1>1, <1>3, <1>4, <1>5 DEF RoundTypes


LEMMA RoundInit == DiscoveryInit => ReviewInv
<1> SUFFICES ASSUME DiscoveryInit PROVE ReviewInv
  OBVIOUS
<1> USE DEF DiscoveryInit
<1>1. NoCall \in CallRecords
  BY RoundLimits DEF NoCall, CallRecords, Places, ItemStates
<1>2. rows \in Seq(Requests) /\ Len(rows) = 0 /\ DOMAIN rows = {}
  OBVIOUS
<1>3. call \in [Calls -> CallRecords] /\ \A c \in Calls : call[c].pc = "idle"
  BY <1>1 DEF NoCall
<1>6. Len(rows) <= MaxRows
  BY <1>2, RoundLimits
<1>7. item \in ItemStates /\ deliveries \in Nat /\ calm \in BOOLEAN /\ late \in BOOLEAN
  BY DEF ItemStates
<1>8. rows = << >>
  OBVIOUS
<1>9. \A c \in Calls : call[c].pc \notin {"insert", "complete", "judge", "supersede"}
  BY <1>3
<1>4. RoundTypes
  BY <1>2, <1>3, <1>6, <1>7, <1>8, <1>9 DEF RoundTypes
<1>5. CalmInv
  BY <1>3 DEF CalmInv, StageInv
<1> QED BY <1>4, <1>5 DEF ReviewInv

\* The records that calls step to
LEMMA RecordsStep ==
    ASSUME RoundTypes
    PROVE  /\ \A c \in Calls : call[c] \in CallRecords
           /\ NoCall \in CallRecords /\ NoCall.pc = "idle"
<1>1. \A c \in Calls : call[c] \in CallRecords
  BY DEF RoundTypes
<1>2. NoCall \in CallRecords /\ NoCall.pc = "idle"
  BY RoundLimits DEF NoCall, CallRecords, Places, ItemStates
<1> QED BY <1>1, <1>2

\* A call that begins, moves or returns leaves the calls calm only if it is alone.
Turns(c, rec) ==
    /\ call' = [call EXCEPT ![c] = rec]
    /\ calm' \in BOOLEAN
    /\ calm' => calm /\ (call[c].pc # "idle" \/ AllIdle)

LEMMA CallTurns ==
    ASSUME RoundTypes, NEW c \in Calls, NEW rec
    PROVE  /\ CallBegins(c, rec) => Turns(c, rec)
           /\ CallMoves(c, rec) /\ call[c].pc # "idle" => Turns(c, rec)
<1>1. calm \in BOOLEAN
  BY DEF RoundTypes
<1>2. CallBegins(c, rec) => Turns(c, rec)
  BY <1>1 DEF CallBegins, Turns, AllIdle
<1>3. CallMoves(c, rec) /\ call[c].pc # "idle" => Turns(c, rec)
  BY <1>1 DEF CallMoves, Turns
<1> QED BY <1>2, <1>3

LEMMA CalmStep ==
    ASSUME RoundTypes, CalmInv, NEW c \in Calls, NEW rec \in CallRecords, Turns(c, rec),
           calm' => StageInv(rec)',
           calm' /\ rec.pc = "idle" /\ item' = "waiting_for_review" => Asked' /\ Unbroken'
    PROVE  CalmInv'
<1> SUFFICES ASSUME calm' PROVE CalmInv'
  BY DEF CalmInv
<1>1. calm /\ (call[c].pc # "idle" \/ AllIdle)
  BY DEF Turns
<1>2. \A d \in Calls : d # c => call[d].pc = "idle"
  BY <1>1 DEF CalmInv, AllIdle
<1>3. call' \in [Calls -> CallRecords] /\ call'[c] = rec
      /\ \A d \in Calls : d # c => call'[d] = call[d]
  BY DEF Turns, RoundTypes
<1>4. \A d \in Calls : d # c => call'[d].pc = "idle"
  BY <1>2, <1>3
<1>5. ASSUME NEW d \in Calls PROVE StageInv(call[d])'
  <2>1. CASE d = c
    BY <1>3, <2>1 DEF StageInv
  <2>2. CASE d # c
    <3>1. call'[d].pc = "idle"
      BY <1>4, <2>2
    <3> QED BY <3>1 DEF StageInv
  <2> QED BY <2>1, <2>2
<1>6. AllIdle' /\ item' = "waiting_for_review" => Asked' /\ Unbroken'
  BY <1>3 DEF AllIdle
<1>7. \A d, e \in Calls : call'[d].pc # "idle" /\ call'[e].pc # "idle" => d = e
  BY <1>4
<1> QED BY <1>5, <1>6, <1>7 DEF CalmInv

-----------------------------------------------------------------------------
(* The steps of the review rounds                                          *)

\* What a step that leaves the rows alone keeps.
LEMMA SameRows ==
    ASSUME rows' = rows
    PROVE  /\ OfLatest' = OfLatest /\ Latest' = Latest
           /\ Asked' = Asked /\ Unbroken' = Unbroken /\ DOMAIN rows' = DOMAIN rows
  BY DEF OfLatest, Latest, Asked, Unbroken

LEMMA BeginsReview ==
    ASSUME ReviewInv, NEW c \in Calls, RequestsReview(c) \/ Approves(c) PROVE ReviewInv'
<1>0. RoundTypes /\ CalmInv
  BY DEF ReviewInv
<1>1. PICK p \in {"list", "check"} :
        /\ p = "list" => item = "in_progress"
        /\ p = "check" => item = "waiting_for_pm_confirmation"
        /\ CallBegins(c, [NoCall EXCEPT !.pc = p])
        /\ UNCHANGED <<item, rows, deliveries, late>>
  BY DEF RequestsReview, Approves
<1>2. PICK r \in CallRecords : r = [NoCall EXCEPT !.pc = p] /\ r.pc = p
  <2>1. p \in Places /\ "backlog" \in ItemStates
    BY DEF Places, ItemStates
  <2>2. [NoCall EXCEPT !.pc = p] \in CallRecords /\ [NoCall EXCEPT !.pc = p].pc = p
    <3>1. \A x \in CallRecords : [x EXCEPT !.pc = p] \in CallRecords /\ [x EXCEPT !.pc = p].pc = p
      BY <2>1 DEF CallRecords
    <3> QED BY <1>0, <3>1, RecordsStep, Zenon
  <2> QED BY <2>2
<1>3. Turns(c, r)
  BY <1>0, <1>1, <1>2, CallTurns
<1>4. CallWithin(r, Len(rows'))
  BY <1>1, <1>2 DEF CallWithin
<1>5. RoundTypes'
  BY <1>0, <1>1, <1>3, <1>4, RoundStep DEF RowsMove, Turns, RoundTypes
<1>6. StageInv(r)'
  BY <1>1, <1>2 DEF StageInv
<1>7. CalmInv'
  BY <1>0, <1>1, <1>2, <1>3, <1>6, CalmStep
<1> QED BY <1>5, <1>7 DEF ReviewInv

LEMMA BeginsWrite ==
    ASSUME ReviewInv, NEW c \in Calls,
           Rejects(c) \/ \E state \in ItemStates : Overrides(c, state)
    PROVE  ReviewInv'
<1>0. RoundTypes /\ CalmInv
  BY DEF ReviewInv
<1>1. PICK state \in ItemStates :
        /\ call' = [call EXCEPT ![c] = [NoCall EXCEPT !.pc = "write", !.next = state]]
        /\ calm' \in BOOLEAN /\ (calm' => calm /\ AllIdle)
        /\ calm' => state \notin {"waiting_for_review", "waiting_for_pm_confirmation"}
        /\ item = "waiting_for_review" => TransitionAllowed(item, state)
        /\ UNCHANGED <<item, rows, deliveries, late>>
  <2>0. calm \in BOOLEAN
    BY <1>0 DEF RoundTypes
  <2>1. CASE Rejects(c)
    <3>1. "in_progress" \in ItemStates
      BY DEF ItemStates
    <3>2. /\ calm' \in BOOLEAN /\ (calm' => calm /\ AllIdle)
          /\ item # "waiting_for_review" /\ UNCHANGED <<item, rows, deliveries, late>>
      BY <2>0, <2>1 DEF Rejects, CallBegins, AllIdle
    <3>3. call' = [call EXCEPT ![c] = [NoCall EXCEPT !.pc = "write", !.next = "in_progress"]]
      BY <2>1, Zenon DEF Rejects, CallBegins
    <3>4. "in_progress" \notin {"waiting_for_review", "waiting_for_pm_confirmation"}
      OBVIOUS
    <3> QED BY <3>1, <3>2, <3>3, <3>4, Zenon
  <2>2. CASE \E state \in ItemStates : Overrides(c, state)
    <3>1. PICK state \in ItemStates : Overrides(c, state)
      BY <2>2
    <3>2. /\ calm' \in BOOLEAN /\ (calm' => calm /\ AllIdle)
          /\ calm' => state \notin {"waiting_for_review", "waiting_for_pm_confirmation"}
          /\ TransitionAllowed(item, state) /\ UNCHANGED <<item, rows, deliveries, late>>
      <4>1. /\ calm' = (/\ calm /\ \A d \in Calls : call[d].pc = "idle"
                        /\ state \notin {"waiting_for_review", "waiting_for_pm_confirmation"})
            /\ TransitionAllowed(item, state) /\ UNCHANGED <<item, rows, deliveries, late>>
        BY <3>1, Zenon DEF Overrides
      <4> QED BY <2>0, <4>1 DEF AllIdle
    <3>3. call' = [call EXCEPT ![c] = [NoCall EXCEPT !.pc = "write", !.next = state]]
      BY <3>1, Zenon DEF Overrides
    <3> QED BY <3>2, <3>3, Zenon
  <2> QED BY <2>1, <2>2, Zenon
<1>2. PICK r \in CallRecords :
        r = [NoCall EXCEPT !.pc = "write", !.next = state] /\ r.pc = "write" /\ r.next = state
  <2>1. "write" \in Places
    BY DEF Places
  <2>2. NoCall \in CallRecords
    BY <1>0, RecordsStep
  <2>3. \A x \in CallRecords :
          /\ [x EXCEPT !.pc = "write", !.next = state] \in CallRecords
          /\ [x EXCEPT !.pc = "write", !.next = state].pc = "write"
          /\ [x EXCEPT !.pc = "write", !.next = state].next = state
    BY <2>1 DEF CallRecords
  <2> QED BY <2>2, <2>3, Zenon
<1>3. Turns(c, r)
  BY <1>1, <1>2 DEF Turns
<1>4. CallWithin(r, Len(rows'))
  BY <1>1, <1>2 DEF CallWithin
<1>5. RoundTypes'
  BY <1>0, <1>1, <1>3, <1>4, RoundStep DEF RowsMove, Turns, RoundTypes
<1>6. calm' => StageInv(r)'
  BY <1>1, <1>2, SameRows DEF StageInv, TransitionAllowed
<1>7. CalmInv'
  BY <1>0, <1>1, <1>2, <1>3, <1>6, CalmStep
<1> QED BY <1>5, <1>7 DEF ReviewInv

LEMMA ListsRoundsKeeps == ASSUME ReviewInv, NEW c \in Calls, ListsRounds(c) PROVE ReviewInv'
<1>0. RoundTypes /\ CalmInv /\ call[c].pc = "list" /\ call[c] \in CallRecords
  BY RecordsStep DEF ReviewInv, ListsRounds
<1>1. PICK asked \in 1 .. MaxAsked :
        /\ Len(rows) + asked <= MaxRows
        /\ CallMoves(c, [call[c] EXCEPT !.pc = "insert", !.round = Latest + 1,
                                         !.left = 1 .. asked])
  BY Zenon DEF ListsRounds
<1>2. UNCHANGED <<item, rows, deliveries, late>>
  BY DEF ListsRounds
<1>3. /\ Latest \in 0 .. Len(rows) /\ Len(rows) \in Nat
      /\ \A i \in DOMAIN rows : rows[i].round \in Nat /\ rows[i].round <= Latest
  BY <1>0, LatestType
<1> DEFINE n == Latest + 1
           left == 1 .. asked
<1>4. n \in 0 .. MaxRows /\ n \in 1 .. Len(rows) + 1 /\ left \in SUBSET (1 .. MaxRows) /\ 1 \in left
  BY <1>1, <1>3, RoundLimits
<1>5. \A i \in DOMAIN rows : rows[i].round <= n /\ rows[i].round # n
  BY <1>3
<1>6. CallMoves(c, [call[c] EXCEPT !.pc = "insert", !.round = n, !.left = left])
  BY <1>1
<1> HIDE DEF n, left
<1>7. PICK r \in CallRecords :
        /\ r = [call[c] EXCEPT !.pc = "insert", !.round = n, !.left = left]
        /\ r.pc = "insert" /\ r.round = n /\ r.left = left
  <2>1. "insert" \in Places
    BY DEF Places
  <2>2. \A x \in CallRecords :
          /\ [x EXCEPT !.pc = "insert", !.round = n, !.left = left] \in CallRecords
          /\ [x EXCEPT !.pc = "insert", !.round = n, !.left = left].pc = "insert"
          /\ [x EXCEPT !.pc = "insert", !.round = n, !.left = left].round = n
          /\ [x EXCEPT !.pc = "insert", !.round = n, !.left = left].left = left
    BY <1>4, <2>1 DEF CallRecords
  <2> QED BY <1>0, <2>2, Zenon
<1>8. Turns(c, r)
  BY <1>0, <1>6, <1>7, CallTurns
<1>9. CallWithin(r, Len(rows'))
  BY <1>2, <1>4, <1>7 DEF CallWithin
<1>10. RoundTypes'
  BY <1>0, <1>2, <1>8, <1>9, RoundStep DEF RowsMove, Turns, RoundTypes
<1>11. calm' => StageInv(r)'
  <2>1. calm' => item = "in_progress"
    BY <1>0, <1>8 DEF Turns, CalmInv, StageInv
  <2> QED BY <1>2, <1>4, <1>5, <1>7, <2>1 DEF StageInv
<1>12. CalmInv'
  BY <1>0, <1>7, <1>8, <1>11, CalmStep
<1> QED BY <1>10, <1>12 DEF ReviewInv

LEMMA InsertsRowKeeps == ASSUME ReviewInv, NEW c \in Calls, InsertsRow(c) PROVE ReviewInv'
<1>0. RoundTypes /\ CalmInv /\ call[c].pc = "insert" /\ call[c] \in CallRecords
  BY RecordsStep DEF ReviewInv, InsertsRow
<1>1. /\ Len(rows) < MaxRows
      /\ rows' = WithRow(rows, call[c].round)
      /\ UNCHANGED <<item, deliveries, late>>
  BY DEF InsertsRow, WithRow
<1>2. PICK i \in call[c].left :
        CallMoves(c, IF call[c].left = {i}
                       THEN [NoCall EXCEPT !.pc = "write", !.next = "waiting_for_review"]
                       ELSE [call[c] EXCEPT !.left = @ \ {i}])
  BY Zenon DEF InsertsRow
<1> DEFINE n == call[c].round
<1>3. n \in 1 .. Len(rows) + 1 /\ n \in Nat /\ Len(rows) \in Nat
  BY <1>0, LatestType DEF RoundTypes
<1>4. rows \in Seq(Requests) /\ (rows # << >> => HasNewest(rows))
  BY <1>0 DEF RoundTypes
<1> HIDE DEF n
<1>5. rows' = WithRow(rows, n)
  BY <1>1 DEF n
<1>6. /\ Len(rows') = Len(rows) + 1 /\ DOMAIN rows' = 1 .. Len(rows) + 1
      /\ DOMAIN rows = 1 .. Len(rows)
      /\ \A j \in DOMAIN rows : rows'[j] = rows[j]
      /\ rows'[Len(rows) + 1] = [round |-> n, status |-> "pending"]
      /\ (\A j \in DOMAIN rows : rows[j].round <= n) => NewestOf(rows') = n
  BY <1>3, <1>4, <1>5, RowAdded
<1>8. calm => /\ item = "in_progress"
              /\ \A j \in DOMAIN rows : rows[j].round <= n
                                         /\ (rows[j].round = n => rows[j].status = "pending")
  BY <1>0 DEF CalmInv, StageInv, n
<1>9. \A j \in DOMAIN rows' : j \in DOMAIN rows \/ j = Len(rows) + 1
  BY <1>3, <1>6
<1>10. Len(rows) + 1 \in DOMAIN rows'
  BY <1>3, <1>6
<1>11. /\ rows'[Len(rows) + 1].round = n /\ rows'[Len(rows) + 1].status = "pending"
  BY <1>6
<1>12. calm => \A j \in DOMAIN rows' :
          rows'[j].round <= n /\ (rows'[j].round = n => rows'[j].status = "pending")
  BY <1>3, <1>6, <1>8, <1>9, <1>11
<1>13. calm => Asked' /\ Unbroken'
  <2> SUFFICES ASSUME calm PROVE Asked' /\ Unbroken'
    OBVIOUS
  <2>1. Latest' = n
    BY <1>6, <1>8, LatestIsNewest
  <2>2. Asked'
    BY <1>10, <1>11, <2>1 DEF Asked, OfLatest
  <2>3. Unbroken'
    BY <1>12, <2>1 DEF Unbroken, OfLatest
  <2> QED BY <2>2, <2>3
<1>14. CASE call[c].left = {i}
  <2>1. CallMoves(c, [NoCall EXCEPT !.pc = "write", !.next = "waiting_for_review"])
    BY <1>2, <1>14, Zenon
  <2>2. PICK r \in CallRecords :
          /\ r = [NoCall EXCEPT !.pc = "write", !.next = "waiting_for_review"]
          /\ r.pc = "write" /\ r.next = "waiting_for_review"
    <3>1. "write" \in Places /\ "waiting_for_review" \in ItemStates
      BY DEF Places, ItemStates
    <3>2. \A x \in CallRecords :
            /\ [x EXCEPT !.pc = "write", !.next = "waiting_for_review"] \in CallRecords
            /\ [x EXCEPT !.pc = "write", !.next = "waiting_for_review"].pc = "write"
            /\ [x EXCEPT !.pc = "write", !.next = "waiting_for_review"].next = "waiting_for_review"
      BY <3>1 DEF CallRecords
    <3> QED BY <1>0, <3>2, RecordsStep, Zenon
  <2>3. Turns(c, r)
    BY <1>0, <2>1, <2>2, CallTurns
  <2>4. CallWithin(r, Len(rows'))
    BY <2>2 DEF CallWithin
  <2>5. RoundTypes'
    BY <1>0, <1>1, <2>3, <2>4, RoundStep DEF RowsMove, WithRow, Turns, RoundTypes
  <2>6. calm' => StageInv(r)'
    BY <1>1, <1>8, <1>13, <2>2, <2>3 DEF StageInv, Turns
  <2>7. CalmInv'
    BY <1>0, <2>2, <2>3, <2>6, CalmStep
  <2> QED BY <2>5, <2>7 DEF ReviewInv
<1>15. CASE call[c].left # {i}
  <2>1. CallMoves(c, [call[c] EXCEPT !.left = call[c].left \ {i}])
    BY <1>2, <1>15, Zenon
  <2> DEFINE left == call[c].left \ {i}
  <2>2. left # {} /\ left \in SUBSET (1 .. MaxRows)
    BY <1>0, <1>15 DEF CallRecords
  <2> HIDE DEF left
  <2>3. PICK r \in CallRecords :
          /\ r = [call[c] EXCEPT !.left = left]
          /\ r.pc = "insert" /\ r.round = n /\ r.left = left
    <3>1. \A x \in CallRecords :
            /\ [x EXCEPT !.left = left] \in CallRecords
            /\ [x EXCEPT !.left = left].pc = x.pc
            /\ [x EXCEPT !.left = left].round = x.round
            /\ [x EXCEPT !.left = left].left = left
      BY <2>2 DEF CallRecords
    <3>2. /\ [call[c] EXCEPT !.left = left] \in CallRecords
          /\ [call[c] EXCEPT !.left = left].pc = "insert"
          /\ [call[c] EXCEPT !.left = left].round = n
          /\ [call[c] EXCEPT !.left = left].left = left
      BY <1>0, <3>1 DEF n
    <3> QED BY <3>2, Zenon
  <2>4. Turns(c, r)
    BY <1>0, <2>1, <2>3, CallTurns DEF left
  <2>5. CallWithin(r, Len(rows'))
    BY <1>3, <1>6, <2>3 DEF CallWithin
  <2>6. RoundTypes'
    BY <1>0, <1>1, <2>4, <2>5, RoundStep DEF RowsMove, WithRow, Turns, RoundTypes
  <2>7. calm' => StageInv(r)'
    BY <1>1, <1>8, <1>12, <2>2, <2>3, <2>4 DEF StageInv, Turns
  <2>8. CalmInv'
    BY <1>0, <2>3, <2>4, <2>7, CalmStep
  <2> QED BY <2>6, <2>8 DEF ReviewInv
<1> QED BY <1>14, <1>15


LEMMA RecordsOutcomeKeeps ==
    ASSUME ReviewInv, NEW c \in Calls, NEW i \in DOMAIN rows, RecordsOutcome(c, i) PROVE ReviewInv'
<1>0. RoundTypes /\ CalmInv /\ item = "waiting_for_review"
  BY DEF ReviewInv, RecordsOutcome
<1>1. /\ CallBegins(c, [NoCall EXCEPT !.pc = "complete", !.row = i])
      /\ late' = (late \/ rows[i].round # Latest)
      /\ UNCHANGED <<item, rows, deliveries>>
  BY Zenon DEF RecordsOutcome
<1>2. i \in 1 .. Len(rows) /\ i \in 0 .. MaxRows
  BY <1>0, LatestType, RoundLimits DEF RoundTypes
<1>3. PICK r \in CallRecords :
        /\ r = [NoCall EXCEPT !.pc = "complete", !.row = i]
        /\ r.pc = "complete" /\ r.row = i
  <2>1. "complete" \in Places
    BY DEF Places
  <2>2. \A x \in CallRecords :
          /\ [x EXCEPT !.pc = "complete", !.row = i] \in CallRecords
          /\ [x EXCEPT !.pc = "complete", !.row = i].pc = "complete"
          /\ [x EXCEPT !.pc = "complete", !.row = i].row = i
    BY <1>2, <2>1 DEF CallRecords
  <2> QED BY <1>0, <2>2, RecordsStep, Zenon
<1>4. Turns(c, r)
  BY <1>0, <1>1, <1>3, CallTurns
<1>5. CallWithin(r, Len(rows'))
  BY <1>1, <1>2, <1>3 DEF CallWithin
<1>6. RoundTypes'
  BY <1>0, <1>1, <1>4, <1>5, RoundStep DEF RowsMove, Turns, RoundTypes
<1>7. calm' => Asked /\ Unbroken
  BY <1>0, <1>1 DEF CallBegins, CalmInv, AllIdle
<1>8. calm' => StageInv(r)'
  <2>1. late' \/ i \in OfLatest
    BY <1>1 DEF OfLatest
  <2> QED BY <1>0, <1>1, <1>3, <1>7, <2>1, SameRows DEF StageInv
<1>9. CalmInv'
  BY <1>0, <1>3, <1>4, <1>8, CalmStep
<1> QED BY <1>6, <1>9 DEF ReviewInv

\* One row gets another status.
LEMMA RowChanges ==
    ASSUME RoundTypes, NEW k \in DOMAIN rows, NEW s \in RequestStatuses,
           rows' = [rows EXCEPT ![k].status = s]
    PROVE  /\ Len(rows') = Len(rows) /\ DOMAIN rows' = DOMAIN rows
           /\ OfLatest' = OfLatest
           /\ \A i \in DOMAIN rows : rows'[i].status = IF i = k THEN s ELSE rows[i].status
<1>1. rows \in Seq(Requests) /\ (rows # << >> => HasNewest(rows))
  BY DEF RoundTypes
<1>2. rows' = WithStatus(rows, k, s)
  BY DEF WithStatus
<1>3. /\ Len(rows') = Len(rows) /\ DOMAIN rows' = DOMAIN rows
      /\ \A i \in DOMAIN rows : rows'[i].round = rows[i].round
      /\ \A i \in DOMAIN rows : rows'[i].status = IF i = k THEN s ELSE rows[i].status
      /\ NewestOf(rows') = NewestOf(rows)
  <2>1. /\ Len(WithStatus(rows, k, s)) = Len(rows) /\ DOMAIN WithStatus(rows, k, s) = DOMAIN rows
        /\ \A i \in DOMAIN rows : WithStatus(rows, k, s)[i].round = rows[i].round
        /\ \A i \in DOMAIN rows :
             WithStatus(rows, k, s)[i].status = IF i = k THEN s ELSE rows[i].status
        /\ NewestOf(WithStatus(rows, k, s)) = NewestOf(rows)
    BY <1>1, StatusChanges
  <2> QED BY <1>2, <2>1
<1>4. OfLatest' = OfLatest
  BY <1>3, LatestIsNewest DEF OfLatest
<1> QED BY <1>3, <1>4

LEMMA CompletesKeeps == ASSUME ReviewInv, NEW c \in Calls, CompletesRequest(c) PROVE ReviewInv'
<1>0. RoundTypes /\ CalmInv /\ call[c].pc = "complete" /\ call[c] \in CallRecords
  BY RecordsStep DEF ReviewInv, CompletesRequest
<1>1. PICK answer \in {"approved", "changes_requested"} :
        rows' = [rows EXCEPT ![call[c].row].status = answer]
  BY DEF CompletesRequest
<1>2. CallMoves(c, [call[c] EXCEPT !.pc = "judge"]) /\ UNCHANGED <<item, deliveries, late>>
  BY Zenon DEF CompletesRequest
<1>3. call[c].row \in DOMAIN rows /\ answer \in RequestStatuses /\ answer # "superseded"
  BY <1>0 DEF RoundTypes, RequestStatuses
<1>4. /\ Len(rows') = Len(rows) /\ DOMAIN rows' = DOMAIN rows /\ OfLatest' = OfLatest
      /\ \A i \in DOMAIN rows :
           rows'[i].status = IF i = call[c].row THEN answer ELSE rows[i].status
  BY <1>0, <1>1, <1>3, RowChanges
<1>5. PICK r \in CallRecords :
        r = [call[c] EXCEPT !.pc = "judge"] /\ r.pc = "judge" /\ r.row = call[c].row
  <2>1. "judge" \in Places
    BY DEF Places
  <2>2. \A x \in CallRecords :
          /\ [x EXCEPT !.pc = "judge"] \in CallRecords
          /\ [x EXCEPT !.pc = "judge"].pc = "judge"
          /\ [x EXCEPT !.pc = "judge"].row = x.row
    BY <2>1 DEF CallRecords
  <2> QED BY <1>0, <2>2, Zenon
<1>6. Turns(c, r)
  BY <1>0, <1>2, <1>5, CallTurns
<1>7. CallWithin(r, Len(rows'))
  BY <1>0, <1>3, <1>4, <1>5, LatestType DEF CallWithin
<1>8. RoundTypes'
  <2>1. rows' = WithStatus(rows, call[c].row, answer)
    BY <1>1, Zenon DEF WithStatus
  <2>2. RowsMove(c, r)
    BY <1>3, <2>1 DEF RowsMove
  <2> QED BY <1>0, <1>2, <1>6, <1>7, <2>2, RoundStep DEF Turns, RoundTypes
<1>9. calm' => StageInv(r)'
  <2> SUFFICES ASSUME calm' PROVE StageInv(r)'
    OBVIOUS
  <2>1. StageInv(call[c])
    BY <1>0, <1>6 DEF Turns, CalmInv
  <2>2. /\ item = "waiting_for_review" /\ Asked /\ Unbroken
        /\ late \/ call[c].row \in OfLatest
    BY <1>0, <2>1 DEF StageInv
  <2>3. \A i \in OfLatest : i \in DOMAIN rows
    BY DEF OfLatest
  <2>4. \A i \in OfLatest : rows'[i].status # "superseded"
    BY <1>3, <1>4, <2>2, <2>3 DEF Unbroken
  <2>5. call[c].row \notin OfLatest => \A i \in OfLatest : rows'[i].status = rows[i].status
    BY <1>4, <2>3
  <2>6. call[c].row \notin OfLatest => Asked' /\ Unbroken'
    BY <1>4, <2>2, <2>5 DEF Asked, Unbroken
  <2> QED BY <1>2, <1>4, <1>5, <2>2, <2>4, <2>6 DEF StageInv
<1>10. CalmInv'
  BY <1>0, <1>5, <1>6, <1>9, CalmStep
<1> QED BY <1>8, <1>10 DEF ReviewInv

\* What a verdict on the latest round says of it.
LEMMA VerdictIs ==
    ASSUME RoundTypes, NEW k \in DOMAIN rows
    PROVE  /\ VerdictOnRound(k) \in
                {"in_progress", "waiting_for_review", "waiting_for_pm_confirmation"}
           /\ k \in OfLatest => SameRound(k) = OfLatest
           /\ VerdictOnRound(k) = "waiting_for_review" /\ k \in OfLatest
                /\ (\A i \in OfLatest : rows[i].status # "superseded") => Asked /\ Unbroken
           /\ VerdictOnRound(k) = "waiting_for_pm_confirmation" /\ k \in OfLatest
                /\ (\A i \in OfLatest : rows[i].status # "superseded") =>
                \A i \in OfLatest : rows[i].status = "approved"
<1>1. k \in OfLatest => SameRound(k) = OfLatest
  BY DEF OfLatest, SameRound
<1>2. VerdictOnRound(k) \in {"in_progress", "waiting_for_review", "waiting_for_pm_confirmation"}
  BY DEF VerdictOnRound
<1>3. \A i \in OfLatest : rows[i].status \in RequestStatuses
  BY LatestType DEF OfLatest, Requests
<1>4. VerdictOnRound(k) # "in_progress" =>
        \A j \in SameRound(k) : rows[j].status # "changes_requested"
  BY DEF VerdictOnRound
<1>5. VerdictOnRound(k) = "waiting_for_review" => \E j \in SameRound(k) : rows[j].status = "pending"
  BY DEF VerdictOnRound
<1>6. VerdictOnRound(k) = "waiting_for_pm_confirmation" =>
        \A j \in SameRound(k) : rows[j].status # "pending"
  BY DEF VerdictOnRound
<1> QED BY <1>1, <1>2, <1>3, <1>4, <1>5, <1>6 DEF Asked, Unbroken, RequestStatuses


LEMMA JudgesKeeps == ASSUME ReviewInv, NEW c \in Calls, JudgesRound(c) PROVE ReviewInv'
<1>0. RoundTypes /\ CalmInv /\ call[c].pc = "judge" /\ call[c] \in CallRecords
  BY RecordsStep DEF ReviewInv, JudgesRound
<1> DEFINE k == call[c].row
           verdict == VerdictOnRound(k)
           pending == {j \in SameRound(k) : rows[j].status = "pending"}
           left == IF verdict = "in_progress" THEN pending ELSE {}
           stop == IF verdict = "in_progress" /\ pending # {} THEN "supersede" ELSE "write"
<1>1. /\ CallMoves(c, [call[c] EXCEPT !.next = verdict, !.left = left, !.pc = stop])
      /\ UNCHANGED <<item, rows, deliveries, late>>
  BY Zenon DEF JudgesRound
<1>2. k \in DOMAIN rows /\ DOMAIN rows = 1 .. Len(rows)
  BY <1>0, LatestType DEF RoundTypes
<1>3. pending \subseteq DOMAIN rows
  BY DEF SameRound
<1>4. /\ stop \in {"supersede", "write"} /\ left \subseteq 1 .. Len(rows)
      /\ stop = "supersede" => verdict = "in_progress" /\ left # {}
  BY <1>2, <1>3
<1>5. /\ verdict \in {"in_progress", "waiting_for_review", "waiting_for_pm_confirmation"}
      /\ k \in OfLatest => SameRound(k) = OfLatest
      /\ verdict = "waiting_for_review" /\ k \in OfLatest
           /\ (\A i \in OfLatest : rows[i].status # "superseded") => Asked /\ Unbroken
      /\ verdict = "waiting_for_pm_confirmation" /\ k \in OfLatest
           /\ (\A i \in OfLatest : rows[i].status # "superseded") =>
           \A i \in OfLatest : rows[i].status = "approved"
  BY <1>0, <1>2, VerdictIs
<1>6. left \in SUBSET (1 .. MaxRows) /\ verdict \in ItemStates /\ stop \in Places
  <2>1. Len(rows) \in Nat /\ Len(rows) <= MaxRows
    BY <1>0, LatestType DEF RoundTypes
  <2> HIDE DEF left, verdict, stop
  <2> QED BY <1>4, <1>5, <2>1, RoundLimits DEF ItemStates, Places
<1>7. calm => StageInv(call[c])
  BY <1>0 DEF CalmInv
<1>8. calm => /\ item = "waiting_for_review"
              /\ k \notin OfLatest => Asked /\ Unbroken
              /\ \A i \in OfLatest : rows[i].status # "superseded"
              /\ late \/ k \in OfLatest
  BY <1>0, <1>7 DEF StageInv
<1>9. TransitionAllowed("waiting_for_review", verdict)
  <2>1. Successors["waiting_for_review"] =
          {"in_progress", "waiting_for_pm_confirmation", "cancelled"}
    BY DEF Successors, ItemStates
  <2> HIDE DEF verdict
  <2> QED BY <1>5, <2>1 DEF TransitionAllowed
<1> HIDE DEF verdict, left, stop, k
<1>10. PICK r \in CallRecords :
         /\ r = [call[c] EXCEPT !.next = verdict, !.left = left, !.pc = stop]
         /\ r.next = verdict /\ r.left = left /\ r.pc = stop
  <2>1. \A x \in CallRecords :
          /\ [x EXCEPT !.next = verdict, !.left = left, !.pc = stop] \in CallRecords
          /\ [x EXCEPT !.next = verdict, !.left = left, !.pc = stop].next = verdict
          /\ [x EXCEPT !.next = verdict, !.left = left, !.pc = stop].left = left
          /\ [x EXCEPT !.next = verdict, !.left = left, !.pc = stop].pc = stop
    BY <1>6 DEF CallRecords
  <2> QED BY <1>0, <2>1, Zenon
<1>11. Turns(c, r)
  BY <1>0, <1>1, <1>10, CallTurns
<1>12. CallWithin(r, Len(rows'))
  BY <1>1, <1>4, <1>10 DEF CallWithin
<1>13. RoundTypes'
  BY <1>0, <1>1, <1>11, <1>12, RoundStep DEF RowsMove, Turns, RoundTypes
<1>14. calm' => StageInv(r)'
  <2> SUFFICES ASSUME calm' PROVE StageInv(r)'
    OBVIOUS
  <2>1. calm
    BY <1>11 DEF Turns
  <2>2. r.pc = "write" /\ r.next = "waiting_for_review" => Asked /\ Unbroken
    BY <1>5, <1>8, <1>10, <2>1
  <2>3. r.pc = "write" /\ r.next = "waiting_for_pm_confirmation" /\ ~late =>
          \A i \in OfLatest : rows[i].status = "approved"
    BY <1>5, <1>8, <1>10, <2>1
  <2> QED BY <1>1, <1>4, <1>8, <1>9, <1>10, <2>1, <2>2, <2>3, SameRows DEF StageInv
<1>15. CalmInv'
  <2>1. r.pc # "idle"
    BY <1>4, <1>10
  <2> QED BY <1>0, <1>10, <1>11, <1>14, <2>1, CalmStep
<1> QED BY <1>13, <1>15 DEF ReviewInv

LEMMA SupersedesKeeps == ASSUME ReviewInv, NEW c \in Calls, SupersedesRequest(c) PROVE ReviewInv'
<1>0. RoundTypes /\ CalmInv /\ call[c].pc = "supersede" /\ call[c] \in CallRecords
  BY RecordsStep DEF ReviewInv, SupersedesRequest
<1>1. PICK i \in call[c].left :
        /\ rows' = [rows EXCEPT ![i].status = "superseded"]
        /\ CallMoves(c, [call[c] EXCEPT !.left = call[c].left \ {i},
                           !.pc = IF call[c].left = {i} THEN "write" ELSE call[c].pc])
  BY Zenon DEF SupersedesRequest
<1>2. UNCHANGED <<item, deliveries, late>>
  BY DEF SupersedesRequest
<1>3. i \in DOMAIN rows /\ "superseded" \in RequestStatuses /\ DOMAIN rows = 1 .. Len(rows)
      /\ call[c].left \subseteq DOMAIN rows
  BY <1>0, LatestType DEF RoundTypes, RequestStatuses
<1>4. Len(rows') = Len(rows)
  BY <1>0, <1>1, <1>3, RowChanges
<1> DEFINE left == call[c].left \ {i}
           stop == IF call[c].left = {i} THEN "write" ELSE call[c].pc
<1>5. /\ left \in SUBSET (1 .. MaxRows) /\ left \subseteq 1 .. Len(rows)
      /\ stop \in {"write", "supersede"} /\ stop \in Places
      /\ stop = "supersede" => left # {}
  BY <1>0, <1>3 DEF CallRecords, Places
<1>6. CallMoves(c, [call[c] EXCEPT !.left = left, !.pc = stop])
  BY <1>1
<1> HIDE DEF left, stop
<1>7. PICK r \in CallRecords :
        /\ r = [call[c] EXCEPT !.left = left, !.pc = stop]
        /\ r.left = left /\ r.pc = stop /\ r.next = call[c].next
  <2>1. \A x \in CallRecords :
          /\ [x EXCEPT !.left = left, !.pc = stop] \in CallRecords
          /\ [x EXCEPT !.left = left, !.pc = stop].left = left
          /\ [x EXCEPT !.left = left, !.pc = stop].pc = stop
          /\ [x EXCEPT !.left = left, !.pc = stop].next = x.next
    BY <1>5 DEF CallRecords
  <2> QED BY <1>0, <2>1, Zenon
<1>8. Turns(c, r)
  BY <1>0, <1>6, <1>7, CallTurns
<1>9. CallWithin(r, Len(rows'))
  BY <1>4, <1>5, <1>7 DEF CallWithin
<1>10. RoundTypes'
  <2>1. rows' = WithStatus(rows, i, "superseded")
    BY <1>1, Zenon DEF WithStatus
  <2>2. RowsMove(c, r)
    BY <1>3, <2>1 DEF RowsMove
  <2>3. call' = [call EXCEPT ![c] = r] /\ calm' \in BOOLEAN
    BY <1>8 DEF Turns
  <2>4. item' \in ItemStates /\ deliveries' \in Nat /\ late' \in BOOLEAN
    BY <1>0, <1>2 DEF RoundTypes
  <2> QED BY <1>0, <1>9, <2>2, <2>3, <2>4, RoundStep
<1>11. calm' => StageInv(r)'
  <2> SUFFICES ASSUME calm' PROVE StageInv(r)'
    OBVIOUS
  <2>1. StageInv(call[c])
    BY <1>0, <1>8 DEF Turns, CalmInv
  <2>2. item = "waiting_for_review" /\ r.next = "in_progress"
    BY <1>0, <1>7, <2>1 DEF StageInv
  <2>3. TransitionAllowed("waiting_for_review", "in_progress")
    BY DEF TransitionAllowed, Successors, ItemStates
  <2> QED BY <1>2, <1>5, <1>7, <2>2, <2>3 DEF StageInv
<1>12. CalmInv'
  <2>1. r.pc # "idle"
    BY <1>5, <1>7
  <2> QED BY <1>0, <1>7, <1>8, <1>11, <2>1, CalmStep
<1> QED BY <1>10, <1>12 DEF ReviewInv

\* A call returns.
LEMMA ReturnKeeps ==
    ASSUME ReviewInv, NEW c \in Calls, call[c].pc # "idle", call' = [call EXCEPT ![c] = NoCall],
           calm' \in BOOLEAN, calm' => calm, item' \in ItemStates, deliveries' \in Nat,
           UNCHANGED <<rows, late>>,
           calm' /\ item' = "waiting_for_review" => Asked /\ Unbroken
    PROVE  ReviewInv'
<1>0. RoundTypes /\ CalmInv /\ NoCall \in CallRecords /\ NoCall.pc = "idle"
  BY RecordsStep DEF ReviewInv
<1>1. Turns(c, NoCall)
  BY DEF Turns
<1>2. CallWithin(NoCall, Len(rows'))
  BY <1>0 DEF CallWithin
<1>3. RoundTypes'
  BY <1>0, <1>1, <1>2, RoundStep DEF RowsMove, Turns, RoundTypes
<1>4. PICK r \in CallRecords : r = NoCall
  BY <1>0
<1>5. StageInv(r)'
  BY <1>0, <1>4 DEF StageInv
<1>6. CalmInv'
  BY <1>0, <1>1, <1>4, <1>5, SameRows, CalmStep
<1> QED BY <1>3, <1>6 DEF ReviewInv

LEMMA DeliveryStepsKeep ==
    ASSUME ReviewInv, NEW c \in Calls, ChecksDelivery(c) \/ CommitsDelivery(c) PROVE ReviewInv'
<1>0. RoundTypes /\ CalmInv /\ call[c].pc \in {"check", "commit"} /\ call[c] \in CallRecords
  BY RecordsStep DEF ReviewInv, ChecksDelivery, CommitsDelivery
<1>1. calm => item # "waiting_for_review"
  BY <1>0 DEF CalmInv, StageInv
<1>2. calm \in BOOLEAN /\ deliveries \in Nat /\ item \in ItemStates
  BY <1>0 DEF RoundTypes
<1>3. CASE CommitsDelivery(c)
  <2>1. /\ call' = [call EXCEPT ![c] = NoCall] /\ calm' = calm /\ UNCHANGED <<rows, late>>
        /\ item' \in {item, "done"} /\ deliveries' \in {deliveries, deliveries + 1}
    BY <1>3 DEF CommitsDelivery, CallReturns, CallMoves
  <2>2. item' \in ItemStates /\ deliveries' \in Nat
    BY <1>2, <2>1 DEF ItemStates
  <2> QED BY <1>0, <1>1, <1>2, <2>1, <2>2, ReturnKeeps
<1>4. CASE ChecksDelivery(c) /\ ~(item = "waiting_for_pm_confirmation" /\ deliveries = 0)
  <2>1. /\ call' = [call EXCEPT ![c] = NoCall] /\ calm' = calm
        /\ UNCHANGED <<item, rows, deliveries, late>>
    BY <1>4 DEF ChecksDelivery, CallReturns, CallMoves
  <2> QED BY <1>0, <1>1, <1>2, <2>1, ReturnKeeps
<1>5. CASE ChecksDelivery(c) /\ item = "waiting_for_pm_confirmation" /\ deliveries = 0
  <2>1. CallMoves(c, [NoCall EXCEPT !.pc = "commit"]) /\ UNCHANGED <<item, rows, deliveries, late>>
    BY <1>5, Zenon DEF ChecksDelivery
  <2>2. PICK r \in CallRecords : r = [NoCall EXCEPT !.pc = "commit"] /\ r.pc = "commit"
    <3>1. "commit" \in Places
      BY DEF Places
    <3>2. \A x \in CallRecords :
            [x EXCEPT !.pc = "commit"] \in CallRecords /\ [x EXCEPT !.pc = "commit"].pc = "commit"
      BY <3>1 DEF CallRecords
    <3> QED BY <1>0, <3>2, RecordsStep, Zenon
  <2>3. Turns(c, r)
    BY <1>0, <2>1, <2>2, CallTurns
  <2>4. CallWithin(r, Len(rows'))
    BY <2>2 DEF CallWithin
  <2>5. RoundTypes'
    BY <1>0, <2>1, <2>3, <2>4, RoundStep DEF RowsMove, Turns, RoundTypes
  <2>6. calm' => StageInv(r)'
    BY <1>5, <2>1, <2>2 DEF StageInv
  <2>7. CalmInv'
    BY <1>0, <2>2, <2>3, <2>6, CalmStep
  <2> QED BY <2>5, <2>7 DEF ReviewInv
<1> QED BY <1>3, <1>4, <1>5

LEMMA WritesStateKeeps == ASSUME ReviewInv, NEW c \in Calls, WritesState(c) PROVE ReviewInv'
<1>0. RoundTypes /\ CalmInv /\ call[c].pc = "write" /\ call[c] \in CallRecords
  BY RecordsStep DEF ReviewInv, WritesState
<1>1. /\ item' = IF TransitionAllowed(item, call[c].next) THEN call[c].next ELSE item
      /\ call' = [call EXCEPT ![c] = NoCall] /\ calm' = calm
      /\ UNCHANGED <<rows, deliveries, late>>
  BY DEF WritesState, CallReturns, CallMoves
<1>2. calm \in BOOLEAN /\ deliveries \in Nat /\ item \in ItemStates /\ call[c].next \in ItemStates
  BY <1>0 DEF RoundTypes, CallRecords
<1>3. calm' /\ item' = "waiting_for_review" => Asked /\ Unbroken
  BY <1>0, <1>1 DEF CalmInv, StageInv
<1>4. item' \in ItemStates
  BY <1>1, <1>2
<1> QED BY <1>0, <1>1, <1>2, <1>3, <1>4, ReturnKeeps

LEMMA CallFailsKeeps == ASSUME ReviewInv, NEW c \in Calls, CallFails(c) PROVE ReviewInv'
<1>1. item \in ItemStates /\ deliveries \in Nat
  BY DEF ReviewInv, RoundTypes
<1> QED BY <1>1, ReturnKeeps DEF CallFails

LEMMA ReviewKeeps == ReviewInv /\ [DiscoveryNext]_discoveryVars => ReviewInv'
<1> SUFFICES ASSUME ReviewInv, [DiscoveryNext]_discoveryVars PROVE ReviewInv'
  OBVIOUS
<1>1. CASE UNCHANGED discoveryVars
  <2> USE <1>1 DEF discoveryVars
  <2>1. RoundTypes'
    BY DEF ReviewInv, RoundTypes, HasNewest
  <2>2. OfLatest' = OfLatest /\ Asked' = Asked /\ Unbroken' = Unbroken
    BY SameRows
  <2>3. \A c \in Calls : StageInv(call[c]) => StageInv(call[c])'
    BY <2>2 DEF StageInv
  <2>4. CalmInv'
    BY <2>2, <2>3 DEF ReviewInv, CalmInv, AllIdle
  <2> QED BY <2>1, <2>4 DEF ReviewInv
<1>2. CASE DiscoveryNext
  BY <1>2, BeginsReview, BeginsWrite, ListsRoundsKeeps, InsertsRowKeeps, RecordsOutcomeKeeps,
     CompletesKeeps, JudgesKeeps, SupersedesKeeps, DeliveryStepsKeep, WritesStateKeeps,
     CallFailsKeeps DEF DiscoveryNext
<1> QED BY <1>1, <1>2

THEOREM ReviewInductive == DiscoverySpec => []ReviewInv
BY RoundInit, ReviewKeeps, PTL DEF DiscoverySpec

LEMMA DiscoveryTyped == ReviewInv => DiscoveryTypeOK
<1> SUFFICES ASSUME ReviewInv PROVE DiscoveryTypeOK
  OBVIOUS
<1>1. RoundTypes
  BY DEF ReviewInv
<1>2. \A i \in DOMAIN rows :
        rows[i].round \in 1 .. MaxRows /\ rows[i].status \in RequestStatuses
  <2>1. TAKE i \in DOMAIN rows
  <2>2. rows[i].round \in 1 .. i /\ i \in 1 .. Len(rows) /\ Len(rows) <= MaxRows
        /\ Len(rows) \in Nat /\ rows[i] \in Requests
    BY <1>1, LatestType DEF RoundTypes
  <2> QED BY <2>2, RoundLimits DEF Requests
<1> QED
  BY <1>1, <1>2, LatestType DEF RoundTypes, DiscoveryTypeOK, RequestStatuses, CallRecords, Places

\* Rows and calls of a discovery item are the ones that its service has
\* (service.ts, review-request-store.ts).
THEOREM DiscoveryTypes == DiscoverySpec => []DiscoveryTypeOK
  BY DiscoveryTyped, ReviewInductive, PTL

\* As long as its calls come one after the other, an item that waits for
\* review waits for a reviewer who was asked in its latest round, also when
\* answers to earlier rounds come in (service.ts:recordReviewOutcome).
THEOREM SomebodyIsAsked == DiscoverySpec => []WaitsForSomebody
<1>1. ReviewInv => WaitsForSomebody
  BY DEF ReviewInv, CalmInv, WaitsForSomebody, AllIdle, Asked, OfLatest
<1> QED BY <1>1, ReviewInductive, PTL

\* And it leaves review for the product manager's confirmation only with every
\* request of that round approved.
THEOREM ReviewsRound == DiscoverySpec => CurrentRoundReviewed
<1> DEFINE A == item # "waiting_for_pm_confirmation" /\ item' = "waiting_for_pm_confirmation"
                  /\ calm /\ ~late
                => \A i \in DOMAIN rows : rows[i].round = Latest => rows[i].status = "approved"
<1>1. ReviewInv /\ [DiscoveryNext]_discoveryVars => [A]_discoveryVars
  <2> SUFFICES ASSUME ReviewInv, DiscoveryNext, item # "waiting_for_pm_confirmation",
                      item' = "waiting_for_pm_confirmation", calm, ~late
               PROVE  \A i \in OfLatest : rows[i].status = "approved"
    BY DEF OfLatest
  <2>1. PICK c \in Calls : CommitsDelivery(c) \/ WritesState(c)
    <3>1. PICK c \in Calls :
            \/ RequestsReview(c) \/ ListsRounds(c) \/ InsertsRow(c)
            \/ \E i \in DOMAIN rows : RecordsOutcome(c, i)
            \/ CompletesRequest(c) \/ JudgesRound(c) \/ SupersedesRequest(c)
            \/ Rejects(c) \/ Approves(c) \/ ChecksDelivery(c) \/ CommitsDelivery(c)
            \/ \E state \in ItemStates : Overrides(c, state)
            \/ WritesState(c) \/ CallFails(c)
      BY Zenon DEF DiscoveryNext
    <3>2. item' # item
      OBVIOUS
    <3>3. RequestsReview(c) \/ Rejects(c) \/ Approves(c) \/ CallFails(c) => item' = item
      BY Zenon DEF RequestsReview, Rejects, Approves, CallFails
    <3>4. ListsRounds(c) \/ InsertsRow(c) => item' = item
      BY Zenon DEF ListsRounds, InsertsRow
    <3>5. (\E i \in DOMAIN rows : RecordsOutcome(c, i)) \/ CompletesRequest(c) => item' = item
      BY Zenon DEF RecordsOutcome, CompletesRequest
    <3>6. JudgesRound(c) \/ SupersedesRequest(c) \/ ChecksDelivery(c) => item' = item
      BY Zenon DEF JudgesRound, SupersedesRequest, ChecksDelivery
    <3>7. (\E state \in ItemStates : Overrides(c, state)) => item' = item
      BY Zenon DEF Overrides
    <3> QED BY <3>1, <3>2, <3>3, <3>4, <3>5, <3>6, <3>7, Zenon
  <2>2. ~CommitsDelivery(c)
    BY DEF CommitsDelivery
  <2>3. call[c].pc = "write" /\ call[c].next = "waiting_for_pm_confirmation"
    BY <2>1, <2>2 DEF WritesState
  <2>4. StageInv(call[c])
    BY DEF ReviewInv, CalmInv
  <2> QED BY <2>3, <2>4 DEF StageInv
<1> QED BY <1>1, ReviewInductive, PTL DEF DiscoverySpec, CurrentRoundReviewed

-----------------------------------------------------------------------------
(* The remaining types of the pool                                         *)

SlotCounts == slotCancels \in 0 .. SlotCancels /\ slotCrashes \in 0 .. SlotCrashes

LEMMA SlotCountsKeep == ASSUME SlotCounts, [SlotNext]_slotVars PROVE SlotCounts'
<1>1. CASE UNCHANGED <<slotCancels, slotCrashes>>
  BY <1>1 DEF SlotCounts
<1>2. CASE SlotCrash
  <2>1. slotCrashes' \in 0 .. SlotCrashes /\ slotCancels' = slotCancels
    BY <1>2, SlotAssumption DEF SlotCrash, SlotCounts
  <2> QED BY <2>1 DEF SlotCounts
<1>3. ASSUME NEW r \in SlotRuns, CancelInQueue(r) PROVE SlotCounts'
  <2>1. slotCancels' \in 0 .. SlotCancels /\ slotCrashes' = slotCrashes
    BY <1>3, SlotAssumption DEF CancelInQueue, SlotCounts
  <2> QED BY <2>1 DEF SlotCounts
<1>4. ASSUME NEW r \in SlotRuns, SlotRunStep(r), ~CancelInQueue(r)
      PROVE  UNCHANGED <<slotCancels, slotCrashes>>
  BY <1>4 DEF SlotRunStep, Lookup, Acquire, Exhausted, Provision, ProvisionFails, GiveBack, LaunchPod,
              PodEnds, OrphanEnds
<1>5. ASSUME NEW c \in Closers, CloserStep(c) PROVE UNCHANGED <<slotCancels, slotCrashes>>
  BY <1>5 DEF CloserStep, CloserReads, CloserTearsDown, CloserReleases
<1>6. ASSUME NEW s \in Slots, Ages(s) \/ SweepStep(s) PROVE UNCHANGED <<slotCancels, slotCrashes>>
  BY <1>6 DEF Ages, SweepStep, SweepFinds, SweepTearsDown, SweepReleases
<1>7. CASE UNCHANGED slotVars
  BY <1>1, <1>7 DEF slotVars
<1> QED BY <1>1, <1>2, <1>3, <1>4, <1>5, <1>6, <1>7 DEF SlotNext

LEMMA SlotsStart == SlotInit => PoolTypes /\ SlotCounts
<1>1. SlotInit => SlotCounts
  BY SlotAssumption DEF SlotInit, SlotCounts
<1> QED BY <1>1, PoolInit

LEMMA SlotsTyped == PoolTypes /\ SlotCounts => SlotsTypeOK
  BY DEF PoolTypes, SlotCounts, SlotsTypeOK, Steps, CloserRecords

\* Rows, claims and calls of the pool are what they may be (runner-db-slots).
THEOREM SlotTypesHold == SlotSpec => []SlotsTypeOK
  BY SlotsStart, PoolTypesKeep, SlotCountsKeep, SlotsTyped, PTL DEF SlotSpec

-----------------------------------------------------------------------------
(* The supervisor's counts are bounded by the retries there were, and each *)
(* retry made a run that was not there before.                             *)

Retried == {q \in WatchedRuns : retryChain[q] # NoWatched}
Upto(n) == {NoEntry} \cup 0 .. n

RetryCounts ==
    LET n == Cardinality(Retried) IN
    /\ watched \in [WatchedRuns -> Upto(n)]
    /\ \A x \in Responses : /\ response[x].count \in Upto(n)
                            /\ response[x].at = "retry" => response[x].count # NoEntry
    /\ depth \in [WatchedRuns -> 0 .. n]
    /\ dailyRetryCount \in 0 .. n

SupPlaces ==
    /\ status \in [WatchedRuns -> {"queued", "running", "completed", "failed"}]
    /\ cause \in [WatchedRuns -> {"none", "transient", "permanent"}]
    /\ lookup \subseteq WatchedRuns /\ expiry \subseteq WatchedRuns /\ cooling \subseteq WatchedRuns
    /\ expiries \in 0 .. MaxExpiries /\ resets \in 0 .. MaxResets

LEMMA RetriedSize ==
    /\ IsFiniteSet(Retried) /\ Cardinality(Retried) \in Nat
    /\ Cardinality(Retried) <= Cardinality(WatchedRuns) /\ Cardinality(WatchedRuns) \in Nat
<1>1. Retried \in SUBSET WatchedRuns /\ IsFiniteSet(WatchedRuns)
  BY SupervisorAssumption DEF Retried
<1> QED BY <1>1, FS_Subset, FS_CardinalityType

LEMMA ResolvedBelow ==
    ASSUME NEW r \in WatchedRuns PROVE ResolveRetryCount(r) \in 0 .. Cardinality(Retried)
<1>1. CASE retryChain[r] = NoWatched
  BY <1>1, RetriedSize DEF ResolveRetryCount
<1>2. CASE retryChain[r] # NoWatched
  <2>1. Family(retryChain[r]) \in SUBSET Retried
    BY <1>2 DEF Family, Retried
  <2>2. /\ Cardinality(Family(retryChain[r])) <= Cardinality(Retried)
        /\ Cardinality(Family(retryChain[r])) \in Nat
    BY <2>1, RetriedSize, FamilySize, FS_Subset
  <2> QED BY <1>2, <2>2, Resolved, RetriedSize
<1> QED BY <1>1, <1>2

\* A step that makes no retry and enters or remembers only counts it knows.
LEMMA CountsStay ==
    ASSUME RetryCounts, UNCHANGED <<retryChain, depth>>,
           dailyRetryCount' \in {dailyRetryCount, 0},
           watched' \in [WatchedRuns -> Upto(Cardinality(Retried))],
           \A x \in Responses : /\ response'[x].count \in Upto(Cardinality(Retried))
                                /\ response'[x].at = "retry" => response'[x].count # NoEntry
    PROVE  RetryCounts'
<1>1. Retried' = Retried
  BY DEF Retried
<1>2. Cardinality(Retried)' = Cardinality(Retried)
  BY <1>1
<1>3. dailyRetryCount' \in 0 .. Cardinality(Retried)
  BY RetriedSize DEF RetryCounts
<1> QED BY <1>2, <1>3 DEF RetryCounts

LEMMA TerminalCounts ==
    ASSUME RetryCounts, SupTypes, NEW r \in WatchedRuns, NEW end, NEW source \in Sources,
           Terminal(r, end, source), UNCHANGED <<retryChain, depth, dailyRetryCount>>
    PROVE  RetryCounts'
<1> DEFINE taken == [at |-> "read", count |-> watched[r]]
           n == Cardinality(Retried)
<1>1. watched' = [watched EXCEPT ![r] = NoEntry]
  BY DEF Terminal
<1>2. response' = response \/ response' = [response EXCEPT ![<<r, source>>] = taken]
  BY DEF Terminal
<1>3. <<r, source>> \in Responses /\ watched[r] \in Upto(n)
  BY DEF Responses, RetryCounts
<1>4. watched' \in [WatchedRuns -> Upto(n)]
  BY <1>1 DEF RetryCounts, Upto
<1>5. ASSUME NEW x \in Responses
      PROVE  response'[x].count \in Upto(n) /\ (response'[x].at = "retry" => response'[x].count # NoEntry)
  <2>1. response'[x] \in {response[x], taken}
    BY <1>2, <1>3 DEF SupTypes
  <2> QED BY <1>3, <2>1 DEF RetryCounts
<1> QED BY <1>4, <1>5, CountsStay

LEMMA CountsKeep == ASSUME SInv, RetryCounts, [SupervisorNext]_supVars PROVE RetryCounts'
<1> DEFINE n == Cardinality(Retried)
<1> USE DEF supRows, supMemory
<1>0. /\ SupTypes
      /\ watched \in [WatchedRuns -> Upto(n)]
      /\ \A x \in Responses : response[x].count \in Upto(n)
                              /\ (response[x].at = "retry" => response[x].count # NoEntry)
  BY DEF SInv, RetryCounts
<1>1. CASE \/ UNCHANGED supVars
           \/ \E r \in WatchedRuns : \/ Loads(r) \/ Works(r) \/ NodeStarts(r) \/ Expires(r)
                                     \/ CooldownEnds(r)
           \/ Midnight
  <2>1. UNCHANGED <<retryChain, depth, watched, response>> /\ dailyRetryCount' \in {dailyRetryCount, 0}
    BY <1>1 DEF supVars, Loads, Works, NodeStarts, Expires, CooldownEnds, Midnight
  <2> QED BY <1>0, <2>1, CountsStay
<1>2. ASSUME NEW r \in WatchedRuns, WorkEnds(r) PROVE RetryCounts'
  <2>1. PICK end : Terminal(r, end, "worker")
    BY <1>2 DEF WorkEnds
  <2> QED BY <1>0, <1>2, <2>1, TerminalCounts DEF WorkEnds, Sources
<1>3. ASSUME NEW r \in WatchedRuns, ForceFail(r) PROVE RetryCounts'
  BY <1>0, <1>3, TerminalCounts DEF ForceFail, Sources
<1>4. ASSUME NEW r \in WatchedRuns, Enter(r) PROVE RetryCounts'
  <2>1. watched' = [watched EXCEPT ![r] = ResolveRetryCount(r)]
        /\ UNCHANGED <<retryChain, depth, response, dailyRetryCount>>
    BY <1>4 DEF Enter
  <2>2. ResolveRetryCount(r) \in Upto(n)
    BY ResolvedBelow DEF Upto
  <2>3. watched' \in [WatchedRuns -> Upto(n)]
    BY <1>0, <2>1, <2>2
  <2> QED BY <1>0, <2>1, <2>3, CountsStay
<1>5. ASSUME NEW x \in Responses, Decide(x) PROVE RetryCounts'
  <2> DEFINE through == [at |-> "retry", count |-> RetryCount(x)]
  <2>1. UNCHANGED <<retryChain, depth, watched, dailyRetryCount>>
    BY <1>5 DEF Decide
  <2>2. response' = [response EXCEPT ![x] = Silent] \/ response' = [response EXCEPT ![x] = through]
    BY <1>5 DEF Decide
  <2>3. x[1] \in WatchedRuns
    BY DEF Responses
  <2>4. RetryCount(x) \in Upto(n) /\ RetryCount(x) # NoEntry
    <3>1. CASE response[x].count = NoEntry
      <4>1. RetryCount(x) \in 0 .. n
        BY <2>3, <3>1, ResolvedBelow DEF RetryCount
      <4> QED BY <4>1, RetriedSize DEF Upto, NoEntry
    <3>2. CASE response[x].count # NoEntry
      BY <1>0, <3>2 DEF RetryCount
    <3> QED BY <3>1, <3>2
  <2>5. ASSUME NEW y \in Responses
        PROVE  response'[y].count \in Upto(n) /\ (response'[y].at = "retry" => response'[y].count # NoEntry)
    <3>1. response'[y] \in {response[y], Silent, through}
      BY <1>0, <2>2 DEF SupTypes
    <3> QED BY <1>0, <2>4, <3>1 DEF Silent, Upto
  <2> QED BY <1>0, <2>1, <2>5, CountsStay
<1>6. ASSUME NEW x \in Responses, RetryRun(x) PROVE RetryCounts'
  <2>1. PICK r \in Unused :
          /\ response[x].at = "retry"
          /\ response' = [response EXCEPT ![x] = Silent]
          /\ retryChain' = [retryChain EXCEPT ![r] = Originator(x[1])]
          /\ dailyRetryCount' = dailyRetryCount + 1
          /\ watched' = [watched EXCEPT ![r] = response[x].count + 1]
          /\ depth' = [depth EXCEPT ![r] = depth[x[1]] + 1]
    BY <1>6 DEF RetryRun
  <2>2. r \in WatchedRuns /\ retryChain[r] = NoWatched /\ x[1] \in WatchedRuns
    BY DEF Unused, SInv, UnusedInv, Responses
  <2>3. Originator(x[1]) \in WatchedRuns
    BY <1>0, <2>2 DEF Originator, SupTypes
  <2>4. Retried' = Retried \cup {r} /\ r \notin Retried
    BY <1>0, <2>1, <2>2, <2>3, Limits DEF Retried, SupTypes
  <2>5. PICK m : m = Cardinality(Retried)'
    OBVIOUS
  <2>6. m = n + 1 /\ n \in Nat
    BY <2>4, <2>5, RetriedSize, FS_AddElement
  <2>7. response[x].count \in 0 .. n
    BY <1>0, <2>1 DEF Upto
  <2>8. watched' \in [WatchedRuns -> Upto(m)]
    <3>1. Upto(n) \subseteq Upto(m) /\ response[x].count + 1 \in Upto(m)
      BY <2>6, <2>7 DEF Upto
    <3> QED BY <1>0, <2>1, <3>1
  <2>9. depth' \in [WatchedRuns -> 0 .. m]
    <3>1. depth \in [WatchedRuns -> 0 .. n]
      BY DEF RetryCounts
    <3>2. 0 .. n \subseteq 0 .. m /\ \A d \in 0 .. n : d + 1 \in 0 .. m
      BY <2>6
    <3> QED BY <2>1, <2>2, <3>1, <3>2
  <2>10. ASSUME NEW y \in Responses
         PROVE  response'[y].count \in Upto(m) /\ (response'[y].at = "retry" => response'[y].count # NoEntry)
    <3>1. response'[y] \in {response[y], Silent} /\ Upto(n) \subseteq Upto(m)
      BY <1>0, <2>1, <2>6 DEF SupTypes, Upto
    <3> QED BY <1>0, <3>1 DEF Silent, Upto
  <2>11. dailyRetryCount' \in 0 .. m
    BY <2>1, <2>6 DEF RetryCounts
  <2> QED BY <2>5, <2>8, <2>9, <2>10, <2>11 DEF RetryCounts
<1> QED BY <1>1, <1>2, <1>3, <1>4, <1>5, <1>6 DEF SupervisorNext, Responses

LEMMA SupPlacesKeep == ASSUME SInv, SupPlaces, [SupervisorNext]_supVars PROVE SupPlaces'
<1> USE DEF supRows, supMemory
<1>1. CASE UNCHANGED supVars
  BY <1>1 DEF supVars, SupPlaces
<1>2. ASSUME NEW r \in WatchedRuns, Loads(r) \/ Works(r) \/ WorkEnds(r) PROVE SupPlaces'
  BY <1>2 DEF Loads, Works, WorkEnds, SupPlaces
<1>3. ASSUME NEW r \in WatchedRuns, NodeStarts(r) \/ Enter(r) \/ CooldownEnds(r) PROVE SupPlaces'
  BY <1>3 DEF NodeStarts, Enter, CooldownEnds, SupPlaces
<1>4. ASSUME NEW r \in WatchedRuns, Expires(r) PROVE SupPlaces'
  <2>1. expiries' \in 0 .. MaxExpiries
    BY <1>4, SupervisorAssumption DEF Expires, SupPlaces
  <2> QED BY <1>4, <2>1 DEF Expires, SupPlaces
<1>5. ASSUME NEW r \in WatchedRuns, ForceFail(r) PROVE SupPlaces'
  BY <1>5 DEF ForceFail, SupPlaces
<1>6. ASSUME NEW x \in WatchedRuns \X Sources, Decide(x) PROVE SupPlaces'
  BY <1>6 DEF Decide, SupPlaces
<1>7. ASSUME NEW x \in WatchedRuns \X Sources, RetryRun(x) PROVE SupPlaces'
  <2>1. cooling' = cooling \cup {Originator(x[1])}
        /\ UNCHANGED <<status, cause, lookup, expiry, expiries, resets>>
    BY <1>7 DEF RetryRun
  <2>2. Originator(x[1]) \in WatchedRuns
    BY DEF Originator, SInv, SupTypes
  <2> QED BY <2>1, <2>2 DEF SupPlaces
<1>8. CASE Midnight
  <2>1. resets' \in 0 .. MaxResets
    BY <1>8, SupervisorAssumption DEF Midnight, SupPlaces
  <2> QED BY <1>8, <2>1 DEF Midnight, SupPlaces
<1> QED BY <1>1, <1>2, <1>3, <1>4, <1>5, <1>6, <1>7, <1>8 DEF SupervisorNext

LEMMA SupervisorStarts == SupervisorInit => RetryCounts /\ SupPlaces
<1> SUFFICES ASSUME SupervisorInit PROVE RetryCounts /\ SupPlaces
  OBVIOUS
<1>1. Retried = {}
  BY DEF SupervisorInit, Retried
<1>2. Cardinality(Retried) = 0
  BY <1>1, FS_EmptySet
<1>3. RetryCounts
  BY <1>2 DEF SupervisorInit, RetryCounts, Responses, Silent, Upto
<1>4. SupPlaces
  BY SupervisorAssumption DEF SupervisorInit, SupPlaces
<1> QED BY <1>3, <1>4

LEMMA SupervisorTyped == SInv /\ RetryCounts /\ SupPlaces => SupervisorTypeOK
<1> SUFFICES ASSUME SInv, RetryCounts, SupPlaces PROVE SupervisorTypeOK
  OBVIOUS
<1> DEFINE n == Cardinality(Retried)
<1>1. 0 .. n \subseteq Counts /\ Upto(n) \subseteq {NoEntry} \cup Counts
  BY RetriedSize DEF Counts, Upto
<1>2. watched \in [WatchedRuns -> {NoEntry} \cup Counts]
  BY <1>1 DEF RetryCounts
<1>3. depth \in [WatchedRuns -> Counts] /\ dailyRetryCount \in Counts
  BY <1>1 DEF RetryCounts
<1>4. response \in [Responses -> [at : {"off", "read", "retry"}, count : {NoEntry} \cup Counts]]
  <2>1. \A x \in Responses : response[x] \in [at : {"off", "read", "retry"}, count : {NoEntry} \cup Counts]
    BY <1>1 DEF RetryCounts, SInv, SupTypes
  <2> QED BY <2>1 DEF SInv, SupTypes
<1> QED BY <1>2, <1>3, <1>4 DEF SInv, SupTypes, SupPlaces, SupervisorTypeOK, Responses

\* No count of the supervisor exceeds the number of runs (supervisor/index.ts).
THEOREM SupervisorTypesHold == SupervisorSpec => []SupervisorTypeOK
  BY SupervisorStarts, SupervisorInitHolds, SupervisorKeeps, CountsKeep, SupPlacesKeep, SupervisorTyped,
     PTL DEF SupervisorSpec

-----------------------------------------------------------------------------
(* All services side by side                                               *)

\* What the parts' own proofs keep
PartsInv ==
    /\ PoolTypes /\ SlotCounts
    /\ SInv /\ RetryCounts /\ SupPlaces
    /\ ObserverTypes /\ QueueTypes /\ KeyInv
    /\ ReportInv /\ PollerRest
    /\ CiInv
    /\ FlagTypes /\ EInv
    /\ RewriteInv /\ HistoryTypes /\ BranchPlaces
    /\ ReviewInv

\* A step of the services is one of each part, or leaves it alone.
LEMMA PartSteps ==
    ASSUME [Next]_vars
    PROVE  /\ [SlotNext]_slotVars /\ [SupervisorNext]_supVars /\ [ObserverNext]_observerVars
           /\ [PollerNext]_pollerVars /\ [CiNext]_ciVars /\ [EngineNext]_engineVars
           /\ [BranchNext]_rewriteVars /\ [DiscoveryNext]_discoveryVars
  BY Zenon DEF Next, vars, SlotStep, SupervisorStep, ObserverStep, PollerStep, CiStep, EngineStep, BranchStep,
         DiscoveryStep

LEMMA PartsKeep == ASSUME PartsInv, [Next]_vars PROVE PartsInv'
<1>1. PoolTypes' /\ SlotCounts'
  BY PartSteps, PoolTypesKeep, SlotCountsKeep DEF PartsInv
<1>2. SInv' /\ RetryCounts' /\ SupPlaces'
  BY PartSteps, SupervisorKeeps, CountsKeep, SupPlacesKeep DEF PartsInv
<1>3. ObserverTypes' /\ QueueTypes' /\ KeyInv'
  BY PartSteps, ObserverTypesKeep, QueueTypesKeep, KeyKeeps DEF PartsInv
<1>4. ReportInv' /\ PollerRest'
  BY PartSteps, ReportKeeps, PollerRestKeeps DEF PartsInv
<1>5. CiInv'
  BY PartSteps, CiKeeps DEF PartsInv
<1>6. FlagTypes' /\ EInv'
  BY PartSteps, FlagsKeep, EngineKeeps DEF PartsInv
<1>7. RewriteInv' /\ HistoryTypes' /\ BranchPlaces'
  BY PartSteps, RewriteKeeps, HistoriesKeep, PlacesKeep DEF PartsInv
<1>8. ReviewInv'
  BY PartSteps, ReviewKeeps DEF PartsInv
<1> QED BY <1>1, <1>2, <1>3, <1>4, <1>5, <1>6, <1>7, <1>8 DEF PartsInv

LEMMA PartsStart == ASSUME Init PROVE PartsInv
<1>1. /\ SlotInit /\ SupervisorInit /\ ObserverInit /\ PollerInit /\ CiInit /\ EngineInit
      /\ BranchInit /\ DiscoveryInit
  BY DEF Init
<1> QED
  BY <1>1, SlotsStart, SupervisorInitHolds, SupervisorStarts, ObserverStarts, PollerStarts, CiInitHolds,
     EngineInitHolds, RewriteInit, BranchStarts, RoundInit DEF PartsInv

\* The types of all services hold, whichever of them takes a step.
THEOREM ServicesTypes == Spec => []ServicesTypeOK
<1>1. PartsInv => ServicesTypeOK
  <2> SUFFICES ASSUME PartsInv PROVE ServicesTypeOK
    OBVIOUS
  <2>1. SlotsTypeOK /\ SupervisorTypeOK
    BY SlotsTyped, SupervisorTyped DEF PartsInv
  <2>2. ObserverTypeOK /\ PollerTypeOK
    BY ObserverTyped, PollerTyped DEF PartsInv
  <2>3. CiTypeOK /\ EngineTypeOK
    BY CiTyped, EngineTyped DEF PartsInv
  <2>4. BranchTypeOK /\ DiscoveryTypeOK
    BY BranchTyped, DiscoveryTyped DEF PartsInv, RewriteInv
  <2> QED BY <2>1, <2>2, <2>3, <2>4 DEF ServicesTypeOK
<1> QED BY <1>1, PartsStart, PartsKeep, PTL DEF Spec
=============================================================================
