-------------------------- MODULE Observer_proofs --------------------------
(***************************************************************************)
(* Safety of the observer, for every number of keys, batches and limits,   *)
(* and of its poller of failed workflows, for every number of them.        *)
(***************************************************************************)
EXTENDS Observer, FailurePoller, FiniteSetTheorems, WellFoundedInduction, TLAPS

-----------------------------------------------------------------------------
(* The observer                                                            *)

ObserverTypes ==
    /\ stage \in [Batches -> {"idle", "next", "dedup", "budget", "start", "record", "count"}]
    /\ current \in [Batches -> EventKeys \cup {NoKey}]
    /\ daily \in Nat /\ started \in Nat /\ uncounted \in Nat
    /\ repeats \in [EventKeys -> Nat] /\ unmarked \in [EventKeys -> Nat]

\* The batches whose start is not counted yet, and those past the budget's check
Counting == {b \in Batches : stage[b] \in {"record", "count"} /\ current[b] \notin Homeless}
Admitted == {b \in Batches : stage[b] \in {"start", "record", "count"}}

\* The batches that may still act on a key, and those that have and not entered it
Acting(k)  == {b \in Batches : stage[b] \in {"budget", "start"} /\ current[b] = k}
Marking(k) == {b \in Batches : stage[b] = "record" /\ current[b] = k}

\* A start is counted, will be, or never is; a batch is let through below the limit.
BudgetInv ==
    /\ started <= daily + uncounted + Cardinality(Counting)
    /\ daily + Cardinality(Admitted) < MaxDaily + Cardinality(Batches)

\* Without an entry each repetition is to be entered, or failed to be; with one
\* only the batches that looked before it was made can act.
Valid(k) == k \in dedup /\ k \notin expired
RepeatInv == \A k \in EventKeys :
    /\ ~Valid(k) => repeats[k] <= unmarked[k] + Cardinality(Marking(k))
    /\ Valid(k) => repeats[k] + Cardinality(Acting(k)) <= unmarked[k] + Cardinality(Batches)

ObInv == ObserverTypes /\ BudgetInv /\ RepeatInv

-----------------------------------------------------------------------------
LEMMA ObserverLimits ==
    /\ IsFiniteSet(Batches) /\ Cardinality(Batches) \in Nat /\ Cardinality(Batches) >= 1
    /\ MaxDaily \in Nat \ {0}
<1>1. IsFiniteSet(Batches) /\ Batches # {} /\ MaxDaily \in Nat \ {0}
  BY ObserverAssumption
<1>2. Cardinality(Batches) \in Nat /\ Cardinality(Batches) # 0
  BY <1>1, FS_CardinalityType, FS_EmptySet
<1> QED BY <1>1, <1>2

\* Sizes of sets of batches
LEMMA Sizes ==
    ASSUME NEW S \in SUBSET Batches
    PROVE  /\ Cardinality(S) \in Nat /\ Cardinality(S) <= Cardinality(Batches)
           /\ \A T \in SUBSET S : Cardinality(T) <= Cardinality(S)
           /\ \A b \in S : Cardinality(S \ {b}) = Cardinality(S) - 1
           /\ \A b \in Batches \ S : Cardinality(S \cup {b}) = Cardinality(S) + 1
<1>1. IsFiniteSet(S)
  BY ObserverLimits, FS_Subset
<1> QED BY <1>1, ObserverLimits, FS_Subset, FS_CardinalityType, FS_AddElement, FS_RemoveElement

LEMMA BatchSets ==
    /\ Counting \in SUBSET Batches /\ Admitted \in SUBSET Batches
    /\ \A k : Acting(k) \in SUBSET Batches /\ Marking(k) \in SUBSET Batches
  BY DEF Counting, Admitted, Acting, Marking

\* A step in which no batch passes a check, a start or an entry: the sets only
\* shrink where that helps.
LEMMA QuietBatches ==
    ASSUME ObInv, ObserverTypes', UNCHANGED <<daily, started, uncounted, repeats, unmarked>>,
           Counting' = Counting, Admitted' \subseteq Admitted,
           \A k \in EventKeys : /\ Marking(k)' = Marking(k) /\ Acting(k)' \subseteq Acting(k)
                                /\ Valid(k)' = Valid(k)
    PROVE  ObInv'
<1>1. Cardinality(Admitted') <= Cardinality(Admitted) /\ Cardinality(Admitted') \in Nat
      /\ Cardinality(Admitted) \in Nat /\ Cardinality(Counting) \in Nat
  BY BatchSets, Sizes
<1>2. BudgetInv'
  BY <1>1, ObserverLimits DEF ObInv, BudgetInv, ObserverTypes
<1>3. ASSUME NEW k \in EventKeys
      PROVE  /\ ~Valid(k)' => repeats'[k] <= unmarked'[k] + Cardinality(Marking(k)')
             /\ Valid(k)' => repeats'[k] + Cardinality(Acting(k)') <= unmarked'[k] + Cardinality(Batches)
  <2>1. /\ Cardinality(Acting(k)') <= Cardinality(Acting(k))
        /\ Cardinality(Acting(k)') \in Nat /\ Cardinality(Acting(k)) \in Nat
    BY BatchSets, Sizes
  <2>2. repeats[k] \in Nat /\ unmarked[k] \in Nat
    BY DEF ObInv, ObserverTypes
  <2>3. CASE Valid(k)
    <3>1. repeats[k] + Cardinality(Acting(k)) <= unmarked[k] + Cardinality(Batches)
      BY <2>3 DEF ObInv, RepeatInv
    <3>2. repeats[k] + Cardinality(Acting(k)') <= unmarked[k] + Cardinality(Batches)
      BY <2>1, <2>2, <3>1, ObserverLimits
    <3> QED BY <2>3, <3>2
  <2>4. CASE ~Valid(k)
    BY <2>4 DEF ObInv, RepeatInv
  <2> QED BY <2>3, <2>4
<1>4. RepeatInv'
  BY <1>3 DEF RepeatInv
<1> QED BY <1>2, <1>4 DEF ObInv

\* A start of batch b is counted, or will never be.
CleanCount(b) ==
    \/ daily' = (IF current[b] \in Homeless THEN daily ELSE daily + 1) /\ uncounted' = uncounted
    \/ uncounted' = (IF current[b] \in Homeless THEN uncounted ELSE uncounted + 1) /\ daily' = daily

LEMMA CountGivenUp ==
    ASSUME ObInv, NEW b \in Batches, CleanCount(b), started' = started,
           Counting' = Counting \ {b}, b \in Counting <=> current[b] \notin Homeless,
           \/ b \in Admitted /\ Admitted' = Admitted \ {b}
           \/ daily' = daily /\ Admitted' \subseteq Admitted
    PROVE  BudgetInv'
<1>1. /\ Cardinality(Counting) \in Nat /\ Cardinality(Counting') \in Nat
      /\ Cardinality(Counting') = IF current[b] \in Homeless THEN Cardinality(Counting)
                                  ELSE Cardinality(Counting) - 1
  <2>1. CASE b \in Counting
    BY <2>1, BatchSets, Sizes
  <2>2. CASE b \notin Counting
    <3>1. Counting' = Counting
      BY <2>2
    <3> QED BY <2>2, <3>1, BatchSets, Sizes
  <2> QED BY <2>1, <2>2
<1>2. started' <= daily' + uncounted' + Cardinality(Counting')
  BY <1>1 DEF CleanCount, ObInv, ObserverTypes, BudgetInv
<1>3. daily' + Cardinality(Admitted') < MaxDaily + Cardinality(Batches)
  <2>1. CASE b \in Admitted /\ Admitted' = Admitted \ {b}
    <3>1. Cardinality(Admitted') = Cardinality(Admitted) - 1 /\ Cardinality(Admitted) \in Nat
      BY <2>1, BatchSets, Sizes
    <3>2. daily' \in {daily, daily + 1}
      BY DEF CleanCount
    <3> QED BY <3>1, <3>2, ObserverLimits DEF ObInv, ObserverTypes, BudgetInv
  <2>2. CASE daily' = daily /\ Admitted' \subseteq Admitted
    <3>1. /\ Cardinality(Admitted') <= Cardinality(Admitted) /\ Cardinality(Admitted) \in Nat
          /\ Cardinality(Admitted') \in Nat
      BY <2>2, BatchSets, Sizes
    <3> QED BY <2>2, <3>1, ObserverLimits DEF ObInv, ObserverTypes, BudgetInv
  <2> QED BY <2>1, <2>2
<1> QED BY <1>2, <1>3 DEF BudgetInv

-----------------------------------------------------------------------------
LEMMA ObserverInitHolds == ObserverInit => ObInv
<1> SUFFICES ASSUME ObserverInit PROVE ObInv
  OBVIOUS
<1>1. ObserverTypes
  BY DEF ObserverInit, ObserverTypes, NoEvents
<1>2. Counting = {} /\ Admitted = {} /\ \A k \in EventKeys : Marking(k) = {}
  BY DEF ObserverInit, Counting, Admitted, Marking
<1>3. Cardinality({}) = 0
  BY FS_EmptySet
<1>4. BudgetInv
  BY <1>2, <1>3, ObserverLimits DEF ObserverInit, BudgetInv
<1>5. RepeatInv
  BY <1>2, <1>3 DEF ObserverInit, RepeatInv, Valid, NoEvents
<1> QED BY <1>1, <1>4, <1>5 DEF ObInv

LEMMA ObserverTypesKeep == ObserverTypes /\ [ObserverNext]_observerVars => ObserverTypes'
<1> SUFFICES ASSUME ObserverTypes, [ObserverNext]_observerVars PROVE ObserverTypes'
  OBVIOUS
<1> USE DEF ObserverTypes, observerQueues, observerTables, observerHistory, observerBounds, GoesTo
<1>0. CASE UNCHANGED observerVars
  BY <1>0 DEF observerVars
<1>1. ASSUME NEW k \in EventKeys,
             EventArrives(k) \/ Reconsider(k) \/ DropDeferred(k) \/ EntryExpires(k)
      PROVE  ObserverTypes'
  BY <1>1 DEF EventArrives, Reconsider, DropDeferred, EntryExpires
<1>2. ASSUME NEW b \in Batches, TakeBatch(b) \/ BatchDone(b) PROVE ObserverTypes'
  BY <1>2 DEF TakeBatch, BatchDone
<1>3. ASSUME NEW b \in Batches, NEW k \in EventKeys, NextEvent(b, k) PROVE ObserverTypes'
  BY <1>3 DEF NextEvent
<1>4. ASSUME NEW b \in Batches, ChecksDedup(b) \/ ChecksBudget(b) PROVE ObserverTypes'
  BY <1>4 DEF ChecksDedup, ChecksBudget
<1>5. ASSUME NEW b \in Batches, BatchThrows(b) PROVE ObserverTypes'
  BY <1>5 DEF BatchThrows
<1>6. ASSUME NEW b \in Batches, Starts(b) PROVE ObserverTypes'
  BY <1>6 DEF Starts
<1>7. ASSUME NEW b \in Batches, Records(b) PROVE ObserverTypes'
  BY <1>7 DEF Records, Uncounted
<1>8. ASSUME NEW b \in Batches, CountsStart(b) PROVE ObserverTypes'
  BY <1>8 DEF CountsStart, Uncounted
<1>9. CASE MidnightPasses
  BY <1>9 DEF MidnightPasses
<1>10. CASE ObserverCrash
  <2>1. Cardinality(Counting) \in Nat /\ \A k \in EventKeys : Cardinality(Marking(k)) \in Nat
    BY BatchSets, Sizes
  <2>2. uncounted' = uncounted + Cardinality(Counting)
    BY <1>10 DEF ObserverCrash, Counting
  <2>3. unmarked' = [k \in EventKeys |-> unmarked[k] + Cardinality(Marking(k))]
    BY <1>10 DEF ObserverCrash, Marking
  <2>4. unmarked' \in [EventKeys -> Nat] /\ uncounted' \in Nat
    BY <2>1, <2>2, <2>3
  <2> QED BY <1>10, <2>4 DEF ObserverCrash
<1> QED
  BY <1>0, <1>1, <1>2, <1>3, <1>4, <1>5, <1>6, <1>7, <1>8, <1>9, <1>10 DEF ObserverNext

-----------------------------------------------------------------------------
LEMMA ObserverKeeps == ObInv /\ [ObserverNext]_observerVars => ObInv'
<1> SUFFICES ASSUME ObInv, [ObserverNext]_observerVars PROVE ObInv'
  OBVIOUS
<1>0. ObserverTypes /\ ObserverTypes'
  BY ObserverTypesKeep DEF ObInv
<1> USE DEF observerQueues, observerTables, observerHistory, observerBounds
<1>1. ASSUME \/ UNCHANGED observerVars
             \/ \E k \in EventKeys : EventArrives(k) \/ Reconsider(k) \/ DropDeferred(k)
             \/ \E b \in Batches : TakeBatch(b) \/ BatchDone(b) \/ \E k \in EventKeys : NextEvent(b, k)
      PROVE  ObInv'
  <2>1. UNCHANGED <<daily, started, uncounted, repeats, unmarked, dedup, expired>>
    BY <1>1 DEF observerVars, EventArrives, Reconsider, DropDeferred, TakeBatch, BatchDone, NextEvent
  <2>2. \A b \in Batches :
          \/ stage'[b] = stage[b] /\ current'[b] = current[b]
          \/ stage[b] \in {"idle", "next"} /\ stage'[b] \in {"idle", "next", "dedup"}
    BY <1>0, <1>1 DEF observerVars, EventArrives, Reconsider, DropDeferred, TakeBatch, BatchDone,
       NextEvent, ObserverTypes
  <2>3. Counting' = Counting /\ Admitted' = Admitted
    BY <2>2 DEF Counting, Admitted
  <2>4. \A k \in EventKeys : Marking(k)' = Marking(k) /\ Acting(k)' = Acting(k) /\ Valid(k)' = Valid(k)
    BY <2>1, <2>2 DEF Marking, Acting, Valid
  <2> QED BY <1>0, <2>1, <2>3, <2>4, QuietBatches
<1>2. ASSUME NEW k \in EventKeys, EntryExpires(k) PROVE ObInv'
  <2>1. /\ repeats' = [repeats EXCEPT ![k] = 0] /\ unmarked' = [unmarked EXCEPT ![k] = 0]
        /\ expired' = expired \cup {k}
        /\ UNCHANGED <<stage, current, dedup, daily, started, uncounted>>
    BY <1>2 DEF EntryExpires
  <2>2. BudgetInv'
    BY <2>1 DEF ObInv, BudgetInv, Counting, Admitted
  <2>3. ASSUME NEW j \in EventKeys
        PROVE  /\ ~Valid(j)' => repeats'[j] <= unmarked'[j] + Cardinality(Marking(j)')
               /\ Valid(j)' => repeats'[j] + Cardinality(Acting(j)') <= unmarked'[j] + Cardinality(Batches)
    <3>1. Marking(j)' = Marking(j) /\ Acting(j)' = Acting(j) /\ Cardinality(Marking(j)) \in Nat
      BY <2>1, BatchSets, Sizes DEF Marking, Acting
    <3>2. CASE j = k
      <4>1. repeats'[j] = 0 /\ unmarked'[j] = 0
        BY <1>0, <2>1, <3>2 DEF ObserverTypes
      <4>2. ~Valid(j)'
        BY <2>1, <3>2 DEF Valid
      <4> QED BY <3>1, <4>1, <4>2
    <3>3. CASE j # k
      <4>1. repeats'[j] = repeats[j] /\ unmarked'[j] = unmarked[j]
        BY <1>0, <2>1, <3>3 DEF ObserverTypes
      <4>2. Valid(j)' <=> Valid(j)
        BY <2>1, <3>3 DEF Valid
      <4> QED BY <3>1, <4>1, <4>2 DEF ObInv, RepeatInv
    <3> QED BY <3>2, <3>3
  <2> QED BY <1>0, <2>2, <2>3 DEF ObInv, RepeatInv
<1>3. ASSUME NEW b \in Batches, BatchThrows(b) PROVE ObInv'
  <2>1. /\ stage[b] \in {"dedup", "budget"} /\ stage' = [stage EXCEPT ![b] = "idle"]
        /\ current' = [current EXCEPT ![b] = NoKey]
        /\ UNCHANGED <<daily, started, uncounted, repeats, unmarked, dedup, expired>>
    BY <1>3 DEF BatchThrows
  <2>2. \A c \in Batches : \/ stage'[c] = stage[c] /\ current'[c] = current[c]
                           \/ stage[c] \in {"dedup", "budget"} /\ stage'[c] = "idle"
    BY <1>0, <2>1 DEF ObserverTypes
  <2>3. Counting' = Counting /\ Admitted' = Admitted
    BY <2>2 DEF Counting, Admitted
  <2>4. \A k \in EventKeys : /\ Marking(k)' = Marking(k) /\ Acting(k)' \subseteq Acting(k)
                             /\ Valid(k)' = Valid(k)
    BY <2>1, <2>2 DEF Marking, Acting, Valid
  <2> QED BY <1>0, <2>1, <2>3, <2>4, QuietBatches
<1>4. ASSUME NEW b \in Batches, ChecksDedup(b) PROVE ObInv'
  <2>0. /\ stage[b] = "dedup"
        /\ UNCHANGED <<daily, started, uncounted, repeats, unmarked>>
    BY <1>4 DEF ChecksDedup
  <2>1. CASE current[b] \in dedup \ expired
    <3>1. GoesTo(b, "next") /\ UNCHANGED <<dedup, expired>>
      BY <1>4, <2>1 DEF ChecksDedup
    <3>2. \A c \in Batches : \/ stage'[c] = stage[c] /\ current'[c] = current[c]
                             \/ stage[c] = "dedup" /\ stage'[c] = "next"
      BY <1>0, <2>0, <3>1 DEF ObserverTypes, GoesTo
    <3>3. Counting' = Counting /\ Admitted' = Admitted
      BY <3>2 DEF Counting, Admitted
    <3>4. \A k \in EventKeys : Marking(k)' = Marking(k) /\ Acting(k)' = Acting(k) /\ Valid(k)' = Valid(k)
      BY <3>1, <3>2 DEF Marking, Acting, Valid
    <3> QED BY <1>0, <2>0, <3>3, <3>4, QuietBatches
  <2>2. CASE current[b] \notin dedup \ expired
    <3>1. /\ GoesTo(b, "budget")
          /\ dedup' = dedup \ {current[b]} /\ expired' = expired \ {current[b]}
      BY <1>4, <2>2 DEF ChecksDedup
    <3>2. \A c \in Batches : /\ current'[c] = current[c]
                             /\ \/ stage'[c] = stage[c]
                                \/ c = b /\ stage[c] = "dedup" /\ stage'[c] = "budget"
      BY <1>0, <2>0, <3>1 DEF ObserverTypes, GoesTo
    <3>3. Counting' = Counting /\ Admitted' = Admitted
      BY <3>2 DEF Counting, Admitted
    <3>4. BudgetInv'
      BY <2>0, <3>3 DEF ObInv, BudgetInv
    <3>5. ASSUME NEW k \in EventKeys
          PROVE  /\ ~Valid(k)' => repeats'[k] <= unmarked'[k] + Cardinality(Marking(k)')
                 /\ Valid(k)' => repeats'[k] + Cardinality(Acting(k)') <= unmarked'[k] + Cardinality(Batches)
      <4>1. Marking(k)' = Marking(k)
        BY <3>2 DEF Marking
      <4>2. Valid(k)' <=> Valid(k)
        BY <2>2, <3>1 DEF Valid
      <4>3. CASE Valid(k)
        <5>1. Acting(k)' = Acting(k)
          BY <2>2, <3>2, <4>3 DEF Acting, Valid
        <5> QED BY <2>0, <4>2, <4>3, <5>1 DEF ObInv, RepeatInv
      <4>4. CASE ~Valid(k)
        BY <2>0, <4>1, <4>2, <4>4 DEF ObInv, RepeatInv
      <4> QED BY <4>3, <4>4
    <3> QED BY <1>0, <3>4, <3>5 DEF ObInv, RepeatInv
  <2> QED BY <2>1, <2>2
<1>5. ASSUME NEW b \in Batches, ChecksBudget(b) PROVE ObInv'
  <2>1. /\ stage[b] = "budget"
        /\ UNCHANGED <<daily, started, uncounted, repeats, unmarked, dedup, expired>>
    BY <1>5 DEF ChecksBudget
  <2>2. \A c \in Batches : \/ stage'[c] = stage[c] /\ current'[c] = current[c]
                           \/ /\ c = b /\ stage[c] = "budget" /\ stage'[c] \in {"start", "next"}
                              /\ stage'[c] = "start" => current'[c] = current[c]
    BY <1>0, <1>5 DEF ObserverTypes, ChecksBudget, GoesTo
  <2>3. Counting' = Counting
    BY <2>2 DEF Counting
  <2>4. \A k \in EventKeys : /\ Marking(k)' = Marking(k) /\ Acting(k)' \subseteq Acting(k)
                             /\ Valid(k)' = Valid(k)
    BY <2>1, <2>2 DEF Marking, Acting, Valid
  <2>5. CASE Admitted' \subseteq Admitted
    BY <1>0, <2>1, <2>3, <2>4, <2>5, QuietBatches
  <2>6. CASE ~(Admitted' \subseteq Admitted)
    <3>1. daily < MaxDaily
      <4>1. stage'[b] = "start"
        BY <2>2, <2>6 DEF Admitted
      <4> QED BY <1>0, <1>5, <4>1 DEF ChecksBudget, GoesTo, ObserverTypes
    <3>2. Cardinality(Admitted') <= Cardinality(Batches) /\ Cardinality(Admitted') \in Nat
      BY BatchSets, Sizes DEF Admitted
    <3>3. daily + Cardinality(Admitted') < MaxDaily + Cardinality(Batches)
      BY <1>0, <3>1, <3>2, ObserverLimits DEF ObserverTypes
    <3>4. BudgetInv'
      BY <2>1, <2>3, <3>3 DEF ObInv, BudgetInv
    <3>5. ASSUME NEW k \in EventKeys
          PROVE  /\ ~Valid(k)' => repeats'[k] <= unmarked'[k] + Cardinality(Marking(k)')
                 /\ Valid(k)' => repeats'[k] + Cardinality(Acting(k)') <= unmarked'[k] + Cardinality(Batches)
      <4>1. Acting(k)' = Acting(k)
        <5>1. stage'[b] = "start"
          BY <2>2, <2>6 DEF Admitted
        <5> QED BY <2>1, <2>2, <5>1 DEF Acting
      <4> QED BY <2>1, <2>4, <4>1 DEF ObInv, RepeatInv, Valid
    <3> QED BY <1>0, <3>4, <3>5 DEF ObInv, RepeatInv
  <2> QED BY <2>5, <2>6
<1>6. ASSUME NEW b \in Batches, Starts(b) PROVE ObInv'
  <2>0. stage[b] = "start" /\ UNCHANGED <<daily, uncounted, unmarked, dedup, expired>>
    BY <1>6 DEF Starts
  <2>1. CASE GoesTo(b, "next") /\ UNCHANGED <<started, repeats>>
    <3>1. \A c \in Batches : \/ stage'[c] = stage[c] /\ current'[c] = current[c]
                             \/ stage[c] = "start" /\ stage'[c] = "next"
      BY <1>0, <2>0, <2>1 DEF ObserverTypes, GoesTo
    <3>2. Counting' = Counting /\ Admitted' \subseteq Admitted
      BY <3>1 DEF Counting, Admitted
    <3>3. \A k \in EventKeys : /\ Marking(k)' = Marking(k) /\ Acting(k)' \subseteq Acting(k)
                               /\ Valid(k)' = Valid(k)
      BY <2>0, <3>1 DEF Marking, Acting, Valid
    <3> QED BY <1>0, <2>0, <2>1, <3>2, <3>3, QuietBatches
  <2>2. CASE /\ GoesTo(b, "record")
             /\ started' = IF current[b] \in Homeless THEN started ELSE started + 1
             /\ repeats' = [repeats EXCEPT ![current[b]] = @ + 1]
    <3>1. \A c \in Batches : /\ current'[c] = current[c]
                             /\ stage'[c] = IF c = b THEN "record" ELSE stage[c]
      BY <1>0, <2>2 DEF ObserverTypes, GoesTo
    <3>2. Admitted' = Admitted
      BY <2>0, <3>1 DEF Admitted
    <3>3. /\ b \notin Counting
          /\ Counting' = IF current[b] \in Homeless THEN Counting ELSE Counting \cup {b}
      BY <2>0, <3>1 DEF Counting
    <3>4. /\ Cardinality(Counting) \in Nat
          /\ Cardinality(Counting') = IF current[b] \in Homeless THEN Cardinality(Counting)
                                      ELSE Cardinality(Counting) + 1
      BY <3>3, BatchSets, Sizes
    <3>5. BudgetInv'
      <4>1. started' <= daily' + uncounted' + Cardinality(Counting')
        BY <1>0, <2>0, <2>2, <3>4 DEF ObInv, BudgetInv, ObserverTypes
      <4> QED BY <2>0, <3>2, <4>1 DEF ObInv, BudgetInv
    <3>6. ASSUME NEW k \in EventKeys
          PROVE  /\ ~Valid(k)' => repeats'[k] <= unmarked'[k] + Cardinality(Marking(k)')
                 /\ Valid(k)' => repeats'[k] + Cardinality(Acting(k)') <= unmarked'[k] + Cardinality(Batches)
      <4>1. Valid(k)' <=> Valid(k)
        BY <2>0 DEF Valid
      <4>2. CASE k # current[b]
        <5>1. Marking(k)' = Marking(k) /\ Acting(k)' = Acting(k)
          BY <2>0, <3>1, <4>2 DEF Marking, Acting
        <5>2. repeats'[k] = repeats[k]
          BY <1>0, <2>2, <4>2 DEF ObserverTypes
        <5> QED BY <2>0, <4>1, <5>1, <5>2 DEF ObInv, RepeatInv
      <4>3. CASE k = current[b]
        <5>1. /\ b \notin Marking(k) /\ Marking(k)' = Marking(k) \cup {b}
              /\ b \in Acting(k) /\ Acting(k)' = Acting(k) \ {b}
          BY <2>0, <3>1, <4>3 DEF Marking, Acting
        <5>2. /\ Cardinality(Marking(k)') = Cardinality(Marking(k)) + 1
              /\ Cardinality(Acting(k)') = Cardinality(Acting(k)) - 1
              /\ Cardinality(Marking(k)) \in Nat /\ Cardinality(Acting(k)) \in Nat
          BY <5>1, BatchSets, Sizes
        <5>3. repeats'[k] = repeats[k] + 1 /\ repeats[k] \in Nat /\ unmarked[k] \in Nat
          BY <1>0, <2>2, <4>3 DEF ObserverTypes
        <5>4. CASE Valid(k)
          <6>1. repeats[k] + Cardinality(Acting(k)) <= unmarked[k] + Cardinality(Batches)
            BY <5>4 DEF ObInv, RepeatInv
          <6>2. repeats'[k] + Cardinality(Acting(k)') <= unmarked[k] + Cardinality(Batches)
            BY <5>2, <5>3, <6>1, ObserverLimits
          <6> QED BY <2>0, <4>1, <5>4, <6>2
        <5>5. CASE ~Valid(k)
          <6>1. repeats[k] <= unmarked[k] + Cardinality(Marking(k))
            BY <5>5 DEF ObInv, RepeatInv
          <6>2. repeats'[k] <= unmarked[k] + Cardinality(Marking(k)')
            BY <5>2, <5>3, <6>1
          <6> QED BY <2>0, <4>1, <5>5, <6>2
        <5> QED BY <5>4, <5>5
      <4> QED BY <4>2, <4>3
    <3> QED BY <1>0, <3>5, <3>6 DEF ObInv, RepeatInv
  <2> QED BY <1>6, <2>1, <2>2 DEF Starts
<1>7. ASSUME NEW b \in Batches, Records(b) PROVE ObInv'
  <2>0. stage[b] = "record" /\ UNCHANGED <<daily, started, repeats>>
    BY <1>7 DEF Records
  <2>1. CASE /\ GoesTo(b, "count")
             /\ dedup' = dedup \cup {current[b]} /\ expired' = expired \ {current[b]}
             /\ UNCHANGED <<uncounted, unmarked>>
    <3>1. \A c \in Batches : /\ current'[c] = current[c]
                             /\ stage'[c] = IF c = b THEN "count" ELSE stage[c]
      BY <1>0, <2>1 DEF ObserverTypes, GoesTo
    <3>2. Counting' = Counting /\ Admitted' = Admitted
      BY <2>0, <3>1 DEF Counting, Admitted
    <3>3. BudgetInv'
      BY <2>0, <2>1, <3>2 DEF ObInv, BudgetInv
    <3>4. ASSUME NEW k \in EventKeys
          PROVE  /\ ~Valid(k)' => repeats'[k] <= unmarked'[k] + Cardinality(Marking(k)')
                 /\ Valid(k)' => repeats'[k] + Cardinality(Acting(k)') <= unmarked'[k] + Cardinality(Batches)
      <4>1. Acting(k)' = Acting(k)
        BY <2>0, <3>1 DEF Acting
      <4>2. CASE k # current[b]
        <5>1. Marking(k)' = Marking(k)
          BY <2>0, <3>1, <4>2 DEF Marking
        <5>2. Valid(k)' <=> Valid(k)
          BY <2>1, <4>2 DEF Valid
        <5> QED BY <2>0, <2>1, <4>1, <5>1, <5>2 DEF ObInv, RepeatInv
      <4>3. CASE k = current[b]
        <5>1. Valid(k)'
          BY <2>1, <4>3 DEF Valid
        <5>2. CASE Valid(k)
          BY <2>0, <2>1, <4>1, <5>1, <5>2 DEF ObInv, RepeatInv
        <5>3. CASE ~Valid(k)
          <6>1. repeats[k] <= unmarked[k] + Cardinality(Marking(k))
            BY <5>3 DEF ObInv, RepeatInv
          <6>2. Cardinality(Marking(k)) + Cardinality(Acting(k)) <= Cardinality(Batches)
            <7>1. Marking(k) \cap Acting(k) = {}
              BY DEF Marking, Acting
            <7>2. IsFiniteSet(Marking(k)) /\ IsFiniteSet(Acting(k))
              BY BatchSets, ObserverLimits, FS_Subset
            <7>3. Cardinality(Marking(k) \cup Acting(k)) =
                    Cardinality(Marking(k)) + Cardinality(Acting(k)) - Cardinality({})
              BY <7>1, <7>2, FS_Union
            <7>4. Cardinality(Marking(k) \cup Acting(k)) <= Cardinality(Batches)
              <8>1. Marking(k) \cup Acting(k) \in SUBSET Batches
                BY BatchSets
              <8> QED BY <8>1, Sizes
            <7>5. Cardinality(Marking(k)) \in Nat /\ Cardinality(Acting(k)) \in Nat
              BY BatchSets, Sizes
            <7> QED BY <7>3, <7>4, <7>5, FS_EmptySet
          <6>3. /\ repeats[k] \in Nat /\ unmarked[k] \in Nat
                /\ Cardinality(Marking(k)) \in Nat /\ Cardinality(Acting(k)) \in Nat
            BY <1>0, BatchSets, Sizes DEF ObserverTypes
          <6>4. repeats[k] + Cardinality(Acting(k)) <= unmarked[k] + Cardinality(Batches)
            BY <6>1, <6>2, <6>3, ObserverLimits
          <6> QED BY <2>0, <2>1, <4>1, <5>1, <6>4
        <5> QED BY <5>2, <5>3
      <4> QED BY <4>2, <4>3
    <3> QED BY <1>0, <3>3, <3>4 DEF ObInv, RepeatInv
  <2>2. CASE /\ GoesTo(b, "next")
             /\ unmarked' = [unmarked EXCEPT ![current[b]] = @ + 1] /\ Uncounted(current[b])
             /\ UNCHANGED <<dedup, expired>>
    <3>1. \A c \in Batches : \/ c # b /\ stage'[c] = stage[c] /\ current'[c] = current[c]
                             \/ c = b /\ stage'[c] = "next"
      BY <1>0, <2>2 DEF ObserverTypes, GoesTo
    <3>2. Admitted' \subseteq Admitted
      BY <3>1 DEF Admitted
    <3>3. Counting' = Counting \ {b} /\ (b \in Counting <=> current[b] \notin Homeless)
      BY <2>0, <3>1 DEF Counting
    <3>4. BudgetInv'
      <4>1. CleanCount(b) /\ daily' = daily
        BY <2>0, <2>2 DEF CleanCount, Uncounted
      <4> QED BY <1>0, <2>0, <3>2, <3>3, <4>1, CountGivenUp DEF ObInv
    <3>5. ASSUME NEW k \in EventKeys
          PROVE  /\ ~Valid(k)' => repeats'[k] <= unmarked'[k] + Cardinality(Marking(k)')
                 /\ Valid(k)' => repeats'[k] + Cardinality(Acting(k)') <= unmarked'[k] + Cardinality(Batches)
      <4>1. Acting(k)' = Acting(k) /\ (Valid(k)' <=> Valid(k))
        BY <2>0, <2>2, <3>1 DEF Acting, Valid
      <4>2. CASE k # current[b]
        <5>1. Marking(k)' = Marking(k)
          BY <2>0, <3>1, <4>2 DEF Marking
        <5>2. unmarked'[k] = unmarked[k]
          BY <1>0, <2>2, <4>2 DEF ObserverTypes
        <5> QED BY <2>0, <4>1, <5>1, <5>2 DEF ObInv, RepeatInv
      <4>3. CASE k = current[b]
        <5>1. b \in Marking(k) /\ Marking(k)' = Marking(k) \ {b}
          BY <2>0, <3>1, <4>3 DEF Marking
        <5>2. /\ Cardinality(Marking(k)') = Cardinality(Marking(k)) - 1
              /\ Cardinality(Marking(k)) \in Nat /\ Cardinality(Acting(k)) \in Nat
          BY <5>1, BatchSets, Sizes
        <5>3. unmarked'[k] = unmarked[k] + 1 /\ repeats[k] \in Nat /\ unmarked[k] \in Nat
          BY <1>0, <2>2, <4>3 DEF ObserverTypes
        <5>4. CASE Valid(k)
          <6>1. repeats[k] + Cardinality(Acting(k)) <= unmarked[k] + Cardinality(Batches)
            BY <5>4 DEF ObInv, RepeatInv
          <6>2. repeats[k] + Cardinality(Acting(k)) <= unmarked'[k] + Cardinality(Batches)
            BY <5>2, <5>3, <6>1, ObserverLimits
          <6> QED BY <2>0, <4>1, <5>4, <6>2
        <5>5. CASE ~Valid(k)
          <6>1. repeats[k] <= unmarked[k] + Cardinality(Marking(k))
            BY <5>5 DEF ObInv, RepeatInv
          <6>2. repeats[k] <= unmarked'[k] + Cardinality(Marking(k)')
            BY <5>2, <5>3, <6>1
          <6> QED BY <2>0, <4>1, <5>5, <6>2
        <5> QED BY <5>4, <5>5
      <4> QED BY <4>2, <4>3
    <3> QED BY <1>0, <3>4, <3>5 DEF ObInv, RepeatInv
  <2> QED BY <1>7, <2>1, <2>2 DEF Records
<1>8. ASSUME NEW b \in Batches, CountsStart(b) PROVE ObInv'
  <2>1. /\ stage[b] = "count" /\ GoesTo(b, "next")
        /\ UNCHANGED <<started, repeats, unmarked, dedup, expired>>
    BY <1>8 DEF CountsStart
  <2>2. CleanCount(b)
    BY <1>8 DEF CountsStart, Uncounted, CleanCount
  <2>3. \A c \in Batches : \/ c # b /\ stage'[c] = stage[c] /\ current'[c] = current[c]
                           \/ c = b /\ stage'[c] = "next"
    BY <1>0, <2>1 DEF ObserverTypes, GoesTo
  <2>4. b \in Admitted /\ Admitted' = Admitted \ {b}
    BY <2>1, <2>3 DEF Admitted
  <2>5. Counting' = Counting \ {b} /\ (b \in Counting <=> current[b] \notin Homeless)
    BY <2>1, <2>3 DEF Counting
  <2>6. BudgetInv'
    BY <1>0, <2>1, <2>2, <2>4, <2>5, CountGivenUp DEF ObInv
  <2>7. \A k \in EventKeys : Marking(k)' = Marking(k) /\ Acting(k)' = Acting(k) /\ (Valid(k)' <=> Valid(k))
    BY <2>1, <2>3 DEF Marking, Acting, Valid
  <2>8. RepeatInv'
    BY <2>1, <2>7 DEF ObInv, RepeatInv
  <2> QED BY <1>0, <2>6, <2>8 DEF ObInv
<1>9. CASE MidnightPasses
  <2>1. /\ daily' = 0 /\ started' = 0 /\ uncounted' = 0
        /\ UNCHANGED <<stage, current, dedup, expired, repeats, unmarked>>
    BY <1>9 DEF MidnightPasses
  <2>2. Counting' = Counting /\ Admitted' = Admitted
    BY <2>1 DEF Counting, Admitted
  <2>3. /\ Cardinality(Counting) \in Nat /\ Cardinality(Admitted) \in Nat
        /\ Cardinality(Admitted) <= Cardinality(Batches)
    BY BatchSets, Sizes
  <2>4. BudgetInv'
    BY <2>1, <2>2, <2>3, ObserverLimits DEF BudgetInv
  <2>5. RepeatInv'
    BY <2>1 DEF ObInv, RepeatInv, Valid, Marking, Acting
  <2> QED BY <1>0, <2>4, <2>5 DEF ObInv
<1>10. CASE ObserverCrash
  <2>1. /\ stage' = [b \in Batches |-> "idle"]
        /\ uncounted' = uncounted + Cardinality(Counting)
        /\ unmarked' = [k \in EventKeys |-> unmarked[k] + Cardinality(Marking(k))]
        /\ dedup' = dedup \ expired /\ expired' = {}
        /\ UNCHANGED <<daily, started, repeats>>
    BY <1>10 DEF ObserverCrash, Counting, Marking
  <2>2. Counting' = {} /\ Admitted' = {} /\ \A k \in EventKeys : Marking(k)' = {} /\ Acting(k)' = {}
    BY <2>1 DEF Counting, Admitted, Marking, Acting
  <2>3. /\ Cardinality({}) = 0
        /\ Cardinality(Counting) \in Nat /\ Cardinality(Admitted) \in Nat
    BY BatchSets, Sizes, FS_EmptySet
  <2>4. BudgetInv'
    BY <1>0, <2>1, <2>2, <2>3, ObserverLimits DEF ObInv, BudgetInv, ObserverTypes
  <2>5. ASSUME NEW k \in EventKeys
        PROVE  /\ ~Valid(k)' => repeats'[k] <= unmarked'[k] + Cardinality(Marking(k)')
               /\ Valid(k)' => repeats'[k] + Cardinality(Acting(k)') <= unmarked'[k] + Cardinality(Batches)
    <3>1. Valid(k)' <=> Valid(k)
      BY <2>1 DEF Valid
    <3>2. /\ unmarked'[k] = unmarked[k] + Cardinality(Marking(k))
          /\ repeats[k] \in Nat /\ unmarked[k] \in Nat
          /\ Cardinality(Marking(k)) \in Nat /\ Cardinality(Acting(k)) \in Nat
      BY <1>0, <2>1, BatchSets, Sizes DEF ObserverTypes
    <3>3. CASE Valid(k)
      <4>1. repeats[k] + Cardinality(Acting(k)) <= unmarked[k] + Cardinality(Batches)
        BY <3>3 DEF ObInv, RepeatInv
      <4>2. repeats[k] + 0 <= unmarked'[k] + Cardinality(Batches)
        BY <3>2, <4>1, ObserverLimits
      <4> QED BY <2>1, <2>2, <2>3, <3>1, <3>3, <4>2
    <3>4. CASE ~Valid(k)
      <4>1. repeats[k] <= unmarked[k] + Cardinality(Marking(k))
        BY <3>4 DEF ObInv, RepeatInv
      <4>2. repeats[k] <= unmarked'[k] + 0
        BY <3>2, <4>1
      <4> QED BY <2>1, <2>2, <2>3, <3>1, <3>4, <4>2
    <3> QED BY <3>3, <3>4
  <2> QED BY <1>0, <2>4, <2>5 DEF ObInv, RepeatInv
<1> QED
  BY <1>1, <1>2, <1>3, <1>4, <1>5, <1>6, <1>7, <1>8, <1>9, <1>10 DEF ObserverNext

\* The observer's invariant holds, always.
THEOREM ObserverInductive == ObserverSpec => []ObInv
  BY ObserverInitHolds, ObserverKeeps, PTL DEF ObserverSpec

\* The budget per day is kept but for the batches that overlap and the counts
\* that are lost (safety.ts, daemon.ts).
THEOREM KeepsBudget == ObserverSpec => []BudgetKept
<1>1. ASSUME ObInv PROVE BudgetKept
  <2>1. /\ Cardinality(Counting) \in Nat /\ Cardinality(Admitted) \in Nat
        /\ Cardinality(Counting) <= Cardinality(Admitted)
    <3>1. Counting \in SUBSET Admitted
      BY DEF Counting, Admitted
    <3> QED BY <3>1, BatchSets, Sizes
  <2> QED BY <1>1, <2>1, ObserverLimits DEF ObInv, ObserverTypes, BudgetInv, BudgetKept
<1> QED BY <1>1, ObserverInductive, PTL

\* An event is acted on once per overlapping batch and per entry that could not
\* be written (daemon.ts, processEvent).
THEOREM DeduplicatesEvents == ObserverSpec => []ActsOncePerBatch
<1>1. ASSUME ObInv, NEW k \in EventKeys PROVE repeats[k] <= Cardinality(Batches) + unmarked[k]
  <2>1. /\ repeats[k] \in Nat /\ unmarked[k] \in Nat
        /\ Cardinality(Marking(k)) \in Nat /\ Cardinality(Marking(k)) <= Cardinality(Batches)
        /\ Cardinality(Acting(k)) \in Nat
    BY <1>1, BatchSets, Sizes DEF ObInv, ObserverTypes
  <2>2. \/ repeats[k] <= unmarked[k] + Cardinality(Marking(k))
        \/ repeats[k] + Cardinality(Acting(k)) <= unmarked[k] + Cardinality(Batches)
    BY <1>1 DEF ObInv, RepeatInv
  <2> QED BY <2>1, <2>2, ObserverLimits
<1>2. ObInv => ActsOncePerBatch
  BY <1>1 DEF ActsOncePerBatch
<1> QED BY <1>2, ObserverInductive, PTL

-----------------------------------------------------------------------------
(* The poller of failed workflows                                          *)

\* What the poll holds is above the cursor until the cursor is stored, and was
\* never reported; what was reported is not above it.
ReportInv ==
    /\ cursor \in Nat /\ found \subseteq Workflows
    /\ reported \in [Workflows -> Nat]
    /\ ReportedOnce
    /\ \A w \in Workflows : reported[w] > 0 => w <= cursor
    /\ poll = "store" => found # {} /\ \A w \in found : w > cursor
    /\ poll = "enqueue" => \A w \in found : reported[w] = 0 /\ w <= cursor

\* A page of failures has a newest one.
LEMMA NewestExists ==
    ASSUME NEW S \in SUBSET Workflows, S # {}
    PROVE  \E w \in S : \A v \in S : v <= w
<1>0. MaxWorkflow \in Nat
  BY PollerAssumption
<1> DEFINE T == {MaxWorkflow - w : w \in S}
<1>1. T \subseteq Nat /\ T # {}
  <2>1. \A w \in S : MaxWorkflow - w \in Nat
    BY <1>0 DEF Workflows
  <2>2. PICK w \in S : TRUE
    OBVIOUS
  <2>3. MaxWorkflow - w \in T
    OBVIOUS
  <2> QED BY <2>1, <2>3
<1>2. PICK x \in T : \A y \in T : ~(<<y, x>> \in OpToRel(<, Nat))
  BY <1>1, WFMin, NatLessThanWellFounded
<1>3. PICK w \in S : x = MaxWorkflow - w
  OBVIOUS
<1>4. ASSUME NEW v \in S PROVE v <= w
  <2>1. MaxWorkflow - v \in T
    OBVIOUS
  <2>2. ~(MaxWorkflow - v < MaxWorkflow - w)
    BY <1>0, <1>1, <1>2, <1>3, <2>1 DEF OpToRel
  <2> QED BY <1>0, <2>2 DEF Workflows
<1> QED BY <1>4

\* The step of one poll or workflow keeps what the cursor says.
LEMMA ReportKeeps == ReportInv /\ [PollerNext]_pollerVars => ReportInv'
<1> SUFFICES ASSUME ReportInv, [PollerNext]_pollerVars PROVE ReportInv'
  OBVIOUS
<1> USE DEF ReportInv, ReportedOnce
<1>0. CASE UNCHANGED pollerVars
  BY <1>0 DEF pollerVars
<1>1. CASE \E w \in Workflows : WorkflowStarts(w) \/ WorkflowEnds(w)
  BY <1>1 DEF WorkflowStarts, WorkflowEnds
<1>2. CASE PollFetches
  BY <1>2 DEF PollFetches, NewFailures
<1>3. CASE PollStores
  <2>1. /\ poll = "store" /\ poll' = "enqueue" /\ UNCHANGED <<found, reported>>
        /\ cursor' = CHOOSE w \in found : \A v \in found : v <= w
    BY <1>3 DEF PollStores
  <2>2. cursor' \in found /\ \A v \in found : v <= cursor'
    BY <2>1, NewestExists
  <2>3. cursor' \in Nat /\ cursor' > cursor
    <3>1. cursor' \in Workflows /\ Workflows \subseteq Nat
      BY <2>2, PollerAssumption DEF Workflows
    <3> QED BY <2>1, <2>2, <3>1
  <2>4. \A w \in found : reported[w] = 0
    BY <2>1 DEF Workflows
  <2>5. \A w \in Workflows : reported[w] > 0 => w <= cursor'
    BY <2>3 DEF Workflows
  <2> QED BY <2>1, <2>2, <2>3, <2>4, <2>5
<1>4. CASE PollEnqueues
  BY <1>4 DEF PollEnqueues
<1>5. CASE PollLost
  BY <1>5 DEF PollLost
<1> QED BY <1>0, <1>1, <1>2, <1>3, <1>4, <1>5 DEF PollerNext

\* No failure is handed on twice, whatever crashes (github-poller.ts).
THEOREM ReportsOnce == PollerSpec => []ReportedOnce
<1>1. PollerInit => ReportInv
  BY DEF PollerInit, ReportInv, ReportedOnce
<1>2. ReportInv => ReportedOnce
  BY DEF ReportInv
<1> QED BY <1>1, <1>2, ReportKeeps, PTL DEF PollerSpec

-----------------------------------------------------------------------------
(* The remaining types of the observer and of the poller                   *)

QueueTypes ==
    /\ pendingEvents \in [EventKeys -> Nat] /\ deferred \in [EventKeys -> Nat]
    /\ todoEvents \in [Batches -> [EventKeys -> Nat]]
    /\ dedup \subseteq EventKeys /\ expired \subseteq dedup
    /\ arrivals \in 0 .. MaxArrivals /\ mishaps \in 0 .. MaxMishaps

\* A batch that waits within an event knows its key.
KeyInv == \A b \in Batches : stage[b] \notin {"idle", "next"} => current[b] \in EventKeys

LEMMA MishapCounts ==
    ASSUME mishaps \in 0 .. MaxMishaps, arrivals \in 0 .. MaxArrivals,
           Mishap \/ UNCHANGED observerBounds
    PROVE  mishaps' \in 0 .. MaxMishaps /\ arrivals' \in 0 .. MaxArrivals
  BY ObserverAssumption DEF Mishap, observerBounds

\* What an event adds to a queue is one of its key at most.
LEMMA QueueGrows ==
    ASSUME NEW q \in [EventKeys -> Nat], NEW k \in EventKeys, NEW full
    PROVE  [q EXCEPT ![k] = IF full THEN @ ELSE @ + 1] \in [EventKeys -> Nat]
  OBVIOUS

LEMMA QueueShrinks ==
    ASSUME NEW q \in [EventKeys -> Nat], NEW k \in EventKeys, q[k] > 0
    PROVE  [q EXCEPT ![k] = @ - 1] \in [EventKeys -> Nat]
  OBVIOUS

LEMMA QueueTypesKeep ==
    ASSUME ObserverTypes, QueueTypes, KeyInv, [ObserverNext]_observerVars PROVE QueueTypes'
<1> USE DEF observerQueues, observerTables, observerHistory, observerBounds
<1>0. CASE UNCHANGED observerVars
  BY <1>0 DEF observerVars, QueueTypes
<1>1. ASSUME NEW k \in EventKeys, EventArrives(k) PROVE QueueTypes'
  <2>1. pendingEvents' \in [EventKeys -> Nat]
    BY <1>1, QueueGrows DEF EventArrives, QueueTypes
  <2>2. arrivals' \in 0 .. MaxArrivals /\ mishaps' = mishaps
    BY <1>1, ObserverAssumption DEF EventArrives, QueueTypes
  <2> QED BY <1>1, <2>1, <2>2 DEF EventArrives, QueueTypes
<1>2. ASSUME NEW k \in EventKeys, Reconsider(k) \/ DropDeferred(k) PROVE QueueTypes'
  <2>1. deferred' \in [EventKeys -> Nat]
    BY <1>2, QueueShrinks DEF Reconsider, DropDeferred, QueueTypes
  <2>2. pendingEvents' \in [EventKeys -> Nat]
    BY <1>2, QueueGrows DEF Reconsider, DropDeferred, QueueTypes
  <2> QED BY <1>2, <2>1, <2>2 DEF Reconsider, DropDeferred, QueueTypes
<1>3. ASSUME NEW k \in EventKeys, EntryExpires(k) PROVE QueueTypes'
  <2>1. mishaps' \in 0 .. MaxMishaps /\ arrivals' \in 0 .. MaxArrivals
    BY <1>3, MishapCounts DEF EntryExpires, QueueTypes
  <2> QED BY <1>3, <2>1 DEF EntryExpires, QueueTypes
<1>4. ASSUME NEW b \in Batches, TakeBatch(b) \/ BatchDone(b) PROVE QueueTypes'
  <2>1. pendingEvents' \in [EventKeys -> Nat]
    BY <1>4 DEF TakeBatch, BatchDone, QueueTypes, NoEvents
  <2>2. todoEvents' \in [Batches -> [EventKeys -> Nat]]
    BY <1>4 DEF TakeBatch, BatchDone, QueueTypes
  <2> QED BY <1>4, <2>1, <2>2 DEF TakeBatch, BatchDone, QueueTypes
<1>5. ASSUME NEW b \in Batches, NEW k \in EventKeys, NextEvent(b, k) PROVE QueueTypes'
  <2>1. todoEvents' \in [Batches -> [EventKeys -> Nat]]
    <3>1. [todoEvents[b] EXCEPT ![k] = @ - 1] \in [EventKeys -> Nat]
      BY <1>5, QueueShrinks DEF NextEvent, QueueTypes
    <3>2. todoEvents' = [todoEvents EXCEPT ![b] = [todoEvents[b] EXCEPT ![k] = @ - 1]]
      BY <1>5 DEF NextEvent
    <3> QED BY <3>1, <3>2 DEF QueueTypes
  <2>2. deferred' \in [EventKeys -> Nat]
    BY <1>5, QueueGrows DEF NextEvent, QueueTypes
  <2> QED BY <1>5, <2>1, <2>2 DEF NextEvent, QueueTypes
<1>6. ASSUME NEW b \in Batches, ChecksDedup(b) \/ ChecksBudget(b) \/ Starts(b) PROVE QueueTypes'
  BY <1>6 DEF ChecksDedup, ChecksBudget, Starts, QueueTypes
<1>7. ASSUME NEW b \in Batches, BatchThrows(b) PROVE QueueTypes'
  <2>1. mishaps' \in 0 .. MaxMishaps /\ arrivals' \in 0 .. MaxArrivals
    BY <1>7, MishapCounts DEF BatchThrows, QueueTypes
  <2>2. todoEvents' \in [Batches -> [EventKeys -> Nat]]
    BY <1>7 DEF BatchThrows, QueueTypes, NoEvents
  <2> QED BY <1>7, <2>1, <2>2 DEF BatchThrows, QueueTypes
<1>8. ASSUME NEW b \in Batches, Records(b) PROVE QueueTypes'
  <2>1. mishaps' \in 0 .. MaxMishaps /\ arrivals' \in 0 .. MaxArrivals
    BY <1>8, MishapCounts DEF Records, QueueTypes
  <2>2. current[b] \in EventKeys
    BY <1>8 DEF Records, KeyInv
  <2>3. dedup' \subseteq EventKeys /\ expired' \subseteq dedup'
    BY <1>8, <2>2 DEF Records, QueueTypes
  <2> QED BY <1>8, <2>1, <2>2, <2>3 DEF Records, QueueTypes
<1>9. ASSUME NEW b \in Batches, CountsStart(b) PROVE QueueTypes'
  <2>1. mishaps' \in 0 .. MaxMishaps /\ arrivals' \in 0 .. MaxArrivals
    BY <1>9, MishapCounts DEF CountsStart, QueueTypes
  <2> QED BY <1>9, <2>1 DEF CountsStart, QueueTypes
<1>10. CASE MidnightPasses
  <2>1. mishaps' \in 0 .. MaxMishaps /\ arrivals' \in 0 .. MaxArrivals
    BY <1>10, MishapCounts DEF MidnightPasses, QueueTypes
  <2> QED BY <1>10, <2>1 DEF MidnightPasses, QueueTypes
<1>11. CASE ObserverCrash
  <2>1. mishaps' \in 0 .. MaxMishaps /\ arrivals' \in 0 .. MaxArrivals
    BY <1>11, MishapCounts DEF ObserverCrash, QueueTypes
  <2> QED BY <1>11, <2>1 DEF ObserverCrash, QueueTypes, NoEvents
<1> QED BY <1>0, <1>1, <1>2, <1>3, <1>4, <1>5, <1>6, <1>7, <1>8, <1>9, <1>10, <1>11 DEF ObserverNext

LEMMA KeyKeeps ==
    ASSUME ObserverTypes, KeyInv, [ObserverNext]_observerVars PROVE KeyInv'
<1> SUFFICES ASSUME NEW b \in Batches PROVE stage'[b] \notin {"idle", "next"} => current'[b] \in EventKeys
  BY DEF KeyInv
<1>1. stage[b] \notin {"idle", "next"} => current[b] \in EventKeys
  BY DEF KeyInv
<1> USE <1>1 DEF ObserverTypes, observerQueues, observerTables, observerHistory, observerBounds, GoesTo
<1>2. CASE \/ UNCHANGED observerVars
           \/ \E k \in EventKeys : EventArrives(k) \/ Reconsider(k) \/ DropDeferred(k) \/ EntryExpires(k)
           \/ MidnightPasses \/ ObserverCrash
  BY <1>2 DEF observerVars, EventArrives, Reconsider, DropDeferred, EntryExpires, MidnightPasses,
              ObserverCrash
<1>3. ASSUME NEW c \in Batches, \/ TakeBatch(c) \/ BatchDone(c) \/ BatchThrows(c)
                                \/ \E k \in EventKeys : NextEvent(c, k)
      PROVE  stage'[b] \notin {"idle", "next"} => current'[b] \in EventKeys
  BY <1>3 DEF TakeBatch, BatchDone, BatchThrows, NextEvent
<1>4. ASSUME NEW c \in Batches, ChecksDedup(c) \/ ChecksBudget(c) \/ Starts(c) \/ Records(c) \/ CountsStart(c)
      PROVE  stage'[b] \notin {"idle", "next"} => current'[b] \in EventKeys
  BY <1>4 DEF ChecksDedup, ChecksBudget, Starts, Records, CountsStart
<1> QED BY <1>2, <1>3, <1>4 DEF ObserverNext

LEMMA ObserverStarts == ObserverInit => ObserverTypes /\ QueueTypes /\ KeyInv
<1> SUFFICES ASSUME ObserverInit PROVE QueueTypes /\ KeyInv
  BY ObserverInitHolds DEF ObInv
<1>1. QueueTypes
  BY ObserverAssumption DEF ObserverInit, QueueTypes, NoEvents
<1> QED BY <1>1 DEF ObserverInit, KeyInv

LEMMA ObserverTyped == ObserverTypes /\ QueueTypes => ObserverTypeOK
  BY DEF ObserverTypes, QueueTypes, ObserverTypeOK

\* The queues, batches, tables and counters hold what they may (daemon.ts).
THEOREM ObserverTypesHold == ObserverSpec => []ObserverTypeOK
  BY ObserverStarts, ObserverTypesKeep, QueueTypesKeep, KeyKeeps, ObserverTyped, PTL DEF ObserverSpec

PollerRest ==
    /\ workflow \in [Workflows -> {"none", "running", "passed", "failed"}]
    /\ cursor \in 0 .. MaxWorkflow /\ poll \in {"idle", "store", "enqueue"}
    /\ pollerCrashes \in 0 .. PollerCrashes

LEMMA PollerRestKeeps == ASSUME ReportInv, PollerRest, [PollerNext]_pollerVars PROVE PollerRest'
<1>1. CASE UNCHANGED pollerVars
  BY <1>1 DEF pollerVars, PollerRest
<1>2. CASE \E w \in Workflows : WorkflowStarts(w) \/ WorkflowEnds(w)
  BY <1>2 DEF WorkflowStarts, WorkflowEnds, PollerRest
<1>3. CASE PollFetches \/ PollEnqueues
  BY <1>3 DEF PollFetches, PollEnqueues, PollerRest
<1>4. CASE PollStores
  <2>1. /\ poll = "store" /\ cursor' = CHOOSE w \in found : \A v \in found : v <= w
        /\ poll' = "enqueue" /\ UNCHANGED <<workflow, pollerCrashes>>
    BY <1>4 DEF PollStores
  <2>2. cursor' \in found /\ found \subseteq Workflows
    BY <2>1, NewestExists DEF ReportInv
  <2>3. cursor' \in 0 .. MaxWorkflow
    BY <2>2, PollerAssumption DEF Workflows
  <2> QED BY <2>1, <2>3 DEF PollerRest
<1>5. CASE PollLost
  <2>1. pollerCrashes' \in 0 .. PollerCrashes
    BY <1>5, PollerAssumption DEF PollLost, PollerRest
  <2> QED BY <1>5, <2>1 DEF PollLost, PollerRest
<1> QED BY <1>1, <1>2, <1>3, <1>4, <1>5 DEF PollerNext

LEMMA PollerStarts == PollerInit => ReportInv /\ PollerRest
  BY PollerAssumption DEF PollerInit, ReportInv, ReportedOnce, PollerRest

LEMMA PollerTyped == ReportInv /\ PollerRest => PollerTypeOK
  BY DEF ReportInv, PollerRest, PollerTypeOK

\* The poller's cursor is the number of a workflow run, or none (github-poller.ts).
THEOREM PollerTypesHold == PollerSpec => []PollerTypeOK
  BY PollerStarts, ReportKeeps, PollerRestKeeps, PollerTyped, PTL DEF PollerSpec
=============================================================================
