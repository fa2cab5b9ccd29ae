----------------------- MODULE FeatureDelivery_proofs -----------------------
(***************************************************************************)
(* Every decision of the reducer is sound: for every item, whatever flags  *)
(* it carries, and for every policy, the store accepts its patches one     *)
(* after the other, and none of them skips a gate, whichever of the        *)
(* patches are written already.                                            *)
(***************************************************************************)
EXTENDS FeatureDelivery, TLAPS

\* The approvals that the one write from state s to state t needs.
Passes(s, t, flags) ==
    /\ s \notin Late /\ t \in Late => "engineering_review_done" \in flags
    /\ s # "ready_for_merge" /\ t = "ready_for_merge" => "qa_review_done" \in flags

\* An item stands behind auto_review only with a green CI.
Green(item) == item.state \in ReviewStates => "ci_green" \in item.flags

\* Written one after the other, the patches take the item from state to
\* state with the approvals each of the writes needs, and keep it green.
Climbs(item, patches) ==
    LET flags == (item.flags \cup patches[1].add) \ patches[1].remove
    IN  \A i \in DOMAIN patches :
          /\ i # 1 => patches[i].add = {} /\ patches[i].remove = {}
          /\ Passes(IF i = 1 THEN item.state ELSE patches[i - 1].state,
                    patches[i].state, flags)
          /\ Green(item) /\ patches[i].state \in ReviewStates => "ci_green" \in flags

Sound(item, patches) ==
    Accepted(item, patches) /\ GatesKept(item, patches) /\ Climbs(item, patches)

\* What a decision on an item needs that leads to state t, where the flags
\* will be these.
Gates(item, t, flags) ==
    /\ item.state = "auto_review" /\ t \in ReviewStates => "ci_green" \in flags
    /\ item.state \in {"auto_review", "engineering_review"} /\ t \in Late
         => "engineering_review_done" \in flags
    /\ item.state # "ready_for_merge" /\ t = "ready_for_merge" => "qa_review_done" \in flags
    /\ Green(item) /\ t \in ReviewStates => "ci_green" \in flags

\* A decision without patches changes nothing.
LEMMA EmptySound ==
    ASSUME NEW item PROVE Sound(item, << >>)
  BY DEF Sound, Accepted, GatesKept, Climbs

\* One patch is sound if the transition is allowed and its gates are passed.
LEMMA OneSound ==
    ASSUME NEW item, NEW p,
           Allowed(item.state, p.state),
           Gates(item, p.state, (item.flags \cup p.add) \ p.remove),
           Passes(item.state, p.state, (item.flags \cup p.add) \ p.remove)
    PROVE  Sound(item, <<p>>)
<1> DEFINE patches == <<p>>
<1>1. DOMAIN patches = {1} /\ patches[1] = p
  OBVIOUS
<1> HIDE DEF patches
<1>2. Accepted(item, patches)
  BY <1>1 DEF Accepted
<1>3. GatesKept(item, patches)
  BY <1>1 DEF GatesKept, Gates
<1>4. Climbs(item, patches)
  BY <1>1 DEF Climbs, Gates
<1> QED
  BY <1>2, <1>3, <1>4 DEF Sound, patches

\* So are two, if both are.
LEMMA TwoSound ==
    ASSUME NEW item, NEW p, NEW q,
           Allowed(item.state, p.state), Allowed(p.state, q.state),
           q.add = {}, q.remove = {},
           Gates(item, p.state, (item.flags \cup p.add) \ p.remove),
           Gates(item, q.state, (item.flags \cup p.add) \ p.remove),
           Passes(item.state, p.state, (item.flags \cup p.add) \ p.remove),
           Passes(p.state, q.state, (item.flags \cup p.add) \ p.remove)
    PROVE  Sound(item, <<p, q>>)
<1> DEFINE patches == <<p, q>>
<1>1. DOMAIN patches = {1, 2} /\ patches[1] = p /\ patches[2] = q
  OBVIOUS
<1> HIDE DEF patches
<1>2. Accepted(item, patches)
  BY <1>1 DEF Accepted
<1>3. GatesKept(item, patches)
  BY <1>1 DEF GatesKept, Gates
<1>4. Climbs(item, patches)
  BY <1>1 DEF Climbs, Gates
<1> QED
  BY <1>2, <1>3, <1>4 DEF Sound, patches

\* The shape of EnterPatches: one patch, or two.
LEMMA EnterSound ==
    ASSUME NEW item, NEW s, NEW sub, NEW t, NEW add, NEW remove,
           Allowed(item.state, s), Allowed(s, t),
           Gates(item, s, (item.flags \cup add) \ remove),
           Gates(item, t, (item.flags \cup add) \ remove),
           Passes(item.state, s, (item.flags \cup add) \ remove),
           Passes(s, t, (item.flags \cup add) \ remove)
    PROVE  Sound(item, EnterPatches(s, sub, t, add, remove))
<1>1. CASE t = s
  <2>1. Sound(item, <<Patch(s, sub, add, remove)>>)
    BY OneSound DEF Patch
  <2> QED BY <1>1, <2>1 DEF EnterPatches
<1>2. CASE t # s
  <2>1. Sound(item, <<Patch(s, sub, add, remove), Patch(t, SubstateFor(t), {}, {})>>)
    BY TwoSound DEF Patch
  <2> QED BY <1>2, <2>1 DEF EnterPatches
<1> QED BY <1>1, <1>2

\* The path of an item whose CI is green climbs one allowed state after the
\* other, and passes engineering review and QA only with their approval.
LEMMA PathSound ==
    ASSUME NEW item, NEW green, NEW add,
           item.state = "auto_review", green \in BOOLEAN,
           green => "ci_green" \in item.flags \cup add
    PROVE  Sound(item, PathPatches(PathAfterAutoReview(item, green), add))
<1> DEFINE path == PathAfterAutoReview(item, green)
           patches == PathPatches(path, add)
<1> USE DEF Successors, States, Managed, ReviewStates, Late, Has
<1>1. CASE path = << >>
  <2>1. patches = <<Patch("auto_review", "waiting_ci", add, {})>>
    BY <1>1 DEF PathPatches
  <2>2. Sound(item, <<Patch("auto_review", "waiting_ci", add, {})>>)
    BY OneSound DEF Patch, Gates, Passes, Allowed
  <2> QED BY <2>1, <2>2
<1>2. CASE path # << >>
  <2>1. green
    <3>1. ~green => FarthestState(item, green) = "auto_review"
      BY DEF FarthestState
    <3>2. FarthestState(item, green) = "auto_review" => path = << >>
      BY DEF PathAfterAutoReview, AfterEngineeringReview
    <3> QED BY <1>2, <3>1, <3>2
  <2>2. /\ DOMAIN patches = DOMAIN path
        /\ \A i \in DOMAIN path : patches[i].state = path[i]
        /\ 1 \in DOMAIN path => patches[1].add = add /\ patches[1].remove = {}
        /\ \A i \in DOMAIN path : i # 1 => patches[i].add = {} /\ patches[i].remove = {}
    BY <1>2 DEF PathPatches, Patch
  <2>3. \/ path = <<"engineering_review">>
        \/ /\ "engineering_review_done" \in item.flags
           /\ \/ path = <<"engineering_review", "qa_preparation">>
              \/ path = <<"engineering_review", "qa_preparation", "qa_review">>
              \/ path = <<"engineering_review", "qa_preparation", "product_review",
                          "qa_review">>
              \/ /\ "qa_review_done" \in item.flags
                 /\ \/ path = <<"engineering_review", "qa_preparation", "qa_review",
                                "ready_for_merge">>
                    \/ path = <<"engineering_review", "qa_preparation", "product_review",
                                "qa_review", "ready_for_merge">>
    <3> DEFINE farthest == FarthestState(item, green)
               approved == "engineering_review_done" \in item.flags
    <3>1. /\ farthest \in {"engineering_review", "qa_preparation", "qa_review", "ready_for_merge"}
          /\ farthest = "ready_for_merge" => "qa_review_done" \in item.flags
          /\ farthest = "engineering_review" => ~approved
      BY <2>1 DEF FarthestState, AfterEngineeringReview
    <3>2. CASE ~approved
      BY <3>1, <3>2 DEF PathAfterAutoReview, AfterEngineeringReview
    <3>3. CASE approved
      <4>1. AfterEngineeringReview(item) = "qa_preparation"
        BY DEF AfterEngineeringReview
      <4>2. CASE farthest = "qa_preparation"
        BY <3>3, <4>1, <4>2 DEF PathAfterAutoReview
      <4>3. CASE farthest = "qa_review"
        BY <3>3, <4>1, <4>3 DEF PathAfterAutoReview
      <4>4. CASE farthest = "ready_for_merge"
        BY <3>1, <3>3, <4>1, <4>4 DEF PathAfterAutoReview
      <4> QED BY <3>1, <3>3, <4>2, <4>3, <4>4
    <3> QED BY <3>2, <3>3
  <2> HIDE DEF path, patches
  <2>4. Accepted(item, patches)
    <3>1. \A i \in DOMAIN path :
             Allowed(IF i = 1 THEN item.state ELSE path[i - 1], path[i])
      BY <2>3 DEF Allowed
    <3>2. \A i \in DOMAIN path : i # 1 => i - 1 \in DOMAIN path
      BY <2>3
    <3> QED BY <2>2, <3>1, <3>2 DEF Accepted
  <2>5. GatesKept(item, patches)
    <3>1. \A i \in DOMAIN path : Gates(item, path[i], item.flags \cup add)
      BY <2>1, <2>3 DEF Gates
    <3>2. 1 \in DOMAIN path
      BY <2>3
    <3> QED BY <2>2, <3>1, <3>2 DEF GatesKept, Gates
  <2>6. Climbs(item, patches)
    <3> DEFINE flags == (item.flags \cup patches[1].add) \ patches[1].remove
               before(i) == IF i = 1 THEN item.state ELSE patches[i - 1].state
    <3>1. 1 \in DOMAIN path /\ \A i \in DOMAIN path : i # 1 => i - 1 \in DOMAIN path
      BY <2>3
    <3>2. flags = item.flags \cup add
      BY <2>2, <3>1
    <3>3. "ci_green" \in flags
      BY <2>1, <3>2
    <3>4. \A i \in DOMAIN path :
             Passes(IF i = 1 THEN item.state ELSE path[i - 1], path[i], item.flags \cup add)
      BY <2>3 DEF Passes
    <3>5. \A i \in DOMAIN path : before(i) = IF i = 1 THEN item.state ELSE path[i - 1]
      BY <2>2, <3>1
    <3> HIDE DEF flags, before
    <3>6. \A i \in DOMAIN path : Passes(before(i), patches[i].state, flags)
      BY <2>2, <3>2, <3>4, <3>5
    <3> QED
      <4>1. \A i \in DOMAIN patches :
              /\ i # 1 => patches[i].add = {} /\ patches[i].remove = {}
              /\ Passes(before(i), patches[i].state, flags)
              /\ Green(item) /\ patches[i].state \in ReviewStates => "ci_green" \in flags
        BY <2>2, <3>3, <3>6
      <4> HIDE DEF Late, ReviewStates
      <4> QED BY <4>1 DEF Climbs, flags, before
  <2> QED BY <2>4, <2>5, <2>6 DEF Sound, patches, path
<1> QED BY <1>1, <1>2

-----------------------------------------------------------------------------
LEMMA ProgressReadySound ==
    ASSUME NEW item PROVE Sound(item, ProgressReady(item).patches)
<1>1. CASE item.state # "auto_review"
  BY <1>1, EmptySound DEF ProgressReady, NoDecision, Decision
<1>2. CASE item.state = "auto_review"
  <2>1. Sound(item, PathPatches(PathAfterAutoReview(item, Has(item, "ci_green")),
                                {"self_review_done"}))
    <3> DEFINE green == Has(item, "ci_green")
    <3>1. green \in BOOLEAN /\ (green => "ci_green" \in item.flags \cup {"self_review_done"})
      BY DEF Has
    <3> HIDE DEF green
    <3>2. Sound(item, PathPatches(PathAfterAutoReview(item, green), {"self_review_done"}))
      BY <1>2, <3>1, PathSound
    <3> QED BY <3>2 DEF green
  <2> QED BY <1>2, <2>1 DEF ProgressReady, Decision
<1> QED BY <1>1, <1>2

LEMMA CiSucceededSound ==
    ASSUME NEW item, NEW active, active \in BOOLEAN, item.state \in States
    PROVE  Sound(item, CiSucceeded(item, active).patches)
<1> DEFINE prepared == IF item.state = "qa_preparation"
                         THEN AfterQaPreparation(item) ELSE item.state
           reviewed == Has(item, "self_review_done")
           d == CiSucceeded(item, active)
<1>1. CASE item.state = "auto_review" /\ Policy.selfReviewEnabled /\ ~reviewed
  <2>1. d.patches = <<Patch("auto_review", "ci_green_pending_self_review", {"ci_green"}, {})>>
    BY <1>1, PolicyAssumption DEF CiSucceeded, Decision, Has, ReviewStates
  <2>2. Sound(item, <<Patch("auto_review", "ci_green_pending_self_review", {"ci_green"}, {})>>)
    BY <1>1, OneSound DEF Patch, Allowed, Gates, Passes, ReviewStates, Late
  <2> QED BY <2>1, <2>2
<1>2. CASE item.state = "auto_review" /\ (reviewed \/ ~Policy.selfReviewEnabled)
  <2>1. PICK add : /\ d.patches = PathPatches(PathAfterAutoReview(item, TRUE), add)
                   /\ "ci_green" \in add
    <3>1. CASE Policy.selfReviewEnabled
      BY <1>2, <3>1 DEF CiSucceeded, Decision, Has, ReviewStates
    <3>2. CASE ~Policy.selfReviewEnabled
      BY <1>2, <3>2 DEF CiSucceeded, Decision, Has, ReviewStates
    <3> QED BY <3>1, <3>2
  <2>2. Sound(item, PathPatches(PathAfterAutoReview(item, TRUE), add))
    BY <1>2, <2>1, PathSound
  <2> QED BY <2>1, <2>2
<1>3. CASE item.state \in {"backlog", "in_progress"}
  <2>1. d.patches = <<Patch(item.state, item.substate, {"ci_green"}, {})>>
    BY <1>3 DEF CiSucceeded, Decision, ReviewStates
  <2>2. Sound(item, <<Patch(item.state, item.substate, {"ci_green"}, {})>>)
    BY <1>3, OneSound DEF Patch, Allowed, Gates, Passes, ReviewStates, Late
  <2> QED BY <2>1, <2>2
<1>4. CASE item.state \in ReviewStates
  <2> DEFINE last == AfterQaEntry(prepared, Has(item, "qa_review_done"))
  <2>1. d.patches = EnterPatches(prepared, SubstateFor(prepared), last, {"ci_green"}, {})
    BY <1>4 DEF CiSucceeded, Decision, ReviewStates
  <2>2. /\ prepared \in ReviewStates /\ Allowed(item.state, prepared)
        /\ item.state = "engineering_review" => prepared = "engineering_review"
        /\ prepared = "ready_for_merge" => item.state = "ready_for_merge"
    BY <1>4 DEF ReviewStates, AfterQaPreparation, Allowed, Successors, States, Managed
  <2>3. \/ last = prepared
        \/ /\ prepared = "qa_review" /\ last = "ready_for_merge"
           /\ "qa_review_done" \in item.flags
    BY DEF AfterQaEntry, Has
  <2> HIDE DEF prepared, last
  <2>4. Allowed(prepared, last)
    BY <2>3 DEF Allowed, Successors, States, Managed, ReviewStates
  <2>5. /\ Gates(item, prepared, (item.flags \cup {"ci_green"}) \ {})
        /\ Gates(item, last, (item.flags \cup {"ci_green"}) \ {})
        /\ Passes(item.state, prepared, (item.flags \cup {"ci_green"}) \ {})
        /\ Passes(prepared, last, (item.flags \cup {"ci_green"}) \ {})
    BY <1>4, <2>2, <2>3 DEF Gates, Passes, ReviewStates, Late
  <2>6. Sound(item, EnterPatches(prepared, SubstateFor(prepared), last, {"ci_green"}, {}))
    BY <2>2, <2>4, <2>5, EnterSound
  <2> QED BY <2>1, <2>6
<1>5. CASE item.state \in {"done", "cancelled"}
  <2>1. d.patches = << >>
    BY <1>5 DEF CiSucceeded, NoDecision, Decision, ReviewStates
  <2> QED BY <2>1, EmptySound
<1> QED BY <1>1, <1>2, <1>3, <1>4, <1>5 DEF States, Managed

LEMMA CiFailedSound ==
    ASSUME NEW item, NEW active, item.state \in States
    PROVE  Sound(item, CiFailed(item, active).patches)
<1>1. CASE item.state \in {"done", "cancelled"}
  <2>1. CiFailed(item, active).patches = << >>
    BY <1>1 DEF CiFailed, NoDecision, Decision, Managed, ReviewStates
  <2> QED BY <2>1, EmptySound
<1>2. CASE item.state \notin {"done", "cancelled"}
  <2>1. PICK sub : CiFailed(item, active).patches
                     = <<Patch("auto_review", sub, {}, {"ci_green"})>>
    BY <1>2 DEF CiFailed, Decision, States, Managed, ReviewStates
  <2>2. Sound(item, <<Patch("auto_review", sub, {}, {"ci_green"})>>)
    BY <1>2, OneSound
    DEF Patch, Allowed, Gates, Passes, Successors, States, Managed, ReviewStates, Late
  <2> QED BY <2>1, <2>2
<1> QED BY <1>1, <1>2

LEMMA ReviewSubmittedSound ==
    ASSUME NEW item, NEW approved, approved \in BOOLEAN, item.state \in States
    PROVE  Sound(item, ReviewSubmitted(item, approved).patches)
<1> DEFINE patches == ReviewSubmitted(item, approved).patches
           reviewed == {"engineering_review", "product_review"}
<1> USE PolicyAssumption
<1>1. CASE item.state = "qa_review" /\ ~approved /\ ~Policy.applyReviewFeedbackEnabled
  <2>1. patches = <<Patch("auto_review", "waiting_ci", {}, {})>>
    BY <1>1 DEF ReviewSubmitted, Decision
  <2>2. Sound(item, <<Patch("auto_review", "waiting_ci", {}, {})>>)
    BY <1>1, OneSound
    DEF Patch, Allowed, Gates, Passes, Successors, States, Managed, ReviewStates, Late
  <2> QED BY <2>1, <2>2
<1>2. CASE item.state = "engineering_review" /\ approved
  <2> DEFINE add == {"engineering_review_done"}
  <2>1. patches = EnterPatches("qa_preparation", SubstateFor("qa_preparation"),
                               "qa_preparation", add, {})
    BY <1>2 DEF ReviewSubmitted, Decision, AfterEngineeringReview, AfterQaEntry
  <2>2. Sound(item, EnterPatches("qa_preparation", SubstateFor("qa_preparation"),
                                 "qa_preparation", add, {}))
    BY <1>2, EnterSound DEF Allowed, Gates, Green, Passes, Successors, States, Managed, ReviewStates, Late
  <2> QED BY <2>1, <2>2
<1>3. CASE item.state = "product_review" /\ approved
  <2> DEFINE add  == {"product_review_done"}
             last == AfterQaEntry("qa_review", Has(item, "qa_review_done"))
  <2>1. patches = EnterPatches("qa_review", SubstateFor("qa_review"), last, add, {})
    BY <1>3 DEF ReviewSubmitted, Decision
  <2>2. last = "qa_review" \/ (last = "ready_for_merge" /\ "qa_review_done" \in item.flags)
    BY DEF AfterQaEntry, Has
  <2> HIDE DEF last
  <2>3. Sound(item, EnterPatches("qa_review", SubstateFor("qa_review"), last, add, {}))
    BY <1>3, <2>2, EnterSound
    DEF Allowed, Gates, Green, Passes, Successors, States, Managed, ReviewStates, Late
  <2> QED BY <2>1, <2>3
<1>4. CASE item.state \in reviewed /\ ~approved
  <2>1. PICK sub : patches = <<Patch("auto_review", sub, {}, {})>>
    BY <1>4 DEF ReviewSubmitted, Decision
  <2>2. Sound(item, <<Patch("auto_review", sub, {}, {})>>)
    BY <1>4, OneSound
    DEF Patch, Allowed, Gates, Passes, Successors, States, Managed, ReviewStates, Late
  <2> QED BY <2>1, <2>2
<1>5. CASE /\ item.state \notin reviewed
           /\ ~(item.state = "qa_review" /\ ~approved /\ ~Policy.applyReviewFeedbackEnabled)
  <2>1. patches = << >>
    BY <1>5 DEF ReviewSubmitted, NoDecision, Decision
  <2> QED BY <2>1, EmptySound
<1> QED BY <1>1, <1>2, <1>3, <1>4, <1>5

LEMMA LabelsSyncedSound ==
    ASSUME NEW item, NEW done, done \subseteq ReviewFlags, item.state \in States
    PROVE  Sound(item, LabelsSynced(item, done).patches)
<1> DEFINE patches == LabelsSynced(item, done).patches
           next == CASE item.state = "engineering_review" /\ "engineering_review_done" \in done ->
                          AfterEngineeringReview(item)
                     [] item.state = "qa_review" /\ "qa_review_done" \in done -> "ready_for_merge"
                     [] OTHER -> item.state
           last   == AfterQaEntry(next, "qa_review_done" \in done)
           sub    == IF next = item.state THEN item.substate ELSE SubstateFor(next)
           add    == done \ item.flags
           remove == (ReviewFlags \ done) \cap item.flags
           flags  == (item.flags \cup add) \ remove
<1>1. patches = << >> \/ (item.state \in Managed /\ patches = EnterPatches(next, sub, last, add, remove))
  BY DEF LabelsSynced, NoDecision, Decision
<1>2. CASE patches = << >>
  BY <1>2, EmptySound
<1>3. CASE item.state \in Managed /\ patches = EnterPatches(next, sub, last, add, remove)
  <2>1. done \subseteq flags
    OBVIOUS
  <2>2. \/ next = item.state
        \/ /\ item.state = "engineering_review" /\ next = "qa_preparation"
           /\ "engineering_review_done" \in flags
        \/ /\ item.state = "qa_review" /\ next = "ready_for_merge"
           /\ "qa_review_done" \in flags
    BY <2>1 DEF AfterEngineeringReview
  <2>3. \/ last = next
        \/ next = "qa_review" /\ last = "ready_for_merge" /\ "qa_review_done" \in flags
    BY <2>1 DEF AfterQaEntry
  <2> HIDE DEF next, last, flags
  <2>4. Allowed(item.state, next) /\ Allowed(next, last)
    BY <1>3, <2>2, <2>3 DEF Allowed, Successors, States, Managed, ReviewStates
  <2>5. /\ Gates(item, next, flags) /\ Gates(item, last, flags)
        /\ Passes(item.state, next, flags) /\ Passes(next, last, flags)
    <3>1. "ci_green" \in item.flags => "ci_green" \in flags
      BY DEF ReviewFlags, flags
    <3> QED BY <1>3, <2>2, <2>3, <3>1 DEF Gates, Green, Passes, Managed, ReviewStates, Late
  <2>6. Sound(item, EnterPatches(next, sub, last, add, remove))
    <3> HIDE DEF sub, add, remove
    <3> QED BY <2>4, <2>5, EnterSound DEF flags
  <2> QED BY <1>3, <2>6
<1> QED BY <1>1, <1>2, <1>3

LEMMA PrSynchronizedSound ==
    ASSUME NEW item, item.state \in States
    PROVE  Sound(item, PrSynchronized(item).patches)
<1>1. CASE item.state \notin Managed
  <2>1. PrSynchronized(item).patches = << >>
    BY <1>1 DEF PrSynchronized, NoDecision, Decision
  <2> QED BY <2>1, EmptySound
<1>2. CASE item.state \in Managed
  <2>1. PICK remove : PrSynchronized(item).patches
                        = <<Patch("auto_review", "waiting_ci", {}, remove)>>
    BY <1>2 DEF PrSynchronized, Decision
  <2>2. Sound(item, <<Patch("auto_review", "waiting_ci", {}, remove)>>)
    BY <1>2, OneSound
    DEF Patch, Allowed, Gates, Passes, Successors, States, Managed, ReviewStates, Late
  <2> QED BY <2>1, <2>2
<1> QED BY <1>1, <1>2

-----------------------------------------------------------------------------
\* All of them together.
LEMMA DecisionSound ==
    ASSUME NEW item, item.state \in States, NEW d \in Decisions(item)
    PROVE  Sound(item, d.patches)
<1>1. CASE d = ProgressReady(item)
  BY <1>1, ProgressReadySound
<1>2. CASE d = PrSynchronized(item)
  BY <1>2, PrSynchronizedSound
<1>3. ASSUME NEW a \in BOOLEAN, d = CiSucceeded(item, a) PROVE Sound(item, d.patches)
  BY <1>3, CiSucceededSound
<1>4. ASSUME NEW a \in BOOLEAN, d = CiFailed(item, a) PROVE Sound(item, d.patches)
  BY <1>4, CiFailedSound
<1>5. ASSUME NEW a \in BOOLEAN, d = ReviewSubmitted(item, a) PROVE Sound(item, d.patches)
  BY <1>5, ReviewSubmittedSound
<1>6. ASSUME NEW done \in SUBSET ReviewFlags, d = LabelsSynced(item, done)
      PROVE  Sound(item, d.patches)
  BY <1>6, LabelsSyncedSound
<1> QED BY <1>1, <1>2, <1>3, <1>4, <1>5, <1>6 DEF Decisions

\* Whatever an item carries and whatever the policy is: the store accepts the
\* patches of every decision, in their order, and none skips a gate.
THEOREM EveryDecisionSound ==
    ASSUME NEW item, item.state \in States
    PROVE  \A d \in Decisions(item) : Accepted(item, d.patches) /\ GatesKept(item, d.patches)
  BY DecisionSound DEF Sound

\* And however many of the patches are written when something stops the rest:
\* every write passes the gate between the two states it joins, and an item
\* that is behind auto_review with a green CI stays so.
THEOREM EveryDecisionClimbs ==
    ASSUME NEW item, item.state \in States
    PROVE  \A d \in Decisions(item) : Climbs(item, d.patches)
  BY DecisionSound DEF Sound

-----------------------------------------------------------------------------
(* What updateState is given: every decision is a list of patches with a   *)
(* state, a substate and flags that the row can have.                      *)

LEMMA PatchTyped ==
    ASSUME NEW s \in States, NEW sub \in Substates,
           NEW add \in SUBSET Flags, NEW remove \in SUBSET Flags
    PROVE  /\ Patch(s, sub, add, remove) \in Patches
           /\ <<Patch(s, sub, add, remove)>> \in Seq(Patches)
<1>1. Patch(s, sub, add, remove) \in Patches
  BY DEF Patch, Patches
<1> QED BY <1>1

LEMMA SubstateForTyped ==
    ASSUME NEW s PROVE SubstateFor(s) \in Substates
  BY DEF SubstateFor, Substates, AutoReviewSubstates

LEMMA EnterTyped ==
    ASSUME NEW s \in States, NEW sub \in Substates, NEW t \in States,
           NEW add \in SUBSET Flags, NEW remove \in SUBSET Flags
    PROVE  EnterPatches(s, sub, t, add, remove) \in Seq(Patches)
<1>1. /\ Patch(s, sub, add, remove) \in Patches
      /\ Patch(t, SubstateFor(t), {}, {}) \in Patches
  <2>1. SubstateFor(t) \in Substates /\ {} \in SUBSET Flags
    BY SubstateForTyped
  <2> QED BY <2>1, PatchTyped
<1> QED BY <1>1 DEF EnterPatches

\* A path leads through states that are managed.
LEMMA PathManaged ==
    ASSUME NEW item, NEW green PROVE PathAfterAutoReview(item, green) \in Seq(Managed)
<1> DEFINE path == PathAfterAutoReview(item, green)
<1>1. \/ path = << >>
      \/ path = <<"engineering_review">>
      \/ path = <<"engineering_review", "qa_preparation">>
      \/ path = <<"engineering_review", "qa_preparation", "qa_review">>
      \/ path = <<"engineering_review", "qa_preparation", "product_review", "qa_review">>
      \/ path = <<"engineering_review", "qa_preparation", "qa_review", "ready_for_merge">>
      \/ path = <<"engineering_review", "qa_preparation", "product_review", "qa_review",
                   "ready_for_merge">>
  <2> DEFINE farthest == FarthestState(item, green)
             product  == AfterQaPreparation(item) = "product_review"
  <2>1. CASE farthest = "auto_review" \/ ~Has(item, "engineering_review_done")
    BY <2>1 DEF PathAfterAutoReview
  <2>2. CASE farthest # "auto_review" /\ Has(item, "engineering_review_done")
    <3>1. AfterEngineeringReview(item) = "qa_preparation"
      BY DEF AfterEngineeringReview
    <3>2. farthest \in {"ready_for_merge", "qa_review", "qa_preparation"}
      BY <2>2, <3>1 DEF FarthestState
    <3> QED BY <2>2, <3>1, <3>2 DEF PathAfterAutoReview
  <2> QED BY <2>1, <2>2
<1>2. /\ "engineering_review" \in Managed /\ "qa_preparation" \in Managed
      /\ "product_review" \in Managed /\ "qa_review" \in Managed
      /\ "ready_for_merge" \in Managed
  BY DEF Managed, ReviewStates
<1>3. /\ << >> \in Seq(Managed)
      /\ <<"engineering_review">> \in Seq(Managed)
      /\ <<"engineering_review", "qa_preparation">> \in Seq(Managed)
      /\ <<"engineering_review", "qa_preparation", "qa_review">> \in Seq(Managed)
  BY <1>2
<1>4. /\ <<"engineering_review", "qa_preparation", "product_review", "qa_review">>
           \in Seq(Managed)
      /\ <<"engineering_review", "qa_preparation", "qa_review", "ready_for_merge">>
           \in Seq(Managed)
      /\ <<"engineering_review", "qa_preparation", "product_review", "qa_review",
           "ready_for_merge">> \in Seq(Managed)
  BY <1>2
<1> HIDE DEF path
<1>5. path \in Seq(Managed)
  BY <1>1, <1>3, <1>4
<1> QED BY <1>5 DEF path

LEMMA PathTyped ==
    ASSUME NEW item, NEW green, NEW add \in SUBSET Flags
    PROVE  PathPatches(PathAfterAutoReview(item, green), add) \in Seq(Patches)
<1> DEFINE path == PathAfterAutoReview(item, green)
           At(i) == Patch(path[i], SubstateFor(path[i]), IF i = 1 THEN add ELSE {}, {})
<1>1. path \in Seq(States)
  BY PathManaged DEF States
<1> HIDE DEF path
<1>2. CASE path = << >>
  <2>1. Patch("auto_review", "waiting_ci", add, {}) \in Patches
    BY DEF Patch, Patches, States, Managed, Substates, AutoReviewSubstates
  <2> QED BY <1>2, <2>1 DEF PathPatches, path
<1>3. CASE path # << >>
  <2>1. \A i \in DOMAIN path : At(i) \in Patches
    BY <1>1, PatchTyped, SubstateForTyped
  <2>2. PathPatches(path, add) = [i \in DOMAIN path |-> At(i)]
    BY <1>3 DEF PathPatches
  <2>3. DOMAIN path = 1..Len(path) /\ Len(path) \in Nat
    BY <1>1
  <2> HIDE DEF At
  <2>4. [i \in DOMAIN path |-> At(i)] \in Seq(Patches)
    BY <2>1, <2>3
  <2> QED BY <2>2, <2>4 DEF path
<1> QED BY <1>2, <1>3

LEMMA DecisionTyped ==
    ASSUME NEW item, item.state \in States, item.substate \in Substates, NEW d \in Decisions(item)
    PROVE  d.patches \in Seq(Patches)
<1> USE DEF Decision, NoDecision
<1>0. /\ ReviewFlags \subseteq Flags /\ ResetFlags \subseteq Flags
      /\ {"self_review_done", "product_review_done", "ci_green"} \subseteq Flags
      /\ << >> \in Seq(Patches)
  BY DEF Flags, ReviewFlags, ResetFlags
<1>1. CASE d = ProgressReady(item)
  <2>1. CASE item.state # "auto_review"
    BY <1>0, <1>1, <2>1 DEF ProgressReady
  <2>2. CASE item.state = "auto_review"
    BY <1>0, <1>1, <2>2, PathTyped DEF ProgressReady
  <2> QED BY <2>1, <2>2
<1>2. CASE d = PrSynchronized(item)
  <2>1. PICK remove \in SUBSET Flags :
          d.patches = << >> \/ d.patches = <<Patch("auto_review", "waiting_ci", {}, remove)>>
    BY <1>0, <1>2 DEF PrSynchronized, ReviewFlags
  <2>2. <<Patch("auto_review", "waiting_ci", {}, remove)>> \in Seq(Patches)
    BY PatchTyped DEF States, Managed, Substates, AutoReviewSubstates
  <2> QED BY <1>0, <2>1, <2>2
<1>3. ASSUME NEW a \in BOOLEAN, d = CiSucceeded(item, a) PROVE d.patches \in Seq(Patches)
  <2> DEFINE prepared == IF item.state = "qa_preparation"
                           THEN AfterQaPreparation(item) ELSE item.state
             last == AfterQaEntry(prepared, Has(item, "qa_review_done"))
  <2>1. \/ d.patches = << >>
        \/ d.patches = <<Patch("auto_review", "ci_green_pending_self_review", {"ci_green"}, {})>>
        \/ d.patches = <<Patch(item.state, item.substate, {"ci_green"}, {})>>
        \/ d.patches = EnterPatches(prepared, SubstateFor(prepared), last, {"ci_green"}, {})
        \/ \E add \in SUBSET Flags :
              d.patches = PathPatches(PathAfterAutoReview(item, TRUE), add)
    <3>1. CASE item.state = "auto_review"
      <4>1. \/ d.patches = <<Patch("auto_review", "ci_green_pending_self_review", {"ci_green"}, {})>>
            \/ d.patches = PathPatches(PathAfterAutoReview(item, TRUE), {"ci_green"})
            \/ d.patches = PathPatches(PathAfterAutoReview(item, TRUE), {"ci_green", "self_review_done"})
        BY <1>3, <3>1, PolicyAssumption DEF CiSucceeded, ReviewStates
      <4> QED BY <1>0, <4>1
    <3>2. CASE item.state \in ReviewStates
      BY <1>3, <3>2 DEF CiSucceeded, ReviewStates
    <3>3. CASE item.state \notin {"auto_review"} \cup ReviewStates
      BY <1>3, <3>3 DEF CiSucceeded
    <3> QED BY <3>1, <3>2, <3>3
  <2>2. prepared \in States /\ last \in States
    BY DEF AfterQaPreparation, AfterQaEntry, States, Managed, ReviewStates
  <2>3. /\ <<Patch("auto_review", "ci_green_pending_self_review", {"ci_green"}, {})>> \in Seq(Patches)
        /\ <<Patch(item.state, item.substate, {"ci_green"}, {})>> \in Seq(Patches)
    BY <1>0, PatchTyped DEF States, Managed, Substates, AutoReviewSubstates
  <2> HIDE DEF prepared, last
  <2>4. EnterPatches(prepared, SubstateFor(prepared), last, {"ci_green"}, {}) \in Seq(Patches)
    BY <1>0, <2>2, SubstateForTyped, EnterTyped
  <2> QED BY <1>0, <2>1, <2>3, <2>4, PathTyped
<1>4. ASSUME NEW a \in BOOLEAN, d = CiFailed(item, a) PROVE d.patches \in Seq(Patches)
  <2>1. \/ d.patches = << >>
        \/ \E sub \in {item.substate, "ci_failed"} :
              d.patches = <<Patch("auto_review", sub, {}, {"ci_green"})>>
    BY <1>4 DEF CiFailed
  <2>2. \A sub \in {item.substate, "ci_failed"} :
           <<Patch("auto_review", sub, {}, {"ci_green"})>> \in Seq(Patches)
    BY <1>0, PatchTyped DEF States, Managed, Substates, AutoReviewSubstates
  <2> QED BY <1>0, <2>1, <2>2
<1>5. ASSUME NEW a \in BOOLEAN, d = ReviewSubmitted(item, a) PROVE d.patches \in Seq(Patches)
  <2> DEFINE next == IF item.state = "engineering_review"
                       THEN AfterEngineeringReview(item) ELSE "qa_review"
             flag == IF item.state = "engineering_review"
                       THEN "engineering_review_done" ELSE "product_review_done"
             last == AfterQaEntry(next, Has(item, "qa_review_done"))
  <2>1. \/ d.patches = << >>
        \/ \E sub \in {"applying_review_feedback", "waiting_ci"} :
              d.patches = <<Patch("auto_review", sub, {}, {})>>
        \/ d.patches = EnterPatches(next, SubstateFor(next), last, {flag}, {})
    BY <1>5 DEF ReviewSubmitted
  <2>2. next \in States /\ last \in States /\ {flag} \in SUBSET Flags
    BY <1>0 DEF AfterEngineeringReview, AfterQaEntry, States, Managed, ReviewStates, ReviewFlags
  <2>3. \A sub \in {"applying_review_feedback", "waiting_ci"} :
           <<Patch("auto_review", sub, {}, {})>> \in Seq(Patches)
    BY PatchTyped DEF States, Managed, Substates, AutoReviewSubstates
  <2> HIDE DEF next, flag, last
  <2>4. EnterPatches(next, SubstateFor(next), last, {flag}, {}) \in Seq(Patches)
    BY <2>2, SubstateForTyped, EnterTyped
  <2> QED BY <1>0, <2>1, <2>3, <2>4
<1>6. ASSUME NEW done \in SUBSET ReviewFlags, d = LabelsSynced(item, done)
      PROVE  d.patches \in Seq(Patches)
  <2> DEFINE next == CASE item.state = "engineering_review" /\ "engineering_review_done" \in done ->
                            AfterEngineeringReview(item)
                       [] item.state = "qa_review" /\ "qa_review_done" \in done -> "ready_for_merge"
                       [] OTHER -> item.state
             last   == AfterQaEntry(next, "qa_review_done" \in done)
             sub    == IF next = item.state THEN item.substate ELSE SubstateFor(next)
             add    == done \ item.flags
             remove == (ReviewFlags \ done) \cap item.flags
  <2>1. d.patches = << >> \/ d.patches = EnterPatches(next, sub, last, add, remove)
    BY <1>6 DEF LabelsSynced
  <2>2. next \in States /\ last \in States
    BY DEF AfterEngineeringReview, AfterQaEntry, States, Managed, ReviewStates
  <2>3. sub \in Substates /\ add \in SUBSET Flags /\ remove \in SUBSET Flags
    BY <1>0, SubstateForTyped
  <2> HIDE DEF next, last, sub, add, remove
  <2> QED BY <1>0, <2>1, <2>2, <2>3, EnterTyped
<1> QED BY <1>1, <1>2, <1>3, <1>4, <1>5, <1>6 DEF Decisions

-----------------------------------------------------------------------------
(* Where decisions lead: an item that is managed stays so, one that was     *)
(* cancelled is left alone, and only a green CI raises ci_green.            *)

Within(patches, add) ==
    \A i \in DOMAIN patches : patches[i].state \in Managed /\ patches[i].add \in {add, {}}

LEMMA EmptyWithin == ASSUME NEW add PROVE Within(<< >>, add)
  BY DEF Within

LEMMA OneWithin ==
    ASSUME NEW s \in Managed, NEW sub, NEW add, NEW remove
    PROVE  Within(<<Patch(s, sub, add, remove)>>, add)
  BY DEF Within, Patch

LEMMA EnterWithin ==
    ASSUME NEW s \in Managed, NEW sub, NEW t \in Managed, NEW add, NEW remove
    PROVE  Within(EnterPatches(s, sub, t, add, remove), add)
  BY DEF Within, EnterPatches, Patch

LEMMA PathWithin ==
    ASSUME NEW item, NEW green, NEW add
    PROVE  Within(PathPatches(PathAfterAutoReview(item, green), add), add)
<1> DEFINE path == PathAfterAutoReview(item, green)
<1>1. path \in Seq(Managed)
  BY PathManaged
<1> HIDE DEF path
<1>2. CASE path = << >>
  <2>1. "auto_review" \in Managed
    BY DEF Managed
  <2>2. PathPatches(path, add) = <<Patch("auto_review", "waiting_ci", add, {})>>
    BY <1>2 DEF PathPatches
  <2> QED BY <2>1, <2>2, OneWithin DEF path
<1>3. CASE path # << >>
  <2>1. \A i \in DOMAIN path : path[i] \in Managed
    BY <1>1
  <2>2. Within(PathPatches(path, add), add)
    BY <1>3, <2>1 DEF PathPatches, Within, Patch
  <2> QED BY <2>2 DEF path
<1> QED BY <1>2, <1>3

LEMMA ProgressWithin ==
    ASSUME NEW item PROVE Within(ProgressReady(item).patches, {"self_review_done"})
  BY EmptyWithin, PathWithin DEF ProgressReady, Decision, NoDecision

LEMMA CiFailedWithin ==
    ASSUME NEW item, item.state \in Managed \cup {"cancelled"}, NEW a
    PROVE  Within(CiFailed(item, a).patches, {})
<1>1. \/ CiFailed(item, a).patches = << >>
      \/ \E sub, remove :
           CiFailed(item, a).patches = <<Patch("auto_review", sub, {}, remove)>>
  BY DEF CiFailed, Decision, NoDecision
<1> QED BY <1>1, EmptyWithin, OneWithin DEF Managed

LEMMA CiSucceededWithin ==
    ASSUME NEW item, item.state \in Managed \cup {"cancelled"}, NEW a \in BOOLEAN
    PROVE  \E add : Within(CiSucceeded(item, a).patches, add)
<1> DEFINE patches == CiSucceeded(item, a).patches
           prepared == IF item.state = "qa_preparation"
                         THEN AfterQaPreparation(item) ELSE item.state
           last == AfterQaEntry(prepared, Has(item, "qa_review_done"))
<1>1. CASE item.state = "auto_review"
  <2>1. \/ patches = <<Patch("auto_review", "ci_green_pending_self_review", {"ci_green"}, {})>>
        \/ patches = PathPatches(PathAfterAutoReview(item, TRUE), {"ci_green"})
        \/ patches = PathPatches(PathAfterAutoReview(item, TRUE), {"ci_green", "self_review_done"})
    BY <1>1, PolicyAssumption DEF CiSucceeded, Decision, NoDecision, ReviewStates
  <2> HIDE DEF patches
  <2>2. "auto_review" \in Managed
    BY DEF Managed
  <2>3. \A add : Within(PathPatches(PathAfterAutoReview(item, TRUE), add), add)
    BY PathWithin
  <2>4. Within(<<Patch("auto_review", "ci_green_pending_self_review", {"ci_green"}, {})>>,
               {"ci_green"})
    BY <2>2, OneWithin
  <2>5. \E add : Within(patches, add)
    BY <2>1, <2>3, <2>4, Zenon
  <2> QED BY <2>5 DEF patches
<1>2. CASE item.state \in ReviewStates
  <2>1. prepared \in Managed /\ last \in Managed
    BY <1>2 DEF AfterQaPreparation, AfterQaEntry, Managed, ReviewStates
  <2>2. patches = EnterPatches(prepared, SubstateFor(prepared), last, {"ci_green"}, {})
    BY <1>2 DEF CiSucceeded, Decision, ReviewStates
  <2> HIDE DEF prepared, last, patches
  <2>3. Within(patches, {"ci_green"})
    BY <2>1, <2>2, EnterWithin
  <2> QED BY <2>3 DEF patches
<1>3. CASE item.state = "cancelled"
  <2>1. patches = << >>
    BY <1>3 DEF CiSucceeded, Decision, NoDecision, ReviewStates
  <2> QED BY <2>1, EmptyWithin
<1> QED BY <1>1, <1>2, <1>3 DEF Managed

LEMMA ReviewWithin ==
    ASSUME NEW item, NEW approved \in BOOLEAN
    PROVE  \E add : "ci_green" \notin add /\ Within(ReviewSubmitted(item, approved).patches, add)
<1> DEFINE patches == ReviewSubmitted(item, approved).patches
           next == IF item.state = "engineering_review"
                     THEN AfterEngineeringReview(item) ELSE "qa_review"
           flag == IF item.state = "engineering_review"
                     THEN "engineering_review_done" ELSE "product_review_done"
           last == AfterQaEntry(next, Has(item, "qa_review_done"))
<1>1. \/ patches = << >>
      \/ \E sub : patches = <<Patch("auto_review", sub, {}, {})>>
      \/ patches = EnterPatches(next, SubstateFor(next), last, {flag}, {})
  BY DEF ReviewSubmitted, Decision, NoDecision
<1>2. next \in Managed /\ last \in Managed /\ "auto_review" \in Managed /\ "ci_green" \notin {flag}
  BY DEF AfterEngineeringReview, AfterQaEntry, Managed, ReviewStates
<1> HIDE DEF patches, next, flag, last
<1>3. patches = << >> => Within(patches, {})
  BY EmptyWithin
<1>4. \A sub : patches = <<Patch("auto_review", sub, {}, {})>> => Within(patches, {})
  BY <1>2, OneWithin
<1>5. Within(EnterPatches(next, SubstateFor(next), last, {flag}, {}), {flag})
  BY <1>2, EnterWithin
<1>6. \E add : "ci_green" \notin add /\ Within(patches, add)
  BY <1>1, <1>2, <1>3, <1>4, <1>5
<1> QED BY <1>6 DEF patches

LEMMA LabelsWithin ==
    ASSUME NEW item, NEW done \in SUBSET ReviewFlags
    PROVE  Within(LabelsSynced(item, done).patches, done \ item.flags)
<1> DEFINE patches == LabelsSynced(item, done).patches
           next == CASE item.state = "engineering_review" /\ "engineering_review_done" \in done ->
                          AfterEngineeringReview(item)
                     [] item.state = "qa_review" /\ "qa_review_done" \in done -> "ready_for_merge"
                     [] OTHER -> item.state
           last   == AfterQaEntry(next, "qa_review_done" \in done)
           sub    == IF next = item.state THEN item.substate ELSE SubstateFor(next)
           add    == done \ item.flags
           remove == (ReviewFlags \ done) \cap item.flags
<1>1. \/ patches = << >>
      \/ item.state \in Managed /\ patches = EnterPatches(next, sub, last, add, remove)
  BY DEF LabelsSynced, NoDecision, Decision
<1>2. item.state \in Managed => next \in Managed /\ last \in Managed
  BY DEF AfterEngineeringReview, AfterQaEntry, Managed, ReviewStates
<1> HIDE DEF patches, next, last, sub, add, remove
<1>3. Within(patches, add)
  BY <1>1, <1>2, EmptyWithin, EnterWithin
<1> QED BY <1>3 DEF patches, add
\* So an item that is neither closed nor merged is not ended by a decision.
Alive == Managed \cup {"cancelled"}

LEMMA DecisionWithin ==
    ASSUME NEW item, item.state \in Alive, NEW d \in Decisions(item)
    PROVE  \E add : Within(d.patches, add)
<1>1. ASSUME NEW a \in BOOLEAN, d = CiSucceeded(item, a) PROVE \E add : Within(d.patches, add)
  BY <1>1, CiSucceededWithin DEF Alive
<1>2. ASSUME NEW a \in BOOLEAN, d = CiFailed(item, a) PROVE \E add : Within(d.patches, add)
  BY <1>2, CiFailedWithin DEF Alive
<1>3. ASSUME NEW a \in BOOLEAN, d = ReviewSubmitted(item, a)
      PROVE  \E add : Within(d.patches, add)
  BY <1>3, ReviewWithin
<1>4. ASSUME NEW done \in SUBSET ReviewFlags, d = LabelsSynced(item, done)
      PROVE  \E add : Within(d.patches, add)
  BY <1>4, LabelsWithin
<1>5. CASE d = ProgressReady(item)
  BY <1>5, ProgressWithin
<1>6. CASE d = PrSynchronized(item)
  <2>1. \/ d.patches = << >>
        \/ \E remove : d.patches = <<Patch("auto_review", "waiting_ci", {}, remove)>>
    BY <1>6 DEF PrSynchronized, NoDecision, Decision
  <2> QED BY <2>1, EmptyWithin, OneWithin DEF Managed
<1> QED BY <1>1, <1>2, <1>3, <1>4, <1>5, <1>6 DEF Decisions
=============================================================================
