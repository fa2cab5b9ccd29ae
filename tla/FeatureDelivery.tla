--------------------------- MODULE FeatureDelivery ---------------------------
(***************************************************************************)
(* The decisions of a feature-delivery work item: the reducer that turns   *)
(* an event (CI result, review, labels, new commits, progress of a run)    *)
(* into patches of the item, the review policy it follows, and the state   *)
(* transitions that the store accepts.                                     *)
(*                                                                         *)
(* An item is [state, substate, flags, head].  A decision is a sequence of *)
(* patches, each written by an updateState call of its own, and whether    *)
(* the orchestrator is to be asked for a run.  The commands that prepare   *)
(* QA or the merge start runs that never write the item; they are left     *)
(* out, and so are the flags that nothing reads.                           *)
(***************************************************************************)
EXTENDS Naturals, Sequences

CONSTANT
    Policy   \* FeatureDeliveryReducerPolicy, with its five booleans

ASSUME PolicyAssumption ==
    Policy \in [skipProductReview : BOOLEAN,
                resetEngineeringReviewOnNewCommits : BOOLEAN,
                resetQaReviewOnNewCommits : BOOLEAN,
                selfReviewEnabled : BOOLEAN,
                applyReviewFeedbackEnabled : BOOLEAN]

ReviewStates == {"engineering_review", "qa_preparation", "product_review",
                 "qa_review", "ready_for_merge"}
Managed == {"auto_review"} \cup ReviewStates
States  == Managed \cup {"backlog", "in_progress", "done", "cancelled"}

AutoReviewSubstates ==
    {"pr_adopted", "collecting_context", "applying_review_feedback", "waiting_ci",
     "ci_failed", "ci_rerunning", "ci_green_pending_self_review"}
Substates == AutoReviewSubstates \cup
    {"none", "merged", "closed_unmerged", "waiting_engineering_review",
     "preparing_review_app", "waiting_product_review", "waiting_qa_review", "waiting_merge"}

ResetFlags == {"ci_green", "ci_rerun_exhausted", "ci_triage_fix_decided"}
ReviewFlags == {"engineering_review_done", "qa_review_done"}
Flags == ResetFlags \cup ReviewFlags \cup
    {"self_review_done", "product_review_done", "product_review_required",
     "ai_assist_disabled", "pr_closed"}

-----------------------------------------------------------------------------
(* The transitions the store accepts (workflow-policy).                    *)

Successors ==
    [s \in States |->
       CASE s = "backlog"            -> {"in_progress", "auto_review", "done", "cancelled"}
         [] s = "in_progress"        -> {"auto_review", "done", "cancelled"}
         [] s = "auto_review"        -> {"engineering_review", "done", "cancelled"}
         [] s = "engineering_review" -> {"auto_review", "qa_preparation", "product_review",
                                         "qa_review", "done", "cancelled"}
         [] s = "qa_preparation"     -> {"auto_review", "product_review", "qa_review",
                                         "done", "cancelled"}
         [] s = "product_review"     -> {"auto_review", "qa_review", "done", "cancelled"}
         [] s = "qa_review"          -> {"auto_review", "ready_for_merge", "done", "cancelled"}
         [] s = "ready_for_merge"    -> {"auto_review", "done", "cancelled"}
         [] s = "done"               -> {}
         [] s = "cancelled"          -> {"auto_review", "done"}]

Allowed(s, t) == s = t \/ t \in Successors[s]

\* updateState: both columns are replaced, flags are added, then removed.
Patch(s, sub, add, remove) ==
    [state |-> s, substate |-> sub, add |-> add, remove |-> remove]

Patches == [state : States, substate : Substates, add : SUBSET Flags, remove : SUBSET Flags]

Patched(item, p) ==
    [item EXCEPT !.state = p.state, !.substate = p.substate,
                 !.flags = (@ \cup p.add) \ p.remove]

-----------------------------------------------------------------------------
(* The review policy.                                                      *)

Has(item, flag) == flag \in item.flags

\* An adopted pull request keeps github_pr_adopted: only the opt-out counts.
Automated(item) == ~Has(item, "ai_assist_disabled")

SubstateFor(s) ==
    CASE s = "engineering_review" -> "waiting_engineering_review"
      [] s = "qa_preparation"     -> "preparing_review_app"
      [] s = "product_review"     -> "waiting_product_review"
      [] s = "qa_review"          -> "waiting_qa_review"
      [] s = "ready_for_merge"    -> "waiting_merge"
      [] OTHER                    -> "waiting_ci"

AfterEngineeringReview(item) == "qa_preparation"

AfterQaPreparation(item) ==
    IF Has(item, "product_review_required") /\ ~Policy.skipProductReview
      THEN "product_review" ELSE "qa_review"

\* advanceFeatureDeliveryStateAfterQaEntry
AfterQaEntry(s, qaDone) == IF s = "qa_review" /\ qaDone THEN "ready_for_merge" ELSE s

\* How far an item whose CI is green goes: approvals are sticky.
FarthestState(item, green) ==
    CASE ~green                                -> "auto_review"
      [] green /\ Has(item, "qa_review_done")  -> "ready_for_merge"
      [] green /\ ~Has(item, "qa_review_done") /\ Has(item, "product_review_done")
                                               -> "qa_review"
      [] OTHER -> IF Has(item, "engineering_review_done")
                    THEN AfterEngineeringReview(item) ELSE "engineering_review"

\* The states it passes through.  Without the engineering approval it stops
\* there, however far the other flags would take it.
PathAfterAutoReview(item, green) ==
    LET farthest == FarthestState(item, green)
        product  == AfterQaPreparation(item) = "product_review"
        qaPrep   == AfterEngineeringReview(item)
    IN  IF farthest = "auto_review" THEN << >>
        ELSE IF ~Has(item, "engineering_review_done") THEN <<"engineering_review">>
        ELSE CASE farthest = "qa_preparation" -> <<"engineering_review", qaPrep>>
               [] farthest = "qa_review" /\ ~product ->
                    <<"engineering_review", qaPrep, "qa_review">>
               [] farthest = "qa_review" /\ product ->
                    <<"engineering_review", qaPrep, "product_review", "qa_review">>
               [] farthest = "ready_for_merge" /\ ~product ->
                    <<"engineering_review", qaPrep, "qa_review", "ready_for_merge">>
               [] OTHER ->
                    <<"engineering_review", qaPrep, "product_review", "qa_review",
                      "ready_for_merge">>

-----------------------------------------------------------------------------
(* The reducer.                                                            *)

Decision(patches, reconcile) == [patches |-> patches, reconcile |-> reconcile]
NoDecision == Decision(<< >>, FALSE)

\* decisionForStatePath, or a patch that stays in auto_review
PathPatches(path, add) ==
    IF path = << >>
      THEN <<Patch("auto_review", "waiting_ci", add, {})>>
      ELSE [i \in DOMAIN path |->
              Patch(path[i], SubstateFor(path[i]), IF i = 1 THEN add ELSE {}, {})]

\* Enter s, and go on to t if that is another state.
EnterPatches(s, sub, t, add, remove) ==
    IF t = s THEN <<Patch(s, sub, add, remove)>>
             ELSE <<Patch(s, sub, add, remove), Patch(t, SubstateFor(t), {}, {})>>

\* (Mutant: the progress of a run counts as a green CI.)
ProgressReadyGreen(item) ==
    IF item.state # "auto_review" THEN NoDecision
    ELSE Decision(PathPatches(PathAfterAutoReview(item, TRUE), {"self_review_done"}), FALSE)

\* run.feature_delivery_progress_ready
ProgressReady(item) ==
    IF item.state # "auto_review" THEN NoDecision
    ELSE Decision(PathPatches(PathAfterAutoReview(item, Has(item, "ci_green")),
                              {"self_review_done"}), FALSE)

\* github.ci_completed, success
CiSucceeded(item, active) ==
    LET prepared == IF item.state = "qa_preparation"
                      THEN AfterQaPreparation(item) ELSE item.state
    IN  CASE item.state = "auto_review" /\ Policy.selfReviewEnabled
               /\ ~Has(item, "self_review_done") ->
                 Decision(<<Patch("auto_review", "ci_green_pending_self_review",
                                  {"ci_green"}, {})>>,
                          Automated(item) /\ ~Has(item, "ci_green") /\ ~active)
          [] item.state = "auto_review"
               /\ (Has(item, "self_review_done") \/ ~Policy.selfReviewEnabled) ->
                 Decision(PathPatches(PathAfterAutoReview(item, TRUE),
                            IF Policy.selfReviewEnabled THEN {"ci_green"}
                              ELSE {"ci_green", "self_review_done"}), FALSE)
          [] item.state \in {"backlog", "in_progress"} ->
                 Decision(<<Patch(item.state, item.substate, {"ci_green"}, {})>>, FALSE)
          [] item.state \in ReviewStates ->
                 Decision(EnterPatches(prepared, SubstateFor(prepared),
                            AfterQaEntry(prepared, Has(item, "qa_review_done")),
                            {"ci_green"}, {}), FALSE)
          [] OTHER -> NoDecision

\* github.ci_completed, failure
CiFailed(item, active) ==
    CASE item.state \in {"backlog", "in_progress"} ->
           Decision(<<Patch("auto_review", "ci_failed", {}, {"ci_green"})>>, FALSE)
      [] item.state \in Managed ->
           Decision(<<Patch("auto_review",
                        IF item.state = "auto_review" /\ active THEN item.substate
                          ELSE "ci_failed",
                        {}, {"ci_green"})>>,
                    Automated(item) /\ ~active)
      [] OTHER -> NoDecision

\* github.review_submitted: a review app approval never leaves qa_review.
ReviewSubmitted(item, approved) ==
    LET next == IF item.state = "engineering_review"
                  THEN AfterEngineeringReview(item) ELSE "qa_review"
        flag == IF item.state = "engineering_review"
                  THEN "engineering_review_done" ELSE "product_review_done"
    IN  CASE item.state = "qa_review" /\ ~approved /\ ~Policy.applyReviewFeedbackEnabled ->
               Decision(<<Patch("auto_review", "waiting_ci", {}, {})>>, FALSE)
          [] item.state \in {"engineering_review", "product_review"} /\ approved ->
               Decision(EnterPatches(next, SubstateFor(next),
                          AfterQaEntry(next, Has(item, "qa_review_done")),
                          {flag}, {}), FALSE)
          [] item.state \in {"engineering_review", "product_review"} /\ ~approved ->
               Decision(<<Patch("auto_review",
                            IF Policy.applyReviewFeedbackEnabled
                              THEN "applying_review_feedback" ELSE "waiting_ci", {}, {})>>,
                        Automated(item) /\ Policy.applyReviewFeedbackEnabled)
          [] OTHER -> NoDecision

\* (Mutant: any review label passes the engineering review.)
LabelsSyncedAny(item, done) ==
    LET next == IF item.state = "engineering_review" /\ done # {}
                  THEN AfterEngineeringReview(item) ELSE item.state
    IN  IF item.state \notin Managed \/ done \subseteq item.flags THEN NoDecision
        ELSE Decision(<<Patch(next, IF next = item.state THEN item.substate ELSE SubstateFor(next),
                              done, {})>>, FALSE)

\* github.review_labels_synced: the flags follow the labels, but an item
\* never moves backward when a label is taken off.
LabelsSynced(item, done) ==
    LET next == CASE item.state = "engineering_review" /\ "engineering_review_done" \in done ->
                       AfterEngineeringReview(item)
                  [] item.state = "qa_review" /\ "qa_review_done" \in done -> "ready_for_merge"
                  [] OTHER -> item.state
        last == AfterQaEntry(next, "qa_review_done" \in done)
        add    == done \ item.flags
        remove == (ReviewFlags \ done) \cap item.flags
    IN  IF \/ item.state \notin Managed
           \/ next = item.state /\ last = item.state /\ add = {} /\ remove = {}
          THEN NoDecision
          ELSE Decision(EnterPatches(next,
                          IF next = item.state THEN item.substate ELSE SubstateFor(next),
                          last, add, remove), FALSE)

\* (Mutant: new commits leave an item in review where it is.)
SynchronizedStays(item) ==
    IF item.state \notin Managed THEN NoDecision
    ELSE Decision(<<Patch(item.state, item.substate, {}, ResetFlags)>>, FALSE)

\* github.pr_synchronized: new commits.
PrSynchronized(item) ==
    LET ready == item.state = "ready_for_merge"
        stale == CASE ready /\ Policy.resetEngineeringReviewOnNewCommits ->
                        ReviewFlags \cup {"product_review_done"}
                   [] OTHER ->
                        (IF item.state = "engineering_review"
                              /\ Policy.resetEngineeringReviewOnNewCommits
                           THEN {"engineering_review_done"} ELSE {})
                        \cup (IF item.state \in {"qa_review", "ready_for_merge"}
                                   /\ Policy.resetQaReviewOnNewCommits
                                THEN {"qa_review_done"} ELSE {})
    IN  IF item.state \notin Managed THEN NoDecision
        ELSE Decision(<<Patch("auto_review", "waiting_ci", {}, ResetFlags \cup stale)>>, FALSE)

-----------------------------------------------------------------------------
(* The orchestrator's launch rules.                                        *)

ShouldAutoLaunch(item) ==
    /\ item.state = "auto_review" /\ Automated(item)
    /\ ~Has(item, "ci_rerun_exhausted")
    /\ item.substate \in {"pr_adopted", "ci_green_pending_self_review",
                          "applying_review_feedback", "ci_failed"}

\* resolveLaunchPlan: the kind of run, and the substate it leaves.
LaunchKind(item) ==
    CASE item.substate = "applying_review_feedback" -> "apply_review_feedback"
      [] item.substate = "ci_failed" ->
           IF Has(item, "ci_triage_fix_decided") THEN "repair_ci" ELSE "triage_ci"
      [] OTHER -> "self_review"

\* (Mutant: the substate a run works in is named after its kind.)
LaunchSubstateOfKind(item) == LaunchKind(item)

LaunchSubstate(item) ==
    IF LaunchKind(item) = "self_review" THEN "collecting_context" ELSE item.substate

-----------------------------------------------------------------------------
\* Every decision the reducer can take on an item.
Decisions(item) ==
    {ProgressReady(item), PrSynchronized(item)}
      \cup {CiSucceeded(item, a) : a \in BOOLEAN}
      \cup {CiFailed(item, a) : a \in BOOLEAN}
      \cup {ReviewSubmitted(item, a) : a \in BOOLEAN}
      \cup {LabelsSynced(item, done) : done \in SUBSET ReviewFlags}

\* The two tables agree: no decision of the reducer asks for a transition
\* that the store refuses, so a handler whose item nobody else writes never
\* fails halfway through its patches.
Accepted(item, patches) ==
    \A i \in DOMAIN patches :
        Allowed(IF i = 1 THEN item.state ELSE patches[i - 1].state, patches[i].state)

Late == {"qa_preparation", "product_review", "qa_review", "ready_for_merge"}

\* No decision skips a gate: none takes an item out of auto_review without
\* a green CI, past engineering review without that approval, or into
\* ready_for_merge without QA's.  (Only the first patch carries flags.)
GatesKept(item, patches) ==
    LET flags == (item.flags \cup patches[1].add) \ patches[1].remove
    IN  \A i \in DOMAIN patches :
          /\ item.state = "auto_review" /\ patches[i].state \in ReviewStates
               => "ci_green" \in flags
          /\ item.state \in {"auto_review", "engineering_review"} /\ patches[i].state \in Late
               => "engineering_review_done" \in flags
          /\ item.state # "ready_for_merge" /\ patches[i].state = "ready_for_merge"
               => "qa_review_done" \in flags
=============================================================================
