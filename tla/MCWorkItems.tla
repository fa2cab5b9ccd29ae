----------------------------- MODULE MCWorkItems -----------------------------
(* Instances of WorkItems for TLC: the policies that the runs take.        *)
EXTENDS WorkItems, TLC

\* Self-review and review feedback by runs, as the dashboard's wizard sets up.
SelfReviewPolicy ==
    [skipProductReview |-> FALSE, resetEngineeringReviewOnNewCommits |-> FALSE,
     resetQaReviewOnNewCommits |-> FALSE, selfReviewEnabled |-> TRUE,
     applyReviewFeedbackEnabled |-> TRUE]

\* The defaults: neither, and approvals survive new commits.
PlainPolicy ==
    [SelfReviewPolicy EXCEPT !.selfReviewEnabled = FALSE, !.applyReviewFeedbackEnabled = FALSE]

\* Which handler takes a webhook makes no difference (safety only).
HandlerSymmetry == Permutations(Handlers)
=============================================================================
