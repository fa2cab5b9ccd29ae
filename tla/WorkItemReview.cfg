\* Webhooks handled one after the other and in order: no review on a red CI.
SPECIFICATION Spec
CONSTANTS
  Policy <- SelfReviewPolicy
  Handlers = {h1}
  HeadLimit = 2
  RunLimit = 2
  EventLimit = 2
  HookLimit = 1
  Happens = {"close", "label", "review"}
  Overlap = 1
  InOrder = TRUE
  RerunLimit = 1
  RepairLimit = 2
  CrashLimit = 0
INVARIANTS GreenBehindReview QuietReview
PROPERTY ApprovalsKept
\* The pull request may rest.
CHECK_DEADLOCK FALSE
