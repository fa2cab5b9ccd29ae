\* The adoption label is taken off and put back around a push.
SPECIFICATION Spec
CONSTANTS
  Policy <- PlainPolicy
  Handlers = {h1}
  HeadLimit = 2
  RunLimit = 1
  EventLimit = 2
  HookLimit = 4
  Happens = {"assist"}
  Overlap = 1
  InOrder = TRUE
  RerunLimit = 1
  RepairLimit = 2
  CrashLimit = 0
INVARIANT QuietReview
CHECK_DEADLOCK FALSE
