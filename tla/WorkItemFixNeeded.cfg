\* A triage run finds that the pull request broke CI; nothing else happens.
SPECIFICATION FairSpec
CONSTANTS
  Policy <- PlainPolicy
  Handlers = {h1}
  HeadLimit = 1
  RunLimit = 2
  EventLimit = 0
  HookLimit = 1
  Happens = {}
  Overlap = 1
  InOrder = TRUE
  RerunLimit = 1
  RepairLimit = 2
  CrashLimit = 0
PROPERTY RepairFollows
CHECK_DEADLOCK FALSE
