\* Two threads interleave and overtake each other, and the server crashes once:
\* one run at a time, reruns in their budget, sound decisions on every item.
SPECIFICATION Spec
CONSTANTS
  Policy <- PlainPolicy
  Handlers = {h1, h2}
  HeadLimit = 1
  RunLimit = 2
  EventLimit = 1
  HookLimit = 1
  Happens = {"assist", "suite"}
  Overlap = 2
  InOrder = FALSE
  RerunLimit = 1
  RepairLimit = 2
  CrashLimit = 1
SYMMETRY HandlerSymmetry
INVARIANTS TypeOK   SoundDecisions
\* The pull request may rest.
CHECK_DEADLOCK FALSE
