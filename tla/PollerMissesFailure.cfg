SPECIFICATION PollerSpec
CONSTANTS
    MaxWorkflow = 2
    PollerCrashes = 0
INVARIANT FailuresAreSeen
CHECK_DEADLOCK FALSE
