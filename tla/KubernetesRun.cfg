SPECIFICATION LiveSpec
CONSTANTS
    PipelineEvents = 1
    MaxEvents = 3
    Losses = 1
    Crashes = 1
    Cancels = 1
INVARIANTS
    TypeOK
    ExitMeansRecorded
    OrphanWasRunning
PROPERTIES
    OnlyCompletionOverturns
    VerdictContract
    Settles
    CheckpointsArrive
CHECK_DEADLOCK FALSE
