\* Liveness: two runs share one worker, so that the queue has to be fair; promotions
\* of a conversation may overlap, so a task may find its run already over.
CONSTANTS
    r1 = r1
    r2 = r2
    w1 = w1
    w2 = w2
    c1 = c1
    ServerRuns = {r1, r2}
    CliRuns = {}
    NoRun = NoRun
    Workers = {w1}
    NoWorker = NoWorker
    Nodes = 2
    NodePhases = {"agent", "pushing"}
    PromoteLimit = 2
SPECIFICATION LiveSpec
PROPERTY
    QueuedRunsSettle
