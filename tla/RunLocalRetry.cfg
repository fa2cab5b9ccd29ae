\* A retry of a local-trigger run, and a restart.
CONSTANTS
    r1 = r1
    r2 = r2
    w1 = w1
    w2 = w2
    c1 = c1
    ServerRuns = {r1, r2}
    CliRuns = {c1}
    NoRun = NoRun
    Workers = {w1}
    NoWorker = NoWorker
    Nodes = 1
    NodePhases = {"agent"}
    PromoteLimit = 1
SPECIFICATION Spec
INVARIANT
    OnlyCliRunsSkipped
