\* Two server runs on two workers, one run of the local-trigger command.
CONSTANTS
    r1 = r1
    r2 = r2
    w1 = w1
    w2 = w2
    c1 = c1
    ServerRuns = {r1, r2}
    CliRuns = {c1}
    NoRun = NoRun
    Workers = {w1, w2}
    NoWorker = NoWorker
    Nodes = 1
    NodePhases = {"agent"}
    PromoteLimit = 1
SPECIFICATION Spec
SYMMETRY Symmetry
INVARIANTS
    TypeOK
    OneExecution
    NoRunForgotten
    NotifiedAtMostOnce
    ControllerMatchesExecution
PROPERTIES
    ImplementsContract
    TerminalOnlyCancelledLate
