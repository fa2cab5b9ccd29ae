\* Two promotions of one conversation may overlap.
CONSTANTS
    r1 = r1
    r2 = r2
    w1 = w1
    w2 = w2
    c1 = c1
    ServerRuns = {r1}
    CliRuns = {}
    NoRun = NoRun
    Workers = {w1, w2}
    NoWorker = NoWorker
    Nodes = 1
    NodePhases = {"agent"}
    PromoteLimit = 2
SPECIFICATION Spec
PROPERTY
    PromotesConversationsOnly
