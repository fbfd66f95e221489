SPECIFICATION Spec
CONSTANTS
    i1 = i1
    w1 = w1
    h1 = h1
    h2 = h2
    Items <- MCItems
    Workers <- MCWorkers
    NoWorker = NoWorker
    MaxBudget <- MCNoBudget
    Priority <- MCPriority
    CanRun <- MCCanRun
    MaxRetries = 1
    PolicyRetries = 3
    WorkerLimit = 1
    Limits = {2}
    InitLimit = 1
    Costs = {}
    NoResult = NoResult
    Handlers <- TwoHandlers
    MaxAttempts = 2
    MaxSpent = 1
    MaxRestarts = 1
INVARIANTS
    RetriesBounded
SYMMETRY HandlerSymmetry
CHECK_DEADLOCK FALSE
CONSTRAINT OverlapUntilSaved
