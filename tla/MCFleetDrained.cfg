SPECIFICATION SystemSpec
CONSTANTS
    i1 = i1
    i2 = i2
    i3 = i3
    w1 = w1
    w2 = w2
    h1 = h1
    h2 = h2
    h3 = h3
    Items <- OneItem
    Workers <- TwoWorkers
    NoWorker = NoWorker
    MaxBudget <- AllBudgeted
    Priority <- SamePriority
    CanRun <- AnyPlacement
    MaxRetries = 1
    PolicyRetries = 2
    WorkerLimit = 9
    Limits = {}
    InitLimit = 4
    Costs = {1}
    NoResult = NoResult
    Handlers <- ThreeHandlers
    MaxAttempts = 9
    MaxSpent = 9
    MaxRestarts = 0
    Disturbances = {"fail", "hold", "torn"}
    MaxDisturbed = 3
    MaxSessions = 1
SYMMETRY HandlerSymmetry
CHECK_DEADLOCK FALSE
INVARIANT
    DrainedMeansIdle
