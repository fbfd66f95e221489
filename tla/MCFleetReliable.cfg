SPECIFICATION SystemSpec
CONSTANTS
    i1 = i1
    i2 = i2
    i3 = i3
    w1 = w1
    w2 = w2
    h1 = h1
    h2 = h2
    h3 = h3
    Items <- TwoItems
    Workers <- TwoWorkers
    NoWorker = NoWorker
    MaxBudget <- NoneBudgeted
    Priority <- FirstFirst
    CanRun <- TiedPlacement
    MaxRetries = 1
    PolicyRetries = 2
    WorkerLimit = 9
    Limits = {}
    InitLimit = 4
    Costs = {0}
    NoResult = NoResult
    Handlers <- ThreeHandlers
    MaxAttempts = 9
    MaxSpent = 9
    MaxRestarts = 0
    Disturbances = {"fail", "poll_lost", "race", "hold", "reap", "retry_dlq"}
    MaxDisturbed = 3
    MaxSessions = 1
SYMMETRY HandlerSymmetry
CHECK_DEADLOCK FALSE
INVARIANTS
    SingleExecution
    DrainedMeansIdle
    OwnerDiscipline
    PlacementKept
PROPERTIES
    ImplementsLifecycle
