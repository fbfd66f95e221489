SPECIFICATION SystemSpec
CONSTANTS
    i1 = i1
    i2 = i2
    i3 = i3
    w1 = w1
    w2 = w2
    h1 = h1
    h2 = h2
    h3 = h3
    Items <- OneItem
    Workers <- TwoWorkers
    NoWorker = NoWorker
    MaxBudget <- AllBudgeted
    Priority <- SamePriority
    CanRun <- AnyPlacement
    MaxRetries = 1
    PolicyRetries = 2
    WorkerLimit = 9
    Limits = {1}
    InitLimit = 2
    Costs = {1}
    NoResult = NoResult
    Handlers <- ThreeHandlers
    MaxAttempts = 9
    MaxSpent = 9
    MaxRestarts = 1
    Disturbances = {"fail", "poll_lost", "start_lost", "report_lost", "slow_launch", "worker_crash", "race", "torn", "cancel", "reap", "retry_dlq", "purge", "hold", "deregister", "limit", "restart"}
    MaxDisturbed = 2
    MaxSessions = 1
SYMMETRY WorkerSymmetry
CHECK_DEADLOCK FALSE
INVARIANTS
    SystemTypeOK
    WorkerLedger
    ReservationsCovered
    NoWorkLost
PROPERTIES
    DrainHolds
