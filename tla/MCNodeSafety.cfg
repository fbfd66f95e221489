SPECIFICATION NodeSpec
CONSTANTS
    Parts = {"loops", "team", "sessions", "automation", "leader", "bus", "runs"}
    Repos = {"r1"}
    MaxPids = 2
    MaxRestarts = 1
    AutoRestart = TRUE
    MaxCrashes = 1
    NumTasks = 2
    MaxConcurrency = 1
    MaxTaskRetries = 1
    Paths = {}
    Steppers = {"controller", "tool"}
    Readers = {"status"}
    Results = {}
    MaxWorkers = 1
    MaxPlanners = 2
    MaxActions = 1
    Sessions = {"s1"}
    MaxSessionCrashes = 1
    Requests = {q1, q2}
    MaxRuns = 1
    Kinds = {"session", "loop", "cycle", "research"}
    Tickers = {"supervisor"}
    Target = 1
    Estimate <- MCEstimate
    MaxSpend = 2
    Dear = {}
    TooDear = {}
    NoItem = NoItem
    MaxMishaps = 1
    MaxAutoCrashes = 1
    Instances = {n1, n2}
    Quarter = 2
    MaxDisruptions = 2
    Publishers = {b1, b2}
    Subscribers = {"c1"}
    MaxEvents = 3
    MaxHistory = 2
    Limit = 1
    SubscriberCap = 1
    QueueCap = 1
    LoopSteppers = {"run", "hand"}
    MaxTurns = 1
    MaxIterations = 2
    RetryLimit = 1
    SelfImprovement = TRUE
    AutoRecover = TRUE
    MaxRecoveries = 1
    MaxRestartCycles = 2
    MinDepth = 1
    MaxDepth = 2
    Extension = 1
CHECK_DEADLOCK FALSE
INVARIANTS
    NodeTypeOK
    EntryHasReaper
    NoUntrackedLoop
    PidFileNamesTheLoop
    NothingForgottenAlive
    ConcurrencyBound
    OneLeaderInTime
    TakeoverInTime
    ForwardedInOrder
    SubscriberInOrder
    StopDrains
    StopSettles
    ItemsAccounted
    OneJobAtATime
    SpendWithinTarget
PROPERTY
    StopIsFinal
CONSTRAINT TeamPlans
SYMMETRY PairSymmetry
