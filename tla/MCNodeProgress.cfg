SPECIFICATION NodeFairSpec
CONSTANTS
    Parts = {"loops", "team", "sessions", "automation", "runs"}
    Repos = {"r1"}
    MaxPids = 2
    MaxRestarts = 1
    AutoRestart = TRUE
    MaxCrashes = 0
    NumTasks = 1
    MaxConcurrency = 1
    MaxTaskRetries = 1
    Paths = {"p1"}
    Steppers = {"controller"}
    Readers = {"status"}
    Results = {"completed", "blocked"}
    MaxWorkers = 2
    MaxPlanners = 1
    MaxActions = 3
    Sessions = {"s1"}
    MaxSessionCrashes = 1
    Requests = {q1, q2, q3}
    MaxRuns = 0
    Kinds = {"session", "cycle"}
    Tickers = {"supervisor"}
    Target = 2
    Estimate <- MCEstimate
    MaxSpend = 1
    Dear = {q2}
    TooDear = {q3}
    NoItem = NoItem
    MaxMishaps = 1
    MaxAutoCrashes = 1
    Instances = {n1, n2}
    Quarter = 2
    MaxDisruptions = 1
    Publishers = {b1, b2}
    Subscribers = {"c1"}
    MaxEvents = 3
    MaxHistory = 2
    Limit = 1
    SubscriberCap = 1
    QueueCap = 1
    LoopSteppers = {"run"}
    MaxTurns = 2
    MaxIterations = 3
    RetryLimit = 0
    SelfImprovement = TRUE
    AutoRecover = TRUE
    MaxRecoveries = 1
    MaxRestartCycles = 2
    MinDepth = 1
    MaxDepth = 3
    Extension = 1
CHECK_DEADLOCK FALSE
INVARIANTS
    WorkerIsCurrent
    ClaimsHaveAReason
PROPERTIES
    TerminalIsFinal
    StopKills
    DeadLoopsAreForgotten
    EndsAreSaved
    QueueMoves
    RunLoopEnds
    WorkersAccounted
CONSTRAINTS
    TeamQueries
    DearKinds
