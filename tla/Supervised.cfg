SPECIFICATION Spec
CONSTANTS
    j1 = j1
    j2 = j2
    p1 = p1
    p2 = p2
    Job = {j1, j2}
    Pid = {p1, p2}
    Cli = cli
    NoPid = nopid
    ManualId = {}
    MaxTime = 3
    Sched <- TwoJobs
    Policy <- Mixed
    Lookback = 3
    MissedCap = 3
    StaleAfter = 1
    HeartbeatInterval = 1
    Supervised = TRUE
    DbFaults = FALSE
    Lingers = {}
    IdleClients = FALSE
    MaxEdits = 0
    MaxReloads = 0
    MaxCrashes = 1
INVARIANTS NoUnattendedRow OneThreadPerJob StoppedMeansIdle EveryFiringAnswered
CHECK_DEADLOCK FALSE
PROPERTIES HistoryIsFinal ImplementsLedger LastSuccessAdvances
