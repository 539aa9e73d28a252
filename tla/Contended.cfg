SPECIFICATION Spec
CONSTANTS
    j1 = j1
    j2 = j2
    p1 = p1
    p2 = p2
    Job = {j1}
    Pid = {p1, p2}
    Cli = cli
    NoPid = nopid
    ManualId = {}
    MaxTime = 2
    Sched <- OneShot
    Policy <- RunOnce
    Lookback = 3
    MissedCap = 3
    StaleAfter = 0
    HeartbeatInterval = 1
    Supervised = FALSE
    DbFaults = TRUE
    Lingers = {}
    IdleClients = FALSE
    MaxEdits = 0
    MaxReloads = 0
    MaxCrashes = 1
INVARIANT ExecutedAtMostOnce
CHECK_DEADLOCK FALSE
SYMMETRY PidSymmetry
