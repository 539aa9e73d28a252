SPECIFICATION FairSpec
CONSTANTS
    j1 = j1
    j2 = j2
    p1 = p1
    p2 = p2
    Job = {j1}
    Pid = {p1}
    Cli = cli
    NoPid = nopid
    ManualId = {}
    MaxTime = 2
    Sched <- OneJob
    Policy <- RunOnce
    Lookback = 3
    MissedCap = 3
    StaleAfter = 2
    HeartbeatInterval = 2
    Supervised = TRUE
    DbFaults = FALSE
    Lingers = {j1}
    IdleClients = TRUE
    MaxEdits = 1
    MaxReloads = 1
    MaxCrashes = 0

PROPERTIES ShutdownCompletes ClaimedIsServed
CHECK_DEADLOCK FALSE
