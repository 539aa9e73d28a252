SPECIFICATION FairSpec
CONSTANTS
    j1 = j1
    j2 = j2
    c1 = c1
    c2 = c2
    p1 = p1
    p2 = p2
    Job = {j1, j2}
    Client = {c1, c2}
    Pid = {p1, p2}
    NoPid = nopid
    NoClient = noclient
    Broken = broken
    EmptyParses = FALSE
    Tasks <- Pairs
    FirstFile <- BothOn
    Supervised = TRUE
    MaxFaults = 2
INVARIANTS AnswersAreTrue
PROPERTIES ImplementsConfigFile EditClobbersOnlyTheNew ScheduleCatchesUp SocketIsTaken StopEnds
CHECK_DEADLOCK FALSE
