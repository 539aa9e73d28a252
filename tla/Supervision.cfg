SPECIFICATION FairSpec
CONSTANTS
    Pid = {1, 2}
    Missing = missing
    StaleAfter = 3
    Interval = 1
    MaxWake = 5
    StartLimit = 3
    MaxCrashes = 2
    MaxReuses = 1
    MaxEdits = 1
INVARIANTS NotRunningIsTrue ReadsFailBeforeFirst
PROPERTIES ComesBack GivesUpOnFresh
CHECK_DEADLOCK FALSE
