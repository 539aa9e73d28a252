SPECIFICATION SpecAnyFold
CONSTANTS
    j1 = j1
    j2 = j2
    Hour = 2
    Day = 8
    Week = 2
    ShortMonth = 2
    LongMonth = 3
    Job = {j1}
    Configs <- FallBack
    Horizon = 24
    MaxJump = 6
    Lookback = 8
    MissedCap = 4
    MaxDue = 3
INVARIANT FiresStrictlyAfter
CHECK_DEADLOCK FALSE
