SPECIFICATION FairSpec
CONSTANTS
    MaxRetries = 1
    MaxLines = 1
    DbFaults = TRUE
INVARIANTS TypeOK OutcomeIsTheLastAttempts RetriesAreUsed OneCommandAtATime OutputIsWhole
PROPERTIES CancelEndsTheRun TimeoutEndsTheRun
CHECK_DEADLOCK FALSE
