SPECIFICATION Spec
CONSTANTS
    r1 = r1
    r2 = r2
    Run = {r1, r2}
    Stream = {"stdout", "stderr"}
    Lines <- Prints
    MaxDay = 2
INVARIANTS OutputReadsBack
CHECK_DEADLOCK FALSE
