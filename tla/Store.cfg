SPECIFICATION FairSpec
CONSTANTS
    j1 = j1
    j2 = j2
    p1 = p1
    p2 = p2
    p3 = p3
    Proc = {p1, p2, p3}
    Job = {j1, j2}
    Kind <- Kinds
    Target <- Targets
    Latest = 2
    ScriptLen <- Lengths
    FirstVersion = 0
    FirstConfig <- OneActive
    MaxEdits = 1
    MaxFaults = 1
INVARIANTS VersionMatchesSchema OutcomeFindsItsRow NoSuchJobIsTrue
PROPERTIES MigrationCompletes
CHECK_DEADLOCK FALSE
