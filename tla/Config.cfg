SPECIFICATION Spec
CONSTANTS
    U64 = 262144
    U32 = 512
    NotKebab = {"No Kebab"}
    Spelled <- Symbols
    EmptyParses = FALSE
    Texts <- AllTexts
    Mutations <- Edits
    MaxEdits = 2
INVARIANTS ValidMeansSaid HashTellsJobsApart
PROPERTIES EditsDoWhatTheySay
CHECK_DEADLOCK FALSE
