CONSTANTS
    v0 = v0
    v1 = v1
    Values <- TwoValues
    InitialValue = v0
    RevisionMax = 2
    MaxListeners = 2
    MaxReads = 2
    MaxWrites = 3
    FallibleValue = TRUE
    ConditionsRestore = TRUE
SPECIFICATION Spec
INVARIANTS
    LatestWriteWins
