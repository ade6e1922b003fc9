SPECIFICATION Spec
CONSTANTS
    QueueMax = 2
    CheckpointMax = 2
    AppOwned = TRUE
    UserThrows = FALSE
    NestedFrom <- FromDialogs
    MaxPumps = 2
INVARIANT AskedOnce
CHECK_DEADLOCK FALSE
