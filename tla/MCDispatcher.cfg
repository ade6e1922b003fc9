\* One pump at a time, two workers: the interleavings of posts, timers,
\* cancellation, shutdown, allocation failures and throwing callbacks.
CONSTANTS
    Workers = {w1, w2}
    UI = ui
    MaxDepth = 1
    NestedFrom = {}
    MaxFaults = 1
    MaxPendingTasks = 2
    MaxActiveTimers = 2
    MaxTasksPerCheckpoint = 1
    IdModulus = 3
    TimeMax = 1
SPECIFICATION Spec
SYMMETRY WorkerSymmetry
INVARIANTS
    TypeOK
    NoStrandedTask
    WakeInFlight
    NoOversleep
    QueueIsUnstartedSuffix
PROPERTIES
    FixedSnapshot
    ImplementsTaskQueue
