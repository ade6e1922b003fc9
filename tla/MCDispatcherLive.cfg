CONSTANTS
    Workers = {w1}
    UI = ui
    MaxDepth = 1
    NestedFrom = {}
    MaxFaults = 0
    MaxPendingTasks = 2
    MaxActiveTimers = 1
    MaxTasksPerCheckpoint = 1
    IdModulus = 3
    TimeMax = 1
SPECIFICATION FairSpec
PROPERTIES
    EveryTaskLeaves
    EveryDueTimerFires
