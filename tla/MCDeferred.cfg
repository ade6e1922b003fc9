SPECIFICATION Spec
CONSTANTS
    Clients = {"c1", "c2"}
    Requests = {1, 2}
    MaxPending = 1
    Animations = {1, 2}
    MotionKind <- TweenAndSpring
    Duration = 2
    MaxNested = 2
    MaxThrown = 2
    Regions = {1, 2, 3}
    MaxChanges = 3
    MaxFailures = 1
    MaxUnrest = 3
INVARIANTS
    TypeOK
    CallsAreSound
    ChoosersAreSound
    UnfinishedIsScheduled
PROPERTIES
    WhatIsOverStaysOver
    EverythingIsAnswered
CHECK_DEADLOCK FALSE
