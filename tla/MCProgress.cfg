SPECIFICATION Spec
CONSTANTS
    TreeSize = 3
    TreeMounts = 2
    EditValues = {0, 1}
    HoverParent <- FourNodes
    HoverThrows = 1
INVARIANTS
    TypeOK
    CloseIsSound
    LifecycleIsSound
    CompositionIsSound
    HoverIsSound
    EditIsSound
PROPERTIES
    ImplementsContracts
    NothingIsToldTwice
    WorkComesToAnEnd
CHECK_DEADLOCK FALSE
