SPECIFICATION Spec
INVARIANTS
    TypeOK
    NestedPumpsAreSafe
    StateIsSound
    PointersAreSound
    PresentationsAreSound
    PicturesAreCurrent
PROPERTIES
    ImplementsContracts
    OutdatedIsInert
CHECK_DEADLOCK FALSE
