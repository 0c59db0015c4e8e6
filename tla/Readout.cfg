SPECIFICATION FairSpec
CONSTANTS
    Length = 5
    Window = 3
    MaxBlock = 2
    Passes = 2
INVARIANTS
    TypeOK
    FilesFaithful
    SuccessMeansClean
    SessionLeft
    AdapterReleased
PROPERTY
    RunEnds
CHECK_DEADLOCK FALSE
