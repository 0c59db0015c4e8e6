SPECIFICATION FairSpec
CONSTANTS
    Script <- Work
    EchoServices <- Echoing
    BusyServices <- Retried
    FormServices <- Formed
    BusyRetries = 2
    PendingLimit = 2
    MaxUpsets <- NoBound
    MaxPending <- NoBound
INVARIANTS
    TypeOK
    InStep
    OwnKind
    DoneOnce
PROPERTY
    CallsEnd
CHECK_DEADLOCK FALSE
