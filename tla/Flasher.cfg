SPECIFICATION FairSpec
CONSTANTS
    NumBlocks = 3
    MaxUpsets <- NoBound
    ConnectTries = 2
    LoaderTries = 2
    MaxPolls = 3
INVARIANTS
    TypeOK
    OkMeansProgrammed
    DamageReported
    InStep
    ChecksumBeforeCommit
PROPERTIES
    WritesInPlace
    KeepsContract
    Terminates
