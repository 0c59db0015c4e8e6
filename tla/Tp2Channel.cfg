SPECIFICATION FairSpec
CONSTANTS
    Capacity = 3
    SeqNums = 4
    Requests <- Pair
    Replies <- PairBack
    BlockSize = 0
    PeerBlock = 1
    Heartbeat = FALSE
    ImplicitAck = TRUE
    Adversities = {"loseFrame", "close", "late", "wait", "adapter"}
    Unbounded = {"wait"}
    MaxUpsets = 3
    MaxRepeats = 1
    MaxQueue = 2
    Tries = 2
    MaxOpens = 2
    MaxProbes = 1
INVARIANTS
    SyncedAgain
    Released
PROPERTIES
    ImplementsLinkThroughout
    CallsReturn
CHECK_DEADLOCK FALSE
