SPECIFICATION Spec
CONSTANTS
    Capacity = 3
    SeqNums = 4
    Requests <- Talk
    Replies <- TalkBack
    BlockSize = 1
    PeerBlock = 1
    Heartbeat = TRUE
    ImplicitAck = TRUE
    Adversities = {"loseAck", "loseFrame", "close", "late", "ping", "wait"}
    Unbounded = {}
    MaxUpsets = 2
    MaxRepeats = 3
    MaxQueue = 4
INVARIANTS
    TypeOK
    InOrder
    InSync
    RetransmissionHandled
PROPERTY
    ImplementsLink
CHECK_DEADLOCK FALSE
