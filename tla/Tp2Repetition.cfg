SPECIFICATION Spec
CONSTANTS
    Capacity = 3
    SeqNums = 4
    Requests <- Exchange
    Replies <- ExchangeBack
    BlockSize = 0
    PeerBlock = 3
    Heartbeat = FALSE
    ImplicitAck = FALSE
    Adversities = {}
    Unbounded = {}
    MaxUpsets = 0
    MaxRepeats = 1
    MaxQueue = 5
INVARIANT
    InOrder
CHECK_DEADLOCK FALSE
