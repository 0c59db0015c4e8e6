SPECIFICATION FramingSpec
CONSTANTS
    Capacity = 7
    SeqNums = 16
    Sizes = {1, 4, 5, 6, 11, 12, 13, 40, 120, 253, 254, 255, 256}
    BlockSizes = {0, 1, 3, 15}
    Messages <- Payloads
INVARIANTS
    RoundTrip
CHECK_DEADLOCK FALSE
