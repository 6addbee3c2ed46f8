SPECIFICATION Spec
CONSTANTS
    BUF_LEN = 3
    TxDepth = 1
    RxDepth = 2
    TxLow = 0
    RxHigh = 2
    INT_MAX = 4
    DEFAULT_TIMEOUT = 2
    Values = 2
    Programs = {{"write", "close", "ioctl"}, {"read", "typing"}}
    WriteCounts = {3}
    ReadSpaces = {2}
    Timeouts = {2, 4}
INVARIANTS TypeOK BytesInOrder NoLostWakeup
PROPERTIES OutputArrives InputArrives CallsReturn
