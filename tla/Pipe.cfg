SPECIFICATION TSpec
CONSTANTS
    MaxWmDelta = 1
    Hwms = {0, 1, 2, 3}
    MaxMsgs = 1
    TwoParts = {1}
    MaxHiccups = 1
CHECK_DEADLOCK FALSE
INVARIANTS
    PipeSound
    WithinHwm
    RestIsEmpty
    HandshakeEnds
PROPERTIES
    AllReadBeforeAck
