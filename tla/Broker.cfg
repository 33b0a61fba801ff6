SPECIFICATION Spec
CONSTANTS
    Clients = {"a1", "a2", "r", "b1", "b2", "b3", "b4"}
    Identity <- Ids
    ReqClients = {"r"}
    Compressors = {"k1", "k2"}
    Hwm = 1
    ReplyHwm = 1
    MaxBreaks = 1
    Days <- TwoDays
CHECK_DEADLOCK FALSE
INVARIANTS
    BrokerSound
    WholeMessages
    TableConsistent
    NoStandstill
    HandledOnce
