SPECIFICATION Spec
CONSTANTS
    Clients = {"b1", "b2", "b3"}
    Identity <- Ids
    ReqClients = {}
    Compressors = {"k1", "k2", "k3"}
    Hwm = 1
    ReplyHwm = 1
    MaxBreaks = 1
    Days <- ThreeMessages
CHECK_DEADLOCK FALSE
INVARIANT
    WholeMessages
