SPECIFICATION MCSpec
CONSTANTS
    s1 = s1
    s2 = s2
    Senders <- TwoSenders
    MaxSends = 2
    Values <- TwoValues
    Chunks = {k1, k2, k3}
    N = 2
    Null = Null
INVARIANTS
    PointersLive
    NoAbort
    NoLostWakeup
    SignalerOutlivesSend
PROPERTIES
    ImplementsQueue
    AllReceived
