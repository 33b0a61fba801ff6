SPECIFICATION Spec
CONSTANTS
    MaxWmDelta = 1
    Connecters = {"c1", "c2"}
    Lingers <- AllLingers
    Modes = {"connect", "bind"}
    MaxMsgs = 2
    MaxFails = 1
    MaxBreaks = 1
    Batch = 1
    Aways = {{"c1"}}
CHECK_DEADLOCK FALSE
INVARIANTS
    LifeSound
    NothingLeft
    LingerKeeps
    TermReturns
