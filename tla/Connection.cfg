SPECIFICATION Spec
CONSTANTS
    Esc = 3
    Batch = 4
    InHwm = 1
    Traffics <- SomeTraffics
    Window = 4
    MayClose = {1, 2}
CHECK_DEADLOCK FALSE
INVARIANTS
    EngineSound
    InOrder
    AllArrive
    EndDelivers
