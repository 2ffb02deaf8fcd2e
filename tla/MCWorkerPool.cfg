SPECIFICATION Spec
CONSTANTS
    HTTPReq = {h1}
    WSConn = {c1}
    MQTTPump = {q1}
    PoolSize = 1
    MaxWorkers = 2
    Callbacks = {"init", "ws", "shutdown"}
    EarlyHUP = FALSE
INVARIANTS
    SlotMutex
    PoolOpen
    NoLostClose
    
CHECK_DEADLOCK FALSE
