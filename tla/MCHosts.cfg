SPECIFICATION Spec
CONSTANTS
    w1 = w1
    t1 = t1
    k1 = k1
    Ws = {w1}
    Tcp = {t1}
    SendCap = 1
    AcceptCap = 1
    MaxSends = 2
    NoConn = NoConn
    Req = {q1, q2}
    Target = {1, 2, 3}
    Apps <- ServeApps
    MaxApps = 2
    Nobody = Nobody
    Client = {k1}
    Caller = {x, y}
    QueueCap = 1
    MaxMsgs = 2
    NoClient = NoClient
    Emitter = {e1, e2}
    LogCap = 2
    BatchMax = 2
    MaxRecords = 3
    Retained = 1
    LowWater = 2
    Tab = {b1, b2}
    SessionLimit = 1
    TabOutboxCap = 1
    MaxEdits = 2
    Broken = {1}
    Id = {i1}
    MaxTimers = 2
    TInboxCap = 1
    NoTimer = NoTimer
INVARIANTS
    
    OwnRoute
    AcceptedDelivered
    
PROPERTIES
    RunReturns
    HashCatchesUp
    
CHECK_DEADLOCK FALSE
