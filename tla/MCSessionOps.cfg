CONSTANTS
    m = m
    a = a
    b = b
    Coro = {m, a, b}
    Main = m
    Kinds = {"async", "sleep", "exec"}
    MaxOps = 1
    InboxCap = 3
    OutboxCap = 1
    Transport = FALSE
SPECIFICATION FairSpec
INVARIANTS
    NoLostWakeup
    NoUseAfterClose

    
CHECK_DEADLOCK FALSE
