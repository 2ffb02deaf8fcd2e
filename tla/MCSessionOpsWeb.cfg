CONSTANTS
    m = m
    a = a
    Coro = {m, a}
    Main = m
    Kinds = {"async", "sleep", "browser", "exec", "grid", "gridSel"}
    MaxOps = 1
    InboxCap = 1
    OutboxCap = 1
    Transport = TRUE
SPECIFICATION FairSpec

    
PROPERTIES
    CloseReturns
CHECK_DEADLOCK FALSE
