SPECIFICATION Spec
CONSTANTS
    Sess = {s1, s2}
    Runtime = {r}
    Named = {n}
    HookOps = {}
    MaxDbOps = 3
    Free = Free
    WSess = {s1, s2}
    Protocol = {"ftp", "pop3", "smtp", "socket"}
    MaxCmds = 4
    NoOne = NoOne
    Caller = {c1, c2}
    Path = {p, q}
    ParamsPath = "params"
    FileKey = {k1, k2}
    ReadFaults = FALSE
    MaxSerial = 2
    MaxDeaths = 1
INVARIANTS
    TxEndsWithHandle
    AnswerMatches
    SavedWhole
    ParamsKept

    
CHECK_DEADLOCK FALSE
