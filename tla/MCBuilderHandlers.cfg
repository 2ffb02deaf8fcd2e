SPECIFICATION Spec
CONSTANTS
    Tab = {t1}
    CtrlName = {"ok", "grid"}
    Tables = {"grid"}
    Sources <- Srcs
    Generated = {}
    NewForm = "third"
    MaxEdits = 1
    MaxPuts = 2
    MaxTyped = 0
    Uri = {"a", "b"}
    Flush = {f1, f2}
    MaxVersion = 2
    Scenarios <- Scripts
    InCap = 6
    OutCap = 1
INVARIANTS
    HandlersKept
CHECK_DEADLOCK FALSE
