SPECIFICATION Spec
CONSTANTS
    Tab = {t1, t2}
    CtrlName = {"ok", "grid"}
    Tables = {"grid"}
    Sources <- Srcs
    Generated <- Gens
    NewForm = "third"
    MaxEdits = 1
    MaxPuts = 2
    MaxTyped = 1
    Uri = {"a", "b"}
    Flush = {f1, f2}
    MaxVersion = 2
    Scenarios <- Scripts
    InCap = 6
    OutCap = 1

    
    
PROPERTIES
    DiagnosticsCatchUp
    ScenarioReturns
CHECK_DEADLOCK FALSE
