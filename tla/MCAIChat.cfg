SPECIFICATION Spec
CONSTANTS
    Ctrl = {c1}
    Turn = {t1, t2}
    MaxTurns = 1
    MaxCalls = 1
    Suspends = {"async", "browser"}
    InboxCap = 2
    None = None
SYMMETRY TurnSymmetry
CHECK_DEADLOCK FALSE
INVARIANTS
    BusyHasTurn
    EventOrder
    ReplyCommitted
