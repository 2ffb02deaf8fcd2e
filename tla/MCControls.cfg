SPECIFICATION Spec
CONSTANTS
    c1 = c1
    c2 = c2
    f1 = f1
    f2 = f2
    Ctrl = {c1, c2}
    Form = {f1, f2}
    Kinds <- CtrlKinds
    Owner <- CtrlOwner
    Cells <- FormCells
    Val = {v1}
    Blank = Blank
    Absent = Absent
    POutCap = 2
    MaxLua = 3
    MaxInputs = 2
    Pk = {1, 2, 3}
    RowVal = {a, b}
    PageSize = 2
    GOutCap = 3
    MaxGrid = 2
    MaxOutside = 1
    NoPk = NoPk
    NoRow = NoRow
    LRows = 5
    Batch = 2
    LOutCap = 2
    MaxRefresh = 2
    MaxNodes = 3
    Attempts = 2
INVARIANTS
    PageCurrent
    NoControlLost
    GridCurrent
    PagesCover
    LooperInOrder
    TreeKeepsRows
CHECK_DEADLOCK FALSE
