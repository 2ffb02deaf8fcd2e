SPECIFICATION Spec
CONSTANTS
    a = a
    b = b
    Form = {a, b}
    Chat = Chat
    IdleForm = {a}
    m = m
    h1 = h1
    h2 = h2
    Coro = {m, h1, h2}
    Main = m
    Scripts = {{}, {"named", "again"}, {"agent"}}
    MaxShows = 3
    InboxCap = 2
    None = None
CHECK_DEADLOCK FALSE
INVARIANTS
    IdleTracksStack
    ShowSuspends
PROPERTIES
    ShowsNest
SYMMETRY HandlerSymmetry
