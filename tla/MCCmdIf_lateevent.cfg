SPECIFICATION Spec
CONSTANTS
    c1 = c1
    c2 = c2
    c3 = c3
    Cmds = {c1}
    Async = {}
    Paged = {}
    Polled = {}
    Special = {}
    NumReg = 1
    Mode0 = "EVENTS"
    SubmitInTime = TRUE
    Script <- NoScript
    WQ = WQ
    EQ = EQ
    MGR = MGR
    None = None
INVARIANTS EntryAliveInUse

CHECK_DEADLOCK FALSE
