SPECIFICATION Spec
CONSTANTS
    c1 = c1
    c2 = c2
    c3 = c3
    Cmds = {c1, c2}
    Async = {}
    Paged = {c1, c2}
    Polled = {}
    Special = {}
    NumReg = 1
    Mode0 = "EVENTS"
    SubmitInTime = TRUE
    Script <- NoScript
    WQ = WQ
    EQ = EQ
    MGR = MGR
    None = None
INVARIANTS SlotKept

CHECK_DEADLOCK FALSE
