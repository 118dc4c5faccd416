SPECIFICATION NoTimeoutSpec
CONSTANTS
    c1 = c1
    c2 = c2
    c3 = c3
    Cmds = {c1, c2}
    Async = {c2}
    Paged = {}
    Polled = {}
    Special = {}
    NumReg = 1
    Mode0 = "EVENTS"
    SubmitInTime = TRUE
    Script <- FlushScript
    WQ = WQ
    EQ = EQ
    MGR = MGR
    None = None
INVARIANTS SemaphoreBalance SlotExclusive CompletedOnce
PROPERTIES FlushEnds
CHECK_DEADLOCK FALSE
