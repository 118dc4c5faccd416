SPECIFICATION FairSpec
CONSTANTS
    c1 = c1
    c2 = c2
    c3 = c3
    Cmds = {c1, c2, c3}
    Async = {c2}
    Paged = {}
    Polled = {}
    Special = {}
    NumReg = 1
    Mode0 = "EVENTS"
    SubmitInTime = TRUE
    Script <- CleanupScript
    WQ = WQ
    EQ = EQ
    MGR = MGR
    None = None
INVARIANTS SemaphoreBalance SlotExclusive FirmwareClaim CompletedOnce CleanupWaits
PROPERTIES CommandContract Answered
CHECK_DEADLOCK FALSE
