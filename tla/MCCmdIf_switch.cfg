SPECIFICATION Spec
CONSTANTS
    c1 = c1
    c2 = c2
    c3 = c3
    Cmds = {c1, c2}
    Async = {}
    Paged = {c2}
    Polled = {}
    Special = {c1}
    NumReg = 1
    Mode0 = "EVENTS"
    SubmitInTime = TRUE
    Script <- SwitchScript
    WQ = WQ
    EQ = EQ
    MGR = MGR
    None = None
INVARIANTS TypeOK FirmwareClaim
PROPERTIES DrainIsQuiet CommandContract
CHECK_DEADLOCK FALSE
