SPECIFICATION Spec
CONSTANTS
    N = 2
    Window = 1
    MaxRetries = 1
    TimeoutMs = {"short"}
    Capacity = 2
INVARIANTS AckTimer
CHECK_DEADLOCK FALSE
