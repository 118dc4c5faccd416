SPECIFICATION Spec
CONSTANTS
    N = 4
    Window = 2
    MaxRetries = 1
    TimeoutMs = {"none", "long"}
    Capacity = 3
INVARIANTS TypeOK SendRefs WindowKept ResponseFirst
PROPERTIES ContractSpec SendCompletes ReceiveEnds
CHECK_DEADLOCK FALSE
