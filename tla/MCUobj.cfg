SPECIFICATION Spec
CONSTANTS
    c1 = c1
    c2 = c2
    idr = idr
    c3 = c3
    fd = fd
    Cmds <- MCCmds
    Objs <- MCObjs
    Fds <- MCFds
INVARIANTS TypeOK UseCounts Krefs ObjectThere CleanupAlone
PROPERTIES RemoveEnds
CHECK_DEADLOCK FALSE
