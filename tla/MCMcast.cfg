SPECIFICATION Spec
CONSTANTS
    m1 = m1
    m2 = m2
    g1 = g1
    full = full
    send = send
    A = A
    B = B
    Zero = Zero
    None = None
    Members = {m1, m2}
    Groups = {g1}
    Types = {full, send}
    Mgids = {Zero, A, B}
    JoinState <- MCJoinState
    Mgid <- MCMgid
    MaxRetries = 1
    MaxEvents = 1
INVARIANTS TypeOK OneServer GroupRefs FreedQuietly MemberIsJoined
CHECK_DEADLOCK FALSE
