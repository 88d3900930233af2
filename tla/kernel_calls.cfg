SPECIFICATION CallsSpec
CONSTANTS
    root = root
    p1 = p1
    p2 = p2
    m1 = m1
    m2 = m2
    NoBlock = NoBlock
    Proc = {root, p1, p2}
    Root = root
    Block = {m1, m2}
    ExitStatus <- MCStatus
    MayExec <- MCTriangle
    LoadMayFail = TRUE
    t1 = t1
    t2 = t2
    t3 = t3
    Nobody = Nobody
    Thread = {t1, t2, t3}
    PerSector = 2
    Length = 3
    Call <- MCCall
INVARIANTS ParentsToldTrue ReadsOneState WriteIntact
PROPERTIES WaitedOnlyOnce WaitReturns CallsReturn WritesOnlyItsPart
CHECK_DEADLOCK FALSE
