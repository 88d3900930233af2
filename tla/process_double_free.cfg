SPECIFICATION PlSpec
CONSTANTS
    root = root
    p1 = p1
    p2 = p2
    m1 = m1
    m2 = m2
    NoBlock = NoBlock
    Proc = {root, p1}
    Root = root
    Block = {m1}
    ExitStatus <- MCStatus
    MayExec <- MCPair
    LoadMayFail = FALSE
CHECK_DEADLOCK FALSE
INVARIANT FreedOnce
