INIT ServicesFilesInit
NEXT ServicesFilesNext
CONSTANTS
    Event <- MCEventAccount
    Instrument <- MCInstrument
    Account <- MCAccount
    EventCapacity = 2
    ActionCapacity = 2
    FdMax = 1
    CountMod = 4
    MaxCalls = 1
    NotifyMayFail = FALSE
    t1 = t1
    t2 = t2
    fa = fa
    fb = fb
    bad = bad
    None = None
    Threads = {t1, t2}
    Names = {fa, fb, bad}
    InvalidNames = {bad}
    Uses <- MCUses
    Removes <- MCRemoves
    Sizes = {2}
    SectorCount = 10
    DirSlots = 2
    Fds = {2}
    Blocks = {1, 2, 3}
    MayFault = {t2}
    MaxCreates = 2
    MemMayFail = TRUE
    BounceMayFail = FALSE
INVARIANTS WakeupsKept AnswersAgree SectorsAccounted FilesConsistent FsNoDeadlock
CHECK_DEADLOCK FALSE
