INIT MachineInit
NEXT MachineNext
CONSTANTS
    p1 = p1
    p2 = p2
    Procs = {p1, p2}
    KFrames = {0, 1, 2, 3, 4}
    UFrames = {10, 11, 12}
    PageBytes = 32
    UserPageCount = 6
    TablePages = 3
    AddressMod = 512
    Images <- MCImages
    MaxArgs = 2
    TouchPages = {1}
    MThreads = {1, 2}
    PGSIZE = 18
    ArenaBytes = 3
    FirstBlock = 4
    FreePages = 8
    user_page_limit = 2
    free_page_limit = 6
    MSizes = {0, 3, 8, 16}
    Callocs <- MCCallocs
    WordMod = 64
    MaxBlocks = 2
    DkThreads = {d1, d2}
    Channels = {0, 1}
    Kinds <- MCKinds
    Sectors = 2
    MBRs <- MCTables
    SectorMod = 8
    Values = {1}
    DiskMayFail = TRUE
    Writers = {w1, w2}
    Readers = {r1, r2}
    TxRoom = 2
    RxRoom = 1
    Lengths = {1, 2}
    MaxDepth = 2
    MaxOut = 4
    MaxKeys = 3
    CommandLines <- MCLines
    BootDisks = {"hda1"}
    MaxPanics = 3
    Messages <- MCMessages
    Signals <- MCSignals
    MaxMessages = 2
    Readings = {1008, 1068}
    Pulses = {50000}
    Tape = {0}
    LED_COUNT = 1
    CONSECUTIVE_READINGS = 2
    I2C_BUFFER_SIZE = 3
    SoundPause = 0
    CMDs = {"GYRO_RESET", "GYRO_GET_ANGLE", "DISABLE_GYROS"}
    ClockMod = 4
    MaxMillis = 1
    MaxTransfers = 1
INVARIANTS
    AddressSpacesSound HeapSound DisksSound ConsoleSound
    BootSound RobotObeys SensorsTruthful
SYMMETRY Alike
CHECK_DEADLOCK FALSE
