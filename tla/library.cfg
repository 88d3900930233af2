INIT LibraryInit
NEXT LibraryNext
CONSTANTS
    t1 = t1
    t2 = t2
    Elems = {e1, e2, e3}
    ListKeys = {1, 2, 3}
    NULL = NULL
    HashElems = {1, 2, 3, 4, 5}
    Value <- MCValue
    Hashes <- MCHashes
    BEST_ELEMS_PER_BUCKET = 1
    LeastBuckets = 1
    ELEM_BITS = 2
    BitCounts = {0, 1, 3, 4}
    KeyCodes = {1, 3, 16, 30, 83, 58, 42, 54, 56, 57400, 29, 57373, 99}
    COL_CNT = 3
    ROW_CNT = 2
    TabStop = 2
    RegMod = 4
    Letters = {"a", "b"}
    MaxLines = 4
    Starts <- MCStarts
    MaxTicks = 2
    Frequencies = {1, 18, 19, 100, 440, 20000, 65535}
    FirstBit = 4
    RefineBits = 2
    Speeds = {4, 7, 13, 100}
    MemBytes = 6
    Chars = {1, 2}
    Keys = {1, 2, 3}
    MaxCount = 5
    WORD_BITS = 4
    INT_MOD = 256
    Texts <- MCTexts
    RC4_SIZE = 4
    Seeds <- MCSeeds
    MaxDraws = 6
    Calls <- MCCalls
    TypeMod <- MCMod
    BufChars = 8
    OutChars = 4
    PerLine = 4
    Kilo = 4
    Kinds = {"pty", "unix"}
    BUFSIZ = 2
    StdIn <- MCStdIn
    MaxOut = 3
    MaxConns = 2
    Names <- MCNames
    Archives <- MCArchives
    SectorBytes = 2
    ScratchSectors = 7
    NameChars = 5
    SizeDigits = 2
    SumDigits = 2
    SumMod = 64
    MaxBoots = 3
    MaxActions = 3
    IThreads = {t1, t2, idl}
    IIdle = idl
    Lines = {32, 46}
    ArgWords <- MCArgWords
    Frames <- MCFrames
    WordValues = 1000
INVARIANTS
    ContainersAgree DevicesTruthful FunctionsAgree RelayFaithful
    KernelEntered ArchivesCarryFiles
SYMMETRY Alike
CHECK_DEADLOCK FALSE
