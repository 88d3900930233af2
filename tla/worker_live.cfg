SPECIFICATION SwFairSpec
CONSTANTS
    Event <- MCEventPosition
    Instrument <- MCInstrument
    Account <- MCAccount
    EventCapacity = 1
    ActionCapacity = 1
    FdMax = 1
    CountMod = 3
    MaxCalls = 1
    NotifyMayFail = FALSE
PROPERTIES AccountReachesStrategy AttendsWhenQuiet
CHECK_DEADLOCK FALSE
