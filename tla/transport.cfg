INIT TransportInit
NEXT TransportNext
CONSTANTS
    Region = {1, 2, 3, 4}
    None = None
    Capacities = {1, 2, 5}
    Payloads = {0, 3, 6}
    CacheLine = 4
    HeaderBytes = 10
    SlotHeaderBytes = 2
    MaxKills = 2
    RingSlots = 2
    MaxMessages = 2
    Event <- MCEventWire
    Instrument <- MCInstrument
    Account <- MCAccount
    EventCapacity = 2
    ActionCapacity = 2
    FdMax = 1
    CountMod = 4
    MaxCalls = 0
    NotifyMayFail = TRUE
INVARIANTS RingsShared CodecFaithful ReportsInOrder
CHECK_DEADLOCK FALSE
