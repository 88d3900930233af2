SPECIFICATION FairSpec
CONSTANTS
    short = short
    long = long
    tooLong = tooLong
    Zeros = Zeros
    Torn = Torn
    Payload <- MCPayload
    SizeOf <- MCSizeOf
    MaxPayloadBytes = 2
    SlotCount = 4
    IndexMod = 8
    OverwriteArgs = {FALSE}
    MaxPushes = 9
INVARIANTS InOrderDelivery SlotExclusion OneSlotReserved CopyFitsBuffer
PROPERTIES ImplementsBoundedFifo EventuallyDelivered
