SPECIFICATION Spec
CONSTANTS
    short = short
    long = long
    tooLong = tooLong
    Zeros = Zeros
    Torn = Torn
    Payload <- MCPayload
    SizeOf <- MCSizeOf
    MaxPayloadBytes = 2
    SlotCount = 2
    IndexMod = 16
    OverwriteArgs = {TRUE}
    MaxPushes = 4
INVARIANT OneSlotReserved
