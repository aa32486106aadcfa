SPECIFICATION Spec
CONSTANTS
    b1 = b1
    b2 = b2
    b3 = b3
    b4 = b4
    i1 = i1
    i2 = i2
    NoArg = NoArg
    Blocks = {b1, b2, b3, b4}
    Slot <- MCSlot
    Value <- MCValue
    Builder <- MCBuilder
    MaxLimit = 3
    WebLimit = 2
    InRedis <- MCInRedis
    MaxID = 3
    MaxFaults = 0
    Readers = {"archive"}
INVARIANT
    DeletedAreArchived
CHECK_DEADLOCK FALSE
