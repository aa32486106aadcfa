SPECIFICATION Spec
CONSTANTS
    b1 = b1
    b2 = b2
    b3 = b3
    c1 = c1
    c2 = c2
    i1 = i1
    i2 = i2
    NoBlock = NoBlock
    NoTrace = NoTrace
    Blocks = {b1, b2, b3}
    Calls = {c1, c2}
    Slot <- MCSlot
    Builder <- MCBuilder
    Loads <- MCStored
INVARIANT
    DeliveredSlotsStayClosed
CHECK_DEADLOCK FALSE
