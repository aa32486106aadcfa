SPECIFICATION Spec
CONSTANTS
    SlotsPerEpoch = 8
    ApiInterval = 2
    Registered <- MCRegistered
    Modulus = 1000
    FirstSlot = 8
    MaxSlot = 25
    MaxDisturbances = 2
INVARIANTS
    OneUpdateAtATime
    NextSlotIsCovered
CHECK_DEADLOCK FALSE
