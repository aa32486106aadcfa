SPECIFICATION Spec
CONSTANTS
    b1 = b1
    b2 = b2
    s1 = s1
    s2 = s2
    id1 = id1
    NoID = NoID
    Builders = {b1, b2}
    Submissions = {s1, s2}
    InitialRow <- MCInitialRow
    Collaterals <- MCCollaterals
    MaxSlot = 2
    Loads <- MCRefund
INVARIANT
    RefundRecorded
CHECK_DEADLOCK FALSE
