SPECIFICATION FairSpec
CONSTANTS
    b1 = b1
    b2 = b2
    s1 = s1
    s2 = s2
    id1 = id1
    NoID = NoID
    Builders = {b1, b2}
    Submissions = {s1, s2}
    InitialRow <- MCInitialRow
    Collaterals <- MCCollaterals
    MaxSlot = 2
    Loads <- MCLoads
INVARIANTS
    WaitCoversDemotions
    CoveredFailureEndsOptimism
    RefundMissedOnlyIfOverlooked
    FailureDemotesSharers
PROPERTY
    HeadsAreProcessed
CHECK_DEADLOCK FALSE
