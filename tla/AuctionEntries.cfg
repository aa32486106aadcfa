SPECIFICATION Spec
CONSTANTS
    b1 = b1
    b2 = b2
    x1 = x1
    x2 = x2
    x3 = x3
    x4 = x4
    NoBid = NoBid
    Builders = {b1, b2}
    Blocks = {x1, x2, x3, x4}
    Submissions = {s1, s2}
    Offers <- MCOffers
    Valid = {x1, x2, x4}
    Collateral <- MCCollateral
    Slot = 1
    Loads <- MCOverlap
INVARIANT
    LatestEntriesAgree
SYMMETRY SubmissionSymmetry
CHECK_DEADLOCK FALSE
