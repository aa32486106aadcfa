SPECIFICATION RandaoFairSpec
CONSTANTS
    LastSlot = 2
    FarSlot = 3
    MaxPending = 2
    MaxFailures = 2
PROPERTIES
    ExpectedNeverGoesBack
    HeadRandaoLearned
CHECK_DEADLOCK FALSE
