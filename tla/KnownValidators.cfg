SPECIFICATION FairSpec
CONSTANTS
    v1 = v1
    v2 = v2
    N = 2
    Callers = {fetcher, other}
    Fetcher = fetcher
    Validators = {v1, v2}
    Activation <- MCActivation
    Modulus = 16
    MaxSlot = 2
    MaxTroubles = 1
INVARIANTS
    FailsOnlyAfterAll
    SyncStatusIsBest
    SavedAreInRedis
PROPERTIES
    ApiNeverForgets
    ValidatorsBecomeKnown
CHECK_DEADLOCK FALSE
