SPECIFICATION FairSpec
CONSTANTS
    v1 = v1
    v2 = v2
    h1 = h1
    h2 = h2
    Validators = {v1, v2}
    Known = {v1}
    Handlers = {h1, h2}
    Request <- MCRequest
    Processors = {p1}
    Housekeeper = housekeeper
    InitialRows <- MCNoRows
    Nobody = Nobody
    QueueSize = 1
    MaxFaults = 1
INVARIANTS
    OnlySignedAreSaved
    FilteredAreRegistered
PROPERTY
    SendersAreRegistered
CHECK_DEADLOCK FALSE
