SPECIFICATION Spec
CONSTANTS
    v1 = v1
    v2 = v2
    h1 = h1
    h2 = h2
    Validators = {v1}
    Known = {v1}
    Handlers = {h1, h2}
    Request <- MCChangeBack
    Processors = {p1, p2}
    Housekeeper = housekeeper
    InitialRows <- MCOneRow
    Nobody = Nobody
    QueueSize = 2
    MaxFaults = 0
PROPERTY
    TimestampNeverGoesBack
CHECK_DEADLOCK FALSE
