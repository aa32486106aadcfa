SPECIFICATION FairSpec
CONSTANTS
    Requests = {r1, r2, r3, r4}
    maxConcurrentBlocks = 2
INVARIANTS
    AtMostMaxActive
    NoIdlePlaceWhileWaiting
PROPERTIES
    NoOvertaking
    WaitingCallsReturn
