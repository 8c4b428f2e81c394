\* Three servers started at any time, with one request thread each.
SPECIFICATION Spec
CONSTANTS
    p1 = p1
    p2 = p2
    p3 = p3
    q1 = q1
    Nobody = Nobody
    Free = Free
    Process <- ThreeProcesses
    Request <- OneRequest
    TTL = 3
    Poll = 1
    MaxCycle = 2
    JoinTimesOut = FALSE
INVARIANTS
    CycleHoldsLease
PROPERTIES
    LoopEndsWithServer
    CyclesAreSingle
CHECK_DEADLOCK FALSE
