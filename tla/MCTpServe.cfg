\* A head and a mirror, three requests over two lanes, both admission orders.
SPECIFICATION FairSpec
CONSTANTS
    a = a
    b = b
    c = c
    r1 = r1
    r2 = r2
    r3 = r3
    NoReq = NoReq
    NoSnap = NoSnap
    Prompt <- NextTurn
    Deep <- LastSlotResumes
    Patience = 1
    Swap = 1
    MaxNew <- ThreeTokens
    Boundaries <- OneBoundary
    Resumed <- OneBoundary
    Policies = {FALSE, TRUE}
    World = 2
    Reqs = {r1, r2, r3}
    Slots = {0, 1}
    Reserve = 1
    Refused = {}
    MayLeave = {r1}
    NestedSteps = 1
    FastCtl = TRUE
    MaxFaults = 1
INVARIANTS
    Lockstep
    SameTables
    AdmitFindsLane
PROPERTIES
    ImplementsService
    Answered
    StopsTogether
CHECK_DEADLOCK FALSE
