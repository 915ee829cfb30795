\* Reservation, patience and limiter on two lanes: four requests, one the next turn of
\* another, a cancel and a device fault, while the clock runs.
\* When every request is answered or gone the scheduler waits: no deadlock check.
SPECIFICATION FairSpec
CONSTANTS
    a = a
    b = b
    c = c
    r1 = r1
    r2 = r2
    r3 = r3
    r4 = r4
    NoReq = NoReq
    NoSnap = NoSnap
    Prompt <- TurnAndStranger
    MaxNew <- TwoTokens
    Reqs = {r1, r2, r3, r4}
    Slots = {0, 1}
    Reserve = 3
    Patience = 2
    Swap = 2
    Refused = {}
    MayLeave = {r2}
    MayStop = {}
    NestedSteps = 1
    ExitOnFatal = FALSE
    MaxChunks = 0
    MaxFaults = 1
    Slack = 0
INVARIANTS
    NoMissedWakeup
    EachRequestOnce
PROPERTIES
    QueuedKeepSnapshots
    ReservationHonoured
    ForcedSpacing
    Served
CHECK_DEADLOCK FALSE
