\* No reservation: four requests over two lanes, one the next turn of another, with stop
\* strings, cancels, a refusal, two device faults and the exit of a dead engine.
\* When every request is answered or gone the scheduler waits: no deadlock check.
SPECIFICATION Spec
CONSTANTS
    a = a
    b = b
    c = c
    r1 = r1
    r2 = r2
    r3 = r3
    r4 = r4
    NoReq = NoReq
    NoSnap = NoSnap
    Prompt <- TurnAndStranger
    MaxNew <- TwoTokens
    Reqs = {r1, r2, r3, r4}
    Slots = {0, 1}
    Reserve = 0
    Patience = 1
    Swap = 2
    Refused = {r4}
    MayLeave = {r1, r2}
    MayStop = {r1}
    NestedSteps = 2
    ExitOnFatal = TRUE
    MaxChunks = 2
    MaxFaults = 2
    Slack = 0
INVARIANTS
    SlotOwnership
PROPERTIES
    ImplementsService
CHECK_DEADLOCK FALSE
