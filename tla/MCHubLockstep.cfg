SPECIFICATION FairSpec
CONSTANTS
    World = 3
    Program <- TwoKinds
    Wire <- TwoWires
    Ring = 4
    Deadline = TRUE
    Faults = {"hang", "crash", "skip", "link"}
    MaxFaults = 1
INVARIANTS
    NoClobber
PROPERTIES
    ImplementsMeeting
    NobodyParks
CHECK_DEADLOCK FALSE
