\* One call fails on one rank: a copy off the device, a write, a read, a restore; deletes are late.
SPECIFICATION FairSpec
CONSTANTS
    World = 3
    a = a
    b = b
    c = c
    Keys <- ThreeKeys
    NoKey = none
    Size <- SizeByKey
    Est <- AllOne
    Cap = 3
    FaultKinds = {"capture", "write", "read", "restore"}
    MaxFaults = 1
    MaxAdmissions = 3
INVARIANTS
    RanksAgree
    DiskNeverFailsTheRound
    NoOrphans
PROPERTIES
    AllGetThrough
CHECK_DEADLOCK FALSE
