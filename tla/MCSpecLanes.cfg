\* Two lanes under --lane-order fcfs; the load policy picks any arm.
SPECIFICATION FairSpec
CONSTANTS
  Slots <- TwoLanes
  K = 2
  Order = "fcfs"
  Quantum = 2
  MinRounds = 4
  ProbeWarmup = 2
  ProbeWindow = 3
  BackoffBase = 1
  BackoffCap = 4
  None = None
INVARIANTS
  HeadReady
  FrontExists
PROPERTIES
  ConfirmedOff
  EveryLaneServed
  OffComesBack
