\* Two threads log three lines each into a channel of two.
SPECIFICATION FairSpec
CONSTANTS
  sched = sched
  handler = handler
  NoLine = NoLine
  Senders <- MCSenders
  CAP = 2
  MaxLines = 3
INVARIANTS
  EachLineOnce
PROPERTIES
  FlushLoss
  NobodyHeld
  DropsReported
CHECK_DEADLOCK FALSE
