SPECIFICATION Spec
CONSTANTS
  sched = sched
  handler = handler
  NoLine = NoLine
  Senders <- MCSenders
  CAP = 2
  MaxLines = 2
INVARIANTS
  FlushedIsWritten
CHECK_DEADLOCK FALSE
