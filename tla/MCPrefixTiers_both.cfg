\* Both tiers on: a slot resumed from the disk keeps the checkpoints of the prompt before.
SPECIFICATION Spec
CONSTANTS
    Slots = {s0}
    NoSlot = none
    Prompts <- Strangers
    MaxLen = 7
    Boundary <- LastMessage
    C = 2
    Tiers <- Both
    Stride = 4
    Grain = 2
    Backoff = 2
    MinGain = 1
    MinGainSplit = 2
    TpCap = 3
    MaxPending = 8
    MaxFaults = 0
INVARIANTS
    ResumeExact
CHECK_DEADLOCK FALSE
