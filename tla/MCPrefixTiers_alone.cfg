\* Checkpoints without a disk tier, and a disk tier without checkpoints.
SPECIFICATION Spec
CONSTANTS
    Slots = {s0, s1}
    NoSlot = none
    Prompts <- TwoTurns
    MaxLen = 7
    Boundary <- LastMessage
    C = 2
    Tiers <- EachAlone
    Stride = 4
    Grain = 2
    Backoff = 2
    MinGain = 1
    MinGainSplit = 2
    TpCap = 3
    MaxPending = 4
    MaxFaults = 1
INVARIANTS
    SnapshotExact
    CheckpointRows
    ResumeExact
    StoreMatchesPolicy
SYMMETRY AnySlot
CHECK_DEADLOCK FALSE
