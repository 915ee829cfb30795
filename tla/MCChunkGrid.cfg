\* Every plan of a prompt of up to 15 tokens.
SPECIFICATION GridSpec
CONSTANTS
    MaxN = 15
    Widths = {2, 3, 4, 5}
    Stride = 6
    Grain = 3
    Backoff = 1
    MinGain = 1
    MinGainSplit = 2
    RMin = 3
    TpCap = 6
INVARIANTS
    ChunksFit
    BoundariesKept
    RaggedOnlyIfForced
    ResumedGridIsFresh
CHECK_DEADLOCK FALSE
