SPECIFICATION Spec
CONSTANTS
    SourceLen = 2
    RingCap = 2
    ChunkLen = 2
    CallbackLen = 2
    MaxSeeks = 0
INVARIANT EndedMeansDrained
CHECK_DEADLOCK FALSE
