\* A source of three samples, read in chunks and callbacks of two through a ring
\* of two: a full ring, a short read, an underflow and the end of the source all
\* happen; with two seeks one overtakes the other.
SPECIFICATION Spec
CONSTANTS
    SourceLen = 3
    RingCap = 2
    ChunkLen = 2
    CallbackLen = 2
    MaxSeeks = 2
INVARIANTS
    HeardFromTarget
    EndedAtSourceEnd
PROPERTIES
    ThreadServes
    ImplementsProvider
\* A dropped source stops for good.
CHECK_DEADLOCK FALSE
