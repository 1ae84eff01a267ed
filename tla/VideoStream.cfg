SPECIFICATION Spec
CONSTANTS
    Frames = 2
    QueueCap = 1
    MaxRetries = 1
    MediaOffset = 1
    MaxLate = 1
    Lookahead = 1
    Scripts <- ShowScripts
    MaxLoops = 1
    Modes = {"OneShot", "Looped", "HoldLast"}
    Faults = {"OpenFails", "ReadFails", "Timeout"}
INVARIANTS
    PictureOnCueTime
    FramesInOrder
\* The operator's script comes to an end.
CHECK_DEADLOCK FALSE
