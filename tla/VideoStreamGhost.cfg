SPECIFICATION Spec
CONSTANTS
    Frames = 2
    QueueCap = 1
    MaxRetries = 1
    MediaOffset = 1
    MaxLate = 0
    Lookahead = 0
    Scripts <- TextScripts
    MaxLoops = 1
    Modes = {"OneShot"}
    Faults = {}
INVARIANT DarkAfterStop
\* The operator's script comes to an end.
CHECK_DEADLOCK FALSE
