SPECIFICATION FairSpec
CONSTANTS
    Frames = 2
    QueueCap = 1
    MaxRetries = 1
    MediaOffset = 1
    MaxLate = 0
    Lookahead = 1
    Scripts <- LiveScripts
    MaxLoops = 1
    Modes = {"OneShot", "Looped"}
    Faults = {"OpenFails", "ReadFails"}
PROPERTIES
    PlaysOut
    RequestsServed
    GoesDark
\* The operator's script comes to an end.
CHECK_DEADLOCK FALSE
