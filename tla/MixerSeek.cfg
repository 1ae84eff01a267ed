SPECIFICATION Spec
CONSTANTS
    a = a
    Inputs = {a}
    Levels = {0, 1, 2}
    Frames = {2}
    Blocks = 2
    MaxOps = 3
INVARIANT SeekMakesPlayable
