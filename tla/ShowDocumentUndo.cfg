SPECIFICATION Spec
CONSTANTS
    p1 = p1
    p2 = p2
    Paths = {p1, p2}
    NoPath = NoPath
    UndoDepth = 2
    Commands <- EditSaveUndo
    MaxCommands = 3
    MaxQueue = 2
INVARIANT CleanMeansSaved
SYMMETRY FileSymmetry
