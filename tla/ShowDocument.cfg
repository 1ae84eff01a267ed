SPECIFICATION Spec
CONSTANTS
    p1 = p1
    p2 = p2
    Paths = {p1, p2}
    NoPath = NoPath
    UndoDepth = 1
    Commands <- AllCommands
    MaxCommands = 3
    MaxQueue = 2
INVARIANTS
    CleanIsSaved
    OneShowPlays
    CommandsAreWhole
    FilesAreGood
SYMMETRY FileSymmetry
