SPECIFICATION TimecodeSpec
CONSTANTS
    Kinds = {"mtc"}
    MaxPos = 16
    Digit = 8
    Offset = 2
    Deadband = 1
    HardSync = 3
    Floor = 2
    Timeout = 4
    MaxLost = 1
    MaxLoop = 1
    Settle = 10
    Starts = {4, 6, 8}
    MaxMoves = 5
    MaxFaults = 0
INVARIANT
    HeldPictureMatches
