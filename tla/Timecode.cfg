SPECIFICATION TimecodeSpec
CONSTANTS
    Kinds = {"mtc", "ltc"}
    MaxPos = 16
    Digit = 4
    Offset = 2
    Deadband = 1
    HardSync = 3
    Floor = 2
    Timeout = 4
    MaxLost = 1
    MaxLoop = 1
    Settle = 12
    Starts = {0, 8}
    MaxMoves = 3
    MaxFaults = 1
INVARIANTS
    FollowKeepsUp
    FollowLands
