SPECIFICATION Spec
CHECK_DEADLOCK FALSE
CONSTANTS
    Shows <- BatchShows
    Limits <- BatchLimits
    StartTime = 0
    MaxEpoch = 2
    MaxSeek = 0
    MaxVoices = 4
INVARIANT NothingChains
