SPECIFICATION FairSpec
CHECK_DEADLOCK FALSE
CONSTANTS
    Shows <- LiveShows
    Limits <- LiveLimits
    StartTime = 0
    MaxEpoch = 2
    MaxSeek = 0
    MaxVoices = 4
INVARIANT
    BothHalvesFinish
PROPERTY
    EverythingEnds
