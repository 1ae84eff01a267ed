\* The lists of sounds, of pictures and of what moves the show clock, each with
\* the commands that matter to it.
SPECIFICATION Spec
CHECK_DEADLOCK FALSE
CONSTANTS
    Shows <- MixedShows
    Limits <- ShowLimits
    StartTime = 1
    MaxEpoch = 2
    MaxSeek = 1
    MaxVoices = 4
INVARIANTS
    OneLiveInstance
    NothingChains
    PlayingIsRendered
    FiresOnce
    PositionIsTimeShown
    PauseIsWhole
    ClockShowsTimeRun
    StopIsFinal
