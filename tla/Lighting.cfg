\* Fixtures, shows, segments and the recorder under every sequence of commands.
SPECIFICATION FairSpec
CONSTANTS
    Rigs <- AllRigs
    Full = 2
    FadeTimes = {0, 2}
    MaxTakes = 2
    MaxFailures = 1
INVARIANTS
    EndsOnce
    WireIsCurrent
    LastTakeKept
PROPERTIES
    NoLightJumps
    OutputsLetGo
