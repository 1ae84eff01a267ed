\* A segment that is switched off while its picture stands still.
SPECIFICATION FairSpec
CONSTANTS
    Rigs <- SegmentRigs
    Full = 2
    FadeTimes = {0, 2}
    MaxTakes = 2
    MaxFailures = 1
PROPERTY DisabledReleases
