SPECIFICATION Spec
CONSTANTS
    Starts <- Shows
    MaxCues = 6
    Numbers <- TwelveNumbers
    MayNest = FALSE
    GroupTriggers = {"Go"}
INVARIANTS
    GroupsContiguous
    ReferencesHold
    BlocksStayWhole
VIEW Shape
