SPECIFICATION Spec
CONSTANTS
    Starts <- Shows
    MaxCues = 6
    Numbers <- TwelveNumbers
    MayNest = TRUE
    GroupTriggers = {"Go"}
INVARIANT GroupsContiguous
VIEW Shape
