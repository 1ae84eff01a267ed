SPECIFICATION Spec
CONSTANTS
    Starts <- Shows
    MaxCues = 6
    Numbers <- TwelveNumbers
    MayNest = FALSE
    GroupTriggers = {"Go", "WithLast"}
INVARIANT PlayheadOutsideGroups
VIEW Shape
