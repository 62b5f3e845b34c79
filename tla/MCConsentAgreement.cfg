SPECIFICATION Spec
CONSTANTS
    Strings <- MCStrings
    Blank = ""
    Any = "*"
    Trim <- MCTrim
    Leaky = {}
    TicksPerMs = 2
    GrantSets <- MCGrantSets
    Uses = {"web"}
    SegmentIds = {"s1", " s1"}
    MaxTime = 5
INVARIANTS
    CheckerNoLooser
    PreviewPredictsCheck
CHECK_DEADLOCK FALSE
