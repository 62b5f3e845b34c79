SPECIFICATION WSpec
CONSTANTS
    Strings <- MCStrings
    Blank = ""
    Any = "*"
    Trim <- MCTrim
    Leaky = {}
    TicksPerMs = 1
    SegmentInputs <- MCSegments
    GrantInputs <- MCGrants
    UseInputs = {"web"}
    TextInputs = {"safe", "mask"}
    NoteInputs = {"why"}
    MaxBatch = 1
    MaxVersion = 9
    MaxTime = 2
    NoCredential = NoCredential
    Tabs = {t1, t2}
    MaxLost = 1
INVARIANTS
    FullCheckIsOffered
CHECK_DEADLOCK FALSE
