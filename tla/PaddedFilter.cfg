SPECIFICATION Spec
CONSTANTS
    Strings <- MCStrings
    Blank = ""
    Any = "*"
    Trim <- MCTrim
    Leaky = {}
    TicksPerMs = 1
    SegmentInputs <- MCSegments
    GrantInputs <- MCGrants
    UseInputs = {"web"}
    TextInputs = {"safe"}
    NoteInputs = {"why"}
    MaxBatch = 1
    MaxVersion = 8
    MaxTime = 0
    NoCredential = NoCredential
INVARIANTS
    FindingsAreFound
CHECK_DEADLOCK FALSE
