SPECIFICATION Spec
CONSTANTS
    Strings <- MCStrings
    Blank = ""
    Any = "*"
    Trim <- MCTrim
    Leaky = {"SECRET:"}
    TicksPerMs = 2
    SegmentInputs <- OneSegment
    GrantInputs <- ShortGrants
    UseInputs = {"web"}
    TextInputs = {"safe", "raw", "SECRET:"}
    NoteInputs = {"why"}
    MaxBatch = 2
    MaxVersion = 12
    MaxTime = 0
    NoCredential = NoCredential
INVARIANTS
    ConsentDatesOrdered
CHECK_DEADLOCK FALSE
