SPECIFICATION RSpec
CONSTANTS
    Strings <- MCStrings
    Blank = ""
    Any = "*"
    Trim <- MCTrim
    Leaky = {"SECRET:"}
    TicksPerMs = 2
    SegmentInputs <- TwoSegments
    GrantInputs <- OneGrant
    UseInputs = {"web"}
    TextInputs = {"safe", "raw", "SECRET:"}
    NoteInputs = {"why"}
    MaxBatch = 2
    MaxVersion = 11
    MaxTime = 0
    NoCredential = NoCredential
INVARIANTS
    ReviewersCheck
CHECK_DEADLOCK FALSE
