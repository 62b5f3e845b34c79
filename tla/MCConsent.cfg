SPECIFICATION Spec
CONSTANTS
    Strings <- MCStrings
    Blank = ""
    Any = "*"
    Trim <- MCTrim
    Leaky = {"SECRET:"}
    TicksPerMs = 2
    SegmentInputs <- OneSegment
    GrantInputs <- TwoGrants
    UseInputs = {"web"}
    TextInputs = {"safe", "raw", "SECRET:"}
    NoteInputs = {"why"}
    MaxBatch = 2
    MaxVersion = 12
    MaxTime = 4
    NoCredential = NoCredential
INVARIANTS
    TextFindingsClosedByRevision
    ApprovedIsClean
    SensitiveWasReturned
    CredentialVerifies
PROPERTIES
    FindingsNeverForgotten
CHECK_DEADLOCK FALSE
