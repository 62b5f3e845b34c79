SPECIFICATION Spec
CONSTANTS
    Strings <- MCStrings
    Blank = ""
    Any = "*"
    Trim <- MCTrim
    Leaky = {}
    TicksPerMs = 1
    SegmentInputs <- MCSegmentInputs
    GrantInputs <- MCGrantInputs
    UseInputs = {"web", "press"}
    TextInputs = {"safe"}
    NoteInputs = {"why"}
    MaxBatch = 3
    MaxVersion = 10
    MaxTime = 0
    NoCredential = NoCredential
INVARIANTS
    TypeOK
    TimelineDisjoint
    SequenceIsTimelineOrder
PROPERTIES
    ImplementsLifecycle
CHECK_DEADLOCK FALSE
