SPECIFICATION Spec
CONSTANTS
    CaseIds = {c1}
    Managers = {m1, m2}
    Keys = {1}
    Manifests = {"safe", "leaky"}
    Safe = {"safe"}
    Until <- Lapses
    Returned <- Leaked
    Lifetime = 1
    MaxTokens = 2
    MaxVersion = 3
    MaxTime = 1
    MaxFaults = 1
    None = None
SYMMETRY Symmetry
INVARIANTS
    TypeOK
    UsedWithApproval
    ApprovedWithinLifetime
    SealsWhatItLists
    RetryIsAnswered
PROPERTIES
    ImplementsPublication
CHECK_DEADLOCK FALSE
