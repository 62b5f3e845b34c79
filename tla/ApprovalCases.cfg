SPECIFICATION Spec
CONSTANTS
    CaseIds = {c1, c2}
    Managers = {m1, m2}
    Keys = {1}
    Manifests = {"safe"}
    Safe = {"safe"}
    Until <- OneConsent
    Returned = {}
    Lifetime = 1
    MaxTokens = 2
    MaxVersion = 2
    MaxTime = 0
    MaxFaults = 2
    None = None
SYMMETRY CaseSymmetry
INVARIANTS
    UsedWithApproval
PROPERTIES
    ImplementsPublication
CHECK_DEADLOCK FALSE
