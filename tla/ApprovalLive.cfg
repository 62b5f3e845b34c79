SPECIFICATION PersistentSpec
CONSTANTS
    CaseIds = {c1}
    Managers = {m1, m2}
    Keys = {1, 2, 3, 4, 5, 6, 7, 8}
    Manifests = {"safe"}
    Safe = {"safe"}
    Until <- OneConsent
    Returned = {}
    Lifetime = 1
    MaxTokens = 8
    MaxVersion = 3
    MaxTime = 1
    MaxFaults = 1
    None = None
PROPERTIES
    ApprovedEventually
CHECK_DEADLOCK FALSE
