SPECIFICATION Spec
CONSTANTS
    CaseIds = {"c1", "c2"}
    Keys = {"k1", "k2", "k3"}
    Bodies = {"create", "edit"}
    Unnamed = {}
    Requests <- MCRequests
    FaultModels = {{"crash", "power"}}
    MaxAttempts = 3
    MaxCrashes = 2
    NoCase = NoCase
    NoRecord = NoRecord
    Torn = Torn
INVARIANTS
    AckedSurvives
CHECK_DEADLOCK FALSE
