SPECIFICATION Spec
CONSTANTS
    CaseIds = {"c1", "c2"}
    Keys = {"k1", "k2", "k3"}
    Bodies = {"create", "edit"}
    Unnamed = {}
    Requests <- MCRequests
    FaultModels = {{"append"}}
    MaxAttempts = 3
    MaxCrashes = 1
    NoCase = NoCase
    NoRecord = NoRecord
    Torn = Torn
INVARIANTS
    Reopenable
CHECK_DEADLOCK FALSE
