SPECIFICATION Spec
CONSTANTS
    CaseIds = {"c1", "c2"}
    Keys = {"k1", "k2", "k3"}
    Bodies = {"create", "edit"}
    Unnamed = {"edit"}
    Requests <- MCRequests
    FaultModels = {{}}
    MaxAttempts = 3
    MaxCrashes = 0
    NoCase = NoCase
    NoRecord = NoRecord
    Torn = Torn
INVARIANTS
    KeyAnswersOneCommand
CHECK_DEADLOCK FALSE
