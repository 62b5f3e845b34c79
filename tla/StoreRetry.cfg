SPECIFICATION RetrySpec
CONSTANTS
    CaseIds = {"c1", "c2"}
    Keys = {"k1", "k2", "k3"}
    Bodies = {"create", "edit"}
    Unnamed = {}
    Requests <- MCRequests
    FaultModels = {{"write", "crash"}}
    MaxAttempts = 3
    MaxCrashes = 2
    NoCase = NoCase
    NoRecord = NoRecord
    Torn = Torn
PROPERTIES
    RetryEventuallyAnswered
CHECK_DEADLOCK FALSE
