SPECIFICATION Spec
CONSTANTS
    CaseIds = {"c1", "c2"}
    Keys = {"k1", "k2", "k3"}
    Bodies = {"create", "edit"}
    Unnamed = {}
    Requests <- MCRequests
    FaultModels = {{"write", "append", "crash"}, {"write", "append", "power"}, {"write", "crash"}}
    MaxAttempts = 3
    MaxCrashes = 2
    NoCase = NoCase
    NoRecord = NoRecord
    Torn = Torn
INVARIANTS
    TypeOK
    AckedSurvives
    KeyAnswersOneCommand
    MirrorIsBehind
    CrashReopenable
PROPERTIES
    ImplementsLedger
CHECK_DEADLOCK FALSE
