SPECIFICATION Spec
CONSTANTS
    Ids = {1, 2, 3}
    Rows = {1, 2, 3}
    Texts <- MCTexts
    Trim <- MCTrim
    Grants = {"g1", "g2"}
    Approvals <- MCApprovals
    Legacy = {TRUE}
    Faults = {"consents"}
    MaxFaults = 3
INVARIANTS
    InvalidIsLocated
CHECK_DEADLOCK FALSE
