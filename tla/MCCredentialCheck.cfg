SPECIFICATION Spec
CONSTANTS
    Ids = {1, 2, 3}
    Rows = {1, 2, 3}
    Texts <- MCTexts
    Trim <- MCTrim
    Grants = {"g1", "g2"}
    Approvals <- MCApprovals
    Legacy = {FALSE, TRUE}
    Faults = {"text", "order", "id", "remove", "copy", "consents", "state", "unseal"}
    MaxFaults = 3
INVARIANTS
    ValidIffIntact
    StatusesNameWhatChanged
CHECK_DEADLOCK FALSE
