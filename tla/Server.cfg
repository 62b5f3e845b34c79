SPECIFICATION Spec
CONSTANTS
    Modes = {"serve", "selfcheck"}
    Clients = {c1, c2}
    Self = self
    Steps = 3
INVARIANTS
    TypeOK
    AnswersBeforeExit
    FailureIsReported
    PassLeavesNoTrace
PROPERTIES
    Stops
CHECK_DEADLOCK FALSE
