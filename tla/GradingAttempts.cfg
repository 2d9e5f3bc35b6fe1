SPECIFICATION Spec
CONSTANTS
    CaseCounts = {1, 2}
    Reports <- AcceptedOrWrong
    ProblemPoints = 10
    MaxAttempts = 2
    MaxDbFailures = 1
    MaxRestarts = 1
INVARIANTS TypeOK RowsExplainFinal BatchesAreKept
CHECK_DEADLOCK FALSE
