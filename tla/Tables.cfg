SPECIFICATION TablesSpec
CONSTANTS
    MaxCases = 4
    MaxTotal = 30
    MaxEntries = 4
    EntryPoints = {0, 1}
    ProblemPoints = {1, 3, 10}
    Judges <- FourJudges
INVARIANTS VerdictsAgree PointsAgree EntriesAreKept AccessAgrees RotationIsFair
CHECK_DEADLOCK FALSE
