SPECIFICATION Spec
CONSTANTS
    Submissions = {s1}
    NoSubmission = none
    Judges <- TwoJudges
    Runs = {r1}
    FinalVerdicts = {"AC"}
    MaxFaults <- OneDrop
INVARIANTS BusyMeansWorking
