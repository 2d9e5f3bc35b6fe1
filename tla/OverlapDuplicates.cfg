SPECIFICATION Spec
CONSTANTS
    Submissions = {s1}
    NoSubmission = none
    Judges <- TwoJudges
    Runs = {r1, r2}
    FinalVerdicts = {"AC"}
    MaxFaults <- NoFaults
INVARIANTS SubmissionExclusive
