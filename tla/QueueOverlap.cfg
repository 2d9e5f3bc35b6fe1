SPECIFICATION Spec
CONSTANTS
    Submissions = {s1}
    NoSubmission = none
    Judges <- TwoJudges
    Runs = {r1, r2}
    FinalVerdicts = {"AC"}
    MaxFaults <- EachFaultOnce
SYMMETRY Interchangeable
INVARIANTS TypeOK ClaimInv NoSubmissionLost AttemptsBounded
PROPERTIES StuckForACause
