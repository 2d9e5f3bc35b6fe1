SPECIFICATION Spec
CONSTANTS
    Submissions = {s1, s2}
    NoSubmission = none
    Judges <- TwoJudges
    Runs = {r1}
    FinalVerdicts = {"AC"}
    MaxFaults <- OneRestart
SYMMETRY Interchangeable
INVARIANTS SerialInv ExhaustedIsInChargeWithoutFaults
PROPERTIES JudgingIsImplemented CompletionFreesJudge
