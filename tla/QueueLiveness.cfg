SPECIFICATION FairSpec
CONSTANTS
    Submissions = {s1, s2}
    NoSubmission = none
    Judges <- OneJudge
    Runs = {r1}
    FinalVerdicts = {"AC"}
    MaxFaults <- NoFaults
PROPERTIES EveryEntryIsJudged
