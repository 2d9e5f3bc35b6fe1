SPECIFICATION Spec
CONSTANTS
    Submissions = {s1}
    MaxDbFailures = 2
    MaxRestarts = 1
INVARIANTS TypeOK NothingStranded FilePrecedesJudging ResultsStand
PROPERTIES RefusalsAreCurrent
