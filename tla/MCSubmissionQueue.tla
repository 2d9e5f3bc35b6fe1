-------------------------- MODULE MCSubmissionQueue --------------------------
(* Instances of SubmissionQueue for TLC. *)
EXTENDS SubmissionQueue, TLC

NoFaults == [k \in FaultKinds |-> 0]
EachFaultOnce == [k \in FaultKinds |-> 1]
OneDrop == [k \in FaultKinds |-> IF k = "drop" THEN 1 ELSE 0]
OneDbFailure == [k \in FaultKinds |-> IF k = "db" THEN 1 ELSE 0]
OneRestart == [k \in FaultKinds |-> IF k = "restart" THEN 1 ELSE 0]

OneJudge == {1}
TwoJudges == {1, 2}

\* Submissions and runs are interchangeable; judges are ordered by name.
Interchangeable == Permutations(Submissions) \cup Permutations(Runs)

===============================================================================
