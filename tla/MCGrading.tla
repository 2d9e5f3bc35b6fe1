------------------------------ MODULE MCGrading ------------------------------
(* Instances of Grading for TLC. *)
EXTENDS Grading

AcceptedOrWrong ==
    { [verdict |-> "AC", points |-> 1, total |-> 1], [verdict |-> "WA", points |-> 0, total |-> 1] }

===============================================================================
