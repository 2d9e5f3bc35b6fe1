-------------------------- MODULE MCSubmissionIntake --------------------------
(* The instance of SubmissionIntake for TLC, one request and its submission: *)
(* Intake.cfg gives the constants their values.                              *)
EXTENDS SubmissionIntake

===============================================================================
