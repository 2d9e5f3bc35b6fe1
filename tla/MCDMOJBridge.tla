---------------------------- MODULE MCDMOJBridge ----------------------------
(* Instances of DMOJBridge for TLC. *)
EXTENDS DMOJBridge, TLC

Interchangeable == Permutations(Connections) \cup Permutations(Names)

===============================================================================
