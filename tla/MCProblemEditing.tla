--------------------------- MODULE MCProblemEditing ---------------------------
(* An instance of ProblemEditing for TLC. *)
EXTENDS ProblemEditing, TLC

Interchangeable == Permutations(Requests) \cup Permutations(Problems) \cup Permutations(Slugs)

===============================================================================
