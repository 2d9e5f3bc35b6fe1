------------------------------ MODULE MCAccounts ------------------------------
(* An instance of Accounts for TLC. *)
EXTENDS Accounts, TLC

Interchangeable ==
    Permutations(Requests) \cup Permutations(Sessions) \cup Permutations(Names)
        \cup Permutations(Emails)

===============================================================================
