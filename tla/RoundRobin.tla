------------------------------ MODULE RoundRobin ------------------------------
(***************************************************************************)
(* How getNextAvailableJudge (submission-queue.service.ts) picks a judge:  *)
(* the names that are connected and not busy are sorted alphabetically and *)
(* the one at position lastUsedJudgeIndex is taken.  Names are numbered in *)
(* alphabetical order, so sorting is the order of the numbers.             *)
(***************************************************************************)
EXTENDS Naturals, FiniteSets

\* The place of j in the sorted list of available names (from 0, as arrays are).
PositionIn(j, available) == Cardinality({k \in available : k < j})

\* "Reset if index is out of bounds": the index the list is read at.
IndexInto(available, lastUsed) ==
    IF lastUsed >= Cardinality(available) THEN 0 ELSE lastUsed

\* j is the judge the next assignment takes.
IsSelected(j, available, lastUsed) ==
    /\ j \in available
    /\ PositionIn(j, available) = IndexInto(available, lastUsed)

\* Mutated forms of IndexAfter: the index stays, or runs off the list.
IndexAfterStanding(available, lastUsed) == IndexInto(available, lastUsed)
IndexAfterUnwrapped(available, lastUsed) == IndexInto(available, lastUsed) + 1

\* lastUsedJudgeIndex after a selection.
IndexAfter(available, lastUsed) ==
    (IndexInto(available, lastUsed) + 1) % Cardinality(available)

===============================================================================
