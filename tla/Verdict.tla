------------------------------- MODULE Verdict -------------------------------
(***************************************************************************)
(* How JudgeManagerService turns what a judge reports into a verdict: the  *)
(* flags of a test case's status into the verdict of the case              *)
(* (mapDMOJStatusToVerdict), the cases of a submission into its verdict    *)
(* and its points (handleGradingEnd).                                      *)
(***************************************************************************)
EXTENDS Integers, FiniteSets, Sequences, FiniteSetsExt

\* DMOJ_STATUS, as the code tests it: the first flag that is set decides.
StatusFlags == <<
    [bit |-> 2^30, verdict |-> "ISE"], [bit |-> 4,  verdict |-> "TLE"],
    [bit |-> 8,    verdict |-> "MLE"], [bit |-> 64, verdict |-> "OLE"],
    [bit |-> 2,    verdict |-> "RTE"], [bit |-> 16, verdict |-> "IR"],
    [bit |-> 1,    verdict |-> "WA"],  [bit |-> 32, verdict |-> "SK"] >>

HasFlag(status, bit) == (status \div bit) % 2 = 1

\* Mutated form of MapDMOJStatusToVerdict: the last flag that is set decides.
MapDMOJStatusBackwards(status) ==
    LET set == {i \in DOMAIN StatusFlags : HasFlag(status, StatusFlags[i].bit)}
    IN  IF set # {} THEN StatusFlags[Max(set)].verdict
        ELSE IF status = 0 THEN "AC" ELSE "ISE"

MapDMOJStatusToVerdict(status) ==
    LET set == {i \in DOMAIN StatusFlags : HasFlag(status, StatusFlags[i].bit)}
    IN  IF set # {} THEN StatusFlags[Min(set)].verdict
        ELSE IF status = 0 THEN "AC" ELSE "ISE"

CaseVerdicts == {"AC", "SK", "WA", "IR", "RTE", "OLE", "MLE", "TLE", "CE", "AB", "ISE"}

VerdictPriority ==
    [v \in CaseVerdicts |->
        CASE v \in {"AC", "SK"} -> 0 [] v = "WA"  -> 1 [] v = "IR"  -> 2 [] v = "RTE" -> 3
          [] v = "OLE" -> 4          [] v = "MLE" -> 5 [] v = "TLE" -> 6 [] v = "CE"  -> 7
          [] v = "AB"  -> 8          [] v = "ISE" -> 9]

\* Mutated form of Worse: a tie, too, replaces the verdict.
WorseOrEqual(v, w) == IF VerdictPriority[w] >= VerdictPriority[v] THEN w ELSE v

\* One turn of the loop over the test cases: v so far, w the next case.
Worse(v, w) == IF w # "SK" /\ VerdictPriority[w] > VerdictPriority[v] THEN w ELSE v

\* The loop, over the rows in the order the database returns them.
FinalVerdict(verdicts) ==
    LET upTo[i \in 0..Len(verdicts)] ==
            IF i = 0 THEN "AC" ELSE Worse(upTo[i - 1], verdicts[i])
    IN  upTo[Len(verdicts)]

\* Mutated form of SubmissionPoints: the quotient is rounded, not the product.
SubmissionPointsOfQuotient(casePoints, caseTotal, points) ==
    IF caseTotal > 0 THEN ((2 * casePoints + caseTotal) \div (2 * caseTotal)) * points * 1000 ELSE 0

\* Math.round(casePoints / caseTotal * points * 1000) / 1000, in thousandths.
SubmissionPoints(casePoints, caseTotal, points) ==
    IF caseTotal > 0
    THEN (2 * casePoints * points * 1000 + caseTotal) \div (2 * caseTotal)
    ELSE 0

-------------------------------------------------------------------------------
(* What the two must agree on, for the inputs of MCTables. *)

KnownFlags(status) == {f \in {StatusFlags[i] : i \in DOMAIN StatusFlags} : HasFlag(status, f.bit)}

\* The worst of a set of verdicts, with no regard to order.
Worst(verdicts) ==
    CHOOSE v \in verdicts \cup {"AC"} :
        /\ v # "SK"
        /\ \A w \in verdicts : VerdictPriority[w] <= VerdictPriority[v]

(***************************************************************************)
(* A case with several flags counts as one case per flag would: the order  *)
(* in which mapDMOJStatusToVerdict tests the flags is the order of         *)
(* verdictPriority in handleGradingEnd.                                    *)
(***************************************************************************)
FlagsAgreeWithPriorities(status) ==
    KnownFlags(status) # {} =>
        Worse("AC", MapDMOJStatusToVerdict(status)) = Worst({f.verdict : f \in KnownFlags(status)})

(***************************************************************************)
(* handleGradingEnd asks for the test cases without an order; the verdict  *)
(* does not depend on the one it gets, a skipped case never counts, and a  *)
(* submission is accepted only if every case was accepted or skipped.      *)
(***************************************************************************)
OrderDoesNotMatter(verdicts) ==
    FinalVerdict(verdicts) = Worst({verdicts[i] : i \in DOMAIN verdicts})

(***************************************************************************)
(* Full points go to a full score only, none to none, and more case points *)
(* never earn fewer points, rounding included.  (A score within half a     *)
(* thousandth of a point of full would be rounded to it: that takes 2000   *)
(* case points for every point of the problem.)                            *)
(***************************************************************************)
PointsFollowScore(casePoints, caseTotal, points) ==
    LET p == SubmissionPoints(casePoints, caseTotal, points)
    IN  /\ caseTotal < 2000 * points =>
               /\ (p = points * 1000) = (casePoints = caseTotal)
               /\ (p = 0) = (casePoints = 0)
        /\ casePoints < caseTotal => p <= SubmissionPoints(casePoints + 1, caseTotal, points)

===============================================================================
