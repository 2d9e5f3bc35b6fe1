------------------------------- MODULE MCTables -------------------------------
(***************************************************************************)
(* The pure parts over bounded inputs, one step per question put to them,  *)
(* and the rotation of the judges, which runs while nothing is asked.      *)
(***************************************************************************)
EXTENDS Verdict, InitYml, ProblemAccess, JudgeRotation

CONSTANTS
    MaxCases,        \* verdicts a submission may have
    MaxTotal,        \* case points a submission may have
    ProblemPoints,   \* points a problem may have
    MaxEntries,      \* entries an author may submit
    EntryPoints      \* points an entry may have

ASSUME TablesAssumption ==
    /\ MaxCases \in Nat /\ MaxTotal \in Nat /\ MaxEntries \in Nat
    /\ ProblemPoints \subseteq Nat /\ EntryPoints \subseteq Nat

FourJudges == {1, 2, 3, 4}

VARIABLE question

NoQuestion == [kind |-> "none"]
TablesInit == question = NoQuestion /\ Init

\* Every combination of DMOJ's flags, of bit 7, which none of them is, and of nothing.
Bits == {StatusFlags[i].bit : i \in DOMAIN StatusFlags} \cup {128}

AskStatus ==
    /\ question = NoQuestion
    /\ \E set \in SUBSET Bits :
          question' = [kind |-> "status", status |-> SumSet(set)]

AskVerdicts ==
    /\ question = NoQuestion
    /\ \E n \in 0..MaxCases : \E verdicts \in [1..n -> CaseVerdicts] :
          question' = [kind |-> "verdicts", verdicts |-> verdicts]

AskPoints ==
    /\ question = NoQuestion
    /\ \E total \in 1..MaxTotal, points \in ProblemPoints : \E earned \in 0..total :
          question' = [kind |-> "points", earned |-> earned, total |-> total, points |-> points]

AskEntries ==
    /\ question = NoQuestion
    /\ \E n \in 1..MaxEntries :
          \E cases \in [1..n -> CaseEntries(EntryPoints)], selected \in SUBSET (1..n) :
             question' = [kind |-> "entries", cases |-> cases, selected |-> selected]

AskAccess ==
    /\ question = NoQuestion
    /\ \E user \in Users, problem \in Problems :
          question' = [kind |-> "access", user |-> user, problem |-> problem]

Ask == connectedJudgeNames = {} /\ busyJudges = {} /\ lastUsedJudgeIndex = 0
       /\ (AskStatus \/ AskVerdicts \/ AskPoints \/ AskEntries \/ AskAccess)

TablesNext ==
    \/ Ask /\ UNCHANGED vars
    \/ question = NoQuestion /\ Next /\ UNCHANGED question

TablesSpec == TablesInit /\ [][TablesNext]_<<question, vars>>

\* Every combination of flags leads to the verdict its flags lead to as cases, and
\* the verdict of a submission is that of its worst case, in whatever order
\* (mapDMOJStatusToVerdict and handleGradingEnd).
VerdictsAgree ==
    /\ question.kind = "status" => FlagsAgreeWithPriorities(question.status)
    /\ question.kind = "verdicts" => OrderDoesNotMatter(question.verdicts)

\* Points grow with the score, full points meaning a full score.
PointsAgree ==
    question.kind = "points" =>
        PointsFollowScore(question.earned, question.total, question.points)

\* init.yml (finalize) holds every case the author selected, in batches that have
\* cases, and lets a submission earn points, unless a batch was started twice.
EntriesAreKept ==
    question.kind = "entries" =>
        /\ CasesAreKept(question.cases, question.selected)
        /\ SomethingIsEarnedUnlessDropped(question.cases, question.selected)

\* "TOTAL_POINTS_MUST_BE_GREATER_THAN_ZERO": without that condition.
EntriesAlwaysEarn ==
    question.kind = "entries" => SomethingIsEarned(question.cases, question.selected)

\* What is listed, found and shown are the same problems; who edits test data in
\* one controller does so in the other, unless a lock stops that one, and sees
\* them; no permission, role or login takes an ability away, and a lock takes
\* away the three that ask for it (problems.controller.ts, testcases.controller.ts).
AccessAgrees ==
    question.kind = "access" =>
        /\ ViewsAgree(question.user, question.problem)
        /\ EditorsAgree(question.user, question.problem)
        /\ RightsGrow(question.user, question.problem)
        /\ LocksRestrain(question.user, question.problem)

===============================================================================
