------------------------------- MODULE Grading -------------------------------
(***************************************************************************)
(* The judging of one submission as JudgeManagerService sees it: the       *)
(* packets of a judge arrive in order, and the handler of each runs to its *)
(* first `await'; the upsert of a test case is a statement under way until *)
(* the database executes it.  handleGradingEnd reads the rows back and     *)
(* completes the submission with what it read.  An attempt that fails      *)
(* leaves its rows; the next one overwrites them case by case.             *)
(***************************************************************************)
EXTENDS Verdict, SequencesExt

CONSTANTS
    CaseCounts,      \* how many cases the problem may have at an attempt
    Reports,         \* what a judge may report of a case
    ProblemPoints,   \* problem.points
    MaxAttempts,     \* attempts the queue allows
    MaxDbFailures, MaxRestarts

ASSUME GradingAssumption ==
    /\ CaseCounts \subseteq Nat \ {0}
    /\ \E m \in CaseCounts : \A n \in CaseCounts : n <= m
    /\ Reports \subseteq [verdict : CaseVerdicts, points : Nat, total : Nat]
    /\ {ProblemPoints, MaxAttempts, MaxDbFailures, MaxRestarts} \subseteq Nat

CaseNumbers == 1..Max(CaseCounts)
NoBatch == 0
BatchNumbers == 0..(MaxAttempts * Max(CaseCounts))

\* A row of SubmissionTestCase; maxPoints is the column.
Rows == [report : Reports, batchNumber : BatchNumbers]
NoRow == [report |-> "none"]
NoResult == [verdict |-> "none"]

\* What handleGradingEnd makes of rows.  Worst stands for its loop, which
\* finds the same verdict (OrderDoesNotMatter).
Result(rows) ==
    LET cases == {n \in DOMAIN rows : rows[n] # NoRow}
        sum(field(_)) == MapThenSumSet(LAMBDA n : field(rows[n].report), cases)
    IN  [verdict |-> Worst({rows[n].report.verdict : n \in cases}),
         points |-> SubmissionPoints(sum(LAMBDA r : r.points), sum(LAMBDA r : r.total),
                                     ProblemPoints)]

VARIABLES
    \* The judge: outside the repository.
    numbering,   \* whether its packets carry batch numbers
    judge,       \* whether it is at work, and where in its cases it is
    reported,    \* the row each of its reports was to become, in this attempt
    judgeBatch,  \* the batch it reported each case in
    \* The server's memory.
    currentBatch,   \* currentBatchPerSubmission's entry
    handler,        \* handleGradingEnd
    upserts,        \* statements under way, in the order they were issued
    \* The database.
    inOrder,     \* whether it executes statements in the order they are issued
    testCases,   \* the rows of SubmissionTestCase
    final,       \* the submission's verdict and points once it was completed
    queued,      \* whether it has a row in SubmissionQueue
    attempts,
    dbFailures, restarts

judgeVars == <<numbering, judge, reported, judgeBatch>>
memory == <<currentBatch, handler, upserts>>
database == <<inOrder, testCases, final, queued, attempts>>
faults == <<dbFailures, restarts>>
vars == <<judgeVars, memory, database, faults>>

IdleJudge == [busy |-> FALSE, total |-> 0, next |-> 1, batch |-> NoBatch, batches |-> 0]
NoBatchYet == [last |-> 0, active |-> FALSE]
NoHandler == [pc |-> "none"]

JudgeStates == [busy : BOOLEAN, total : CaseCounts \cup {0}, next : Nat,
                batch : BatchNumbers, batches : BatchNumbers]
Upserts == [case : CaseNumbers, row : Rows]

TypeOK ==
    /\ numbering \in BOOLEAN /\ inOrder \in BOOLEAN
    /\ judge \in JudgeStates
    /\ reported \in [CaseNumbers -> Rows \cup {NoRow}]
    /\ judgeBatch \in [CaseNumbers -> BatchNumbers]
    /\ currentBatch \in [last : BatchNumbers, active : BOOLEAN]
    /\ handler.pc \in {"none", "finding", "reading", "completing", "deleting"}
    /\ upserts \in Seq(Upserts)
    /\ testCases \in [CaseNumbers -> Rows \cup {NoRow}]
    /\ queued \in BOOLEAN
    /\ attempts \in 0..MaxAttempts
    /\ dbFailures \in 0..MaxDbFailures /\ restarts \in 0..MaxRestarts

Init ==
    /\ numbering \in BOOLEAN /\ inOrder \in BOOLEAN
    /\ judge = IdleJudge
    /\ reported = [n \in CaseNumbers |-> NoRow]
    /\ judgeBatch = [n \in CaseNumbers |-> NoBatch]
    /\ currentBatch = NoBatchYet
    /\ handler = NoHandler
    /\ upserts = <<>>
    /\ testCases = [n \in CaseNumbers |-> NoRow]
    /\ final = NoResult
    /\ queued = TRUE
    /\ attempts = 0
    /\ dbFailures = 0 /\ restarts = 0

-------------------------------------------------------------------------------
(* The queue hands the submission to a judge, and gets it back. *)

\* Mutated form of Submit: `attempts < 3' is not asked for.
SubmitWithoutLimit ==
    /\ queued /\ ~judge.busy /\ handler = NoHandler
    /\ attempts' = attempts + 1
    /\ \E total \in CaseCounts : judge' = [IdleJudge EXCEPT !.busy = TRUE, !.total = total]
    /\ reported' = [n \in CaseNumbers |-> NoRow]
    /\ judgeBatch' = [n \in CaseNumbers |-> NoBatch]
    /\ UNCHANGED <<numbering, memory, inOrder, testCases, final, queued, faults>>

Submit ==
    /\ queued /\ ~judge.busy /\ handler = NoHandler
    /\ attempts < MaxAttempts
    /\ attempts' = attempts + 1
    /\ \E total \in CaseCounts : judge' = [IdleJudge EXCEPT !.busy = TRUE, !.total = total]
    /\ reported' = [n \in CaseNumbers |-> NoRow]
    /\ judgeBatch' = [n \in CaseNumbers |-> NoBatch]
    /\ UNCHANGED <<numbering, memory, inOrder, testCases, final, queued, faults>>

\* The judge gives up; the queue will submit again.
HandleInternalError ==
    /\ judge.busy
    /\ judge' = IdleJudge
    /\ UNCHANGED <<numbering, reported, judgeBatch, memory, database, faults>>

-------------------------------------------------------------------------------
(* Packets of the judge.  A batch begins only if a case is left for it. *)

HandleBatchBegin ==
    /\ judge.busy /\ judge.batch = NoBatch /\ judge.next <= judge.total
    /\ judge' = [judge EXCEPT !.batches = @ + 1, !.batch = judge.batches + 1]
    /\ currentBatch' = [last |-> IF numbering THEN judge.batches + 1 ELSE currentBatch.last + 1,
                        active |-> TRUE]
    /\ UNCHANGED <<numbering, reported, judgeBatch, handler, upserts, database, faults>>

\* Mutated forms of HandleBatchEnd: the count starts over; the batch stays active.
HandleBatchEndForgetting ==
    /\ judge.busy /\ judge.batch # NoBatch /\ judge.next > 1
    /\ judgeBatch[judge.next - 1] = judge.batch
    /\ judge' = [judge EXCEPT !.batch = NoBatch]
    /\ currentBatch' = NoBatchYet
    /\ UNCHANGED <<numbering, reported, judgeBatch, handler, upserts, database, faults>>

HandleBatchEndStaying ==
    /\ judge.busy /\ judge.batch # NoBatch /\ judge.next > 1
    /\ judgeBatch[judge.next - 1] = judge.batch
    /\ judge' = [judge EXCEPT !.batch = NoBatch]
    /\ UNCHANGED <<numbering, reported, judgeBatch, memory, database, faults>>

HandleBatchEnd ==
    /\ judge.busy /\ judge.batch # NoBatch /\ judge.next > 1
    /\ judgeBatch[judge.next - 1] = judge.batch
    /\ judge' = [judge EXCEPT !.batch = NoBatch]
    /\ currentBatch' = [currentBatch EXCEPT !.active = FALSE]
    /\ UNCHANGED <<numbering, reported, judgeBatch, handler, upserts, database, faults>>

\* The batch a case is stored with: the packet's, or the one that is active.
NormalizedBatchNumber ==
    IF numbering /\ judge.batch # NoBatch THEN judge.batch
    ELSE IF currentBatch.active THEN currentBatch.last ELSE NoBatch

HandleTestCaseStatus(report) ==
    /\ judge.busy /\ judge.next <= judge.total
    /\ LET row == [report |-> report, batchNumber |-> NormalizedBatchNumber]
       IN  /\ reported' = [reported EXCEPT ![judge.next] = row]
           /\ upserts' = Append(upserts, [case |-> judge.next, row |-> row])
    /\ judgeBatch' = [judgeBatch EXCEPT ![judge.next] = judge.batch]
    /\ judge' = [judge EXCEPT !.next = @ + 1]
    /\ UNCHANGED <<numbering, currentBatch, handler, database, faults>>

\* grading-end: every case was reported and every batch ended.
HandleGradingEnd ==
    /\ judge.busy /\ judge.next > judge.total /\ judge.batch = NoBatch
    /\ judge' = IdleJudge
    /\ handler' = [pc |-> "finding"]
    /\ UNCHANGED <<numbering, reported, judgeBatch, currentBatch, upserts, database, faults>>

-------------------------------------------------------------------------------
(* handleGradingEnd and completeSubmission, one step per await. *)

\* A statement issued now is executed after those under way, or at any time.
CanExecute == inOrder => upserts = <<>>

FindSubmission ==
    /\ handler.pc = "finding" /\ CanExecute
    /\ handler' = [pc |-> "reading"]
    /\ UNCHANGED <<judgeVars, currentBatch, upserts, database, faults>>

FindTestCases ==
    /\ handler.pc = "reading" /\ CanExecute
    /\ handler' = [pc |-> "completing", result |-> Result(testCases)]
    /\ UNCHANGED <<judgeVars, currentBatch, upserts, database, faults>>

CompleteSubmission ==
    /\ handler.pc = "completing" /\ CanExecute
    /\ final' = handler.result
    /\ handler' = [pc |-> "deleting"]
    /\ UNCHANGED <<judgeVars, currentBatch, upserts, inOrder, testCases, queued, attempts, faults>>

RemoveFromQueue ==
    /\ handler.pc = "deleting" /\ CanExecute
    /\ queued' = FALSE
    /\ handler' = NoHandler
    /\ UNCHANGED <<judgeVars, currentBatch, upserts, inOrder, testCases, final, attempts, faults>>

-------------------------------------------------------------------------------
(* The database executes an upsert, or fails to; the server restarts. *)

\* Mutated form of UpsertLands: a row that exists already is not updated.
UpsertCreatesOnly(i) ==
    /\ inOrder => i = 1
    /\ testCases' = [testCases EXCEPT ![upserts[i].case] =
                         IF @ = NoRow THEN upserts[i].row ELSE @]
    /\ upserts' = RemoveAt(upserts, i)
    /\ UNCHANGED <<judgeVars, currentBatch, handler, inOrder, final, queued, attempts, faults>>

UpsertLands(i) ==
    /\ inOrder => i = 1
    /\ testCases' = [testCases EXCEPT ![upserts[i].case] = upserts[i].row]
    /\ upserts' = RemoveAt(upserts, i)
    /\ UNCHANGED <<judgeVars, currentBatch, handler, inOrder, final, queued, attempts, faults>>

UpsertFails(i) ==
    /\ dbFailures < MaxDbFailures
    /\ dbFailures' = dbFailures + 1
    /\ upserts' = RemoveAt(upserts, i)
    /\ UNCHANGED <<judgeVars, currentBatch, handler, database, restarts>>

Restart ==
    /\ restarts < MaxRestarts
    /\ restarts' = restarts + 1
    /\ judge' = IdleJudge
    /\ currentBatch' = NoBatchYet /\ handler' = NoHandler /\ upserts' = <<>>
    /\ UNCHANGED <<numbering, reported, judgeBatch, database, dbFailures>>

-------------------------------------------------------------------------------

Next ==
    \/ Submit \/ HandleInternalError
    \/ HandleBatchBegin \/ HandleBatchEnd \/ HandleGradingEnd
    \/ \E report \in Reports : HandleTestCaseStatus(report)
    \/ FindSubmission \/ FindTestCases \/ CompleteSubmission \/ RemoveFromQueue
    \/ \E i \in DOMAIN upserts : UpsertLands(i) \/ UpsertFails(i)
    \/ Restart

Spec == Init /\ [][Next]_vars

-------------------------------------------------------------------------------
(***************************************************************************)
(* "Calculate final result from test cases": what a submission is          *)
(* completed with is the result of the cases its last attempt reported.    *)
(***************************************************************************)
FinalReflectsReports ==
    [][CompleteSubmission => final' = Result(reported)]_vars

(***************************************************************************)
(* What is true of it if the database executes statements in the order     *)
(* they are issued.  From the moment the result is stored, and once the    *)
(* submission left the queue, the result is that of the rows, even if      *)
(* upserts failed.  Unless one did, every case the last attempt reported   *)
(* has the row it was reported with, whatever the attempts before left,    *)
(* also if the problem had more or fewer cases then: only rows of cases    *)
(* that the last attempt did not have are older, and they count.           *)
(***************************************************************************)
Completed == handler.pc = "deleting" \/ ~queued

RowsExplainFinal ==
    inOrder /\ Completed =>
        /\ final = Result(testCases)
        /\ dbFailures = 0 =>
              \A n \in CaseNumbers : reported[n] # NoRow => testCases[n] = reported[n]

(***************************************************************************)
(* Two batched cases of an attempt are stored with the same batch number   *)
(* exactly if the judge reported them in the same batch: across retries    *)
(* and restarts, and whether or not the judge numbers its batches.         *)
(***************************************************************************)
Batched == {n \in CaseNumbers : judgeBatch[n] # NoBatch}

BatchesAreDistinct ==
    \A m, n \in Batched :
        (reported[m].batchNumber = reported[n].batchNumber) = (judgeBatch[m] = judgeBatch[n])

(***************************************************************************)
(* "Only assign a batchNumber from tracked state if a batch is currently   *)
(* active": a case is stored with a batch number exactly if the judge      *)
(* reported it in a batch.  True of a first attempt; a batch that the      *)
(* judge leaves by an internal error is active in the next.                *)
(***************************************************************************)
BatchNumberMeansBatch ==
    \A n \in CaseNumbers : reported[n] # NoRow =>
        ((reported[n].batchNumber = NoBatch) = (judgeBatch[n] = NoBatch))

FirstAttemptIsExact == attempts = 1 => BatchNumberMeansBatch

(***************************************************************************)
(* The batch left open is nobody's batch: as long as the server counts the *)
(* batches itself, a case that belongs to none never has the number of     *)
(* one.  (A judge that numbers its batches starts from 1 again, and may    *)
(* reach the number that was left open.)                                   *)
(***************************************************************************)
OutsidersStayOut ==
    ~numbering =>
        \A m \in CaseNumbers \ Batched, n \in Batched :
            reported[m] # NoRow => reported[m].batchNumber # reported[n].batchNumber

\* Cases stay in the batches the judge reported them in.
BatchesAreKept == BatchesAreDistinct /\ FirstAttemptIsExact /\ OutsidersStayOut

(***************************************************************************)
(* Why these hold.  A judge is past the batches it began, and every batch  *)
(* has a case; what the server counts of batches and what the judge does   *)
(* differ by the batches of earlier attempts; a case in no batch has the   *)
(* number left open before the first batch, if any; and what a case's last *)
(* upsert will have made of its row is what was reported of it.            *)
(***************************************************************************)
JudgeCounts ==
    /\ judge.batch \in {NoBatch, judge.batches}
    /\ \/ judge.batches < judge.next
       \/ judge.batch # NoBatch /\ judge.batches = judge.next /\ judge.next <= judge.total
    /\ \A n \in CaseNumbers : judgeBatch[n] <= n
    /\ IF judge.busy
       THEN /\ queued /\ attempts > 0 /\ handler.pc = "none"
            /\ judge.total \in CaseCounts /\ judge.next \in 1..(judge.total + 1)
       ELSE judge = IdleJudge
    /\ handler.pc # "none" => queued

BatchesCount ==
    /\ IF judge.busy
       THEN currentBatch.last <= (attempts - 1) * Max(CaseCounts) + judge.batches
       ELSE currentBatch.last <= attempts * Max(CaseCounts)
    /\ currentBatch.active => currentBatch.last > 0 /\ attempts > 0
    /\ judge.batch # NoBatch => currentBatch.active
    /\ judge.busy /\ attempts = 1 /\ currentBatch.active => judge.batch # NoBatch
    /\ \A n \in Batched :
          /\ reported[n] \in Rows
          /\ numbering => reported[n].batchNumber = judgeBatch[n]
          /\ ~numbering /\ judge.busy =>
                reported[n].batchNumber + judge.batches = judgeBatch[n] + currentBatch.last

OutsidersCount ==
    /\ judge.busy /\ currentBatch.active /\ judge.batch = NoBatch => judge.batches = 0
    /\ ~numbering /\ judge.busy =>
          /\ judge.batches <= currentBatch.last
          /\ \A n \in CaseNumbers \ Batched :
                reported[n] # NoRow =>
                    \/ reported[n].batchNumber = NoBatch
                    \/ reported[n].batchNumber + judge.batches = currentBatch.last

Settles(n) ==
    \/ /\ testCases[n] = reported[n]
       /\ \A i \in DOMAIN upserts : upserts[i].case # n
    \/ \E i \in DOMAIN upserts :
          /\ upserts[i] = [case |-> n, row |-> reported[n]]
          /\ \A j \in DOMAIN upserts : j > i => upserts[j].case # n

RowsSettle ==
    inOrder =>
        /\ handler.pc = "completing" => upserts = <<>> /\ handler.result = Result(testCases)
        /\ Completed => upserts = <<>>
        /\ dbFailures = 0 /\ (judge.busy \/ handler.pc # "none") =>
              \A n \in CaseNumbers : reported[n] # NoRow => Settles(n)

GradingInv ==
    /\ TypeOK /\ JudgeCounts /\ BatchesCount /\ OutsidersCount /\ BatchesAreKept
    /\ RowsSettle /\ RowsExplainFinal

===============================================================================
