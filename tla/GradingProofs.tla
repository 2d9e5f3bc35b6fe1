---------------------------- MODULE GradingProofs -----------------------------
(***************************************************************************)
(* Theorems about Grading, for any numbers of cases, attempts, restarts    *)
(* and failing statements, and whatever Result makes of the rows.          *)
(***************************************************************************)
EXTENDS Grading, TLAPS

-------------------------------------------------------------------------------
(* Numbers of cases and batches. *)

M == Max(CaseCounts)

LEMMA MostCases ==
    /\ M \in CaseCounts /\ M \in Nat \ {0}
    /\ \A n \in CaseCounts : n \in Nat /\ n <= M
    /\ CaseNumbers = 1..M
  <1>1. PICK m \in CaseCounts : \A n \in CaseCounts : n <= m
    BY GradingAssumption
  <1>2. \A n \in CaseCounts : n \in Nat \ {0}
    BY GradingAssumption
  <1>3. \E x \in CaseCounts : \A y \in CaseCounts : x >= y
    BY <1>1, <1>2
  <1>4. M \in CaseCounts /\ \A y \in CaseCounts : M >= y
    BY <1>3 DEF M, Max
  <1> QED
    BY <1>2, <1>4 DEF M, CaseNumbers

LEMMA Products ==
    ASSUME NEW a \in Nat, NEW b \in Nat, a < b
    PROVE  /\ a * M \in Nat /\ b * M \in Nat /\ (b - 1) * M \in Nat
           /\ (a + 1) * M = a * M + M
           /\ (b - 1) * M + M = b * M
           /\ (a + 1) * M <= b * M
  <1>1. M \in Nat
    BY MostCases
  <1>2. a * M \in Nat /\ b * M \in Nat /\ (b - 1) * M \in Nat
    BY <1>1
  <1>3. (a + 1) * M = a * M + M
    BY <1>1
  <1>4. (b - 1) * M + M = b * M
    BY <1>1
  <1>5. PICK c \in Nat : b = a + 1 + c
    <2>1. b - a - 1 \in Nat /\ b = a + 1 + (b - a - 1)
      OBVIOUS
    <2> QED
      BY <2>1
  <1>6. c * M \in Nat /\ b * M = (a + 1) * M + c * M
    BY <1>1, <1>5
  <1>7. (a + 1) * M <= b * M
    BY <1>1, <1>6
  <1> QED
    BY <1>2, <1>3, <1>4, <1>7

LEMMA RemoveAtOf ==
    ASSUME NEW S, NEW s \in Seq(S), NEW i \in 1..Len(s)
    PROVE  /\ RemoveAt(s, i) \in Seq(S) /\ Len(RemoveAt(s, i)) = Len(s) - 1
           /\ \A j \in 1..(Len(s) - 1) :
                 RemoveAt(s, i)[j] = IF j < i THEN s[j] ELSE s[j + 1]
  <1> DEFINE before == SubSeq(s, 1, i - 1)
             after == SubSeq(s, i + 1, Len(s))
  <1>1. /\ before \in Seq(S) /\ Len(before) = i - 1
        /\ \A j \in 1..(i - 1) : before[j] = s[j]
    <2>1. i - 1 \in Nat /\ i - 1 <= Len(s) /\ Len(s) \in Nat
      OBVIOUS
    <2> QED
      BY <2>1
  <1>2. /\ after \in Seq(S) /\ Len(after) = Len(s) - i
        /\ \A j \in 1..(Len(s) - i) : after[j] = s[i + j]
    <2>1. i \in Nat /\ Len(s) \in Nat /\ i <= Len(s)
      OBVIOUS
    <2> QED
      BY <2>1
  <1>3. RemoveAt(s, i) = before \o after
    BY DEF RemoveAt
  <1> HIDE DEF before, after
  <1>4. before \o after \in Seq(S) /\ Len(before \o after) = Len(s) - 1
    BY <1>1, <1>2
  <1>5. ASSUME NEW j \in 1..(Len(s) - 1)
        PROVE  (before \o after)[j] = IF j < i THEN s[j] ELSE s[j + 1]
    <2>1. CASE j < i
      BY <1>1, <1>2, <2>1
    <2>2. CASE ~(j < i)
      <3>1. (before \o after)[j] = after[j - (i - 1)]
        BY <1>1, <1>2, <2>2
      <3>2. j - (i - 1) \in 1..(Len(s) - i) /\ i + (j - (i - 1)) = j + 1
        BY <2>2
      <3>3. after[j - (i - 1)] = s[i + (j - (i - 1))]
        BY <1>2, <3>2
      <3> QED
        BY <2>2, <3>1, <3>2, <3>3
    <2> QED
      BY <2>1, <2>2
  <1> QED
    BY <1>3, <1>4, <1>5

-------------------------------------------------------------------------------
(* The types. *)

LEMMA Batches ==
    /\ MaxAttempts * M \in Nat /\ 0 \in BatchNumbers /\ IdleJudge \in JudgeStates
    /\ NoBatchYet \in [last : BatchNumbers, active : BOOLEAN]
    /\ BatchNumbers = 0..(MaxAttempts * M)
  <1>1. MaxAttempts \in Nat /\ M \in Nat
    BY MostCases, GradingAssumption
  <1>2. MaxAttempts * M \in Nat
    BY <1>1
  <1>3. BatchNumbers = 0..(MaxAttempts * M)
    BY DEF BatchNumbers, M
  <1> QED
    BY <1>2, <1>3 DEF IdleJudge, NoBatchYet, NoBatch, JudgeStates

\* A batch that begins has a number within bounds, and so has the server's.
LEMMA BatchFits ==
    ASSUME TypeOK, JudgeCounts, BatchesCount, HandleBatchBegin
    PROVE  /\ judge.batches + 1 \in BatchNumbers /\ currentBatch.last + 1 \in BatchNumbers
           /\ judge.batches + 1 <= judge.next
           /\ currentBatch'.last <= (attempts - 1) * M + judge.batches + 1
           /\ currentBatch'.last > 0
  <1>1. /\ judge.batches \in Nat /\ currentBatch.last \in Nat /\ judge.next \in Nat
        /\ attempts \in Nat /\ attempts > 0 /\ attempts <= MaxAttempts /\ MaxAttempts \in Nat
        /\ judge.total \in CaseCounts
        /\ currentBatch.last <= (attempts - 1) * M + judge.batches
    BY Batches, GradingAssumption DEF TypeOK, JudgeStates, JudgeCounts, BatchesCount, HandleBatchBegin, M
  <1>2. judge.batches + 1 <= judge.next /\ judge.next <= judge.total /\ judge.total <= M
        /\ M \in Nat /\ judge.total \in Nat
    BY <1>1, MostCases DEF JudgeCounts, HandleBatchBegin
  <1>3. /\ (attempts - 1) * M \in Nat /\ (attempts - 1) * M + M = attempts * M
        /\ attempts * M \in Nat
    BY <1>1, Products
  <1>4. attempts * M <= MaxAttempts * M /\ MaxAttempts * M \in Nat
    BY <1>1, <1>3, Products, Batches
  <1>5. judge.batches + 1 <= MaxAttempts * M /\ currentBatch.last + 1 <= MaxAttempts * M
    BY <1>1, <1>2, <1>3, <1>4
  <1>6. currentBatch'.last \in {judge.batches + 1, currentBatch.last + 1}
    BY DEF HandleBatchBegin
  <1>7. judge.batches + 1 \in BatchNumbers /\ currentBatch.last + 1 \in BatchNumbers
    BY <1>1, <1>4, <1>5, Batches
  <1>8. currentBatch'.last <= (attempts - 1) * M + judge.batches + 1 /\ currentBatch'.last > 0
    <2> DEFINE before == (attempts - 1) * M
    <2>1. before \in Nat /\ currentBatch.last <= before + judge.batches
      BY <1>1, <1>3
    <2> HIDE DEF before
    <2>2. currentBatch'.last <= before + judge.batches + 1 /\ currentBatch'.last > 0
      BY <1>1, <1>6, <2>1
    <2> QED
      BY <2>2 DEF before
  <1> QED
    BY <1>2, <1>7, <1>8

\* Statements under way.
LEMMA UpsertsOf ==
    ASSUME TypeOK, NEW i \in DOMAIN upserts
    PROVE  /\ i \in 1..Len(upserts) /\ upserts[i] \in Upserts
           /\ RemoveAt(upserts, i) \in Seq(Upserts)
           /\ DOMAIN RemoveAt(upserts, i) = 1..(Len(upserts) - 1)
           /\ \A j \in 1..(Len(upserts) - 1) :
                 RemoveAt(upserts, i)[j] = IF j < i THEN upserts[j] ELSE upserts[j + 1]
  <1>1. upserts \in Seq(Upserts)
    BY DEF TypeOK
  <1>2. i \in 1..Len(upserts) /\ upserts[i] \in Upserts
    BY <1>1
  <1>3. /\ RemoveAt(upserts, i) \in Seq(Upserts)
        /\ Len(RemoveAt(upserts, i)) = Len(upserts) - 1
        /\ \A j \in 1..(Len(upserts) - 1) :
              RemoveAt(upserts, i)[j] = IF j < i THEN upserts[j] ELSE upserts[j + 1]
    BY <1>1, <1>2, RemoveAtOf
  <1>4. DOMAIN RemoveAt(upserts, i) = 1..(Len(upserts) - 1)
    BY <1>3
  <1> QED
    BY <1>2, <1>3, <1>4

LEMMA NextCaseIsTyped ==
    \A j \in JudgeStates : j.next \in Nat /\ [j EXCEPT !.next = j.next + 1] \in JudgeStates
  BY DEF JudgeStates

LEMMA RowIsTyped ==
    ASSUME TypeOK, NEW report \in Reports
    PROVE  [report |-> report, batchNumber |-> NormalizedBatchNumber] \in Rows
  BY Batches DEF TypeOK, JudgeStates, Rows, NormalizedBatchNumber, NoBatch

LEMMA TypeOKNext ==
    ASSUME TypeOK, JudgeCounts, BatchesCount, [Next]_vars
    PROVE  TypeOK'
  <1> USE DEF judgeVars, memory, database, faults
  <1> USE DEF TypeOK
  <1>0. /\ MaxAttempts \in Nat /\ MaxDbFailures \in Nat /\ MaxRestarts \in Nat
        /\ 0 \in BatchNumbers /\ IdleJudge \in JudgeStates
        /\ NoBatchYet \in [last : BatchNumbers, active : BOOLEAN]
    BY GradingAssumption, Batches
  <1>1. CASE Submit
    <2>1. attempts' \in 0..MaxAttempts
      BY <1>0, <1>1 DEF Submit
    <2>2. judge' \in JudgeStates
      BY <1>0, <1>1 DEF Submit, IdleJudge, JudgeStates
    <2>3. /\ reported' = [n \in CaseNumbers |-> NoRow] /\ judgeBatch' = [n \in CaseNumbers |-> NoBatch]
          /\ UNCHANGED <<numbering, memory, inOrder, testCases, queued, faults>>
      BY <1>1 DEF Submit
    <2>4. reported' \in [CaseNumbers -> Rows \cup {NoRow}] /\ judgeBatch' \in [CaseNumbers -> BatchNumbers]
      BY <1>0, <2>3 DEF NoBatch
    <2> QED
      BY <2>1, <2>2, <2>3, <2>4
  <1>2. CASE HandleInternalError
    BY <1>0, <1>2 DEF HandleInternalError
  <1>3. CASE HandleBatchBegin
    BY <1>3, BatchFits DEF HandleBatchBegin, JudgeStates
  <1>4. CASE HandleBatchEnd
    BY <1>0, <1>4 DEF HandleBatchEnd, NoBatch, JudgeStates
  <1>5. CASE HandleGradingEnd
    BY <1>0, <1>5 DEF HandleGradingEnd
  <1>6. ASSUME NEW report \in Reports, HandleTestCaseStatus(report) PROVE TypeOK'
    <2> DEFINE row == [report |-> report, batchNumber |-> NormalizedBatchNumber]
    <2>1. row \in Rows
      BY RowIsTyped
    <2>2. judge.next \in CaseNumbers
      <3>1. judge.next \in Nat /\ judge.next >= 1 /\ judge.next <= judge.total /\ judge.total \in CaseCounts
        BY <1>6 DEF HandleTestCaseStatus, JudgeCounts, JudgeStates
      <3>2. judge.total \in Nat /\ judge.total <= M
        BY <3>1, MostCases
      <3> QED
        BY <3>1, <3>2, MostCases
    <2>3. [case |-> judge.next, row |-> row] \in Upserts
      BY <2>1, <2>2 DEF Upserts
    <2>4. /\ reported' = [reported EXCEPT ![judge.next] = row]
          /\ upserts' = Append(upserts, [case |-> judge.next, row |-> row])
          /\ judgeBatch' = [judgeBatch EXCEPT ![judge.next] = judge.batch]
          /\ judge' = [judge EXCEPT !.next = judge.next + 1]
          /\ UNCHANGED <<numbering, currentBatch, handler, database, faults>>
      BY <1>6 DEF HandleTestCaseStatus
    <2> HIDE DEF row
    <2>a. judge.batch \in BatchNumbers
      BY DEF JudgeStates
    <2>b. judge' \in JudgeStates
      BY <2>4, NextCaseIsTyped
    <2>c. reported' \in [CaseNumbers -> Rows \cup {NoRow}]
      BY <2>1, <2>2, <2>4
    <2>5. judgeBatch' \in [CaseNumbers -> BatchNumbers]
      BY <2>2, <2>4, <2>a
    <2>6. upserts' \in Seq(Upserts)
      BY <2>3, <2>4
    <2> QED
      BY <2>4, <2>5, <2>6, <2>b, <2>c
  <1>7. CASE FindSubmission
    BY <1>7 DEF FindSubmission
  <1>8. CASE FindTestCases
    BY <1>8 DEF FindTestCases
  <1>9. CASE CompleteSubmission
    BY <1>9 DEF CompleteSubmission
  <1>10. CASE RemoveFromQueue
    BY <1>10 DEF RemoveFromQueue, NoHandler
  <1>11. ASSUME NEW i \in DOMAIN upserts, UpsertLands(i) PROVE TypeOK'
    <2>1. /\ upserts[i] \in Upserts
          /\ RemoveAt(upserts, i) \in Seq(Upserts)
      BY UpsertsOf
    <2>2. upserts[i].case \in CaseNumbers /\ upserts[i].row \in Rows
      BY <2>1 DEF Upserts
    <2> QED
      BY <1>11, <2>1, <2>2 DEF UpsertLands
  <1>12. ASSUME NEW i \in DOMAIN upserts, UpsertFails(i) PROVE TypeOK'
    <2>1. RemoveAt(upserts, i) \in Seq(Upserts)
      BY UpsertsOf
    <2>2. dbFailures' \in 0..MaxDbFailures
      BY <1>0, <1>12 DEF UpsertFails
    <2> QED
      BY <1>12, <2>1, <2>2 DEF UpsertFails
  <1>13. CASE Restart
    <2>1. restarts' \in 0..MaxRestarts
      BY <1>0, <1>13 DEF Restart
    <2>2. /\ judge' \in JudgeStates /\ currentBatch' \in [last : BatchNumbers, active : BOOLEAN]
          /\ handler'.pc = "none" /\ upserts' = <<>>
      BY <1>0, <1>13 DEF Restart, NoHandler
    <2>3. UNCHANGED <<numbering, reported, judgeBatch, database, dbFailures>>
      BY <1>0, <1>13 DEF Restart
    <2> QED
      BY <2>1, <2>2, <2>3
  <1>14. CASE UNCHANGED vars
    BY <1>14 DEF vars
  <1> QED
    BY <1>1, <1>2, <1>3, <1>4, <1>5, <1>6, <1>7, <1>8, <1>9, <1>10, <1>11, <1>12, <1>13, <1>14 DEF Next

-------------------------------------------------------------------------------
(* What the judge and the server count. *)

LEMMA JudgeCountsNext ==
    ASSUME TypeOK, JudgeCounts, BatchesCount, [Next]_vars
    PROVE  JudgeCounts'
  <1> USE GradingAssumption, MostCases
  <1> USE DEF TypeOK, JudgeStates, JudgeCounts, judgeVars, memory, database, faults, IdleJudge, NoBatch
  <1>0. judge.next \in Nat /\ judge.batches \in Nat /\ \A n \in CaseNumbers : judgeBatch[n] \in Nat
    BY Batches
  <1>1. CASE Submit
    BY <1>1 DEF Submit, NoHandler
  <1>2. CASE HandleInternalError
    BY <1>2 DEF HandleInternalError
  <1>3. CASE HandleBatchBegin
    BY <1>0, <1>3, BatchFits DEF HandleBatchBegin
  <1>4. CASE HandleBatchEnd
    <2>1. judge.next - 1 \in CaseNumbers
      BY <1>0, <1>4 DEF HandleBatchEnd
    <2> QED
      BY <1>0, <1>4, <2>1 DEF HandleBatchEnd
  <1>5. CASE HandleGradingEnd
    BY <1>5 DEF HandleGradingEnd
  <1>6. ASSUME NEW report \in Reports, HandleTestCaseStatus(report) PROVE JudgeCounts'
    <2>1. /\ judge.busy /\ judge.next <= judge.total
          /\ judgeBatch' = [judgeBatch EXCEPT ![judge.next] = judge.batch]
          /\ judge' = [judge EXCEPT !.next = judge.next + 1]
          /\ UNCHANGED <<numbering, currentBatch, handler, database, faults>>
      BY <1>6 DEF HandleTestCaseStatus
    <2>2. judge.batch <= judge.next /\ judge.total \in Nat
      BY <1>0, <2>1
    <2> QED
      BY <1>0, <2>1, <2>2
  <1>7. CASE FindSubmission \/ FindTestCases \/ CompleteSubmission \/ RemoveFromQueue
    BY <1>7 DEF FindSubmission, FindTestCases, CompleteSubmission, RemoveFromQueue, NoHandler
  <1>8. ASSUME NEW i \in DOMAIN upserts, UpsertLands(i) \/ UpsertFails(i) PROVE JudgeCounts'
    BY <1>8 DEF UpsertLands, UpsertFails
  <1>9. CASE Restart
    BY <1>9 DEF Restart, NoHandler
  <1>10. CASE UNCHANGED vars
    BY <1>10 DEF vars
  <1> QED
    BY <1>1, <1>2, <1>3, <1>4, <1>5, <1>6, <1>7, <1>8, <1>9, <1>10 DEF Next

LEMMA BatchesCountNext ==
    ASSUME TypeOK, JudgeCounts, BatchesCount, [Next]_vars
    PROVE  BatchesCount'
  <1> USE DEF BatchesCount, judgeVars, memory, database, faults, NoBatch
  <1>1. /\ judge \in JudgeStates /\ judge.next \in Nat /\ judge.batches \in Nat
        /\ judge.batch \in {0, judge.batches}
        /\ \A n \in CaseNumbers : judgeBatch[n] \in Nat
        /\ currentBatch.last \in Nat /\ attempts \in Nat /\ attempts <= MaxAttempts
        /\ MaxAttempts \in Nat /\ M \in Nat
        /\ reported \in [CaseNumbers -> Rows \cup {NoRow}]
        /\ judgeBatch \in [CaseNumbers -> BatchNumbers]
        /\ currentBatch \in [last : BatchNumbers, active : BOOLEAN]
    <2>1. /\ judge \in JudgeStates /\ reported \in [CaseNumbers -> Rows \cup {NoRow}]
          /\ judgeBatch \in [CaseNumbers -> BatchNumbers]
          /\ currentBatch \in [last : BatchNumbers, active : BOOLEAN]
          /\ attempts \in Nat /\ attempts <= MaxAttempts
      BY GradingAssumption DEF TypeOK
    <2>2. BatchNumbers \subseteq Nat /\ M \in Nat /\ MaxAttempts \in Nat
      BY Batches, MostCases, GradingAssumption
    <2>3. judge.next \in Nat /\ judge.batches \in Nat
      BY <2>1, <2>2 DEF JudgeStates
    <2>4. judge.batch \in {0, judge.batches}
      BY DEF JudgeCounts
    <2>5. currentBatch.last \in Nat /\ \A n \in CaseNumbers : judgeBatch[n] \in Nat
      BY <2>1, <2>2
    <2> QED
      BY <2>1, <2>2, <2>3, <2>4, <2>5
  <1>2. judge.busy => attempts > 0 /\ judge.batches <= M
    <2>1. CASE ~judge.busy
      BY <2>1
    <2>2. CASE judge.busy
      <3>1. /\ attempts > 0 /\ judge.total \in CaseCounts /\ judge.next <= judge.total + 1
            /\ judge.batches < judge.next \/ (judge.batches = judge.next /\ judge.next <= judge.total)
        BY <2>2 DEF JudgeCounts
      <3>2. judge.total \in Nat /\ judge.total <= M
        BY <3>1, MostCases
      <3> QED
        BY <1>1, <3>1, <3>2
    <2> QED
      BY <2>1, <2>2
  <1>3. /\ attempts * M \in Nat /\ (attempts + 1) * M = attempts * M + M
        /\ attempts > 0 => (attempts - 1) * M \in Nat /\ (attempts - 1) * M + M = attempts * M
    <2>1. attempts < attempts + 1 /\ attempts + 1 \in Nat
      BY <1>1
    <2>2. attempts * M \in Nat /\ (attempts + 1) * M = attempts * M + M
      BY <1>1, <2>1, Products
    <2>3. ASSUME attempts > 0 PROVE (attempts - 1) * M \in Nat /\ (attempts - 1) * M + M = attempts * M
      BY <1>1, <2>3, Products
    <2> QED
      BY <2>2, <2>3
  <1>4. currentBatch.last <= attempts * M
    BY <1>1, <1>2, <1>3 DEF M
  <1> HIDE DEF M
  <1>5. CASE Submit
    BY <1>1, <1>3, <1>4, <1>5 DEF Submit, IdleJudge, Batched, NoRow, JudgeCounts, M
  <1>6. CASE HandleInternalError
    BY <1>1, <1>4, <1>6 DEF HandleInternalError, IdleJudge, Batched, M
  <1>7. CASE HandleBatchBegin
    <2>1. /\ currentBatch'.last <= (attempts - 1) * M + judge'.batches /\ currentBatch'.last > 0
          /\ judge'.batches = judge.batches + 1 /\ judge.busy /\ judge'.busy
      BY <1>1, <1>7, BatchFits DEF HandleBatchBegin, JudgeStates
    <2>2. currentBatch'.active /\ judge'.batch # 0
      BY <1>1, <1>7 DEF HandleBatchBegin, JudgeStates
    <2>3. ASSUME NEW n \in Batched'
          PROVE  /\ reported'[n] \in Rows
                 /\ numbering' => reported'[n].batchNumber = judgeBatch'[n]
                 /\ ~numbering' => reported'[n].batchNumber + judge'.batches
                                      = judgeBatch'[n] + currentBatch'.last
      <3>1. /\ n \in Batched /\ UNCHANGED <<numbering, reported, judgeBatch>>
            /\ judge.batch = 0
        BY <1>7, <2>3 DEF HandleBatchBegin, Batched
      <3>2. reported[n].batchNumber \in Nat /\ judgeBatch[n] \in Nat
        BY <1>1, <3>1, Batches DEF Rows, Batched
      <3>3. ~numbering => currentBatch'.last = currentBatch.last + 1
        BY <1>7 DEF HandleBatchBegin
      <3> QED
        BY <1>1, <2>1, <3>1, <3>2, <3>3
    <2> QED
      BY <1>2, <1>7, <2>1, <2>2, <2>3 DEF HandleBatchBegin, M
  <1>8. CASE HandleBatchEnd
    BY <1>1, <1>8 DEF HandleBatchEnd, Batched, JudgeStates
  <1>9. CASE HandleGradingEnd
    BY <1>1, <1>4, <1>9 DEF HandleGradingEnd, IdleJudge, Batched, M
  <1>10. ASSUME NEW report \in Reports, HandleTestCaseStatus(report) PROVE BatchesCount'
    <2> DEFINE row == [report |-> report, batchNumber |-> NormalizedBatchNumber]
    <2>1. /\ judge.busy /\ judge'.busy /\ judge'.batch = judge.batch /\ judge'.batches = judge.batches
          /\ reported' = [reported EXCEPT ![judge.next] = row]
          /\ judgeBatch' = [judgeBatch EXCEPT ![judge.next] = judge.batch]
          /\ UNCHANGED <<numbering, currentBatch, attempts>>
      BY <1>1, <1>10 DEF HandleTestCaseStatus, JudgeStates
    <2>2. row \in Rows /\ row.batchNumber = NormalizedBatchNumber
      BY RowIsTyped
    <2> HIDE DEF row
    <2>3. ASSUME NEW n \in Batched'
          PROVE  /\ reported'[n] \in Rows
                 /\ numbering => reported'[n].batchNumber = judgeBatch'[n]
                 /\ ~numbering => reported'[n].batchNumber + judge.batches
                                      = judgeBatch'[n] + currentBatch.last
      <3>1. CASE n = judge.next
        <4>1. reported'[n] = row /\ judgeBatch'[n] = judge.batch /\ judge.batch # 0
          BY <1>1, <2>1, <2>3, <3>1 DEF Batched
        <4>2. row.batchNumber = IF numbering THEN judge.batch ELSE currentBatch.last
          BY <2>2, <4>1 DEF NormalizedBatchNumber
        <4> QED
          BY <1>1, <2>2, <4>1, <4>2
      <3>2. CASE n # judge.next
        <4>1. n \in Batched /\ reported'[n] = reported[n] /\ judgeBatch'[n] = judgeBatch[n]
          BY <1>1, <2>1, <2>3, <3>2 DEF Batched
        <4> QED
          BY <2>1, <4>1
      <3> QED
        BY <3>1, <3>2
    <2> QED
      BY <2>1, <2>3
  <1>11. CASE FindSubmission \/ FindTestCases \/ CompleteSubmission \/ RemoveFromQueue
    BY <1>11 DEF FindSubmission, FindTestCases, CompleteSubmission, RemoveFromQueue, Batched
  <1>12. ASSUME NEW i \in DOMAIN upserts, UpsertLands(i) \/ UpsertFails(i) PROVE BatchesCount'
    BY <1>12 DEF UpsertLands, UpsertFails, Batched
  <1>13. CASE Restart
    BY <1>1, <1>3, <1>13 DEF Restart, IdleJudge, NoBatchYet, Batched, M
  <1>14. CASE UNCHANGED vars
    BY <1>14 DEF vars, Batched
  <1> QED
    BY <1>5, <1>6, <1>7, <1>8, <1>9, <1>10, <1>11, <1>12, <1>13, <1>14 DEF Next

LEMMA OutsidersCountNext ==
    ASSUME TypeOK, JudgeCounts, BatchesCount, OutsidersCount, [Next]_vars
    PROVE  OutsidersCount'
  <1> USE DEF OutsidersCount, judgeVars, memory, database, faults, NoBatch
  <1>1. /\ judge \in JudgeStates /\ judge.batches \in Nat /\ currentBatch.last \in Nat
        /\ judge.batch \in {0, judge.batches}
        /\ numbering \in BOOLEAN
        /\ currentBatch \in [last : BatchNumbers, active : BOOLEAN]
        /\ reported \in [CaseNumbers -> Rows \cup {NoRow}]
        /\ judgeBatch \in [CaseNumbers -> BatchNumbers]
        /\ \A n \in CaseNumbers : reported[n] # NoRow => reported[n].batchNumber \in Nat
    BY Batches DEF TypeOK, JudgeStates, JudgeCounts, Rows
  <1>2. CASE Submit
    BY <1>1, <1>2 DEF Submit, IdleJudge, NoRow
  <1>3. CASE HandleBatchBegin
    <2>1. /\ judge.busy /\ judge.batch = 0 /\ judge'.batches = judge.batches + 1
          /\ judge'.batch # 0 /\ UNCHANGED <<numbering, reported, judgeBatch>>
          /\ ~numbering => currentBatch'.last = currentBatch.last + 1
      BY <1>1, <1>3 DEF HandleBatchBegin, JudgeStates
    <2> QED
      BY <1>1, <2>1 DEF Batched
  <1>4. CASE HandleBatchEnd
    <2>1. /\ judge.busy /\ judge'.batches = judge.batches
          /\ currentBatch'.last = currentBatch.last /\ ~currentBatch'.active
          /\ UNCHANGED <<numbering, reported, judgeBatch>>
      BY <1>1, <1>4 DEF HandleBatchEnd, JudgeStates
    <2> QED
      BY <1>1, <2>1 DEF Batched
  <1>5. ASSUME NEW report \in Reports, HandleTestCaseStatus(report) PROVE OutsidersCount'
    <2> DEFINE row == [report |-> report, batchNumber |-> NormalizedBatchNumber]
    <2>1. /\ judge.busy /\ judge'.busy /\ judge'.batch = judge.batch /\ judge'.batches = judge.batches
          /\ reported' = [reported EXCEPT ![judge.next] = row]
          /\ judgeBatch' = [judgeBatch EXCEPT ![judge.next] = judge.batch]
          /\ UNCHANGED <<numbering, currentBatch>>
      BY <1>1, <1>5 DEF HandleTestCaseStatus, JudgeStates
    <2>2. row.batchNumber = NormalizedBatchNumber
      OBVIOUS
    <2> HIDE DEF row
    <2>3. ASSUME ~numbering, NEW n \in CaseNumbers \ Batched', reported'[n] # NoRow
          PROVE  \/ reported'[n].batchNumber = 0
                 \/ reported'[n].batchNumber + judge.batches = currentBatch.last
      <3>1. CASE n = judge.next
        <4>1. reported'[n] = row /\ judge.batch = 0
          BY <1>1, <2>1, <2>3, <3>1 DEF Batched
        <4>2. row.batchNumber = IF currentBatch.active THEN currentBatch.last ELSE 0
          BY <2>2, <2>3, <4>1 DEF NormalizedBatchNumber
        <4> QED
          BY <1>1, <2>1, <4>1, <4>2
      <3>2. CASE n # judge.next
        <4>1. n \in CaseNumbers \ Batched /\ reported'[n] = reported[n]
          BY <1>1, <2>1, <2>3, <3>2 DEF Batched
        <4> QED
          BY <2>1, <2>3, <4>1
      <3> QED
        BY <3>1, <3>2
    <2> QED
      BY <2>1, <2>3
  <1>6. CASE HandleInternalError \/ HandleGradingEnd \/ Restart
    BY <1>6 DEF HandleInternalError, HandleGradingEnd, Restart, IdleJudge
  <1>7. CASE UNCHANGED <<numbering, judge, reported, judgeBatch, currentBatch>>
    BY <1>7 DEF Batched
  <1>8. ASSUME NEW i \in DOMAIN upserts, UpsertLands(i) \/ UpsertFails(i)
        PROVE  UNCHANGED <<numbering, judge, reported, judgeBatch, currentBatch>>
    BY <1>8 DEF UpsertLands, UpsertFails
  <1>9. \/ UNCHANGED <<numbering, judge, reported, judgeBatch, currentBatch>>
        \/ Submit \/ HandleBatchBegin \/ HandleBatchEnd
        \/ HandleInternalError \/ HandleGradingEnd \/ Restart
        \/ \E report \in Reports : HandleTestCaseStatus(report)
    BY <1>8 DEF Next, FindSubmission, FindTestCases, CompleteSubmission, RemoveFromQueue, vars
  <1> QED
    BY <1>2, <1>3, <1>4, <1>5, <1>6, <1>7, <1>9

-------------------------------------------------------------------------------
(* Batches. *)

LEMMA BatchesAreDistinctNext ==
    ASSUME TypeOK, TypeOK', BatchesAreDistinct, BatchesCount', [Next]_vars
    PROVE  BatchesAreDistinct'
  <1>1. ASSUME NEW n \in Batched'
        PROVE  /\ reported'[n].batchNumber \in Nat /\ judgeBatch'[n] \in Nat
               /\ judge'.batches \in Nat /\ currentBatch'.last \in Nat
               /\ numbering' => reported'[n].batchNumber = judgeBatch'[n]
               /\ ~numbering' /\ judge'.busy =>
                     reported'[n].batchNumber + judge'.batches = judgeBatch'[n] + currentBatch'.last
    BY <1>1, Batches DEF BatchesCount, Batched, TypeOK, JudgeStates, Rows
  <1>2. CASE numbering' \/ judge'.busy
    <2>1. ASSUME NEW m \in Batched', NEW n \in Batched'
          PROVE  (reported'[m].batchNumber = reported'[n].batchNumber) = (judgeBatch'[m] = judgeBatch'[n])
      <3>1. CASE numbering'
        BY <1>1, <3>1
      <3>2. CASE ~numbering' /\ judge'.busy
        BY <1>1, <3>2
      <3> QED
        BY <1>2, <3>1, <3>2 DEF TypeOK
    <2> QED
      BY <2>1 DEF BatchesAreDistinct
  <1>3. CASE ~judge'.busy
    <2>1. UNCHANGED <<reported, judgeBatch>>
      BY <1>3 DEF Next, Submit, HandleInternalError, HandleBatchBegin, HandleBatchEnd,
         HandleGradingEnd, HandleTestCaseStatus, FindSubmission, FindTestCases, CompleteSubmission,
         RemoveFromQueue, UpsertLands, UpsertFails, Restart, vars, judgeVars, TypeOK, JudgeStates,
         IdleJudge
    <2> QED
      BY <2>1 DEF BatchesAreDistinct, Batched
  <1> QED
    BY <1>2, <1>3

LEMMA OutsidersStayOutNext ==
    ASSUME TypeOK, TypeOK', JudgeCounts', BatchesCount', OutsidersCount', OutsidersStayOut, [Next]_vars
    PROVE  OutsidersStayOut'
  <1>1. CASE judge'.busy
    <2> SUFFICES ASSUME ~numbering', NEW m \in (CaseNumbers \ Batched)', NEW n \in Batched',
                        reported'[m] # NoRow
                 PROVE  reported'[m].batchNumber # reported'[n].batchNumber
      BY DEF OutsidersStayOut
    <2>1. /\ reported'[m].batchNumber \in Nat /\ reported'[n].batchNumber \in Nat
          /\ judgeBatch'[n] \in Nat /\ judgeBatch'[n] # 0
          /\ judge'.batches \in Nat /\ currentBatch'.last \in Nat
      <3>1. /\ m \in CaseNumbers /\ n \in CaseNumbers /\ judgeBatch'[n] # 0
            /\ reported'[n] \in Rows
        BY DEF Batched, BatchesCount, NoBatch
      <3>2. /\ reported' \in [CaseNumbers -> Rows \cup {NoRow}]
            /\ judgeBatch' \in [CaseNumbers -> BatchNumbers]
            /\ judge' \in JudgeStates /\ currentBatch' \in [last : BatchNumbers, active : BOOLEAN]
        BY DEF TypeOK
      <3>3. BatchNumbers \subseteq Nat
        BY Batches
      <3>4. reported'[m] \in Rows
        BY <3>1, <3>2
      <3> QED
        BY <3>1, <3>2, <3>3, <3>4 DEF JudgeStates, Rows
    <2>2. /\ \/ reported'[m].batchNumber = 0
             \/ reported'[m].batchNumber + judge'.batches = currentBatch'.last
          /\ reported'[n].batchNumber + judge'.batches = judgeBatch'[n] + currentBatch'.last
      BY <1>1 DEF OutsidersCount, BatchesCount, NoBatch
    <2>3. judge'.batches <= currentBatch'.last
      BY <1>1 DEF OutsidersCount
    <2> QED
      BY <2>1, <2>2, <2>3
  <1>2. CASE ~judge'.busy
    <2>1. UNCHANGED <<numbering, reported, judgeBatch>>
      BY <1>2 DEF Next, Submit, HandleInternalError, HandleBatchBegin, HandleBatchEnd,
         HandleGradingEnd, HandleTestCaseStatus, FindSubmission, FindTestCases, CompleteSubmission,
         RemoveFromQueue, UpsertLands, UpsertFails, Restart, vars, judgeVars, TypeOK, JudgeStates,
         IdleJudge
    <2> QED
      BY <2>1 DEF OutsidersStayOut, Batched
  <1> QED
    BY <1>1, <1>2

LEMMA FirstAttemptIsExactNext ==
    ASSUME TypeOK, JudgeCounts, BatchesCount, FirstAttemptIsExact, [Next]_vars
    PROVE  FirstAttemptIsExact'
  <1> USE DEF FirstAttemptIsExact, BatchNumberMeansBatch
  <1>1. CASE Submit
    BY <1>1 DEF Submit
  <1>2. ASSUME NEW report \in Reports, HandleTestCaseStatus(report) PROVE FirstAttemptIsExact'
    <2> DEFINE row == [report |-> report, batchNumber |-> NormalizedBatchNumber]
    <2>1. /\ reported' = [reported EXCEPT ![judge.next] = row]
          /\ judgeBatch' = [judgeBatch EXCEPT ![judge.next] = judge.batch]
          /\ attempts' = attempts /\ judge.busy
      BY <1>2 DEF HandleTestCaseStatus, database
    <2>2. /\ reported \in [CaseNumbers -> Rows \cup {NoRow}]
          /\ judgeBatch \in [CaseNumbers -> BatchNumbers]
      BY DEF TypeOK
    <2>3. attempts = 1 => ((row.batchNumber = NoBatch) = (judge.batch = NoBatch))
      BY <2>1 DEF NormalizedBatchNumber, BatchesCount, NoBatch
    <2> HIDE DEF row
    <2> QED
      BY <2>1, <2>2, <2>3
  <1>3. CASE UNCHANGED <<attempts, reported, judgeBatch>>
    BY <1>3
  <1>4. \/ UNCHANGED <<attempts, reported, judgeBatch>> \/ Submit
        \/ \E report \in Reports : HandleTestCaseStatus(report)
    BY DEF Next, HandleInternalError, HandleBatchBegin, HandleBatchEnd, HandleGradingEnd,
       FindSubmission, FindTestCases, CompleteSubmission, RemoveFromQueue, UpsertLands,
       UpsertFails, Restart, vars, judgeVars, database
  <1> QED
    BY <1>1, <1>2, <1>3, <1>4

-------------------------------------------------------------------------------
(* Rows. *)

\* The first statement lands.
LEMMA LandingSettles ==
    ASSUME TypeOK, NEW n \in CaseNumbers, Settles(n), 1 \in DOMAIN upserts, UpsertLands(1)
    PROVE  Settles(n)'
  <1> DEFINE rest == RemoveAt(upserts, 1)
  <1>1. /\ upserts' = rest /\ UNCHANGED reported
        /\ testCases' = [testCases EXCEPT ![upserts[1].case] = upserts[1].row]
    BY DEF UpsertLands, judgeVars
  <1>2. /\ DOMAIN upserts = 1..Len(upserts) /\ Len(upserts) \in Nat
        /\ DOMAIN rest = 1..(Len(upserts) - 1)
        /\ \A j \in DOMAIN rest : rest[j] = upserts[j + 1] /\ j + 1 \in DOMAIN upserts /\ j + 1 > 1
    <2>1. upserts \in Seq(Upserts)
      BY DEF TypeOK
    <2>2. DOMAIN upserts = 1..Len(upserts) /\ Len(upserts) \in Nat
      BY <2>1
    <2>3. /\ DOMAIN rest = 1..(Len(upserts) - 1)
          /\ \A j \in 1..(Len(upserts) - 1) :
                rest[j] = IF j < 1 THEN upserts[j] ELSE upserts[j + 1]
      BY UpsertsOf
    <2> HIDE DEF rest
    <2> QED
      BY <2>2, <2>3
  <1> HIDE DEF rest
  <1>3. upserts[1].case \in CaseNumbers /\ testCases \in [CaseNumbers -> Rows \cup {NoRow}]
    BY UpsertsOf DEF Upserts, TypeOK
  <1>4. CASE testCases[n] = reported[n] /\ \A i \in DOMAIN upserts : upserts[i].case # n
    <2>1. testCases'[n] = reported'[n]
      BY <1>1, <1>3, <1>4
    <2>2. \A i \in DOMAIN rest : rest[i].case # n
      BY <1>2, <1>4
    <2> QED
      BY <1>1, <2>1, <2>2 DEF Settles
  <1>5. ASSUME NEW i \in DOMAIN upserts, upserts[i] = [case |-> n, row |-> reported[n]],
               \A j \in DOMAIN upserts : j > i => upserts[j].case # n
        PROVE  Settles(n)'
    <2>1. CASE i = 1
      <3>1. testCases'[n] = reported'[n]
        BY <1>1, <1>3, <1>5, <2>1
      <3>2. \A j \in DOMAIN rest : rest[j].case # n
        BY <1>2, <1>5, <2>1
      <3> QED
        BY <1>1, <3>1, <3>2 DEF Settles
    <2>2. CASE i # 1
      <3>1. i - 1 \in DOMAIN rest /\ rest[i - 1] = [case |-> n, row |-> reported[n]]
        BY <1>2, <1>5, <2>2
      <3>2. \A j \in DOMAIN rest : j > i - 1 => rest[j].case # n
        BY <1>2, <1>5
      <3> QED
        BY <1>1, <3>1, <3>2 DEF Settles
    <2> QED
      BY <2>1, <2>2
  <1> QED
    BY <1>4, <1>5 DEF Settles

\* The next case is reported.
LEMMA ReportSettles ==
    ASSUME TypeOK, JudgeCounts, NEW report \in Reports, HandleTestCaseStatus(report),
           NEW n \in CaseNumbers, reported'[n] # NoRow, reported[n] # NoRow => Settles(n)
    PROVE  Settles(n)'
  <1> DEFINE row == [report |-> report, batchNumber |-> NormalizedBatchNumber]
  <1>1. /\ reported' = [reported EXCEPT ![judge.next] = row]
        /\ upserts' = Append(upserts, [case |-> judge.next, row |-> row])
        /\ testCases' = testCases
    BY DEF HandleTestCaseStatus, database
  <1> HIDE DEF row
  <1>2. /\ upserts \in Seq(Upserts) /\ Len(upserts) \in Nat
        /\ reported \in [CaseNumbers -> Rows \cup {NoRow}]
    BY DEF TypeOK
  <1>3. judge.next \in CaseNumbers /\ judge.next \in Nat
    <2>1. judge.next \in Nat /\ judge.next >= 1 /\ judge.next <= judge.total /\ judge.total \in CaseCounts
      BY DEF HandleTestCaseStatus, JudgeCounts, TypeOK, JudgeStates
    <2>2. judge.total \in Nat /\ judge.total <= M
      BY <2>1, MostCases
    <2> QED
      BY <2>1, <2>2, MostCases
  <1>4. /\ DOMAIN upserts = 1..Len(upserts) /\ DOMAIN upserts' = 1..(Len(upserts) + 1)
        /\ upserts'[Len(upserts) + 1] = [case |-> judge.next, row |-> row]
        /\ \A i \in DOMAIN upserts : upserts'[i] = upserts[i]
    BY <1>1, <1>2
  <1>5. CASE n = judge.next
    <2>1. reported'[n] = row
      BY <1>1, <1>2, <1>3, <1>5
    <2> QED
      BY <1>2, <1>4, <1>5, <2>1 DEF Settles
  <1>6. CASE n # judge.next
    <2>2. reported'[n] = reported[n]
      BY <1>1, <1>6
    <2>3. Settles(n)
      BY <2>2
    <2>4. \A i \in DOMAIN upserts' : i \in DOMAIN upserts \/ upserts'[i].case # n
      BY <1>2, <1>4, <1>6
    <2> QED
      BY <1>1, <1>2, <1>4, <2>2, <2>3, <2>4 DEF Settles
  <1> QED
    BY <1>5, <1>6

\* Statements are executed in order before a step if they are after it; and no
\* upsert failed before it or in it if none has failed after it.
LEMMA InOrderBefore ==
    ASSUME TypeOK, [Next]_vars, inOrder'
    PROVE  /\ inOrder
           /\ dbFailures' = 0 => dbFailures = 0 /\ (\A i \in DOMAIN upserts : ~UpsertFails(i))
  <1>1. dbFailures \in Nat
    BY GradingAssumption DEF TypeOK
  <1>2. inOrder' = inOrder
    BY DEF Next, vars, database, Submit, HandleInternalError,
       HandleBatchBegin, HandleBatchEnd, HandleGradingEnd, HandleTestCaseStatus, FindSubmission,
       FindTestCases, CompleteSubmission, RemoveFromQueue, UpsertLands, UpsertFails, Restart
  <1>3. dbFailures' \in {dbFailures, dbFailures + 1}
    BY DEF Next, vars, faults, Submit, HandleInternalError,
       HandleBatchBegin, HandleBatchEnd, HandleGradingEnd, HandleTestCaseStatus, FindSubmission,
       FindTestCases, CompleteSubmission, RemoveFromQueue, UpsertLands, UpsertFails, Restart
  <1>4. \A i \in DOMAIN upserts : UpsertFails(i) => dbFailures' = dbFailures + 1
    BY DEF UpsertFails
  <1> QED
    BY <1>1, <1>2, <1>3, <1>4

\* What the handler of grading-end relies on: nothing is under way behind it.
ReadsAfterUpserts ==
    /\ handler.pc = "completing" => upserts = <<>> /\ handler.result = Result(testCases)
    /\ Completed => upserts = <<>>

LEMMA ReadsAfterUpsertsNext ==
    ASSUME TypeOK, JudgeCounts, inOrder, ReadsAfterUpserts, [Next]_vars
    PROVE  ReadsAfterUpserts'
  <1> USE DEF ReadsAfterUpserts, Completed, judgeVars, memory, database, faults
  <1>1. CASE Submit
    BY <1>1 DEF Submit, NoHandler
  <1>2. CASE HandleInternalError
    BY <1>2 DEF HandleInternalError
  <1>3. CASE HandleBatchBegin \/ HandleBatchEnd
    BY <1>3 DEF HandleBatchBegin, HandleBatchEnd
  <1>4. CASE HandleGradingEnd
    BY <1>4 DEF HandleGradingEnd, JudgeCounts
  <1>5. ASSUME NEW report \in Reports, HandleTestCaseStatus(report) PROVE ReadsAfterUpserts'
    BY <1>5 DEF HandleTestCaseStatus, JudgeCounts
  <1>6. CASE FindSubmission
    BY <1>6 DEF FindSubmission, JudgeCounts
  <1>7. CASE FindTestCases
    BY <1>7 DEF FindTestCases, CanExecute, JudgeCounts
  <1>8. CASE CompleteSubmission
    BY <1>8 DEF CompleteSubmission, CanExecute
  <1>9. CASE RemoveFromQueue
    BY <1>9 DEF RemoveFromQueue, CanExecute, NoHandler
  <1>10. ASSUME NEW i \in DOMAIN upserts, UpsertLands(i) \/ UpsertFails(i)
         PROVE  ReadsAfterUpserts'
    <2>1. upserts # <<>>
      BY UpsertsOf
    <2>2. UNCHANGED <<handler, queued>>
      BY <1>10 DEF UpsertLands, UpsertFails
    <2> QED
      BY <2>1, <2>2
  <1>11. CASE Restart
    BY <1>11 DEF Restart, NoHandler
  <1>12. CASE UNCHANGED vars
    BY <1>12 DEF vars
  <1> QED
    BY <1>1, <1>2, <1>3, <1>4, <1>5, <1>6, <1>7, <1>8, <1>9, <1>10, <1>11, <1>12 DEF Next

\* What the attempt at hand has reported is settled, or will be.
ReportedSettle ==
    judge.busy \/ handler.pc # "none" =>
        \A n \in CaseNumbers : reported[n] # NoRow => Settles(n)

LEMMA ReportedSettleNext ==
    ASSUME TypeOK, JudgeCounts, inOrder, ReportedSettle, [Next]_vars,
           \A i \in DOMAIN upserts : ~UpsertFails(i)
    PROVE  ReportedSettle'
  <1> USE DEF ReportedSettle, judgeVars, memory, database, faults
  <1>1. ASSUME judge.busy \/ handler.pc # "none", UNCHANGED <<reported, upserts, testCases>>
        PROVE  ReportedSettle'
    BY <1>1 DEF Settles
  <1>2. CASE Submit
    BY <1>2 DEF Submit
  <1>3. CASE HandleInternalError
    BY <1>1, <1>3 DEF HandleInternalError
  <1>4. CASE HandleBatchBegin \/ HandleBatchEnd \/ HandleGradingEnd
    BY <1>1, <1>4 DEF HandleBatchBegin, HandleBatchEnd, HandleGradingEnd
  <1>5. ASSUME NEW report \in Reports, HandleTestCaseStatus(report) PROVE ReportedSettle'
    <2>1. judge.busy
      BY <1>5 DEF HandleTestCaseStatus
    <2>2. ASSUME NEW n \in CaseNumbers, reported'[n] # NoRow PROVE Settles(n)'
      BY <1>5, <2>1, <2>2, ReportSettles
    <2> QED
      BY <2>2
  <1>6. CASE FindSubmission \/ FindTestCases \/ CompleteSubmission
    BY <1>1, <1>6 DEF FindSubmission, FindTestCases, CompleteSubmission
  <1>7. CASE RemoveFromQueue
    BY <1>1, <1>7 DEF RemoveFromQueue
  <1>8. ASSUME NEW i \in DOMAIN upserts, UpsertLands(i) PROVE ReportedSettle'
    <2>1. i = 1 /\ UpsertLands(1) /\ UNCHANGED <<judge, handler, reported>>
      BY <1>8 DEF UpsertLands
    <2>2. \A n \in CaseNumbers : Settles(n) => Settles(n)'
      BY <1>8, <2>1, LandingSettles
    <2> QED
      BY <2>1, <2>2
  <1>9. CASE Restart
    BY <1>9 DEF Restart, NoHandler, IdleJudge
  <1>10. CASE UNCHANGED vars
    BY <1>10 DEF vars, Settles
  <1> QED
    BY <1>2, <1>3, <1>4, <1>5, <1>6, <1>7, <1>8, <1>9, <1>10 DEF Next

LEMMA RowsSettleNext ==
    ASSUME TypeOK, JudgeCounts, RowsSettle, [Next]_vars
    PROVE  RowsSettle'
  <1>1. SUFFICES ASSUME inOrder' PROVE ReadsAfterUpserts' /\ (dbFailures' = 0 => ReportedSettle')
    BY DEF RowsSettle, ReadsAfterUpserts, ReportedSettle
  <1>2. /\ inOrder
        /\ dbFailures' = 0 => dbFailures = 0 /\ (\A i \in DOMAIN upserts : ~UpsertFails(i))
    BY <1>1, InOrderBefore
  <1>3. ReadsAfterUpserts'
    BY <1>2, ReadsAfterUpsertsNext DEF RowsSettle, ReadsAfterUpserts
  <1>4. ASSUME dbFailures' = 0 PROVE ReportedSettle'
    BY <1>2, <1>4, ReportedSettleNext DEF RowsSettle, ReportedSettle
  <1> QED
    BY <1>3, <1>4

LEMMA RowsExplainFinalNext ==
    ASSUME TypeOK, JudgeCounts, RowsSettle, RowsExplainFinal, [Next]_vars
    PROVE  RowsExplainFinal'
  <1> USE DEF judgeVars, memory, database, faults
  <1>1. SUFFICES ASSUME inOrder', Completed'
        PROVE  /\ final' = Result(testCases')
               /\ dbFailures' = 0 =>
                     \A n \in CaseNumbers : reported'[n] # NoRow => testCases'[n] = reported'[n]
    BY DEF RowsExplainFinal
  <1>2. inOrder /\ (dbFailures' = 0 => dbFailures = 0)
    BY <1>1, InOrderBefore
  <1>3. CASE CompleteSubmission
    <2>1. /\ handler.pc = "completing" /\ upserts = <<>> /\ handler.result = Result(testCases)
          /\ UNCHANGED <<testCases, reported>> /\ final' = handler.result
      BY <1>2, <1>3 DEF RowsSettle, CompleteSubmission
    <2>2. dbFailures' = 0 => \A n \in CaseNumbers : reported[n] # NoRow => Settles(n)
      BY <1>2, <2>1 DEF RowsSettle
    <2>3. \A n \in CaseNumbers : Settles(n) => testCases[n] = reported[n]
      BY <2>1 DEF Settles
    <2> QED
      BY <2>1, <2>2, <2>3
  <1>4. CASE Completed /\ UNCHANGED <<testCases, reported, final>>
    BY <1>2, <1>4 DEF RowsExplainFinal
  <1>5. CompleteSubmission \/ (Completed /\ UNCHANGED <<testCases, reported, final>>)
    <2>1. \A i \in DOMAIN upserts : ~UpsertLands(i) \/ ~Completed'
      <3>1. SUFFICES ASSUME NEW i \in DOMAIN upserts, UpsertLands(i), Completed PROVE FALSE
        BY DEF UpsertLands, Completed
      <3>2. upserts = <<>>
        BY <1>2, <3>1 DEF RowsSettle
      <3> QED
        BY <3>1, <3>2, UpsertsOf
    <2>2. ASSUME NEW i \in DOMAIN upserts, UpsertFails(i)
          PROVE  Completed /\ UNCHANGED <<testCases, reported, final>>
      BY <1>1, <2>2 DEF UpsertFails, Completed
    <2>3. \A i \in DOMAIN upserts : ~UpsertLands(i)
      BY <1>1, <2>1
    <2> QED
      <3>1. CASE Submit
        BY <1>1, <3>1 DEF Submit, Completed, NoHandler
      <3>2. CASE HandleInternalError \/ HandleBatchBegin \/ HandleBatchEnd
        BY <1>1, <3>2 DEF HandleInternalError, HandleBatchBegin, HandleBatchEnd, Completed
      <3>3. CASE HandleGradingEnd
        BY <1>1, <3>3 DEF HandleGradingEnd, Completed, JudgeCounts
      <3>4. ASSUME NEW report \in Reports, HandleTestCaseStatus(report) PROVE FALSE
        BY <1>1, <3>4 DEF HandleTestCaseStatus, Completed, JudgeCounts
      <3>5. CASE FindSubmission \/ FindTestCases
        <4>1. handler.pc # "none" /\ handler'.pc # "deleting" /\ queued' = queued
          BY <3>5 DEF FindSubmission, FindTestCases
        <4>2. queued
          BY <4>1 DEF JudgeCounts
        <4> QED
          BY <1>1, <4>1, <4>2 DEF Completed
      <3>6. CASE RemoveFromQueue
        BY <3>6 DEF RemoveFromQueue, Completed
      <3>7. CASE Restart
        BY <1>1, <3>7 DEF Restart, Completed, NoHandler
      <3>8. CASE UNCHANGED vars
        BY <1>1, <3>8 DEF vars, Completed
      <3> QED
        BY <2>2, <2>3, <3>1, <3>2, <3>3, <3>4, <3>5, <3>6, <3>7, <3>8 DEF Next
  <1> QED
    BY <1>3, <1>4, <1>5

-------------------------------------------------------------------------------
(* The invariant and what follows from it. *)

LEMMA GradingInvInit ==
    ASSUME Init
    PROVE  GradingInv
  <1> USE DEF Init, IdleJudge, NoBatchYet, NoHandler, NoBatch, NoRow
  <1>1. M \in Nat \ {0} /\ CaseNumbers = 1..M
    BY MostCases
  <1>2. 0 \in BatchNumbers
    BY Batches
  <1>3. TypeOK
    <2>1. upserts \in Seq(Upserts)
      BY UpsertsOf
    <2> QED
      BY <1>1, <1>2, <2>1, GradingAssumption DEF TypeOK, JudgeStates
  <1>4. JudgeCounts
    BY <1>1 DEF JudgeCounts
  <1>5. Batched = {}
    BY DEF Batched
  <1>6. BatchesCount
    <2>1. attempts * M = 0 /\ attempts * Max(CaseCounts) = 0
      BY <1>1 DEF M
    <2> QED
      BY <1>5, <2>1 DEF BatchesCount
  <1>7. BatchesAreKept
    BY <1>5 DEF BatchesAreKept, BatchesAreDistinct, FirstAttemptIsExact, OutsidersStayOut
  <1>8. RowsSettle /\ RowsExplainFinal
    BY DEF RowsSettle, RowsExplainFinal, Completed
  <1>9. OutsidersCount
    BY DEF OutsidersCount
  <1> QED
    BY <1>3, <1>4, <1>6, <1>7, <1>8, <1>9 DEF GradingInv

LEMMA GradingInvNext ==
    ASSUME GradingInv, [Next]_vars
    PROVE  GradingInv'
  <1>1. TypeOK'
    BY TypeOKNext DEF GradingInv
  <1>2. JudgeCounts'
    BY JudgeCountsNext DEF GradingInv
  <1>3. BatchesCount'
    BY <1>1, BatchesCountNext DEF GradingInv
  <1>4. OutsidersCount'
    BY OutsidersCountNext DEF GradingInv
  <1>5. BatchesAreKept'
    BY <1>1, <1>2, <1>3, <1>4, BatchesAreDistinctNext, FirstAttemptIsExactNext,
       OutsidersStayOutNext DEF GradingInv, BatchesAreKept
  <1>6. RowsSettle'
    BY RowsSettleNext DEF GradingInv
  <1>7. RowsExplainFinal'
    BY RowsExplainFinalNext DEF GradingInv
  <1> QED
    BY <1>1, <1>2, <1>3, <1>5, <1>6, <1>7, <1>4 DEF GradingInv

(***************************************************************************)
(* What the judge, the server and the database hold of a submission agree  *)
(* in every reachable state, for any numbers of cases, attempts, failures  *)
(* and restarts.                                                           *)
(***************************************************************************)
THEOREM GradingInvHolds == Spec => []GradingInv
  <1>1. GradingInv /\ UNCHANGED vars => GradingInv'
    BY GradingInvNext
  <1> QED
    BY <1>1, GradingInvInit, GradingInvNext, PTL DEF Spec

(***************************************************************************)
(* The handlers of begin-grading, batches, cases and grading-end keep the  *)
(* type of what they track; among it, that the queue's attempts and the    *)
(* batch numbers stay within their bounds.                                 *)
(***************************************************************************)
THEOREM TypeCorrect == Spec => []TypeOK
  BY GradingInvHolds, PTL DEF GradingInv

(***************************************************************************)
(* Of the cases an attempt reports in batches, handleTestCaseStatus stores *)
(* two with one batch number exactly if the judge reported them in one     *)
(* batch, whatever attempts and restarts came before.  A case of no batch  *)
(* has no number in a first attempt; in a later one it may have one, which *)
(* is nobody's else if the server counts the batches, not the judge.       *)
(***************************************************************************)
THEOREM BatchesStayApart == Spec => []BatchesAreKept
  BY GradingInvHolds, PTL DEF GradingInv

(***************************************************************************)
(* With statements in order, the result handleGradingEnd stored is that of *)
(* the rows, whatever upserts failed; and if none did, every case of the   *)
(* last attempt has its row, for numbers of cases that change between      *)
(* attempts.                                                               *)
(***************************************************************************)
THEOREM ResultsAreExplained == Spec => []RowsExplainFinal
  BY GradingInvHolds, PTL DEF GradingInv

===============================================================================
