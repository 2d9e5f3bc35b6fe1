------------------------ MODULE SubmissionIntakeProofs -------------------------
(***************************************************************************)
(* Theorems about SubmissionIntake, for any number of requests, of failing *)
(* statements and of restarts.                                             *)
(***************************************************************************)
EXTENDS SubmissionIntake, TLAPS

-------------------------------------------------------------------------------
(* The invariant, part by part. *)

\* An update that is issued is a write.
LEMMA Issued ==
    ASSUME TypeOK, NEW s \in Submissions, NEW v \in {"QU", "RN"}, NEW told \in BOOLEAN,
           Issues(s, v, told)
    PROVE  writes' \subseteq Writes
  <1>1. [sub |-> s, attempt |-> attempts[s], verdict |-> v, tells |-> told] \in Writes
    BY DEF TypeOK, Writes
  <1>2. writes \subseteq Writes
    BY DEF TypeOK
  <1> QED
    BY <1>1, <1>2 DEF Issues

\* Every variable keeps its type: what is queued, ended or stored has a row.
LEMMA TypeOKNext ==
    ASSUME TypeOK, QueuedOnce, IntakeAssumption, [Next]_vars
    PROVE  TypeOK'
  <1> USE DEF settings, requests, judging, faults, UnderWay, InFlight, TypeOK, QueuedOnce, Kinds, Finals, MaxAttempts,
             Working, Stages, Writes
  <1>1. CASE ChangeProblem
    BY <1>1 DEF ChangeProblem
  <1>2. ASSUME NEW s \in Submissions, ReceiveRequest(s) PROVE TypeOK'
    BY <1>2 DEF ReceiveRequest, Proceeds
  <1>3. ASSUME NEW s \in Submissions, FindProblem(s) PROVE TypeOK'
    BY <1>3 DEF FindProblem, Proceeds, Answers
  <1>4. ASSUME NEW s \in Submissions, CreateSubmission(s) PROVE TypeOK'
    BY <1>4 DEF CreateSubmission, Proceeds
  <1>5. ASSUME NEW s \in Submissions, DownloadFile(s) PROVE TypeOK'
    BY <1>5 DEF DownloadFile, Proceeds
  <1>6. ASSUME NEW s \in Submissions, UploadFile(s) PROVE TypeOK'
    BY <1>6 DEF UploadFile, Proceeds
  <1>7. ASSUME NEW s \in Submissions, CreateEntry(s) PROVE TypeOK'
    BY <1>7 DEF CreateEntry, Proceeds
  <1>8. ASSUME NEW s \in Submissions, MarkQueued(s) PROVE TypeOK'
    BY <1>8 DEF MarkQueued, Answers
  <1>9. ASSUME NEW s \in Submissions, StatementFails(s) PROVE TypeOK'
    BY <1>9 DEF StatementFails, Answers
  <1>10. ASSUME NEW s \in Submissions, AssignToJudge(s) PROVE TypeOK'
    BY <1>10 DEF AssignToJudge, Moves
  <1>11. ASSUME NEW s \in Submissions, MarkRunning(s) PROVE TypeOK'
    BY <1>11 DEF MarkRunning, Moves
  <1>12. ASSUME NEW s \in Submissions, HandleBeginGrading(s) PROVE TypeOK'
    BY <1>12, Issued DEF HandleBeginGrading
  <1>13. ASSUME NEW s \in Submissions, HandleGradingEnd(s) PROVE TypeOK'
    BY <1>13 DEF HandleGradingEnd, Moves
  <1>14. ASSUME NEW s \in Submissions, HandleInternalError(s) PROVE TypeOK'
    BY <1>14 DEF HandleInternalError, Moves
  <1>15. ASSUME NEW s \in Submissions, FailSubmission(s) PROVE TypeOK'
    BY <1>15, Issued DEF FailSubmission, Moves
  <1>16. ASSUME NEW s \in Submissions, WriteVerdict(s) PROVE TypeOK'
    BY <1>16 DEF WriteVerdict, Moves
  <1>17. ASSUME NEW s \in Submissions, DeleteEntry(s) PROVE TypeOK'
    BY <1>17 DEF DeleteEntry, Moves
  <1>18. ASSUME NEW s \in Submissions, JudgingFails(s) PROVE TypeOK'
    BY <1>18 DEF JudgingFails, Moves
  <1>19. ASSUME NEW w \in writes, VerdictLands(w) PROVE TypeOK'
    BY <1>19 DEF VerdictLands
  <1>20. ASSUME NEW w \in writes, WriteFails(w) PROVE TypeOK'
    BY <1>20 DEF WriteFails
  <1>21. CASE Restart
    BY <1>21 DEF Restart
  <1>22. CASE UNCHANGED vars
    BY <1>22 DEF vars
  <1> QED
    BY <1>1, <1>2, <1>3, <1>4, <1>5, <1>6, <1>7, <1>8, <1>9, <1>10, <1>11,
       <1>12, <1>13, <1>14, <1>15, <1>16, <1>17, <1>18, <1>19, <1>20, <1>21, <1>22 DEF Next

\* A submission is queued once, and only what is queued is judged.
LEMMA QueuedOnceNext ==
    ASSUME TypeOK, QueuedOnce, [Next]_vars
    PROVE  QueuedOnce'
  <1> USE DEF settings, requests, judging, faults, UnderWay, InFlight, TypeOK, QueuedOnce, Working, Finals
  <1>1. CASE ChangeProblem
    BY <1>1 DEF ChangeProblem
  <1>2. ASSUME NEW s \in Submissions, ReceiveRequest(s) PROVE QueuedOnce'
    BY <1>2 DEF ReceiveRequest, Proceeds
  <1>3. ASSUME NEW s \in Submissions, FindProblem(s) PROVE QueuedOnce'
    BY <1>3 DEF FindProblem, Proceeds, Answers
  <1>4. ASSUME NEW s \in Submissions, CreateSubmission(s) PROVE QueuedOnce'
    BY <1>4 DEF CreateSubmission, Proceeds
  <1>5. ASSUME NEW s \in Submissions, DownloadFile(s) PROVE QueuedOnce'
    BY <1>5 DEF DownloadFile, Proceeds
  <1>6. ASSUME NEW s \in Submissions, UploadFile(s) PROVE QueuedOnce'
    BY <1>6 DEF UploadFile, Proceeds
  <1>7. ASSUME NEW s \in Submissions, CreateEntry(s) PROVE QueuedOnce'
    BY <1>7 DEF CreateEntry, Proceeds
  <1>8. ASSUME NEW s \in Submissions, MarkQueued(s) PROVE QueuedOnce'
    BY <1>8 DEF MarkQueued, Answers
  <1>9. ASSUME NEW s \in Submissions, StatementFails(s) PROVE QueuedOnce'
    BY <1>9 DEF StatementFails, Answers
  <1>10. ASSUME NEW s \in Submissions, AssignToJudge(s) PROVE QueuedOnce'
    BY <1>10 DEF AssignToJudge, Moves
  <1>11. ASSUME NEW s \in Submissions, MarkRunning(s) PROVE QueuedOnce'
    BY <1>11 DEF MarkRunning, Moves
  <1>12. ASSUME NEW s \in Submissions, HandleBeginGrading(s) PROVE QueuedOnce'
    BY <1>12 DEF HandleBeginGrading, Issues
  <1>13. ASSUME NEW s \in Submissions, HandleGradingEnd(s) PROVE QueuedOnce'
    BY <1>13 DEF HandleGradingEnd, Moves
  <1>14. ASSUME NEW s \in Submissions, HandleInternalError(s) PROVE QueuedOnce'
    BY <1>14 DEF HandleInternalError, Moves
  <1>15. ASSUME NEW s \in Submissions, FailSubmission(s) PROVE QueuedOnce'
    BY <1>15 DEF FailSubmission, Moves, Issues
  <1>16. ASSUME NEW s \in Submissions, WriteVerdict(s) PROVE QueuedOnce'
    BY <1>16 DEF WriteVerdict, Moves
  <1>17. ASSUME NEW s \in Submissions, DeleteEntry(s) PROVE QueuedOnce'
    BY <1>17 DEF DeleteEntry, Moves
  <1>18. ASSUME NEW s \in Submissions, JudgingFails(s) PROVE QueuedOnce'
    BY <1>18 DEF JudgingFails, Moves
  <1>19. ASSUME NEW w \in writes, VerdictLands(w) PROVE QueuedOnce'
    BY <1>19 DEF VerdictLands
  <1>20. ASSUME NEW w \in writes, WriteFails(w) PROVE QueuedOnce'
    BY <1>20 DEF WriteFails
  <1>21. CASE Restart
    BY <1>21 DEF Restart
  <1>22. CASE UNCHANGED vars
    BY <1>22 DEF vars
  <1> QED
    BY <1>1, <1>2, <1>3, <1>4, <1>5, <1>6, <1>7, <1>8, <1>9, <1>10, <1>11,
       <1>12, <1>13, <1>14, <1>15, <1>16, <1>17, <1>18, <1>19, <1>20, <1>21, <1>22 DEF Next

\* A file is stored, or known to be lost, before the submission is queued.
LEMMA FileInvNext ==
    ASSUME TypeOK, QueuedOnce, FileInv, [Next]_vars
    PROVE  FileInv'
  <1> USE DEF settings, requests, judging, faults, UnderWay, InFlight, TypeOK, QueuedOnce, FileInv, Kinds, Working
  <1>1. CASE ChangeProblem
    BY <1>1 DEF ChangeProblem
  <1>2. ASSUME NEW s \in Submissions, ReceiveRequest(s) PROVE FileInv'
    BY <1>2 DEF ReceiveRequest, Proceeds
  <1>3. ASSUME NEW s \in Submissions, FindProblem(s) PROVE FileInv'
    BY <1>3 DEF FindProblem, Proceeds, Answers
  <1>4. ASSUME NEW s \in Submissions, CreateSubmission(s) PROVE FileInv'
    BY <1>4 DEF CreateSubmission, Proceeds
  <1>5. ASSUME NEW s \in Submissions, DownloadFile(s) PROVE FileInv'
    BY <1>5 DEF DownloadFile, Proceeds
  <1>6. ASSUME NEW s \in Submissions, UploadFile(s) PROVE FileInv'
    BY <1>6 DEF UploadFile, Proceeds
  <1>7. ASSUME NEW s \in Submissions, CreateEntry(s) PROVE FileInv'
    BY <1>7 DEF CreateEntry, Proceeds
  <1>8. ASSUME NEW s \in Submissions, MarkQueued(s) PROVE FileInv'
    BY <1>8 DEF MarkQueued, Answers
  <1>9. ASSUME NEW s \in Submissions, StatementFails(s) PROVE FileInv'
    BY <1>9 DEF StatementFails, Answers
  <1>10. ASSUME NEW s \in Submissions, AssignToJudge(s) PROVE FileInv'
    BY <1>10 DEF AssignToJudge, Moves
  <1>11. ASSUME NEW s \in Submissions, MarkRunning(s) PROVE FileInv'
    BY <1>11 DEF MarkRunning, Moves
  <1>12. ASSUME NEW s \in Submissions, HandleBeginGrading(s) PROVE FileInv'
    BY <1>12 DEF HandleBeginGrading, Issues
  <1>13. ASSUME NEW s \in Submissions, HandleGradingEnd(s) PROVE FileInv'
    BY <1>13 DEF HandleGradingEnd, Moves
  <1>14. ASSUME NEW s \in Submissions, HandleInternalError(s) PROVE FileInv'
    BY <1>14 DEF HandleInternalError, Moves
  <1>15. ASSUME NEW s \in Submissions, FailSubmission(s) PROVE FileInv'
    BY <1>15 DEF FailSubmission, Moves, Issues
  <1>16. ASSUME NEW s \in Submissions, WriteVerdict(s) PROVE FileInv'
    BY <1>16 DEF WriteVerdict, Moves
  <1>17. ASSUME NEW s \in Submissions, DeleteEntry(s) PROVE FileInv'
    BY <1>17 DEF DeleteEntry, Moves
  <1>18. ASSUME NEW s \in Submissions, JudgingFails(s) PROVE FileInv'
    BY <1>18 DEF JudgingFails, Moves
  <1>19. ASSUME NEW w \in writes, VerdictLands(w) PROVE FileInv'
    BY <1>19 DEF VerdictLands
  <1>20. ASSUME NEW w \in writes, WriteFails(w) PROVE FileInv'
    BY <1>20 DEF WriteFails
  <1>21. CASE Restart
    BY <1>21 DEF Restart
  <1>22. CASE UNCHANGED vars
    BY <1>22 DEF vars
  <1> QED
    BY <1>1, <1>2, <1>3, <1>4, <1>5, <1>6, <1>7, <1>8, <1>9, <1>10, <1>11,
       <1>12, <1>13, <1>14, <1>15, <1>16, <1>17, <1>18, <1>19, <1>20, <1>21, <1>22 DEF Next

\* A submission is only about to be created if the problem took it, or changed since.
LEMMA CheckedInvNext ==
    ASSUME TypeOK, CheckedInv, [Next]_vars
    PROVE  CheckedInv'
  <1> USE DEF settings, requests, judging, faults, UnderWay, InFlight, TypeOK, CheckedInv
  <1>1. CASE ChangeProblem
    BY <1>1 DEF ChangeProblem
  <1>2. ASSUME NEW s \in Submissions, ReceiveRequest(s) PROVE CheckedInv'
    BY <1>2 DEF ReceiveRequest, Proceeds
  <1>3. ASSUME NEW s \in Submissions, FindProblem(s) PROVE CheckedInv'
    BY <1>3 DEF FindProblem, Proceeds, Answers
  <1>4. ASSUME NEW s \in Submissions, CreateSubmission(s) PROVE CheckedInv'
    BY <1>4 DEF CreateSubmission, Proceeds
  <1>5. ASSUME NEW s \in Submissions, DownloadFile(s) PROVE CheckedInv'
    BY <1>5 DEF DownloadFile, Proceeds
  <1>6. ASSUME NEW s \in Submissions, UploadFile(s) PROVE CheckedInv'
    BY <1>6 DEF UploadFile, Proceeds
  <1>7. ASSUME NEW s \in Submissions, CreateEntry(s) PROVE CheckedInv'
    BY <1>7 DEF CreateEntry, Proceeds
  <1>8. ASSUME NEW s \in Submissions, MarkQueued(s) PROVE CheckedInv'
    BY <1>8 DEF MarkQueued, Answers
  <1>9. ASSUME NEW s \in Submissions, StatementFails(s) PROVE CheckedInv'
    BY <1>9 DEF StatementFails, Answers
  <1>10. ASSUME NEW s \in Submissions, AssignToJudge(s) PROVE CheckedInv'
    BY <1>10 DEF AssignToJudge, Moves
  <1>11. ASSUME NEW s \in Submissions, MarkRunning(s) PROVE CheckedInv'
    BY <1>11 DEF MarkRunning, Moves
  <1>12. ASSUME NEW s \in Submissions, HandleBeginGrading(s) PROVE CheckedInv'
    BY <1>12 DEF HandleBeginGrading, Issues
  <1>13. ASSUME NEW s \in Submissions, HandleGradingEnd(s) PROVE CheckedInv'
    BY <1>13 DEF HandleGradingEnd, Moves
  <1>14. ASSUME NEW s \in Submissions, HandleInternalError(s) PROVE CheckedInv'
    BY <1>14 DEF HandleInternalError, Moves
  <1>15. ASSUME NEW s \in Submissions, FailSubmission(s) PROVE CheckedInv'
    BY <1>15 DEF FailSubmission, Moves, Issues
  <1>16. ASSUME NEW s \in Submissions, WriteVerdict(s) PROVE CheckedInv'
    BY <1>16 DEF WriteVerdict, Moves
  <1>17. ASSUME NEW s \in Submissions, DeleteEntry(s) PROVE CheckedInv'
    BY <1>17 DEF DeleteEntry, Moves
  <1>18. ASSUME NEW s \in Submissions, JudgingFails(s) PROVE CheckedInv'
    BY <1>18 DEF JudgingFails, Moves
  <1>19. ASSUME NEW w \in writes, VerdictLands(w) PROVE CheckedInv'
    BY <1>19 DEF VerdictLands
  <1>20. ASSUME NEW w \in writes, WriteFails(w) PROVE CheckedInv'
    BY <1>20 DEF WriteFails
  <1>21. CASE Restart
    BY <1>21 DEF Restart
  <1>22. CASE UNCHANGED vars
    BY <1>22 DEF vars
  <1> QED
    BY <1>1, <1>2, <1>3, <1>4, <1>5, <1>6, <1>7, <1>8, <1>9, <1>10, <1>11,
       <1>12, <1>13, <1>14, <1>15, <1>16, <1>17, <1>18, <1>19, <1>20, <1>21, <1>22 DEF Next

\* What is accepted is kept, and nothing is stranded without a fault.
LEMMA NothingStrandedNext ==
    ASSUME TypeOK, QueuedOnce, NothingStranded, [Next]_vars
    PROVE  NothingStranded'
  <1> USE DEF settings, requests, judging, faults, UnderWay, InFlight, TypeOK, QueuedOnce, NothingStranded, AcceptedIsKept
  <1>1. CASE ChangeProblem
    BY <1>1 DEF ChangeProblem
  <1>2. ASSUME NEW s \in Submissions, ReceiveRequest(s) PROVE NothingStranded'
    BY <1>2 DEF ReceiveRequest, Proceeds
  <1>3. ASSUME NEW s \in Submissions, FindProblem(s) PROVE NothingStranded'
    BY <1>3 DEF FindProblem, Proceeds, Answers
  <1>4. ASSUME NEW s \in Submissions, CreateSubmission(s) PROVE NothingStranded'
    BY <1>4 DEF CreateSubmission, Proceeds
  <1>5. ASSUME NEW s \in Submissions, DownloadFile(s) PROVE NothingStranded'
    BY <1>5 DEF DownloadFile, Proceeds
  <1>6. ASSUME NEW s \in Submissions, UploadFile(s) PROVE NothingStranded'
    BY <1>6 DEF UploadFile, Proceeds
  <1>7. ASSUME NEW s \in Submissions, CreateEntry(s) PROVE NothingStranded'
    BY <1>7 DEF CreateEntry, Proceeds
  <1>8. ASSUME NEW s \in Submissions, MarkQueued(s) PROVE NothingStranded'
    BY <1>8 DEF MarkQueued, Answers
  <1>9. ASSUME NEW s \in Submissions, StatementFails(s) PROVE NothingStranded'
    BY <1>9 DEF StatementFails, Answers
  <1>10. ASSUME NEW s \in Submissions, AssignToJudge(s) PROVE NothingStranded'
    BY <1>10 DEF AssignToJudge, Moves
  <1>11. ASSUME NEW s \in Submissions, MarkRunning(s) PROVE NothingStranded'
    BY <1>11 DEF MarkRunning, Moves
  <1>12. ASSUME NEW s \in Submissions, HandleBeginGrading(s) PROVE NothingStranded'
    BY <1>12 DEF HandleBeginGrading, Issues
  <1>13. ASSUME NEW s \in Submissions, HandleGradingEnd(s) PROVE NothingStranded'
    BY <1>13 DEF HandleGradingEnd, Moves
  <1>14. ASSUME NEW s \in Submissions, HandleInternalError(s) PROVE NothingStranded'
    BY <1>14 DEF HandleInternalError, Moves
  <1>15. ASSUME NEW s \in Submissions, FailSubmission(s) PROVE NothingStranded'
    BY <1>15 DEF FailSubmission, Moves, Issues
  <1>16. ASSUME NEW s \in Submissions, WriteVerdict(s) PROVE NothingStranded'
    BY <1>16 DEF WriteVerdict, Moves
  <1>17. ASSUME NEW s \in Submissions, DeleteEntry(s) PROVE NothingStranded'
    BY <1>17 DEF DeleteEntry, Moves
  <1>18. ASSUME NEW s \in Submissions, JudgingFails(s) PROVE NothingStranded'
    BY <1>18 DEF JudgingFails, Moves
  <1>19. ASSUME NEW w \in writes, VerdictLands(w) PROVE NothingStranded'
    BY <1>19 DEF VerdictLands
  <1>20. ASSUME NEW w \in writes, WriteFails(w) PROVE NothingStranded'
    BY <1>20 DEF WriteFails
  <1>21. CASE Restart
    BY <1>21 DEF Restart
  <1>22. CASE UNCHANGED vars
    BY <1>22 DEF vars
  <1> QED
    BY <1>1, <1>2, <1>3, <1>4, <1>5, <1>6, <1>7, <1>8, <1>9, <1>10, <1>11,
       <1>12, <1>13, <1>14, <1>15, <1>16, <1>17, <1>18, <1>19, <1>20, <1>21, <1>22 DEF Next

\* Nothing is under way for a result that is settled, so it stands.
LEMMA SettledInvNext ==
    ASSUME TypeOK, QueuedOnce, SettledInv, [Next]_vars
    PROVE  SettledInv'
  <1> USE DEF settings, requests, judging, faults, UnderWay, InFlight, TypeOK, QueuedOnce,
             SettledInv, ResultsStand, IsPending, Working
  <1>1. CASE ChangeProblem
    BY <1>1 DEF ChangeProblem
  <1>2. ASSUME NEW s \in Submissions, ReceiveRequest(s) PROVE SettledInv'
    BY <1>2 DEF ReceiveRequest, Proceeds
  <1>3. ASSUME NEW s \in Submissions, FindProblem(s) PROVE SettledInv'
    BY <1>3 DEF FindProblem, Proceeds, Answers
  <1>4. ASSUME NEW s \in Submissions, CreateSubmission(s) PROVE SettledInv'
    BY <1>4 DEF CreateSubmission, Proceeds
  <1>5. ASSUME NEW s \in Submissions, DownloadFile(s) PROVE SettledInv'
    BY <1>5 DEF DownloadFile, Proceeds
  <1>6. ASSUME NEW s \in Submissions, UploadFile(s) PROVE SettledInv'
    BY <1>6 DEF UploadFile, Proceeds
  <1>7. ASSUME NEW s \in Submissions, CreateEntry(s) PROVE SettledInv'
    BY <1>7 DEF CreateEntry, Proceeds
  <1>8. ASSUME NEW s \in Submissions, MarkQueued(s) PROVE SettledInv'
    BY <1>8 DEF MarkQueued, Answers
  <1>9. ASSUME NEW s \in Submissions, StatementFails(s) PROVE SettledInv'
    BY <1>9 DEF StatementFails, Answers
  <1>10. ASSUME NEW s \in Submissions, AssignToJudge(s) PROVE SettledInv'
    BY <1>10 DEF AssignToJudge, Moves
  <1>11. ASSUME NEW s \in Submissions, MarkRunning(s) PROVE SettledInv'
    BY <1>11 DEF MarkRunning, Moves
  <1>12. ASSUME NEW s \in Submissions, HandleBeginGrading(s) PROVE SettledInv'
    BY <1>12 DEF HandleBeginGrading, Issues
  <1>13. ASSUME NEW s \in Submissions, HandleGradingEnd(s) PROVE SettledInv'
    BY <1>13 DEF HandleGradingEnd, Moves
  <1>14. ASSUME NEW s \in Submissions, HandleInternalError(s) PROVE SettledInv'
    BY <1>14 DEF HandleInternalError, Moves
  <1>15. ASSUME NEW s \in Submissions, FailSubmission(s) PROVE SettledInv'
    BY <1>15 DEF FailSubmission, Moves, Issues
  <1>16. ASSUME NEW s \in Submissions, WriteVerdict(s) PROVE SettledInv'
    BY <1>16 DEF WriteVerdict, Moves
  <1>17. ASSUME NEW s \in Submissions, DeleteEntry(s) PROVE SettledInv'
    BY <1>17 DEF DeleteEntry, Moves
  <1>18. ASSUME NEW s \in Submissions, JudgingFails(s) PROVE SettledInv'
    BY <1>18 DEF JudgingFails, Moves
  <1>19. ASSUME NEW w \in writes, VerdictLands(w) PROVE SettledInv'
    BY <1>19 DEF VerdictLands
  <1>20. ASSUME NEW w \in writes, WriteFails(w) PROVE SettledInv'
    BY <1>20 DEF WriteFails
  <1>21. CASE Restart
    BY <1>21 DEF Restart
  <1>22. CASE UNCHANGED vars
    BY <1>22 DEF vars
  <1> QED
    BY <1>1, <1>2, <1>3, <1>4, <1>5, <1>6, <1>7, <1>8, <1>9, <1>10, <1>11,
       <1>12, <1>13, <1>14, <1>15, <1>16, <1>17, <1>18, <1>19, <1>20, <1>21, <1>22 DEF Next

LEMMA IntakeInvInit == Init => IntakeInv
  <1> SUFFICES ASSUME Init PROVE IntakeInv
    OBVIOUS
  <1>1. TypeOK
    BY IntakeAssumption DEF Init, TypeOK, UnderWay, Finals, Kinds, MaxAttempts, Stages, Writes
  <1>2. QueuedOnce /\ FileInv /\ CheckedInv /\ NothingStranded
    BY DEF Init, QueuedOnce, FileInv, CheckedInv, NothingStranded, AcceptedIsKept, UnderWay, Working
  <1>3. SettledInv
    BY DEF Init, SettledInv, ResultsStand
  <1> QED
    BY <1>1, <1>2, <1>3 DEF IntakeInv

LEMMA IntakeInvNext == IntakeInv /\ [Next]_vars => IntakeInv'
  BY IntakeAssumption, TypeOKNext, QueuedOnceNext, FileInvNext, CheckedInvNext, NothingStrandedNext,
     SettledInvNext DEF IntakeInv

\* What was accepted is queued once, its file was written first, what the checks of a
\* request found still holds or was changed while it was under way, and nothing is under
\* way for a result that is settled.
THEOREM IntakeInvHolds == Spec => []IntakeInv
  BY IntakeInvInit, IntakeInvNext, PTL DEF Spec

-------------------------------------------------------------------------------
(* What follows from it. *)

\* Every variable keeps its type.
THEOREM TypeCorrect == Spec => []TypeOK
  <1>1. IntakeInv => TypeOK
    BY DEF IntakeInv
  <1> QED
    BY IntakeInvHolds, <1>1, PTL

\* A submission that was accepted is queued or judged, whatever fails, and no row is
\* left unqueued as long as no statement fails and the server does not restart.
THEOREM AcceptedAreKept == Spec => []NothingStranded
  <1>1. IntakeInv => NothingStranded
    BY DEF IntakeInv
  <1> QED
    BY IntakeInvHolds, <1>1, PTL

\* A judge that gets a submission made of a file finds the file, unless it could not be
\* fetched or stored.
THEOREM FilesPrecedeJudging == Spec => []FilePrecedesJudging
  <1>1. IntakeInv => FilePrecedesJudging
    BY DEF IntakeInv, QueuedOnce, FileInv, FilePrecedesJudging, Working
  <1> QED
    BY IntakeInvHolds, <1>1, PTL

\* Code is accepted for a locked or deleted problem only if it became so meanwhile.
THEOREM RefusalsAreTimely == Spec => RefusalsAreCurrent
  <1>1. ASSUME IntakeInv, [Next]_vars, NEW s \in rows' \ rows, kind[s] = "code", problem # "open"
        PROVE  s \in changed
    <2>1. CreateSubmission(s)
      BY <1>1 DEF Next, vars, ChangeProblem, ReceiveRequest, FindProblem, CreateSubmission,
         DownloadFile, UploadFile, CreateEntry, MarkQueued, StatementFails, AssignToJudge,
         MarkRunning, HandleBeginGrading, HandleGradingEnd, HandleInternalError, FailSubmission,
         WriteVerdict, DeleteEntry, JudgingFails, VerdictLands, WriteFails, Restart
    <2>2. s \in Submissions /\ pc[s] = "creating"
      BY <1>1, <2>1, TypeOKNext, IntakeAssumption DEF CreateSubmission, IntakeInv, TypeOK
    <2> QED
      BY <1>1, <2>2 DEF IntakeInv, CheckedInv
  <1>2. IntakeInv /\ [Next]_vars =>
           [\A s \in rows' \ rows : kind[s] = "code" /\ problem # "open" => s \in changed]_vars
    BY <1>1
  <1> QED
    BY <1>2, IntakeInvHolds, PTL DEF Spec, RefusalsAreCurrent

\* A result stands and is what browsers were told last (if its handler tells), unless it was
\* written while another write of the verdict was under way, or its row in the queue stayed.
THEOREM ResultsAreKept == Spec => []ResultsStand
  <1>1. IntakeInv => ResultsStand
    BY DEF IntakeInv, SettledInv
  <1> QED
    BY IntakeInvHolds, <1>1, PTL

===============================================================================
