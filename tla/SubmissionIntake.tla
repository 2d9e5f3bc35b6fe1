---------------------------- MODULE SubmissionIntake ----------------------------
(***************************************************************************)
(* How a submission comes into being: the controller's checks, then the    *)
(* service's statements, one action per `await': the row is created, a     *)
(* file is fetched and stored, the row is queued, its verdict is set.  The *)
(* queue may hand the submission to a judge as soon as it is queued, and   *)
(* the live updates tell the browsers in its room.                         *)
(*                                                                         *)
(* A request makes at most one submission; both have one name here.  The   *)
(* judging is in here as far as it races the creation and decides what     *)
(* verdict is stored and shown.  Judges, and runs that choose the same     *)
(* submission at a time, are SubmissionQueue's.                            *)
(***************************************************************************)
EXTENDS Naturals, FiniteSets

CONSTANTS
    Submissions,       \* the requests that may be made
    MaxDbFailures,     \* how many statements may fail
    MaxRestarts

ASSUME IntakeAssumption == MaxDbFailures \in Nat /\ MaxRestarts \in Nat

\* createSubmission, createSubmissionWithFile, createSubmissionWithUploadedUrl.
Kinds == {"code", "file", "url"}

MaxAttempts == 3

VARIABLES
    problem,        \* "open", "locked" or "deleted"
    storage,        \* whether object storage is configured
    \* The requests.
    kind, pc, answer,
    \* The database and the object storage.
    rows,           \* submissions that have a row
    entries,        \* submissions that have a row in SubmissionQueue
    attempts, verdict,
    ended,          \* submissions whose judgingEndedAt is set
    stored,         \* submissions whose file is stored
    \* The judges and the browsers.
    stage,          \* what the task that judges a submission waits for, if there is one
    result,         \* the verdict that task gives to completeSubmission
    tells,          \* whether it sends an event at its end
    writes,         \* updates of verdicts under way whose submission may be in other hands
    shown,          \* the last verdict, or creation, told to the room of each submission
    \* History and faults.
    changed,        \* requests during which the problem changed
    unsettled,      \* submissions whose result was written while another write of the
                    \* verdict was under way, or whose row in the queue outlived it
    lost,           \* submissions whose file could not be fetched or stored
    dbFailures, restarts

settings == <<problem, storage, changed>>
requests == <<kind, pc, answer>>
judging == <<attempts, stage, result, tells, writes, ended, unsettled>>
faults == <<dbFailures, restarts>>
vars == <<settings, requests, rows, entries, judging, verdict, stored, shown, lost, faults>>

UnderWay == {"finding", "creating", "downloading", "uploading", "queueing", "marking"}
Finals == {"AC", "ISE"}       \* AC for whatever a judge's result may be

\* "free": not in processingSubmissions; "stuck": in it, and nobody in charge.
Working == {"assigning", "judging", "finding", "completing", "deleting"}
Stages == Working \cup {"free", "stuck", "done"}
Writes == [sub : Submissions, attempt : 0..MaxAttempts, verdict : {"QU", "RN"}, tells : BOOLEAN]

TypeOK ==
    /\ problem \in {"open", "locked", "deleted"} /\ storage \in BOOLEAN
    /\ kind \in [Submissions -> Kinds]
    /\ pc \in [Submissions -> UnderWay \cup {"idle", "done"}]
    /\ answer \in [Submissions -> {"none", "refused", "created", "error"}]
    /\ \A S \in {rows, entries, ended, stored, unsettled, changed, lost} : S \subseteq Submissions
    /\ entries \cup ended \cup stored \subseteq rows
    /\ attempts \in [Submissions -> 0..MaxAttempts]
    /\ stage \in [Submissions -> Stages] /\ tells \in [Submissions -> BOOLEAN]
    /\ result \in [Submissions -> Finals \cup {"none"}]
    /\ writes \subseteq Writes
    /\ verdict \in [Submissions -> {"QU", "RN"} \cup Finals]
    /\ shown \in [Submissions -> {"none", "created", "RN"} \cup Finals]
    /\ dbFailures \in 0..MaxDbFailures /\ restarts \in 0..MaxRestarts

Init ==
    /\ problem = "open" /\ storage \in BOOLEAN
    /\ kind \in [Submissions -> Kinds]
    /\ pc = [s \in Submissions |-> "idle"]
    /\ answer = [s \in Submissions |-> "none"]
    /\ rows = {} /\ entries = {} /\ ended = {} /\ stored = {}
    /\ attempts = [s \in Submissions |-> 0]
    /\ stage = [s \in Submissions |-> "free"] /\ tells = [s \in Submissions |-> FALSE]
    /\ result = [s \in Submissions |-> "none"] /\ writes = {}
    /\ verdict = [s \in Submissions |-> "QU"]
    /\ shown = [s \in Submissions |-> "none"]
    /\ changed = {} /\ lost = {} /\ unsettled = {}
    /\ dbFailures = 0 /\ restarts = 0

InFlight == {s \in Submissions : pc[s] \in UnderWay}

\* The owners of the problem lock it, delete it, open it again.
ChangeProblem ==
    /\ problem' \in {"open", "locked", "deleted"} \ {problem}
    /\ changed' = changed \cup InFlight
    /\ UNCHANGED <<storage, requests, rows, entries, judging, verdict, stored, shown, lost, faults>>

-------------------------------------------------------------------------------
(* A request, one step per await. *)

Proceeds(s, next) == pc' = [pc EXCEPT ![s] = next] /\ UNCHANGED <<kind, answer>>
Answers(s, what) ==
    pc' = [pc EXCEPT ![s] = "done"] /\ answer' = [answer EXCEPT ![s] = what] /\ UNCHANGED kind

ReceiveRequest(s) ==
    /\ pc[s] = "idle"
    /\ Proceeds(s, "finding")
    /\ UNCHANGED <<settings, rows, entries, judging, verdict, stored, shown, lost, faults>>

\* Mutated form of FindProblem: isLocked is not looked at.
FindProblemUnlocked(s) ==
    /\ pc[s] = "finding"
    /\ \/ Answers(s, "refused")
       \/ problem # "deleted" /\ Proceeds(s, "creating")
    /\ UNCHANGED <<settings, rows, entries, judging, verdict, stored, shown, lost, faults>>

\* The problem is not there, does not take the language, or is locked (which
\* uploadSubmission does not ask); or the submission may be created.
FindProblem(s) ==
    /\ pc[s] = "finding"
    /\ \/ Answers(s, "refused")
       \/ /\ problem # "deleted"
          /\ kind[s] = "code" => problem # "locked"
          /\ Proceeds(s, "creating")
    /\ UNCHANGED <<settings, rows, entries, judging, verdict, stored, shown, lost, faults>>

\* Mutated form of CreateSubmission: the file is not stored before it is queued.
CreateSubmissionQueueing(s) ==
    /\ pc[s] = "creating"
    /\ rows' = rows \cup {s}
    /\ Proceeds(s, "queueing")
    /\ UNCHANGED <<settings, entries, judging, verdict, stored, shown, lost, faults>>

CreateSubmission(s) ==
    /\ pc[s] = "creating"
    /\ rows' = rows \cup {s}
    /\ \/ kind[s] = "url" /\ Proceeds(s, "downloading")
       \/ kind[s] = "file" /\ storage /\ Proceeds(s, "uploading")
       \/ kind[s] = "file" /\ ~storage /\ Proceeds(s, "queueing")
       \/ kind[s] = "code" /\ Proceeds(s, "queueing")
    /\ UNCHANGED <<settings, entries, judging, verdict, stored, shown, lost, faults>>

\* downloadUrlToBuffer; "falling back" to the URL if it fails.
DownloadFile(s) ==
    /\ pc[s] = "downloading"
    /\ \/ storage /\ Proceeds(s, "uploading") /\ UNCHANGED lost
       \/ ~storage /\ Proceeds(s, "queueing") /\ UNCHANGED lost
       \/ Proceeds(s, "queueing") /\ lost' = lost \cup {s}
    /\ UNCHANGED <<settings, rows, entries, judging, verdict, stored, shown, faults>>

\* Mutated form of UploadFile: a failure ends the request.
UploadFileFatal(s) ==
    /\ pc[s] = "uploading"
    /\ \/ Proceeds(s, "queueing") /\ stored' = stored \cup {s} /\ UNCHANGED lost
       \/ Answers(s, "error") /\ lost' = lost \cup {s} /\ UNCHANGED stored
    /\ UNCHANGED <<settings, rows, entries, judging, verdict, shown, faults>>

\* PutObject; "Non-fatal: we still want the submission to exist".
UploadFile(s) ==
    /\ pc[s] = "uploading"
    /\ Proceeds(s, "queueing")
    /\ \/ stored' = stored \cup {s} /\ UNCHANGED lost
       \/ lost' = lost \cup {s} /\ UNCHANGED stored
    /\ UNCHANGED <<settings, rows, entries, judging, verdict, shown, faults>>

\* addToQueue's first statement ...
CreateEntry(s) ==
    /\ pc[s] = "queueing"
    /\ entries' = entries \cup {s}
    /\ Proceeds(s, "marking")
    /\ UNCHANGED <<settings, rows, judging, verdict, stored, shown, lost, faults>>

\* ... and its second; 'submission.created' is sent and the request answered.
MarkQueued(s) ==
    /\ pc[s] = "marking"
    /\ verdict' = [verdict EXCEPT ![s] = "QU"]
    /\ shown' = [shown EXCEPT ![s] = "created"]
    /\ Answers(s, "created")
    /\ UNCHANGED <<settings, rows, entries, judging, stored, lost, faults>>

\* A statement fails: UNKNOWN_ERROR, and what was done stays done.
StatementFails(s) ==
    /\ pc[s] \in {"finding", "creating", "queueing", "marking"}
    /\ dbFailures < MaxDbFailures
    /\ dbFailures' = dbFailures + 1
    /\ Answers(s, "error")
    /\ UNCHANGED <<settings, rows, entries, judging, verdict, stored, shown, lost, restarts>>

-------------------------------------------------------------------------------
(* Judging: one action per await of the task that has the submission. *)

Moves(s, next) == stage' = [stage EXCEPT ![s] = next]

Issues(s, v, told) ==
    writes' = writes \cup
        {[sub |-> s, attempt |-> attempts[s], verdict |-> v, tells |-> told]}

IsPending(s) == \E w \in writes : w.sub = s

\* Mutated form of AssignToJudge: the attempts are not limited.
AssignToJudgeUnlimited(s) ==
    /\ stage[s] = "free" /\ s \in entries
    /\ attempts' = [attempts EXCEPT ![s] = @ + 1]
    /\ Moves(s, "assigning")
    /\ UNCHANGED <<settings, requests, rows, entries, result, tells, writes, ended, unsettled,
                   verdict, stored, shown, lost, faults>>

\* assignToJudge's first statement; the submission is marked as being processed.
AssignToJudge(s) ==
    /\ stage[s] = "free" /\ s \in entries
    /\ attempts[s] < MaxAttempts
    /\ attempts' = [attempts EXCEPT ![s] = @ + 1]
    /\ Moves(s, "assigning")
    /\ UNCHANGED <<settings, requests, rows, entries, result, tells, writes, ended, unsettled,
                   verdict, stored, shown, lost, faults>>

\* Its second statement; processQueue sends the submission.  Where that fails it
\* calls failSubmission itself, and tells nobody.
MarkRunning(s) ==
    /\ stage[s] = "assigning"
    /\ verdict' = [verdict EXCEPT ![s] = "RN"]
    /\ \/ Moves(s, "judging") /\ UNCHANGED tells
       \/ Moves(s, "finding") /\ tells' = [tells EXCEPT ![s] = FALSE]
    /\ UNCHANGED <<settings, requests, rows, entries, attempts, result, writes, ended,
                   unsettled, stored, shown, lost, faults>>

\* begin-grading: an update that the packets after it do not wait for.
HandleBeginGrading(s) ==
    /\ stage[s] = "judging"
    /\ Issues(s, "RN", TRUE)
    /\ UNCHANGED <<settings, requests, rows, entries, attempts, stage, result, tells, ended,
                   unsettled, verdict, stored, shown, lost, faults>>

\* grading-end, aborted, compile-error: up to the first statement of completeSubmission.
HandleGradingEnd(s) ==
    /\ stage[s] = "judging"
    /\ Moves(s, "completing")
    /\ result' = [result EXCEPT ![s] = "AC"]
    /\ tells' = [tells EXCEPT ![s] = TRUE]
    /\ UNCHANGED <<settings, requests, rows, entries, attempts, writes, ended, unsettled,
                   verdict, stored, shown, lost, faults>>

\* internal-error: failSubmission asks for the row of the queue.
HandleInternalError(s) ==
    /\ stage[s] = "judging"
    /\ Moves(s, "finding")
    /\ tells' = [tells EXCEPT ![s] = TRUE]
    /\ UNCHANGED <<settings, requests, rows, entries, attempts, result, writes, ended,
                   unsettled, verdict, stored, shown, lost, faults>>

\* Out of attempts, failSubmission completes with ISE; otherwise it lets go of the
\* submission, and then resets the verdict.  (The row is there: QueuedOnce.)
FailSubmission(s) ==
    /\ stage[s] = "finding"
    /\ \/ /\ attempts[s] >= MaxAttempts
          /\ Moves(s, "completing")
          /\ result' = [result EXCEPT ![s] = "ISE"] /\ UNCHANGED writes
       \/ /\ attempts[s] < MaxAttempts
          /\ Moves(s, "free")
          /\ Issues(s, "QU", tells[s]) /\ UNCHANGED result
    /\ UNCHANGED <<settings, requests, rows, entries, attempts, tells, ended, unsettled,
                   verdict, stored, shown, lost, faults>>

\* Such an update is executed, and its handler says RN or, after QU, ISE.
VerdictLands(w) ==
    /\ writes' = writes \ {w}
    /\ verdict' = [verdict EXCEPT ![w.sub] = w.verdict]
    /\ shown' = [shown EXCEPT ![w.sub] =
                     IF ~w.tells THEN @ ELSE IF w.verdict = "RN" THEN "RN" ELSE "ISE"]
    /\ UNCHANGED <<settings, requests, rows, entries, attempts, stage, result, tells, ended,
                   unsettled, stored, lost, faults>>

\* Mutated form of WriteVerdict: it lets go of the submission before the row is deleted.
WriteVerdictFreeing(s) ==
    /\ stage[s] = "completing"
    /\ verdict' = [verdict EXCEPT ![s] = result[s]]
    /\ ended' = ended \cup {s}
    /\ unsettled' = IF pc[s] = "marking" \/ IsPending(s) THEN unsettled \cup {s} ELSE unsettled \ {s}
    /\ Moves(s, "free")
    /\ UNCHANGED <<settings, requests, rows, entries, attempts, result, tells, writes,
                   stored, shown, lost, faults>>

\* completeSubmission's update ...
WriteVerdict(s) ==
    /\ stage[s] = "completing"
    /\ verdict' = [verdict EXCEPT ![s] = result[s]]
    /\ ended' = ended \cup {s}
    /\ unsettled' = IF pc[s] = "marking" \/ IsPending(s) THEN unsettled \cup {s} ELSE unsettled \ {s}
    /\ Moves(s, "deleting")
    /\ UNCHANGED <<settings, requests, rows, entries, attempts, result, tells, writes,
                   stored, shown, lost, faults>>

\* ... and its delete; the handler tells the result.
DeleteEntry(s) ==
    /\ stage[s] = "deleting"
    /\ entries' = entries \ {s}
    /\ Moves(s, "done")
    /\ shown' = [shown EXCEPT ![s] = IF tells[s] THEN result[s] ELSE @]
    /\ UNCHANGED <<settings, requests, rows, attempts, result, tells, writes, ended, unsettled,
                   verdict, stored, lost, faults>>

\* A statement of the judging fails: nothing lets go of the submission any more.
JudgingFails(s) ==
    /\ stage[s] \in {"assigning", "finding", "completing", "deleting"}
    /\ dbFailures < MaxDbFailures
    /\ dbFailures' = dbFailures + 1
    /\ Moves(s, "stuck")
    /\ unsettled' = IF stage[s] = "deleting" THEN unsettled \cup {s} ELSE unsettled
    /\ UNCHANGED <<settings, requests, rows, entries, attempts, result, tells, writes, ended,
                   verdict, stored, shown, lost, restarts>>

WriteFails(w) ==
    /\ dbFailures < MaxDbFailures
    /\ dbFailures' = dbFailures + 1
    /\ writes' = writes \ {w}
    /\ UNCHANGED <<settings, requests, rows, entries, attempts, stage, result, tells, ended,
                   unsettled, verdict, stored, shown, lost, restarts>>

\* The server restarts: requests are cut off without an answer, judges let go.
Restart ==
    /\ restarts < MaxRestarts
    /\ restarts' = restarts + 1
    /\ pc' = [s \in Submissions |-> IF s \in InFlight THEN "done" ELSE pc[s]]
    /\ stage' = [s \in Submissions |-> IF stage[s] = "done" THEN "done" ELSE "free"]
    /\ writes' = {}
    /\ unsettled' = unsettled \cup {s \in Submissions : stage[s] = "deleting"}
    /\ UNCHANGED <<settings, kind, answer, rows, entries, attempts, result, tells, ended,
                   verdict, stored, shown, lost, dbFailures>>

-------------------------------------------------------------------------------

Next ==
    \/ ChangeProblem
    \/ \E s \in Submissions :
          \/ ReceiveRequest(s) \/ FindProblem(s) \/ CreateSubmission(s)
          \/ DownloadFile(s) \/ UploadFile(s) \/ CreateEntry(s) \/ MarkQueued(s)
          \/ StatementFails(s)
          \/ AssignToJudge(s) \/ MarkRunning(s) \/ HandleBeginGrading(s)
          \/ HandleGradingEnd(s) \/ HandleInternalError(s) \/ FailSubmission(s)
          \/ WriteVerdict(s) \/ DeleteEntry(s) \/ JudgingFails(s)
    \/ \E w \in writes : VerdictLands(w) \/ WriteFails(w)
    \/ Restart

Spec == Init /\ [][Next]_vars

-------------------------------------------------------------------------------
\* A submission whose creation was answered with success is queued or was judged,
\* whatever fails and whenever the server restarts.
AcceptedIsKept ==
    \A s \in Submissions : answer[s] = "created" => s \in entries \cup ended

(***************************************************************************)
(* What is accepted is kept, and no row is stranded (it says QU, and no    *)
(* queue holds it) unless a statement failed or the server restarted: a    *)
(* file that cannot be fetched or stored does not strand it.               *)
(***************************************************************************)
NothingStranded ==
    /\ AcceptedIsKept
    /\ dbFailures = 0 /\ restarts = 0 => rows \subseteq entries \cup ended \cup InFlight

\* Without that condition: the rows of a request that failed have no way back.
NothingEverStranded == rows \subseteq entries \cup ended \cup InFlight

(***************************************************************************)
(* A judge that gets a submission made of a file finds the file, unless it *)
(* could not be fetched or stored.                                         *)
(***************************************************************************)
FilePrecedesJudging ==
    \A s \in Submissions :
        /\ stage[s] = "judging" \/ s \in ended
        /\ kind[s] # "code" /\ storage
        => s \in stored \cup lost

(***************************************************************************)
(* Code is accepted for a problem that is locked or deleted only if it     *)
(* became so while the request was under way.                              *)
(***************************************************************************)
RefusalsAreCurrent ==
    [][\A s \in rows' \ rows : kind[s] = "code" /\ problem # "open" => s \in changed]_vars

(***************************************************************************)
(* A result stands: once it is written, what the attempts before, their    *)
(* retries and their events left behind changes it no more, its row in the *)
(* queue goes and, if its handler tells of results, it is what browsers    *)
(* were told last.  Unsettled are the results that were written while      *)
(* another write of the verdict was under way (addToQueue's QU, the RN of  *)
(* begin-grading or the QU of a retry) and those whose row in the queue    *)
(* stayed because its deletion failed or a restart came before it.         *)
(***************************************************************************)
ResultsStand ==
    \A s \in ended \ unsettled :
        /\ verdict[s] = result[s]
        /\ \/ stage[s] = "deleting"
           \/ stage[s] = "done" /\ s \notin entries /\ (tells[s] => shown[s] = result[s])

\* Without that condition: a result is never undone.
ResultsAlwaysStand == \A s \in ended : verdict[s] = result[s]

\* What is judged to the end is not judged again.
EndedIsNotJudgedAgain == \A s \in ended : stage[s] \notin {"assigning", "judging"}

\* Every result that stands was told.
ResultsAreTold ==
    \A s \in ended \ unsettled : stage[s] = "done" => shown[s] = result[s]

\* "either retry or mark as ISE": ISE is shown only if it is the verdict.
ShownErrorIsFinal ==
    \A s \in Submissions : shown[s] = "ISE" => verdict[s] = "ISE"

\* A request answered with an error leaves nothing to be judged.
ErrorMeansNotQueued ==
    \A s \in Submissions : answer[s] = "error" => s \notin entries \cup ended

(***************************************************************************)
(* Why these hold: a request queues its submission once, after its row and *)
(* its file; only what has a row in the queue is in a judge's or handler's *)
(* hands; and nothing is under way for a result that is settled.           *)
(***************************************************************************)
QueuedOnce ==
    \A s \in Submissions :
        /\ pc[s] \in {"idle", "finding", "creating"} => s \notin rows
        /\ pc[s] \in {"downloading", "uploading", "queueing", "marking"} => s \in rows
        /\ pc[s] \in (UnderWay \ {"marking"}) \cup {"idle"} => s \notin entries \cup ended
        /\ pc[s] = "marking" => s \in entries \cup ended
        /\ stage[s] \in Working => s \in entries
        /\ stage[s] \in {"deleting", "done"} => s \in ended
        /\ stage[s] \in {"completing", "deleting", "done"} => result[s] \in Finals

SettledInv ==
    /\ \A s \in ended \ unsettled : pc[s] # "marking" /\ ~IsPending(s)
    /\ ResultsStand

FileInv ==
    \A s \in Submissions :
        /\ pc[s] = "queueing" \/ s \in entries \cup ended
        /\ kind[s] # "code" /\ storage
        => s \in stored \cup lost

CheckedInv ==
    \A s \in Submissions :
        pc[s] = "creating" /\ kind[s] = "code" /\ problem # "open" => s \in changed

IntakeInv == TypeOK /\ QueuedOnce /\ FileInv /\ CheckedInv /\ NothingStranded /\ SettledInv

===============================================================================
