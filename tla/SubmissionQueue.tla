--------------------------- MODULE SubmissionQueue ---------------------------
(***************************************************************************)
(* The submission queue and the handlers that drain it:                    *)
(* SubmissionQueueService, and of JudgeManagerService processQueue and the *)
(* handlers of the packets that end a judging.                             *)
(*                                                                         *)
(* The server is one JavaScript thread.  A task runs without interruption  *)
(* from one `await' to the next, so an action is: the database executes    *)
(* the statement a task waits for, and the task continues up to its next   *)
(* `await'.  The one statement whose answer can grow stale before it is    *)
(* used, the search for the next submission, takes three actions: the list *)
(* of excluded submissions is copied (RunStarts), the database searches    *)
(* (RunQueries), the answer is used (RunChooses).  A write nobody waits    *)
(* for before doing something that matters is left in `writes' and lands   *)
(* whenever the database gets to it.                                       *)
(*                                                                         *)
(* A run of processQueue is started by the scheduler every five seconds    *)
(* whether or not the last one has finished, so several can be in flight;  *)
(* Runs bounds how many.                                                   *)
(***************************************************************************)
EXTENDS RoundRobin

CONSTANTS
    Submissions,    \* the submissions that may be made
    NoSubmission,   \* null
    Judges,         \* judge names, numbered in alphabetical order
    Runs,           \* runs of processQueue that can be in flight at once
    FinalVerdicts,  \* verdicts a judge's last packet can lead to
    MaxFaults       \* how often each kind of fault may strike

\* "db": a statement fails; "drop": some connection of a judge closes (or closes
\* while its handshake is under way); "restart": the server is restarted.
FaultKinds == {"db", "drop", "restart"}

ASSUME QueueAssumption ==
    /\ IsFiniteSet(Submissions) /\ NoSubmission \notin Submissions
    /\ IsFiniteSet(Judges) /\ Judges \subseteq Nat \ {0}
    /\ IsFiniteSet(Runs)
    /\ FinalVerdicts \cap {"QU", "RN"} = {}
    /\ MaxFaults \in [FaultKinds -> Nat]

MaxAttempts == 3   \* the literal of getNextSubmission and the schema's default
NoJudge == 0

Verdicts == {"QU", "RN", "ISE"} \cup FinalVerdicts

RunStates == [pc : {"idle", "querying", "found", "assigning", "marking"},
              excluded : SUBSET Submissions,
              sub : Submissions \cup {NoSubmission},
              judge : Judges \cup {NoJudge}]
IdleRun == [pc |-> "idle", excluded |-> {}, sub |-> NoSubmission, judge |-> NoJudge]

\* A submission-request a judge has not finished; begun is whether it has
\* reported begin-grading.
Requests == [sub : Submissions, judge : Judges, begun : BOOLEAN]

\* completeSubmission before its update ("complete") and before its delete
\* ("delete"); failSubmission before its lookup ("fail").
Handlers == [pc : {"complete", "delete", "fail"}, sub : Submissions,
             judge : Judges, verdict : Verdicts]

\* Verdict updates under way, by what issued them.
Writes == [sub : Submissions, verdict : {"QU", "RN"}, by : {"enqueue", "begin", "retry"}]

VARIABLES
    \* The database: queue rows and, per submission, what its rows hold.
    entries,       \* submissions that have a row in SubmissionQueue
    createdAt,     \* when the row was created, as a rank; 0 if it never was
    attempts,      \* the row's attempts
    verdict,       \* the submission's verdict
    ended,         \* whether the submission's judgingEndedAt is set
    \* SubmissionQueueService's memory.
    busyJudges, processingSubmissions, lastUsedJudgeIndex,
    \* The tasks of the server.
    run,           \* the runs of processQueue
    handlers,      \* calls of completeSubmission and failSubmission
    writes,        \* verdict updates under way
    \* The judges, as the bridge shows them.
    link,          \* "down", "up", or "ghost": registered without a socket
    requests,      \* submission-requests judges are working on
    faults         \* how often each kind of fault has struck

database == <<entries, createdAt, attempts, verdict, ended>>
memory == <<busyJudges, processingSubmissions, lastUsedJudgeIndex>>
tasks == <<run, handlers, writes>>
judges == <<link, requests>>
vars == <<database, memory, tasks, judges, faults>>

TypeOK ==
    /\ entries \subseteq Submissions
    /\ createdAt \in [Submissions -> Nat]
    /\ attempts \in [Submissions -> Nat]
    /\ verdict \in [Submissions -> Verdicts]
    /\ ended \in [Submissions -> BOOLEAN]
    /\ busyJudges \subseteq Judges
    /\ processingSubmissions \subseteq Submissions
    /\ lastUsedJudgeIndex \in Nat
    /\ run \in [Runs -> RunStates]
    /\ \A r \in Runs : /\ run[r].pc \in {"found", "assigning", "marking"} => run[r].sub \in Submissions
                       /\ IF run[r].pc \in {"assigning", "marking"}
                          THEN run[r].judge \in Judges ELSE run[r].judge = NoJudge
    /\ handlers \subseteq Handlers
    /\ writes \subseteq Writes
    /\ link \in [Judges -> {"down", "up", "ghost"}]
    /\ requests \subseteq Requests
    /\ faults \in [FaultKinds -> Nat]

Init ==
    /\ entries = {}
    /\ createdAt = [s \in Submissions |-> 0]
    /\ attempts = [s \in Submissions |-> 0]
    /\ verdict = [s \in Submissions |-> "QU"]
    /\ ended = [s \in Submissions |-> FALSE]
    /\ busyJudges = {} /\ processingSubmissions = {} /\ lastUsedJudgeIndex = 0
    /\ run = [r \in Runs |-> IdleRun]
    /\ handlers = {} /\ writes = {}
    /\ link = [j \in Judges |-> "down"]
    /\ requests = {}
    /\ faults = [k \in FaultKinds |-> 0]

Strikes(kind) ==
    /\ faults[kind] < MaxFaults[kind]
    /\ faults' = [faults EXCEPT ![kind] = @ + 1]

-------------------------------------------------------------------------------
(* addToQueue: the row is there at once, the verdict QU when its update lands. *)

Enqueue(s) ==
    /\ createdAt[s] = 0
    /\ entries' = entries \cup {s}
    /\ createdAt' = [createdAt EXCEPT ![s] =
                        Cardinality({t \in Submissions : createdAt[t] # 0}) + 1]
    /\ writes' = writes \cup {[sub |-> s, verdict |-> "QU", by |-> "enqueue"]}
    /\ UNCHANGED <<attempts, verdict, ended, memory, run, handlers, judges, faults>>

-------------------------------------------------------------------------------
(* processQueue, one step per await. *)

\* The scheduler fires: getNextSubmission copies processingSubmissions and asks.
RunStarts(r) ==
    /\ run[r].pc = "idle"
    /\ run' = [run EXCEPT ![r] = [IdleRun EXCEPT !.pc = "querying",
                                                 !.excluded = processingSubmissions]]
    /\ UNCHANGED <<database, memory, handlers, writes, judges, faults>>

\* Mutated forms of Eligible: one attempt too many; the exclusion forgotten.
EligibleOnceMore(excluded) == {s \in entries : attempts[s] <= MaxAttempts /\ s \notin excluded}
EligibleIgnoringMemory(excluded) == {s \in entries : attempts[s] < MaxAttempts}

\* What findFirst may return to a query that excludes these submissions.
Eligible(excluded) == {s \in entries : attempts[s] < MaxAttempts /\ s \notin excluded}

\* The database answers: the oldest eligible row, or none.
RunQueries(r) ==
    /\ run[r].pc = "querying"
    /\ \/ /\ Eligible(run[r].excluded) = {}
          /\ run' = [run EXCEPT ![r] = IdleRun]
       \/ \E s \in Eligible(run[r].excluded) :
             /\ \A t \in Eligible(run[r].excluded) : createdAt[s] <= createdAt[t]
             /\ run' = [run EXCEPT ![r] = [IdleRun EXCEPT !.pc = "found", !.sub = s]]
    /\ UNCHANGED <<database, memory, handlers, writes, judges, faults>>

AvailableJudges == {j \in Judges : link[j] # "down" /\ j \notin busyJudges}

\* Mutated form of RunChooses: `if (!availableJudgeName) return' is missing.
RunChoosesUnchecked(r) ==
    /\ run[r].pc = "found"
    /\ AvailableJudges = {}
    /\ run' = [run EXCEPT ![r] = [@ EXCEPT !.pc = "assigning"]]
    /\ UNCHANGED <<database, memory, handlers, writes, judges, faults>>

\* The answer is used: a judge is selected and claimed, its attempt requested.
RunChooses(r) ==
    /\ run[r].pc = "found"
    /\ \/ /\ AvailableJudges = {}
          /\ run' = [run EXCEPT ![r] = IdleRun]
          /\ UNCHANGED <<busyJudges, lastUsedJudgeIndex>>
       \/ \E j \in AvailableJudges :
             /\ IsSelected(j, AvailableJudges, lastUsedJudgeIndex)
             /\ lastUsedJudgeIndex' = IndexAfter(AvailableJudges, lastUsedJudgeIndex)
             /\ busyJudges' = busyJudges \cup {j}
             /\ run' = [run EXCEPT ![r] = [@ EXCEPT !.pc = "assigning", !.judge = j]]
    /\ UNCHANGED <<database, processingSubmissions, handlers, writes, judges, faults>>

\* The attempt is counted and the submission marked; if its row is gone the
\* update throws and the judge is given back.
RunMarks(r) ==
    /\ run[r].pc = "assigning"
    /\ \/ /\ run[r].sub \in entries
          /\ attempts' = [attempts EXCEPT ![run[r].sub] = @ + 1]
          /\ processingSubmissions' = processingSubmissions \cup {run[r].sub}
          /\ run' = [run EXCEPT ![r] = [@ EXCEPT !.pc = "marking"]]
          /\ UNCHANGED busyJudges
       \/ /\ run[r].sub \notin entries
          /\ busyJudges' = busyJudges \ {run[r].judge}
          /\ run' = [run EXCEPT ![r] = IdleRun]
          /\ UNCHANGED <<attempts, processingSubmissions>>
    /\ UNCHANGED <<entries, createdAt, verdict, ended, lastUsedJudgeIndex,
                   handlers, writes, judges, faults>>

\* The verdict is RN; the request is sent, or failSubmission is called.
RunSends(r) ==
    /\ run[r].pc = "marking"
    /\ verdict' = [verdict EXCEPT ![run[r].sub] = "RN"]
    /\ \/ /\ link[run[r].judge] = "up"
          /\ requests' = requests \cup
                {[sub |-> run[r].sub, judge |-> run[r].judge, begun |-> FALSE]}
          /\ UNCHANGED handlers
       \/ /\ link[run[r].judge] # "up"
          /\ handlers' = handlers \cup {[pc |-> "fail", sub |-> run[r].sub,
                                         judge |-> run[r].judge, verdict |-> "ISE"]}
          /\ UNCHANGED requests
    /\ run' = [run EXCEPT ![r] = IdleRun]
    /\ UNCHANGED <<entries, createdAt, attempts, ended, memory, writes, link, faults>>

\* Mutated form of RunDbFails: the judge is not given back.
RunDbFailsKeepingJudge(r) ==
    /\ run[r].pc \in {"querying", "assigning", "marking"}
    /\ Strikes("db")
    /\ run' = [run EXCEPT ![r] = IdleRun]
    /\ UNCHANGED <<database, memory, handlers, writes, judges>>

\* A statement of the run fails.  assignToJudge gives the judge back; a
\* submission it had marked stays marked.
RunDbFails(r) ==
    /\ run[r].pc \in {"querying", "assigning", "marking"}
    /\ Strikes("db")
    /\ busyJudges' = busyJudges \ {run[r].judge}
    /\ run' = [run EXCEPT ![r] = IdleRun]
    /\ UNCHANGED <<database, processingSubmissions, lastUsedJudgeIndex,
                   handlers, writes, judges>>

-------------------------------------------------------------------------------
(* The judges: outside the repository, as the bridge's callers see them.   *)

Links == INSTANCE JudgeLinks

JudgeConnects(j) ==
    /\ Links!Appears(j)
    /\ UNCHANGED <<database, memory, tasks, requests, faults>>

\* The connection that works closes, listed or not; nothing tells the queue,
\* and the work is lost.
JudgeDrops(j) ==
    /\ Strikes("drop")
    /\ \/ Links!Vanishes(j)
       \/ link[j] = "down" /\ UNCHANGED link /\ \E q \in requests : q.judge = j
    /\ requests' = {q \in requests : q.judge # j}
    /\ UNCHANGED <<database, memory, tasks>>

\* Another connection of that name closes: the judge is listed no more, and
\* goes on working.
JudgeIsHidden(j) ==
    /\ Strikes("drop")
    /\ Links!Vanishes(j)
    /\ UNCHANGED <<database, memory, tasks, requests>>

\* The connection closes inside the handshake: the name is listed all the same.
JudgeDropsInHandshake(j) ==
    /\ Strikes("drop")
    /\ Links!Haunts(j)
    /\ UNCHANGED <<database, memory, tasks, requests>>

\* begin-grading arrives: its update to RN is under way.
BeginGrading(q) ==
    /\ ~q.begun
    /\ requests' = (requests \ {q}) \cup {[q EXCEPT !.begun = TRUE]}
    /\ writes' = writes \cup {[sub |-> q.sub, verdict |-> "RN", by |-> "begin"]}
    /\ UNCHANGED <<database, memory, run, handlers, link, faults>>

\* Mutated form of JudgeFinishes: the row is deleted and no verdict written.
JudgeFinishesDeleting(q, v) ==
    /\ requests' = requests \ {q}
    /\ handlers' = handlers \cup {[pc |-> "delete", sub |-> q.sub,
                                   judge |-> q.judge, verdict |-> v]}
    /\ UNCHANGED <<database, memory, run, writes, link, faults>>

\* grading-end, compile-error or submission-aborted arrives.
JudgeFinishes(q, v) ==
    /\ requests' = requests \ {q}
    /\ handlers' = handlers \cup {[pc |-> "complete", sub |-> q.sub,
                                   judge |-> q.judge, verdict |-> v]}
    /\ UNCHANGED <<database, memory, run, writes, link, faults>>

\* internal-error arrives.
JudgeReportsError(q) ==
    /\ requests' = requests \ {q}
    /\ handlers' = handlers \cup {[pc |-> "fail", sub |-> q.sub,
                                   judge |-> q.judge, verdict |-> "ISE"]}
    /\ UNCHANGED <<database, memory, run, writes, link, faults>>

-------------------------------------------------------------------------------
(* completeSubmission and failSubmission. *)

\* Mutated forms of Release: one of the two sets is forgotten.
ReleaseJudgeOnly(h) ==
    busyJudges' = busyJudges \ {h.judge} /\ UNCHANGED <<processingSubmissions, lastUsedJudgeIndex>>
ReleaseSubmissionOnly(h) ==
    processingSubmissions' = processingSubmissions \ {h.sub} /\ UNCHANGED <<busyJudges, lastUsedJudgeIndex>>

\* The memory that says h.judge works on h.sub is cleared.
Release(h) ==
    /\ busyJudges' = busyJudges \ {h.judge}
    /\ processingSubmissions' = processingSubmissions \ {h.sub}
    /\ UNCHANGED lastUsedJudgeIndex

\* Mutated form of WriteVerdict: the judge is freed before the row is deleted.
WriteVerdictReleasing(h) ==
    /\ h.pc = "complete"
    /\ verdict' = [verdict EXCEPT ![h.sub] = h.verdict]
    /\ ended' = [ended EXCEPT ![h.sub] = TRUE]
    /\ handlers' = (handlers \ {h}) \cup {[h EXCEPT !.pc = "delete"]}
    /\ Release(h)
    /\ UNCHANGED <<entries, createdAt, attempts, run, writes, judges, faults>>

\* completeSubmission's update has been executed; its delete is next.
WriteVerdict(h) ==
    /\ h.pc = "complete"
    /\ verdict' = [verdict EXCEPT ![h.sub] = h.verdict]
    /\ ended' = [ended EXCEPT ![h.sub] = TRUE]
    /\ handlers' = (handlers \ {h}) \cup {[h EXCEPT !.pc = "delete"]}
    /\ UNCHANGED <<entries, createdAt, attempts, memory, run, writes, judges, faults>>

\* The row is deleted and the judge freed; if it is gone the delete throws
\* and the judge is not freed.
DeleteEntry(h) ==
    /\ h.pc = "delete"
    /\ handlers' = handlers \ {h}
    /\ \/ /\ h.sub \in entries
          /\ entries' = entries \ {h.sub}
          /\ Release(h)
       \/ /\ h.sub \notin entries
          /\ UNCHANGED <<entries, memory>>
    /\ UNCHANGED <<createdAt, attempts, verdict, ended, run, writes, judges, faults>>

\* Mutated form of OutOfAttempts: off by one.
OutOfAttemptsTooLate(s) == attempts[s] > MaxAttempts
OutOfAttempts(s) == attempts[s] >= MaxAttempts

\* failSubmission has its row: none left, out of attempts, or try again.
LookUpFailed(h) ==
    /\ h.pc = "fail"
    /\ \/ /\ h.sub \notin entries
          /\ Release(h)
          /\ handlers' = handlers \ {h}
          /\ UNCHANGED writes
       \/ /\ h.sub \in entries /\ OutOfAttempts(h.sub)
          /\ handlers' = (handlers \ {h}) \cup {[h EXCEPT !.pc = "complete"]}
          /\ UNCHANGED <<memory, writes>>
       \/ /\ h.sub \in entries /\ ~OutOfAttempts(h.sub)
          /\ Release(h)
          /\ handlers' = handlers \ {h}
          /\ writes' = writes \cup {[sub |-> h.sub, verdict |-> "QU", by |-> "retry"]}
    /\ UNCHANGED <<database, run, judges, faults>>

\* A statement of the handler fails: it throws, and nothing is freed.
HandlerDbFails(h) ==
    /\ Strikes("db")
    /\ handlers' = handlers \ {h}
    /\ UNCHANGED <<database, memory, run, writes, judges>>

\* A verdict update under way lands, or fails.
WriteLands(w) ==
    /\ verdict' = [verdict EXCEPT ![w.sub] = w.verdict]
    /\ writes' = writes \ {w}
    /\ UNCHANGED <<entries, createdAt, attempts, ended, memory, run, handlers, judges, faults>>

WriteDbFails(w) ==
    /\ Strikes("db")
    /\ writes' = writes \ {w}
    /\ UNCHANGED <<database, memory, run, handlers, judges>>

\* The server restarts: its memory, tasks and sockets are gone.
Restart ==
    /\ Strikes("restart")
    /\ busyJudges' = {} /\ processingSubmissions' = {} /\ lastUsedJudgeIndex' = 0
    /\ run' = [r \in Runs |-> IdleRun]
    /\ handlers' = {} /\ writes' = {}
    /\ Links!VanishAll
    /\ requests' = {}
    /\ UNCHANGED database

-------------------------------------------------------------------------------

RunSteps(r) ==
    RunStarts(r) \/ RunQueries(r) \/ RunChooses(r) \/ RunMarks(r) \/ RunSends(r)

HandlerSteps(h) == WriteVerdict(h) \/ DeleteEntry(h) \/ LookUpFailed(h)

JudgeLosses(j) == JudgeDrops(j) \/ JudgeIsHidden(j) \/ JudgeDropsInHandshake(j)

JudgeEnds(q) == JudgeReportsError(q) \/ \E v \in FinalVerdicts : JudgeFinishes(q, v)

Next ==
    \/ \E s \in Submissions : Enqueue(s)
    \/ \E r \in Runs : RunSteps(r) \/ RunDbFails(r)
    \/ \E j \in Judges : JudgeConnects(j) \/ JudgeLosses(j)
    \/ \E q \in requests : BeginGrading(q) \/ JudgeEnds(q)
    \/ \E h \in handlers : HandlerSteps(h) \/ HandlerDbFails(h)
    \/ \E w \in writes : WriteLands(w) \/ WriteDbFails(w)
    \/ Restart

Spec == Init /\ [][Next]_vars

\* The scheduler fires for ever, the database answers, a judge that is offered
\* by its operators connects and finishes what it was sent.
Fairness ==
    /\ \A r \in Runs : WF_vars(RunSteps(r))
    /\ \A j \in Judges : WF_vars(JudgeConnects(j))
    /\ \A j \in Judges : WF_vars(\E q \in requests : q.judge = j /\ JudgeEnds(q))
    /\ \A j \in Judges : WF_vars(\E h \in handlers : h.judge = j /\ HandlerSteps(h))

FairSpec == Spec /\ Fairness

-------------------------------------------------------------------------------
(* Who has a claim on a judge or on a submission. *)

RunClaims(r) == run[r].pc \in {"assigning", "marking"}

JudgeIsClaimed(j) ==
    \/ \E r \in Runs : RunClaims(r) /\ run[r].judge = j
    \/ \E q \in requests : q.judge = j
    \/ \E h \in handlers : h.judge = j

SubmissionIsClaimed(s) ==
    \/ \E r \in Runs : run[r].pc = "marking" /\ run[r].sub = s
    \/ \E q \in requests : q.sub = s
    \/ \E h \in handlers : h.sub = s

(***************************************************************************)
(* A judge is never sent a second submission while it works on one: the    *)
(* promise of busyJudges, whatever runs overlap and whatever fails.        *)
(***************************************************************************)
JudgeExclusive ==
    \A p, q \in requests : p.judge = q.judge => p = q

(***************************************************************************)
(* What makes that so: at most one of {a run that selected the judge, a    *)
(* request the judge works on, a handler that will free it} exists, and as *)
(* long as one does the judge is in busyJudges.                            *)
(***************************************************************************)
ClaimsAreBusy ==
    \A j \in Judges : JudgeIsClaimed(j) => j \in busyJudges

OneClaimPerJudge ==
    /\ \A r1, r2 \in Runs :
          RunClaims(r1) /\ RunClaims(r2) /\ run[r1].judge = run[r2].judge => r1 = r2
    /\ \A r \in Runs, q \in requests : RunClaims(r) => run[r].judge # q.judge
    /\ \A r \in Runs, h \in handlers : RunClaims(r) => run[r].judge # h.judge
    /\ \A q \in requests, h \in handlers : q.judge # h.judge
    /\ \A g, h \in handlers : g.judge = h.judge => g = h

ClaimInv == JudgeExclusive /\ OneClaimPerJudge /\ ClaimsAreBusy

(***************************************************************************)
(* No accepted submission is lost: once its row was created, a submission  *)
(* has a row or a verdict that was written with judgingEndedAt, across     *)
(* failing statements and restarts.                                        *)
(***************************************************************************)
NoSubmissionLost ==
    \A s \in Submissions : createdAt[s] # 0 => s \in entries \/ ended[s]

DeletesFollowVerdicts == \A h \in handlers : h.pc = "delete" => ended[h.sub]

KeepInv == NoSubmissionLost /\ DeletesFollowVerdicts

(***************************************************************************)
(* The guard attempts < 3 is read before the attempt is counted, so        *)
(* overlapping runs overshoot it, but by no more than the runs there are.  *)
(***************************************************************************)
AttemptsBounded ==
    \A s \in Submissions : attempts[s] <= MaxAttempts - 1 + Cardinality(Runs)

\* The literal limit ("max attempts"), which overlapping runs exceed.
AttemptsWithinMax == \A s \in Submissions : attempts[s] <= MaxAttempts

\* The runs that have passed the guard for s and not counted their attempt yet.
AboutToCount(s) ==
    {r \in Runs : run[r].pc \in {"found", "assigning"} /\ run[r].sub = s}

AttemptInv ==
    \A s \in Submissions :
        attempts[s] + Cardinality(AboutToCount(s)) <= MaxAttempts - 1 + Cardinality(Runs)

(***************************************************************************)
(* A submission is with one judge at a time ("to avoid duplicate           *)
(* processing"), if runs do not overlap.                                   *)
(***************************************************************************)
SubmissionExclusive ==
    \A p, q \in requests : p.sub = q.sub => p = q

(***************************************************************************)
(* What makes that so: at most one of {the run that marked it, a request,  *)
(* a handler} holds a submission, which is then in processingSubmissions;  *)
(* and what a run is about to take nobody holds.                           *)
(***************************************************************************)
OneClaimPerSubmission ==
    /\ SubmissionExclusive
    /\ \A g, h \in handlers : g.sub = h.sub => g = h
    /\ \A q \in requests, h \in handlers : q.sub # h.sub
    /\ \A r \in Runs : run[r].pc = "marking" =>
          /\ \A q \in requests : q.sub # run[r].sub
          /\ \A h \in handlers : h.sub # run[r].sub

ClaimedIsProcessing ==
    \A s \in Submissions : SubmissionIsClaimed(s) => s \in processingSubmissions

RunTakesFreeSubmission ==
    \A r \in Runs :
        /\ run[r].pc = "querying" => processingSubmissions \subseteq run[r].excluded
        /\ run[r].pc \in {"found", "assigning"} => run[r].sub \notin processingSubmissions
        /\ run[r].pc \in {"found", "assigning", "marking"} => run[r].sub \in entries

SerialInv == OneClaimPerSubmission /\ ClaimedIsProcessing /\ RunTakesFreeSubmission

(***************************************************************************)
(* Without overlap the queue, its processor, its handlers and the judges   *)
(* do what Judging says, whatever fails: a submission is queued as long as *)
(* it has a row, judged once its row is gone and its result is stored, and *)
(* the judge that works on it is the one that has its request.  A row that *)
(* goes without a result, a second judge for one submission, a second      *)
(* submission for one judge or a request for what has left the queue would *)
(* each be a step that Judging does not have.                              *)
(***************************************************************************)
PhaseOf(s) ==
    IF createdAt[s] = 0 THEN "unknown"
    ELSE IF s \in entries THEN "queued"
    ELSE IF ended[s] THEN "judged" ELSE "lost"

WorkerIn(R, s) ==
    IF \E q \in R : q.sub = s THEN (CHOOSE q \in R : q.sub = s).judge ELSE NoJudge

AbstractJudging == INSTANCE Judging WITH
    phase <- [s \in Submissions |-> PhaseOf(s)],
    worker <- [s \in Submissions |-> WorkerIn(requests, s)]

JudgingIsImplemented == AbstractJudging!Spec

(***************************************************************************)
(* A submission whose judging ended and whose row is gone is not sent to a *)
(* judge again, if runs do not overlap.                                    *)
(***************************************************************************)
SentOnlyWhileQueued ==
    [][\A q \in requests' \ requests : ~q.begun => q.sub \in entries]_vars

(***************************************************************************)
(* "Free up judge (remove from busy set)": a completion whose statements   *)
(* succeed leaves its judge free.                                          *)
(***************************************************************************)
CompletionFreesJudge ==
    [][\A h \in handlers : h.pc = "delete" /\ DeleteEntry(h) => h.judge \notin busyJudges']_vars

(***************************************************************************)
(* "Track judges currently processing submissions": memory says that a     *)
(* judge is busy, or a submission with a judge, only while a run, a judge  *)
(* or a handler is in charge of it.                                        *)
(***************************************************************************)
BusyMeansWorking == \A j \in busyJudges : JudgeIsClaimed(j)
ProcessingMeansWorking == \A s \in processingSubmissions : SubmissionIsClaimed(s)

(***************************************************************************)
(* What is marked with nobody in charge is never released.  A judge gets   *)
(* stuck like that in three ways only: its connection closes while it      *)
(* works, or a handler throws, because a statement fails or because an     *)
(* overlapping run let the row be deleted twice.  A submission has one way *)
(* more: the second statement of assignToJudge fails.  That one, a send    *)
(* that finds no connection, an attempt whose row is gone and a restart    *)
(* all give the judge back, however many runs overlap.                     *)
(***************************************************************************)
JudgeIsStuck(j) == j \in busyJudges /\ ~JudgeIsClaimed(j)
SubmissionIsStuck(s) == s \in processingSubmissions /\ ~SubmissionIsClaimed(s)

HandlerThrows(h) == HandlerDbFails(h) \/ (DeleteEntry(h) /\ h.sub \notin entries)

StuckForACause ==
    [][/\ \A j \in Judges : JudgeIsStuck(j)' /\ ~JudgeIsStuck(j) =>
             \/ JudgeDrops(j)
             \/ \E h \in handlers : h.judge = j /\ HandlerThrows(h)
       /\ \A s \in Submissions : SubmissionIsStuck(s)' /\ ~SubmissionIsStuck(s) =>
             \/ \E q \in requests : q.sub = s /\ JudgeDrops(q.judge)
             \/ \E h \in handlers : h.sub = s /\ HandlerThrows(h)
             \/ \E r \in Runs : RunDbFails(r) /\ run[r].pc = "marking" /\ run[r].sub = s]_vars

(***************************************************************************)
(* A row out of attempts, which no query finds again, has somebody in      *)
(* charge that will mark the submission as failed, as long as nothing      *)
(* fails ("Max attempts reached, mark as failed").                         *)
(***************************************************************************)
ExhaustedIsInCharge ==
    \A s \in entries : attempts[s] >= MaxAttempts => SubmissionIsClaimed(s)

ExhaustedIsInChargeWithoutFaults ==
    (\A k \in FaultKinds : faults[k] = 0) => ExhaustedIsInCharge

(***************************************************************************)
(* Why these hold.  Without overlap nobody has a claim on a submission     *)
(* whose row is gone, so that no completion finds its row deleted; and a   *)
(* row is new when it is queued, its attempts counted while it is there.   *)
(***************************************************************************)
ClaimedAreQueued ==
    \A s \in Submissions : SubmissionIsClaimed(s) => s \in entries

AttemptsFollowQueueing ==
    \A s \in Submissions :
        /\ s \in entries => createdAt[s] # 0
        /\ createdAt[s] = 0 => attempts[s] = 0

ChargeInv == AttemptsFollowQueueing /\ ExhaustedIsInChargeWithoutFaults

(***************************************************************************)
(* Every submission in the queue is judged, when runs do not overlap and   *)
(* nothing fails for good.                                                 *)
(***************************************************************************)
EveryEntryIsJudged ==
    \A s \in Submissions : s \in entries ~> s \notin entries /\ ended[s]

(***************************************************************************)
(* "RN // Running" (the schema): a submission shows RN only while it is    *)
(* still queued or with a judge.                                           *)
(***************************************************************************)
RunningMeansQueued ==
    \A s \in Submissions : verdict[s] = "RN" => s \in entries

===============================================================================
