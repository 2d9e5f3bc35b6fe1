------------------------ MODULE SubmissionQueueProofs ------------------------
(***************************************************************************)
(* Theorems about SubmissionQueue, for any numbers of submissions, judges, *)
(* overlapping runs and faults, and that without overlap it implements     *)
(* Judging.                                                                *)
(***************************************************************************)
EXTENDS SubmissionQueue, FiniteSetTheorems, TLAPS

-------------------------------------------------------------------------------
(* Type correctness. *)

LEMMA RankIsNat ==
    ASSUME NEW s \in Submissions
    PROVE  Cardinality({t \in Submissions : createdAt[t] # 0}) + 1 \in Nat \ {0}
  <1>1. IsFiniteSet({t \in Submissions : createdAt[t] # 0})
    BY FS_Subset, QueueAssumption
  <1> QED
    BY <1>1, FS_CardinalityType

LEMMA CreatedRanks ==
    ASSUME TypeOK, NEW s \in Submissions, Enqueue(s)
    PROVE  createdAt'[s] # 0 /\ \A t \in Submissions \ {s} : createdAt'[t] = createdAt[t]
  BY RankIsNat DEF Enqueue, TypeOK

\* The index of the next selection is a natural number: the list is not empty.
LEMMA IndexIsNat ==
    ASSUME NEW available \in SUBSET Judges, available # {}, NEW lastUsed \in Nat
    PROVE  IndexAfter(available, lastUsed) \in Nat
  <1>1. IsFiniteSet(available)
    BY FS_Subset, QueueAssumption
  <1>2. Cardinality(available) \in Nat /\ Cardinality(available) # 0
    BY <1>1, FS_CardinalityType, FS_EmptySet
  <1> QED
    BY <1>2 DEF IndexAfter, IndexInto

LEMMA TypeOKInit == Init => TypeOK
  BY QueueAssumption DEF Init, TypeOK, RunStates, IdleRun, Verdicts, FaultKinds, NoJudge

LEMMA IdleIsState == IdleRun \in RunStates
  BY DEF IdleRun, RunStates, NoJudge

LEMMA TypeOKNext ==
    ASSUME TypeOK, [Next]_vars
    PROVE  TypeOK'
  <1> USE DEF TypeOK, FaultKinds
  <1>1. ASSUME NEW s \in Submissions, Enqueue(s) PROVE TypeOK'
    <2>1. createdAt' \in [Submissions -> Nat]
      BY <1>1, RankIsNat DEF Enqueue
    <2>2. writes' \subseteq Writes
      BY <1>1 DEF Enqueue, Writes
    <2> QED
      BY <1>1, <2>1, <2>2 DEF Enqueue, memory, judges
  <1>2. ASSUME NEW r \in Runs, RunStarts(r) PROVE TypeOK'
    BY <1>2 DEF RunStarts, RunStates, IdleRun, NoJudge, database, memory, judges
  <1>3. ASSUME NEW r \in Runs, RunQueries(r) PROVE TypeOK'
    <2>1. CASE run' = [run EXCEPT ![r] = IdleRun]
      BY <1>3, <2>1, IdleIsState DEF RunQueries, IdleRun, database, memory, judges
    <2>2. ASSUME NEW s \in Submissions,
                 run' = [run EXCEPT ![r] = [IdleRun EXCEPT !.pc = "found", !.sub = s]]
          PROVE  TypeOK'
      <3>1. [IdleRun EXCEPT !.pc = "found", !.sub = s] \in RunStates
        BY DEF IdleRun, RunStates, NoJudge
      <3>2. run' \in [Runs -> RunStates]
        BY <2>2, <3>1
      <3> QED
        BY <1>3, <2>2, <3>2 DEF RunQueries, IdleRun, database, memory, judges
    <2> QED
      BY <1>3, <2>1, <2>2 DEF RunQueries, Eligible
  <1>4. ASSUME NEW r \in Runs, RunChooses(r) PROVE TypeOK'
    <2>1. CASE AvailableJudges = {} /\ run' = [run EXCEPT ![r] = IdleRun]
               /\ UNCHANGED <<busyJudges, lastUsedJudgeIndex>>
      BY <1>4, <2>1 DEF RunChooses, RunStates, IdleRun, NoJudge, database, judges
    <2>2. ASSUME NEW j \in AvailableJudges,
                 lastUsedJudgeIndex' = IndexAfter(AvailableJudges, lastUsedJudgeIndex),
                 busyJudges' = busyJudges \cup {j},
                 run' = [run EXCEPT ![r] = [@ EXCEPT !.pc = "assigning", !.judge = j]]
          PROVE  TypeOK'
      <3>1. lastUsedJudgeIndex' \in Nat
        BY <2>2, IndexIsNat DEF AvailableJudges
      <3>2. run' \in [Runs -> RunStates]
        <4>1. [run[r] EXCEPT !.pc = "assigning", !.judge = j] \in RunStates
          BY DEF RunStates, AvailableJudges
        <4> QED
          BY <2>2, <4>1
      <3>3. /\ run'[r].pc = "assigning" /\ run'[r].judge = j /\ run'[r].sub = run[r].sub
            /\ \A i \in Runs \ {r} : run'[i] = run[i]
        BY <2>2 DEF RunStates
      <3> QED
        BY <1>4, <2>2, <3>1, <3>2, <3>3 DEF RunChooses, AvailableJudges, database, judges
    <2> QED
      BY <1>4, <2>1, <2>2 DEF RunChooses
  <1>5. ASSUME NEW r \in Runs, RunMarks(r) PROVE TypeOK'
    BY <1>5 DEF RunMarks, RunStates, IdleRun, NoJudge, judges
  <1>6. ASSUME NEW r \in Runs, RunSends(r) PROVE TypeOK'
    <2>1. run' \in [Runs -> RunStates] /\ \A i \in Runs : run'[i] = run[i] \/ run'[i] = IdleRun
      BY <1>6, IdleIsState DEF RunSends
    <2>2. requests' \subseteq Requests /\ handlers' \subseteq Handlers
      <3>1. run[r].sub \in Submissions /\ run[r].judge \in Judges
        BY <1>6 DEF RunSends
      <3>2. [sub |-> run[r].sub, judge |-> run[r].judge, begun |-> FALSE] \in Requests
        BY <3>1 DEF Requests
      <3>3. [pc |-> "fail", sub |-> run[r].sub, judge |-> run[r].judge, verdict |-> "ISE"] \in Handlers
        BY <3>1 DEF Handlers, Verdicts
      <3> QED
        BY <1>6, <3>2, <3>3 DEF RunSends
    <2> QED
      BY <1>6, <2>1, <2>2 DEF RunSends, Verdicts, IdleRun, memory
  <1>7. ASSUME NEW r \in Runs, RunDbFails(r) PROVE TypeOK'
    <2>1. run' \in [Runs -> RunStates] /\ \A i \in Runs : run'[i] = run[i] \/ run'[i] = IdleRun
      BY <1>7, IdleIsState DEF RunDbFails
    <2> QED
      BY <1>7, <2>1 DEF RunDbFails, Strikes, IdleRun, database, judges
  <1>8. ASSUME NEW j \in Judges,
               JudgeConnects(j) \/ JudgeLosses(j)
        PROVE  TypeOK'
    BY <1>8 DEF JudgeConnects, JudgeLosses, JudgeDrops, JudgeIsHidden, JudgeDropsInHandshake,
                Links!Appears, Links!Vanishes, Links!Haunts, Strikes, database, memory, tasks
  <1>9. ASSUME NEW q \in requests, BeginGrading(q) PROVE TypeOK'
    <2>1. [q EXCEPT !.begun = TRUE] \in Requests /\ q.sub \in Submissions
      BY DEF Requests
    <2>2. [sub |-> q.sub, verdict |-> "RN", by |-> "begin"] \in Writes
      BY <2>1 DEF Writes
    <2> QED
      BY <1>9, <2>1, <2>2 DEF BeginGrading, database, memory
  <1>10. ASSUME NEW q \in requests, JudgeEnds(q) PROVE TypeOK'
    BY <1>10 DEF JudgeEnds, JudgeFinishes, JudgeReportsError, Requests, Handlers,
                 Verdicts, database, memory
  <1>11. ASSUME NEW h \in handlers, HandlerSteps(h) PROVE TypeOK'
    <2>1. h.sub \in Submissions /\ h.verdict \in Verdicts
      BY DEF Handlers
    <2>2. CASE WriteVerdict(h)
      <3>1. [h EXCEPT !.pc = "delete"] \in Handlers
        BY DEF Handlers
      <3> QED
        BY <2>1, <2>2, <3>1 DEF WriteVerdict, memory, judges
    <2>3. CASE DeleteEntry(h)
      BY <2>3 DEF DeleteEntry, Release, memory, judges
    <2>4. CASE LookUpFailed(h)
      <3>1. [h EXCEPT !.pc = "complete"] \in Handlers
        BY DEF Handlers
      <3>2. [sub |-> h.sub, verdict |-> "QU", by |-> "retry"] \in Writes
        BY <2>1 DEF Writes
      <3> QED
        BY <2>4, <3>1, <3>2 DEF LookUpFailed, Release, database, memory, judges
    <2> QED
      BY <1>11, <2>2, <2>3, <2>4 DEF HandlerSteps
  <1>12. ASSUME NEW h \in handlers, HandlerDbFails(h) PROVE TypeOK'
    BY <1>12 DEF HandlerDbFails, Strikes, database, memory, judges
  <1>13. ASSUME NEW w \in writes, WriteLands(w) \/ WriteDbFails(w) PROVE TypeOK'
    BY <1>13 DEF WriteLands, WriteDbFails, Strikes, Writes, Verdicts, database, memory, judges
  <1>14. CASE Restart
    BY <1>14, IdleIsState DEF Restart, Links!VanishAll, Strikes, IdleRun, database
  <1>15. CASE UNCHANGED vars
    BY <1>15 DEF vars, database, memory, tasks, judges
  <1> QED
    BY <1>1, <1>2, <1>3, <1>4, <1>5, <1>6, <1>7, <1>8, <1>9, <1>10, <1>11, <1>12,
       <1>13, <1>14, <1>15 DEF Next, RunSteps

(***************************************************************************)
(* Every variable keeps its type: in particular a run that has selected a  *)
(* judge holds one, and the round-robin index stays a number.              *)
(***************************************************************************)
THEOREM TypeCorrect == Spec => []TypeOK
  BY TypeOKInit, TypeOKNext, PTL DEF Spec

-------------------------------------------------------------------------------
(* A judge works on one submission at a time. *)

LEMMA ClaimInvInit == Init => ClaimInv
  BY DEF Init, ClaimInv, JudgeExclusive, OneClaimPerJudge, ClaimsAreBusy,
         JudgeIsClaimed, RunClaims, IdleRun

\* A step that adds no claim and frees no judge keeps the invariant.
LEMMA ClaimInvKept ==
    ASSUME TypeOK, ClaimInv,
           \A r \in Runs : RunClaims(r)' => RunClaims(r) /\ run'[r].judge = run[r].judge,
           requests' \subseteq requests, handlers' \subseteq handlers,
           busyJudges' = busyJudges
    PROVE  ClaimInv'
  BY DEF ClaimInv, JudgeExclusive, OneClaimPerJudge, ClaimsAreBusy, JudgeIsClaimed

LEMMA ClaimInvNext ==
    ASSUME TypeOK, ClaimInv, [Next]_vars
    PROVE  ClaimInv'
  <1> USE DEF RunClaims
  <1>1. ASSUME NEW s \in Submissions, Enqueue(s) PROVE ClaimInv'
    BY <1>1, ClaimInvKept DEF Enqueue, memory, judges
  <1>2. ASSUME NEW r \in Runs, RunStarts(r) \/ RunQueries(r) PROVE ClaimInv'
    <2>1. \A i \in Runs : RunClaims(i)' => RunClaims(i) /\ run'[i] = run[i]
      <3>1. CASE RunStarts(r)
        BY <3>1 DEF RunStarts, TypeOK, IdleRun
      <3>2. CASE RunQueries(r)
        <4>1. ASSUME NEW x, run' = [run EXCEPT ![r] = x], x.pc \in {"idle", "found"}
              PROVE  \A i \in Runs : RunClaims(i)' => RunClaims(i) /\ run'[i] = run[i]
          BY <4>1 DEF TypeOK
        <4>2. /\ IdleRun.pc = "idle"
              /\ \A s \in Submissions : [IdleRun EXCEPT !.pc = "found", !.sub = s].pc = "found"
          BY DEF IdleRun
        <4> QED
          BY <3>2, <4>1, <4>2 DEF RunQueries, Eligible, TypeOK
      <3> QED
        BY <1>2, <3>1, <3>2
    <2> QED
      BY <1>2, <2>1, ClaimInvKept DEF RunStarts, RunQueries, memory, judges
  <1>3. ASSUME NEW r \in Runs, RunChooses(r) PROVE ClaimInv'
    <2>1. CASE AvailableJudges = {} /\ run' = [run EXCEPT ![r] = IdleRun]
               /\ UNCHANGED <<busyJudges, lastUsedJudgeIndex>>
      BY <1>3, <2>1, ClaimInvKept DEF RunChooses, TypeOK, IdleRun, judges
    <2>2. ASSUME NEW j \in AvailableJudges,
                 busyJudges' = busyJudges \cup {j},
                 run' = [run EXCEPT ![r] = [@ EXCEPT !.pc = "assigning", !.judge = j]]
          PROVE  ClaimInv'
      <3>1. run'[r].judge = j /\ RunClaims(r)' /\ \A i \in Runs \ {r} : run'[i] = run[i]
        BY <2>2 DEF TypeOK, RunStates
      <3>2. ~JudgeIsClaimed(j)
        BY DEF AvailableJudges, ClaimInv, ClaimsAreBusy
      <3>3. requests' = requests /\ handlers' = handlers
        BY <1>3 DEF RunChooses, judges
      <3> QED
        BY <2>2, <3>1, <3>2, <3>3
           DEF ClaimInv, JudgeExclusive, OneClaimPerJudge, ClaimsAreBusy, JudgeIsClaimed
    <2> QED
      BY <1>3, <2>1, <2>2 DEF RunChooses
  <1>4. ASSUME NEW r \in Runs, RunMarks(r) PROVE ClaimInv'
    <2>1. CASE run[r].sub \in entries
      <3>1. run'[r].judge = run[r].judge /\ \A i \in Runs \ {r} : run'[i] = run[i]
        BY <1>4, <2>1 DEF RunMarks, TypeOK, RunStates
      <3>2. RunClaims(r) /\ busyJudges' = busyJudges
        BY <1>4, <2>1 DEF RunMarks
      <3> QED
        BY <1>4, <3>1, <3>2, ClaimInvKept DEF RunMarks, judges
    <2>2. CASE run[r].sub \notin entries
      <3>1. ~RunClaims(r)' /\ \A i \in Runs \ {r} : run'[i] = run[i]
        BY <1>4, <2>2 DEF RunMarks, TypeOK, IdleRun
      <3>2. RunClaims(r) /\ busyJudges' = busyJudges \ {run[r].judge}
            /\ requests' = requests /\ handlers' = handlers
        BY <1>4, <2>2 DEF RunMarks, judges
      <3> QED
        BY <3>1, <3>2
           DEF ClaimInv, JudgeExclusive, OneClaimPerJudge, ClaimsAreBusy, JudgeIsClaimed
    <2> QED
      BY <2>1, <2>2
  <1>5. ASSUME NEW r \in Runs, RunSends(r) PROVE ClaimInv'
    <2>1. /\ RunClaims(r) /\ run[r].judge \in Judges
          /\ ~RunClaims(r)' /\ \A i \in Runs \ {r} : run'[i] = run[i]
          /\ busyJudges' = busyJudges
      BY <1>5 DEF RunSends, TypeOK, IdleRun, memory
    <2>2. ASSUME NEW q \in Requests, q.judge = run[r].judge,
                 requests' = requests \cup {q}, handlers' = handlers
          PROVE  ClaimInv'
      BY <2>1, <2>2
         DEF ClaimInv, JudgeExclusive, OneClaimPerJudge, ClaimsAreBusy, JudgeIsClaimed
    <2>3. ASSUME NEW h \in Handlers, h.judge = run[r].judge,
                 handlers' = handlers \cup {h}, requests' = requests
          PROVE  ClaimInv'
      BY <2>1, <2>3
         DEF ClaimInv, JudgeExclusive, OneClaimPerJudge, ClaimsAreBusy, JudgeIsClaimed
    <2>4. run[r].sub \in Submissions
      BY <1>5 DEF RunSends, TypeOK
    <2>5. [sub |-> run[r].sub, judge |-> run[r].judge, begun |-> FALSE] \in Requests
      BY <2>1, <2>4 DEF Requests
    <2>6. [pc |-> "fail", sub |-> run[r].sub, judge |-> run[r].judge, verdict |-> "ISE"] \in Handlers
      BY <2>1, <2>4 DEF Handlers, Verdicts
    <2> QED
      BY <1>5, <2>2, <2>3, <2>5, <2>6 DEF RunSends
  <1>6. ASSUME NEW r \in Runs, RunDbFails(r) PROVE ClaimInv'
    <2>1. /\ ~RunClaims(r)' /\ \A i \in Runs \ {r} : run'[i] = run[i]
          /\ busyJudges' = busyJudges \ {run[r].judge}
          /\ requests' = requests /\ handlers' = handlers
      BY <1>6 DEF RunDbFails, TypeOK, IdleRun, judges
    <2>2. CASE RunClaims(r)
      BY <2>1, <2>2
         DEF ClaimInv, JudgeExclusive, OneClaimPerJudge, ClaimsAreBusy, JudgeIsClaimed
    <2>3. CASE ~RunClaims(r)
      <3>1. busyJudges' = busyJudges
        BY <2>1, <2>3, QueueAssumption DEF TypeOK, NoJudge
      <3> QED
        BY <2>1, <3>1, ClaimInvKept
    <2> QED
      BY <2>2, <2>3
  <1>7. ASSUME NEW j \in Judges,
               JudgeConnects(j) \/ JudgeLosses(j)
        PROVE  ClaimInv'
    BY <1>7, ClaimInvKept DEF JudgeConnects, JudgeLosses, JudgeDrops, JudgeIsHidden,
                                JudgeDropsInHandshake, memory, tasks
  <1>8. ASSUME NEW q \in requests, BeginGrading(q) \/ JudgeEnds(q) PROVE ClaimInv'
    <2>1. run' = run /\ busyJudges' = busyJudges /\ q.judge \in Judges
      BY <1>8 DEF BeginGrading, JudgeEnds, JudgeFinishes, JudgeReportsError, TypeOK,
                  Requests, memory
    <2>2. ASSUME NEW p \in Requests, p.judge = q.judge,
                 requests' = (requests \ {q}) \cup {p}, handlers' = handlers
          PROVE  ClaimInv'
      BY <2>1, <2>2
         DEF ClaimInv, JudgeExclusive, OneClaimPerJudge, ClaimsAreBusy, JudgeIsClaimed
    <2>3. ASSUME NEW h, h.judge = q.judge,
                 requests' = requests \ {q}, handlers' = handlers \cup {h}
          PROVE  ClaimInv'
      BY <2>1, <2>3
         DEF ClaimInv, JudgeExclusive, OneClaimPerJudge, ClaimsAreBusy, JudgeIsClaimed
    <2>4. [q EXCEPT !.begun = TRUE] \in Requests /\ [q EXCEPT !.begun = TRUE].judge = q.judge
      BY DEF TypeOK, Requests
    <2>5. CASE BeginGrading(q)
      BY <2>2, <2>4, <2>5 DEF BeginGrading
    <2>6. CASE JudgeEnds(q)
      BY <2>3, <2>6 DEF JudgeEnds, JudgeFinishes, JudgeReportsError
    <2> QED
      BY <1>8, <2>5, <2>6
  <1>9. ASSUME NEW h \in handlers, HandlerSteps(h) PROVE ClaimInv'
    <2>1. run' = run /\ requests' = requests
      BY <1>9 DEF HandlerSteps, WriteVerdict, DeleteEntry, LookUpFailed, judges
    <2>2. ASSUME NEW g \in Handlers, g.judge = h.judge,
                 handlers' = (handlers \ {h}) \cup {g}, busyJudges' = busyJudges
          PROVE  ClaimInv'
      BY <2>1, <2>2
         DEF ClaimInv, JudgeExclusive, OneClaimPerJudge, ClaimsAreBusy, JudgeIsClaimed
    <2>3. ASSUME handlers' = handlers \ {h},
                 busyJudges' \in {busyJudges, busyJudges \ {h.judge}}
          PROVE  ClaimInv'
      BY <2>1, <2>3
         DEF ClaimInv, JudgeExclusive, OneClaimPerJudge, ClaimsAreBusy, JudgeIsClaimed
    <2>4. \A pc \in {"complete", "delete"} :
             [h EXCEPT !.pc = pc] \in Handlers /\ [h EXCEPT !.pc = pc].judge = h.judge
      BY DEF TypeOK, Handlers
    <2>5. CASE WriteVerdict(h)
      BY <2>2, <2>4, <2>5 DEF WriteVerdict, memory
    <2>6. CASE DeleteEntry(h)
      BY <2>3, <2>6 DEF DeleteEntry, Release, memory
    <2>7. CASE LookUpFailed(h)
      BY <2>2, <2>3, <2>4, <2>7 DEF LookUpFailed, Release, memory
    <2> QED
      BY <1>9, <2>5, <2>6, <2>7 DEF HandlerSteps
  <1>10. ASSUME NEW h \in handlers, HandlerDbFails(h) PROVE ClaimInv'
    BY <1>10, ClaimInvKept DEF HandlerDbFails, memory, judges
  <1>11. ASSUME NEW w \in writes, WriteLands(w) \/ WriteDbFails(w) PROVE ClaimInv'
    BY <1>11, ClaimInvKept DEF WriteLands, WriteDbFails, memory, judges
  <1>12. CASE Restart
    BY <1>12 DEF Restart, IdleRun, ClaimInv, JudgeExclusive, OneClaimPerJudge,
                 ClaimsAreBusy, JudgeIsClaimed
  <1>13. CASE UNCHANGED vars
    BY <1>13, ClaimInvKept DEF vars, memory, tasks, judges
  <1> QED
    BY <1>1, <1>2, <1>3, <1>4, <1>5, <1>6, <1>7, <1>8, <1>9, <1>10, <1>11, <1>12,
       <1>13 DEF Next, RunSteps

(***************************************************************************)
(* busyJudges does its work however many runs of processQueue overlap and  *)
(* whatever statements, connections and restarts fail: a judge is never    *)
(* sent a submission while it works on another, and it is busy as long as  *)
(* a run, a request or a handler is its claim.                             *)
(***************************************************************************)
THEOREM ClaimsHold == Spec => []ClaimInv
  <1>1. TypeOK /\ ClaimInv /\ [Next]_vars => ClaimInv'
    BY ClaimInvNext
  <1> QED
    BY <1>1, ClaimInvInit, TypeCorrect, PTL DEF Spec

\* The part of it that a judge can observe.
THEOREM JudgesAreExclusive == Spec => []JudgeExclusive
  BY ClaimsHold, PTL DEF ClaimInv

-------------------------------------------------------------------------------
(* No submission is lost. *)

LEMMA KeepInvInit == Init => KeepInv
  BY DEF Init, KeepInv, NoSubmissionLost, DeletesFollowVerdicts

LEMMA KeepInvNext ==
    ASSUME TypeOK, KeepInv, [Next]_vars
    PROVE  KeepInv'
  <1> USE DEF KeepInv, NoSubmissionLost, DeletesFollowVerdicts
  <1>1. ASSUME NEW s \in Submissions, Enqueue(s) PROVE KeepInv'
    BY <1>1 DEF Enqueue, TypeOK
  <1>2. ASSUME NEW r \in Runs, RunSteps(r) \/ RunDbFails(r) PROVE KeepInv'
    <2>1. entries' = entries /\ createdAt' = createdAt /\ ended' = ended
      BY <1>2 DEF RunSteps, RunStarts, RunQueries, RunChooses, RunMarks, RunSends,
                  RunDbFails, database
    <2>2. \A h \in handlers' : h \in handlers \/ h.pc = "fail"
      <3>1. CASE RunSends(r)
        BY <3>1 DEF RunSends
      <3>2. CASE ~RunSends(r)
        BY <1>2, <3>2 DEF RunSteps, RunStarts, RunQueries, RunChooses, RunMarks, RunDbFails
      <3> QED
        BY <3>1, <3>2
    <2> QED
      BY <2>1, <2>2
  <1>3. ASSUME NEW j \in Judges,
               JudgeConnects(j) \/ JudgeLosses(j)
        PROVE  KeepInv'
    BY <1>3 DEF JudgeConnects, JudgeLosses, JudgeDrops, JudgeIsHidden,
                JudgeDropsInHandshake, database, tasks
  <1>4. ASSUME NEW q \in requests, BeginGrading(q) \/ JudgeEnds(q) PROVE KeepInv'
    BY <1>4 DEF BeginGrading, JudgeEnds, JudgeFinishes, JudgeReportsError, database
  <1>5. ASSUME NEW h \in handlers, WriteVerdict(h) PROVE KeepInv'
    <2>1. h.sub \in Submissions
      BY DEF TypeOK, Handlers
    <2>2. [h EXCEPT !.pc = "delete"].sub = h.sub
      BY DEF TypeOK, Handlers
    <2>3. \A s \in Submissions : ended[s] => ended'[s]
      BY <1>5 DEF WriteVerdict, TypeOK
    <2>4. ended'[h.sub]
      BY <1>5, <2>1 DEF WriteVerdict, TypeOK
    <2>5. \A g \in handlers : g.sub \in Submissions
      BY DEF TypeOK, Handlers
    <2> QED
      BY <1>5, <2>2, <2>3, <2>4, <2>5 DEF WriteVerdict
  <1>6. ASSUME NEW h \in handlers, DeleteEntry(h) PROVE KeepInv'
    BY <1>6 DEF DeleteEntry
  <1>7. ASSUME NEW h \in handlers, LookUpFailed(h) PROVE KeepInv'
    <2>1. [h EXCEPT !.pc = "complete"].pc = "complete"
      BY DEF TypeOK, Handlers
    <2> QED
      BY <1>7, <2>1 DEF LookUpFailed, database
  <1>8. ASSUME NEW h \in handlers, HandlerDbFails(h) PROVE KeepInv'
    BY <1>8 DEF HandlerDbFails, database
  <1>9. ASSUME NEW w \in writes, WriteLands(w) \/ WriteDbFails(w) PROVE KeepInv'
    BY <1>9 DEF WriteLands, WriteDbFails, database
  <1>10. CASE Restart
    BY <1>10 DEF Restart, database
  <1>11. CASE UNCHANGED vars
    BY <1>11 DEF vars, database, tasks
  <1> QED
    BY <1>1, <1>2, <1>3, <1>4, <1>5, <1>6, <1>7, <1>8, <1>9, <1>10, <1>11
       DEF Next, HandlerSteps

(***************************************************************************)
(* A submission that was accepted into the queue keeps its row until a     *)
(* verdict and judgingEndedAt have been written, whatever fails and        *)
(* wherever the server restarts.                                           *)
(***************************************************************************)
THEOREM NothingIsLost == Spec => []NoSubmissionLost
  <1>1. TypeOK /\ KeepInv /\ [Next]_vars => KeepInv'
    BY KeepInvNext
  <1>2. KeepInv => NoSubmissionLost
    BY DEF KeepInv
  <1> QED
    BY <1>1, <1>2, KeepInvInit, TypeCorrect, PTL DEF Spec

-------------------------------------------------------------------------------
(* Attempts are bounded. *)

LEMMA CountIsNat ==
    ASSUME NEW R \in SUBSET Runs
    PROVE  /\ IsFiniteSet(R) /\ Cardinality(R) \in Nat
           /\ Cardinality(R) <= Cardinality(Runs) /\ Cardinality(Runs) \in Nat
  BY FS_Subset, FS_CardinalityType, QueueAssumption

LEMMA AttemptInvInit == Init => AttemptInv
  <1> SUFFICES ASSUME Init, NEW s \in Submissions
               PROVE  attempts[s] + Cardinality(AboutToCount(s))
                        <= MaxAttempts - 1 + Cardinality(Runs)
    BY DEF AttemptInv
  <1>1. AboutToCount(s) = {}
    BY DEF Init, AboutToCount, IdleRun
  <1>2. Cardinality(AboutToCount(s)) = 0
    BY <1>1, FS_EmptySet
  <1> QED
    BY <1>2, CountIsNat DEF Init, MaxAttempts

\* A step that lets no run pass the guard and counts no attempt keeps the bound.
LEMMA AttemptInvKept ==
    ASSUME TypeOK, AttemptInv, attempts' = attempts,
           \A r \in Runs : run'[r].pc \in {"found", "assigning"} =>
              run[r].pc \in {"found", "assigning"} /\ run'[r].sub = run[r].sub
    PROVE  AttemptInv'
  <1> SUFFICES ASSUME NEW s \in Submissions
               PROVE  attempts'[s] + Cardinality(AboutToCount(s)')
                        <= MaxAttempts - 1 + Cardinality(Runs)
    BY DEF AttemptInv
  <1>1. AboutToCount(s)' \subseteq AboutToCount(s) /\ AboutToCount(s) \subseteq Runs
    BY DEF AboutToCount
  <1>2. /\ Cardinality(AboutToCount(s)') <= Cardinality(AboutToCount(s))
        /\ Cardinality(AboutToCount(s)') \in Nat /\ Cardinality(AboutToCount(s)) \in Nat
    BY <1>1, CountIsNat, FS_Subset
  <1>3. attempts[s] \in Nat
    BY DEF TypeOK
  <1> QED
    BY <1>2, <1>3, CountIsNat DEF AttemptInv, MaxAttempts

LEMMA AttemptInvQueries ==
    ASSUME TypeOK, AttemptInv, NEW r \in Runs, RunQueries(r)
    PROVE  AttemptInv'
  <1>1. ASSUME NEW s \in Eligible(run[r].excluded),
               run' = [run EXCEPT ![r] = [IdleRun EXCEPT !.pc = "found", !.sub = s]]
        PROVE  AttemptInv'
    <2> SUFFICES ASSUME NEW t \in Submissions
                 PROVE  attempts'[t] + Cardinality(AboutToCount(t)')
                          <= MaxAttempts - 1 + Cardinality(Runs)
      BY DEF AttemptInv
    <2>1. attempts' = attempts /\ attempts[t] \in Nat
      BY DEF RunQueries, TypeOK, database
    <2>2. AboutToCount(t) \subseteq Runs /\ AboutToCount(t)' \subseteq Runs
      BY DEF AboutToCount
    <2>3. CASE t = s
      <3>1. attempts[t] < MaxAttempts
        BY <2>3 DEF Eligible
      <3> QED
        BY <2>1, <2>2, <3>1, CountIsNat DEF MaxAttempts
    <2>4. CASE t # s
      <3>1. [IdleRun EXCEPT !.pc = "found", !.sub = s].sub = s
        BY DEF IdleRun
      <3>2. AboutToCount(t)' \subseteq AboutToCount(t)
        BY <1>1, <2>4, <3>1 DEF AboutToCount, TypeOK
      <3>3. Cardinality(AboutToCount(t)') <= Cardinality(AboutToCount(t))
        BY <2>2, <3>2, CountIsNat, FS_Subset
      <3> QED
        BY <2>1, <2>2, <3>3, CountIsNat DEF AttemptInv, MaxAttempts
    <2> QED
      BY <2>3, <2>4
  <1>2. CASE run' = [run EXCEPT ![r] = IdleRun]
    BY <1>2, AttemptInvKept DEF RunQueries, TypeOK, IdleRun, database
  <1> QED
    BY <1>1, <1>2 DEF RunQueries

LEMMA AttemptInvMarks ==
    ASSUME TypeOK, AttemptInv, NEW r \in Runs, RunMarks(r)
    PROVE  AttemptInv'
  <1>1. CASE run[r].sub \in entries
    <2> SUFFICES ASSUME NEW s \in Submissions
                 PROVE  attempts'[s] + Cardinality(AboutToCount(s)')
                          <= MaxAttempts - 1 + Cardinality(Runs)
      BY DEF AttemptInv
    <2>1. AboutToCount(s) \subseteq Runs /\ attempts[s] \in Nat
      BY DEF AboutToCount, TypeOK
    <2>2. AboutToCount(s)' = AboutToCount(s) \ {r}
      <3>1. run'[r].pc = "marking" /\ \A i \in Runs \ {r} : run'[i] = run[i]
        BY <1>1 DEF RunMarks, TypeOK, RunStates
      <3> QED
        BY <3>1 DEF AboutToCount
    <2>3. CASE s = run[r].sub
      <3>1. r \in AboutToCount(s)
        BY <2>3 DEF AboutToCount, RunMarks
      <3>2. Cardinality(AboutToCount(s)') = Cardinality(AboutToCount(s)) - 1
        BY <2>1, <2>2, <3>1, CountIsNat, FS_RemoveElement
      <3>3. attempts'[s] = attempts[s] + 1
        BY <1>1, <2>3 DEF RunMarks, TypeOK
      <3> QED
        BY <2>1, <3>2, <3>3, CountIsNat DEF AttemptInv, MaxAttempts
    <2>4. CASE s # run[r].sub
      <3>1. AboutToCount(s)' = AboutToCount(s)
        BY <2>2, <2>4 DEF AboutToCount
      <3>2. attempts'[s] = attempts[s]
        BY <1>1, <2>4 DEF RunMarks, TypeOK
      <3> QED
        BY <3>1, <3>2 DEF AttemptInv
    <2> QED
      BY <2>3, <2>4
  <1>2. CASE run[r].sub \notin entries
    BY <1>2, AttemptInvKept DEF RunMarks, TypeOK, IdleRun
  <1> QED
    BY <1>1, <1>2

LEMMA AttemptInvNext ==
    ASSUME TypeOK, AttemptInv, [Next]_vars
    PROVE  AttemptInv'
  <1>1. CASE UNCHANGED <<attempts, run>>
    BY <1>1, AttemptInvKept
  <1>2. ASSUME NEW r \in Runs, RunStarts(r) \/ RunSends(r) \/ RunDbFails(r)
        PROVE  AttemptInv'
    <2>1. attempts' = attempts
      BY <1>2 DEF RunStarts, RunSends, RunDbFails, database
    <2>2. \A i \in Runs : run'[i] = run[i] \/ run'[i].pc \in {"idle", "querying"}
      <3>1. CASE RunStarts(r)
        <4>1. [IdleRun EXCEPT !.pc = "querying",
                              !.excluded = processingSubmissions].pc = "querying"
          BY DEF IdleRun
        <4> QED
          BY <3>1, <4>1 DEF RunStarts, TypeOK
      <3>2. CASE RunSends(r) \/ RunDbFails(r)
        BY <3>2 DEF RunSends, RunDbFails, TypeOK, IdleRun
      <3> QED
        BY <1>2, <3>1, <3>2
    <2> QED
      BY <2>1, <2>2, AttemptInvKept
  <1>3. ASSUME NEW r \in Runs, RunChooses(r) PROVE AttemptInv'
    <2>1. attempts' = attempts
      BY <1>3 DEF RunChooses, database
    <2>2. CASE run' = [run EXCEPT ![r] = IdleRun]
      BY <2>1, <2>2, AttemptInvKept DEF TypeOK, IdleRun
    <2>3. ASSUME NEW j \in AvailableJudges,
                 run' = [run EXCEPT ![r] = [@ EXCEPT !.pc = "assigning", !.judge = j]]
          PROVE  AttemptInv'
      <3>1. run'[r].sub = run[r].sub /\ \A i \in Runs \ {r} : run'[i] = run[i]
        BY <2>3 DEF TypeOK, RunStates
      <3>2. run[r].pc = "found"
        BY <1>3 DEF RunChooses
      <3> QED
        BY <2>1, <3>1, <3>2, AttemptInvKept
    <2> QED
      BY <1>3, <2>2, <2>3 DEF RunChooses
  <1>4. CASE Restart
    BY <1>4, AttemptInvKept DEF Restart, IdleRun, database
  <1>5. ASSUME NEW s \in Submissions, Enqueue(s) PROVE AttemptInv'
    BY <1>1, <1>5 DEF Enqueue
  <1>6. ASSUME NEW j \in Judges,
               JudgeConnects(j) \/ JudgeLosses(j)
        PROVE  AttemptInv'
    BY <1>1, <1>6 DEF JudgeConnects, JudgeLosses, JudgeDrops, JudgeIsHidden,
                      JudgeDropsInHandshake, database, tasks
  <1>7. ASSUME NEW q \in requests, BeginGrading(q) \/ JudgeEnds(q) PROVE AttemptInv'
    BY <1>1, <1>7 DEF BeginGrading, JudgeEnds, JudgeFinishes, JudgeReportsError, database
  <1>8. ASSUME NEW h \in handlers, HandlerSteps(h) \/ HandlerDbFails(h) PROVE AttemptInv'
    BY <1>1, <1>8 DEF HandlerSteps, HandlerDbFails, WriteVerdict, DeleteEntry,
                      LookUpFailed, database
  <1>9. ASSUME NEW w \in writes, WriteLands(w) \/ WriteDbFails(w) PROVE AttemptInv'
    BY <1>1, <1>9 DEF WriteLands, WriteDbFails, database
  <1>10. CASE UNCHANGED vars
    BY <1>1, <1>10 DEF vars, database, tasks
  <1> QED
    BY <1>2, <1>3, <1>4, <1>5, <1>6, <1>7, <1>8, <1>9, <1>10,
       AttemptInvQueries, AttemptInvMarks DEF Next, RunSteps

(***************************************************************************)
(* No submission is tried more than two times more than runs can overlap;  *)
(* with runs that do not overlap, no more than three times.                *)
(***************************************************************************)
THEOREM AttemptsAreBounded == Spec => []AttemptsBounded
  <1>1. TypeOK /\ AttemptInv /\ [Next]_vars => AttemptInv'
    BY AttemptInvNext
  <1>2. TypeOK /\ AttemptInv => AttemptsBounded
    <2> SUFFICES ASSUME TypeOK, AttemptInv, NEW s \in Submissions
                 PROVE  attempts[s] <= MaxAttempts - 1 + Cardinality(Runs)
      BY DEF AttemptsBounded
    <2>1. AboutToCount(s) \subseteq Runs /\ attempts[s] \in Nat
      BY DEF AboutToCount, TypeOK
    <2> QED
      BY <2>1, CountIsNat DEF AttemptInv, MaxAttempts
  <1> QED
    BY <1>1, <1>2, AttemptInvInit, TypeCorrect, PTL DEF Spec

-------------------------------------------------------------------------------
(* Runs that do not overlap: a submission is with one judge at a time. *)

SerialRuns == \A r1, r2 \in Runs : r1 = r2

LEMMA SerialInvInit == Init => SerialInv
  BY DEF Init, SerialInv, OneClaimPerSubmission, SubmissionExclusive,
         ClaimedIsProcessing, SubmissionIsClaimed, RunTakesFreeSubmission, IdleRun

\* A step that adds no claim and no row gone, and whose run takes nothing new.
LEMMA SerialInvKept ==
    ASSUME TypeOK, SerialInv,
           \A r \in Runs : run'[r] = run[r] \/ run'[r].pc = "idle",
           requests' \subseteq requests, handlers' \subseteq handlers,
           entries \subseteq entries',
           processingSubmissions' = processingSubmissions
    PROVE  SerialInv'
  BY DEF SerialInv, OneClaimPerSubmission, SubmissionExclusive,
         ClaimedIsProcessing, SubmissionIsClaimed, RunTakesFreeSubmission

LEMMA SerialInvRun ==
    ASSUME TypeOK, SerialInv, SerialRuns, NEW r \in Runs, RunSteps(r) \/ RunDbFails(r)
    PROVE  SerialInv'
  <1> USE DEF SerialInv, OneClaimPerSubmission, SubmissionExclusive,
              ClaimedIsProcessing, SubmissionIsClaimed, RunTakesFreeSubmission
  <1>1. \A i \in Runs : i = r
    BY DEF SerialRuns
  <1>2. run \in [Runs -> RunStates]
    BY DEF TypeOK
  <1>3. CASE RunStarts(r)
    <2>1. /\ [IdleRun EXCEPT !.pc = "querying", !.excluded = processingSubmissions].pc = "querying"
          /\ [IdleRun EXCEPT !.pc = "querying", !.excluded = processingSubmissions].excluded
               = processingSubmissions
      BY DEF IdleRun
    <2>2. run'[r].pc = "querying" /\ run'[r].excluded = processingSubmissions
      BY <1>2, <1>3, <2>1 DEF RunStarts
    <2> QED
      BY <1>1, <1>3, <2>2 DEF RunStarts, database, memory, judges
  <1>4. CASE RunQueries(r)
    <2>1. CASE run' = [run EXCEPT ![r] = IdleRun]
      BY <1>2, <1>4, <2>1, SerialInvKept DEF RunQueries, IdleRun, database, memory, judges
    <2>2. ASSUME NEW s \in Eligible(run[r].excluded),
                 run' = [run EXCEPT ![r] = [IdleRun EXCEPT !.pc = "found", !.sub = s]]
          PROVE  SerialInv'
      <3>1. /\ [IdleRun EXCEPT !.pc = "found", !.sub = s].pc = "found"
            /\ [IdleRun EXCEPT !.pc = "found", !.sub = s].sub = s
        BY DEF IdleRun
      <3>2. run'[r].pc = "found" /\ run'[r].sub = s
        BY <1>2, <2>2, <3>1
      <3>3. s \in entries /\ s \notin run[r].excluded
        BY DEF Eligible
      <3>4. run[r].pc = "querying"
        BY <1>4 DEF RunQueries
      <3> QED
        BY <1>1, <1>4, <3>2, <3>3, <3>4 DEF RunQueries, database, memory, judges
    <2> QED
      BY <1>4, <2>1, <2>2 DEF RunQueries
  <1>5. CASE RunChooses(r)
    <2>1. CASE run' = [run EXCEPT ![r] = IdleRun]
      BY <1>2, <1>5, <2>1, SerialInvKept DEF RunChooses, IdleRun, database, judges
    <2>2. ASSUME NEW j \in AvailableJudges,
                 run' = [run EXCEPT ![r] = [@ EXCEPT !.pc = "assigning", !.judge = j]]
          PROVE  SerialInv'
      <3>1. run'[r].pc = "assigning" /\ run'[r].sub = run[r].sub
        BY <1>2, <2>2 DEF RunStates
      <3>2. run[r].pc = "found"
        BY <1>5 DEF RunChooses
      <3> QED
        BY <1>1, <1>5, <3>1, <3>2 DEF RunChooses, database, judges
    <2> QED
      BY <1>5, <2>1, <2>2 DEF RunChooses
  <1>6. CASE RunMarks(r)
    <2>1. CASE run[r].sub \in entries
      <3>1. run'[r].pc = "marking" /\ run'[r].sub = run[r].sub
        BY <1>2, <1>6, <2>1 DEF RunMarks, RunStates
      <3>2. run[r].pc = "assigning" /\ run[r].sub \in Submissions
        BY <1>6 DEF RunMarks, TypeOK
      <3>3. /\ processingSubmissions' = processingSubmissions \cup {run[r].sub}
            /\ requests' = requests /\ handlers' = handlers /\ entries' = entries
        BY <1>6, <2>1 DEF RunMarks, judges
      <3>4. ~SubmissionIsClaimed(run[r].sub)
        BY <3>2
      <3> QED
        BY <1>1, <2>1, <3>1, <3>2, <3>3, <3>4
    <2>2. CASE run[r].sub \notin entries
      BY <1>2, <1>6, <2>2, SerialInvKept DEF RunMarks, IdleRun, judges
    <2> QED
      BY <2>1, <2>2
  <1>7. CASE RunSends(r)
    <2>1. /\ run'[r].pc = "idle" /\ run[r].pc = "marking" /\ run[r].sub \in Submissions
          /\ processingSubmissions' = processingSubmissions /\ entries' = entries
      BY <1>2, <1>7 DEF RunSends, TypeOK, IdleRun, memory
    <2>2. ASSUME NEW q, q.sub = run[r].sub, requests' = requests \cup {q}, handlers' = handlers
          PROVE  SerialInv'
      BY <1>1, <2>1, <2>2
    <2>3. ASSUME NEW h, h.sub = run[r].sub, handlers' = handlers \cup {h}, requests' = requests
          PROVE  SerialInv'
      BY <1>1, <2>1, <2>3
    <2> QED
      BY <1>7, <2>2, <2>3 DEF RunSends
  <1>8. CASE RunDbFails(r)
    BY <1>2, <1>8, SerialInvKept DEF RunDbFails, IdleRun, database, judges
  <1> QED
    BY <1>3, <1>4, <1>5, <1>6, <1>7, <1>8 DEF RunSteps

LEMMA SerialInvHandler ==
    ASSUME TypeOK, SerialInv, NEW h \in handlers, HandlerSteps(h)
    PROVE  SerialInv'
  <1> USE DEF SerialInv, OneClaimPerSubmission, SubmissionExclusive,
              ClaimedIsProcessing, SubmissionIsClaimed, RunTakesFreeSubmission
  <1>1. h.sub \in Submissions /\ run' = run /\ requests' = requests
    BY DEF TypeOK, Handlers, HandlerSteps, WriteVerdict, DeleteEntry, LookUpFailed, judges
  <1>2. ASSUME NEW g, g.sub = h.sub, handlers' = (handlers \ {h}) \cup {g},
               entries' = entries, processingSubmissions' = processingSubmissions
        PROVE  SerialInv'
    BY <1>1, <1>2
  <1>3. ASSUME handlers' = handlers \ {h},
               entries' \in {entries, entries \ {h.sub}},
               processingSubmissions' = processingSubmissions \ {h.sub}
        PROVE  SerialInv'
    <2>1. h.sub \in processingSubmissions
      BY <1>1
    <2>2. \A r \in Runs : run[r].pc \in {"found", "assigning", "marking"} => run[r].sub # h.sub
      BY <2>1
    <2> QED
      BY <1>1, <1>3, <2>2
  <1>4. \A pc \in {"complete", "delete"} : [h EXCEPT !.pc = pc].sub = h.sub
    BY DEF TypeOK, Handlers
  <1>5. CASE WriteVerdict(h)
    BY <1>2, <1>4, <1>5 DEF WriteVerdict, memory
  <1>6. CASE DeleteEntry(h)
    <2>1. CASE h.sub \in entries
      BY <1>3, <1>6, <2>1 DEF DeleteEntry, Release
    <2>2. CASE h.sub \notin entries
      BY <1>1, <1>6, <2>2, SerialInvKept DEF DeleteEntry, memory
    <2> QED
      BY <2>1, <2>2
  <1>7. CASE LookUpFailed(h)
    BY <1>2, <1>3, <1>4, <1>7 DEF LookUpFailed, Release, database, memory
  <1> QED
    BY <1>5, <1>6, <1>7 DEF HandlerSteps

LEMMA SerialInvNext ==
    ASSUME TypeOK, SerialInv, SerialRuns, [Next]_vars
    PROVE  SerialInv'
  <1>1. ASSUME NEW s \in Submissions, Enqueue(s) PROVE SerialInv'
    BY <1>1, SerialInvKept DEF Enqueue, memory, judges
  <1>2. ASSUME NEW j \in Judges,
               JudgeConnects(j) \/ JudgeLosses(j)
        PROVE  SerialInv'
    BY <1>2, SerialInvKept DEF JudgeConnects, JudgeLosses, JudgeDrops, JudgeIsHidden,
                               JudgeDropsInHandshake, database, memory, tasks
  <1>3. ASSUME NEW q \in requests, BeginGrading(q) \/ JudgeEnds(q) PROVE SerialInv'
    <2> USE DEF SerialInv, OneClaimPerSubmission, SubmissionExclusive,
                ClaimedIsProcessing, SubmissionIsClaimed, RunTakesFreeSubmission
    <2>1. /\ q.sub \in Submissions /\ run' = run /\ entries' = entries
          /\ processingSubmissions' = processingSubmissions
      BY <1>3 DEF TypeOK, Requests, BeginGrading, JudgeEnds, JudgeFinishes,
                  JudgeReportsError, database, memory
    <2>2. ASSUME NEW p, p.sub = q.sub,
                 requests' = (requests \ {q}) \cup {p}, handlers' = handlers
          PROVE  SerialInv'
      BY <2>1, <2>2
    <2>3. ASSUME NEW h, h.sub = q.sub,
                 requests' = requests \ {q}, handlers' = handlers \cup {h}
          PROVE  SerialInv'
      BY <2>1, <2>3
    <2>4. CASE BeginGrading(q)
      <3>1. [q EXCEPT !.begun = TRUE].sub = q.sub
        BY DEF TypeOK, Requests
      <3> QED
        BY <2>2, <2>4, <3>1 DEF BeginGrading
    <2>5. CASE JudgeEnds(q)
      BY <2>3, <2>5 DEF JudgeEnds, JudgeFinishes, JudgeReportsError
    <2> QED
      BY <1>3, <2>4, <2>5
  <1>4. ASSUME NEW h \in handlers, HandlerDbFails(h) PROVE SerialInv'
    BY <1>4, SerialInvKept DEF HandlerDbFails, database, memory, judges
  <1>5. ASSUME NEW w \in writes, WriteLands(w) \/ WriteDbFails(w) PROVE SerialInv'
    BY <1>5, SerialInvKept DEF WriteLands, WriteDbFails, database, memory, judges
  <1>6. CASE Restart
    BY <1>6 DEF Restart, IdleRun, database, SerialInv, OneClaimPerSubmission,
                SubmissionExclusive, ClaimedIsProcessing, SubmissionIsClaimed,
                RunTakesFreeSubmission
  <1>7. CASE UNCHANGED vars
    BY <1>7, SerialInvKept DEF vars, database, memory, tasks, judges
  <1> QED
    BY <1>1, <1>2, <1>3, <1>4, <1>5, <1>6, <1>7, SerialInvRun, SerialInvHandler DEF Next

(***************************************************************************)
(* If runs of processQueue do not overlap, a submission is never with two  *)
(* judges, whatever fails: its claims are unique and it is marked as long  *)
(* as it has one.                                                          *)
(***************************************************************************)
THEOREM SerialClaimsHold ==
    ASSUME SerialRuns
    PROVE  Spec => []SerialInv
  <1>1. TypeOK /\ SerialInv /\ [Next]_vars => SerialInv'
    BY SerialInvNext
  <1> QED
    BY <1>1, SerialInvInit, TypeCorrect, PTL DEF Spec

THEOREM SubmissionsAreExclusive ==
    ASSUME SerialRuns
    PROVE  Spec => []SubmissionExclusive
  BY SerialClaimsHold, PTL DEF SerialInv, OneClaimPerSubmission

(***************************************************************************)
(* And a submission whose row is gone is not sent again.                   *)
(***************************************************************************)
THEOREM SentSubmissionsAreQueued ==
    ASSUME SerialRuns
    PROVE  Spec => SentOnlyWhileQueued
  <1>1. ASSUME TypeOK, SerialInv, [Next]_vars, NEW q \in requests' \ requests, ~q.begun
        PROVE  q.sub \in entries
    <2>2. ASSUME NEW r \in Runs, RunSends(r) PROVE q.sub \in entries
      BY <1>1, <2>2 DEF RunSends, SerialInv, RunTakesFreeSubmission
    <2>3. ASSUME NEW p \in requests, BeginGrading(p) PROVE q.sub \in entries
      <3>1. [p EXCEPT !.begun = TRUE].begun
        BY <1>1 DEF TypeOK, Requests
      <3> QED
        BY <1>1, <2>3, <3>1 DEF BeginGrading
    <2>4. requests' \subseteq requests \/ (\E r \in Runs : RunSends(r))
            \/ (\E p \in requests : BeginGrading(p))
      BY <1>1
         DEF Next, vars, judges, RunSteps, Enqueue, RunStarts, RunQueries, RunChooses,
             RunMarks, RunDbFails, JudgeConnects, JudgeLosses, JudgeDrops, JudgeIsHidden,
             JudgeDropsInHandshake, JudgeEnds, JudgeFinishes, JudgeReportsError, HandlerSteps, WriteVerdict,
             DeleteEntry, LookUpFailed, HandlerDbFails, WriteLands, WriteDbFails, Restart
    <2> QED
      BY <1>1, <2>2, <2>3, <2>4
  <1>2. TypeOK /\ SerialInv /\ [Next]_vars =>
           [\A q \in requests' \ requests : ~q.begun => q.sub \in entries]_vars
    BY <1>1
  <1> QED
    BY <1>2, SerialClaimsHold, TypeCorrect, PTL DEF Spec, SentOnlyWhileQueued

-------------------------------------------------------------------------------
(* Faults, and the rows of what is claimed. *)

\* Faults are counted and never taken back: what strikes is seen afterwards.
LEMMA FaultsAreSeen ==
    ASSUME TypeOK, [Next]_vars
    PROVE  /\ \A k \in FaultKinds : faults'[k] = 0 => faults[k] = 0
           /\ \A k \in FaultKinds : Strikes(k) => faults'[k] # 0
  <1>1. \A k \in FaultKinds : faults[k] \in Nat
    BY DEF TypeOK
  <1>2. \A k \in FaultKinds : Strikes(k) =>
           \A i \in FaultKinds : faults'[i] = IF i = k THEN faults[i] + 1 ELSE faults[i]
    BY DEF Strikes, TypeOK
  <1>3. UNCHANGED faults \/ \E k \in FaultKinds : Strikes(k)
    <2>1. \A r \in Runs : RunSteps(r) => UNCHANGED faults
      <3>1. ASSUME NEW r \in Runs, RunChooses(r) PROVE UNCHANGED faults
        <4>1. UNCHANGED <<database, processingSubmissions, handlers, writes, judges, faults>>
          BY <3>1 DEF RunChooses
        <4> QED
          BY <4>1
      <3>2. ASSUME NEW r \in Runs, RunStarts(r) \/ RunQueries(r) PROVE UNCHANGED faults
        <4>1. UNCHANGED <<database, memory, handlers, writes, judges, faults>>
          BY <3>2 DEF RunStarts, RunQueries
        <4> QED
          BY <4>1
      <3>3. \A r \in Runs : RunMarks(r) \/ RunSends(r) => UNCHANGED faults
        BY DEF RunMarks, RunSends
      <3> QED
        BY <3>1, <3>2, <3>3 DEF RunSteps
    <2>2. \A q \in requests : BeginGrading(q) \/ JudgeEnds(q) => UNCHANGED faults
      BY DEF BeginGrading, JudgeEnds, JudgeFinishes, JudgeReportsError
    <2>3. \A h \in handlers : HandlerSteps(h) => UNCHANGED faults
      BY DEF HandlerSteps, WriteVerdict, DeleteEntry, LookUpFailed
    <2>4. \A j \in Judges : JudgeConnects(j) => UNCHANGED faults
      BY DEF JudgeConnects
    <2>5. \A j \in Judges : JudgeLosses(j) => Strikes("drop")
      BY DEF JudgeLosses, JudgeDrops, JudgeIsHidden, JudgeDropsInHandshake
    <2>6. /\ \A r \in Runs : RunDbFails(r) => Strikes("db")
          /\ \A h \in handlers : HandlerDbFails(h) => Strikes("db")
          /\ \A w \in writes : WriteDbFails(w) => Strikes("db")
          /\ \A w \in writes : WriteLands(w) => UNCHANGED faults
          /\ \A s \in Submissions : Enqueue(s) => UNCHANGED faults
          /\ Restart => Strikes("restart")
          /\ UNCHANGED vars => UNCHANGED faults
      BY DEF RunDbFails, HandlerDbFails, WriteDbFails, WriteLands, Enqueue, Restart, vars
    <2> QED
      BY <2>1, <2>2, <2>3, <2>4, <2>5, <2>6 DEF Next, FaultKinds
  <1>4. \A k \in FaultKinds : Strikes(k) => faults'[k] # 0
    BY <1>1, <1>2
  <1>5. \A k \in FaultKinds : faults'[k] = 0 => faults[k] = 0
    BY <1>1, <1>2, <1>3
  <1> QED
    BY <1>4, <1>5

\* A step that claims nothing new and lets no row go.
LEMMA ClaimedStayQueued ==
    ASSUME ClaimedAreQueued, entries \subseteq entries',
           \A s \in Submissions : SubmissionIsClaimed(s)' => SubmissionIsClaimed(s)
    PROVE  ClaimedAreQueued'
  BY DEF ClaimedAreQueued

LEMMA ClaimedAreQueuedRun ==
    ASSUME TypeOK, SerialRuns, SerialInv, ClaimedAreQueued, NEW r \in Runs, RunSteps(r)
    PROVE  ClaimedAreQueued'
  <1> USE DEF SubmissionIsClaimed
  <1>1. \A i \in Runs : i = r
    BY DEF SerialRuns
  <1>2. run \in [Runs -> RunStates]
    BY DEF TypeOK
  <1>3. ASSUME run'[r].pc # "marking", UNCHANGED <<entries, handlers, requests>>
        PROVE  ClaimedAreQueued'
    BY <1>1, <1>3, ClaimedStayQueued
  <1>4. CASE RunStarts(r)
    BY <1>2, <1>3, <1>4 DEF RunStarts, IdleRun, database, judges
  <1>5. CASE RunQueries(r)
    <2>1. ASSUME NEW x, run' = [run EXCEPT ![r] = x], x.pc \in {"idle", "found"}
          PROVE  run'[r].pc # "marking"
      BY <1>2, <2>1
    <2>2. /\ IdleRun.pc = "idle"
          /\ \A s \in Submissions : [IdleRun EXCEPT !.pc = "found", !.sub = s].pc = "found"
      BY DEF IdleRun
    <2>3. UNCHANGED <<database, memory, handlers, writes, judges, faults>>
      BY <1>5 DEF RunQueries
    <2>4. run'[r].pc # "marking"
      BY <1>5, <2>1, <2>2 DEF RunQueries, Eligible, TypeOK
    <2> QED
      BY <1>3, <2>3, <2>4 DEF database, judges
  <1>6. CASE RunChooses(r)
    <2>1. UNCHANGED <<database, processingSubmissions, handlers, writes, judges, faults>>
      BY <1>6 DEF RunChooses
    <2>2. \/ run' = [run EXCEPT ![r] = IdleRun]
          \/ \E j \in AvailableJudges :
                run' = [run EXCEPT ![r] = [@ EXCEPT !.pc = "assigning", !.judge = j]]
      BY <1>6 DEF RunChooses
    <2>3. CASE run' = [run EXCEPT ![r] = IdleRun]
      BY <1>2, <1>3, <2>1, <2>3 DEF IdleRun, database, judges
    <2>4. ASSUME NEW j \in AvailableJudges,
                 run' = [run EXCEPT ![r] = [@ EXCEPT !.pc = "assigning", !.judge = j]]
          PROVE  ClaimedAreQueued'
      <3>1. run'[r].pc = "assigning"
        BY <1>2, <2>4 DEF RunStates
      <3> QED
        BY <1>3, <2>1, <3>1 DEF database, judges
    <2> QED
      BY <2>2, <2>3, <2>4
  <1>7. CASE RunMarks(r)
    <2>1. run[r].sub \in entries /\ UNCHANGED <<entries, handlers, requests>>
      BY <1>7 DEF RunMarks, SerialInv, RunTakesFreeSubmission, judges
    <2>2. run'[r].sub = run[r].sub
      BY <1>2, <1>7, <2>1 DEF RunMarks, RunStates
    <2> QED
      BY <1>1, <2>1, <2>2 DEF ClaimedAreQueued
  <1>8. CASE RunSends(r)
    <2>1. /\ run[r].pc = "marking" /\ run[r].sub \in Submissions
          /\ run'[r].pc = "idle" /\ UNCHANGED entries
      BY <1>2, <1>8 DEF RunSends, TypeOK, IdleRun
    <2>2. \/ \E q \in requests' : /\ q.sub = run[r].sub
                                  /\ requests' = requests \cup {q} /\ handlers' = handlers
          \/ \E h \in handlers' : /\ h.sub = run[r].sub
                                  /\ handlers' = handlers \cup {h} /\ requests' = requests
      BY <1>8 DEF RunSends
    <2> QED
      BY <1>1, <2>1, <2>2, ClaimedStayQueued
  <1> QED
    BY <1>4, <1>5, <1>6, <1>7, <1>8 DEF RunSteps

LEMMA ClaimedAreQueuedHandler ==
    ASSUME TypeOK, SerialInv, ClaimedAreQueued, NEW h \in handlers, HandlerSteps(h)
    PROVE  ClaimedAreQueued'
  <1> USE DEF SubmissionIsClaimed
  <1>1. UNCHANGED <<run, requests>>
    BY DEF HandlerSteps, WriteVerdict, DeleteEntry, LookUpFailed, judges
  <1>2. ASSUME NEW g, g.sub = h.sub, handlers' = (handlers \ {h}) \cup {g}, UNCHANGED entries
        PROVE  ClaimedAreQueued'
    BY <1>1, <1>2, ClaimedStayQueued
  <1>3. ASSUME handlers' = handlers \ {h}, entries' \in {entries, entries \ {h.sub}}
        PROVE  ClaimedAreQueued'
    <2>1. \A s \in Submissions : SubmissionIsClaimed(s)' => SubmissionIsClaimed(s) /\ s # h.sub
      BY <1>1, <1>3 DEF SerialInv, OneClaimPerSubmission
    <2> QED
      BY <1>3, <2>1 DEF ClaimedAreQueued
  <1>4. \A pc \in {"complete", "delete"} : [h EXCEPT !.pc = pc].sub = h.sub
    BY DEF TypeOK, Handlers
  <1>5. CASE WriteVerdict(h)
    BY <1>2, <1>4, <1>5 DEF WriteVerdict
  <1>6. CASE DeleteEntry(h)
    BY <1>3, <1>6 DEF DeleteEntry
  <1>7. CASE LookUpFailed(h)
    BY <1>2, <1>3, <1>4, <1>7 DEF LookUpFailed, database
  <1> QED
    BY <1>5, <1>6, <1>7 DEF HandlerSteps

(***************************************************************************)
(* Without overlap nobody has a claim on a submission whose row is gone:   *)
(* neither a run that marked it, nor a judge, nor a handler, whatever      *)
(* failed before.                                                          *)
(***************************************************************************)
THEOREM ClaimedHaveRows ==
    ASSUME SerialRuns
    PROVE  Spec => []ClaimedAreQueued
  <1> USE DEF SubmissionIsClaimed
  <1>1. Init => ClaimedAreQueued
    BY DEF Init, IdleRun, ClaimedAreQueued
  <1>2. ASSUME TypeOK, SerialInv, ClaimedAreQueued, [Next]_vars PROVE ClaimedAreQueued'
    <2>1. ASSUME entries \subseteq entries', handlers' \subseteq handlers,
                 requests' \subseteq requests,
                 \A i \in Runs : run'[i] = run[i] \/ run'[i].pc = "idle"
          PROVE  ClaimedAreQueued'
      BY <1>2, <2>1, ClaimedStayQueued
    <2>2. ASSUME NEW s \in Submissions, Enqueue(s) PROVE ClaimedAreQueued'
      BY <2>1, <2>2 DEF Enqueue, judges
    <2>3. ASSUME NEW r \in Runs, RunDbFails(r) PROVE ClaimedAreQueued'
      BY <1>2, <2>1, <2>3 DEF RunDbFails, database, judges, TypeOK, IdleRun
    <2>4. ASSUME NEW j \in Judges, JudgeConnects(j) \/ JudgeLosses(j) PROVE ClaimedAreQueued'
      BY <2>1, <2>4 DEF JudgeConnects, JudgeLosses, JudgeDrops, JudgeIsHidden,
                        JudgeDropsInHandshake, database, tasks
    <2>5. ASSUME NEW q \in requests, BeginGrading(q) PROVE ClaimedAreQueued'
      <3>1. [q EXCEPT !.begun = TRUE].sub = q.sub
        BY <1>2 DEF TypeOK, Requests
      <3> QED
        BY <1>2, <2>5, <3>1, ClaimedStayQueued DEF BeginGrading, database
    <2>6. ASSUME NEW q \in requests, JudgeEnds(q) PROVE ClaimedAreQueued'
      <3>1. \E h \in handlers' : /\ h.sub = q.sub /\ handlers' = handlers \cup {h}
                                 /\ requests' = requests \ {q} /\ UNCHANGED <<database, run>>
        BY <2>6 DEF JudgeEnds, JudgeFinishes, JudgeReportsError
      <3> QED
        BY <1>2, <3>1, ClaimedStayQueued DEF database
    <2>7. ASSUME NEW h \in handlers, HandlerDbFails(h) PROVE ClaimedAreQueued'
      BY <2>1, <2>7 DEF HandlerDbFails, database, judges
    <2>8. ASSUME NEW w \in writes, WriteLands(w) \/ WriteDbFails(w) PROVE ClaimedAreQueued'
      BY <2>1, <2>8 DEF WriteLands, WriteDbFails, database, judges
    <2>9. CASE Restart
      BY <2>1, <2>9 DEF Restart, IdleRun, database
    <2>10. CASE UNCHANGED vars
      BY <2>1, <2>10 DEF vars, database, tasks, judges
    <2> QED
      BY <1>2, <2>2, <2>3, <2>4, <2>5, <2>6, <2>7, <2>8, <2>9, <2>10,
         ClaimedAreQueuedRun, ClaimedAreQueuedHandler DEF Next
  <1> QED
    BY <1>1, <1>2, SerialClaimsHold, TypeCorrect, PTL DEF Spec

-------------------------------------------------------------------------------
(* What gets stuck, for any number of runs. *)

\* A step after which nothing is stuck that was not stuck before.
NothingGetsStuck ==
    /\ \A j \in Judges : JudgeIsStuck(j)' => JudgeIsStuck(j)
    /\ \A s \in Submissions : SubmissionIsStuck(s)' => SubmissionIsStuck(s)

\* What StuckForACause says of a step.
CauseOfStuck ==
    /\ \A j \in Judges : JudgeIsStuck(j)' /\ ~JudgeIsStuck(j) =>
          \/ JudgeDrops(j)
          \/ \E h \in handlers : h.judge = j /\ HandlerThrows(h)
    /\ \A s \in Submissions : SubmissionIsStuck(s)' /\ ~SubmissionIsStuck(s) =>
          \/ \E q \in requests : q.sub = s /\ JudgeDrops(q.judge)
          \/ \E h \in handlers : h.sub = s /\ HandlerThrows(h)
          \/ \E r \in Runs : RunDbFails(r) /\ run[r].pc = "marking" /\ run[r].sub = s

LEMMA RunsStickNothing ==
    ASSUME TypeOK, NEW r \in Runs, RunSteps(r)
    PROVE  NothingGetsStuck
  <1> USE DEF NothingGetsStuck, JudgeIsStuck, SubmissionIsStuck, JudgeIsClaimed,
              SubmissionIsClaimed, RunClaims
  <1>1. run \in [Runs -> RunStates]
    BY DEF TypeOK
  <1>2. ASSUME run[r].pc \notin {"assigning", "marking"}, \A i \in Runs \ {r} : run'[i] = run[i],
               UNCHANGED <<memory, handlers, requests>>
        PROVE  NothingGetsStuck
    BY <1>2 DEF memory
  <1>3. CASE RunStarts(r)
    BY <1>1, <1>2, <1>3 DEF RunStarts, judges
  <1>4. CASE RunQueries(r)
    <2>1. /\ \A i \in Runs \ {r} : run'[i] = run[i]
          /\ run[r].pc = "querying" /\ UNCHANGED <<database, memory, handlers, writes, judges, faults>>
      BY <1>1, <1>4 DEF RunQueries
    <2> QED
      BY <1>2, <2>1 DEF judges
  <1>5. CASE RunChooses(r)
    <2>1. /\ run[r].pc = "found" /\ \A i \in Runs \ {r} : run'[i] = run[i]
          /\ UNCHANGED <<database, processingSubmissions, handlers, writes, judges, faults>>
      BY <1>1, <1>5 DEF RunChooses
    <2>2. CASE UNCHANGED <<busyJudges, lastUsedJudgeIndex>>
      BY <1>2, <2>1, <2>2 DEF memory, judges
    <2>3. ASSUME NEW j \in AvailableJudges, busyJudges' = busyJudges \cup {j},
                 run' = [run EXCEPT ![r] = [@ EXCEPT !.pc = "assigning", !.judge = j]]
          PROVE  NothingGetsStuck
      <3>1. run'[r].pc = "assigning" /\ run'[r].judge = j
        BY <1>1, <2>3 DEF RunStates
      <3> QED
        BY <2>1, <2>3, <3>1 DEF judges
    <2> QED
      BY <1>5, <2>2, <2>3 DEF RunChooses
  <1>6. CASE RunMarks(r)
    <2>1. /\ run[r].pc = "assigning" /\ \A i \in Runs \ {r} : run'[i] = run[i]
          /\ UNCHANGED <<handlers, requests>>
      BY <1>1, <1>6 DEF RunMarks, judges
    <2>2. CASE run[r].sub \in entries
      <3>1. /\ run'[r].pc = "marking" /\ run'[r].judge = run[r].judge /\ run'[r].sub = run[r].sub
            /\ processingSubmissions' = processingSubmissions \cup {run[r].sub}
            /\ UNCHANGED busyJudges
        BY <1>1, <1>6, <2>2 DEF RunMarks, RunStates
      <3> QED
        BY <2>1, <3>1
    <2>3. CASE run[r].sub \notin entries
      <3>1. busyJudges' = busyJudges \ {run[r].judge} /\ UNCHANGED processingSubmissions
        BY <1>6, <2>3 DEF RunMarks
      <3> QED
        BY <2>1, <3>1
    <2> QED
      BY <2>2, <2>3
  <1>7. CASE RunSends(r)
    <2>1. /\ \A i \in Runs \ {r} : run'[i] = run[i]
          /\ UNCHANGED memory
      BY <1>1, <1>7 DEF RunSends
    <2>2. \/ \E q \in requests' : /\ q.sub = run[r].sub /\ q.judge = run[r].judge
                                  /\ requests' = requests \cup {q} /\ handlers' = handlers
          \/ \E h \in handlers' : /\ h.sub = run[r].sub /\ h.judge = run[r].judge
                                  /\ handlers' = handlers \cup {h} /\ requests' = requests
      BY <1>7 DEF RunSends
    <2> QED
      BY <2>1, <2>2 DEF memory
  <1> QED
    BY <1>3, <1>4, <1>5, <1>6, <1>7 DEF RunSteps

LEMMA HandlersStickNothing ==
    ASSUME TypeOK, NEW h \in handlers, HandlerSteps(h), ~HandlerThrows(h)
    PROVE  NothingGetsStuck
  <1> USE DEF NothingGetsStuck, JudgeIsStuck, SubmissionIsStuck, JudgeIsClaimed,
              SubmissionIsClaimed, RunClaims
  <1>1. UNCHANGED <<run, requests>>
    BY DEF HandlerSteps, WriteVerdict, DeleteEntry, LookUpFailed, judges
  <1>2. ASSUME NEW g, g.sub = h.sub, g.judge = h.judge,
               handlers' = (handlers \ {h}) \cup {g}, UNCHANGED memory
        PROVE  NothingGetsStuck
    BY <1>1, <1>2 DEF memory
  <1>3. ASSUME handlers' = handlers \ {h}, Release(h)
        PROVE  NothingGetsStuck
    BY <1>1, <1>3 DEF Release
  <1>4. \A pc \in {"complete", "delete"} :
           [h EXCEPT !.pc = pc].sub = h.sub /\ [h EXCEPT !.pc = pc].judge = h.judge
    BY DEF TypeOK, Handlers
  <1>5. CASE WriteVerdict(h)
    BY <1>2, <1>4, <1>5 DEF WriteVerdict
  <1>6. CASE DeleteEntry(h)
    BY <1>3, <1>6 DEF DeleteEntry, HandlerThrows
  <1>7. CASE LookUpFailed(h)
    BY <1>2, <1>3, <1>4, <1>7 DEF LookUpFailed
  <1> QED
    BY <1>5, <1>6, <1>7 DEF HandlerSteps

LEMMA StuckHasACause ==
    ASSUME TypeOK, [Next]_vars
    PROVE  CauseOfStuck
  <1> USE DEF JudgeIsStuck, SubmissionIsStuck, JudgeIsClaimed, SubmissionIsClaimed, RunClaims
  <1>1. ASSUME NothingGetsStuck PROVE CauseOfStuck
    BY <1>1 DEF NothingGetsStuck, CauseOfStuck
  <1>2. ASSUME UNCHANGED <<memory, run, handlers, requests>> PROVE NothingGetsStuck
    BY <1>2 DEF NothingGetsStuck, memory
  <1>3. ASSUME NEW r \in Runs, RunDbFails(r) PROVE CauseOfStuck
    <2>1. /\ busyJudges' = busyJudges \ {run[r].judge} /\ UNCHANGED processingSubmissions
          /\ UNCHANGED <<handlers, requests>> /\ \A i \in Runs \ {r} : run'[i] = run[i]
      BY <1>3 DEF RunDbFails, judges, TypeOK
    <2>2. \A j \in Judges : JudgeIsStuck(j)' => JudgeIsStuck(j)
      BY <2>1
    <2>3. \A s \in Submissions : SubmissionIsStuck(s)' =>
             SubmissionIsStuck(s) \/ (run[r].pc = "marking" /\ run[r].sub = s)
      BY <2>1
    <2> QED
      BY <1>3, <2>2, <2>3 DEF CauseOfStuck
  <1>4. ASSUME NEW j \in Judges, JudgeDrops(j) PROVE CauseOfStuck
    <2>1. /\ requests' = {q \in requests : q.judge # j}
          /\ UNCHANGED <<memory, run, handlers>>
      BY <1>4 DEF JudgeDrops, tasks
    <2>2. \A k \in Judges : JudgeIsStuck(k)' => JudgeIsStuck(k) \/ k = j
      BY <2>1 DEF memory
    <2>3. \A s \in Submissions : SubmissionIsStuck(s)' =>
             SubmissionIsStuck(s) \/ \E q \in requests : q.sub = s /\ q.judge = j
      BY <2>1 DEF memory
    <2> QED
      BY <1>4, <2>2, <2>3 DEF CauseOfStuck
  <1>5. ASSUME NEW j \in Judges, JudgeConnects(j) \/ JudgeIsHidden(j) \/ JudgeDropsInHandshake(j)
        PROVE  CauseOfStuck
    BY <1>1, <1>2, <1>5 DEF JudgeConnects, JudgeIsHidden, JudgeDropsInHandshake, tasks
  <1>6. ASSUME NEW q \in requests, BeginGrading(q) PROVE CauseOfStuck
    <2>1. [q EXCEPT !.begun = TRUE].sub = q.sub /\ [q EXCEPT !.begun = TRUE].judge = q.judge
      BY DEF TypeOK, Requests
    <2>2. NothingGetsStuck
      BY <1>6, <2>1 DEF BeginGrading, NothingGetsStuck, memory
    <2> QED
      BY <1>1, <2>2
  <1>7. ASSUME NEW q \in requests, JudgeEnds(q) PROVE CauseOfStuck
    <2>1. \E h \in handlers' : /\ h.sub = q.sub /\ h.judge = q.judge
                               /\ handlers' = handlers \cup {h} /\ requests' = requests \ {q}
                               /\ UNCHANGED <<memory, run>>
      BY <1>7 DEF JudgeEnds, JudgeFinishes, JudgeReportsError
    <2>2. NothingGetsStuck
      BY <2>1 DEF NothingGetsStuck, memory
    <2> QED
      BY <1>1, <2>2
  <1>8. ASSUME NEW h \in handlers, HandlerThrows(h) PROVE CauseOfStuck
    <2>1. /\ handlers' = handlers \ {h} /\ UNCHANGED <<memory, run, requests>>
      BY <1>8 DEF HandlerThrows, HandlerDbFails, DeleteEntry, judges
    <2>2. /\ \A j \in Judges : JudgeIsStuck(j)' => JudgeIsStuck(j) \/ j = h.judge
          /\ \A s \in Submissions : SubmissionIsStuck(s)' => SubmissionIsStuck(s) \/ s = h.sub
      BY <2>1 DEF memory
    <2> QED
      BY <1>8, <2>2 DEF CauseOfStuck
  <1>9. ASSUME NEW r \in Runs, RunSteps(r) PROVE CauseOfStuck
    BY <1>1, <1>9, RunsStickNothing
  <1>10. ASSUME NEW h \in handlers, HandlerSteps(h) PROVE CauseOfStuck
    BY <1>1, <1>8, <1>10, HandlersStickNothing
  <1>11. ASSUME NEW s \in Submissions, Enqueue(s) PROVE CauseOfStuck
    BY <1>1, <1>2, <1>11 DEF Enqueue, judges
  <1>12. ASSUME NEW w \in writes, WriteLands(w) \/ WriteDbFails(w) PROVE CauseOfStuck
    BY <1>1, <1>2, <1>12 DEF WriteLands, WriteDbFails, judges
  <1>13. CASE Restart
    BY <1>1, <1>13 DEF Restart, NothingGetsStuck
  <1>14. CASE UNCHANGED vars
    BY <1>1, <1>2, <1>14 DEF vars, tasks, judges
  <1> QED
    BY <1>3, <1>4, <1>5, <1>6, <1>7, <1>8, <1>9, <1>10, <1>11, <1>12, <1>13, <1>14
       DEF Next, JudgeLosses, HandlerThrows

(***************************************************************************)
(* A judge gets stuck only when its connection closes while it works or a  *)
(* handler throws, a submission also when the second statement of          *)
(* assignToJudge fails, however many runs overlap: sends that find no      *)
(* connection, attempts whose row is gone and restarts release what they   *)
(* marked.                                                                 *)
(***************************************************************************)
THEOREM NothingSticksWithoutCause ==
    Spec => StuckForACause
  <1>1. TypeOK /\ [Next]_vars => [CauseOfStuck]_vars
    BY StuckHasACause
  <1> QED
    BY <1>1, TypeCorrect, PTL DEF Spec, StuckForACause, CauseOfStuck

(***************************************************************************)
(* A completion finds its row, whatever failed before, and so frees its    *)
(* judge ("Free up judge (remove from busy set)").                         *)
(***************************************************************************)
THEOREM CompletionsFreeJudges ==
    ASSUME SerialRuns
    PROVE  Spec => CompletionFreesJudge
  <1>1. ASSUME TypeOK, ClaimedAreQueued, NEW h \in handlers, DeleteEntry(h)
        PROVE  h.judge \notin busyJudges'
    <2>1. h.sub \in entries
      BY <1>1 DEF ClaimedAreQueued, SubmissionIsClaimed, TypeOK, Handlers
    <2> QED
      BY <1>1, <2>1 DEF DeleteEntry, Release
  <1>2. TypeOK /\ ClaimedAreQueued /\ [Next]_vars =>
           [\A h \in handlers : h.pc = "delete" /\ DeleteEntry(h) => h.judge \notin busyJudges']_vars
    BY <1>1
  <1> QED
    BY <1>2, ClaimedHaveRows, TypeCorrect, PTL DEF Spec, CompletionFreesJudge

-------------------------------------------------------------------------------
(* A row out of attempts has somebody in charge, however many runs overlap. *)

\* A step that ends no claim, adds no row and counts no attempt.
LEMMA ChargeInvKept ==
    ASSUME TypeOK, ChargeInv, [Next]_vars,
           entries' \subseteq entries, UNCHANGED <<createdAt, attempts>>,
           \A k \in FaultKinds : ~Strikes(k),
           \A s \in entries' : SubmissionIsClaimed(s) => SubmissionIsClaimed(s)' \/ ~OutOfAttempts(s)
    PROVE  ChargeInv'
  <1>1. AttemptsFollowQueueing'
    BY DEF ChargeInv, AttemptsFollowQueueing
  <1>2. ExhaustedIsInChargeWithoutFaults'
    BY FaultsAreSeen
       DEF ChargeInv, ExhaustedIsInChargeWithoutFaults, ExhaustedIsInCharge, OutOfAttempts
  <1> QED
    BY <1>1, <1>2 DEF ChargeInv

LEMMA ChargeInvRun ==
    ASSUME TypeOK, ChargeInv, [Next]_vars, NEW r \in Runs, RunSteps(r)
    PROVE  ChargeInv'
  <1> USE DEF SubmissionIsClaimed
  <1>1. run \in [Runs -> RunStates] /\ entries \subseteq Submissions
    BY DEF TypeOK
  <1>2. ASSUME UNCHANGED <<database, handlers, requests, faults>>,
               run[r].pc # "marking", \A i \in Runs \ {r} : run'[i] = run[i]
        PROVE  ChargeInv'
    <2>1. \A s \in Submissions : SubmissionIsClaimed(s) => SubmissionIsClaimed(s)'
      BY <1>2
    <2>2. \A k \in FaultKinds : ~Strikes(k)
      BY <1>2 DEF Strikes, TypeOK
    <2> QED
      BY <1>1, <1>2, <2>1, <2>2, ChargeInvKept DEF database
  <1>3. CASE RunStarts(r)
    BY <1>1, <1>2, <1>3 DEF RunStarts, judges
  <1>4. CASE RunQueries(r)
    <2>1. \A i \in Runs \ {r} : run'[i] = run[i]
      BY <1>1, <1>4 DEF RunQueries
    <2>2. run[r].pc # "marking" /\ UNCHANGED <<database, memory, handlers, writes, judges, faults>>
      BY <1>4 DEF RunQueries
    <2> QED
      BY <1>2, <2>1, <2>2 DEF judges
  <1>5. CASE RunChooses(r)
    <2>1. \A i \in Runs \ {r} : run'[i] = run[i]
      BY <1>1, <1>5 DEF RunChooses
    <2>2. /\ run[r].pc # "marking"
          /\ UNCHANGED <<database, processingSubmissions, handlers, writes, judges, faults>>
      BY <1>5 DEF RunChooses
    <2> QED
      BY <1>2, <2>1, <2>2 DEF judges
  <1>6. CASE RunMarks(r)
    <2>1. CASE run[r].sub \in entries
      <3>1. /\ run[r].pc = "assigning" /\ UNCHANGED <<entries, createdAt, handlers, requests, faults>>
            /\ run'[r].pc = "marking" /\ run'[r].sub = run[r].sub
            /\ \A i \in Runs \ {r} : run'[i] = run[i]
        BY <1>1, <1>6, <2>1 DEF RunMarks, RunStates, judges
      <3>2. \A s \in Submissions : s # run[r].sub => attempts'[s] = attempts[s]
        BY <1>6, <2>1 DEF RunMarks, TypeOK
      <3>3. \A s \in Submissions : SubmissionIsClaimed(s) \/ s = run[r].sub => SubmissionIsClaimed(s)'
        BY <3>1
      <3>4. AttemptsFollowQueueing'
        BY <1>1, <2>1, <3>1, <3>2 DEF ChargeInv, AttemptsFollowQueueing
      <3>5. ExhaustedIsInChargeWithoutFaults'
        BY <1>1, <3>1, <3>2, <3>3
           DEF ChargeInv, ExhaustedIsInChargeWithoutFaults, ExhaustedIsInCharge
      <3> QED
        BY <3>4, <3>5 DEF ChargeInv
    <2>2. CASE run[r].sub \notin entries
      BY <1>1, <1>2, <1>6, <2>2 DEF RunMarks, database, judges
    <2> QED
      BY <2>1, <2>2
  <1>7. CASE RunSends(r)
    <2>1. /\ run[r].pc = "marking" /\ UNCHANGED <<entries, createdAt, attempts, faults>>
          /\ \A i \in Runs \ {r} : run'[i] = run[i]
      BY <1>1, <1>7 DEF RunSends
    <2>2. \/ \E q \in requests' : q.sub = run[r].sub /\ requests' = requests \cup {q} /\ handlers' = handlers
          \/ \E h \in handlers' : h.sub = run[r].sub /\ handlers' = handlers \cup {h} /\ requests' = requests
      BY <1>7 DEF RunSends
    <2>3. \A s \in Submissions : SubmissionIsClaimed(s) => SubmissionIsClaimed(s)'
      BY <2>1, <2>2
    <2>4. \A k \in FaultKinds : ~Strikes(k)
      BY <2>1 DEF Strikes, TypeOK
    <2> QED
      BY <1>1, <2>1, <2>3, <2>4, ChargeInvKept
  <1> QED
    BY <1>3, <1>4, <1>5, <1>6, <1>7 DEF RunSteps

LEMMA ChargeInvNext ==
    ASSUME TypeOK, ChargeInv, [Next]_vars
    PROVE  ChargeInv'
  <1> USE DEF SubmissionIsClaimed
  <1>1. entries \subseteq Submissions
    BY DEF TypeOK
  <1>2. UNCHANGED faults => \A k \in FaultKinds : ~Strikes(k)
    BY DEF Strikes, TypeOK
  <1>3. CASE UNCHANGED <<entries, createdAt, attempts, run, handlers, requests, faults>>
    BY <1>2, <1>3, ChargeInvKept
  <1>4. ASSUME NEW k \in FaultKinds, Strikes(k), UNCHANGED <<entries, createdAt, attempts>>
        PROVE  ChargeInv'
    <2>1. faults'[k] # 0
      BY <1>4, FaultsAreSeen
    <2> QED
      BY <1>4, <2>1 DEF ChargeInv, AttemptsFollowQueueing, ExhaustedIsInChargeWithoutFaults
  <1>5. ASSUME NEW s \in Submissions, Enqueue(s) PROVE ChargeInv'
    <2>1. createdAt'[s] # 0 /\ \A t \in Submissions \ {s} : createdAt'[t] = createdAt[t]
      BY <1>5, CreatedRanks
    <2>2. attempts[s] = 0
      BY <1>5 DEF Enqueue, ChargeInv, AttemptsFollowQueueing
    <2>3. /\ UNCHANGED <<attempts, run, handlers, requests, faults>>
          /\ entries' = entries \cup {s}
      BY <1>5 DEF Enqueue, judges
    <2>4. AttemptsFollowQueueing'
      BY <2>1, <2>2, <2>3 DEF ChargeInv, AttemptsFollowQueueing
    <2>5. ExhaustedIsInChargeWithoutFaults'
      BY <2>2, <2>3 DEF ChargeInv, ExhaustedIsInChargeWithoutFaults, ExhaustedIsInCharge, MaxAttempts
    <2> QED
      BY <2>4, <2>5 DEF ChargeInv
  <1>6. ASSUME NEW q \in requests, BeginGrading(q) \/ JudgeEnds(q) PROVE ChargeInv'
    <2>1. UNCHANGED <<entries, createdAt, attempts, run, faults>>
      BY <1>6 DEF BeginGrading, JudgeEnds, JudgeFinishes, JudgeReportsError, database
    <2>2. \/ \E p \in requests' : p.sub = q.sub /\ requests \ {q} \subseteq requests' /\ handlers' = handlers
          \/ \E h \in handlers' : h.sub = q.sub /\ requests' = requests \ {q} /\ handlers \subseteq handlers'
      <3>1. [q EXCEPT !.begun = TRUE].sub = q.sub
        BY DEF TypeOK, Requests
      <3> QED
        BY <1>6, <3>1 DEF BeginGrading, JudgeEnds, JudgeFinishes, JudgeReportsError
    <2>3. \A s \in Submissions : SubmissionIsClaimed(s) => SubmissionIsClaimed(s)'
      BY <2>1, <2>2
    <2> QED
      BY <1>1, <1>2, <2>1, <2>3, ChargeInvKept
  <1>7. ASSUME NEW h \in handlers, HandlerSteps(h) PROVE ChargeInv'
    <2>1. UNCHANGED <<createdAt, attempts, run, requests, faults>>
      BY <1>7 DEF HandlerSteps, WriteVerdict, DeleteEntry, LookUpFailed, database, judges
    <2>2. \/ /\ entries' = entries
             /\ \E g \in handlers' : g.sub = h.sub /\ handlers \ {h} \subseteq handlers'
          \/ /\ handlers' = handlers \ {h} /\ entries' \subseteq entries
             /\ h.sub \notin entries' \/ ~OutOfAttempts(h.sub)
      <3>1. \A pc \in {"complete", "delete"} : [h EXCEPT !.pc = pc].sub = h.sub
        BY DEF TypeOK, Handlers
      <3>2. CASE WriteVerdict(h)
        BY <3>1, <3>2 DEF WriteVerdict
      <3>3. CASE DeleteEntry(h)
        BY <3>3 DEF DeleteEntry
      <3>4. CASE LookUpFailed(h)
        BY <3>1, <3>4 DEF LookUpFailed, database
      <3> QED
        BY <1>7, <3>2, <3>3, <3>4 DEF HandlerSteps
    <2>3. \A s \in entries' : SubmissionIsClaimed(s) => SubmissionIsClaimed(s)' \/ ~OutOfAttempts(s)
      BY <2>1, <2>2
    <2>4. entries' \subseteq entries
      BY <2>2
    <2> QED
      BY <1>2, <2>1, <2>3, <2>4, ChargeInvKept
  <1>8. ASSUME NEW r \in Runs, RunDbFails(r) PROVE ChargeInv'
    BY <1>4, <1>8 DEF RunDbFails, database, FaultKinds
  <1>9. ASSUME NEW j \in Judges, JudgeConnects(j) PROVE ChargeInv'
    BY <1>3, <1>9 DEF JudgeConnects, database, tasks
  <1>10. ASSUME NEW j \in Judges, JudgeLosses(j) PROVE ChargeInv'
    BY <1>4, <1>10
       DEF JudgeLosses, JudgeDrops, JudgeIsHidden, JudgeDropsInHandshake, database, FaultKinds
  <1>11. ASSUME NEW h \in handlers, HandlerDbFails(h) PROVE ChargeInv'
    BY <1>4, <1>11 DEF HandlerDbFails, database, FaultKinds
  <1>12. ASSUME NEW w \in writes, WriteLands(w) PROVE ChargeInv'
    BY <1>3, <1>12 DEF WriteLands, judges
  <1>13. ASSUME NEW w \in writes, WriteDbFails(w) PROVE ChargeInv'
    BY <1>4, <1>13 DEF WriteDbFails, database, FaultKinds
  <1>14. CASE Restart
    BY <1>4, <1>14 DEF Restart, database, FaultKinds
  <1>15. CASE UNCHANGED vars
    BY <1>3, <1>15 DEF vars, database, tasks, judges
  <1> QED
    BY <1>5, <1>6, <1>7, <1>8, <1>9, <1>10, <1>11, <1>12, <1>13, <1>14, <1>15, ChargeInvRun
       DEF Next

\* How rows and attempts begin, and who is in charge when they end.
THEOREM ChargeInvHolds == Spec => []ChargeInv
  <1>1. Init => ChargeInv
    BY DEF Init, ChargeInv, AttemptsFollowQueueing, ExhaustedIsInChargeWithoutFaults,
           ExhaustedIsInCharge
  <1>2. TypeOK /\ ChargeInv /\ [Next]_vars => ChargeInv'
    BY ChargeInvNext
  <1> QED
    BY <1>1, <1>2, TypeCorrect, PTL DEF Spec

(***************************************************************************)
(* failSubmission marks what is out of attempts: as long as nothing fails, *)
(* a row that no query will find again has a run, a judge or a handler in  *)
(* charge, also if runs overlap.                                           *)
(***************************************************************************)
THEOREM ExhaustedAreInCharge == Spec => []ExhaustedIsInChargeWithoutFaults
  BY ChargeInvHolds, PTL DEF ChargeInv

-------------------------------------------------------------------------------
(* Without overlap the queue implements Judging: the refinement mapping. *)

LEMMA WorkerIsJudge ==
    ASSUME NEW R, \A p, q \in R : p.sub = q.sub => p = q, NEW q \in R
    PROVE  WorkerIn(R, q.sub) = q.judge
  <1>1. (CHOOSE p \in R : p.sub = q.sub) = q
    OBVIOUS
  <1> QED
    BY <1>1 DEF WorkerIn

LEMMA NoRequestNoWorker ==
    ASSUME NEW R, NEW s, \A q \in R : q.sub # s
    PROVE  WorkerIn(R, s) = NoJudge
  BY DEF WorkerIn

-------------------------------------------------------------------------------
(* Steps of the queue are steps of Judging. *)

RefinementInv ==
    /\ TypeOK
    /\ ClaimInv
    /\ KeepInv
    /\ SerialInv
    /\ AttemptsFollowQueueing

AbstractStep == [AbstractJudging!Next]_(AbstractJudging!vars)

LEMMA InitImplements == Init => AbstractJudging!Init
  <1> SUFFICES ASSUME Init PROVE AbstractJudging!Init
    OBVIOUS
  <1>1. \A s \in Submissions : PhaseOf(s) = "unknown"
    BY DEF Init, PhaseOf
  <1>2. \A s \in Submissions : WorkerIn(requests, s) = NoJudge
    BY NoRequestNoWorker DEF Init
  <1> QED
    BY <1>1, <1>2 DEF AbstractJudging!Init

\* A step that leaves every row and every request's judge alone is a stutter.
LEMMA StutterImplements ==
    ASSUME \A s \in Submissions : PhaseOf(s)' = PhaseOf(s),
           \A s \in Submissions : WorkerIn(requests, s)' = WorkerIn(requests, s)
    PROVE  AbstractStep
  BY DEF AbstractStep, AbstractJudging!vars

LEMMA UnchangedImplements ==
    ASSUME UNCHANGED <<entries, createdAt, ended, requests>>
    PROVE  AbstractStep
  <1>1. \A s \in Submissions : PhaseOf(s)' = PhaseOf(s)
    BY DEF PhaseOf
  <1>2. \A s \in Submissions : WorkerIn(requests, s)' = WorkerIn(requests, s)
    BY DEF WorkerIn
  <1> QED
    BY <1>1, <1>2, StutterImplements

\* Requests that go are work that stops.
LEMMA StopImplements ==
    ASSUME RefinementInv, requests' \subseteq requests,
           UNCHANGED <<entries, createdAt, ended>>
    PROVE  AbstractStep
  <1> DEFINE S == {s \in Submissions : \A q \in requests' : q.sub # s}
  <1>1. \A s \in Submissions : PhaseOf(s)' = PhaseOf(s)
    BY DEF PhaseOf
  <1>2. \A s \in Submissions :
           WorkerIn(requests, s)' = IF s \in S THEN NoJudge ELSE WorkerIn(requests, s)
    <2>1. ASSUME NEW s \in S PROVE WorkerIn(requests', s) = NoJudge
      BY <2>1, NoRequestNoWorker
    <2>2. ASSUME NEW q \in requests'
          PROVE  WorkerIn(requests', q.sub) = WorkerIn(requests, q.sub)
      <3>1. \A p1, p2 \in requests : p1.sub = p2.sub => p1 = p2
        BY DEF RefinementInv, SerialInv, OneClaimPerSubmission, SubmissionExclusive
      <3>2. WorkerIn(requests', q.sub) = q.judge /\ WorkerIn(requests, q.sub) = q.judge
        BY <3>1, WorkerIsJudge
      <3> QED
        BY <3>2
    <2> QED
      BY <2>1, <2>2
  <1>3. AbstractJudging!Stop(S)
    BY <1>1, <1>2 DEF AbstractJudging!Stop
  <1> QED
    BY <1>3 DEF AbstractStep, AbstractJudging!Next

LEMMA EnqueueImplements ==
    ASSUME RefinementInv, NEW s \in Submissions, Enqueue(s)
    PROVE  AbstractStep
  <1>1. createdAt'[s] # 0 /\ \A t \in Submissions \ {s} : createdAt'[t] = createdAt[t]
    BY CreatedRanks DEF RefinementInv
  <1>2. PhaseOf(s) = "unknown" /\ PhaseOf(s)' = "queued"
    BY <1>1 DEF Enqueue, PhaseOf
  <1>3. \A t \in Submissions \ {s} : PhaseOf(t)' = PhaseOf(t)
    BY <1>1 DEF Enqueue, PhaseOf
  <1>4. \A t \in Submissions : WorkerIn(requests, t)' = WorkerIn(requests, t)
    BY DEF Enqueue, judges
  <1>5. AbstractJudging!Submit(s)
    BY <1>2, <1>3, <1>4 DEF AbstractJudging!Submit
  <1> QED
    BY <1>5 DEF AbstractStep, AbstractJudging!Next

LEMMA SendImplements ==
    ASSUME RefinementInv, NEW r \in Runs, RunSends(r)
    PROVE  AbstractStep
  <1> DEFINE s == run[r].sub
             j == run[r].judge
             q == [sub |-> s, judge |-> j, begun |-> FALSE]
  <1>1. s \in Submissions /\ j \in Judges /\ j # NoJudge
    BY QueueAssumption DEF RunSends, RefinementInv, TypeOK, NoJudge
  <1>2. CASE requests' = requests
    BY <1>2, UnchangedImplements DEF RunSends
  <1>3. CASE requests' = requests \cup {q}
    <2>1. \A p \in requests : p.sub # s /\ p.judge # j
      BY DEF RefinementInv, SerialInv, OneClaimPerSubmission, ClaimInv, OneClaimPerJudge,
             RunClaims, RunSends
    <2>2. \A p1, p2 \in requests : p1.sub = p2.sub => p1 = p2
      BY DEF RefinementInv, SerialInv, OneClaimPerSubmission, SubmissionExclusive
    <2>3. \A p1, p2 \in requests' : p1.sub = p2.sub => p1 = p2
      <3>1. q.sub = s
        OBVIOUS
      <3> HIDE DEF q, s, j
      <3> QED
        BY <1>3, <2>1, <2>2, <3>1
    <2>4. WorkerIn(requests, s) = NoJudge
      BY <2>1, NoRequestNoWorker
    <2>5. WorkerIn(requests', s) = j
      <3>1. q \in requests' /\ q.sub = s /\ q.judge = j
        BY <1>3
      <3>2. WorkerIn(requests', q.sub) = q.judge
        BY <2>3, <3>1, WorkerIsJudge
      <3> QED
        BY <3>1, <3>2
    <2>6. ASSUME NEW t \in Submissions \ {s}
          PROVE  WorkerIn(requests', t) = WorkerIn(requests, t) /\ WorkerIn(requests, t) # j
      <3>1. CASE \A p \in requests : p.sub # t
        <4>1. \A p \in requests' : p.sub # t
          BY <1>3, <3>1
        <4> QED
          BY <1>1, <3>1, <4>1, NoRequestNoWorker
      <3>2. ASSUME NEW p \in requests, p.sub = t
            PROVE  WorkerIn(requests', t) = WorkerIn(requests, t) /\ WorkerIn(requests, t) # j
        <4>1. WorkerIn(requests, p.sub) = p.judge
          BY <2>2, WorkerIsJudge
        <4>2. WorkerIn(requests', p.sub) = p.judge
          BY <1>3, <2>3, WorkerIsJudge
        <4> QED
          BY <2>1, <3>2, <4>1, <4>2
      <3> QED
        BY <3>1, <3>2
    <2>7. PhaseOf(s) = "queued"
      <3>1. s \in entries
        BY DEF RefinementInv, SerialInv, RunTakesFreeSubmission, RunSends
      <3> HIDE DEF s
      <3>2. createdAt[s] # 0
        BY <1>1, <3>1 DEF RefinementInv, AttemptsFollowQueueing
      <3> QED
        BY <3>1, <3>2 DEF PhaseOf
    <2>8. \A t \in Submissions : PhaseOf(t)' = PhaseOf(t)
      BY DEF PhaseOf, RunSends
    <2>9. AbstractJudging!Start(s, j)
      BY <1>1, <2>4, <2>5, <2>6, <2>7, <2>8 DEF AbstractJudging!Start
    <2> QED
      BY <1>1, <2>9 DEF AbstractStep, AbstractJudging!Next
  <1> QED
    BY <1>2, <1>3 DEF RunSends

\* begin-grading changes a request, not who works on what.
LEMMA BeginImplements ==
    ASSUME RefinementInv, NEW q \in requests, BeginGrading(q)
    PROVE  AbstractStep
  <1> DEFINE b == [q EXCEPT !.begun = TRUE]
  <1>1. b.sub = q.sub /\ b.judge = q.judge
    BY DEF RefinementInv, TypeOK, Requests
  <1>2. requests' = (requests \ {q}) \cup {b}
    BY DEF BeginGrading
  <1>3. \A p1, p2 \in requests : p1.sub = p2.sub => p1 = p2
    BY DEF RefinementInv, SerialInv, OneClaimPerSubmission, SubmissionExclusive
  <1>4. \A p1, p2 \in requests' : p1.sub = p2.sub => p1 = p2
    BY <1>1, <1>2, <1>3
  <1>5. ASSUME NEW t \in Submissions
        PROVE  WorkerIn(requests', t) = WorkerIn(requests, t)
    <2>1. CASE \A p \in requests : p.sub # t
      <3>1. \A p \in requests' : p.sub # t
        BY <1>1, <1>2, <2>1
      <3> QED
        BY <2>1, <3>1, NoRequestNoWorker
    <2>2. ASSUME NEW p \in requests, p.sub = t
          PROVE  WorkerIn(requests', t) = WorkerIn(requests, t)
      <3>1. PICK p1 \in requests' : p1.sub = t /\ p1.judge = p.judge
        BY <1>1, <1>2, <2>2
      <3>2. WorkerIn(requests, p.sub) = p.judge
        BY <1>3, WorkerIsJudge
      <3>3. WorkerIn(requests', p1.sub) = p1.judge
        BY <1>4, WorkerIsJudge
      <3> QED
        BY <2>2, <3>1, <3>2, <3>3
    <2> QED
      BY <2>1, <2>2
  <1>6. \A t \in Submissions : PhaseOf(t)' = PhaseOf(t)
    BY DEF PhaseOf, BeginGrading, database
  <1> QED
    BY <1>5, <1>6, StutterImplements

LEMMA WriteVerdictImplements ==
    ASSUME RefinementInv, NEW h \in handlers, WriteVerdict(h)
    PROVE  AbstractStep
  <1>1. ASSUME NEW t \in Submissions PROVE PhaseOf(t)' = PhaseOf(t)
    <2>1. ended[t] => ended'[t]
      BY DEF WriteVerdict, RefinementInv, TypeOK
    <2>2. createdAt[t] # 0 => t \in entries \/ ended[t]
      BY DEF RefinementInv, KeepInv, NoSubmissionLost
    <2>3. createdAt' = createdAt /\ entries' = entries
      BY DEF WriteVerdict
    <2> QED
      BY <2>1, <2>2, <2>3 DEF PhaseOf
  <1>2. \A t \in Submissions : WorkerIn(requests, t)' = WorkerIn(requests, t)
    BY DEF WriteVerdict, judges
  <1> QED
    BY <1>1, <1>2, StutterImplements

LEMMA DeleteImplements ==
    ASSUME RefinementInv, NEW h \in handlers, DeleteEntry(h)
    PROVE  AbstractStep
  <1>1. CASE h.sub \notin entries
    BY <1>1, UnchangedImplements DEF DeleteEntry, judges
  <1>2. CASE h.sub \in entries
    <2>1. /\ entries' = entries \ {h.sub} /\ h.sub \in Submissions
          /\ UNCHANGED <<createdAt, ended, requests>>
      BY <1>2 DEF DeleteEntry, judges, RefinementInv, TypeOK
    <2>2. ended[h.sub]
      BY DEF DeleteEntry, RefinementInv, KeepInv, DeletesFollowVerdicts
    <2>3. PhaseOf(h.sub) = "queued" /\ PhaseOf(h.sub)' = "judged"
      BY <1>2, <2>1, <2>2 DEF RefinementInv, AttemptsFollowQueueing, PhaseOf
    <2>4. \A t \in Submissions \ {h.sub} : PhaseOf(t)' = PhaseOf(t)
      BY <2>1 DEF PhaseOf
    <2>5. WorkerIn(requests, h.sub) = NoJudge
      BY NoRequestNoWorker DEF RefinementInv, SerialInv, OneClaimPerSubmission
    <2>6. \A t \in Submissions : WorkerIn(requests, t)' = WorkerIn(requests, t)
      BY <2>1
    <2>7. AbstractJudging!Finish(h.sub)
      BY <2>1, <2>3, <2>4, <2>5, <2>6 DEF AbstractJudging!Finish
    <2> QED
      BY <2>1, <2>7 DEF AbstractStep, AbstractJudging!Next
  <1> QED
    BY <1>1, <1>2

LEMMA NextImplements ==
    ASSUME RefinementInv, [Next]_vars
    PROVE  AbstractStep
  <1>1. ASSUME NEW r \in Runs, RunStarts(r) \/ RunQueries(r) \/ RunChooses(r) \/ RunMarks(r)
                                 \/ RunDbFails(r)
        PROVE  AbstractStep
    BY <1>1, UnchangedImplements
       DEF RunStarts, RunQueries, RunChooses, RunMarks, RunDbFails, database, judges
  <1>2. ASSUME NEW j \in Judges, JudgeConnects(j) \/ JudgeLosses(j)
        PROVE  AbstractStep
    BY <1>2, StopImplements
       DEF JudgeConnects, JudgeLosses, JudgeDrops, JudgeIsHidden, JudgeDropsInHandshake, database
  <1>3. ASSUME NEW q \in requests, JudgeEnds(q)
        PROVE  AbstractStep
    BY <1>3, StopImplements DEF JudgeEnds, JudgeFinishes, JudgeReportsError, database
  <1>4. ASSUME NEW h \in handlers, LookUpFailed(h) \/ HandlerDbFails(h)
        PROVE  AbstractStep
    BY <1>4, UnchangedImplements DEF LookUpFailed, HandlerDbFails, database, judges
  <1>5. ASSUME NEW w \in writes, WriteLands(w) \/ WriteDbFails(w)
        PROVE  AbstractStep
    BY <1>5, UnchangedImplements DEF WriteLands, WriteDbFails, database, judges
  <1>6. CASE Restart
    BY <1>6, StopImplements DEF Restart, database
  <1>7. CASE UNCHANGED vars
    BY <1>7, UnchangedImplements DEF vars, database, judges
  <1> QED
    BY <1>1, <1>2, <1>3, <1>4, <1>5, <1>6, <1>7, EnqueueImplements, SendImplements,
       BeginImplements, WriteVerdictImplements, DeleteImplements DEF Next, RunSteps, HandlerSteps

(***************************************************************************)
(* Without overlap every behaviour of the queue is one of Judging: a row   *)
(* goes only with its result stored, a submission has one judge at a time  *)
(* and a judge one submission, and what is judged is never sent again -    *)
(* for any numbers of submissions and judges and any faults.               *)
(***************************************************************************)
THEOREM QueueImplementsJudging ==
    ASSUME SerialRuns
    PROVE  Spec => JudgingIsImplemented
  <1>1. TypeOK /\ KeepInv /\ [Next]_vars => KeepInv'
    BY KeepInvNext
  <1>2. Spec => []KeepInv
    BY <1>1, KeepInvInit, TypeCorrect, PTL DEF Spec
  <1>3. ChargeInv => AttemptsFollowQueueing
    BY DEF ChargeInv
  <1>4. Spec => []RefinementInv
    BY <1>2, <1>3, TypeCorrect, ClaimsHold, SerialClaimsHold, ChargeInvHolds, PTL DEF RefinementInv
  <1>5. RefinementInv /\ [Next]_vars => [AbstractJudging!Next]_(AbstractJudging!vars)
    BY NextImplements DEF AbstractStep
  <1> QED
    BY <1>4, <1>5, InitImplements, PTL DEF Spec, JudgingIsImplemented, AbstractJudging!Spec

-------------------------------------------------------------------------------
(* The queue's environment is what the bridge is shown to provide. *)

(***************************************************************************)
(* The queue assumes no more of the judges than JudgeLinks says, which     *)
(* DMOJBridge implements.                                                  *)
(***************************************************************************)
THEOREM QueueUsesLinks == Spec => Links!Spec
  <1>1. Init => Links!Init
    BY DEF Init, Links!Init
  <1>2. [Next]_vars => [Links!Next]_link
    <2>1. ASSUME NEW j \in Judges, JudgeConnects(j) \/ JudgeLosses(j)
          PROVE  [Links!Next]_link
      BY <2>1 DEF JudgeConnects, JudgeLosses, JudgeDrops, JudgeIsHidden, JudgeDropsInHandshake,
                  Links!Next
    <2>2. CASE Restart
      BY <2>2 DEF Restart, Links!Next
    <2>3. CASE UNCHANGED link
      BY <2>3
    <2>4. [Next]_vars => \/ \E j \in Judges : JudgeConnects(j) \/ JudgeLosses(j)
                         \/ Restart
                         \/ UNCHANGED link
      BY DEF Next, vars, judges, RunSteps, Enqueue, RunStarts, RunQueries, RunChooses,
             RunMarks, RunSends, RunDbFails, BeginGrading, JudgeEnds, JudgeFinishes,
             JudgeReportsError, HandlerSteps, WriteVerdict, DeleteEntry, LookUpFailed,
             HandlerDbFails, WriteLands, WriteDbFails
    <2> QED
      BY <2>1, <2>2, <2>3, <2>4
  <1> QED
    BY <1>1, <1>2, PTL DEF Spec, Links!Spec

===============================================================================
