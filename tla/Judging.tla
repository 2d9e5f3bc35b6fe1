-------------------------------- MODULE Judging --------------------------------
(***************************************************************************)
(* What the queue promises: a submission waits, is worked on by one judge  *)
(* at a time, any number of times, and is finally judged, once.  A judge   *)
(* works on one submission at a time, work may be lost at any moment, and  *)
(* what is judged is never worked on again.                                *)
(***************************************************************************)
CONSTANTS Submissions, Judges, NoJudge

VARIABLES
    phase,   \* of each submission: "unknown", "queued" or "judged"
    worker   \* the judge that works on it, or NoJudge

vars == <<phase, worker>>

Init ==
    /\ phase = [s \in Submissions |-> "unknown"]
    /\ worker = [s \in Submissions |-> NoJudge]

Submit(s) ==
    /\ phase[s] = "unknown"
    /\ phase' = [phase EXCEPT ![s] = "queued"]
    /\ UNCHANGED worker

\* A judge that is free takes a submission that nobody works on.
Start(s, j) ==
    /\ phase[s] = "queued" /\ worker[s] = NoJudge
    /\ \A t \in Submissions : worker[t] # j
    /\ worker' = [worker EXCEPT ![s] = j]
    /\ UNCHANGED phase

\* The work on some submissions ends: with a report, or lost.
Stop(S) ==
    /\ worker' = [s \in Submissions |-> IF s \in S THEN NoJudge ELSE worker[s]]
    /\ UNCHANGED phase

\* The result is stored and the submission leaves the queue.
Finish(s) ==
    /\ phase[s] = "queued" /\ worker[s] = NoJudge
    /\ phase' = [phase EXCEPT ![s] = "judged"]
    /\ UNCHANGED worker

Next ==
    \/ \E s \in Submissions : Submit(s) \/ Finish(s) \/ \E j \in Judges : Start(s, j)
    \/ \E S \in SUBSET Submissions : Stop(S)

Spec == Init /\ [][Next]_vars

===============================================================================
