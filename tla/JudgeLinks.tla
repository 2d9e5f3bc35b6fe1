------------------------------ MODULE JudgeLinks ------------------------------
(***************************************************************************)
(* What the queue can see of the judges, and how it may change: the        *)
(* interface between DMOJBridge, which is shown to implement it, and       *)
(* SubmissionQueue, whose environment it is.                               *)
(***************************************************************************)
CONSTANT Judges   \* judge names

\* "down": getConnectedJudges does not list the name; "up": it does, and
\* submitToJudge succeeds; "ghost": it is listed and cannot be submitted to.
VARIABLE link

Init == link = [j \in Judges |-> "down"]

\* A handshake succeeds: the judge is offered and can be reached.
Appears(j) ==
    /\ link[j] = "down"
    /\ link' = [link EXCEPT ![j] = "up"]

\* A handshake succeeds on a socket that is gone, or in the shadow of one.
Haunts(j) ==
    /\ link[j] = "down"
    /\ link' = [link EXCEPT ![j] = "ghost"]

\* Some connection of that name closes: the name is listed no more.
Vanishes(j) ==
    /\ link[j] # "down"
    /\ link' = [link EXCEPT ![j] = "down"]

\* The server restarts: every connection is gone.
VanishAll == link' = [j \in Judges |-> "down"]

Next == VanishAll \/ \E j \in Judges : Appears(j) \/ Haunts(j) \/ Vanishes(j)

Spec == Init /\ [][Next]_link

===============================================================================
