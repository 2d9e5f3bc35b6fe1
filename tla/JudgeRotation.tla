---------------------------- MODULE JudgeRotation ----------------------------
(***************************************************************************)
(* What the round-robin of getNextAvailableJudge promises the judges.  The *)
(* queue, the rows and the verdicts are left out: a judge is selected and  *)
(* claimed, works, and is freed; judges come and go.                       *)
(***************************************************************************)
EXTENDS RoundRobin

CONSTANT Judges   \* judge names, numbered in alphabetical order

ASSUME RotationAssumption == IsFiniteSet(Judges) /\ Judges \subseteq Nat

VARIABLES
    connectedJudgeNames, busyJudges, lastUsedJudgeIndex,
    \* History since the set of connected judges changed.
    passedOver,   \* how often each judge was available and not selected in a row
    overlapped    \* whether a judge was selected while others worked
history == <<passedOver, overlapped>>
vars == <<connectedJudgeNames, busyJudges, lastUsedJudgeIndex, history>>

TypeOK ==
    /\ connectedJudgeNames \subseteq Judges
    /\ busyJudges \subseteq Judges
    /\ lastUsedJudgeIndex = 0 \/ lastUsedJudgeIndex \in 1..Cardinality(Judges) - 1
    /\ passedOver \in [Judges -> Nat]
    /\ overlapped \in BOOLEAN

Init ==
    /\ connectedJudgeNames = {} /\ busyJudges = {}
    /\ lastUsedJudgeIndex = 0
    /\ passedOver = [j \in Judges |-> 0] /\ overlapped = FALSE

AvailableJudges == connectedJudgeNames \ busyJudges

\* Counting stops here: a judge passed over this often is passed over too often.
TooOften == 2 * Cardinality(Judges)

\* getNextAvailableJudge returns j, which assignToJudge claims.
SelectJudge(j) ==
    /\ IsSelected(j, AvailableJudges, lastUsedJudgeIndex)
    /\ lastUsedJudgeIndex' = IndexAfter(AvailableJudges, lastUsedJudgeIndex)
    /\ busyJudges' = busyJudges \cup {j}
    /\ passedOver' = [k \in Judges |->
                         IF k = j THEN 0
                         ELSE IF k \in AvailableJudges /\ passedOver[k] < TooOften
                              THEN passedOver[k] + 1 ELSE passedOver[k]]
    /\ overlapped' = (overlapped \/ busyJudges # {})
    /\ UNCHANGED connectedJudgeNames

\* completeSubmission or failSubmission frees j.
FreeJudge(j) ==
    /\ busyJudges' = busyJudges \ {j}
    /\ UNCHANGED <<connectedJudgeNames, lastUsedJudgeIndex, history>>

\* A judge connects, or its connection closes (which frees nothing).
JudgeConnects(j) ==
    /\ connectedJudgeNames' = connectedJudgeNames \cup {j}
    /\ passedOver' = [k \in Judges |-> 0] /\ overlapped' = FALSE
    /\ UNCHANGED <<busyJudges, lastUsedJudgeIndex>>

JudgeCloses(j) ==
    /\ connectedJudgeNames' = connectedJudgeNames \ {j}
    /\ passedOver' = [k \in Judges |-> 0] /\ overlapped' = FALSE
    /\ UNCHANGED <<busyJudges, lastUsedJudgeIndex>>

Next ==
    \/ \E j \in AvailableJudges : SelectJudge(j)
    \/ \E j \in busyJudges : FreeJudge(j)
    \/ \E j \in Judges \ connectedJudgeNames : JudgeConnects(j)
    \/ \E j \in connectedJudgeNames : JudgeCloses(j)

Spec == Init /\ [][Next]_vars

-------------------------------------------------------------------------------
(***************************************************************************)
(* The rotation is fair: while the same judges are connected, none is      *)
(* passed over as often as there are judges.  lastUsedJudgeIndex is an     *)
(* index into whichever list is available at the moment, so this needs     *)
(* every judge to be free again before the next selection, or no more than *)
(* two judges to be connected: then, however their work overlaps, neither  *)
(* is passed over twice in a row.                                          *)
(***************************************************************************)
RotationIsFair ==
    ~overlapped \/ Cardinality(connectedJudgeNames) <= 2 =>
        \A j \in connectedJudgeNames : passedOver[j] < Cardinality(connectedJudgeNames)

(***************************************************************************)
(* Why it is fair.  As long as every judge is free again before the next   *)
(* selection, the selections go through the whole list in turn, and a      *)
(* judge was passed over no more often than the turns behind it.  With two *)
(* judges, one that was passed over is free, and its turn is next.         *)
(***************************************************************************)
TurnsUntil(j) ==
    LET place == PositionIn(j, connectedJudgeNames)
        index == IndexInto(connectedJudgeNames, lastUsedJudgeIndex)
    IN  IF index <= place THEN place - index
        ELSE place + Cardinality(connectedJudgeNames) - index

InTurn ==
    ~overlapped =>
        \A j \in connectedJudgeNames :
            passedOver[j] + TurnsUntil(j) < Cardinality(connectedJudgeNames)

NextOfTwo ==
    Cardinality(connectedJudgeNames) <= 2 =>
        \A j \in connectedJudgeNames :
            passedOver[j] > 0 =>
                /\ passedOver[j] = 1 /\ Cardinality(connectedJudgeNames) = 2
                /\ j \notin busyJudges /\ TurnsUntil(j) = 0

RotationInv == TypeOK /\ InTurn /\ NextOfTwo

(***************************************************************************)
(* "Implement round-robin assignment to distribute load evenly": however   *)
(* the work of the judges overlaps, a judge that stays available is not    *)
(* passed over again and again.                                            *)
(***************************************************************************)
NobodyIsStarved == \A j \in Judges : passedOver[j] < TooOften

===============================================================================
