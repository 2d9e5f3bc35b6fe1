------------------------------ MODULE TablesProofs ------------------------------
(***************************************************************************)
(* Proofs about the pure parts and the rotation of the judges, for tables  *)
(* of any size and any number of judges.                                   *)
(***************************************************************************)
EXTENDS MCTables, FiniteSetTheorems, SequenceTheorems, WellFoundedInduction, TLAPS

-------------------------------------------------------------------------------
(***************************************************************************)
(* Induction, as a statement about sets.  A recursive function of the      *)
(* model is a CHOOSE: LoopsExist shows that there is a function to choose, *)
(* LoopsAreUnique that it is the one the turns describe.                   *)
(***************************************************************************)

\* A set of numbers has a least one.
LEMMA Least ==
  ASSUME NEW T, T \subseteq Nat, T # {}
  PROVE \E m \in T : \A k \in T : m <= k
<1> DEFINE R == OpToRel(<,Nat)
<1>1. IsWellFoundedOn(R, Nat)
   BY NatLessThanWellFounded
<1>2. \A x, y \in Nat : x < y => <<x,y>> \in R
  BY DEF OpToRel
<1> HIDE DEF R
<1>3. PICK x \in T : \A y \in T : ~ (<<y, x>> \in R)
  BY <1>1, WFMin
<1>4. \A y \in T : ~(y < x)
  BY <1>2, <1>3
<1>5. \A y \in T : y \in Nat
  OBVIOUS
<1> QED BY <1>4, <1>5

\* What holds of 0, and of n + 1 with n, holds of every number.
LEMMA UpFromZero ==
  ASSUME NEW S, 0 \in S, \A n \in Nat : n \in S => n + 1 \in S
  PROVE Nat \subseteq S
<1>1. SUFFICES ASSUME Nat \ S # {} PROVE FALSE
  OBVIOUS
<1>2. PICK m \in Nat \ S : \A k \in Nat \ S : m <= k
  BY <1>1, Least
<1>3. m - 1 \in Nat /\ m - 1 \notin Nat \ S
  BY <1>2
<1> QED BY <1>2, <1>3

\* A loop over 1..n that starts with a and whose turn i makes step[i][x] of x.
Steps(n, X) == [1..n -> [X -> X]]
IsLoop(f, n, X, a, step) ==
    f \in [0..n -> X] /\ f[0] = a /\ \A i \in 1..n : f[i] = step[i][f[i - 1]]

LEMMA LoopsExist ==
  ASSUME NEW n \in Nat, NEW X, NEW a \in X, NEW step \in Steps(n, X)
  PROVE  \E f : IsLoop(f, n, X, a, step)
<1> DEFINE Loops(m, f) == f \in [0..m -> X] /\ f[0] = a /\ \A i \in 1..m : f[i] = step[i][f[i - 1]]
           S == {m \in Nat : m <= n => \E f : Loops(m, f)}
<1>1. 0 \in S
  <2>1. Loops(0, [i \in 0..0 |-> a])
    OBVIOUS
  <2> QED BY <2>1
<1>2. ASSUME NEW m \in Nat, m \in S PROVE m + 1 \in S
  <2>1. SUFFICES ASSUME m + 1 <= n PROVE \E f : Loops(m + 1, f)
    OBVIOUS
  <2>2. PICK f : Loops(m, f)
    BY <1>2, <2>1
  <2> DEFINE g == [i \in 0..m + 1 |-> IF i = m + 1 THEN step[i][f[i - 1]] ELSE f[i]]
  <2>3. f[m] \in X /\ step[m + 1] \in [X -> X]
    BY <2>1, <2>2 DEF Steps
  <2>4. g \in [0..m + 1 -> X]
    BY <2>2, <2>3
  <2>5. g[0] = a
    BY <2>2
  <2>6. ASSUME NEW i \in 1..m + 1 PROVE g[i] = step[i][g[i - 1]]
    <3>1. CASE i = m + 1
      <4>1. i - 1 \in 0..m + 1 /\ i - 1 # m + 1 /\ i \in 0..m+1
        BY <3>1
      <4> QED BY <3>1, <4>1
    <3>2. CASE i # m + 1
      <4>1. i \in 1..m /\ i - 1 \in 0..m + 1 /\ i - 1 # m + 1
        BY <3>2
      <4> QED BY <2>2, <3>2, <4>1
    <3> QED BY <3>1, <3>2
  <2> HIDE DEF g
  <2> QED BY <2>4, <2>5, <2>6
<1> HIDE DEF Loops
<1>3. Nat \subseteq S
  <2> HIDE DEF S
  <2> QED BY <1>1, <1>2, UpFromZero
<1>4. PICK f : Loops(n, f)
  BY <1>3
<1> QED BY <1>4 DEF Loops, IsLoop

\* The same as far as n.
LEMMA UpTo ==
  ASSUME NEW n \in Nat, NEW S, 0 \in S, \A i \in 1..n : i - 1 \in S => i \in S
  PROVE  \A i \in 0..n : i \in S
<1> DEFINE T == {i \in Nat : i <= n => i \in S}
<1>1. 0 \in T
  OBVIOUS
<1>2. \A i \in Nat : i \in T => i + 1 \in T
  OBVIOUS
<1>3. Nat \subseteq T
  <2> HIDE DEF T
  <2> QED BY <1>1, <1>2, UpFromZero
<1> QED BY <1>3

\* Both take a turn to the same if they come to it with the same.
SameTurns(n, f, g) ==
    f[0] = g[0] /\ \A i \in 1..n : f[i - 1] = g[i - 1] => f[i] = g[i]

\* Two functions that take the same turns are the same.
LEMMA LoopsAreUnique ==
  ASSUME NEW n \in Nat, NEW f, NEW g, SameTurns(n, f, g)
  PROVE  \A i \in 0..n : f[i] = g[i]
<1> DEFINE S == {i \in 0..n : f[i] = g[i]}
<1>1. 0 \in S /\ \A i \in 1..n : i - 1 \in S => i \in S
  BY DEF SameTurns
<1>2. \A i \in 0..n : i \in S
  <2> HIDE DEF S
  <2> QED BY <1>1, UpTo
<1> QED BY <1>2

-------------------------------------------------------------------------------
(* Places in a sorted list of judges. *)

LEMMA PlacesAreIndices ==
  ASSUME NEW A, IsFiniteSet(A), A \subseteq Nat, NEW j \in A
  PROVE  /\ Cardinality(A) \in Nat \ {0}
         /\ PositionIn(j, A) \in 0..Cardinality(A) - 1
<1> DEFINE before == {k \in A : k < j}
<1>1. IsFiniteSet(A \ {j}) /\ Cardinality(A \ {j}) = Cardinality(A) - 1
  BY FS_RemoveElement
<1>2. before \in SUBSET (A \ {j})
  OBVIOUS
<1>3. IsFiniteSet(before) /\ Cardinality(before) <= Cardinality(A \ {j})
  BY <1>1, <1>2, FS_Subset
<1>4. Cardinality(before) \in Nat /\ Cardinality(A) \in Nat /\ Cardinality(A \ {j}) \in Nat
  BY <1>1, <1>3, FS_CardinalityType
<1> QED BY <1>1, <1>3, <1>4 DEF PositionIn

LEMMA PlacesAreInOrder ==
  ASSUME NEW A, IsFiniteSet(A), A \subseteq Nat, NEW j \in A, NEW k \in A, j < k
  PROVE  PositionIn(j, A) < PositionIn(k, A)
<1> DEFINE beforeJ == {i \in A : i < j}
           beforeK == {i \in A : i < k}
<1>1. beforeK \in SUBSET A /\ beforeJ \in SUBSET A
  OBVIOUS
<1>2. IsFiniteSet(beforeK) /\ IsFiniteSet(beforeJ)
  BY <1>1, FS_Subset
<1>3. Cardinality(beforeJ \cup {j}) = Cardinality(beforeJ) + 1 /\ IsFiniteSet(beforeJ \cup {j})
  <2>1. j \notin beforeJ
    OBVIOUS
  <2> QED BY <1>2, <2>1, FS_AddElement
<1>4. beforeJ \cup {j} \in SUBSET beforeK
  <2>1. \A i \in beforeJ : i \in A /\ i < k
    <3>1. \A i \in A : i \in Nat
      OBVIOUS
    <3> QED BY <3>1
  <2> QED BY <2>1
<1>5. Cardinality(beforeJ \cup {j}) <= Cardinality(beforeK)
  BY <1>2, <1>4, FS_Subset
<1>6. Cardinality(beforeJ) \in Nat /\ Cardinality(beforeK) \in Nat
  BY <1>2, FS_CardinalityType
<1> QED BY <1>3, <1>5, <1>6 DEF PositionIn

\* No two judges have the same place.
LEMMA PlacesAreDistinct ==
  ASSUME NEW A, IsFiniteSet(A), A \subseteq Nat, NEW j \in A, NEW k \in A, j # k
  PROVE  PositionIn(j, A) # PositionIn(k, A)
<1>1. PositionIn(j, A) \in Int /\ PositionIn(k, A) \in Int
  <2>1. \A i \in A : PositionIn(i, A) \in 0..Cardinality(A) - 1
    BY PlacesAreIndices
  <2> QED BY <2>1
<1>2. CASE j < k
  <2>1. PositionIn(j, A) < PositionIn(k, A)
    BY <1>2, PlacesAreInOrder
  <2> QED BY <1>1, <2>1
<1>3. CASE k < j
  <2>1. PositionIn(k, A) < PositionIn(j, A)
    BY <1>3, PlacesAreInOrder
  <2> QED BY <1>1, <2>1
<1>4. j \in Nat /\ k \in Nat
  OBVIOUS
<1> QED BY <1>2, <1>3, <1>4

\* The index a list is read at, and the one after it.
LEMMA IndicesAreIndices ==
  ASSUME NEW A, IsFiniteSet(A), A \subseteq Nat, A # {}, NEW last \in Nat
  PROVE  /\ IndexInto(A, last) \in 0..Cardinality(A) - 1
         /\ IndexAfter(A, last) = IF IndexInto(A, last) + 1 = Cardinality(A) THEN 0
                                  ELSE IndexInto(A, last) + 1
         /\ IndexInto(A, IndexAfter(A, last)) = IndexAfter(A, last)
<1>1. Cardinality(A) \in Nat \ {0}
  BY PlacesAreIndices
<1>2. IndexInto(A, last) \in 0..Cardinality(A) - 1
  BY <1>1 DEF IndexInto
<1>3. IndexAfter(A, last) = IF IndexInto(A, last) + 1 = Cardinality(A) THEN 0
                            ELSE IndexInto(A, last) + 1
  BY <1>1, <1>2 DEF IndexAfter
<1>4. IndexAfter(A, last) \in 0..Cardinality(A) - 1
  BY <1>1, <1>2, <1>3
<1> QED BY <1>1, <1>2, <1>3, <1>4 DEF IndexInto

-------------------------------------------------------------------------------
(* The rotation. *)

LEMMA JudgesAreFinite ==
  ASSUME TypeOK
  PROVE  /\ IsFiniteSet(Judges) /\ Judges \subseteq Nat /\ Cardinality(Judges) \in Nat
         /\ IsFiniteSet(connectedJudgeNames) /\ connectedJudgeNames \subseteq Nat
         /\ Cardinality(connectedJudgeNames) \in Nat
         /\ Cardinality(connectedJudgeNames) <= Cardinality(Judges)
         /\ IsFiniteSet(AvailableJudges) /\ AvailableJudges \subseteq Nat
         /\ Cardinality(AvailableJudges) \in Nat
         /\ Cardinality(AvailableJudges) <= Cardinality(Judges)
         /\ lastUsedJudgeIndex \in Nat
<1>1. IsFiniteSet(Judges) /\ Judges \subseteq Nat /\ Cardinality(Judges) \in Nat
  BY RotationAssumption, FS_CardinalityType
<1>2. connectedJudgeNames \in SUBSET Judges /\ AvailableJudges \in SUBSET Judges
  BY DEF TypeOK, AvailableJudges
<1>3. IsFiniteSet(connectedJudgeNames) /\ IsFiniteSet(AvailableJudges)
      /\ Cardinality(connectedJudgeNames) <= Cardinality(Judges)
      /\ Cardinality(AvailableJudges) <= Cardinality(Judges)
  BY <1>1, <1>2, FS_Subset
<1>4. Cardinality(connectedJudgeNames) \in Nat /\ Cardinality(AvailableJudges) \in Nat
  BY <1>3, FS_CardinalityType
<1>5. lastUsedJudgeIndex \in Nat
  BY <1>1 DEF TypeOK
<1> QED BY <1>1, <1>2, <1>3, <1>4, <1>5

\* The index stays one of some list of judges.
LEMMA RotationTypeStep ==
  ASSUME TypeOK, Next
  PROVE  TypeOK'
<1> USE DEF TypeOK
<1>1. ASSUME NEW j \in AvailableJudges, SelectJudge(j)
      PROVE  TypeOK'
  <2>1. lastUsedJudgeIndex' = 0 \/ lastUsedJudgeIndex' \in 1..Cardinality(Judges) - 1
    BY <1>1, JudgesAreFinite, IndicesAreIndices DEF SelectJudge
  <2>2. j \in Judges
    BY DEF AvailableJudges
  <2>3. passedOver' \in [Judges -> Nat]
    BY <1>1 DEF SelectJudge
  <2>4. overlapped' \in BOOLEAN
    BY <1>1 DEF SelectJudge
  <2> QED BY <1>1, <2>1, <2>2, <2>3, <2>4 DEF SelectJudge
<1>2. ASSUME NEW j \in busyJudges, FreeJudge(j)
      PROVE  TypeOK'
  BY <1>2 DEF FreeJudge, history
<1>3. ASSUME NEW j \in Judges \ connectedJudgeNames, JudgeConnects(j)
      PROVE  TypeOK'
  BY <1>3 DEF JudgeConnects
<1>4. ASSUME NEW j \in connectedJudgeNames, JudgeCloses(j)
      PROVE  TypeOK'
  BY <1>4 DEF JudgeCloses
<1> QED BY <1>1, <1>2, <1>3, <1>4 DEF Next

\* When nobody is passed over yet, every judge's turn comes within the list.
NobodyIsPassedOver == passedOver = [j \in Judges |-> 0]

LEMMA FreshRotation == TypeOK /\ NobodyIsPassedOver => InTurn /\ NextOfTwo
<1> SUFFICES ASSUME TypeOK, passedOver = [j \in Judges |-> 0]
             PROVE  InTurn /\ NextOfTwo
  BY DEF NobodyIsPassedOver
<1>1. ASSUME NEW j \in connectedJudgeNames
      PROVE  TurnsUntil(j) \in 0..Cardinality(connectedJudgeNames) - 1 /\ passedOver[j] = 0
  <2>1. PositionIn(j, connectedJudgeNames) \in 0..Cardinality(connectedJudgeNames) - 1
    BY JudgesAreFinite, PlacesAreIndices
  <2>2. IndexInto(connectedJudgeNames, lastUsedJudgeIndex) \in 0..Cardinality(connectedJudgeNames) - 1
    BY JudgesAreFinite, IndicesAreIndices
  <2>3. passedOver[j] = 0
    BY DEF TypeOK
  <2> QED BY <2>1, <2>2, <2>3, JudgesAreFinite DEF TurnsUntil
<1> QED BY <1>1, JudgesAreFinite DEF InTurn, NextOfTwo

\* A selection moves everyone else one turn forward if all judges were free.
LEMMA SelectionKeepsTurns ==
  ASSUME RotationInv, NEW j \in AvailableJudges, SelectJudge(j)
  PROVE  InTurn'
<1> DEFINE C == connectedJudgeNames
           n == Cardinality(C)
           index == IndexInto(C, lastUsedJudgeIndex)
           next == IndexInto(C, lastUsedJudgeIndex')
           place(k) == PositionIn(k, C)
<1>1. SUFFICES ASSUME ~overlapped', NEW k \in C
               PROVE  passedOver'[k] + TurnsUntil(k)' < n
  BY DEF InTurn, SelectJudge
<1>2. TypeOK /\ InTurn
  BY DEF RotationInv
<1>3. ~overlapped /\ busyJudges = {} /\ AvailableJudges = C
  BY <1>1 DEF SelectJudge, AvailableJudges
<1>4. place(j) = index /\ index \in 0..n - 1 /\ n \in Nat \ {0}
      /\ next = IF index + 1 = n THEN 0 ELSE index + 1
  BY <1>2, <1>3, JudgesAreFinite, IndicesAreIndices, PlacesAreIndices DEF SelectJudge, IsSelected
<1>5. place(k) \in 0..n - 1 /\ (k # j => place(k) # index)
  BY <1>2, <1>3, <1>4, JudgesAreFinite, PlacesAreIndices, PlacesAreDistinct
<1>6. TurnsUntil(k)' = IF next <= place(k) THEN place(k) - next ELSE place(k) + n - next
  BY DEF TurnsUntil, SelectJudge
<1>7. TurnsUntil(k) = IF index <= place(k) THEN place(k) - index ELSE place(k) + n - index
  BY DEF TurnsUntil
<1>8. passedOver[k] \in Nat /\ passedOver[k] + TurnsUntil(k) < n
  BY <1>2, <1>3 DEF TypeOK, InTurn
<1>9. IF k = j THEN passedOver'[k] = 0 ELSE passedOver'[k] \in {passedOver[k], passedOver[k] + 1}
  BY <1>2 DEF SelectJudge, TypeOK
<1> HIDE DEF n, index, next, place
<1>10. CASE k = j
  BY <1>4, <1>5, <1>6, <1>9, <1>10
<1>11. CASE k # j
  BY <1>4, <1>5, <1>6, <1>7, <1>8, <1>9, <1>11
<1> QED BY <1>10, <1>11

\* With two judges, whoever is passed over was free and is next.
LEMMA SelectionKeepsNext ==
  ASSUME RotationInv, NEW j \in AvailableJudges, SelectJudge(j)
  PROVE  NextOfTwo'
<1> DEFINE C == connectedJudgeNames
           n == Cardinality(C)
           index == IndexInto(C, lastUsedJudgeIndex)
           next == IndexInto(C, lastUsedJudgeIndex')
           place(k) == PositionIn(k, C)
<1>1. SUFFICES ASSUME n <= 2, NEW k \in C, passedOver'[k] > 0
               PROVE  /\ passedOver'[k] = 1 /\ n = 2
                      /\ k \notin busyJudges' /\ TurnsUntil(k)' = 0
  BY DEF NextOfTwo, SelectJudge
<1>2. TypeOK /\ NextOfTwo
  BY DEF RotationInv
<1>3. k # j /\ j \in C /\ passedOver[k] \in Nat
  BY <1>1, <1>2 DEF SelectJudge, AvailableJudges, TypeOK
<1>4. n = 2 /\ place(j) \in 0..1 /\ place(k) \in 0..1 /\ place(j) # place(k)
  BY <1>1, <1>2, <1>3, JudgesAreFinite, PlacesAreIndices, PlacesAreDistinct
<1>5. AvailableJudges = C /\ k \notin busyJudges
  <2>1. k \in AvailableJudges
    <3>1. SUFFICES ASSUME k \notin AvailableJudges PROVE FALSE
      OBVIOUS
    <3>2. passedOver[k] > 0
      BY <1>1, <1>2, <1>3, <3>1 DEF SelectJudge, TypeOK
    <3>3. k \notin busyJudges
      BY <1>1, <1>2, <3>2 DEF NextOfTwo
    <3> QED BY <3>1, <3>3 DEF AvailableJudges
  <2>2. C \subseteq {j, k}
    <3>1. SUFFICES ASSUME NEW i \in C, i # j, i # k PROVE FALSE
      OBVIOUS
    <3>2. place(i) \in 0..1 /\ place(i) # place(j) /\ place(i) # place(k)
      BY <1>2, <1>3, <1>4, <3>1, JudgesAreFinite, PlacesAreIndices, PlacesAreDistinct
    <3> QED BY <1>4, <3>2
  <2> QED BY <2>1, <2>2 DEF AvailableJudges
<1>6. place(j) = index /\ next = IF index + 1 = n THEN 0 ELSE index + 1
  BY <1>2, <1>3, <1>5, JudgesAreFinite, IndicesAreIndices DEF SelectJudge, IsSelected
<1>7. TurnsUntil(k)' = IF next <= place(k) THEN place(k) - next ELSE place(k) + n - next
  BY DEF TurnsUntil, SelectJudge
<1>8. TurnsUntil(k) = IF index <= place(k) THEN place(k) - index ELSE place(k) + n - index
  BY DEF TurnsUntil
<1>9. passedOver[k] > 0 => TurnsUntil(k) = 0
  BY <1>1, <1>2 DEF NextOfTwo
<1>10. passedOver'[k] \in {passedOver[k], passedOver[k] + 1}
  BY <1>2, <1>3 DEF SelectJudge, TypeOK
<1>11. k \notin busyJudges'
  BY <1>3, <1>5 DEF SelectJudge
<1> HIDE DEF n, index, next, place
<1>12. passedOver[k] = 0
  BY <1>3, <1>4, <1>6, <1>8, <1>9
<1>13. passedOver'[k] = 1
  BY <1>1, <1>10, <1>12
<1>14. TurnsUntil(k)' = 0
  BY <1>4, <1>6, <1>7
<1> QED BY <1>4, <1>11, <1>13, <1>14

LEMMA RotationInvStep ==
  ASSUME RotationInv, [Next]_vars
  PROVE  RotationInv'
<1>1. TypeOK /\ InTurn /\ NextOfTwo
  BY DEF RotationInv
<1>2. CASE Next
  <2>1. TypeOK'
    BY <1>1, <1>2, RotationTypeStep
  <2>2. ASSUME NEW j \in AvailableJudges, SelectJudge(j)
        PROVE  InTurn' /\ NextOfTwo'
    BY <2>2, SelectionKeepsTurns, SelectionKeepsNext
  <2>3. ASSUME NEW j \in busyJudges, FreeJudge(j)
        PROVE  InTurn' /\ NextOfTwo'
    BY <1>1, <2>3 DEF FreeJudge, history, InTurn, NextOfTwo, TurnsUntil
  <2>4. ASSUME passedOver' = [k \in Judges |-> 0]
        PROVE  InTurn' /\ NextOfTwo'
    <3>1. (TypeOK /\ NobodyIsPassedOver => InTurn /\ NextOfTwo)'
      BY FreshRotation, PTL
    <3> QED BY <2>1, <2>4, <3>1 DEF NobodyIsPassedOver
  <2>5. ASSUME NEW j \in Judges \ connectedJudgeNames, JudgeConnects(j)
        PROVE  InTurn' /\ NextOfTwo'
    BY <2>4, <2>5 DEF JudgeConnects
  <2>6. ASSUME NEW j \in connectedJudgeNames, JudgeCloses(j)
        PROVE  InTurn' /\ NextOfTwo'
    BY <2>4, <2>6 DEF JudgeCloses
  <2> QED BY <1>2, <2>1, <2>2, <2>3, <2>5, <2>6 DEF Next, RotationInv
<1>3. CASE UNCHANGED vars
  BY <1>1, <1>3 DEF vars, history, RotationInv, TypeOK, InTurn, NextOfTwo, TurnsUntil
<1> QED BY <1>2, <1>3

LEMMA RotationInvStarts == Init => RotationInv
<1>1. Init => TypeOK
  <2>1. [j \in Judges |-> 0] \in [Judges -> Nat]
    OBVIOUS
  <2> QED BY <2>1 DEF Init, TypeOK
<1>2. Init => InTurn /\ NextOfTwo
  BY <1>1, FreshRotation DEF Init, NobodyIsPassedOver
<1> QED BY <1>1, <1>2 DEF RotationInv

LEMMA RotationInvIsFair == RotationInv => RotationIsFair
<1>1. SUFFICES ASSUME RotationInv, NEW j \in connectedJudgeNames,
                      ~overlapped \/ Cardinality(connectedJudgeNames) <= 2
               PROVE  passedOver[j] < Cardinality(connectedJudgeNames)
  BY DEF RotationIsFair
<1>2. TypeOK /\ InTurn /\ NextOfTwo /\ passedOver[j] \in Nat
  BY <1>1 DEF RotationInv, TypeOK
<1>3. Cardinality(connectedJudgeNames) \in Nat \ {0}
  BY <1>1, <1>2, JudgesAreFinite, PlacesAreIndices
<1>4. CASE ~overlapped
  <2>1. TurnsUntil(j) \in Nat
    BY <1>1, <1>2, JudgesAreFinite, PlacesAreIndices, IndicesAreIndices DEF TurnsUntil
  <2> QED BY <1>1, <1>2, <1>3, <1>4, <2>1 DEF InTurn
<1>5. CASE Cardinality(connectedJudgeNames) <= 2
  BY <1>1, <1>2, <1>3, <1>5 DEF NextOfTwo
<1> QED BY <1>1, <1>4, <1>5

\* However many judges there are, and whichever come and go: what is said of the turns
\* holds as long as the judges' work does not overlap, and of at most two judges.
THEOREM RotationInvHolds == Spec => []RotationInv
<1> QED BY RotationInvStarts, RotationInvStep, PTL DEF Spec


\* Of any number of judges whose work does not overlap, and of two whatever they do, none
\* is passed over as often as there are judges; the questions leave the judges alone.
THEOREM TheRotationIsFair == TablesSpec => []RotationIsFair
<1>1. TablesInit => RotationInv
  BY RotationInvStarts DEF TablesInit
<1>2. RotationInv /\ [TablesNext]_<<question, vars>> => RotationInv'
  BY RotationInvStep DEF TablesNext
<1> QED BY <1>1, <1>2, RotationInvIsFair, PTL DEF TablesSpec

-------------------------------------------------------------------------------
(* Verdicts. *)

LEMMA Priorities ==
  /\ VerdictPriority["AC"] = 0 /\ VerdictPriority["SK"] = 0 /\ VerdictPriority["WA"] = 1
  /\ VerdictPriority["IR"] = 2 /\ VerdictPriority["RTE"] = 3 /\ VerdictPriority["OLE"] = 4
  /\ VerdictPriority["MLE"] = 5 /\ VerdictPriority["TLE"] = 6 /\ VerdictPriority["CE"] = 7
  /\ VerdictPriority["AB"] = 8 /\ VerdictPriority["ISE"] = 9
  BY DEF VerdictPriority, CaseVerdicts

\* Only a skipped case has the priority of another, an accepted one.
LEMMA PrioritiesDiffer ==
  ASSUME NEW v \in CaseVerdicts \ {"SK"}, NEW w \in CaseVerdicts \ {"SK"},
         VerdictPriority[v] <= VerdictPriority[w], VerdictPriority[w] <= VerdictPriority[v]
  PROVE  v = w
  BY Priorities DEF CaseVerdicts

LEMMA PrioritiesAreNumbers == \A v \in CaseVerdicts : VerdictPriority[v] \in Nat
  BY Priorities DEF CaseVerdicts

\* There is one worst verdict.
LEMMA WorstIs ==
  ASSUME NEW verdicts \in SUBSET CaseVerdicts, NEW v \in verdicts \cup {"AC"}, v # "SK",
         \A w \in verdicts : VerdictPriority[w] <= VerdictPriority[v]
  PROVE  Worst(verdicts) = v
<1> DEFINE IsWorst(u) == /\ u # "SK"
                         /\ \A w \in verdicts : VerdictPriority[w] <= VerdictPriority[u]
<1>1. v \in CaseVerdicts /\ "AC" \in CaseVerdicts
  BY DEF CaseVerdicts
<1>2. ASSUME NEW u \in verdicts \cup {"AC"}, IsWorst(u)
      PROVE  u = v
  <2>1. u \in CaseVerdicts \ {"SK"} /\ v \in CaseVerdicts \ {"SK"}
    BY <1>1, <1>2
  <2>2. VerdictPriority["AC"] <= VerdictPriority[u] /\ VerdictPriority["AC"] <= VerdictPriority[v]
    BY <1>1, <2>1, Priorities, PrioritiesAreNumbers
  <2>3. VerdictPriority[u] <= VerdictPriority[v] /\ VerdictPriority[v] <= VerdictPriority[u]
    BY <1>2, <2>2
  <2> QED BY <2>1, <2>3, PrioritiesDiffer
<1>3. Worst(verdicts) = CHOOSE u \in verdicts \cup {"AC"} : IsWorst(u)
  BY DEF Worst
<1>4. IsWorst(v)
  OBVIOUS
<1> HIDE DEF IsWorst
<1> QED BY <1>2, <1>3, <1>4

LEMMA VerdictsOfFlags ==
  /\ DOMAIN StatusFlags = 1..8
  /\ \A i \in 1..8 : StatusFlags[i].verdict \in CaseVerdicts \ {"AC"}
  /\ \A i \in 1..8 : StatusFlags[i].verdict = "SK" <=> i = 8
  /\ \A i, j \in 1..8 :
        i < j => VerdictPriority[StatusFlags[j].verdict] < VerdictPriority[StatusFlags[i].verdict]
<1>1. DOMAIN StatusFlags = 1..8
  BY DEF StatusFlags
<1>2. /\ StatusFlags[1].verdict = "ISE" /\ StatusFlags[2].verdict = "TLE"
      /\ StatusFlags[3].verdict = "MLE" /\ StatusFlags[4].verdict = "OLE"
      /\ StatusFlags[5].verdict = "RTE" /\ StatusFlags[6].verdict = "IR"
      /\ StatusFlags[7].verdict = "WA" /\ StatusFlags[8].verdict = "SK"
  BY DEF StatusFlags
<1>3. \A i \in 1..8 : i = 1 \/ i = 2 \/ i = 3 \/ i = 4 \/ i = 5 \/ i = 6 \/ i = 7 \/ i = 8
  OBVIOUS
<1>4. \A i \in 1..8 : /\ StatusFlags[i].verdict \in CaseVerdicts \ {"AC"}
                      /\ StatusFlags[i].verdict = "SK" <=> i = 8
  BY <1>2, <1>3 DEF CaseVerdicts
<1>5. \A i \in 1..8 : VerdictPriority[StatusFlags[i].verdict] =
        IF i = 1 THEN 9 ELSE 8 - i
  BY <1>2, <1>3, Priorities
<1>6. \A i, j \in 1..8 :
        i < j => VerdictPriority[StatusFlags[j].verdict] < VerdictPriority[StatusFlags[i].verdict]
  BY <1>5
<1> QED BY <1>1, <1>4, <1>6

LEMMA FlagsDoAgree ==
  ASSUME NEW status
  PROVE  FlagsAgreeWithPriorities(status)
<1> DEFINE set == {i \in DOMAIN StatusFlags : HasFlag(status, StatusFlags[i].bit)}
           V(i) == StatusFlags[i].verdict
           verdicts == {f.verdict : f \in KnownFlags(status)}
<1>1. verdicts = {V(i) : i \in set}
  BY DEF KnownFlags
<1>2. SUFFICES ASSUME set # {}
               PROVE  Worse("AC", MapDMOJStatusToVerdict(status)) = Worst(verdicts)
  BY DEF FlagsAgreeWithPriorities, KnownFlags
<1>3. set \subseteq 1..8
  BY VerdictsOfFlags
<1>4. PICK m \in set : \A i \in set : m <= i
  BY <1>2, <1>3, Least
<1>5. Min(set) = m
  BY <1>3, <1>4 DEF Min
<1>6. MapDMOJStatusToVerdict(status) = V(m)
  BY <1>2, <1>5 DEF MapDMOJStatusToVerdict
<1>7. \A i \in set : VerdictPriority[V(i)] <= VerdictPriority[V(m)]
  <2>1. ASSUME NEW i \in set PROVE VerdictPriority[V(i)] <= VerdictPriority[V(m)]
    <3>1. i \in 1..8 /\ m \in 1..8 /\ (m = i \/ m < i)
      BY <1>3, <1>4
    <3>2. VerdictPriority[V(i)] \in Nat /\ VerdictPriority[V(m)] \in Nat
      BY <3>1, VerdictsOfFlags, PrioritiesAreNumbers
    <3>3. m < i => VerdictPriority[V(i)] < VerdictPriority[V(m)]
      BY <3>1, VerdictsOfFlags
    <3> QED BY <3>1, <3>2, <3>3
  <2> QED BY <2>1
<1>8. m \in 1..8 /\ V(m) \in CaseVerdicts \ {"AC"} /\ V(m) \in verdicts /\ verdicts \subseteq CaseVerdicts
  BY <1>1, <1>3, <1>4, VerdictsOfFlags
<1> HIDE DEF set, V, verdicts
<1>9. CASE m = 8
  <2>1. V(m) = "SK" /\ set = {8}
    <3>1. V(m) = "SK"
      BY <1>9, VerdictsOfFlags DEF V
    <3>2. \A i \in set : i \in 1..8 /\ 8 <= i
      BY <1>3, <1>4, <1>9
    <3>3. \A i \in set : i = 8
      BY <3>2
    <3> QED BY <1>4, <1>9, <3>1, <3>3
  <2>2. verdicts = {"SK"}
    BY <1>1, <1>9, <2>1
  <2>3. Worst(verdicts) = "AC"
    BY <1>8, <2>2, Priorities, WorstIs
  <2> QED BY <1>6, <2>1, <2>3 DEF Worse
<1>10. CASE m # 8
  <2>1. V(m) # "SK"
    BY <1>8, <1>10, VerdictsOfFlags DEF V
  <2>2. \A w \in verdicts : VerdictPriority[w] <= VerdictPriority[V(m)]
    BY <1>1, <1>7
  <2>3. Worst(verdicts) = V(m)
    BY <1>8, <2>1, <2>2, WorstIs
  <2>4. VerdictPriority[V(m)] > VerdictPriority["AC"]
    BY <1>8, <2>1, Priorities DEF CaseVerdicts
  <2> QED BY <1>6, <2>1, <2>3, <2>4 DEF Worse
<1> QED BY <1>9, <1>10

\* The loop of handleGradingEnd, turn by turn.
LEMMA FinalVerdictLoop ==
  ASSUME NEW verdicts \in Seq(CaseVerdicts)
  PROVE  \E f \in [0..Len(verdicts) -> CaseVerdicts] :
            /\ f[0] = "AC" /\ \A i \in 1..Len(verdicts) : f[i] = Worse(f[i - 1], verdicts[i])
            /\ FinalVerdict(verdicts) = f[Len(verdicts)]
<1> DEFINE n == Len(verdicts)
           step == [i \in 1..n |-> [v \in CaseVerdicts |-> Worse(v, verdicts[i])]]
           IsUpTo(f) == f = [i \in 0..n |-> IF i = 0 THEN "AC" ELSE Worse(f[i - 1], verdicts[i])]
           loop == CHOOSE f : IsUpTo(f)
<1>1. n \in Nat /\ \A i \in 1..n : verdicts[i] \in CaseVerdicts
  OBVIOUS
<1>2. step \in Steps(n, CaseVerdicts)
  BY <1>1 DEF Worse, Steps
<1>3. "AC" \in CaseVerdicts
  BY DEF CaseVerdicts
<1>4. PICK f : IsLoop(f, n, CaseVerdicts, "AC", step)
  <2>1. n \in Nat
    BY <1>1
  <2> HIDE DEF n, step
  <2> QED BY <2>1, <1>2, <1>3, LoopsExist
<1>5. f \in [0..n -> CaseVerdicts] /\ f[0] = "AC" /\ \A i \in 1..n : f[i] = Worse(f[i - 1], verdicts[i])
  <2>1. n \in Nat /\ \A i \in 1..n, v \in CaseVerdicts : step[i][v] = Worse(v, verdicts[i])
    BY <1>1
  <2> HIDE DEF n, step
  <2>2. f \in [0..n -> CaseVerdicts] /\ f[0] = "AC" /\ \A i \in 1..n : f[i] = step[i][f[i - 1]]
    BY <1>4 DEF IsLoop
  <2>3. \A i \in 1..n : f[i - 1] \in CaseVerdicts
    BY <2>1, <2>2
  <2> QED BY <2>1, <2>2, <2>3
<1>6. IsUpTo(f)
  BY <1>1, <1>5
<1>7. FinalVerdict(verdicts) = loop[n]
  BY DEF FinalVerdict
<1>8. IsUpTo(loop)
  <2> HIDE DEF IsUpTo
  <2> QED BY <1>6
<1>9. \A i \in 0..n : loop[i] = f[i]
  <2>1. loop[0] = f[0] /\ \A i \in 1..n : loop[i] = Worse(loop[i - 1], verdicts[i])
    <3> HIDE DEF loop
    <3> QED BY <1>1, <1>5, <1>8
  <2>2. n \in Nat
    BY <1>1
  <2> HIDE DEF loop, n
  <2>3. SameTurns(n, loop, f)
    BY <1>5, <2>1 DEF SameTurns
  <2> QED BY <2>2, <2>3, LoopsAreUnique
<1>10. n \in 0..n
  BY <1>1
<1> HIDE DEF loop, step
<1>11. FinalVerdict(verdicts) = f[n]
  BY <1>7, <1>9, <1>10
<1> QED BY <1>5, <1>11

LEMMA OrderDoesntMatter ==
  ASSUME NEW verdicts \in Seq(CaseVerdicts)
  PROVE  OrderDoesNotMatter(verdicts)
<1> DEFINE n == Len(verdicts)
           prio(v) == VerdictPriority[v]
<1>1. n \in Nat /\ \A i \in 1..n : verdicts[i] \in CaseVerdicts
  OBVIOUS
<1>2. PICK f \in [0..n -> CaseVerdicts] :
            /\ f[0] = "AC" /\ \A i \in 1..n : f[i] = Worse(f[i - 1], verdicts[i])
            /\ FinalVerdict(verdicts) = f[n]
  BY FinalVerdictLoop
<1> DEFINE IsWorstOf(i) == /\ f[i] # "SK" /\ f[i] \in {verdicts[k] : k \in 1..i} \cup {"AC"}
                           /\ \A k \in 1..i : prio(verdicts[k]) <= prio(f[i])
           S == {i \in 0..n : IsWorstOf(i)}
<1>3. 0 \in S
  BY <1>1, <1>2
<1>4. ASSUME NEW i \in 1..n, i - 1 \in S
      PROVE  i \in S
  <2>1. IsWorstOf(i - 1) /\ i - 1 \in 0..n /\ f[i - 1] \in CaseVerdicts /\ verdicts[i] \in CaseVerdicts
    BY <1>1, <1>2, <1>4
  <2>2. f[i] = IF verdicts[i] # "SK" /\ prio(verdicts[i]) > prio(f[i - 1]) THEN verdicts[i] ELSE f[i - 1]
    BY <1>2 DEF Worse
  <2>3. prio(f[i - 1]) \in Nat /\ prio(verdicts[i]) \in Nat /\ prio("SK") = 0
        /\ \A k \in 1..i - 1 : prio(verdicts[k]) \in Nat
    BY <1>1, <2>1, Priorities, PrioritiesAreNumbers
  <2>4. prio(f[i - 1]) <= prio(f[i]) /\ prio(verdicts[i]) <= prio(f[i])
    BY <2>2, <2>3
  <2>5. \A k \in 1..i : k \in 1..i - 1 \/ k = i
    OBVIOUS
  <2>6. \A k \in 1..i : prio(verdicts[k]) <= prio(f[i])
    <3>1. prio(f[i]) \in Nat
      BY <2>2, <2>3
    <3> HIDE DEF prio
    <3> QED BY <2>1, <2>3, <2>4, <2>5, <3>1
  <2>7. f[i] # "SK" /\ f[i] \in {verdicts[k] : k \in 1..i} \cup {"AC"}
    <3>1. {verdicts[k] : k \in 1..i - 1} \subseteq {verdicts[k] : k \in 1..i}
      OBVIOUS
    <3>2. verdicts[i] \in {verdicts[k] : k \in 1..i}
      OBVIOUS
    <3> QED BY <2>1, <2>2, <3>1, <3>2
  <2> QED BY <2>6, <2>7
<1>5. IsWorstOf(n)
  <2>1. \A i \in 0..n : i \in S
    <3> HIDE DEF S, n
    <3> QED BY <1>1, <1>3, <1>4, UpTo
  <2> QED BY <1>1, <2>1
<1>6. DOMAIN verdicts = 1..n
  OBVIOUS
<1>7. {verdicts[k] : k \in 1..n} \in SUBSET CaseVerdicts
  BY <1>1
<1>8. Worst({verdicts[k] : k \in 1..n}) = f[n]
  <2>1. \A w \in {verdicts[k] : k \in 1..n} : VerdictPriority[w] <= VerdictPriority[f[n]]
    BY <1>5
  <2> QED BY <1>5, <1>7, <2>1, WorstIs
<1> QED BY <1>2, <1>6, <1>8 DEF OrderDoesNotMatter

-------------------------------------------------------------------------------
(* Points. *)

\* The quotient of a division lies between its multiples.
LEMMA Quotients ==
  ASSUME NEW a \in Nat, NEW b \in Nat \ {0}
  PROVE  a \div b \in Nat /\ (a \div b) * b <= a /\ a < (a \div b) * b + b
OBVIOUS

LEMMA LargerQuotients ==
  ASSUME NEW a \in Nat, NEW b \in Nat, a <= b, NEW d \in Nat \ {0}
  PROVE  a \div d <= b \div d
<1> DEFINE q == a \div d
           r == b \div d
<1>1. q \in Nat /\ r \in Nat /\ q * d <= a /\ b < r * d + d
  BY Quotients
<1> HIDE DEF q, r
<1>2. q * d < (r + 1) * d
  BY <1>1
<1>3. q < r + 1
  BY <1>1, <1>2
<1> QED BY <1>1, <1>3 DEF q, r

\* A quotient is the one number whose multiples it lies between.
LEMMA QuotientIs ==
  ASSUME NEW a \in Nat, NEW d \in Nat \ {0}, NEW q \in Nat
  PROVE  /\ (a \div d = q) <=> (q * d <= a /\ a < q * d + d)
         /\ (a \div d < q) <=> (a < q * d)
<1> DEFINE r == a \div d
<1>1. r \in Nat /\ r * d <= a /\ a < r * d + d
  BY Quotients
<1> HIDE DEF r
<1>2. ASSUME r < q PROVE r * d + d <= q * d
  <2>1. (r + 1) * d <= q * d
    BY <1>1, <1>2
  <2> QED BY <1>1, <2>1
<1>3. ASSUME q < r PROVE q * d + d <= r * d
  <2>1. (q + 1) * d <= r * d
    BY <1>1, <1>3
  <2> QED BY <1>1, <2>1
<1>4. r = q => r * d = q * d
  OBVIOUS
<1>5. q * d \in Nat /\ r * d \in Nat
  BY <1>1
<1>6. (r = q) <=> (q * d <= a /\ a < q * d + d)
  BY <1>1, <1>2, <1>3, <1>4, <1>5
<1>7. r < q <=> a < q * d
  BY <1>1, <1>2, <1>3, <1>4, <1>5
<1> QED BY <1>6, <1>7 DEF r

LEMMA PointsDoFollowScore ==
  ASSUME NEW c \in Nat, NEW t \in Nat \ {0}, c <= t, NEW points \in Nat
  PROVE  PointsFollowScore(c, t, points)
<1> DEFINE scaled(x) == 2 * x * points * 1000 + t
           S == scaled(c)
           D == 2 * t
           full == points * 1000
<1>1. ASSUME NEW x \in Nat
      PROVE  /\ scaled(x) \in Nat /\ scaled(x) = 2000 * (x * points) + t
             /\ SubmissionPoints(x, t, points) = scaled(x) \div (2 * t)
  BY DEF SubmissionPoints
<1>2. D \in Nat \ {0} /\ full \in Nat /\ full * D = 2000 * (t * points)
  OBVIOUS
<1>3. S \in Nat /\ S = 2000 * (c * points) + t /\ SubmissionPoints(c, t, points) = S \div D
  BY <1>1
<1>4. c * points \in Nat /\ t * points \in Nat /\ (c = t => c * points = t * points)
      /\ (c = 0 => c * points = 0)
  OBVIOUS
<1> HIDE DEF scaled, S, D, full
<1>5. SubmissionPoints(c, t, points) <= SubmissionPoints(c + 1, t, points)
  <2>1. (c + 1) * points = c * points + points
    OBVIOUS
  <2>2. scaled(c + 1) \in Nat /\ scaled(c + 1) = 2000 * ((c + 1) * points) + t
        /\ SubmissionPoints(c + 1, t, points) = scaled(c + 1) \div (2 * t)
    BY <1>1
  <2>3. S <= scaled(c + 1)
    BY <1>3, <1>4, <2>1, <2>2
  <2>4. S \div D <= scaled(c + 1) \div D
    BY <1>2, <1>3, <2>2, <2>3, LargerQuotients
  <2> QED BY <1>3, <2>2, <2>4 DEF D
<1>6. S \div D \in Nat
  BY <1>2, <1>3, Quotients
<1>7. /\ S \div D = full <=> full * D <= S /\ S < full * D + D
      /\ S \div D < full <=> S < full * D
  <2>1. D \in Nat \ {0} /\ full \in Nat /\ S \in Nat
    BY <1>2, <1>3
  <2> QED BY <2>1, QuotientIs
<1>8. S \div D = 0 <=> S < D
  <2>1. S \div D = 0 <=> 0 * D <= S /\ S < 0 * D + D
    BY <1>2, <1>3, QuotientIs
  <2> QED BY <1>2, <1>3, <2>1
<1>9. ASSUME t < 2000 * points
      PROVE  S \div D = full <=> c = t
  <2>1. CASE c = t
    BY <1>2, <1>3, <1>4, <1>7, <2>1 DEF D
  <2>2. CASE c # t
    <3>1. (c + 1) * points <= t * points /\ (c + 1) * points = c * points + points
      BY <2>2
    <3>2. S < full * D
      BY <1>2, <1>3, <1>4, <1>9, <3>1
    <3> QED BY <1>2, <1>6, <1>7, <2>2, <3>2
  <2> QED BY <2>1, <2>2
<1>10. ASSUME t < 2000 * points
       PROVE  S \div D = 0 <=> c = 0
  <2>1. CASE c = 0
    BY <1>2, <1>3, <1>4, <1>8, <2>1 DEF D
  <2>2. CASE c # 0
    <3>1. points <= c * points
      BY <2>2
    <3> QED BY <1>3, <1>4, <1>8, <1>10, <2>2, <3>1 DEF D
  <2> QED BY <2>1, <2>2
<1> QED BY <1>3, <1>5, <1>9, <1>10 DEF PointsFollowScore, full

-------------------------------------------------------------------------------
(* Who may do what with a problem. *)

LEMMA UsersAreUsers ==
  ASSUME NEW user \in Users
  PROVE  /\ user.known \in BOOLEAN /\ user.perms \subseteq Permissions /\ user.roles \subseteq Roles
         /\ user.known \/ user = NoUser
         /\ user.known => user \in [known : {TRUE}, perms : SUBSET Permissions, roles : SUBSET Roles]
<1>1. CASE user = NoUser
  BY <1>1 DEF NoUser
<1>2. CASE user \in [known : {TRUE}, perms : SUBSET Permissions, roles : SUBSET Roles]
  BY <1>2
<1> QED BY <1>1, <1>2 DEF Users

LEMMA ViewsDoAgree ==
  ASSUME NEW user \in Users, NEW problem \in Problems
  PROVE  ViewsAgree(user, problem)
<1>1. user.known \in BOOLEAN /\ problem.isDeleted \in BOOLEAN /\ (~user.known => user = NoUser)
  BY UsersAreUsers DEF Problems
<1> QED
  BY <1>1 DEF ViewsAgree, ViewableProblem, FoundWithSlug, FoundWithSubmission, InStatusList,
     HasViewAllProbsPerms, NoUser

LEMMA EditorsDoAgree ==
  ASSUME NEW user \in Users, NEW problem \in Problems
  PROVE  EditorsAgree(user, problem)
<1>1. user.known \/ user = NoUser
  BY UsersAreUsers
<1>2. CanEditTestcases(user, problem) = (CanFinalize(user, problem) /\ ~problem.isLocked)
  BY DEF CanEditTestcases, CanFinalize
<1>3. ASSUME CanFinalize(user, problem), NEW hasAC \in BOOLEAN
      PROVE  CanSeeTestcaseData(user, problem, hasAC)
  <2>1. user.known
    BY <1>1, <1>3 DEF CanFinalize, HasPerms, IsAuthorOrCurator, NoUser
  <2>2. HasPerms(user, "EDIT_PROBLEM_TESTS") \/ user.roles # {}
    BY <1>3 DEF CanFinalize, IsAuthorOrCurator
  <2>3. FoundWithSubmission(user, problem) /\ ViewableProblem(user, problem)
    BY <1>3, <2>1 DEF CanFinalize, FoundWithSlug, FoundWithSubmission, ViewableProblem
  <2> QED BY <2>1, <2>2, <2>3 DEF CanSeeTestcaseData
<1> QED BY <1>2, <1>3 DEF EditorsAgree

\* One user has at least what another has.
HasAtLeast(more, user) ==
    /\ user.known => more.known
    /\ user.perms \subseteq more.perms /\ user.roles \subseteq more.roles

LEMMA MoreIsAble ==
  ASSUME NEW user, NEW more, NEW problem \in Problems, HasAtLeast(more, user),
         user.known \in BOOLEAN, user.known \/ user = NoUser
  PROVE  Able(user, problem) \subseteq Able(more, problem)
<1> USE DEF HasAtLeast
<1>1. \A perm : HasPerms(user, perm) => HasPerms(more, perm)
  BY DEF HasPerms
<1>2. HasViewAllProbsPerms(user) => HasViewAllProbsPerms(more)
  BY <1>1 DEF HasViewAllProbsPerms
<1>3. IsAuthorOrCurator(user) => IsAuthorOrCurator(more)
  BY DEF IsAuthorOrCurator
<1>4. user.roles # {} => more.roles # {}
  OBVIOUS
<1>5. ViewableProblem(user, problem) => ViewableProblem(more, problem)
  BY <1>2, <1>4 DEF ViewableProblem
<1>6. FoundWithSlug(user, problem, "false") => FoundWithSlug(more, problem, "false")
  BY <1>2, <1>4 DEF FoundWithSlug, Problems
<1>7. FoundWithSubmission(user, problem) => FoundWithSubmission(more, problem)
  BY <1>2, <1>4 DEF FoundWithSubmission
<1>8. CanModify(user, problem) => CanModify(more, problem)
  BY <1>1, <1>3, <1>6 DEF CanModify
<1>9. CanLock(user, problem) => CanLock(more, problem)
  BY <1>1, <1>3, <1>6 DEF CanLock
<1>10. CanFinalize(user, problem) => CanFinalize(more, problem)
  BY <1>1, <1>3, <1>6 DEF CanFinalize
<1>11. CanSeeTestcaseData(user, problem, FALSE) => CanSeeTestcaseData(more, problem, FALSE)
  BY <1>1, <1>4, <1>5, <1>7 DEF CanSeeTestcaseData
<1>12. CanEditTestcases(user, problem) => CanEditTestcases(more, problem)
  BY <1>1, <1>3, <1>6 DEF CanEditTestcases
<1>13. CanDelete(user, problem) => CanDelete(more, problem)
  BY <1>1, <1>6 DEF CanDelete
<1> QED BY <1>5, <1>8, <1>9, <1>10, <1>11, <1>12, <1>13 DEF Able

LEMMA RightsDoGrow ==
  ASSUME NEW user \in Users, NEW problem \in Problems
  PROVE  RightsGrow(user, problem)
<1>1. Able(NoUser, problem) \subseteq Able(user, problem)
  BY MoreIsAble DEF HasAtLeast, NoUser
<1>2. ASSUME user.known, NEW p \in Permissions, NEW r \in Roles
      PROVE  /\ Able(user, problem) \subseteq Able([user EXCEPT !.perms = @ \cup {p}], problem)
             /\ Able(user, problem) \subseteq Able([user EXCEPT !.roles = @ \cup {r}], problem)
  <2>1. HasAtLeast([user EXCEPT !.perms = @ \cup {p}], user)
    BY <1>2, UsersAreUsers DEF HasAtLeast
  <2>2. HasAtLeast([user EXCEPT !.roles = @ \cup {r}], user)
    BY <1>2, UsersAreUsers DEF HasAtLeast
  <2> QED BY <1>2, <2>1, <2>2, MoreIsAble, UsersAreUsers
<1>3. ASSUME "ADMINISTRATOR" \in user.perms, ~problem.isDeleted, ~problem.isLocked
      PROVE  Able(user, problem) = Abilities
  <2>1. user.known
    <3>1. NoUser.perms = {}
      BY DEF NoUser
    <3> QED BY <1>3, <3>1, UsersAreUsers
  <2>2. \A perm : HasPerms(user, perm)
    BY <1>3 DEF HasPerms
  <2>3. ViewableProblem(user, problem) /\ FoundWithSubmission(user, problem)
        /\ FoundWithSlug(user, problem, "false")
    BY <1>3, <2>1, <2>2
       DEF ViewableProblem, FoundWithSubmission, FoundWithSlug, HasViewAllProbsPerms, Problems
  <2>4. /\ CanModify(user, problem) /\ CanDelete(user, problem) /\ CanEditTestcases(user, problem)
        /\ CanLock(user, problem) /\ CanFinalize(user, problem)
        /\ CanSeeTestcaseData(user, problem, FALSE)
    BY <1>3, <2>1, <2>2, <2>3
       DEF CanModify, CanDelete, CanEditTestcases, CanLock, CanFinalize, CanSeeTestcaseData
  <2> QED BY <2>3, <2>4 DEF Able, Abilities
<1> QED BY <1>1, <1>2, <1>3 DEF RightsGrow

LEMMA LocksDoRestrain ==
  ASSUME NEW user \in Users, NEW problem \in Problems
  PROVE  LocksRestrain(user, problem)
<1> DEFINE on == [problem EXCEPT !.isLocked = TRUE]
           off == [problem EXCEPT !.isLocked = FALSE]
<1>1. /\ on.isLocked /\ ~off.isLocked
      /\ on.isPublic = off.isPublic /\ on.isDeleted = off.isDeleted
      /\ on.testcaseDataVisibility = off.testcaseDataVisibility
  BY DEF Problems
<1> HIDE DEF on, off
<1>2. FoundWithSlug(user, on, "false") = FoundWithSlug(user, off, "false")
  BY <1>1 DEF FoundWithSlug
<1>3. ~CanModify(user, on) /\ ~CanDelete(user, on) /\ ~CanEditTestcases(user, on)
  BY <1>1 DEF CanModify, CanDelete, CanEditTestcases
<1>4. CanLock(user, on) = CanLock(user, off) /\ CanFinalize(user, on) = CanFinalize(user, off)
  BY <1>2 DEF CanLock, CanFinalize
<1>5. ViewableProblem(user, on) = ViewableProblem(user, off)
  BY <1>1 DEF ViewableProblem
<1>6. CanSeeTestcaseData(user, on, FALSE) = CanSeeTestcaseData(user, off, FALSE)
  BY <1>1, <1>5 DEF CanSeeTestcaseData, FoundWithSubmission
<1>7. Able(user, on) = Able(user, off) \ {"modify", "delete", "visibility"}
  BY <1>3, <1>4, <1>5, <1>6 DEF Able, Abilities
<1> QED BY <1>7 DEF LocksRestrain, on, off

-------------------------------------------------------------------------------
(* What init.yml holds. *)

Entries == CaseEntries(EntryPoints)
Items == [kind : {"batch", "case"}, of : Seq(Nat), points : Nat \cup {NoPoints}, isPretest : BOOLEAN]
LoopStates == [pretest : Seq(Items), testCases : Seq(Items), currentBatch : Items \cup {NoBatch},
               totalPoints : Nat, error : BOOLEAN]
ContentsSet == [cases : Seq(Nat), pretests : Seq(Items), earnable : Nat]

LEMMA PointsAreCounted ==
  /\ \A item \in Items : PointsOf(item) \in Nat
  /\ \A c \in Entries : PointsOf(c) \in Nat /\ c.points \in Nat \cup {NoPoints}
                        /\ c.isPretest \in BOOLEAN /\ c.type \in {"C", "S", "E"}
<1>1. EntryPoints \subseteq Nat
  BY TablesAssumption
<1>2. ASSUME NEW item \in Items PROVE PointsOf(item) \in Nat
  BY DEF PointsOf, Items, NoPoints
<1>3. ASSUME NEW c \in Entries
      PROVE  /\ c.points \in Nat \cup {NoPoints} /\ c.isPretest \in BOOLEAN
             /\ c.type \in {"C", "S", "E"}
  <2>1. CASE c \in [type : {"C", "S"}, points : EntryPoints \cup {NoPoints}, isPretest : BOOLEAN]
    BY <1>1, <2>1
  <2>2. CASE c = [type |-> "E", points |-> NoPoints, isPretest |-> FALSE]
    BY <2>2
  <2> QED BY <2>1, <2>2 DEF Entries, CaseEntries
<1>4. ASSUME NEW c \in Entries PROVE PointsOf(c) \in Nat
  BY <1>3 DEF PointsOf, NoPoints
<1> QED BY <1>2, <1>3, <1>4

LEMMA WithItemIsTyped ==
  ASSUME NEW contents \in ContentsSet, NEW item \in Items
  PROVE  WithItem(contents, item) \in ContentsSet
<1>1. item.of \in Seq(Nat) /\ PointsOf(item) \in Nat
  BY PointsAreCounted DEF Items
<1>2. contents.cases \in Seq(Nat) /\ contents.pretests \in Seq(Items) /\ contents.earnable \in Nat
  BY DEF ContentsSet
<1>3. contents.cases \o item.of \in Seq(Nat)
  BY <1>1, <1>2, ConcatProperties
<1>4. Append(contents.pretests, item) \in Seq(Items)
  BY <1>2, AppendProperties
<1>5. contents.earnable + PointsOf(item) \in Nat
  BY <1>1, <1>2
<1> QED BY <1>2, <1>3, <1>4, <1>5 DEF WithItem, ContentsSet

LEMMA ContentsLoop ==
  ASSUME NEW items \in Seq(Items)
  PROVE  \E f \in [0..Len(items) -> ContentsSet] :
            /\ f[0] = NoContents /\ \A k \in 1..Len(items) : f[k] = WithItem(f[k - 1], items[k])
            /\ Contents(items) = f[Len(items)]
<1> DEFINE n == Len(items)
           step == [k \in 1..n |-> [x \in ContentsSet |-> WithItem(x, items[k])]]
           IsUpTo(f) == f = [k \in 0..n |-> IF k = 0 THEN NoContents ELSE WithItem(f[k - 1], items[k])]
           loop == CHOOSE f : IsUpTo(f)
<1>1. n \in Nat /\ \A k \in 1..n : items[k] \in Items
  BY LenProperties, ElementOfSeq
<1>2. step \in Steps(n, ContentsSet)
  <2>1. ASSUME NEW k \in 1..n, NEW x \in ContentsSet PROVE WithItem(x, items[k]) \in ContentsSet
    BY <1>1, WithItemIsTyped
  <2> QED BY <2>1 DEF Steps
<1>3. NoContents \in ContentsSet
  <2>1. <<>> \in Seq(Nat) /\ <<>> \in Seq(Items)
    BY EmptySeq
  <2> QED BY <2>1 DEF NoContents, ContentsSet
<1>4. PICK f : IsLoop(f, n, ContentsSet, NoContents, step)
  <2>1. n \in Nat
    BY <1>1
  <2> HIDE DEF n, step
  <2> QED BY <2>1, <1>2, <1>3, LoopsExist
<1>5. f \in [0..n -> ContentsSet] /\ f[0] = NoContents /\ \A k \in 1..n : f[k] = WithItem(f[k - 1], items[k])
  <2>1. n \in Nat /\ \A k \in 1..n, x \in ContentsSet : step[k][x] = WithItem(x, items[k])
    BY <1>1
  <2> HIDE DEF n, step
  <2>2. f \in [0..n -> ContentsSet] /\ f[0] = NoContents /\ \A k \in 1..n : f[k] = step[k][f[k - 1]]
    BY <1>4 DEF IsLoop
  <2>3. \A k \in 1..n : f[k - 1] \in ContentsSet
    BY <2>1, <2>2
  <2> QED BY <2>1, <2>2, <2>3
<1>6. IsUpTo(f)
  <2>1. n \in Nat
    BY <1>1
  <2> HIDE DEF n
  <2>2. \A k \in 0..n : k # 0 => k \in 1..n
    BY <2>1
  <2>3. \A k \in 0..n : f[k] = IF k = 0 THEN NoContents ELSE WithItem(f[k - 1], items[k])
    BY <1>5, <2>2
  <2>4. f = [k \in 0..n |-> f[k]]
    BY <1>5
  <2> QED BY <2>3, <2>4
<1>7. Contents(items) = loop[n]
  BY DEF Contents
<1>8. IsUpTo(loop)
  <2> HIDE DEF IsUpTo
  <2> QED BY <1>6
<1>9. \A k \in 0..n : loop[k] = f[k]
  <2>1. n \in Nat
    BY <1>1
  <2> HIDE DEF loop, n
  <2>2. loop = [k \in 0..n |-> IF k = 0 THEN NoContents ELSE WithItem(loop[k - 1], items[k])]
    BY <1>8
  <2>3. 0 \in 0..n /\ \A k \in 1..n : k \in 0..n /\ k # 0
    BY <2>1
  <2>4. loop[0] = f[0]
    BY <1>5, <2>2, <2>3
  <2>5. ASSUME NEW k \in 1..n, loop[k - 1] = f[k - 1] PROVE loop[k] = f[k]
    <3>1. loop[k] = WithItem(loop[k - 1], items[k])
      BY <2>2, <2>3
    <3>2. f[k] = WithItem(f[k - 1], items[k])
      BY <1>5
    <3> QED BY <2>5, <3>1, <3>2
  <2>6. SameTurns(n, loop, f)
    BY <2>4, <2>5 DEF SameTurns
  <2> QED BY <2>1, <2>6, LoopsAreUnique
<1>10. n \in 0..n
  BY <1>1
<1> HIDE DEF loop, step
<1> QED BY <1>5, <1>7, <1>9, <1>10

\* An item more.
LEMMA ContentsGrow ==
  /\ Contents(<<>>) = NoContents
  /\ \A items \in Seq(Items) : Contents(items) \in ContentsSet
  /\ \A items \in Seq(Items), item \in Items :
        Contents(Append(items, item)) = WithItem(Contents(items), item)
<1>1. Contents(<<>>) = NoContents
  <2>1. <<>> \in Seq(Items) /\ Len(<<>>) = 0
    BY EmptySeq
  <2> QED BY <2>1, ContentsLoop
<1>2. ASSUME NEW items \in Seq(Items) PROVE Contents(items) \in ContentsSet
  <2>1. Len(items) \in 0..Len(items)
    BY LenProperties
  <2> QED BY <2>1, ContentsLoop
<1>3. ASSUME NEW items \in Seq(Items), NEW item \in Items
      PROVE  Contents(Append(items, item)) = WithItem(Contents(items), item)
  <2> DEFINE n == Len(items)
             t == Append(items, item)
  <2>1. n \in Nat /\ t \in Seq(Items) /\ Len(t) = n + 1 /\ t[n + 1] = item
        /\ \A k \in 1..n : t[k] = items[k]
    BY LenProperties, AppendProperties
  <2>2. PICK f \in [0..n -> ContentsSet] :
           /\ f[0] = NoContents /\ \A k \in 1..n : f[k] = WithItem(f[k - 1], items[k])
           /\ Contents(items) = f[n]
    BY ContentsLoop
  <2> HIDE DEF t, n
  <2>3. PICK g \in [0..Len(t) -> ContentsSet] :
           /\ g[0] = NoContents /\ \A k \in 1..Len(t) : g[k] = WithItem(g[k - 1], t[k])
           /\ Contents(t) = g[Len(t)]
    BY <2>1, ContentsLoop
  <2>4. \A k \in 0..n : f[k] = g[k]
    <3>1. ASSUME NEW k \in 1..n, f[k - 1] = g[k - 1]
          PROVE  f[k] = g[k]
      <4>1. k \in 1..Len(t) /\ t[k] = items[k]
        <5>1. k \in 1..n + 1
          BY <2>1
        <5> QED BY <2>1, <5>1
      <4>2. g[k] = WithItem(g[k - 1], t[k])
        BY <2>3, <4>1
      <4>3. f[k] = WithItem(f[k - 1], items[k])
        BY <2>2
      <4> QED BY <3>1, <4>1, <4>2, <4>3
    <3>2. n \in Nat /\ f[0] = g[0]
      BY <2>1, <2>2, <2>3
    <3>3. \A k \in 1..n : f[k - 1] = g[k - 1] => f[k] = g[k]
      BY <3>1
    <3> DEFINE S == {k \in 0..n : f[k] = g[k]}
    <3>4. 0 \in S /\ \A k \in 1..n : k - 1 \in S => k \in S
      BY <3>2, <3>3
    <3>5. \A k \in 0..n : k \in S
      <4> HIDE DEF n, S
      <4> QED BY <3>2, <3>4, UpTo
    <3> QED BY <3>5
  <2>5. n + 1 \in 1..Len(t) /\ (n + 1) - 1 = n /\ n \in 0..n
    BY <2>1
  <2>6. g[n + 1] = WithItem(g[n], t[n + 1])
    <3> DEFINE IsTurn(j) == g[j] = WithItem(g[j - 1], t[j])
    <3>1. \A j \in 1..Len(t) : IsTurn(j)
      BY <2>3
    <3>2. IsTurn(n + 1)
      <4> HIDE DEF IsTurn
      <4> QED BY <2>5, <3>1
    <3>3. g[(n + 1) - 1] = g[n]
      BY <2>5
    <3> QED BY <3>2, <3>3
  <2>7. Contents(t) = WithItem(Contents(items), item)
    BY <2>1, <2>2, <2>3, <2>4, <2>5, <2>6
  <2> QED BY <2>7 DEF t
<1> QED BY <1>1, <1>2, <1>3

\* Numbers at the end of numbers.
LEMMA NumberAppended ==
  ASSUME NEW b \in Seq(Nat), NEW e \in Nat
  PROVE  Append(b, e) \in Seq(Nat) /\ Append(b, e) = b \o <<e>> /\ Append(b, e) # <<>>
<1>1. Append(b, e) \in Seq(Nat) /\ Append(b, e) # <<>>
  BY AppendProperties
<1>2. Append(b, e) = b \o <<e>>
  BY AppendIsConcat
<1> QED BY <1>1, <1>2

LEMMA SelectedCasesLoop ==
  ASSUME NEW cases \in Seq(Entries), NEW selected
  PROVE  \E f \in [0..Len(cases) -> Seq(Nat)] :
            /\ f[0] = <<>>
            /\ \A k \in 1..Len(cases) :
                  f[k] = IF k \in selected /\ cases[k].type = "C" THEN Append(f[k - 1], k) ELSE f[k - 1]
            /\ SelectedCases(cases, selected) = f[Len(cases)]
<1> DEFINE n == Len(cases)
           With(x, k) == IF k \in selected /\ cases[k].type = "C" THEN Append(x, k) ELSE x
           step == [k \in 1..n |-> [x \in Seq(Nat) |-> With(x, k)]]
           IsUpTo(f) == f = [k \in 0..n |-> IF k = 0 THEN <<>>
                                            ELSE IF k \in selected /\ cases[k].type = "C"
                                                 THEN Append(f[k - 1], k) ELSE f[k - 1]]
           loop == CHOOSE f : IsUpTo(f)
<1>1. n \in Nat
  BY LenProperties
<1>2. step \in Steps(n, Seq(Nat)) /\ \A k \in 1..n, x \in Seq(Nat) : step[k][x] = With(x, k)
  <2>1. ASSUME NEW k \in 1..n, NEW x \in Seq(Nat) PROVE With(x, k) \in Seq(Nat)
    <3>1. k \in Nat
      BY <1>1
    <3>2. Append(x, k) \in Seq(Nat)
      BY <3>1, NumberAppended
    <3> QED BY <3>2
  <2> HIDE DEF With
  <2> QED BY <2>1 DEF Steps
<1>3. <<>> \in Seq(Nat)
  BY EmptySeq
<1> HIDE DEF step
<1>4. PICK f : IsLoop(f, n, Seq(Nat), <<>>, step)
  <2> HIDE DEF n
  <2> QED BY <1>1, <1>2, <1>3, LoopsExist
<1> HIDE DEF With
<1>5. f \in [0..n -> Seq(Nat)] /\ f[0] = <<>> /\ \A k \in 1..n : f[k] = With(f[k - 1], k)
  <2> HIDE DEF n
  <2>2. f \in [0..n -> Seq(Nat)] /\ f[0] = <<>> /\ \A k \in 1..n : f[k] = step[k][f[k - 1]]
    BY <1>4 DEF IsLoop
  <2>3. \A k \in 1..n : f[k - 1] \in Seq(Nat)
    BY <1>1, <2>2
  <2> QED BY <1>2, <2>2, <2>3
<1>6. IsUpTo(f)
  <2> HIDE DEF n
  <2>2. \A k \in 0..n : k # 0 => k \in 1..n
    BY <1>1
  <2>3. \A k \in 0..n : f[k] = IF k = 0 THEN <<>> ELSE With(f[k - 1], k)
    BY <1>5, <2>2
  <2>4. f = [k \in 0..n |-> f[k]]
    BY <1>5
  <2>5. f = [k \in 0..n |-> IF k = 0 THEN <<>> ELSE With(f[k - 1], k)]
    BY <2>3, <2>4
  <2> QED BY <2>5 DEF With
<1>7. SelectedCases(cases, selected) = loop[n]
  BY DEF SelectedCases
<1>8. IsUpTo(loop)
  <2> HIDE DEF IsUpTo
  <2> QED BY <1>6
<1>9. \A k \in 0..n : loop[k] = f[k]
  <2>1. loop = [k \in 0..n |-> IF k = 0 THEN <<>> ELSE With(loop[k - 1], k)]
    <3> HIDE DEF loop
    <3> QED BY <1>8 DEF With
  <2> HIDE DEF loop, n
  <2>3. 0 \in 0..n /\ \A k \in 1..n : k \in 0..n /\ k # 0
    BY <1>1
  <2>4. loop[0] = f[0]
    BY <1>5, <2>1, <2>3
  <2>5. ASSUME NEW k \in 1..n, loop[k - 1] = f[k - 1] PROVE loop[k] = f[k]
    <3>1. loop[k] = With(loop[k - 1], k)
      BY <2>1, <2>3
    <3>2. f[k] = With(f[k - 1], k)
      BY <1>5
    <3> QED BY <2>5, <3>1, <3>2
  <2>6. SameTurns(n, loop, f)
    BY <2>4, <2>5 DEF SameTurns
  <2> QED BY <1>1, <2>6, LoopsAreUnique
<1>10. n \in 0..n
  BY <1>1
<1> HIDE DEF loop
<1>11. SelectedCases(cases, selected) = f[n]
  BY <1>7, <1>9, <1>10
<1> QED BY <1>5, <1>11 DEF With


(* One turn of the loop. *)

OpenCases(st) == IF st.currentBatch = NoBatch THEN <<>> ELSE st.currentBatch.of
OpenPoints(st) == IF st.currentBatch = NoBatch THEN 0 ELSE PointsOf(st.currentBatch)

\* Every selected entry from some start of a batch to i is the start of one.
StartedLast(cases, selected, i) ==
    \E j \in selected :
        /\ j <= i /\ cases[j].type = "S"
        /\ \A k \in selected : j < k /\ k <= i => cases[k].type = "S"

Filled(st) ==
    /\ \A k \in DOMAIN st.testCases : st.testCases[k].of # <<>>
    /\ st.pretest = Contents(st.testCases).pretests

\* The loop stands before entry i + 1, and done are the cases it has met.
Explained(cases, selected, i, done, st) ==
    /\ Filled(st)
    /\ Contents(st.testCases).cases \o OpenCases(st) = done
    /\ \/ StartsTwice(cases, selected)
       \/ st.totalPoints <= Contents(st.testCases).earnable + OpenPoints(st)
    /\ st.currentBatch # NoBatch /\ ~HasCases(st) => StartedLast(cases, selected, i)

LEMMA BatchesAreItems ==
  ASSUME NEW st \in LoopStates
  PROVE  /\ st.currentBatch # NoBatch =>
                st.currentBatch \in Items /\ st.currentBatch.of \in Seq(Nat) /\ PointsOf(st.currentBatch) \in Nat
         /\ OpenCases(st) \in Seq(Nat) /\ OpenPoints(st) \in Nat
         /\ st.testCases \in Seq(Items) /\ st.pretest \in Seq(Items) /\ st.totalPoints \in Nat
         /\ Contents(st.testCases) \in ContentsSet
         /\ Contents(st.testCases).cases \in Seq(Nat) /\ Contents(st.testCases).earnable \in Nat
<1>1. st.currentBatch # NoBatch => st.currentBatch \in Items
  BY DEF LoopStates
<1>2. st.currentBatch # NoBatch => st.currentBatch.of \in Seq(Nat) /\ PointsOf(st.currentBatch) \in Nat
  BY <1>1, PointsAreCounted DEF Items
<1>3. <<>> \in Seq(Nat)
  BY EmptySeq
<1>4. st.testCases \in Seq(Items) /\ st.pretest \in Seq(Items) /\ st.totalPoints \in Nat
  BY DEF LoopStates
<1>5. Contents(st.testCases) \in ContentsSet
  BY <1>4, ContentsGrow
<1> QED BY <1>1, <1>2, <1>3, <1>4, <1>5 DEF OpenCases, OpenPoints, ContentsSet

LEMMA PushKeeps ==
  ASSUME NEW st \in LoopStates, Filled(st), NEW item \in Items, item.of # <<>>
  PROVE  LET kept == Push(st, item)
         IN  /\ kept \in LoopStates /\ Filled(kept)
             /\ kept.currentBatch = st.currentBatch /\ kept.totalPoints = st.totalPoints /\ kept.error = st.error
             /\ Contents(kept.testCases).cases = Contents(st.testCases).cases \o item.of
             /\ Contents(kept.testCases).earnable = Contents(st.testCases).earnable + PointsOf(item)
<1> DEFINE kept == Push(st, item)
<1>1. st.testCases \in Seq(Items) /\ st.pretest \in Seq(Items)
  BY BatchesAreItems
<1>2. Append(st.testCases, item) \in Seq(Items) /\ Append(st.pretest, item) \in Seq(Items)
  BY <1>1, AppendProperties
<1>3. /\ kept.testCases = Append(st.testCases, item)
      /\ kept.pretest = IF item.isPretest THEN Append(st.pretest, item) ELSE st.pretest
      /\ kept.currentBatch = st.currentBatch /\ kept.totalPoints = st.totalPoints /\ kept.error = st.error
  BY DEF Push, LoopStates
<1>4. kept \in LoopStates
  BY <1>1, <1>2 DEF Push, LoopStates
<1> HIDE DEF kept
<1>5. Contents(kept.testCases) = WithItem(Contents(st.testCases), item)
  BY <1>1, <1>3, ContentsGrow
<1>6. Filled(kept)
  <2>1. kept.pretest = Contents(kept.testCases).pretests
    BY <1>3, <1>5 DEF Filled, WithItem
  <2>2. ASSUME NEW k \in DOMAIN kept.testCases PROVE kept.testCases[k].of # <<>>
    <3>1. Len(st.testCases) \in Nat /\ DOMAIN st.testCases = 1..Len(st.testCases)
          /\ Len(kept.testCases) = Len(st.testCases) + 1 /\ DOMAIN kept.testCases = 1..Len(kept.testCases)
          /\ kept.testCases[Len(st.testCases) + 1] = item
          /\ \A j \in 1..Len(st.testCases) : kept.testCases[j] = st.testCases[j]
      <4>1. kept.testCases \in Seq(Items)
        BY <1>2, <1>3
      <4> QED BY <1>1, <1>3, <4>1, LenProperties, AppendProperties
    <3>2. CASE k = Len(st.testCases) + 1
      BY <3>1, <3>2
    <3>3. CASE k # Len(st.testCases) + 1
      <4>1. k \in 1..Len(st.testCases)
        BY <3>1, <3>3
      <4> QED BY <3>1, <4>1 DEF Filled
    <3> QED BY <3>2, <3>3
  <2> QED BY <2>1, <2>2 DEF Filled
<1>7. /\ Contents(kept.testCases).cases = Contents(st.testCases).cases \o item.of
      /\ Contents(kept.testCases).earnable = Contents(st.testCases).earnable + PointsOf(item)
  <2> DEFINE x == Contents(st.testCases)
  <2>1. WithItem(x, item).cases = x.cases \o item.of
    BY DEF WithItem
  <2>2. WithItem(x, item).earnable = x.earnable + PointsOf(item)
    BY DEF WithItem
  <2> QED BY <1>5, <2>1, <2>2
<1> QED BY <1>3, <1>4, <1>6, <1>7 DEF kept

LEMMA StartExplained ==
  ASSUME NEW cases \in Seq(Entries), NEW selected \in SUBSET Nat, NEW i \in Nat,
         i \in selected, i \in 1..Len(cases), cases[i].type = "S",
         NEW st \in LoopStates, NEW done, Explained(cases, selected, i - 1, done, st)
  PROVE  LET new == StartBatch(st, cases[i])
         IN  new \in LoopStates /\ Explained(cases, selected, i, done, new)
<1> DEFINE c == cases[i]
           batch == EmptyBatch(c)
           kept == IF HasCases(st) THEN Push(st, st.currentBatch) ELSE st
           new == StartBatch(st, c)
<1>1. c \in Entries /\ PointsOf(c) \in Nat /\ c.isPretest \in BOOLEAN
  BY ElementOfSeq, PointsAreCounted
<1> HIDE DEF c
<1>2. batch \in Items /\ batch # NoBatch /\ batch.of = <<>> /\ PointsOf(batch) = PointsOf(c)
  <2>1. <<>> \in Seq(Nat)
    BY EmptySeq
  <2>2. batch = [kind |-> "batch", of |-> <<>>, points |-> PointsOf(c), isPretest |-> c.isPretest]
    BY DEF EmptyBatch
  <2> HIDE DEF batch
  <2>3. batch \in Items
    BY <1>1, <2>1, <2>2 DEF Items
  <2>4. batch # NoBatch
    BY <2>2 DEF NoBatch
  <2>5. batch.points = PointsOf(c) /\ PointsOf(c) # NoPoints
    BY <1>1, <2>2 DEF NoPoints
  <2>6. PointsOf(batch) = PointsOf(c)
    BY <2>5 DEF PointsOf
  <2> QED BY <2>2, <2>3, <2>4, <2>6
<1> HIDE DEF batch
<1>3. /\ kept \in LoopStates /\ Filled(kept) /\ Contents(kept.testCases).cases = done
      /\ kept.totalPoints = st.totalPoints
      /\ \/ StartsTwice(cases, selected)
         \/ kept.totalPoints <= Contents(kept.testCases).earnable
  <2>1. CASE HasCases(st)
    <3>1. st.currentBatch # NoBatch /\ st.currentBatch.of # <<>> /\ st.currentBatch \in Items
      BY <2>1, BatchesAreItems DEF HasCases
    <3>2. OpenCases(st) = st.currentBatch.of /\ OpenPoints(st) = PointsOf(st.currentBatch)
      BY <3>1 DEF OpenCases, OpenPoints
    <3>3. kept = Push(st, st.currentBatch)
      BY <2>1
    <3> HIDE DEF kept
    <3>4. /\ kept \in LoopStates /\ Filled(kept) /\ kept.totalPoints = st.totalPoints
          /\ Contents(kept.testCases).cases = Contents(st.testCases).cases \o st.currentBatch.of
          /\ Contents(kept.testCases).earnable
                = Contents(st.testCases).earnable + PointsOf(st.currentBatch)
      BY <3>1, <3>3, PushKeeps DEF Explained
    <3> QED BY <3>2, <3>4 DEF Explained
  <2>2. CASE ~HasCases(st)
    <3>1. OpenCases(st) = <<>>
      BY <2>2 DEF OpenCases, HasCases
    <3>2. Contents(st.testCases).cases = done
      <4>1. Contents(st.testCases).cases \in Seq(Nat)
        BY BatchesAreItems
      <4> QED BY <3>1, <4>1, ConcatEmptySeq DEF Explained
    <3>3. StartsTwice(cases, selected) \/ st.totalPoints <= Contents(st.testCases).earnable
      <4>1. CASE st.currentBatch = NoBatch
        BY <4>1, BatchesAreItems DEF Explained, OpenPoints
      <4>2. CASE st.currentBatch # NoBatch
        <5>1. PICK j \in selected :
                 /\ j <= i - 1 /\ cases[j].type = "S"
                 /\ \A k \in selected : j < k /\ k <= i - 1 => cases[k].type = "S"
          BY <2>2, <4>2 DEF Explained, StartedLast
        <5>2. j < i
          BY <5>1
        <5>3. \A k \in selected : j < k /\ k < i => cases[k].type = "S"
          BY <5>1
        <5> QED BY <5>1, <5>2, <5>3 DEF StartsTwice
      <4> QED BY <4>1, <4>2
    <3> QED BY <2>2, <3>2, <3>3 DEF Explained
  <2> QED BY <2>1, <2>2
<1>4. new = [kept EXCEPT !.currentBatch = batch, !.totalPoints = @ + PointsOf(c)]
  BY DEF StartBatch, batch
<1> HIDE DEF kept, new
<1>5. /\ new.testCases = kept.testCases /\ new.pretest = kept.pretest /\ new.currentBatch = batch
      /\ new.totalPoints = kept.totalPoints + PointsOf(c)
  BY <1>3, <1>4 DEF LoopStates
<1>6. new \in LoopStates
  <2>1. kept.totalPoints + PointsOf(c) \in Nat
    BY <1>1, <1>3, BatchesAreItems
  <2> QED BY <1>2, <1>3, <1>4, <2>1 DEF LoopStates
<1>7. Filled(new)
  BY <1>3, <1>5 DEF Filled
<1>8. Contents(new.testCases).cases \o OpenCases(new) = done
  <2>1. OpenCases(new) = <<>> /\ Contents(new.testCases).cases = done
    BY <1>2, <1>3, <1>5 DEF OpenCases
  <2>2. done \in Seq(Nat)
    BY <1>3, BatchesAreItems
  <2> QED BY <2>1, <2>2, ConcatEmptySeq
<1>9. \/ StartsTwice(cases, selected)
      \/ new.totalPoints <= Contents(new.testCases).earnable + OpenPoints(new)
  <2>1. OpenPoints(new) = PointsOf(c)
    BY <1>2, <1>5 DEF OpenPoints
  <2>2. kept.totalPoints \in Nat /\ Contents(kept.testCases).earnable \in Nat
    BY <1>3, BatchesAreItems
  <2> QED BY <1>1, <1>3, <1>5, <2>1, <2>2
<1>10. StartedLast(cases, selected, i)
  BY DEF StartedLast
<1>11. Explained(cases, selected, i, done, new)
  BY <1>7, <1>8, <1>9, <1>10 DEF Explained
<1> QED BY <1>6, <1>11 DEF new, c


LEMMA EndExplained ==
  ASSUME NEW cases, NEW selected, NEW i,
         NEW st \in LoopStates, NEW done, Filled(st),
         Contents(st.testCases).cases \o OpenCases(st) = done,
         \/ StartsTwice(cases, selected)
         \/ st.totalPoints <= Contents(st.testCases).earnable + OpenPoints(st)
  PROVE  LET new == EndBatch(st)
         IN  /\ new \in LoopStates
             /\ ~new.error => Explained(cases, selected, i, done, new) /\ new.currentBatch = NoBatch
<1> DEFINE new == EndBatch(st)
<1>1. CASE st.currentBatch = NoBatch
  <2>1. new = st
    BY <1>1 DEF EndBatch
  <2> QED BY <1>1, <2>1 DEF Explained
<1>2. CASE st.currentBatch # NoBatch /\ ~HasCases(st)
  <2>1. new = [st EXCEPT !.error = TRUE]
    BY <1>2 DEF EndBatch
  <2>2. new \in LoopStates /\ new.error
    BY <2>1 DEF LoopStates
  <2> QED BY <2>2
<1>3. CASE HasCases(st)
  <2> DEFINE kept == Push(st, st.currentBatch)
  <2>1. st.currentBatch # NoBatch /\ st.currentBatch.of # <<>> /\ st.currentBatch \in Items
    BY <1>3, BatchesAreItems DEF HasCases
  <2>2. OpenCases(st) = st.currentBatch.of /\ OpenPoints(st) = PointsOf(st.currentBatch)
    BY <2>1 DEF OpenCases, OpenPoints
  <2>3. /\ kept \in LoopStates /\ Filled(kept) /\ kept.totalPoints = st.totalPoints
        /\ Contents(kept.testCases).cases = Contents(st.testCases).cases \o st.currentBatch.of
        /\ Contents(kept.testCases).earnable
              = Contents(st.testCases).earnable + PointsOf(st.currentBatch)
    BY <2>1, PushKeeps
  <2>4. new = [kept EXCEPT !.currentBatch = NoBatch]
    BY <1>3, <2>1 DEF EndBatch
  <2> HIDE DEF kept, new
  <2>5. new.testCases = kept.testCases /\ new.pretest = kept.pretest /\ new.totalPoints = kept.totalPoints
        /\ new.currentBatch = NoBatch /\ new \in LoopStates
    BY <2>3, <2>4 DEF LoopStates
  <2>6. Filled(new)
    BY <2>3, <2>5 DEF Filled
  <2>7. OpenCases(new) = <<>> /\ OpenPoints(new) = 0
    BY <2>5 DEF OpenCases, OpenPoints
  <2>8. Contents(new.testCases).cases = done
    BY <2>2, <2>3, <2>5
  <2>9. Contents(new.testCases).cases \o OpenCases(new) = done
    <3>1. done \in Seq(Nat)
      BY <2>3, <2>5, <2>8, BatchesAreItems
    <3> QED BY <2>7, <2>8, <3>1, ConcatEmptySeq
  <2>10. StartsTwice(cases, selected)
         \/ new.totalPoints <= Contents(new.testCases).earnable + OpenPoints(new)
    <3>1. Contents(new.testCases).earnable \in Nat
      BY <2>5, BatchesAreItems
    <3> QED BY <2>2, <2>3, <2>5, <2>7, <3>1
  <2>11. Explained(cases, selected, i, done, new)
    BY <2>5, <2>6, <2>9, <2>10 DEF Explained
  <2> QED BY <2>5, <2>11 DEF new
<1> QED BY <1>1, <1>2, <1>3

LEMMA AppendLast ==
  ASSUME NEW a \in Seq(Nat), NEW b \in Seq(Nat), NEW e \in Nat
  PROVE  a \o Append(b, e) = Append(a \o b, e) /\ Append(b, e) \in Seq(Nat) /\ Append(b, e) # <<>>
<1>1. a \o b \in Seq(Nat) /\ <<e>> \in Seq(Nat)
  BY ConcatProperties
<1>2. Append(b, e) = b \o <<e>> /\ Append(a \o b, e) = (a \o b) \o <<e>>
  BY <1>1, AppendIsConcat
<1>3. (a \o b) \o <<e>> = a \o (b \o <<e>>)
  BY <1>1, ConcatAssociative
<1>4. Append(b, e) \in Seq(Nat) /\ Append(b, e) # <<>>
  BY NumberAppended
<1> QED BY <1>2, <1>3, <1>4

\* A case that stands alone.
LEMMA AloneIsAnItem ==
  ASSUME NEW i \in Nat, NEW c \in Entries
  PROVE  /\ Alone(i, c) \in Items /\ Alone(i, c).of = <<i>> /\ Alone(i, c).of # <<>>
         /\ PointsOf(Alone(i, c)) = PointsOf(c) /\ PointsOf(c) \in Nat
<1>1. c.points \in Nat \cup {NoPoints} /\ c.isPretest \in BOOLEAN /\ PointsOf(c) \in Nat
  BY PointsAreCounted
<1>2. Alone(i, c) = [kind |-> "case", of |-> <<i>>, points |-> c.points, isPretest |-> c.isPretest]
  BY DEF Alone
<1>3. <<i>> \in Seq(Nat) /\ <<i>> # <<>>
  OBVIOUS
<1>4. Alone(i, c) \in Items
  BY <1>1, <1>2, <1>3 DEF Items
<1>5. PointsOf(Alone(i, c)) = PointsOf(c)
  BY <1>2 DEF PointsOf
<1> QED BY <1>1, <1>2, <1>3, <1>4, <1>5

LEMMA AddExplained ==
  ASSUME NEW cases \in Seq(Entries), NEW selected, NEW i \in 1..Len(cases), i \in Nat,
         NEW st \in LoopStates, NEW done \in Seq(Nat), Explained(cases, selected, i - 1, done, st)
  PROVE  LET new == AddCase(st, i, cases[i])
         IN  /\ new \in LoopStates
             /\ ~new.error => Explained(cases, selected, i, Append(done, i), new)
<1> DEFINE c == cases[i]
           new == AddCase(st, i, c)
<1>1. c \in Entries
  BY ElementOfSeq
<1> HIDE DEF c
<1>2. st.totalPoints \in Nat /\ Contents(st.testCases).earnable \in Nat
      /\ Contents(st.testCases).cases \in Seq(Nat)
  BY BatchesAreItems
<1>3. CASE st.currentBatch # NoBatch
  <2> DEFINE of == Append(st.currentBatch.of, i)
  <2>1. st.currentBatch \in Items /\ st.currentBatch.of \in Seq(Nat)
    BY <1>3, BatchesAreItems
  <2>2. new = [st EXCEPT !.currentBatch.of = of]
    BY <1>3 DEF AddCase
  <2>3. of \in Seq(Nat) /\ of # <<>>
    <3> DEFINE b == st.currentBatch.of
    <3>1. b \in Seq(Nat)
      BY <2>1
    <3> HIDE DEF b
    <3>2. Append(b, i) \in Seq(Nat) /\ Append(b, i) # <<>>
      BY <3>1, NumberAppended
    <3> QED BY <3>2 DEF b
  <2> HIDE DEF of, new
  <2>4. new.testCases = st.testCases /\ new.pretest = st.pretest /\ new.totalPoints = st.totalPoints
        /\ new.currentBatch = [st.currentBatch EXCEPT !.of = of]
    BY <2>2 DEF LoopStates
  <2>5. new.currentBatch \in Items /\ new.currentBatch.of = of
        /\ new.currentBatch.points = st.currentBatch.points /\ new.currentBatch.kind = st.currentBatch.kind
    BY <2>1, <2>3, <2>4 DEF Items
  <2>6. new \in LoopStates
    BY <2>2, <2>4, <2>5 DEF LoopStates
  <2>7. new.currentBatch # NoBatch
    BY <2>5 DEF Items, NoBatch
  <2>8. OpenCases(new) = of /\ OpenCases(st) = st.currentBatch.of
    BY <1>3, <2>5, <2>7 DEF OpenCases
  <2>9. OpenPoints(new) = OpenPoints(st)
    BY <1>3, <2>5, <2>7 DEF OpenPoints, PointsOf
  <2>10. Contents(new.testCases).cases \o OpenCases(new) = Append(done, i)
    <3>1. Contents(st.testCases).cases \o st.currentBatch.of = done
      BY <2>8 DEF Explained
    <3> DEFINE a == Contents(st.testCases).cases
               b == st.currentBatch.of
    <3>2. a \o Append(b, i) = Append(a \o b, i)
      <4>1. a \in Seq(Nat) /\ b \in Seq(Nat)
        BY <1>2, <2>1
      <4> HIDE DEF a, b
      <4> QED BY <4>1, AppendLast
    <3> QED BY <2>4, <2>8, <3>1, <3>2 DEF of
  <2>11. HasCases(new)
    BY <2>3, <2>5, <2>7 DEF HasCases
  <2>12. Filled(new)
    BY <2>4 DEF Filled, Explained
  <2>13. StartsTwice(cases, selected)
         \/ new.totalPoints <= Contents(new.testCases).earnable + OpenPoints(new)
    BY <2>4, <2>9 DEF Explained
  <2>14. Explained(cases, selected, i, Append(done, i), new)
    BY <2>10, <2>11, <2>12, <2>13 DEF Explained
  <2> QED BY <2>6, <2>14 DEF new, c
<1>4. CASE st.currentBatch = NoBatch /\ ~c.isPretest /\ c.points = NoPoints
  <2>1. new = [st EXCEPT !.error = TRUE]
    BY <1>4 DEF AddCase
  <2>2. new \in LoopStates /\ new.error
    BY <2>1 DEF LoopStates
  <2> QED BY <2>2 DEF new, c
<1>5. CASE st.currentBatch = NoBatch /\ (c.isPretest \/ c.points # NoPoints)
  <2> DEFINE item == Alone(i, c)
             kept == Push(st, item)
  <2>1. item \in Items /\ item.of = <<i>> /\ item.of # <<>> /\ PointsOf(item) = PointsOf(c) /\ PointsOf(c) \in Nat
    BY <1>1, AloneIsAnItem
  <2> HIDE DEF item
  <2>2. Filled(st)
    BY DEF Explained
  <2>3. /\ kept \in LoopStates /\ Filled(kept)
        /\ kept.currentBatch = st.currentBatch /\ kept.totalPoints = st.totalPoints
        /\ Contents(kept.testCases).cases = Contents(st.testCases).cases \o item.of
        /\ Contents(kept.testCases).earnable = Contents(st.testCases).earnable + PointsOf(item)
    BY <2>1, <2>2, PushKeeps
  <2> HIDE DEF kept
  <2>4. /\ new \in LoopStates
        /\ new.testCases = kept.testCases /\ new.pretest = kept.pretest /\ new.currentBatch = NoBatch
        /\ new.totalPoints \in {st.totalPoints, st.totalPoints + PointsOf(c)}
    <3>1. CASE c.isPretest
      <4>1. new = kept
        BY <1>5, <3>1 DEF AddCase, kept, item
      <4> QED BY <1>5, <2>3, <4>1
    <3>2. CASE ~c.isPretest
      <4>1. new = [kept EXCEPT !.totalPoints = @ + c.points] /\ c.points = PointsOf(c)
        BY <1>5, <3>2 DEF AddCase, kept, item, PointsOf
      <4>2. kept.totalPoints + c.points \in Nat
        BY <1>2, <2>1, <2>3, <4>1
      <4> HIDE DEF new
      <4> QED BY <1>5, <2>3, <4>1, <4>2 DEF LoopStates
    <3> QED BY <3>1, <3>2
  <2> HIDE DEF new
  <2>5. OpenCases(st) = <<>> /\ OpenPoints(st) = 0 /\ OpenCases(new) = <<>> /\ OpenPoints(new) = 0
    BY <1>5, <2>4 DEF OpenCases, OpenPoints
  <2>6. Contents(new.testCases).cases \o OpenCases(new) = Append(done, i)
    <3>1. Contents(st.testCases).cases = done
      BY <1>2, <2>5, ConcatEmptySeq DEF Explained
    <3>2. Append(done, i) = done \o <<i>> /\ Append(done, i) \in Seq(Nat)
      BY NumberAppended
    <3>3. Contents(new.testCases).cases = Append(done, i)
      BY <2>1, <2>3, <2>4, <3>1, <3>2
    <3> QED BY <2>5, <3>2, <3>3, ConcatEmptySeq
  <2>7. Filled(new)
    BY <2>3, <2>4 DEF Filled
  <2>8. StartsTwice(cases, selected)
        \/ new.totalPoints <= Contents(new.testCases).earnable + OpenPoints(new)
    <3>1. StartsTwice(cases, selected) \/ st.totalPoints <= Contents(st.testCases).earnable
      BY <1>2, <2>5 DEF Explained
    <3> QED BY <1>2, <2>1, <2>3, <2>4, <2>5, <3>1
  <2>9. Explained(cases, selected, i, Append(done, i), new)
    BY <2>4, <2>6, <2>7, <2>8 DEF Explained
  <2> QED BY <2>4, <2>9 DEF new, c
<1> QED BY <1>3, <1>4, <1>5


\* One turn, whether its entry was selected or not.
TurnOf(cases, selected, st, i) ==
    IF st.error \/ i \notin selected THEN st ELSE Turn(st, i, cases[i])

LEMMA TurnExplained ==
  ASSUME NEW cases \in Seq(Entries), NEW selected \in SUBSET Nat, NEW i \in 1..Len(cases), i \in Nat,
         NEW st \in LoopStates, NEW done \in Seq(Nat),
         ~st.error => Explained(cases, selected, i - 1, done, st)
  PROVE  LET new == TurnOf(cases, selected, st, i)
             met == IF i \in selected /\ cases[i].type = "C" THEN Append(done, i) ELSE done
         IN  new \in LoopStates /\ (~new.error => Explained(cases, selected, i, met, new))
<1> DEFINE new == TurnOf(cases, selected, st, i)
           met == IF i \in selected /\ cases[i].type = "C" THEN Append(done, i) ELSE done
<1>1. cases[i].type \in {"C", "S", "E"}
  BY ElementOfSeq, PointsAreCounted
<1>2. CASE st.error
  BY <1>2 DEF TurnOf
<1>3. CASE ~st.error /\ i \notin selected
  <2>1. new = st /\ met = done
    BY <1>3 DEF TurnOf
  <2> HIDE DEF new, met
  <2>2. StartedLast(cases, selected, i - 1) => StartedLast(cases, selected, i)
    <3>1. \A k \in selected : k <= i => k <= i - 1
      BY <1>3
    <3>2. \A j \in selected : j <= i - 1 => j <= i
      OBVIOUS
    <3> QED BY <3>1, <3>2 DEF StartedLast
  <2>3. Explained(cases, selected, i, done, st)
    BY <1>3, <2>2 DEF Explained
  <2> QED BY <2>1, <2>3 DEF new, met
<1>4. CASE ~st.error /\ i \in selected
  <2>1. new = Turn(st, i, cases[i]) /\ Explained(cases, selected, i - 1, done, st)
    BY <1>4 DEF TurnOf
  <2> HIDE DEF new
  <2>2. CASE cases[i].type = "S"
    <3>1. new = StartBatch(st, cases[i]) /\ met = done
      BY <2>1, <2>2 DEF Turn
    <3>2. new \in LoopStates /\ Explained(cases, selected, i, done, new)
      BY <1>4, <2>1, <2>2, <3>1, StartExplained
    <3> QED BY <3>1, <3>2 DEF new
  <2>3. CASE cases[i].type = "E"
    <3>1. new = EndBatch(st) /\ met = done
      BY <2>1, <2>3 DEF Turn
    <3>2. new \in LoopStates /\ (~new.error => Explained(cases, selected, i, done, new))
      BY <2>1, <3>1, EndExplained DEF Explained
    <3> QED BY <3>1, <3>2 DEF new
  <2>4. CASE cases[i].type = "C"
    <3>1. new = AddCase(st, i, cases[i]) /\ met = Append(done, i)
      BY <1>4, <2>1, <2>4 DEF Turn
    <3>2. new \in LoopStates /\ (~new.error => Explained(cases, selected, i, Append(done, i), new))
      BY <2>1, <3>1, AddExplained
    <3> QED BY <3>1, <3>2 DEF new
  <2> QED BY <1>1, <2>2, <2>3, <2>4
<1> QED BY <1>2, <1>3, <1>4


LEMMA PushIsTyped ==
  ASSUME NEW st \in LoopStates, NEW item \in Items
  PROVE  Push(st, item) \in LoopStates
<1>1. st.testCases \in Seq(Items) /\ st.pretest \in Seq(Items)
  BY BatchesAreItems
<1>2. Append(st.testCases, item) \in Seq(Items) /\ Append(st.pretest, item) \in Seq(Items)
  BY <1>1, AppendProperties
<1> QED BY <1>1, <1>2 DEF Push, LoopStates

LEMMA EndIsTyped ==
  ASSUME NEW st \in LoopStates
  PROVE  EndBatch(st) \in LoopStates
<1>1. CASE st.currentBatch = NoBatch
  BY <1>1 DEF EndBatch
<1>2. CASE st.currentBatch # NoBatch /\ ~HasCases(st)
  BY <1>2 DEF EndBatch, LoopStates
<1>3. CASE HasCases(st)
  <2> DEFINE kept == Push(st, st.currentBatch)
  <2>1. kept \in LoopStates
    <3>1. st.currentBatch \in Items
      BY <1>3, BatchesAreItems DEF HasCases
    <3> QED BY <3>1, PushIsTyped
  <2>2. EndBatch(st) = [kept EXCEPT !.currentBatch = NoBatch]
    BY <1>3 DEF EndBatch, HasCases
  <2> HIDE DEF kept
  <2> QED BY <2>1, <2>2 DEF LoopStates
<1> QED BY <1>1, <1>2, <1>3

LEMMA TurnIsTyped ==
  ASSUME NEW cases \in Seq(Entries), NEW selected, NEW i \in 1..Len(cases), i \in Nat, NEW st \in LoopStates
  PROVE  TurnOf(cases, selected, st, i) \in LoopStates
<1> DEFINE c == cases[i]
<1>1. c \in Entries /\ PointsOf(c) \in Nat /\ c.isPretest \in BOOLEAN /\ c.type \in {"C", "S", "E"}
  BY ElementOfSeq, PointsAreCounted
<1> HIDE DEF c
<1>2. ASSUME NEW item \in Items PROVE Push(st, item) \in LoopStates
  BY PushIsTyped
<1>3. HasCases(st) => st.currentBatch \in Items
  BY BatchesAreItems DEF HasCases
<1>4. StartBatch(st, c) \in LoopStates
  <2> DEFINE kept == IF HasCases(st) THEN Push(st, st.currentBatch) ELSE st
             batch == EmptyBatch(c)
  <2>1. kept \in LoopStates
    BY <1>2, <1>3
  <2>2. batch \in Items
    <3>1. <<>> \in Seq(Nat)
      BY EmptySeq
    <3> QED BY <1>1, <3>1 DEF EmptyBatch, Items
  <2>3. StartBatch(st, c) = [kept EXCEPT !.currentBatch = batch, !.totalPoints = @ + PointsOf(c)]
    BY DEF StartBatch
  <2> HIDE DEF kept, batch
  <2>4. kept.totalPoints + PointsOf(c) \in Nat
    BY <1>1, <2>1, BatchesAreItems
  <2> QED BY <2>1, <2>2, <2>3, <2>4 DEF LoopStates
<1>5. EndBatch(st) \in LoopStates
  BY EndIsTyped
<1>6. AddCase(st, i, c) \in LoopStates
  <2>1. CASE st.currentBatch # NoBatch
    <3> DEFINE b == st.currentBatch.of
               of == Append(b, i)
    <3>1. st.currentBatch \in Items /\ b \in Seq(Nat)
      BY <2>1, BatchesAreItems
    <3>2. AddCase(st, i, c) = [st EXCEPT !.currentBatch.of = of]
      BY <2>1 DEF AddCase
    <3> HIDE DEF b
    <3>3. of \in Seq(Nat)
      BY <3>1, NumberAppended
    <3> HIDE DEF of
    <3>4. [st.currentBatch EXCEPT !.of = of] \in Items
      BY <3>1, <3>3 DEF Items
    <3>5. AddCase(st, i, c) = [st EXCEPT !.currentBatch = [st.currentBatch EXCEPT !.of = of]]
      BY <3>2 DEF LoopStates
    <3> QED BY <3>4, <3>5 DEF LoopStates
  <2>2. CASE st.currentBatch = NoBatch
    <3> DEFINE kept == Push(st, Alone(i, c))
    <3>1. kept \in LoopStates
      BY <1>1, <1>2, AloneIsAnItem
    <3>2. CASE c.isPretest
      BY <2>2, <3>1, <3>2 DEF AddCase
    <3>3. CASE ~c.isPretest /\ c.points = NoPoints
      BY <2>2, <3>3 DEF AddCase, LoopStates
    <3>4. CASE ~c.isPretest /\ c.points # NoPoints
      <4>1. AddCase(st, i, c) = [kept EXCEPT !.totalPoints = @ + c.points] /\ c.points = PointsOf(c)
        BY <2>2, <3>4 DEF AddCase, PointsOf
      <4> HIDE DEF kept
      <4>2. kept.totalPoints + c.points \in Nat
        BY <1>1, <3>1, <4>1, BatchesAreItems
      <4> QED BY <3>1, <4>1, <4>2 DEF LoopStates
    <3> QED BY <3>2, <3>3, <3>4
  <2> QED BY <2>1, <2>2
<1>7. Turn(st, i, c) \in LoopStates
  BY <1>1, <1>4, <1>5, <1>6 DEF Turn
<1> QED BY <1>7 DEF TurnOf, c

LEMMA LoopLoop ==
  ASSUME NEW cases \in Seq(Entries), NEW selected
  PROVE  \E f \in [0..Len(cases) -> LoopStates] :
            /\ f[0] = Start /\ \A k \in 1..Len(cases) : f[k] = TurnOf(cases, selected, f[k - 1], k)
            /\ Loop(cases, selected) = f[Len(cases)]
<1> DEFINE n == Len(cases)
           With(x, k) == TurnOf(cases, selected, x, k)
           step == [k \in 1..n |-> [x \in LoopStates |-> With(x, k)]]
           IsUpTo(f) == f = [i \in 0..n |-> IF i = 0 THEN Start
                                            ELSE IF f[i - 1].error \/ i \notin selected THEN f[i - 1]
                                            ELSE Turn(f[i - 1], i, cases[i])]
           loop == CHOOSE f : IsUpTo(f)
<1>1. n \in Nat
  BY LenProperties
<1>2. step \in Steps(n, LoopStates) /\ \A k \in 1..n, x \in LoopStates : step[k][x] = With(x, k)
  <2>1. ASSUME NEW k \in 1..n, NEW x \in LoopStates PROVE With(x, k) \in LoopStates
    <3>1. k \in Nat
      BY <1>1
    <3> QED BY <3>1, TurnIsTyped
  <2> HIDE DEF With
  <2> QED BY <2>1 DEF Steps
<1>3. Start \in LoopStates
  <2>1. <<>> \in Seq(Items)
    BY EmptySeq
  <2> QED BY <2>1 DEF Start, LoopStates
<1> HIDE DEF step
<1>4. PICK f : IsLoop(f, n, LoopStates, Start, step)
  <2> HIDE DEF n
  <2> QED BY <1>1, <1>2, <1>3, LoopsExist
<1> HIDE DEF With
<1>5. f \in [0..n -> LoopStates] /\ f[0] = Start /\ \A k \in 1..n : f[k] = With(f[k - 1], k)
  <2> HIDE DEF n
  <2>2. f \in [0..n -> LoopStates] /\ f[0] = Start /\ \A k \in 1..n : f[k] = step[k][f[k - 1]]
    BY <1>4 DEF IsLoop
  <2>3. \A k \in 1..n : f[k - 1] \in LoopStates
    BY <1>1, <2>2
  <2> QED BY <1>2, <2>2, <2>3
<1>6. IsUpTo(f)
  <2> HIDE DEF n
  <2>2. \A k \in 0..n : k # 0 => k \in 1..n
    BY <1>1
  <2>3. \A k \in 0..n : f[k] = IF k = 0 THEN Start ELSE With(f[k - 1], k)
    BY <1>5, <2>2
  <2>4. f = [k \in 0..n |-> f[k]]
    BY <1>5
  <2>5. f = [k \in 0..n |-> IF k = 0 THEN Start ELSE With(f[k - 1], k)]
    BY <2>3, <2>4
  <2> QED BY <2>5 DEF With, TurnOf
<1>7. Loop(cases, selected) = loop[n]
  BY DEF Loop
<1>8. IsUpTo(loop)
  <2> HIDE DEF IsUpTo
  <2> QED BY <1>6
<1>9. \A k \in 0..n : loop[k] = f[k]
  <2>1. loop = [k \in 0..n |-> IF k = 0 THEN Start ELSE With(loop[k - 1], k)]
    <3> HIDE DEF loop
    <3> QED BY <1>8 DEF With, TurnOf
  <2> HIDE DEF loop, n
  <2>3. 0 \in 0..n /\ \A k \in 1..n : k \in 0..n /\ k # 0
    BY <1>1
  <2>4. loop[0] = f[0]
    BY <1>5, <2>1, <2>3
  <2>5. ASSUME NEW k \in 1..n, loop[k - 1] = f[k - 1] PROVE loop[k] = f[k]
    <3>1. loop[k] = With(loop[k - 1], k)
      BY <2>1, <2>3
    <3>2. f[k] = With(f[k - 1], k)
      BY <1>5
    <3> QED BY <2>5, <3>1, <3>2
  <2>6. SameTurns(n, loop, f)
    BY <2>4, <2>5 DEF SameTurns
  <2> QED BY <1>1, <2>6, LoopsAreUnique
<1>10. n \in 0..n
  BY <1>1
<1> HIDE DEF loop
<1>11. Loop(cases, selected) = f[n]
  BY <1>7, <1>9, <1>10
<1> QED BY <1>5, <1>11 DEF With

\* The loop as a whole.
LEMMA LoopExplained ==
  ASSUME NEW cases \in Seq(Entries), NEW selected \in SUBSET Nat
  PROVE  LET st == Loop(cases, selected)
         IN  /\ st \in LoopStates
             /\ ~st.error => Explained(cases, selected, Len(cases), SelectedCases(cases, selected), st)
<1> DEFINE n == Len(cases)
<1>1. n \in Nat
  BY LenProperties
<1>2. PICK f \in [0..n -> LoopStates] :
         /\ f[0] = Start /\ \A k \in 1..n : f[k] = TurnOf(cases, selected, f[k - 1], k)
         /\ Loop(cases, selected) = f[n]
  BY LoopLoop
<1>3. PICK g \in [0..n -> Seq(Nat)] :
         /\ g[0] = <<>>
         /\ \A k \in 1..n :
               g[k] = IF k \in selected /\ cases[k].type = "C" THEN Append(g[k - 1], k) ELSE g[k - 1]
         /\ SelectedCases(cases, selected) = g[n]
  BY SelectedCasesLoop
<1> DEFINE S == {k \in 0..n : ~f[k].error => Explained(cases, selected, k, g[k], f[k])}
<1>4. 0 \in S
  <2>1. Contents(Start.testCases) = NoContents /\ Start.pretest = <<>> /\ Start.testCases = <<>>
        /\ Start.currentBatch = NoBatch /\ Start.totalPoints = 0
    BY ContentsGrow DEF Start
  <2>2. OpenCases(Start) = <<>> /\ OpenPoints(Start) = 0
    BY <2>1 DEF OpenCases, OpenPoints
  <2>3. Filled(Start)
    <3>1. DOMAIN Start.testCases = {}
      BY <2>1
    <3> QED BY <2>1, <3>1 DEF Filled, NoContents
  <2>4. Contents(Start.testCases).cases \o OpenCases(Start) = <<>>
    <3>1. <<>> \o <<>> = <<>>
      OBVIOUS
    <3> QED BY <2>1, <2>2, <3>1 DEF NoContents
  <2>5. Start.totalPoints <= Contents(Start.testCases).earnable + OpenPoints(Start)
    BY <2>1, <2>2 DEF NoContents
  <2>6. Explained(cases, selected, 0, <<>>, Start)
    BY <2>1, <2>3, <2>4, <2>5 DEF Explained
  <2> QED BY <1>1, <1>2, <1>3, <2>6
<1>5. ASSUME NEW k \in 1..n, k - 1 \in S PROVE k \in S
  <2>1. k \in Nat /\ k \in 0..n /\ k - 1 \in 0..n
    BY <1>1
  <2> DEFINE st == f[k - 1]
             done == g[k - 1]
             met == IF k \in selected /\ cases[k].type = "C" THEN Append(done, k) ELSE done
  <2>2. st \in LoopStates /\ done \in Seq(Nat) /\ (~st.error => Explained(cases, selected, k - 1, done, st))
    BY <1>2, <1>3, <1>5, <2>1
  <2>3. f[k] = TurnOf(cases, selected, st, k) /\ g[k] = met
    BY <1>2, <1>3
  <2> HIDE DEF st, done
  <2>4. LET new == TurnOf(cases, selected, st, k)
        IN  ~new.error => Explained(cases, selected, k, met, new)
    BY <2>1, <2>2, TurnExplained
  <2> HIDE DEF met
  <2> QED BY <2>1, <2>3, <2>4
<1>6. \A k \in 0..n : k \in S
  <2> HIDE DEF S, n
  <2> QED BY <1>1, <1>4, <1>5, UpTo
<1>7. n \in 0..n
  BY <1>1
<1>8. f[n] \in LoopStates /\ (~f[n].error => Explained(cases, selected, n, g[n], f[n]))
  BY <1>2, <1>6, <1>7
<1> QED BY <1>2, <1>3, <1>8

LEMMA EntriesAreKeptAlways ==
  ASSUME NEW cases \in Seq(Entries), NEW selected \in SUBSET Nat
  PROVE  CasesAreKept(cases, selected) /\ SomethingIsEarnedUnlessDropped(cases, selected)
<1> DEFINE st == Loop(cases, selected)
           last == IF st.error THEN st ELSE EndBatch(st)
           init == Build(cases, selected)
           met == SelectedCases(cases, selected)
<1> SUFFICES ASSUME ~init.error
             PROVE  /\ Contents(init.testCases).cases = met
                    /\ \A i \in DOMAIN init.testCases : init.testCases[i].of # <<>>
                    /\ init.pretest = Contents(init.testCases).pretests
                    /\ StartsTwice(cases, selected) \/ Contents(init.testCases).earnable > 0
  BY DEF CasesAreKept, SomethingIsEarnedUnlessDropped, SomethingIsEarned
<1>1. st \in LoopStates /\ (~st.error => Explained(cases, selected, Len(cases), met, st))
  BY LoopExplained
<1>2. init = [last EXCEPT !.error = @ \/ last.totalPoints <= 0]
  BY DEF Build
<1> HIDE DEF st, init, met
<1>3. /\ EndBatch(st) \in LoopStates
      /\ ~st.error /\ ~EndBatch(st).error =>
            Explained(cases, selected, Len(cases), met, EndBatch(st)) /\ EndBatch(st).currentBatch = NoBatch
  <2>1. CASE st.error
    BY <1>1, <2>1, EndIsTyped
  <2>2. CASE ~st.error
    BY <1>1, <2>2, EndExplained DEF Explained
  <2> QED BY <2>1, <2>2
<1>4. last \in LoopStates
  BY <1>1, <1>3
<1>5. ~last.error /\ ~(last.totalPoints <= 0) /\ init.testCases = last.testCases /\ init.pretest = last.pretest
  <2> HIDE DEF last
  <2> QED BY <1>2, <1>4 DEF LoopStates
<1>6. ~st.error /\ last = EndBatch(st)
  BY <1>5
<1>7. Explained(cases, selected, Len(cases), met, last) /\ last.currentBatch = NoBatch
  BY <1>3, <1>5, <1>6
<1> HIDE DEF last
<1>8. OpenCases(last) = <<>> /\ OpenPoints(last) = 0
  BY <1>7 DEF OpenCases, OpenPoints
<1>9. /\ last.totalPoints \in Nat /\ Contents(last.testCases).earnable \in Nat
      /\ Contents(last.testCases).cases \in Seq(Nat)
  BY <1>4, BatchesAreItems
<1>10. Contents(last.testCases).cases = met
  BY <1>7, <1>8, <1>9, ConcatEmptySeq DEF Explained
<1>11. StartsTwice(cases, selected) \/ Contents(last.testCases).earnable > 0
  BY <1>5, <1>7, <1>8, <1>9 DEF Explained
<1> QED BY <1>5, <1>7, <1>10, <1>11 DEF Explained, Filled

-------------------------------------------------------------------------------
(* What is asked. *)

TablesAgree == VerdictsAgree /\ PointsAgree /\ EntriesAreKept /\ AccessAgrees

LEMMA AnswersAgree ==
  ASSUME TablesNext, question' # question
  PROVE  TablesAgree'
<1> USE DEF TablesAgree, VerdictsAgree, PointsAgree, EntriesAreKept, AccessAgrees
<1>1. CASE AskStatus
  <2>1. PICK status : question' = [kind |-> "status", status |-> status]
    BY <1>1 DEF AskStatus
  <2> QED BY <2>1, FlagsDoAgree
<1>2. CASE AskVerdicts
  <2>1. PICK n \in 0..MaxCases :
           \E verdicts \in [1..n -> CaseVerdicts] :
              question' = [kind |-> "verdicts", verdicts |-> verdicts]
    BY <1>2 DEF AskVerdicts
  <2>2. PICK verdicts \in [1..n -> CaseVerdicts] :
           question' = [kind |-> "verdicts", verdicts |-> verdicts]
    BY <2>1
  <2>3. n \in Nat
    BY TablesAssumption
  <2>4. verdicts \in Seq(CaseVerdicts)
    BY <2>3
  <2> QED BY <2>2, <2>4, OrderDoesntMatter
<1>3. CASE AskPoints
  <2>1. PICK total \in 1..MaxTotal, points \in ProblemPoints :
           \E earned \in 0..total :
              question' = [kind |-> "points", earned |-> earned, total |-> total, points |-> points]
    BY <1>3 DEF AskPoints
  <2>2. PICK earned \in 0..total :
           question' = [kind |-> "points", earned |-> earned, total |-> total, points |-> points]
    BY <2>1
  <2>3. total \in Nat \ {0} /\ points \in Nat /\ earned \in Nat /\ earned <= total
    BY TablesAssumption
  <2> QED BY <2>2, <2>3, PointsDoFollowScore
<1>4. CASE AskEntries
  <2>1. PICK n \in 1..MaxEntries :
           \E cases \in [1..n -> CaseEntries(EntryPoints)], selected \in SUBSET (1..n) :
              question' = [kind |-> "entries", cases |-> cases, selected |-> selected]
    BY <1>4 DEF AskEntries
  <2>2. PICK cases \in [1..n -> Entries], selected \in SUBSET (1..n) :
           question' = [kind |-> "entries", cases |-> cases, selected |-> selected]
    BY <2>1 DEF Entries
  <2>3. n \in Nat
    BY TablesAssumption
  <2>4. cases \in Seq(Entries) /\ selected \in SUBSET Nat
    BY <2>3
  <2> QED BY <2>2, <2>4, EntriesAreKeptAlways
<1>5. CASE AskAccess
  <2>1. PICK user \in Users, problem \in Problems :
           question' = [kind |-> "access", user |-> user, problem |-> problem]
    BY <1>5 DEF AskAccess
  <2> QED BY <2>1, ViewsDoAgree, EditorsDoAgree, RightsDoGrow, LocksDoRestrain
<1> QED BY <1>1, <1>2, <1>3, <1>4, <1>5 DEF TablesNext, Ask

LEMMA TablesAgreeHolds == TablesSpec => []TablesAgree
<1>1. TablesInit => TablesAgree
  BY DEF TablesInit, NoQuestion, TablesAgree, VerdictsAgree, PointsAgree, EntriesAreKept, AccessAgrees
<1>2. ASSUME TablesAgree, [TablesNext]_<<question, vars>>
      PROVE  TablesAgree'
  <2>1. CASE question' = question
    BY <1>2, <2>1 DEF TablesAgree, VerdictsAgree, PointsAgree, EntriesAreKept, AccessAgrees
  <2>2. CASE question' # question
    BY <1>2, <2>2, AnswersAgree
  <2> QED BY <2>1, <2>2
<1> QED BY <1>1, <1>2, PTL DEF TablesSpec

\* However many cases a submission has, and whatever flags its cases have.
THEOREM TheVerdictsAgree == TablesSpec => []VerdictsAgree
  BY TablesAgreeHolds, PTL DEF TablesAgree

\* However many points a problem and its cases have.
THEOREM ThePointsAgree == TablesSpec => []PointsAgree
  BY TablesAgreeHolds, PTL DEF TablesAgree

\* However long the list is, and whichever entries of it are selected.
THEOREM TheEntriesAreKept == TablesSpec => []EntriesAreKept
  BY TablesAgreeHolds, PTL DEF TablesAgree

\* For every user and every problem, locked, deleted or neither.
THEOREM TheAccessAgrees == TablesSpec => []AccessAgrees
  BY TablesAgreeHolds, PTL DEF TablesAgree

===============================================================================
