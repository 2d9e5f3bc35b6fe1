--------------------------- MODULE DMOJBridgeProofs ---------------------------
(***************************************************************************)
(* Theorems about DMOJBridge, for any numbers of connections, judge names  *)
(* and failing statements.                                                 *)
(***************************************************************************)
EXTENDS DMOJBridge, FiniteSetTheorems, TLAPS

-------------------------------------------------------------------------------
(* Ranks. *)

LEMMA RankIsNat ==
    /\ IsFiniteSet(Mapped)
    /\ Cardinality(Mapped) \in Nat /\ NextRank \in Nat
  <1>1. IsFiniteSet(Mapped)
    BY FS_Subset, BridgeAssumption DEF Mapped
  <1> QED
    BY <1>1, FS_CardinalityType DEF NextRank

\* An entry is written after all others: its rank is higher than theirs.
LEMMA NextRankIsHighest ==
    ASSUME TypeOK, RanksGrow, NEW c \in Connections, mappedAt[c] = 0,
           mappedAt' = [mappedAt EXCEPT ![c] = NextRank]
    PROVE  /\ \A d \in Connections \ {c} : mappedAt'[d] = mappedAt[d] /\ mappedAt[d] < mappedAt'[c]
           /\ RanksGrow'
  <1>1. Cardinality(Mapped) \in Nat /\ mappedAt'[c] = Cardinality(Mapped) + 1
    BY RankIsNat DEF TypeOK, NextRank
  <1>2. \A d \in Connections \ {c} : mappedAt'[d] = mappedAt[d] /\ mappedAt[d] <= Cardinality(Mapped)
                                     /\ mappedAt[d] \in Nat
    BY DEF TypeOK, RanksGrow
  <1>3. Mapped' = Mapped \cup {c} /\ c \notin Mapped
    BY <1>1, <1>2 DEF Mapped
  <1>4. Cardinality(Mapped') = Cardinality(Mapped) + 1
    BY <1>3, RankIsNat, FS_AddElement
  <1>5. \A d \in Connections : mappedAt'[d] <= Cardinality(Mapped')
    BY <1>1, <1>2, <1>4
  <1>6. RanksGrow'
    BY <1>5 DEF RanksGrow
  <1> QED
    BY <1>1, <1>2, <1>6

-------------------------------------------------------------------------------
(* Type correctness. *)

LEMMA TypeOKInit == Init => TypeOK
  BY BridgeAssumption DEF Init, TypeOK, SocketStates, HandshakeStates

LEMMA TypeOKNext ==
    ASSUME TypeOK, [Next]_vars
    PROVE  TypeOK'
  <1> USE DEF TypeOK, SocketStates, HandshakeStates, pings, registry
  <1>1. ASSUME NEW c \in Connections, HandleJudgeConnection(c) PROVE TypeOK'
    BY <1>1 DEF HandleJudgeConnection
  <1>2. ASSUME NEW c \in Connections, HandshakeArrives(c) PROVE TypeOK'
    BY <1>2 DEF HandshakeArrives
  <1>3. ASSUME NEW c \in Connections, VerifyToken(c) PROVE TypeOK'
    BY <1>3 DEF VerifyToken
  <1>4. ASSUME NEW c \in Connections, LookUpJudge(c) PROVE TypeOK'
    BY <1>4, RankIsNat DEF LookUpJudge
  <1>5. ASSUME NEW c \in Connections, FinishHandshake(c) PROVE TypeOK'
    BY <1>5 DEF FinishHandshake
  <1>6. ASSUME NEW c \in Connections, HandshakeDbFails(c) PROVE TypeOK'
    BY <1>6 DEF HandshakeDbFails
  <1>7. ASSUME NEW c \in Connections, HandshakeFailureTimer(c) PROVE TypeOK'
    BY <1>7 DEF HandshakeFailureTimer
  <1>8. ASSUME NEW c \in Connections, SocketErrors(c) \/ SocketCloses(c) PROVE TypeOK'
    BY <1>8 DEF SocketErrors, SocketCloses, Unregister
  <1>9. ASSUME NEW c \in Connections, PingTick(c) PROVE TypeOK'
    BY <1>9 DEF PingTick
  <1>10. CASE UNCHANGED vars
    BY <1>10 DEF vars
  <1> QED
    BY <1>1, <1>2, <1>3, <1>4, <1>5, <1>6, <1>7, <1>8, <1>9, <1>10 DEF Next, HandshakeSteps

\* Every variable of the bridge keeps its type.
THEOREM TypeCorrect == Spec => []TypeOK
  <1>1. TypeOK /\ [Next]_vars => TypeOK'
    BY TypeOKNext
  <1> QED
    BY TypeOKInit, <1>1, PTL DEF Spec

-------------------------------------------------------------------------------
(* The registry. *)

\* A handshake is carried out once, under one name.
LEMMA OneHandshakeNext ==
    ASSUME TypeOK, OneHandshake, [Next]_vars
    PROVE  OneHandshake'
  <1> USE DEF TypeOK, SocketStates, HandshakeStates, pings, registry, OneHandshake
  <1>1. ASSUME NEW c \in Connections, HandleJudgeConnection(c) PROVE OneHandshake'
    BY <1>1 DEF HandleJudgeConnection
  <1>2. ASSUME NEW c \in Connections, HandshakeArrives(c) PROVE OneHandshake'
    BY <1>2 DEF HandshakeArrives
  <1>3. ASSUME NEW c \in Connections, VerifyToken(c) PROVE OneHandshake'
    BY <1>3 DEF VerifyToken
  <1>4. ASSUME NEW c \in Connections, LookUpJudge(c) PROVE OneHandshake'
    BY <1>4 DEF LookUpJudge
  <1>5. ASSUME NEW c \in Connections, FinishHandshake(c) PROVE OneHandshake'
    BY <1>5 DEF FinishHandshake
  <1>6. ASSUME NEW c \in Connections, HandshakeDbFails(c) PROVE OneHandshake'
    BY <1>6 DEF HandshakeDbFails
  <1>7. ASSUME NEW c \in Connections, HandshakeFailureTimer(c) PROVE OneHandshake'
    BY <1>7 DEF HandshakeFailureTimer
  <1>8. ASSUME NEW c \in Connections, SocketErrors(c) \/ SocketCloses(c) PROVE OneHandshake'
    BY <1>8 DEF SocketErrors, SocketCloses, Unregister
  <1>9. ASSUME NEW c \in Connections, PingTick(c) PROVE OneHandshake'
    BY <1>9 DEF PingTick
  <1>10. CASE UNCHANGED vars
    BY <1>10 DEF vars
  <1> QED
    BY <1>1, <1>2, <1>3, <1>4, <1>5, <1>6, <1>7, <1>8, <1>9, <1>10 DEF Next, HandshakeSteps

\* Ranks are counted up.
LEMMA RanksGrowNext ==
    ASSUME TypeOK, OneHandshake, RanksGrow, [Next]_vars
    PROVE  RanksGrow'
  <1> USE DEF TypeOK, SocketStates, HandshakeStates, pings, registry, OneHandshake, RanksGrow, Mapped
  <1>1. ASSUME NEW c \in Connections, HandleJudgeConnection(c) PROVE RanksGrow'
    BY <1>1 DEF HandleJudgeConnection
  <1>2. ASSUME NEW c \in Connections, HandshakeArrives(c) PROVE RanksGrow'
    BY <1>2 DEF HandshakeArrives
  <1>3. ASSUME NEW c \in Connections, VerifyToken(c) PROVE RanksGrow'
    BY <1>3 DEF VerifyToken
  <1>4. ASSUME NEW c \in Connections, LookUpJudge(c) PROVE RanksGrow'
    <2>1. CASE mappedAt' = mappedAt
      BY <2>1
    <2>2. CASE mappedAt' = [mappedAt EXCEPT ![c] = NextRank]
      BY <1>4, <2>2, NextRankIsHighest DEF LookUpJudge
    <2> QED
      BY <1>4, <2>1, <2>2 DEF LookUpJudge
  <1>5. ASSUME NEW c \in Connections, FinishHandshake(c) PROVE RanksGrow'
    BY <1>5 DEF FinishHandshake
  <1>6. ASSUME NEW c \in Connections, HandshakeDbFails(c) PROVE RanksGrow'
    BY <1>6 DEF HandshakeDbFails
  <1>7. ASSUME NEW c \in Connections, HandshakeFailureTimer(c) PROVE RanksGrow'
    BY <1>7 DEF HandshakeFailureTimer
  <1>8. ASSUME NEW c \in Connections, SocketErrors(c) \/ SocketCloses(c) PROVE RanksGrow'
    BY <1>8 DEF SocketErrors, SocketCloses, Unregister
  <1>9. ASSUME NEW c \in Connections, PingTick(c) PROVE RanksGrow'
    BY <1>9 DEF PingTick
  <1>10. CASE UNCHANGED vars
    BY <1>10 DEF vars
  <1> QED
    BY <1>1, <1>2, <1>3, <1>4, <1>5, <1>6, <1>7, <1>8, <1>9, <1>10 DEF Next, HandshakeSteps

\* What is registered for other judges stays when c is lost.
LEMMA LossKeepsOthers ==
    ASSUME TypeOK, OneHandshake, AcceptedKeepsPlace, NEW c \in Connections,
           socket'[c] # "open", claimed' = claimed,
           \A d \in Connections \ {c} :
              socket'[d] = socket[d] /\ handshake'[d] = handshake[d] /\ nameOf'[d] = nameOf[d],
           judgeConnections \ {c} \subseteq judgeConnections',
           judgeCapabilities \ {c} \subseteq judgeCapabilities',
           connectedJudgeNames \ {nameOf[c]} \subseteq connectedJudgeNames'
    PROVE  AcceptedKeepsPlace'
  <1> SUFFICES ASSUME NEW d \in Connections, socket'[d] = "open"
               PROVE  /\ d \in judgeConnections'
                      /\ handshake'[d] \in {"touching", "done"} =>
                            /\ d \in judgeCapabilities'
                            /\ nameOf'[d] = claimed'[d]
                            /\ Alone(d)' => claimed'[d] \in connectedJudgeNames'
    BY DEF AcceptedKeepsPlace
  <1>1. d # c /\ d \in judgeConnections' /\ socket[d] = "open"
    BY DEF AcceptedKeepsPlace
  <1>2. ASSUME handshake'[d] \in {"touching", "done"}
        PROVE  d \in judgeCapabilities' /\ nameOf'[d] = claimed'[d]
    BY <1>1, <1>2 DEF AcceptedKeepsPlace
  <1>3. ASSUME handshake'[d] \in {"touching", "done"}, Alone(d)'
        PROVE  claimed'[d] \in connectedJudgeNames'
    <2>1. Alone(d) /\ claimed[d] \in Names /\ handshake[d] \in {"touching", "done"}
      BY <1>1, <1>3 DEF Alone, OneHandshake
    <2>2. claimed[c] # claimed[d]
      BY <1>1, <2>1 DEF Alone
    <2>3. nameOf[c] # claimed[d]
      BY <2>1, <2>2, BridgeAssumption DEF OneHandshake
    <2>4. claimed[d] \in connectedJudgeNames
      BY <1>1, <2>1 DEF AcceptedKeepsPlace
    <2> QED
      BY <2>3, <2>4
  <1> QED
    BY <1>1, <1>2, <1>3

\* What is registered for a judge stays until its own socket breaks.
LEMMA AcceptedKeepsPlaceNext ==
    ASSUME TypeOK, OneHandshake, AcceptedKeepsPlace, [Next]_vars
    PROVE  AcceptedKeepsPlace'
  <1> USE DEF TypeOK, SocketStates, HandshakeStates, pings, registry, OneHandshake, AcceptedKeepsPlace, Alone
  <1>1. ASSUME NEW c \in Connections, HandleJudgeConnection(c) PROVE AcceptedKeepsPlace'
    BY <1>1 DEF HandleJudgeConnection
  <1>2. ASSUME NEW c \in Connections, HandshakeArrives(c) PROVE AcceptedKeepsPlace'
    <2>1. /\ UNCHANGED <<socket, judgeConnections, judgeCapabilities, nameOf, connectedJudgeNames>>
          /\ handshake[c] = "none" /\ handshake'[c] \notin {"touching", "done"}
          /\ \A d \in Connections \ {c} : handshake'[d] = handshake[d] /\ claimed'[d] = claimed[d]
      BY <1>2 DEF HandshakeArrives
    <2>2. ASSUME NEW d \in Connections, handshake'[d] \in {"touching", "done"}, Alone(d)'
          PROVE  Alone(d) /\ handshake'[d] = handshake[d] /\ claimed'[d] = claimed[d]
      <3>1. d # c /\ claimed[d] \in Names /\ claimed[c] = NoName
        BY <2>1, <2>2
      <3> QED
        BY <2>1, <2>2, <3>1, BridgeAssumption
    <2>3. ASSUME NEW d \in Connections, socket'[d] = "open" PROVE d \in judgeConnections'
      BY <2>1, <2>3
    <2>4. ASSUME NEW d \in Connections, socket'[d] = "open", handshake'[d] \in {"touching", "done"}
          PROVE  d \in judgeCapabilities' /\ nameOf'[d] = claimed'[d]
      BY <2>1, <2>4
    <2>5. ASSUME NEW d \in Connections, socket'[d] = "open", handshake'[d] \in {"touching", "done"},
                 Alone(d)'
          PROVE  claimed'[d] \in connectedJudgeNames'
      BY <2>1, <2>2, <2>5
    <2> QED
      BY <2>3, <2>4, <2>5 DEF AcceptedKeepsPlace
  <1>3. ASSUME NEW c \in Connections, VerifyToken(c) PROVE AcceptedKeepsPlace'
    BY <1>3 DEF VerifyToken
  <1>4. ASSUME NEW c \in Connections, LookUpJudge(c) PROVE AcceptedKeepsPlace'
    BY <1>4 DEF LookUpJudge
  <1>5. ASSUME NEW c \in Connections, FinishHandshake(c) PROVE AcceptedKeepsPlace'
    BY <1>5 DEF FinishHandshake
  <1>6. ASSUME NEW c \in Connections, HandshakeDbFails(c) PROVE AcceptedKeepsPlace'
    BY <1>6 DEF HandshakeDbFails
  <1>7. ASSUME NEW c \in Connections, HandshakeFailureTimer(c) PROVE AcceptedKeepsPlace'
    BY <1>7, LossKeepsOthers DEF HandshakeFailureTimer
  <1>8. ASSUME NEW c \in Connections, SocketErrors(c) \/ SocketCloses(c) PROVE AcceptedKeepsPlace'
    BY <1>8, LossKeepsOthers DEF SocketErrors, SocketCloses, Unregister
  <1>9. ASSUME NEW c \in Connections, PingTick(c) PROVE AcceptedKeepsPlace'
    BY <1>9 DEF PingTick
  <1>10. CASE UNCHANGED vars
    BY <1>10 DEF vars
  <1> QED
    BY <1>1, <1>2, <1>3, <1>4, <1>5, <1>6, <1>7, <1>8, <1>9, <1>10 DEF Next, HandshakeSteps

\* Names, entries, ids and intervals go together.
LEMMA RegistryAgreesNext ==
    ASSUME TypeOK, OneHandshake, RegistryAgrees, [Next]_vars
    PROVE  RegistryAgrees'
  <1> USE DEF TypeOK, SocketStates, HandshakeStates, pings, registry, OneHandshake, RegistryAgrees, NamesAreMapped, ConnectedHaveDbId, PingsAreTracked
  <1>1. ASSUME NEW c \in Connections, HandleJudgeConnection(c) PROVE RegistryAgrees'
    BY <1>1 DEF HandleJudgeConnection
  <1>2. ASSUME NEW c \in Connections, HandshakeArrives(c) PROVE RegistryAgrees'
    BY <1>2 DEF HandshakeArrives
  <1>3. ASSUME NEW c \in Connections, VerifyToken(c) PROVE RegistryAgrees'
    BY <1>3 DEF VerifyToken
  <1>4. ASSUME NEW c \in Connections, LookUpJudge(c) PROVE RegistryAgrees'
    <2>1. CASE UNCHANGED registry
      BY <1>4, <2>1 DEF LookUpJudge
    <2>2. CASE /\ connectedJudgeNames' = connectedJudgeNames \cup {claimed[c]}
               /\ nameOf' = [nameOf EXCEPT ![c] = claimed[c]]
               /\ judgeNameToIdInDB' = judgeNameToIdInDB \cup {claimed[c]}
      <3>1. nameOf'[c] = claimed[c] /\ \A d \in Connections \ {c} : nameOf'[d] = nameOf[d]
        BY <2>2
      <3>2. nameOf[c] = NoName
        BY <1>4 DEF LookUpJudge
      <3>3. NamesAreMapped'
        BY <2>2, <3>1, <3>2, BridgeAssumption
      <3>4. ConnectedHaveDbId'
        BY <2>2
      <3>5. PingsAreTracked'
        BY <1>4 DEF LookUpJudge
      <3> QED
        BY <3>3, <3>4, <3>5
    <2> QED
      BY <1>4, <2>1, <2>2 DEF LookUpJudge
  <1>5. ASSUME NEW c \in Connections, FinishHandshake(c) PROVE RegistryAgrees'
    BY <1>5 DEF FinishHandshake
  <1>6. ASSUME NEW c \in Connections, HandshakeDbFails(c) PROVE RegistryAgrees'
    BY <1>6 DEF HandshakeDbFails
  <1>7. ASSUME NEW c \in Connections, HandshakeFailureTimer(c) PROVE RegistryAgrees'
    BY <1>7 DEF HandshakeFailureTimer
  <1>8. ASSUME NEW c \in Connections, SocketErrors(c) \/ SocketCloses(c) PROVE RegistryAgrees'
    <2>1. Unregister(c)
      BY <1>8 DEF SocketErrors, SocketCloses
    <2>2. \A d \in Connections \ {c} : nameOf'[d] = nameOf[d]
      BY <2>1 DEF Unregister
    <2>3. NamesAreMapped'
      BY <2>1, <2>2 DEF Unregister
    <2>4. ConnectedHaveDbId'
      BY <2>1 DEF Unregister
    <2>5. PingsAreTracked'
      BY <2>1 DEF Unregister
    <2> QED
      BY <2>3, <2>4, <2>5
  <1>9. ASSUME NEW c \in Connections, PingTick(c) PROVE RegistryAgrees'
    BY <1>9 DEF PingTick
  <1>10. CASE UNCHANGED vars
    BY <1>10 DEF vars
  <1> QED
    BY <1>1, <1>2, <1>3, <1>4, <1>5, <1>6, <1>7, <1>8, <1>9, <1>10 DEF Next, HandshakeSteps

LEMMA BridgeInvInit == Init => BridgeInv
  <1> SUFFICES ASSUME Init PROVE BridgeInv
    OBVIOUS
  <1>1. TypeOK
    BY TypeOKInit
  <1>2. OneHandshake
    BY DEF Init, OneHandshake
  <1>3. RanksGrow
    BY RankIsNat, <1>1 DEF Init, RanksGrow, TypeOK
  <1>4. AcceptedKeepsPlace
    BY DEF Init, AcceptedKeepsPlace
  <1>5. RegistryAgrees
    BY DEF Init, RegistryAgrees, NamesAreMapped, ConnectedHaveDbId, PingsAreTracked
  <1> QED
    BY <1>1, <1>2, <1>3, <1>4, <1>5 DEF BridgeInv

LEMMA BridgeInvNext == BridgeInv /\ [Next]_vars => BridgeInv'
  BY TypeOKNext, OneHandshakeNext, RanksGrowNext, AcceptedKeepsPlaceNext, RegistryAgreesNext
     DEF BridgeInv

THEOREM BridgeInvHolds == Spec => []BridgeInv
  BY BridgeInvInit, BridgeInvNext, PTL DEF Spec

\* The maps agree, whatever handshakes, closes, timers and failures interleave.
THEOREM MapsAgree == Spec => []RegistryAgrees
  <1>1. BridgeInv => RegistryAgrees
    BY DEF BridgeInv
  <1> QED
    BY BridgeInvHolds, <1>1, PTL

\* A live judge keeps what was registered for it.
THEOREM LiveJudgesStayRegistered == Spec => []LiveStaysRegistered
  <1>1. BridgeInv => LiveStaysRegistered
    BY DEF BridgeInv, AcceptedKeepsPlace, LiveStaysRegistered, Live
  <1> QED
    BY BridgeInvHolds, <1>1, PTL

\* A live judge whose name nobody else claims is offered to the queue.
THEOREM LiveJudgesAloneAreOffered == Spec => []LiveAloneIsOffered
  <1>1. ASSUME BridgeInv, NEW c \in Connections, Live(c), Alone(c)
        PROVE  CanSubmit(claimed[c])
    <2>1. /\ c \in judgeConnections /\ nameOf[c] = claimed[c] /\ claimed[c] \in Names
          /\ claimed[c] \in connectedJudgeNames
      BY <1>1 DEF BridgeInv, AcceptedKeepsPlace, OneHandshake, Live
    <2>2. ASSUME NEW d \in Connections, nameOf[d] = claimed[c] PROVE d = c
      <3>1. claimed[d] = claimed[c]
        BY <1>1, <2>1, <2>2, BridgeAssumption DEF BridgeInv, OneHandshake
      <3> QED
        BY <1>1, <3>1 DEF Alone
    <2>3. IsConnectionIdFor(c, claimed[c])
      BY <1>1, <2>1, <2>2 DEF IsConnectionIdFor, BridgeInv, TypeOK
    <2> QED
      BY <2>1, <2>3 DEF CanSubmit
  <1>2. BridgeInv => LiveAloneIsOffered
    BY <1>1 DEF LiveAloneIsOffered
  <1> QED
    BY BridgeInvHolds, <1>2, PTL

-------------------------------------------------------------------------------
(* What the queue sees: a step changes the link of one name, as JudgeLinks *)
(* lets it.                                                                *)

links == [n \in Names |-> LinkOf(n)]
LinksStep == [Links!Next]_links

LEMMA LinkRange == \A n \in Names : LinkOf(n) \in {"down", "up", "ghost"}
  BY DEF LinkOf

LEMMA InitIsDown == Init => Links!Init
  BY DEF Init, Links!Init, LinkOf

LEMMA StutterOfLinks ==
    ASSUME \A n \in Names : LinkOf(n)' = LinkOf(n)
    PROVE  LinksStep
  BY DEF LinksStep, links

\* What a lookup finds depends on the entries of its name and on the sockets.
LEMMA SameLookup ==
    ASSUME NEW n \in Names,
           n \in connectedJudgeNames' <=> n \in connectedJudgeNames,
           mappedAt' = mappedAt,
           \A d \in Connections : nameOf'[d] = n <=> nameOf[d] = n,
           \A d \in Connections : nameOf[d] = n =>
              (d \in judgeConnections' <=> d \in judgeConnections),
           judgeConnections \subseteq Connections, judgeConnections' \subseteq Connections
    PROVE  LinkOf(n)' = LinkOf(n)
  <1>1. \A c \in Connections : IsConnectionIdFor(c, n)' <=> IsConnectionIdFor(c, n)
    BY DEF IsConnectionIdFor
  <1>2. CanSubmit(n)' <=> CanSubmit(n)
    BY <1>1 DEF CanSubmit, IsConnectionIdFor
  <1> QED
    BY <1>2 DEF LinkOf

\* The name of c's entry is listed no more.
LEMMA LossOfLink ==
    ASSUME BridgeInv, TypeOK', NEW c \in Connections, mappedAt' = mappedAt,
           connectedJudgeNames' = connectedJudgeNames \ {nameOf[c]},
           nameOf' = [nameOf EXCEPT ![c] = NoName],
           judgeConnections' = judgeConnections \ {c}
    PROVE  LinksStep
  <1>1. ASSUME NEW n \in Names, n # nameOf[c] PROVE LinkOf(n)' = LinkOf(n)
    <2>1. \A d \in Connections : nameOf'[d] = n <=> nameOf[d] = n
      BY <1>1, BridgeAssumption DEF BridgeInv, TypeOK
    <2>2. \A d \in Connections : nameOf[d] = n =>
              (d \in judgeConnections' <=> d \in judgeConnections)
      BY <1>1
    <2> QED
      BY <1>1, <2>1, <2>2, SameLookup DEF BridgeInv, TypeOK
  <1>2. CASE nameOf[c] \notin connectedJudgeNames
    <2>1. ASSUME NEW n \in Names, n = nameOf[c] PROVE LinkOf(n)' = LinkOf(n)
      <3>1. n \notin connectedJudgeNames /\ n \notin connectedJudgeNames'
        BY <1>2, <2>1
      <3> QED
        BY <3>1 DEF LinkOf
    <2>2. \A n \in Names : LinkOf(n)' = LinkOf(n)
      BY <1>1, <2>1
    <2> QED
      BY <2>2, StutterOfLinks
  <1>3. CASE nameOf[c] \in connectedJudgeNames
    <2> DEFINE k == nameOf[c]
    <2>1. k \in Names
      BY <1>3 DEF BridgeInv, TypeOK
    <2>2. LinkOf(k) # "down" /\ \A n \in Names : LinkOf(n)' = IF n = k THEN "down" ELSE LinkOf(n)
      BY <1>1, <1>3, <2>1 DEF LinkOf
    <2>3. Links!Vanishes(k)
      BY <2>1, <2>2 DEF Links!Vanishes
    <2> QED
      BY <2>1, <2>3 DEF LinksStep, links, Links!Next
  <1> QED
    BY <1>2, <1>3

\* A registered judge appears, in reach or not.
LEMMA GainOfLink ==
    ASSUME BridgeInv, TypeOK', NEW c \in Connections, LookUpJudge(c), ~ UNCHANGED registry
    PROVE  LinksStep
  <1>1. PICK k \in Names :
        /\ nameOf[c] = NoName /\ mappedAt[c] = 0
        /\ connectedJudgeNames' = connectedJudgeNames \cup {k}
        /\ nameOf' = [nameOf EXCEPT ![c] = k]
        /\ mappedAt' = [mappedAt EXCEPT ![c] = NextRank]
        /\ judgeConnections' = judgeConnections
    BY DEF LookUpJudge, BridgeInv, OneHandshake
  <1>2. \A d \in Connections \ {c} : mappedAt'[d] = mappedAt[d] /\ mappedAt[d] < mappedAt'[c]
    BY <1>1, NextRankIsHighest DEF BridgeInv
  <1>3. /\ nameOf'[c] = k /\ \A d \in Connections \ {c} : nameOf'[d] = nameOf[d]
        /\ \A n \in Names : nameOf[c] # n
    BY <1>1, BridgeAssumption DEF BridgeInv, TypeOK
  <1>4. ASSUME NEW n \in Names, n # k PROVE LinkOf(n)' = LinkOf(n)
    <2>1. ASSUME NEW d \in Connections PROVE IsConnectionIdFor(d, n)' <=> IsConnectionIdFor(d, n)
      BY <1>2, <1>3, <1>4 DEF IsConnectionIdFor
    <2>2. CanSubmit(n)' <=> CanSubmit(n)
      BY <1>1, <1>4, <2>1 DEF CanSubmit, BridgeInv, TypeOK
    <2> QED
      BY <1>1, <1>4, <2>2 DEF LinkOf
  <1>5. CASE k \in connectedJudgeNames
    <2>1. PICK e \in Connections : nameOf[e] = k
      BY <1>5 DEF BridgeInv, RegistryAgrees, NamesAreMapped
    <2>2. ASSUME NEW d \in Connections PROVE IsConnectionIdFor(d, k)' <=> IsConnectionIdFor(d, k)
      <3>1. e # c
        BY <1>1, <1>3, <2>1
      <3>2. CASE d = c
        <4>1. ~ IsConnectionIdFor(c, k)
          BY <1>1, <1>3 DEF IsConnectionIdFor
        <4>2. nameOf'[e] = k /\ mappedAt'[e] < mappedAt'[c]
          BY <1>2, <1>3, <2>1, <3>1
        <4>3. mappedAt'[e] \in Nat /\ mappedAt'[c] \in Nat
          BY DEF TypeOK
        <4>4. ~ (mappedAt'[c] <= mappedAt'[e])
          BY <4>2, <4>3
        <4>5. ~ IsConnectionIdFor(c, k)'
          BY <4>2, <4>4 DEF IsConnectionIdFor
        <4> QED
          BY <3>2, <4>1, <4>5
      <3>3. CASE d # c
        <4>1. nameOf'[d] = nameOf[d] /\ mappedAt'[d] = mappedAt[d] /\ mappedAt'[d] <= mappedAt'[c]
          BY <1>2, <1>3, <3>3 DEF TypeOK
        <4> QED
          BY <1>1, <1>2, <1>3, <4>1 DEF IsConnectionIdFor
      <3> QED
        BY <3>2, <3>3
    <2>3. CanSubmit(k)' <=> CanSubmit(k)
      BY <1>1, <1>5, <2>2 DEF CanSubmit, BridgeInv, TypeOK
    <2>4. LinkOf(k)' = LinkOf(k)
      BY <1>1, <1>5, <2>3 DEF LinkOf
    <2>5. \A n \in Names : LinkOf(n)' = LinkOf(n)
      BY <1>4, <2>4
    <2> QED
      BY <2>5, StutterOfLinks
  <1>6. CASE k \notin connectedJudgeNames
    <2>1. LinkOf(k) = "down" /\ LinkOf(k)' \in {"up", "ghost"}
      BY <1>1, <1>6 DEF LinkOf
    <2>2. \A n \in Names : LinkOf(n)' = IF n = k THEN LinkOf(k)' ELSE LinkOf(n)
      BY <1>4
    <2>3. CASE LinkOf(k)' = "up"
      <3>1. Links!Appears(k)
        BY <1>1, <2>1, <2>2, <2>3 DEF Links!Appears
      <3> QED
        BY <1>1, <3>1 DEF LinksStep, links, Links!Next
    <2>4. CASE LinkOf(k)' = "ghost"
      <3>1. Links!Haunts(k)
        BY <1>1, <2>1, <2>2, <2>4 DEF Links!Haunts
      <3> QED
        BY <1>1, <3>1 DEF LinksStep, links, Links!Next
    <2> QED
      BY <2>1, <2>3, <2>4
  <1> QED
    BY <1>5, <1>6

\* A socket that was never used has no entry: its connection concerns no name.
LEMMA ArrivalIsStutter ==
    ASSUME BridgeInv, TypeOK', NEW c \in Connections, HandleJudgeConnection(c)
    PROVE  LinksStep
  <1>1. nameOf[c] = NoName
    BY DEF HandleJudgeConnection, BridgeInv, OneHandshake
  <1>2. ASSUME NEW n \in Names PROVE LinkOf(n)' = LinkOf(n)
    <2>1. \A d \in Connections : nameOf[d] = n =>
             (d \in judgeConnections' <=> d \in judgeConnections)
      BY <1>1, BridgeAssumption DEF HandleJudgeConnection
    <2> QED
      BY <2>1, SameLookup DEF HandleJudgeConnection, BridgeInv, TypeOK
  <1> QED
    BY <1>2, StutterOfLinks

\* Steps that leave the maps alone leave the links alone.
LEMMA RegistryAlone ==
    ASSUME BridgeInv, UNCHANGED registry
    PROVE  LinksStep
  <1>1. \A n \in Names : LinkOf(n)' = LinkOf(n)
    BY SameLookup DEF registry, BridgeInv, TypeOK
  <1> QED
    BY <1>1, StutterOfLinks

LEMMA StepImplements ==
    ASSUME BridgeInv, [Next]_vars
    PROVE  LinksStep
  <1>0. TypeOK'
    BY TypeOKNext DEF BridgeInv
  <1>1. ASSUME NEW c \in Connections, HandleJudgeConnection(c) PROVE LinksStep
    BY <1>0, <1>1, ArrivalIsStutter
  <1>2. ASSUME NEW c \in Connections,
               \/ HandshakeArrives(c) \/ VerifyToken(c) \/ FinishHandshake(c)
               \/ HandshakeDbFails(c) \/ PingTick(c)
        PROVE  LinksStep
    BY <1>2, RegistryAlone
       DEF HandshakeArrives, VerifyToken, FinishHandshake, HandshakeDbFails, PingTick
  <1>3. ASSUME NEW c \in Connections, LookUpJudge(c) PROVE LinksStep
    BY <1>0, <1>3, GainOfLink, RegistryAlone
  <1>4. ASSUME NEW c \in Connections, HandshakeFailureTimer(c) PROVE LinksStep
    BY <1>0, <1>4, LossOfLink, RegistryAlone DEF HandshakeFailureTimer
  <1>5. ASSUME NEW c \in Connections, SocketErrors(c) \/ SocketCloses(c) PROVE LinksStep
    BY <1>0, <1>5, LossOfLink DEF SocketErrors, SocketCloses, Unregister
  <1>6. CASE UNCHANGED vars
    BY <1>6, RegistryAlone DEF vars
  <1> QED
    BY <1>1, <1>2, <1>3, <1>4, <1>5, <1>6 DEF Next, HandshakeSteps

\* However connections of one name come, break and overlap, the queue sees its
\* judges only as JudgeLinks lets it: the bridge's half of the contract of which
\* QueueUsesLinks is the other.
THEOREM BridgeImplementsLinks == Spec => LinksAreImplemented
  <1>1. BridgeInv /\ [Next]_vars => [Links!Next]_links
    BY StepImplements DEF LinksStep
  <1>2. Init => Links!Init
    BY InitIsDown
  <1> QED
    BY <1>1, <1>2, BridgeInvHolds, PTL DEF Spec, LinksAreImplemented, Links!Spec, links

===============================================================================
