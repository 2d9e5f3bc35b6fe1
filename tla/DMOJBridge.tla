------------------------------ MODULE DMOJBridge ------------------------------
(***************************************************************************)
(* The registry of judge connections kept by DMOJBridgeService: the        *)
(* handshake (one action per `await'), the events of a socket, the ping    *)
(* interval and the lookups the queue makes.  A connection has an id of    *)
(* its own that is never used again and carries at most one handshake, as  *)
(* the DMOJ judge behaves; several connections may claim the same judge    *)
(* name, as a judge that reconnects does.                                  *)
(***************************************************************************)
EXTENDS Naturals, FiniteSets

CONSTANTS
    Connections,    \* the connections that may be made
    Names,          \* judge names
    NoName,         \* null
    MaxDbFailures   \* how many statements may fail

ASSUME BridgeAssumption ==
    /\ IsFiniteSet(Connections)
    /\ NoName \notin Names
    /\ MaxDbFailures \in Nat

\* A socket: errored after its 'error' event, destroyed by the server; the
\* 'close' event is still to come in both cases.
SocketStates == {"unused", "open", "errored", "destroyed", "closed"}

\* What a handshake waits for: the token's verification, the lookup of the
\* judge, the update of lastActive, or the timer that ends a failed handshake.
HandshakeStates == {"none", "verifying", "looking", "touching", "failing", "failed", "done"}

VARIABLES
    socket,                \* what has happened to each connection's socket
    handshake,             \* how far its handshake is
    claimed,               \* the judge name its handshake packet carries
    judgeConnections,      \* ids that have a socket
    judgeCapabilities,     \* ids that have capabilities
    connectedJudgeNames,   \* judge names that are connected
    nameOf,                \* connectionIdToJudgeName; NoName if it has no entry
    mappedAt,              \* the rank of that entry in the map's insertion order
    judgeNameToIdInDB,     \* judge names that have a database id
    judgePingIntervals,    \* ids that have an interval to clear
    pinging,               \* ids whose interval fires
    dbFailures             \* statements that have failed

registry == <<judgeConnections, judgeCapabilities, connectedJudgeNames,
              nameOf, mappedAt, judgeNameToIdInDB>>
pings == <<judgePingIntervals, pinging>>
vars == <<socket, handshake, claimed, registry, pings, dbFailures>>

TypeOK ==
    /\ socket \in [Connections -> SocketStates]
    /\ handshake \in [Connections -> HandshakeStates]
    /\ claimed \in [Connections -> Names \cup {NoName}]
    /\ \A c \in Connections :
          handshake[c] \in {"verifying", "looking", "touching"} => claimed[c] \in Names
    /\ judgeConnections \subseteq Connections
    /\ judgeCapabilities \subseteq Connections
    /\ connectedJudgeNames \subseteq Names
    /\ nameOf \in [Connections -> Names \cup {NoName}]
    /\ mappedAt \in [Connections -> Nat]
    /\ judgeNameToIdInDB \subseteq Names
    /\ judgePingIntervals \subseteq Connections
    /\ pinging \subseteq Connections
    /\ dbFailures \in Nat

Init ==
    /\ socket = [c \in Connections |-> "unused"]
    /\ handshake = [c \in Connections |-> "none"]
    /\ claimed = [c \in Connections |-> NoName]
    /\ judgeConnections = {} /\ judgeCapabilities = {}
    /\ connectedJudgeNames = {}
    /\ nameOf = [c \in Connections |-> NoName]
    /\ mappedAt = [c \in Connections |-> 0]
    /\ judgeNameToIdInDB = {}
    /\ judgePingIntervals = {} /\ pinging = {}
    /\ dbFailures = 0

-------------------------------------------------------------------------------
(* A connection is accepted; its handshake packet arrives and is processed. *)

HandleJudgeConnection(c) ==
    /\ socket[c] = "unused"
    /\ socket' = [socket EXCEPT ![c] = "open"]
    /\ judgeConnections' = judgeConnections \cup {c}
    /\ UNCHANGED <<handshake, claimed, judgeCapabilities, connectedJudgeNames,
                   nameOf, mappedAt, judgeNameToIdInDB, pings, dbFailures>>

\* Mutated form of HandshakeArrives: the name is not checked.
HandshakeArrivesUnnamed(c) ==
    /\ socket[c] = "open" /\ handshake[c] = "none"
    /\ handshake' = [handshake EXCEPT ![c] = "verifying"]
    /\ UNCHANGED <<socket, claimed, registry, pings, dbFailures>>

\* The packet names a judge and carries a key, or the handshake fails at once.
HandshakeArrives(c) ==
    /\ socket[c] = "open" /\ handshake[c] = "none"
    /\ \/ /\ handshake' = [handshake EXCEPT ![c] = "failing"]
          /\ UNCHANGED claimed
       \/ \E n \in Names :
             /\ claimed' = [claimed EXCEPT ![c] = n]
             /\ handshake' = [handshake EXCEPT ![c] = "verifying"]
    /\ UNCHANGED <<socket, registry, pings, dbFailures>>

\* verifyAsync accepts the token or rejects it.
VerifyToken(c) ==
    /\ handshake[c] = "verifying"
    /\ \E next \in {"looking", "failing"} :
          handshake' = [handshake EXCEPT ![c] = next]
    /\ UNCHANGED <<socket, claimed, registry, pings, dbFailures>>

\* The connections that ever had an entry in connectionIdToJudgeName.
Mapped == {c \in Connections : mappedAt[c] # 0}
NextRank == Cardinality(Mapped) + 1

\* Mutated form of LookUpJudge: connectedJudgeNames.add is forgotten.
LookUpJudgeUnlisted(c) ==
    /\ handshake[c] = "looking"
    /\ handshake' = [handshake EXCEPT ![c] = "touching"]
    /\ nameOf' = [nameOf EXCEPT ![c] = claimed[c]]
    /\ mappedAt' = [mappedAt EXCEPT ![c] = NextRank]
    /\ judgeNameToIdInDB' = judgeNameToIdInDB \cup {claimed[c]}
    /\ judgeCapabilities' = judgeCapabilities \cup {c}
    /\ UNCHANGED <<socket, claimed, judgeConnections, connectedJudgeNames, pings, dbFailures>>

\* findFirst finds no active judge of that name with that token, or it does and
\* the judge is registered, whatever has become of the socket meanwhile.
LookUpJudge(c) ==
    /\ handshake[c] = "looking"
    /\ \/ /\ handshake' = [handshake EXCEPT ![c] = "failing"]
          /\ UNCHANGED registry
       \/ /\ handshake' = [handshake EXCEPT ![c] = "touching"]
          /\ connectedJudgeNames' = connectedJudgeNames \cup {claimed[c]}
          /\ nameOf' = [nameOf EXCEPT ![c] = claimed[c]]
          /\ mappedAt' = [mappedAt EXCEPT ![c] = NextRank]
          /\ judgeNameToIdInDB' = judgeNameToIdInDB \cup {claimed[c]}
          /\ judgeCapabilities' = judgeCapabilities \cup {c}
          /\ UNCHANGED judgeConnections
    /\ UNCHANGED <<socket, claimed, pings, dbFailures>>

\* lastActive is written: handshake-success is sent and pinging starts.
FinishHandshake(c) ==
    /\ handshake[c] = "touching"
    /\ handshake' = [handshake EXCEPT ![c] = "done"]
    /\ judgePingIntervals' = judgePingIntervals \cup {c}
    /\ pinging' = pinging \cup {c}
    /\ UNCHANGED <<socket, claimed, registry, dbFailures>>

\* The lookup or the update fails: 'Internal server error'.
HandshakeDbFails(c) ==
    /\ handshake[c] \in {"looking", "touching"}
    /\ dbFailures < MaxDbFailures
    /\ dbFailures' = dbFailures + 1
    /\ handshake' = [handshake EXCEPT ![c] = "failing"]
    /\ UNCHANGED <<socket, claimed, registry, pings>>

\* Mutated form of HandshakeFailureTimer: connectedJudgeNames.delete is forgotten.
HandshakeFailureTimerListed(c) ==
    /\ handshake[c] = "failing" /\ c \in judgeConnections
    /\ handshake' = [handshake EXCEPT ![c] = "failed"]
    /\ socket' = [socket EXCEPT ![c] = "destroyed"]
    /\ judgeConnections' = judgeConnections \ {c}
    /\ judgeNameToIdInDB' = judgeNameToIdInDB \ {nameOf[c]}
    /\ nameOf' = [nameOf EXCEPT ![c] = NoName]
    /\ UNCHANGED <<judgeCapabilities, connectedJudgeNames, mappedAt, claimed, pings, dbFailures>>

\* 100 ms after handshake-failure: the socket is destroyed and, if the judge
\* had been registered, its name is forgotten.
HandshakeFailureTimer(c) ==
    /\ handshake[c] = "failing"
    /\ handshake' = [handshake EXCEPT ![c] = "failed"]
    /\ \/ /\ c \notin judgeConnections
          /\ UNCHANGED <<socket, registry>>
       \/ /\ c \in judgeConnections
          /\ socket' = [socket EXCEPT ![c] = "destroyed"]
          /\ judgeConnections' = judgeConnections \ {c}
          /\ connectedJudgeNames' = connectedJudgeNames \ {nameOf[c]}
          /\ judgeNameToIdInDB' = judgeNameToIdInDB \ {nameOf[c]}
          /\ nameOf' = [nameOf EXCEPT ![c] = NoName]
          /\ UNCHANGED <<judgeCapabilities, mappedAt>>
    /\ UNCHANGED <<claimed, pings, dbFailures>>

-------------------------------------------------------------------------------
(* Socket events and the ping interval. *)

\* Mutated forms of Unregister: connectedJudgeNames.delete is forgotten; the
\* entries of every connection of that name go.
UnregisterListed(c) ==
    /\ nameOf' = [nameOf EXCEPT ![c] = NoName]
    /\ judgePingIntervals' = judgePingIntervals \ {c} /\ pinging' = pinging \ {c}
    /\ judgeConnections' = judgeConnections \ {c}
    /\ judgeCapabilities' = judgeCapabilities \ {c}
    /\ UNCHANGED <<connectedJudgeNames, mappedAt, judgeNameToIdInDB>>
UnregisterByName(c) ==
    /\ connectedJudgeNames' = connectedJudgeNames \ {nameOf[c]}
    /\ nameOf' = [d \in Connections |-> IF nameOf[d] = nameOf[c] THEN NoName ELSE nameOf[d]]
    /\ judgePingIntervals' = judgePingIntervals \ {c} /\ pinging' = pinging \ {c}
    /\ judgeConnections' = judgeConnections \ {c}
    /\ judgeCapabilities' = judgeCapabilities \ {c}
    /\ UNCHANGED <<mappedAt, judgeNameToIdInDB>>

\* What the 'close' and the 'error' handler both do.
Unregister(c) ==
    /\ connectedJudgeNames' = connectedJudgeNames \ {nameOf[c]}
    /\ nameOf' = [nameOf EXCEPT ![c] = NoName]
    /\ judgePingIntervals' = IF nameOf[c] = NoName THEN judgePingIntervals
                             ELSE judgePingIntervals \ {c}
    /\ pinging' = IF c \in judgePingIntervals /\ nameOf[c] # NoName
                  THEN pinging \ {c} ELSE pinging
    /\ judgeConnections' = judgeConnections \ {c}
    /\ judgeCapabilities' = judgeCapabilities \ {c}
    /\ UNCHANGED <<mappedAt, judgeNameToIdInDB>>

SocketErrors(c) ==
    /\ socket[c] = "open"
    /\ socket' = [socket EXCEPT ![c] = "errored"]
    /\ Unregister(c)
    /\ UNCHANGED <<handshake, claimed, dbFailures>>

SocketCloses(c) ==
    /\ socket[c] \in {"open", "errored", "destroyed"}
    /\ socket' = [socket EXCEPT ![c] = "closed"]
    /\ Unregister(c)
    /\ UNCHANGED <<handshake, claimed, dbFailures>>

\* Mutated forms of PingTick: judgePingIntervals.delete, or clearInterval, is
\* forgotten.
PingTickTracked(c) ==
    /\ c \in pinging \ judgeConnections
    /\ pinging' = pinging \ {c}
    /\ UNCHANGED <<judgePingIntervals, socket, handshake, claimed, registry, dbFailures>>
PingTickGoingOn(c) ==
    /\ c \in pinging \ judgeConnections
    /\ judgePingIntervals' = judgePingIntervals \ {c}
    /\ UNCHANGED <<pinging, socket, handshake, claimed, registry, dbFailures>>

\* The interval fires and finds no socket: it ends itself.  With a socket it
\* sends a ping, which changes nothing here.
PingTick(c) ==
    /\ c \in pinging
    /\ c \notin judgeConnections
    /\ pinging' = pinging \ {c}
    /\ judgePingIntervals' = judgePingIntervals \ {c}
    /\ UNCHANGED <<socket, handshake, claimed, registry, dbFailures>>

-------------------------------------------------------------------------------
(* Lookups of the queue. *)

\* getConnectionIdForJudgeName(n): the first entry of the map with that name.
IsConnectionIdFor(c, n) ==
    /\ nameOf[c] = n
    /\ \A d \in Connections : nameOf[d] = n => mappedAt[c] <= mappedAt[d]

\* A judge is chosen by name and submitToJudge returns true.
CanSubmit(n) ==
    /\ n \in connectedJudgeNames
    /\ \E c \in judgeConnections : IsConnectionIdFor(c, n)

\* What the queue sees of a judge.
LinkOf(n) ==
    IF n \notin connectedJudgeNames THEN "down" ELSE IF CanSubmit(n) THEN "up" ELSE "ghost"

-------------------------------------------------------------------------------

HandshakeSteps(c) ==
    \/ VerifyToken(c) \/ LookUpJudge(c) \/ FinishHandshake(c)
    \/ HandshakeFailureTimer(c)

Next ==
    \E c \in Connections :
        \/ HandleJudgeConnection(c) \/ HandshakeArrives(c)
        \/ HandshakeSteps(c) \/ HandshakeDbFails(c)
        \/ SocketErrors(c) \/ SocketCloses(c) \/ PingTick(c)

Spec == Init /\ [][Next]_vars

\* Promises settle and timers fire; a socket that broke reports its close.
Fairness ==
    \A c \in Connections :
        /\ WF_vars(HandshakeSteps(c))
        /\ WF_vars(PingTick(c))
        /\ WF_vars(socket[c] # "open" /\ SocketCloses(c))

FairSpec == Spec /\ Fairness

-------------------------------------------------------------------------------
\* A judge chosen by name has a connection id: processQueue's `Judge connection not
\* found' needs a close between the choice and the lookup.
NamesAreMapped == \A n \in connectedJudgeNames : \E c \in Connections : nameOf[c] = n

\* The verdicts of a listed judge are attributed to it.
ConnectedHaveDbId == connectedJudgeNames \subseteq judgeNameToIdInDB

\* An interval that fires is where closing finds it.
PingsAreTracked == pinging = judgePingIntervals

(***************************************************************************)
(* The maps agree with each other: a name is listed as connected only      *)
(* while some entry of connectionIdToJudgeName carries it and              *)
(* judgeNameToIdInDB knows it, and an interval that fires is in            *)
(* judgePingIntervals, whenever the handshake finished with respect to the *)
(* close.  None follows from one handler: a close removes the name of      *)
(* another connection's entry, a failed handshake the id of another's.     *)
(***************************************************************************)
RegistryAgrees == NamesAreMapped /\ ConnectedHaveDbId /\ PingsAreTracked

\* The judge on c has passed its handshake and its socket is open.
Live(c) == socket[c] = "open" /\ handshake[c] = "done"

(***************************************************************************)
(* A live judge keeps its socket, its entry and its capabilities: no event *)
(* of another connection, a same-named one included, takes them away.      *)
(***************************************************************************)
LiveStaysRegistered ==
    \A c \in Connections : Live(c) =>
        /\ c \in judgeConnections \cap judgeCapabilities
        /\ nameOf[c] = claimed[c]

(***************************************************************************)
(* A live judge is offered to the queue as long as no other connection     *)
(* ever claimed its name.                                                  *)
(***************************************************************************)
Alone(c) == \A d \in Connections : claimed[d] = claimed[c] => d = c

LiveAloneIsOffered ==
    \A c \in Connections : Live(c) /\ Alone(c) => CanSubmit(claimed[c])

(***************************************************************************)
(* No connection that closed is pinged for ever, and its handshake ends.   *)
(***************************************************************************)
PingingStops ==
    \A c \in Connections :
        socket[c] = "closed" ~>
            c \notin pinging /\ handshake[c] \in {"none", "failed", "done"}

(***************************************************************************)
(* Whatever happens to its connections, a name the queue sees goes the     *)
(* ways SubmissionQueue assumes: it can be reached when it appears and as  *)
(* long as it is listed, or is a ghost when it appears and as long as it   *)
(* is listed.                                                              *)
(***************************************************************************)
Links == INSTANCE JudgeLinks WITH Judges <- Names, link <- [n \in Names |-> LinkOf(n)]

LinksAreImplemented == Links!Spec

(***************************************************************************)
(* Why these hold: a connection has one handshake, which writes its entry  *)
(* once, under the name it claims and after all entries before it; and the *)
(* judge whose handshake was accepted keeps, as long as its socket is      *)
(* open, all that was registered for it, and its place among the names     *)
(* that are offered if it is alone.                                        *)
(***************************************************************************)
OneHandshake ==
    \A c \in Connections :
        /\ socket[c] = "unused" => handshake[c] = "none"
        /\ handshake[c] = "none" => claimed[c] = NoName
        /\ handshake[c] \in {"none", "verifying", "looking"} =>
               nameOf[c] = NoName /\ mappedAt[c] = 0
        /\ handshake[c] \in {"verifying", "looking", "touching", "done"} => claimed[c] \in Names
        /\ nameOf[c] \in {NoName, claimed[c]}

RanksGrow == \A c \in Connections : mappedAt[c] <= Cardinality(Mapped)

AcceptedKeepsPlace ==
    \A c \in Connections : socket[c] = "open" =>
        /\ c \in judgeConnections
        /\ handshake[c] \in {"touching", "done"} =>
               /\ c \in judgeCapabilities
               /\ nameOf[c] = claimed[c]
               /\ Alone(c) => claimed[c] \in connectedJudgeNames

BridgeInv ==
    TypeOK /\ OneHandshake /\ RanksGrow /\ AcceptedKeepsPlace /\ RegistryAgrees

(***************************************************************************)
(* "Judge names that are connected": a listed name has a socket.           *)
(***************************************************************************)
ListedMeansOpen ==
    \A n \in connectedJudgeNames : \E c \in judgeConnections : nameOf[c] = n

(***************************************************************************)
(* "Get all connected judge names": a live judge's name is listed.         *)
(***************************************************************************)
LiveIsListed ==
    \A c \in Connections : Live(c) => claimed[c] \in connectedJudgeNames

(***************************************************************************)
(* "Send handshake success response": a judge is offered once it has been  *)
(* answered.                                                               *)
(***************************************************************************)
OfferedMeansGreeted ==
    \A n \in Names : CanSubmit(n) =>
        \E c \in Connections : IsConnectionIdFor(c, n) /\ handshake[c] = "done"

(***************************************************************************)
(* "Check if a language/executor is available on any judge": capabilities  *)
(* are those of connections that exist.                                    *)
(***************************************************************************)
CapabilitiesMeanConnected == judgeCapabilities \subseteq judgeConnections

===============================================================================
