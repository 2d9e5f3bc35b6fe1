---------------------------- MODULE AccountsProofs -----------------------------
(***************************************************************************)
(* Theorems about Accounts, for any requests, users, sessions, names and   *)
(* addresses, and any numbers of changes and failures.                     *)
(***************************************************************************)
EXTENDS Accounts, TLAPS

LEMMA AfterGuardOf ==
    ASSUME NEW q, q.kind \in Kinds \ {"register", "login"},
           q.pc = "guarding" \/ (q.pc = "guardingAgain" /\ q.kind = "force")
    PROVE  /\ AfterGuard(q) \in Handling \cup {"guardingAgain", "findingName"}
           /\ AfterGuard(q) \in {"guardingAgain", "findingName"} <=> q.kind = "force"
  BY DEF AfterGuard, Kinds, Handling

-------------------------------------------------------------------------------
(* What a step makes of the requests. *)

Same(q) == request'[q] \in {request[q], [request[q] EXCEPT !.overtaken = TRUE]}

\* Requests other than r are left alone, or overtaken.
OnlyMoves(r) ==
    /\ request' = [q \in Requests |-> request'[q]]
    /\ \A q \in Requests \ {r} : Same(q)

Holds(r) == KeepsSession(r) /\ FoundHolds(r) /\ FreeHolds(r)

LEMMA SameIsTyped ==
    ASSUME TypeOK, NEW q \in Requests, Same(q)
    PROVE  /\ request'[q] \in RequestStates
           /\ request'[q].pc = request[q].pc /\ request'[q].kind = request[q].kind
           /\ request'[q].token = request[q].token /\ request'[q].user = request[q].user
           /\ request'[q].name = request[q].name /\ request'[q].email = request[q].email
           /\ request'[q].late = request[q].late
           /\ request[q].overtaken => request'[q].overtaken
  <1>1. request[q] \in RequestStates
    BY DEF TypeOK
  <1> QED
    BY <1>1 DEF Same, RequestStates

LEMMA MovesAreTyped ==
    ASSUME TypeOK, NEW r, OnlyMoves(r), r \in Requests => request'[r] \in RequestStates
    PROVE  request' \in [Requests -> RequestStates]
  <1>1. \A q \in Requests : request'[q] \in RequestStates
    BY SameIsTyped DEF OnlyMoves
  <1> QED
    BY <1>1 DEF OnlyMoves

LEMMA AnsweredIsIdle ==
    ASSUME NEW code \in Answers
    PROVE  /\ Answered(code) \in RequestStates /\ Answered(code).pc = "idle"
           /\ Answered(code).kind = "read" /\ Answered(code).late = FALSE
  BY DEF Answered, Blank, RequestStates, Kinds

\* A request that was answered holds nothing.
LEMMA AnsweredHolds ==
    ASSUME NEW r \in Requests, NEW code \in Answers, request'[r] = Answered(code)
    PROVE  request'[r] \in RequestStates /\ Holds(r)'
  <1>1. /\ request'[r] \in RequestStates /\ request'[r].pc = "idle" /\ request'[r].kind = "read"
        /\ request'[r].late = FALSE
    BY AnsweredIsIdle
  <1> QED
    BY <1>1 DEF Holds, KeepsSession, FoundHolds, FreeHolds, IsGuarded, LoggingIn, Registering,
               Guarding, Handling

LEMMA RequestsMove ==
    ASSUME NEW r \in Requests,
           \/ Receive(r) \/ RequestSteps(r) \/ StatementFails(r)
    PROVE  OnlyMoves(r)
  <1> USE DEF OnlyMoves, Same, StepsTo, Overtaken, Nobody, AnswersWith, Proceeds, FoundSession, FoundUser, FoundFree
  <1>1. CASE Receive(r)
    BY <1>1 DEF Receive, IsUnderWay
  <1>2. CASE FindSession(r)
    BY <1>2 DEF FindSession
  <1>3. CASE Revoke(r)
    BY <1>3 DEF Revoke
  <1>4. CASE FindUser(r)
    BY <1>4 DEF FindUser
  <1>5. CASE CreateSession(r)
    BY <1>5 DEF CreateSession
  <1>6. CASE DeleteSession(r)
    BY <1>6 DEF DeleteSession
  <1>7. CASE DeleteAllUserSessions(r)
    BY <1>7 DEF DeleteAllUserSessions
  <1>8. CASE Read(r)
    BY <1>8 DEF Read
  <1>9. CASE FindName(r)
    BY <1>9 DEF FindName
  <1>10. CASE FindEmail(r)
    BY <1>10 DEF FindEmail
  <1>11. CASE CreateUser(r)
    BY <1>11 DEF CreateUser, Conflicts, Inserts
  <1>12. CASE StatementFails(r)
    BY <1>12 DEF StatementFails, IsUnderWay
  <1> QED
    BY <1>1, <1>2, <1>3, <1>4, <1>5, <1>6, <1>7, <1>8, <1>9, <1>10, <1>11, <1>12 DEF RequestSteps

LEMMA ChangesMove ==
    ASSUME NEW r, r \notin Requests,
           (\E u \in Users : ChangeUser(u)) \/ (\E s \in Sessions : Expires(s))
    PROVE  OnlyMoves(r)
  BY DEF OnlyMoves, Same, ChangeUser, Expires, Changes, Overtaken, FoundUser, FoundSession, FoundFree

-------------------------------------------------------------------------------
(* What a step makes of the request that takes it. *)

LEMMA ReceiveHolds ==
    ASSUME AccountsInv, NEW r \in Requests, Receive(r)
    PROVE  request'[r] \in RequestStates /\ Holds(r)'
  <1> USE DEF AccountsInv, TypeOK, Blank, Kinds, Answers
  <1> USE DEF Holds, KeepsSession, FoundHolds, FreeHolds, IsGuarded, LoggingIn, Registering,
              Guarding, Handling, UnderWay
  <1>1. CASE request'[r] = [Blank EXCEPT !.pc = "findingName", !.kind = "register"]
    <2>1. /\ request'[r] \in RequestStates /\ request'[r].pc = "findingName"
          /\ request'[r].kind = "register" /\ request'[r].late = FALSE
      BY <1>1 DEF RequestStates
    <2> QED
      BY <2>1
  <1>2. CASE request'[r] = [Blank EXCEPT !.pc = "findingUser", !.kind = "login"]
    <2>1. /\ request'[r] \in RequestStates /\ request'[r].pc = "findingUser"
          /\ request'[r].kind = "login" /\ request'[r].late = FALSE
      BY <1>2 DEF RequestStates
    <2> QED
      BY <2>1
  <1>3. ASSUME NEW s \in Sessions, NEW kind \in Kinds \ {"register", "login"}, owner[s] # NoUser,
               request'[r] = [Blank EXCEPT !.pc = "guarding", !.kind = kind, !.token = s,
                                           !.late = s \in ended]
        PROVE  request'[r] \in RequestStates /\ Holds(r)'
    <2>0. (s \in ended) \in BOOLEAN
      OBVIOUS
    <2>1. /\ request'[r].pc = "guarding" /\ request'[r].kind = kind /\ request'[r].token = s
          /\ request'[r].late = (s \in ended)
      BY <1>3
    <2>2. request'[r] \in RequestStates
      BY <1>3, <2>0 DEF RequestStates
    <2>3. UNCHANGED <<owner, ended>>
      BY DEF Receive, sessionRows
    <2> QED
      BY <1>3, <2>1, <2>2, <2>3
  <1> QED
    BY <1>1, <1>2, <1>3 DEF Receive, StepsTo, Overtaken, Nobody

\* What the guard of a request that may go on makes of it.
LEMMA FindSessionHolds ==
    ASSUME AccountsInv, NEW r \in Requests, FindSession(r)
    PROVE  request'[r] \in RequestStates /\ Holds(r)'
  <1> DEFINE s == request[r].token
  <1>1. /\ request[r] \in RequestStates /\ KeepsSession(r)
        /\ request[r].pc \in {"guarding", "guardingAgain"}
        /\ s \in Sessions /\ owner[s] \in Users /\ request[r].kind \in Kinds \ {"register", "login"}
        /\ request[r].pc = "guardingAgain" => request[r].kind = "force"
        /\ request[r].late => s \in ended
        /\ UNCHANGED <<userRows, sessionRows, ended>>
    BY DEF AccountsInv, TypeOK, RequestsHold, KeepsSession, FindSession, Guarding, RequestStates
  <1>2. ASSUME NEW code \in {"INVALID_TOKEN", "INSUFFICIENT_PERMISSIONS"}, AnswersWith(r, code)
        PROVE  request'[r] \in RequestStates /\ Holds(r)'
    <2>1. code \in Answers /\ request'[r] = Answered(code)
      BY <1>2 DEF Answers, AnswersWith, StepsTo
    <2> QED
      BY <2>1, AnsweredHolds
  <1>3. CASE s \in sessions /\ Proceeds(r, "revoking")
    <2>1. request'[r] = [request[r] EXCEPT !.pc = "revoking"]
      BY <1>3 DEF Proceeds, StepsTo
    <2>2. /\ request'[r] \in RequestStates /\ request'[r].pc = "revoking"
          /\ request'[r].kind = request[r].kind /\ request'[r].token = request[r].token
          /\ request'[r].late = request[r].late
      BY <1>1, <2>1 DEF RequestStates, UnderWay, Guarding
    <2>3. ~request[r].late
      BY <1>1, <1>3 DEF AccountsInv, SessionsEndOnce
    <2>4. owner'[request'[r].token] # NoUser
      BY <1>1, <2>2, AccountsAssumption DEF sessionRows
    <2> QED
      BY <1>1, <2>2, <2>3, <2>4 DEF Holds, KeepsSession, FoundHolds, FreeHolds, IsGuarded, LoggingIn,
                   Registering, Guarding, Handling
  <1>4. CASE /\ s \in sessions \ expired /\ IsActive(owner[s])
             /\ request[r].kind = "force" => owner[s] \in admins
             /\ StepsTo(r, [request[r] EXCEPT !.pc = AfterGuard(request[r]),
                                              !.user = owner[s], !.overtaken = FALSE], Nobody)
    <2>1. request'[r] = [request[r] EXCEPT !.pc = AfterGuard(request[r]),
                                           !.user = owner[s], !.overtaken = FALSE]
      BY <1>4 DEF StepsTo
    <2>2. /\ AfterGuard(request[r]) \in Handling \cup {"guardingAgain", "findingName"}
          /\ AfterGuard(request[r]) \in {"guardingAgain", "findingName"} <=> request[r].kind = "force"
      <3>1. request[r].pc = "guarding" \/ (request[r].pc = "guardingAgain" /\ request[r].kind = "force")
        BY <1>1
      <3>2. request[r].kind \in Kinds \ {"register", "login"}
        BY <1>1
      <3> QED
        BY <3>1, <3>2, AfterGuardOf
    <2>3. AfterGuard(request[r]) \in UnderWay
      BY <2>2 DEF UnderWay, Guarding, Registering
    <2>4. /\ request'[r] \in RequestStates /\ request'[r].pc = AfterGuard(request[r])
          /\ request'[r].kind = request[r].kind /\ request'[r].token = s
          /\ request'[r].user = owner[s] /\ request'[r].late = request[r].late
      BY <1>1, <2>1, <2>3 DEF RequestStates
    <2>5. ~request[r].late
      BY <1>1, <1>4 DEF AccountsInv, SessionsEndOnce
    <2>6. /\ owner'[request'[r].token] = owner[s] /\ owner[s] # NoUser
          /\ sessions' = sessions /\ expired' = expired /\ admins' = admins
          /\ IsActive(owner[s])'
      BY <1>1, <1>4, <2>4, AccountsAssumption DEF sessionRows, userRows, IsActive
    <2>7. MayAct(r)'
      BY <1>4, <1>1, <2>4, <2>6 DEF MayAct
    <2>8. request'[r].pc \in Handling \cup {"guardingAgain", "findingName"}
      BY <2>2, <2>4
    <2>9. KeepsSession(r)'
      BY <1>1, <2>2, <2>4, <2>5, <2>6, <2>8 DEF KeepsSession, IsGuarded, LoggingIn,
                   Registering, Guarding, Handling
    <2>10. FoundHolds(r)' /\ FreeHolds(r)'
      BY <2>7, <2>8 DEF FoundHolds, FreeHolds, Handling
    <2> QED
      BY <2>4, <2>9, <2>10 DEF Holds
  <1> QED
    BY <1>2, <1>3, <1>4 DEF FindSession

LEMMA FindUserHolds ==
    ASSUME AccountsInv, NEW r \in Requests, FindUser(r)
    PROVE  request'[r] \in RequestStates /\ Holds(r)'
  <1>1. /\ request[r] \in RequestStates /\ KeepsSession(r) /\ request[r].pc = "findingUser"
        /\ request[r].kind = "login" /\ ~request[r].late
        /\ UNCHANGED <<userRows, sessionRows, ended>>
    BY DEF AccountsInv, TypeOK, RequestsHold, KeepsSession, FindUser, LoggingIn
  <1>2. CASE AnswersWith(r, "REFUSED")
    BY <1>2, AnsweredHolds DEF AnswersWith, StepsTo, Answers
  <1>3. ASSUME NEW u \in users, IsActive(u),
               StepsTo(r, [request[r] EXCEPT !.pc = "creatingSession", !.user = u], Nobody)
        PROVE  request'[r] \in RequestStates /\ Holds(r)'
    <2>1. request'[r] = [request[r] EXCEPT !.pc = "creatingSession", !.user = u]
      BY <1>3 DEF StepsTo
    <2>2. /\ request'[r] \in RequestStates /\ request'[r].pc = "creatingSession"
          /\ request'[r].kind = "login" /\ request'[r].user = u /\ ~request'[r].late
      BY <1>1, <2>1 DEF RequestStates, UnderWay, LoggingIn, AccountsInv, TypeOK
    <2>3. MayAct(r)' /\ u \in users'
      BY <1>1, <1>3, <2>2 DEF MayAct, IsActive, userRows
    <2> QED
      BY <2>2, <2>3 DEF Holds, KeepsSession, FoundHolds, FreeHolds, IsGuarded, LoggingIn,
                   Registering, Guarding, Handling
  <1> QED
    BY <1>2, <1>3 DEF FindUser

LEMMA FindNameHolds ==
    ASSUME AccountsInv, NEW r \in Requests, FindName(r)
    PROVE  request'[r] \in RequestStates /\ Holds(r)'
  <1>1. /\ request[r] \in RequestStates /\ Holds(r) /\ request[r].pc = "findingName"
        /\ UNCHANGED <<userRows, sessionRows, ended>>
    BY DEF AccountsInv, TypeOK, RequestsHold, Holds, FindName
  <1>2. CASE AnswersWith(r, "USERNAME_UNAVAILABLE")
    BY <1>2, AnsweredHolds DEF AnswersWith, StepsTo, Answers
  <1>3. ASSUME NEW n \in Names, ~\E u \in users : name[u] = n,
               StepsTo(r, [request[r] EXCEPT !.pc = "findingEmail", !.name = n], Nobody)
        PROVE  request'[r] \in RequestStates /\ Holds(r)'
    <2>1. request'[r] = [request[r] EXCEPT !.pc = "findingEmail", !.name = n]
      BY <1>3 DEF StepsTo
    <2>2. /\ request'[r] \in RequestStates /\ request'[r].pc = "findingEmail"
          /\ request'[r].kind = request[r].kind /\ request'[r].token = request[r].token
          /\ request'[r].user = request[r].user /\ request'[r].name = n
          /\ request'[r].late = request[r].late /\ request'[r].overtaken = request[r].overtaken
      BY <1>1, <2>1 DEF RequestStates, UnderWay, Registering, AccountsInv, TypeOK
    <2>3. MayAct(r)' <=> MayAct(r)
      BY <1>1, <2>2 DEF MayAct, IsActive, userRows, sessionRows
    <2>4. KeepsSession(r)'
      BY <1>1, <2>2 DEF Holds, KeepsSession, IsGuarded, LoggingIn, Registering, Guarding, Handling,
                        sessionRows
    <2>5. FoundHolds(r)'
      BY <1>1, <2>2, <2>3 DEF Holds, FoundHolds, IsGuarded, Registering, Handling
    <2>6. FreeHolds(r)'
      BY <1>1, <1>3, <2>2 DEF FreeHolds, userRows
    <2> QED
      BY <2>2, <2>4, <2>5, <2>6 DEF Holds
  <1> QED
    BY <1>2, <1>3 DEF FindName

LEMMA FindEmailHolds ==
    ASSUME AccountsInv, NEW r \in Requests, FindEmail(r)
    PROVE  request'[r] \in RequestStates /\ Holds(r)'
  <1>1. /\ request[r] \in RequestStates /\ Holds(r) /\ request[r].pc = "findingEmail"
        /\ UNCHANGED <<userRows, sessionRows, ended>>
    BY DEF AccountsInv, TypeOK, RequestsHold, Holds, FindEmail
  <1>2. CASE AnswersWith(r, "EMAIL_IN_USE")
    BY <1>2, AnsweredHolds DEF AnswersWith, StepsTo, Answers
  <1>3. ASSUME NEW e \in Emails, ~\E u \in Searched(request[r].kind) : email[u] = e,
               StepsTo(r, [request[r] EXCEPT !.pc = "creatingUser", !.email = e], Nobody)
        PROVE  request'[r] \in RequestStates /\ Holds(r)'
    <2>1. request'[r] = [request[r] EXCEPT !.pc = "creatingUser", !.email = e]
      BY <1>3 DEF StepsTo
    <2>2. /\ request'[r] \in RequestStates /\ request'[r].pc = "creatingUser"
          /\ request'[r].kind = request[r].kind /\ request'[r].token = request[r].token
          /\ request'[r].user = request[r].user /\ request'[r].name = request[r].name
          /\ request'[r].email = e
          /\ request'[r].late = request[r].late /\ request'[r].overtaken = request[r].overtaken
      BY <1>1, <2>1 DEF RequestStates, UnderWay, Registering, AccountsInv, TypeOK
    <2>3. MayAct(r)' <=> MayAct(r)
      BY <1>1, <2>2 DEF MayAct, IsActive, userRows, sessionRows
    <2>4. KeepsSession(r)'
      BY <1>1, <2>2 DEF Holds, KeepsSession, IsGuarded, LoggingIn, Registering, Guarding, Handling,
                        sessionRows
    <2>5. FoundHolds(r)'
      BY <1>1, <2>2, <2>3 DEF Holds, FoundHolds, IsGuarded, Registering, Handling
    <2>6. FreeHolds(r)'
      BY <1>1, <1>3, <2>2 DEF Holds, FreeHolds, Searched, userRows
    <2> QED
      BY <2>2, <2>4, <2>5, <2>6 DEF Holds
  <1> QED
    BY <1>2, <1>3 DEF FindEmail

\* Every other step answers.
LEMMA AnsweringHolds ==
    ASSUME NEW r \in Requests,
           \/ Revoke(r) \/ CreateSession(r) \/ DeleteSession(r) \/ DeleteAllUserSessions(r)
           \/ Read(r) \/ CreateUser(r) \/ StatementFails(r)
    PROVE  request'[r] \in RequestStates /\ Holds(r)'
  <1>1. \E code \in Answers : request'[r] = Answered(code)
    BY DEF Revoke, CreateSession, DeleteSession, DeleteAllUserSessions, Read, CreateUser, Inserts,
           StatementFails, AnswersWith, StepsTo, Answers
  <1> QED
    BY <1>1, AnsweredHolds

-------------------------------------------------------------------------------
(* What a step makes of the other requests. *)

\* A request keeps its session whatever other sessions begin and end.
LEMMA SessionIsKept ==
    ASSUME TypeOK, NEW q \in Requests, Same(q), KeepsSession(q), ended \subseteq ended',
           \A s \in Sessions : owner[s] # NoUser => owner'[s] = owner[s]
    PROVE  KeepsSession(q)'
  BY SameIsTyped DEF KeepsSession, IsGuarded

\* Nothing is changed that a request relies on.
LEMMA UndisturbedHolds ==
    ASSUME TypeOK, NEW q \in Requests, Same(q), Holds(q), UNCHANGED <<userRows, sessionRows, ended>>
    PROVE  Holds(q)'
  <1>1. KeepsSession(q)'
    BY SessionIsKept DEF Holds, sessionRows
  <1>2. MayAct(q) => MayAct(q)'
    BY SameIsTyped DEF MayAct, IsActive, sessionRows, userRows
  <1>3. FoundHolds(q)'
    BY <1>2, SameIsTyped DEF Holds, FoundHolds, IsGuarded, userRows
  <1>4. FreeHolds(q)'
    BY SameIsTyped DEF Holds, FreeHolds, Searched, userRows
  <1> QED
    BY <1>1, <1>3, <1>4 DEF Holds

\* Sessions end: those who were found with them are overtaken.
LEMMA EndingHolds ==
    ASSUME TypeOK, NEW q \in Requests, Same(q), Holds(q), UNCHANGED <<userRows, owner>>,
           ended \subseteq ended',
           request[q].user # NoUser /\ request[q].token \in (sessions \ expired) \ (sessions' \ expired')
              => request'[q].overtaken
    PROVE  Holds(q)'
  <1>1. KeepsSession(q)'
    BY SessionIsKept DEF Holds
  <1>2. ASSUME IsGuarded(q) \/ request[q].pc = "creatingSession", MayAct(q)
        PROVE  MayAct(q)' \/ request'[q].overtaken
    <2>1. CASE request[q].kind = "login"
      BY <1>2, <2>1, SameIsTyped DEF MayAct, IsActive, userRows
    <2>2. CASE request[q].kind # "login"
      <3>1. request[q].user # NoUser /\ request[q].token \in sessions \ expired
        BY <1>2, <2>2, AccountsAssumption DEF MayAct, IsActive, TypeOK
      <3> QED
        BY <1>2, <2>2, <3>1, SameIsTyped DEF MayAct, IsActive, userRows
    <2> QED
      BY <2>1, <2>2
  <1>3. FoundHolds(q)'
    BY <1>2, SameIsTyped DEF Holds, FoundHolds, IsGuarded, userRows
  <1>4. FreeHolds(q)'
    BY SameIsTyped DEF Holds, FreeHolds, Searched, userRows
  <1> QED
    BY <1>1, <1>3, <1>4 DEF Holds

\* A session begins, which nobody has had before.
LEMMA BeginningHolds ==
    ASSUME AccountsInv, NEW r \in Requests, CreateSession(r), NEW q \in Requests, Same(q), Holds(q)
    PROVE  Holds(q)'
  <1>1. /\ TypeOK /\ UNCHANGED <<userRows, expired, ended>> /\ sessions \subseteq sessions'
        /\ \A s \in Sessions : owner[s] # NoUser => owner'[s] = owner[s]
    BY DEF AccountsInv, CreateSession, TypeOK
  <1>2. KeepsSession(q)'
    BY <1>1, SessionIsKept DEF Holds
  <1>3. MayAct(q) => MayAct(q)'
    BY <1>1, SameIsTyped DEF MayAct, IsActive, userRows
  <1>4. FoundHolds(q)'
    BY <1>1, <1>3, SameIsTyped DEF Holds, FoundHolds, IsGuarded, userRows
  <1>5. FreeHolds(q)'
    BY <1>1, SameIsTyped DEF Holds, FreeHolds, Searched, userRows
  <1> QED
    BY <1>2, <1>4, <1>5 DEF Holds

\* A user is added: those who found its name or address free are overtaken.
LEMMA InsertHolds ==
    ASSUME TypeOK, NEW r \in Requests, NEW u \in Users, Inserts(r, u),
           UNCHANGED <<sessionRows, ended>>, NEW q \in Requests \ {r}, Same(q), Holds(q)
    PROVE  Holds(q)'
  <1>1. /\ u \notin users /\ users' = users \cup {u} /\ UNCHANGED <<deleted, admins>>
        /\ name' = [name EXCEPT ![u] = request[r].name] /\ email' = [email EXCEPT ![u] = request[r].email]
        /\ \A v \in Users \ {u} : status'[v] = status[v]
        /\ request[q].name = request[r].name \/ request[q].email = request[r].email
              => request'[q].overtaken
    BY DEF Inserts, TypeOK, StepsTo, Overtaken, FoundFree, RequestStates
  <1>2. KeepsSession(q)'
    BY SessionIsKept DEF Holds, sessionRows
  <1>3. MayAct(q) => MayAct(q)'
    BY <1>1, SameIsTyped DEF MayAct, IsActive, sessionRows, TypeOK
  <1>4. FoundHolds(q)'
    BY <1>1, <1>3, SameIsTyped DEF Holds, FoundHolds, IsGuarded
  <1>5. FreeHolds(q)'
    BY <1>1, SameIsTyped DEF Holds, FreeHolds, Searched, TypeOK
  <1> QED
    BY <1>2, <1>4, <1>5 DEF Holds

\* A user is changed: those who found it, or found what it leaves, are overtaken.
LEMMA ChangeHolds ==
    ASSUME TypeOK, NEW u \in Users, ChangeUser(u), NEW q \in Requests, Same(q), Holds(q)
    PROVE  Holds(q)'
  <1>1. /\ UNCHANGED <<users, name, email, sessionRows, ended>>
        /\ request[q].user = u => request'[q].overtaken
        /\ \A v \in Users \ {u} : /\ status'[v] = status[v] /\ (v \in deleted' <=> v \in deleted)
                                  /\ (v \in admins' <=> v \in admins)
    BY DEF ChangeUser, Changes, Overtaken, FoundUser, TypeOK, RequestStates
  <1>2. \/ deleted' = deleted
        \/ /\ deleted' = deleted \cup {u}
           /\ request[q].email = email[u] => request'[q].overtaken
    BY DEF ChangeUser, Changes, Overtaken, FoundUser, FoundFree, TypeOK, RequestStates
  <1>3. KeepsSession(q)'
    BY <1>1, SessionIsKept DEF Holds, sessionRows
  <1>4. ASSUME MayAct(q) PROVE MayAct(q)' \/ request'[q].overtaken
    <2>1. CASE request[q].user = u
      BY <1>1, <2>1
    <2>2. CASE request[q].user # u
      <3>1. IsActive(request[q].user)
        BY <1>4 DEF MayAct
      <3>2. /\ request[q].user \in Users \ {u}
            /\ request[q].user \in admins' <=> request[q].user \in admins
        BY <1>1, <2>2, <3>1 DEF IsActive, TypeOK
      <3>3. request'[q].user = request[q].user
        BY SameIsTyped
      <3>4. request[q].user \in users' \ deleted' /\ status'[request[q].user] = "ACTIVE"
        BY <1>1, <3>1, <3>2 DEF IsActive
      <3>5. IsActive(request[q].user)'
        BY <3>3, <3>4 DEF IsActive
      <3> QED
        BY <1>1, <1>4, <3>2, <3>5, SameIsTyped DEF MayAct, sessionRows
    <2> QED
      BY <2>1, <2>2
  <1>5. FoundHolds(q)'
    BY <1>1, <1>4, SameIsTyped DEF Holds, FoundHolds, IsGuarded
  <1>6. FreeHolds(q)'
    BY <1>1, <1>2, SameIsTyped DEF Holds, FreeHolds, Searched, TypeOK
  <1> QED
    BY <1>3, <1>5, <1>6 DEF Holds

LEMMA OthersHold ==
    ASSUME AccountsInv, NEW r \in Requests,
           Receive(r) \/ RequestSteps(r) \/ StatementFails(r),
           NEW q \in Requests \ {r}
    PROVE  Holds(q)'
  <1>1. Same(q) /\ Holds(q) /\ TypeOK
    BY RequestsMove DEF OnlyMoves, AccountsInv, RequestsHold, Holds
  <1>2. CASE UNCHANGED <<userRows, sessionRows, ended>>
    BY <1>1, <1>2, UndisturbedHolds
  <1>3. CASE Revoke(r)
    <2>1. request[q].user # NoUser /\ request[q].token = request[r].token => request'[q].overtaken
      BY <1>1, <1>3 DEF Revoke, StepsTo, Overtaken, FoundSession, TypeOK, RequestStates
    <2> QED
      BY <1>1, <1>3, <2>1, EndingHolds DEF Revoke
  <1>4. CASE CreateSession(r)
    BY <1>1, <1>4, BeginningHolds
  <1>5. CASE DeleteSession(r) /\ sessions' = sessions \ {request[r].token} /\ request[r].token \in sessions
    <2>1. request[q].user # NoUser /\ request[q].token = request[r].token => request'[q].overtaken
      <3>1. request[q] \in RequestStates
        BY <1>1 DEF TypeOK
      <3>2. StepsTo(r, Answered("OK"), LAMBDA p : FoundSession(request[r].token, p))
        BY <1>5 DEF DeleteSession
      <3> QED
        BY <3>1, <3>2 DEF StepsTo, Overtaken, FoundSession, RequestStates
    <2> QED
      BY <1>1, <1>5, <2>1, EndingHolds DEF DeleteSession
  <1>6. CASE DeleteAllUserSessions(r)
    <2> DEFINE others == {t \in sessions \ {request[r].token} : owner[t] = request[r].user}
    <2>1. request[q].user # NoUser /\ request[q].token \in others => request'[q].overtaken
      BY <1>1, <1>6 DEF DeleteAllUserSessions, StepsTo, Overtaken, FoundSession, TypeOK, RequestStates
    <2>2. sessions' = sessions \ others /\ ended \subseteq ended' /\ UNCHANGED <<userRows, owner, expired>>
      BY <1>6 DEF DeleteAllUserSessions
    <2> QED
      BY <1>1, <2>1, <2>2, EndingHolds
  <1>7. ASSUME CreateUser(r), NEW u \in Users, Inserts(r, u) PROVE Holds(q)'
    BY <1>1, <1>7, InsertHolds DEF CreateUser
  <1>8. \/ UNCHANGED <<userRows, sessionRows, ended>>
        \/ Revoke(r) \/ CreateSession(r) \/ DeleteAllUserSessions(r)
        \/ DeleteSession(r) /\ sessions' = sessions \ {request[r].token} /\ request[r].token \in sessions
        \/ CreateUser(r) /\ \E u \in Users : Inserts(r, u)
    BY DEF Receive, RequestSteps, FindSession, FindUser, DeleteSession, Read, FindName, FindEmail,
           CreateUser, StatementFails, sessionRows
  <1> QED
    BY <1>2, <1>3, <1>4, <1>5, <1>6, <1>7, <1>8

LEMMA RequestsHoldNext ==
    ASSUME AccountsInv, [Next]_vars
    PROVE  RequestsHold'
  <1>1. ASSUME NEW r \in Requests, Receive(r) \/ RequestSteps(r) \/ StatementFails(r)
        PROVE  RequestsHold'
    <2>1. \A q \in Requests \ {r} : Holds(q)'
      BY <1>1, OthersHold
    <2>2. Holds(r)'
      BY <1>1, ReceiveHolds, FindSessionHolds, FindUserHolds, FindNameHolds, FindEmailHolds,
         AnsweringHolds DEF RequestSteps
    <2>3. \A q \in Requests : Holds(q)'
      BY <2>1, <2>2
    <2> QED
      BY <2>3 DEF RequestsHold, Holds
  <1>2. ASSUME NEW u \in Users, ChangeUser(u) PROVE RequestsHold'
    <2>1. ASSUME NEW q \in Requests PROVE Holds(q)'
      <3>1. Same(q)
        BY <1>2 DEF ChangeUser, Changes, Same, Overtaken
      <3> QED
        BY <1>2, <3>1, ChangeHolds DEF AccountsInv, RequestsHold, Holds
    <2> QED
      BY <2>1 DEF RequestsHold, Holds
  <1>3. ASSUME NEW s \in Sessions, Expires(s) PROVE RequestsHold'
    <2>1. ASSUME NEW q \in Requests PROVE Holds(q)'
      <3>1. Same(q) /\ (request[q].user # NoUser /\ request[q].token = s => request'[q].overtaken)
        BY <1>3 DEF Expires, Changes, Same, Overtaken, FoundSession, AccountsInv, TypeOK, RequestStates
      <3> QED
        BY <1>3, <3>1, EndingHolds DEF Expires, Changes, AccountsInv, RequestsHold, Holds
    <2> QED
      BY <2>1 DEF RequestsHold, Holds
  <1>4. CASE UNCHANGED vars
    <2>1. ASSUME NEW q \in Requests PROVE Holds(q)'
      BY <1>4, UndisturbedHolds DEF vars, Same, AccountsInv, RequestsHold, Holds
    <2> QED
      BY <2>1 DEF RequestsHold, Holds
  <1> QED
    BY <1>1, <1>2, <1>3, <1>4 DEF Next

-------------------------------------------------------------------------------
(* The rows. *)

LEMMA SessionsEndOnceNext ==
    ASSUME AccountsInv, [Next]_vars
    PROVE  SessionsEndOnce'
  <1> USE DEF SessionsEndOnce, sessionRows
  <1>1. /\ TypeOK /\ SessionsEndOnce
        /\ \A r \in Requests : KeepsSession(r) /\ FoundHolds(r) /\ request[r] \in RequestStates
    BY DEF AccountsInv, RequestsHold, TypeOK
  <1>2. ASSUME NEW r \in Requests, Revoke(r) PROVE SessionsEndOnce'
    <2>1. owner[request[r].token] # NoUser
      BY <1>1, <1>2 DEF Revoke, KeepsSession, Guarding
    <2> QED
      BY <1>1, <1>2, <2>1 DEF Revoke
  <1>3. ASSUME NEW r \in Requests, CreateSession(r) PROVE SessionsEndOnce'
    <2>1. request[r].user # NoUser
      BY <1>1, <1>3, AccountsAssumption DEF CreateSession, FoundHolds, TypeOK
    <2> QED
      BY <1>1, <1>3, <2>1 DEF CreateSession, TypeOK
  <1>4. ASSUME NEW r \in Requests, DeleteSession(r) \/ DeleteAllUserSessions(r) PROVE SessionsEndOnce'
    BY <1>1, <1>4 DEF DeleteSession, DeleteAllUserSessions
  <1>5. ASSUME NEW s \in Sessions, Expires(s) PROVE SessionsEndOnce'
    BY <1>1, <1>5 DEF Expires, Changes
  <1>6. CASE UNCHANGED <<sessionRows, ended>>
    BY <1>1, <1>6
  <1>7. \/ UNCHANGED <<sessionRows, ended>> \/ \E s \in Sessions : Expires(s)
        \/ \E r \in Requests : \/ Revoke(r) \/ CreateSession(r)
                               \/ DeleteSession(r) \/ DeleteAllUserSessions(r)
    BY DEF Next, RequestSteps, Receive, FindSession, FindUser, Read, FindName, FindEmail,
           CreateUser, StatementFails, ChangeUser, Changes, vars
  <1> QED
    BY <1>2, <1>3, <1>4, <1>5, <1>6, <1>7

-------------------------------------------------------------------------------
(* The types. *)

LEMMA RequestsAreTyped ==
    ASSUME AccountsInv, [Next]_vars
    PROVE  request' \in [Requests -> RequestStates]
  <1>1. TypeOK
    BY DEF AccountsInv
  <1>2. ASSUME NEW r \in Requests, Receive(r) \/ RequestSteps(r) \/ StatementFails(r)
        PROVE  request' \in [Requests -> RequestStates]
    <2>1. request'[r] \in RequestStates
      BY <1>2, ReceiveHolds, FindSessionHolds, FindUserHolds, FindNameHolds, FindEmailHolds,
         AnsweringHolds DEF RequestSteps
    <2> QED
      BY <1>1, <1>2, <2>1, RequestsMove, MovesAreTyped
  <1>3. CASE (\E u \in Users : ChangeUser(u)) \/ (\E s \in Sessions : Expires(s))
    <2>1. PICK r : r \notin Requests
      BY NoSetContainsEverything
    <2> QED
      BY <1>1, <1>3, <2>1, ChangesMove, MovesAreTyped
  <1>4. CASE UNCHANGED vars
    BY <1>1, <1>4 DEF vars, TypeOK
  <1> QED
    BY <1>2, <1>3, <1>4 DEF Next

\* The rows but those of users.
RowsTyped ==
    /\ sessions \cup expired \cup ended \subseteq Sessions
    /\ owner \in [Sessions -> Users \cup {NoUser}]
    /\ changes \in 0..MaxChanges /\ dbFailures \in 0..MaxDbFailures

LEMMA SessionsAreTyped ==
    ASSUME AccountsInv, [Next]_vars
    PROVE  RowsTyped'
  <1> USE DEF RowsTyped, sessionRows, bounds
  <1>1. /\ RowsTyped /\ users \subseteq Users
        /\ \A r \in Requests : KeepsSession(r) /\ FoundHolds(r) /\ request[r] \in RequestStates
    BY DEF AccountsInv, RequestsHold, TypeOK
  <1>2. ASSUME NEW r \in Requests, Revoke(r) PROVE RowsTyped'
    <2>1. request[r].token \in Sessions
      BY <1>1, <1>2 DEF Revoke, KeepsSession, Guarding
    <2> QED
      BY <1>1, <1>2, <2>1 DEF Revoke
  <1>3. ASSUME NEW r \in Requests, CreateSession(r) PROVE RowsTyped'
    <2>1. request[r].user \in Users
      BY <1>1, <1>3 DEF CreateSession, FoundHolds
    <2> QED
      BY <1>1, <1>3, <2>1 DEF CreateSession
  <1>4. ASSUME NEW r \in Requests, DeleteSession(r) \/ DeleteAllUserSessions(r) PROVE RowsTyped'
    BY <1>1, <1>4 DEF DeleteSession, DeleteAllUserSessions
  <1>5. ASSUME NEW s \in Sessions, Expires(s) PROVE RowsTyped'
    BY <1>1, <1>5, AccountsAssumption DEF Expires, Changes
  <1>6. ASSUME NEW u \in Users, ChangeUser(u) PROVE RowsTyped'
    <2>1. /\ UNCHANGED <<sessionRows, ended, dbFailures>>
          /\ changes < MaxChanges /\ changes' = changes + 1
      BY <1>6 DEF ChangeUser, Changes
    <2> QED
      BY <1>1, <2>1, AccountsAssumption
  <1>7. ASSUME NEW r \in Requests, StatementFails(r) PROVE RowsTyped'
    BY <1>1, <1>7, AccountsAssumption DEF StatementFails
  <1>8. CASE UNCHANGED <<sessionRows, ended, bounds>>
    BY <1>1, <1>8
  <1>9. \/ UNCHANGED <<sessionRows, ended, bounds>>
        \/ (\E s \in Sessions : Expires(s)) \/ (\E u \in Users : ChangeUser(u))
        \/ \E r \in Requests : \/ Revoke(r) \/ CreateSession(r) \/ StatementFails(r)
                               \/ DeleteSession(r) \/ DeleteAllUserSessions(r)
    BY DEF Next, RequestSteps, Receive, FindSession, FindUser, Read, FindName, FindEmail,
           CreateUser, vars
  <1> QED
    BY <1>2, <1>3, <1>4, <1>5, <1>6, <1>7, <1>8, <1>9

\* The rows of users.
UsersTyped ==
    /\ users \subseteq Users /\ deleted \subseteq users /\ admins \subseteq users
    /\ name \in [Users -> Names \cup {NoName}] /\ email \in [Users -> Emails \cup {NoName}]
    /\ status \in [Users -> Statuses]
    /\ \A u, v \in users : name[u] = name[v] \/ email[u] = email[v] => u = v

LEMMA UsersAreTyped ==
    ASSUME AccountsInv, [Next]_vars
    PROVE  UsersTyped'
  <1>1. UsersTyped
    BY DEF UsersTyped, AccountsInv, TypeOK
  <1>2. ASSUME NEW r \in Requests, CreateUser(r), ~Conflicts(request[r].name, request[r].email),
               NEW u \in Users, Inserts(r, u)
        PROVE  UsersTyped'
    <2>1. /\ u \notin users /\ users' = users \cup {u} /\ UNCHANGED <<deleted, admins>>
          /\ name' = [name EXCEPT ![u] = request[r].name]
          /\ email' = [email EXCEPT ![u] = request[r].email]
          /\ \E initial \in {"CONF_AWAITING", "ACTIVE"} : status' = [status EXCEPT ![u] = initial]
      BY <1>2 DEF Inserts
    <2>2. request[r].name \in Names /\ request[r].email \in Emails
      BY <1>2 DEF CreateUser, AccountsInv, RequestsHold, FreeHolds
    <2>3. \A v \in users : name[v] # request[r].name /\ email[v] # request[r].email
      BY <1>2 DEF Conflicts
    <2>4. /\ users' \subseteq Users /\ deleted' \subseteq users' /\ admins' \subseteq users'
          /\ name' \in [Users -> Names \cup {NoName}] /\ email' \in [Users -> Emails \cup {NoName}]
      BY <1>1, <2>1, <2>2 DEF UsersTyped
    <2>5. status' \in [Users -> Statuses]
      BY <1>1, <2>1 DEF UsersTyped, Statuses
    <2>6. /\ name'[u] = request[r].name /\ email'[u] = request[r].email
          /\ \A v \in users : name'[v] = name[v] /\ email'[v] = email[v]
      BY <1>1, <2>1 DEF UsersTyped
    <2>7. \A v, w \in users' : name'[v] = name'[w] \/ email'[v] = email'[w] => v = w
      BY <1>1, <2>1, <2>3, <2>6 DEF UsersTyped
    <2> QED
      BY <2>4, <2>5, <2>7 DEF UsersTyped
  <1>3. ASSUME NEW u \in Users, ChangeUser(u) PROVE UsersTyped'
    BY <1>1, <1>3 DEF UsersTyped, ChangeUser, Changes
  <1>4. CASE UNCHANGED userRows
    BY <1>1, <1>4 DEF UsersTyped, userRows
  <1>5. \/ UNCHANGED userRows \/ (\E u \in Users : ChangeUser(u))
        \/ \E r \in Requests :
              CreateUser(r) /\ ~Conflicts(request[r].name, request[r].email) /\ \E u \in Users : Inserts(r, u)
    BY DEF Next, RequestSteps, Receive, FindSession, Revoke, FindUser, CreateSession, DeleteSession,
           DeleteAllUserSessions, Read, FindName, FindEmail, CreateUser, StatementFails, Expires, vars
  <1> QED
    BY <1>2, <1>3, <1>4, <1>5

-------------------------------------------------------------------------------
(* The invariant. *)

LEMMA AccountsInvInit == Init => AccountsInv
  <1> SUFFICES ASSUME Init PROVE AccountsInv
    OBVIOUS
  <1> USE AccountsAssumption DEF Init
  <1>1. /\ Blank \in RequestStates /\ Blank.pc = "idle" /\ Blank.kind = "read" /\ ~Blank.late
    BY DEF Blank, RequestStates, Kinds, Answers
  <1>2. TypeOK
    BY <1>1 DEF TypeOK, Statuses
  <1>3. SessionsEndOnce
    BY DEF SessionsEndOnce
  <1>4. RequestsHold
    BY <1>1 DEF RequestsHold, KeepsSession, FoundHolds, FreeHolds, IsGuarded, LoggingIn, Registering,
                Guarding, Handling
  <1> QED
    BY <1>2, <1>3, <1>4 DEF AccountsInv

LEMMA AccountsInvNext == AccountsInv /\ [Next]_vars => AccountsInv'
  <1> SUFFICES ASSUME AccountsInv, [Next]_vars PROVE AccountsInv'
    OBVIOUS
  <1>1. TypeOK'
    BY RequestsAreTyped, SessionsAreTyped, UsersAreTyped DEF TypeOK, RowsTyped, UsersTyped
  <1> QED
    BY <1>1, SessionsEndOnceNext, RequestsHoldNext DEF AccountsInv

(***************************************************************************)
(* A session is created once and gone once it is over, a request keeps the *)
(* session it came with, and what a request found holds until something    *)
(* that it relies on is changed.                                           *)
(***************************************************************************)
THEOREM AccountsInvHolds == Spec => []AccountsInv
  BY AccountsInvInit, AccountsInvNext, PTL DEF Spec

(***************************************************************************)
(* Every variable keeps its type, and no two users ever share a name or an *)
(* address: the unique constraints refuse what the searches of overlapping *)
(* registrations let through.                                              *)
(***************************************************************************)
THEOREM TypeCorrect == Spec => []TypeOK
  <1>1. AccountsInv => TypeOK
    BY DEF AccountsInv
  <1> QED
    BY <1>1, AccountsInvHolds, PTL

(***************************************************************************)
(* What is over stays over: a session that the server refused and deleted, *)
(* or logged out, lets no later request pass the guard.                    *)
(***************************************************************************)
THEOREM EndedSessionsStayEnded == Spec => []EndedStaysEnded
  <1>1. AccountsInv => EndedStaysEnded
    BY DEF AccountsInv, RequestsHold, KeepsSession, EndedStaysEnded
  <1> QED
    BY <1>1, AccountsInvHolds, PTL

(***************************************************************************)
(* What a request does behind the guard it does with a session that holds, *)
(* for a user that is active and has the permission, unless something of   *)
(* that was changed since the guard asked.                                 *)
(***************************************************************************)
THEOREM AccessIsTimely == Spec => AccessIsCurrent
  <1> DEFINE Acts == \A r \in Requests :
                        /\ request[r].pc \in Handling \cup {"creatingSession", "creatingUser"}
                        /\ request[r].kind # "register"
                        /\ request'[r].answer = "OK"
                        => MayAct(r) \/ request[r].overtaken
  <1>1. AccountsInv => Acts
    <2> SUFFICES ASSUME AccountsInv, NEW r \in Requests,
                        request[r].pc \in Handling \cup {"creatingSession", "creatingUser"},
                        request[r].kind # "register"
                 PROVE  MayAct(r) \/ request[r].overtaken
      OBVIOUS
    <2>1. IsGuarded(r) \/ request[r].pc = "creatingSession"
      BY DEF AccountsInv, RequestsHold, KeepsSession, IsGuarded, Registering
    <2> QED
      BY <2>1 DEF AccountsInv, RequestsHold, FoundHolds
  <1>2. AccountsInv => [Acts]_vars
    BY <1>1
  <1> QED
    BY <1>2, AccountsInvHolds, PTL DEF AccessIsCurrent

-------------------------------------------------------------------------------
(* What registrations are answered. *)

LEMMA CreatedTruly ==
    ASSUME AccountsInv, NEW r \in Requests, CreateUser(r)
    PROVE  Truly(r, request'[r].answer)
  <1>1. UsersTyped /\ request[r].name \in Names /\ request[r].email \in Emails
    BY DEF AccountsInv, TypeOK, UsersTyped, RequestsHold, FreeHolds, CreateUser
  <1>2. ASSUME ~Conflicts(request[r].name, request[r].email), NEW u \in Users, Inserts(r, u)
        PROVE  Truly(r, request'[r].answer)
    <2>1. /\ u \notin users /\ users' = users \cup {u}
          /\ name' = [name EXCEPT ![u] = request[r].name]
          /\ email' = [email EXCEPT ![u] = request[r].email]
          /\ request'[r].answer = "OK"
      BY <1>2 DEF Inserts, StepsTo, Answered, Blank
    <2>2. \A v \in users : name'[v] # request[r].name /\ email'[v] # request[r].email
      BY <1>1, <1>2, <2>1 DEF Conflicts, UsersTyped
    <2>3. name'[u] = request[r].name
      BY <1>1, <2>1 DEF UsersTyped
    <2>4. {v \in users' : name'[v] = request[r].name \/ email'[v] = request[r].email} = {u}
      BY <2>1, <2>2, <2>3
    <2>5. users' \ users = {u}
      BY <2>1
    <2> QED
      BY <2>1, <2>4, <2>5 DEF Truly
  <1>3. ASSUME Conflicts(request[r].name, request[r].email), AnswersWith(r, "UNKNOWN_ERROR")
        PROVE  Truly(r, request'[r].answer)
    <2>1. request'[r].answer = "UNKNOWN_ERROR"
      BY <1>3 DEF AnswersWith, StepsTo, Answered, Blank
    <2>2. PICK u \in users : name[u] = request[r].name \/ email[u] = request[r].email
      BY <1>3 DEF Conflicts
    <2>3. \/ request[r].overtaken
          \/ /\ name[u] # request[r].name
             /\ u \in Searched(request[r].kind) => email[u] # request[r].email
      BY <2>2 DEF AccountsInv, RequestsHold, FreeHolds, CreateUser
    <2>4. request[r].kind \in {"register", "force"}
      BY DEF AccountsInv, RequestsHold, KeepsSession, CreateUser, Registering
    <2>5. u \notin Searched(request[r].kind) => (u \in deleted) = (request[r].kind = "register")
      BY <2>2, <2>4 DEF Searched
    <2> QED
      BY <2>1, <2>2, <2>3, <2>5 DEF Truly
  <1> QED
    BY <1>2, <1>3 DEF CreateUser

(***************************************************************************)
(* An account said to be created is the only one with its name and its     *)
(* address, and a taken one is answered with UNKNOWN_ERROR only if it was  *)
(* taken since it was searched for, or was left out of the search.         *)
(***************************************************************************)
THEOREM RegistrationsAreTrue == Spec => RegistrationsAreAnsweredTruly
  <1> DEFINE AllTruly == \A r \in Requests :
                        request[r].pc \in Registering /\ request'[r].pc = "idle"
                           => Truly(r, request'[r].answer)
  <1>1. AccountsInv /\ [Next]_vars => [AllTruly]_vars
    <2> SUFFICES ASSUME AccountsInv, Next, NEW r \in Requests,
                        request[r].pc \in Registering, request'[r].pc = "idle"
                 PROVE  Truly(r, request'[r].answer)
      OBVIOUS
    <2>1. TypeOK /\ ~Same(r)
      BY SameIsTyped DEF AccountsInv, Registering
    <2>2. Receive(r) \/ RequestSteps(r) \/ StatementFails(r)
      <3>1. ASSUME NEW q \in Requests \ {r}, Receive(q) \/ RequestSteps(q) \/ StatementFails(q)
            PROVE  FALSE
        BY <2>1, <3>1, RequestsMove DEF OnlyMoves
      <3>2. ASSUME (\E u \in Users : ChangeUser(u)) \/ (\E s \in Sessions : Expires(s))
            PROVE  FALSE
        BY <2>1, <3>2 DEF ChangeUser, Expires, Changes, Same, Overtaken
      <3> QED
        BY <3>1, <3>2 DEF Next
    <2>3. CASE CreateUser(r)
      BY <2>3, CreatedTruly
    <2>4. CASE StatementFails(r)
      <3>1. dbFailures' # dbFailures /\ request'[r].answer = "UNKNOWN_ERROR"
        BY <2>1, <2>4, AccountsAssumption DEF StatementFails, AnswersWith, StepsTo, Answered, Blank,
           Registering, Guarding, TypeOK
      <3> QED
        BY <3>1 DEF Truly
    <2>5. CASE FindName(r) \/ FindEmail(r)
      <3>1. request'[r].answer \in {"USERNAME_UNAVAILABLE", "EMAIL_IN_USE"}
        <4>1. request[r] \in RequestStates
          BY <2>1 DEF TypeOK
        <4>2. CASE FindName(r)
          <5>1. \/ request'[r] = Answered("USERNAME_UNAVAILABLE")
                \/ \E n \in Names : request'[r] = [request[r] EXCEPT !.pc = "findingEmail", !.name = n]
            BY <4>2 DEF FindName, AnswersWith, StepsTo
          <5> QED
            BY <4>1, <5>1 DEF Answered, Blank, RequestStates
        <4>3. CASE FindEmail(r)
          <5>1. \/ request'[r] = Answered("EMAIL_IN_USE")
                \/ \E e \in Emails : request'[r] = [request[r] EXCEPT !.pc = "creatingUser", !.email = e]
            BY <4>3 DEF FindEmail, AnswersWith, StepsTo
          <5> QED
            BY <4>1, <5>1 DEF Answered, Blank, RequestStates
        <4> QED
          BY <2>5, <4>2, <4>3
      <3> QED
        BY <3>1 DEF Truly
    <2> QED
      BY <2>2, <2>3, <2>4, <2>5 DEF RequestSteps, Receive, IsUnderWay, FindSession, Revoke, FindUser,
         CreateSession, DeleteSession, DeleteAllUserSessions, Read, Registering
  <1> QED
    BY <1>1, AccountsInvHolds, PTL DEF RegistrationsAreAnsweredTruly, Spec

===============================================================================
