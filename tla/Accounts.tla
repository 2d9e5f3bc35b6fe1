-------------------------------- MODULE Accounts --------------------------------
(***************************************************************************)
(* Who may do what: the registration of users, their sessions, and the     *)
(* guard every request passes.  UsersController, SessionsController,       *)
(* SessionsService and AuthGuard, one action per statement a handler       *)
(* awaits.  What a statement read may have changed when the next one is    *)
(* executed: by another request, or by an administrator, for whom the      *)
(* repository has no code.                                                 *)
(*                                                                         *)
(* Requests are slots: a slot whose request was answered takes another.    *)
(***************************************************************************)
EXTENDS Naturals, FiniteSets

CONSTANTS
    Requests,       \* requests that may be under way at a time
    Users, NoUser,  \* ids of users, the first of which exists
    FirstUser,
    Sessions,       \* ids of sessions
    NoSession,
    Names, Emails,  \* user names and addresses
    NoName,
    MaxChanges,     \* what administrators and time may change
    MaxDbFailures   \* statements that may fail

ASSUME AccountsAssumption ==
    /\ FirstUser \in Users /\ NoUser \notin Users /\ NoSession \notin Sessions
    /\ NoName \notin Names \cup Emails
    /\ MaxChanges \in Nat /\ MaxDbFailures \in Nat

\* BANNED stands for DISABLED too.
Statuses == {"ACTIVE", "CONF_AWAITING", "BANNED"}

\* createUser, forceCreateUser, createNewSession, destroyCurrentSession,
\* destroyAllSessions, and getMySessions for every request that only reads.
Kinds == {"register", "force", "login", "logout", "logoutAll", "read"}

\* The statement a request waits for.
Guarding == {"guarding", "guardingAgain", "revoking"}
Registering == {"findingName", "findingEmail", "creatingUser"}
LoggingIn == {"findingUser", "creatingSession"}
Handling == {"deleting", "deletingAll", "reading"}
UnderWay == Guarding \cup Registering \cup LoggingIn \cup Handling

Answers == {"none", "OK", "INVALID_TOKEN", "INSUFFICIENT_PERMISSIONS", "USERNAME_UNAVAILABLE",
            "EMAIL_IN_USE", "REFUSED", "UNKNOWN_ERROR"}

VARIABLES
    \* The database.
    users, name, email, status, deleted, admins,   \* rows of User; admins have every permission
    sessions, owner, expired,                      \* rows of Session; owner also of those deleted
    request,    \* what each slot's request carries and waits for, or the last answer
    ended,      \* history: sessions that the server has told somebody are over
    changes, dbFailures

userRows == <<users, name, email, status, deleted, admins>>
sessionRows == <<sessions, owner, expired>>
bounds == <<changes, dbFailures>>
vars == <<userRows, sessionRows, request, ended, bounds>>

\* user: whom the guard or the login found; name and email: of the account to
\* be created, chosen when the first statement that needs them is executed;
\* late: its session was over before it came; overtaken: what it found was
\* changed since.
RequestStates ==
    [pc : UnderWay \cup {"idle"}, kind : Kinds, token : Sessions \cup {NoSession},
     user : Users \cup {NoUser}, name : Names \cup {NoName}, email : Emails \cup {NoName},
     late : BOOLEAN, overtaken : BOOLEAN, answer : Answers]

Blank == [pc |-> "idle", kind |-> "read", token |-> NoSession, user |-> NoUser,
          name |-> NoName, email |-> NoName, late |-> FALSE, overtaken |-> FALSE,
          answer |-> "none"]

(***************************************************************************)
(* The types, and that no two users share a name or an address, however    *)
(* registrations overlap.                                                  *)
(***************************************************************************)
TypeOK ==
    /\ users \subseteq Users /\ deleted \subseteq users /\ admins \subseteq users
    /\ name \in [Users -> Names \cup {NoName}] /\ email \in [Users -> Emails \cup {NoName}]
    /\ status \in [Users -> Statuses]
    /\ sessions \cup expired \cup ended \subseteq Sessions
    /\ owner \in [Sessions -> Users \cup {NoUser}]
    /\ request \in [Requests -> RequestStates]
    /\ changes \in 0..MaxChanges /\ dbFailures \in 0..MaxDbFailures
    /\ \A u, v \in users : name[u] = name[v] \/ email[u] = email[v] => u = v

\* Somebody has registered and logged in before.
Init ==
    /\ users = {FirstUser} /\ deleted = {} /\ admins \in SUBSET users
    /\ \E n \in Names : name = [u \in Users |-> IF u = FirstUser THEN n ELSE NoName]
    /\ \E e \in Emails : email = [u \in Users |-> IF u = FirstUser THEN e ELSE NoName]
    /\ status = [u \in Users |-> "ACTIVE"]
    /\ \E s \in Sessions :
          /\ sessions = {s}
          /\ owner = [t \in Sessions |-> IF t = s THEN FirstUser ELSE NoUser]
    /\ expired = {} /\ ended = {}
    /\ request = [r \in Requests |-> Blank]
    /\ changes = 0 /\ dbFailures = 0

-------------------------------------------------------------------------------
(* Steps of requests. *)

IsUnderWay(r) == request[r].pc # "idle"

\* A request that relies on what changes is overtaken.
Overtaken(q, Affects(_)) ==
    IF Affects(q) THEN [request[q] EXCEPT !.overtaken = TRUE] ELSE request[q]

\* The request of r is now as in state.
StepsTo(r, state, Affects(_)) ==
    request' = [q \in Requests |-> IF q = r THEN state ELSE Overtaken(q, Affects)]

Nobody(q) == FALSE

Proceeds(r, pc) == StepsTo(r, [request[r] EXCEPT !.pc = pc], Nobody)
Answered(code) == [Blank EXCEPT !.answer = code]
AnswersWith(r, code) == StepsTo(r, Answered(code), Nobody)

\* What the statements of q so far have found, or not found.
FoundUser(u, q) == request[q].user = u
FoundSession(s, q) == request[q].token = s /\ request[q].user # NoUser
FoundFree(n, e, q) == request[q].name = n \/ request[q].email = e

\* A request comes in: public, or with the token of a session.
Receive(r) ==
    /\ ~IsUnderWay(r)
    /\ \/ StepsTo(r, [Blank EXCEPT !.pc = "findingName", !.kind = "register"], Nobody)
       \/ StepsTo(r, [Blank EXCEPT !.pc = "findingUser", !.kind = "login"], Nobody)
       \/ \E s \in Sessions, kind \in Kinds \ {"register", "login"} :
             /\ owner[s] # NoUser
             /\ StepsTo(r, [Blank EXCEPT !.pc = "guarding", !.kind = kind, !.token = s,
                                         !.late = s \in ended], Nobody)
    /\ UNCHANGED <<userRows, sessionRows, ended, bounds>>

-------------------------------------------------------------------------------
(* AuthGuard. *)

IsActive(u) == u \in users \ deleted /\ status[u] = "ACTIVE"

\* What a request that passed the guard waits for next.  The guard is declared
\* both of UsersController and of forceCreateUser, and asked twice.
AfterGuard(q) ==
    CASE q.kind = "logout" -> "deleting"
      [] q.kind = "logoutAll" -> "deletingAll"
      [] q.kind = "read" -> "reading"
      [] q.kind = "force" /\ q.pc = "guarding" -> "guardingAgain"
      [] q.kind = "force" /\ q.pc = "guardingAgain" -> "findingName"

\* Mutated form of FindSession: the user's status is not asked for.
FindSessionOnly(r) ==
    /\ request[r].pc \in {"guarding", "guardingAgain"}
    /\ request[r].token \in sessions \ expired
    /\ StepsTo(r, [request[r] EXCEPT !.pc = AfterGuard(request[r]), !.overtaken = FALSE,
                                     !.user = owner[request[r].token]], Nobody)
    /\ UNCHANGED <<userRows, sessionRows, ended, bounds>>

\* findSessionByIdWithUser answers.
FindSession(r) ==
    /\ request[r].pc \in {"guarding", "guardingAgain"}
    /\ LET s == request[r].token
           valid == s \notin expired /\ IsActive(owner[s])
           permitted == request[r].kind = "force" => owner[s] \in admins
       IN  \/ s \notin sessions /\ AnswersWith(r, "INVALID_TOKEN")
           \/ s \in sessions /\ ~valid /\ Proceeds(r, "revoking")
           \/ s \in sessions /\ valid /\ ~permitted /\ AnswersWith(r, "INSUFFICIENT_PERMISSIONS")
           \/ /\ s \in sessions /\ valid /\ permitted
              /\ StepsTo(r, [request[r] EXCEPT !.pc = AfterGuard(request[r]),
                                               !.user = owner[s], !.overtaken = FALSE], Nobody)
    /\ UNCHANGED <<userRows, sessionRows, ended, bounds>>

\* Mutated form of Revoke: the session is refused and stays.
RevokeNothing(r) ==
    /\ request[r].pc = "revoking"
    /\ AnswersWith(r, "INVALID_TOKEN")
    /\ ended' = ended \cup {request[r].token}
    /\ UNCHANGED <<userRows, sessionRows, bounds>>

\* The guard deletes the session; the refusal is the same if it was gone.
Revoke(r) ==
    /\ request[r].pc = "revoking"
    /\ sessions' = sessions \ {request[r].token}
    /\ ended' = ended \cup {request[r].token}
    /\ StepsTo(r, Answered("INVALID_TOKEN"), LAMBDA q : FoundSession(request[r].token, q))
    /\ UNCHANGED <<userRows, owner, expired, bounds>>

-------------------------------------------------------------------------------
(* SessionsController. *)

\* createNewSession finds the user, compares the password and looks at the
\* status it read.
FindUser(r) ==
    /\ request[r].pc = "findingUser"
    /\ \/ AnswersWith(r, "REFUSED")
       \/ \E u \in users :
             /\ IsActive(u)
             /\ StepsTo(r, [request[r] EXCEPT !.pc = "creatingSession", !.user = u], Nobody)
    /\ UNCHANGED <<userRows, sessionRows, ended, bounds>>

CreateSession(r) ==
    /\ request[r].pc = "creatingSession"
    /\ \E s \in Sessions :
          /\ owner[s] = NoUser
          /\ sessions' = sessions \cup {s}
          /\ owner' = [owner EXCEPT ![s] = request[r].user]
    /\ AnswersWith(r, "OK")
    /\ UNCHANGED <<userRows, expired, ended, bounds>>

\* deleteSession; if the row is gone, its NotFoundException is caught and an
\* UNKNOWN_ERROR thrown.
DeleteSession(r) ==
    /\ request[r].pc = "deleting"
    /\ LET s == request[r].token
       IN  \/ /\ s \in sessions
              /\ sessions' = sessions \ {s}
              /\ ended' = ended \cup {s}
              /\ StepsTo(r, Answered("OK"), LAMBDA q : FoundSession(s, q))
           \/ /\ s \notin sessions
              /\ AnswersWith(r, "UNKNOWN_ERROR")
              /\ UNCHANGED <<sessions, ended>>
    /\ UNCHANGED <<userRows, owner, expired, bounds>>

\* deleteAllUserSessions, all but the one it was asked with.
DeleteAllUserSessions(r) ==
    /\ request[r].pc = "deletingAll"
    /\ LET s == request[r].token
           others == {t \in sessions \ {s} : owner[t] = request[r].user}
       IN  /\ sessions' = sessions \ others
           /\ ended' = ended \cup others
           /\ StepsTo(r, Answered("OK"), LAMBDA q : \E t \in others : FoundSession(t, q))
    /\ UNCHANGED <<userRows, owner, expired, bounds>>

\* findSessions, or whatever another handler reads.
Read(r) ==
    /\ request[r].pc = "reading"
    /\ AnswersWith(r, "OK")
    /\ UNCHANGED <<userRows, sessionRows, ended, bounds>>

-------------------------------------------------------------------------------
(* UsersController. *)

\* Everybody's name is searched for.
FindName(r) ==
    /\ request[r].pc = "findingName"
    /\ \E n \in Names :
          IF \E u \in users : name[u] = n
          THEN AnswersWith(r, "USERNAME_UNAVAILABLE")
          ELSE StepsTo(r, [request[r] EXCEPT !.pc = "findingEmail", !.name = n], Nobody)
    /\ UNCHANGED <<userRows, sessionRows, ended, bounds>>

\* Whose address is searched for: createUser passes isDeleted as false,
\* forceCreateUser as true.  Mutated form: both as true.
SearchedForgetting(kind) == deleted
Searched(kind) == IF kind = "force" THEN deleted ELSE users \ deleted

FindEmail(r) ==
    /\ request[r].pc = "findingEmail"
    /\ \E e \in Emails :
          IF \E u \in Searched(request[r].kind) : email[u] = e
          THEN AnswersWith(r, "EMAIL_IN_USE")
          ELSE StepsTo(r, [request[r] EXCEPT !.pc = "creatingUser", !.email = e], Nobody)
    /\ UNCHANGED <<userRows, sessionRows, ended, bounds>>

Conflicts(n, e) == \E u \in users : name[u] = n \/ email[u] = e

Inserts(r, u) ==
    /\ u \notin users
    /\ users' = users \cup {u}
    /\ name' = [name EXCEPT ![u] = request[r].name]
    /\ email' = [email EXCEPT ![u] = request[r].email]
    /\ \E initial \in {"CONF_AWAITING", "ACTIVE"} : status' = [status EXCEPT ![u] = initial]
    /\ StepsTo(r, Answered("OK"), LAMBDA q : FoundFree(request[r].name, request[r].email, q))
    /\ UNCHANGED <<deleted, admins>>

\* Mutated form of CreateUser: names and addresses are not unique.
CreateUserUnconstrained(r) ==
    /\ request[r].pc = "creatingUser"
    /\ \E u \in Users : Inserts(r, u)
    /\ UNCHANGED <<sessionRows, ended, bounds>>

\* The row is written, or a unique constraint is violated.
CreateUser(r) ==
    /\ request[r].pc = "creatingUser"
    /\ \/ /\ ~Conflicts(request[r].name, request[r].email)
          /\ \E u \in Users : Inserts(r, u)
       \/ /\ Conflicts(request[r].name, request[r].email)
          /\ AnswersWith(r, "UNKNOWN_ERROR")
          /\ UNCHANGED userRows
    /\ UNCHANGED <<sessionRows, ended, bounds>>

-------------------------------------------------------------------------------

\* A statement fails; the guard turns every error into INVALID_TOKEN.
StatementFails(r) ==
    /\ IsUnderWay(r)
    /\ dbFailures < MaxDbFailures
    /\ dbFailures' = dbFailures + 1
    /\ AnswersWith(r, IF request[r].pc \in Guarding THEN "INVALID_TOKEN" ELSE "UNKNOWN_ERROR")
    /\ UNCHANGED <<userRows, sessionRows, ended, changes>>

\* What is changed from outside: by administrators, or by the time.
Changes(Affects(_)) ==
    /\ changes < MaxChanges
    /\ changes' = changes + 1
    /\ request' = [q \in Requests |-> Overtaken(q, Affects)]
    /\ UNCHANGED <<ended, dbFailures>>

\* A deleted user's address is free for createUser and taken for forceCreateUser.
ChangeUser(u) ==
    /\ u \in users
    /\ \/ /\ Changes(LAMBDA q : FoundUser(u, q))
          /\ \/ /\ \E to \in Statuses \ {status[u]} : status' = [status EXCEPT ![u] = to]
                /\ UNCHANGED admins
             \/ /\ admins' = IF u \in admins THEN admins \ {u} ELSE admins \cup {u}
                /\ UNCHANGED status
          /\ UNCHANGED deleted
       \/ /\ u \notin deleted
          /\ Changes(LAMBDA q : FoundUser(u, q) \/ FoundFree(name[u], email[u], q))
          /\ deleted' = deleted \cup {u}
          /\ UNCHANGED <<status, admins>>
    /\ UNCHANGED <<users, name, email, sessionRows>>

Expires(s) ==
    /\ s \in sessions \ expired
    /\ Changes(LAMBDA q : FoundSession(s, q))
    /\ expired' = expired \cup {s}
    /\ UNCHANGED <<userRows, sessions, owner>>

RequestSteps(r) ==
    \/ FindSession(r) \/ Revoke(r)
    \/ FindUser(r) \/ CreateSession(r)
    \/ DeleteSession(r) \/ DeleteAllUserSessions(r) \/ Read(r)
    \/ FindName(r) \/ FindEmail(r) \/ CreateUser(r)

Next ==
    \/ \E r \in Requests : Receive(r) \/ RequestSteps(r) \/ StatementFails(r)
    \/ \E u \in Users : ChangeUser(u)
    \/ \E s \in Sessions : Expires(s)

Spec == Init /\ [][Next]_vars

-------------------------------------------------------------------------------
(***************************************************************************)
(* What is over stays over: a request that came after the server had       *)
(* refused its session and deleted it, logged it out, or logged out all    *)
(* others of its user, does not pass the guard - also if the user was      *)
(* unbanned since.                                                         *)
(***************************************************************************)
EndedStaysEnded ==
    \A r \in Requests : request[r].late => request[r].pc \in {"idle", "guarding"}

(***************************************************************************)
(* What a request does behind the guard it does with a session that holds, *)
(* for a user that is active and has the permission, and a login succeeds  *)
(* for such a user, unless that was changed since the guard or the login   *)
(* asked.                                                                  *)
(***************************************************************************)
MayAct(r) ==
    IF request[r].kind = "login" THEN IsActive(request[r].user)
    ELSE /\ request[r].token \in sessions \ expired
         /\ IsActive(request[r].user)
         /\ request[r].kind = "force" => request[r].user \in admins

AccessIsCurrent ==
    [][\A r \in Requests :
          /\ request[r].pc \in Handling \cup {"creatingSession", "creatingUser"}
          /\ request[r].kind # "register"
          /\ request'[r].answer = "OK"
          => MayAct(r) \/ request[r].overtaken]_vars

(***************************************************************************)
(* A registration is answered truly: an account said to be created is the  *)
(* only one with its name and its address, and a taken name or address is  *)
(* answered with UNKNOWN_ERROR only if it was taken since it was searched  *)
(* for, or is the address of a deleted user (createUser), or of one that   *)
(* is not (forceCreateUser).                                               *)
(***************************************************************************)
Truly(r, code) ==
    /\ code = "OK" => {u \in users' : name'[u] = request[r].name \/ email'[u] = request[r].email}
                        \in {{u} : u \in users' \ users}
    /\ code = "UNKNOWN_ERROR" =>
          \/ dbFailures' # dbFailures
          \/ request[r].overtaken
          \/ \E u \in users : /\ email[u] = request[r].email
                             /\ (u \in deleted) = (request[r].kind = "register")

RegistrationsAreAnsweredTruly ==
    [][\A r \in Requests :
          request[r].pc \in Registering /\ request'[r].pc = "idle"
             => Truly(r, request'[r].answer)]_vars

(***************************************************************************)
(* "EMAIL_IN_USE", "USERNAME_UNAVAILABLE": whatever is taken is answered   *)
(* so.                                                                     *)
(***************************************************************************)
TakenIsAnswered ==
    [][\A r \in Requests :
          CreateUser(r) => request'[r].answer # "UNKNOWN_ERROR"]_vars

(***************************************************************************)
(* "SESSION_NOT_FOUND": to log out twice is no internal error.             *)
(***************************************************************************)
LogoutIsNoError ==
    [][\A r \in Requests :
          DeleteSession(r) => request'[r].answer # "UNKNOWN_ERROR"]_vars

(***************************************************************************)
(* Why these hold: a session is created once and is gone once it is over,  *)
(* a request keeps the session it came with, and what a request found      *)
(* holds until it is overtaken.                                            *)
(***************************************************************************)
SessionsEndOnce ==
    /\ sessions \cap ended = {}
    /\ \A s \in sessions \cup ended : owner[s] # NoUser

IsGuarded(r) ==
    \/ request[r].pc \in Handling \cup {"guardingAgain"}
    \/ request[r].pc \in Registering /\ request[r].kind = "force"

KeepsSession(r) ==
    /\ request[r].pc \in LoggingIn <=> request[r].kind = "login"
    /\ request[r].pc \in Registering => request[r].kind \in {"register", "force"}
    /\ request[r].pc = "guardingAgain" => request[r].kind = "force"
    /\ request[r].pc \in Guarding \/ IsGuarded(r) =>
          /\ request[r].kind \notin {"register", "login"}
          /\ request[r].token \in Sessions /\ owner[request[r].token] # NoUser
    /\ IsGuarded(r) => request[r].user = owner[request[r].token]
    /\ request[r].late /\ request[r].pc # "idle" =>
          request[r].pc = "guarding" /\ request[r].token \in ended

FoundHolds(r) ==
    /\ request[r].pc = "creatingSession" => request[r].user \in users
    /\ IsGuarded(r) \/ request[r].pc = "creatingSession" => MayAct(r) \/ request[r].overtaken

FreeHolds(r) ==
    /\ request[r].pc \in {"findingEmail", "creatingUser"} =>
          /\ request[r].name \in Names
          /\ request[r].overtaken \/ \A u \in users : name[u] # request[r].name
    /\ request[r].pc = "creatingUser" =>
          /\ request[r].email \in Emails
          /\ request[r].overtaken
             \/ \A u \in Searched(request[r].kind) : email[u] # request[r].email

RequestsHold == \A r \in Requests : KeepsSession(r) /\ FoundHolds(r) /\ FreeHolds(r)

AccountsInv == TypeOK /\ SessionsEndOnce /\ RequestsHold

===============================================================================
