----------------------------- MODULE ProblemEditing -----------------------------
(***************************************************************************)
(* The requests that change a problem, one action per `await': each finds  *)
(* the problem by its slug, decides by what it read, and later writes the  *)
(* row by its id.  The test data of a problem lie in the object storage    *)
(* under tests/{slug}/; hasTestData says in the row whether there are any. *)
(*                                                                         *)
(* Who may change a problem is ProblemAccess's subject: a request may be   *)
(* refused at any time here.                                               *)
(***************************************************************************)
EXTENDS Naturals, FiniteSets

CONSTANTS
    Requests,
    Problems, NoProblem,
    Slugs, NoSlug,
    MaxFailures        \* statements and calls of the storage that may fail

ASSUME EditingAssumption ==
    MaxFailures \in Nat /\ NoProblem \notin Problems /\ NoSlug \notin Slugs

\* "finalize" comes with cases, "archive" with the URL of an archive.
Kinds == {"create", "update", "delete", "lock", "visibility", "finalize", "archive"}

VARIABLES
    \* The rows of the problems; slug is NoSlug where there is no row.
    slug, locked, deleted, hasTestData,
    stored,            \* slugs with objects under tests/{slug}/
    \* The requests.
    pc, kind,
    at,                \* the slug in the path; then the one the storage is asked for
    newSlug,           \* data.slug
    found,             \* the problem that was found
    read,              \* isLocked or hasTestData as read, or as listed
    \* History: what happened to its problem since a request found it, ...
    toggled, removed, renamed,
    \* ... problems locked or unlocked an odd number of times, those of which two
    \* requests did so at a time, and those whose flag is known to be unfounded.
    odd, overlapped, misled,
    failures

rows == <<slug, locked, deleted, hasTestData>>
requests == <<pc, kind, at, newSlug, found, read>>
history == <<toggled, removed, renamed, odd, overlapped, misled>>
vars == <<rows, stored, requests, history, failures>>

Steps == {"finding", "checking", "writing", "listing", "correcting",
          "downloading", "storing", "archiving", "flagging"}

TypeOK ==
    /\ slug \in [Problems -> Slugs \cup {NoSlug}]
    /\ \A P \in {locked, deleted, hasTestData, odd, overlapped, misled} : P \subseteq Problems
    /\ \A p \in locked \cup deleted \cup hasTestData : slug[p] # NoSlug
    /\ stored \subseteq Slugs
    /\ pc \in [Requests -> Steps \cup {"idle", "done", "error"}]
    /\ kind \in [Requests -> Kinds]
    /\ at \in [Requests -> Slugs \cup {NoSlug}] /\ newSlug \in [Requests -> Slugs \cup {NoSlug}]
    /\ found \in [Requests -> Problems \cup {NoProblem}]
    /\ read \in [Requests -> BOOLEAN]
    /\ \A R \in {toggled, removed, renamed} : R \subseteq Requests
    /\ failures \in 0..MaxFailures
    \* A slug is unique (schema.prisma), and what was found stays there.
    /\ \A p, q \in Problems : slug[p] = slug[q] => p = q \/ slug[p] = NoSlug
    /\ \A r \in Requests : found[r] # NoProblem => slug[found[r]] # NoSlug

\* One problem there is, with or without test data.
Init ==
    /\ \E p \in Problems, s \in Slugs :
          /\ slug = [q \in Problems |-> IF q = p THEN s ELSE NoSlug]
          /\ \/ hasTestData = {} /\ stored = {}
             \/ hasTestData = {p} /\ stored = {s}
    /\ locked = {} /\ deleted = {}
    /\ pc = [r \in Requests |-> "idle"] /\ kind = [r \in Requests |-> "update"]
    /\ at = [r \in Requests |-> NoSlug] /\ newSlug = [r \in Requests |-> NoSlug]
    /\ found = [r \in Requests |-> NoProblem] /\ read = [r \in Requests |-> FALSE]
    /\ toggled = {} /\ removed = {} /\ renamed = {}
    /\ odd = {} /\ overlapped = {} /\ misled = {}
    /\ failures = 0

\* The other requests that are busy with a problem.
OthersAt(p, r) == {q \in Requests \ {r} : found[q] = p /\ pc[q] \in Steps}

Goes(r, step) == pc' = [pc EXCEPT ![r] = step]
Fails == failures < MaxFailures /\ failures' = failures + 1

\* Authors' tools upload cases and archives without asking the server.
UploadTestData ==
    /\ \E s \in Slugs \ stored : stored' = stored \cup {s}
    /\ UNCHANGED <<rows, requests, history, failures>>

-------------------------------------------------------------------------------
(* Finding the problem. *)

ReceiveRequest(r) ==
    /\ pc[r] = "idle"
    /\ \E k \in Kinds, s \in Slugs, n \in Slugs \cup {NoSlug} :
          /\ n # NoSlug => k = "update"
          /\ kind' = [kind EXCEPT ![r] = k]
          /\ at' = [at EXCEPT ![r] = s]
          /\ newSlug' = [newSlug EXCEPT ![r] = IF k = "create" THEN s ELSE n]
          /\ Goes(r, IF k = "create" THEN "checking" ELSE "finding")
    /\ UNCHANGED <<rows, stored, found, read, history, failures>>

\* isLocked is asked for by those who edit the row, not by finalize and its archives.
MindsLock(k) == k \in {"update", "delete", "visibility"}

FirstStep(k, s, n) ==
    CASE k = "update" /\ n \notin {NoSlug, s} -> "checking"
      [] k = "finalize" -> "storing"
      [] k = "archive" -> "downloading"
      [] OTHER -> "writing"

Finds(r, p) ==
    /\ found' = [found EXCEPT ![r] = p]
    /\ read' = [read EXCEPT ![r] = p \in locked]
    /\ Goes(r, FirstStep(kind[r], at[r], newSlug[r]))

\* Mutated form of FindProblem: a locked problem may be changed.
FindProblemUnlocked(r) ==
    /\ pc[r] = "finding"
    /\ \/ Goes(r, "error") /\ UNCHANGED <<found, read>>
       \/ \E p \in Problems \ deleted : slug[p] = at[r] /\ Finds(r, p)
    /\ UNCHANGED <<rows, stored, kind, at, newSlug, history, failures>>

\* PROBLEM_NOT_FOUND, PROBLEM_LOCKED, INSUFFICIENT_PERMISSIONS or a bad body; or on.
FindProblem(r) ==
    /\ pc[r] = "finding"
    /\ \/ Goes(r, "error") /\ UNCHANGED <<found, read>>
       \/ \E p \in Problems \ deleted :
             /\ slug[p] = at[r]
             /\ MindsLock(kind[r]) => p \notin locked
             /\ Finds(r, p)
    /\ UNCHANGED <<rows, stored, kind, at, newSlug, history, failures>>

IsTaken(s, p) == \E q \in Problems \ {p} : slug[q] = s

\* exists(data.slug): the slugs of deleted problems are taken, too.
CheckSlug(r) ==
    /\ pc[r] = "checking"
    /\ Goes(r, IF IsTaken(newSlug[r], NoProblem) THEN "error" ELSE "writing")
    /\ UNCHANGED <<rows, stored, kind, at, newSlug, found, read, history, failures>>

-------------------------------------------------------------------------------
(* Writing the row, by its id. *)

\* Mutated form of CreateProblem: the slug was checked and is not constrained.
CreateProblemUnconstrained(r) ==
    /\ pc[r] = "writing" /\ kind[r] = "create"
    /\ \E p \in Problems :
          /\ slug[p] = NoSlug
          /\ slug' = [slug EXCEPT ![p] = newSlug[r]]
          /\ Goes(r, "done")
    /\ UNCHANGED <<locked, deleted, hasTestData, stored, kind, at, newSlug, found, read,
                   history, failures>>

\* A slug that was taken since it was checked fails: UNKNOWN_ERROR.
CreateProblem(r) ==
    /\ pc[r] = "writing" /\ kind[r] = "create"
    /\ \/ IsTaken(newSlug[r], NoProblem) /\ Goes(r, "error") /\ UNCHANGED slug
       \/ /\ ~IsTaken(newSlug[r], NoProblem)
          /\ \E p \in Problems :
                slug[p] = NoSlug /\ slug' = [slug EXCEPT ![p] = newSlug[r]]
          /\ Goes(r, "done")
    /\ UNCHANGED <<locked, deleted, hasTestData, stored, kind, at, newSlug, found, read,
                   history, failures>>

\* Without data.slug the row keeps its slug, whatever that is by now.
SlugAfter(r) == IF newSlug[r] = NoSlug THEN slug[found[r]] ELSE newSlug[r]

UpdatesRow(r, s) ==
    /\ slug' = [slug EXCEPT ![found[r]] = s]
    /\ read' = [read EXCEPT ![r] = found[r] \in hasTestData]
    /\ renamed' = (renamed \cup IF s # slug[found[r]] THEN OthersAt(found[r], r) ELSE {}) \ {r}
    /\ Goes(r, "listing")

\* Mutated form of UpdateProblem: the storage is asked for the slug of the path.
UpdateProblemLookingBack(r) ==
    /\ pc[r] = "writing" /\ kind[r] = "update"
    /\ \/ IsTaken(SlugAfter(r), found[r]) /\ Goes(r, "error") /\ UNCHANGED <<slug, read, renamed>>
       \/ ~IsTaken(SlugAfter(r), found[r]) /\ UpdatesRow(r, SlugAfter(r))
    /\ UNCHANGED <<locked, deleted, hasTestData, stored, kind, at, newSlug, found,
                   toggled, removed, odd, overlapped, misled, failures>>

UpdateProblem(r) ==
    /\ pc[r] = "writing" /\ kind[r] = "update"
    /\ \/ /\ IsTaken(SlugAfter(r), found[r])
          /\ Goes(r, "error") /\ UNCHANGED <<slug, read, renamed, at>>
       \/ /\ ~IsTaken(SlugAfter(r), found[r])
          /\ UpdatesRow(r, SlugAfter(r))
          /\ at' = [at EXCEPT ![r] = SlugAfter(r)]
    /\ UNCHANGED <<locked, deleted, hasTestData, stored, kind, newSlug, found,
                   toggled, removed, odd, overlapped, misled, failures>>

DeleteProblem(r) ==
    /\ pc[r] = "writing" /\ kind[r] = "delete"
    /\ deleted' = deleted \cup {found[r]}
    /\ removed' = removed \cup OthersAt(found[r], r)
    /\ Goes(r, "done")
    /\ UNCHANGED <<slug, locked, hasTestData, stored, kind, at, newSlug, found, read,
                   toggled, renamed, odd, overlapped, misled, failures>>

Toggled(S, p) == IF p \in S THEN S \ {p} ELSE S \cup {p}

ChangesLock(r, isLocked) ==
    LET p == found[r]
    IN  /\ locked' = IF isLocked THEN locked \cup {p} ELSE locked \ {p}
        /\ odd' = Toggled(odd, p)
        /\ overlapped' = IF r \in toggled THEN overlapped \cup {p} ELSE overlapped
        /\ toggled' = toggled \cup OthersAt(p, r)
        /\ Goes(r, "done")
        /\ UNCHANGED <<slug, deleted, hasTestData, stored, kind, at, newSlug, found, read,
                       removed, renamed, misled, failures>>

\* Mutated form of ChangeLockStatus: it locks, whatever was read.
ChangeLockStatusAlways(r) ==
    pc[r] = "writing" /\ kind[r] = "lock" /\ ChangesLock(r, TRUE)

\* isLocked: !problem.isLocked, as it was found.
ChangeLockStatus(r) ==
    pc[r] = "writing" /\ kind[r] = "lock" /\ ChangesLock(r, ~read[r])

\* testcaseDataVisibility itself is ProblemAccess's.
UpdateTestcaseVisibility(r) ==
    /\ pc[r] = "writing" /\ kind[r] = "visibility"
    /\ Goes(r, "done")
    /\ UNCHANGED <<rows, stored, kind, at, newSlug, found, read, history, failures>>

-------------------------------------------------------------------------------
(* The test data: updateProblem looks for them, finalize stores init.yml. *)

\* The listing, if it comes (the storage may not be configured), is compared with the row as it was updated.
ListTestData(r) ==
    /\ pc[r] = "listing"
    /\ \/ /\ (at[r] \in stored) = read[r]
          /\ Goes(r, "done") /\ UNCHANGED <<read, misled, failures>>
       \/ /\ (at[r] \in stored) # read[r]
          /\ Goes(r, "correcting")
          /\ read' = [read EXCEPT ![r] = ~@]
          /\ UNCHANGED <<misled, failures>>
       \/ /\ Fails /\ Goes(r, "done")
          /\ misled' = misled \cup {found[r]} /\ UNCHANGED read
    /\ UNCHANGED <<rows, stored, kind, at, newSlug, found,
                   toggled, removed, renamed, odd, overlapped>>

\* What the flag is set to has a reason, unless the problem was renamed since.
Founds(r, reason) ==
    misled' = IF reason /\ r \notin renamed THEN misled \ {found[r]} ELSE misled \cup {found[r]}

CorrectFlag(r) ==
    /\ pc[r] = "correcting"
    /\ \/ /\ hasTestData' = IF read[r] THEN hasTestData \cup {found[r]} ELSE hasTestData \ {found[r]}
          /\ Founds(r, TRUE) /\ UNCHANGED failures
       \/ Fails /\ Founds(r, FALSE) /\ UNCHANGED hasTestData
    /\ Goes(r, "done")
    /\ UNCHANGED <<slug, locked, deleted, stored, kind, at, newSlug, found, read,
                   toggled, removed, renamed, odd, overlapped>>

\* The archive behind body.url is read and left where it is.
DownloadArchive(r) ==
    /\ pc[r] = "downloading"
    /\ Goes(r, "archiving") \/ Goes(r, "error")
    /\ UNCHANGED <<rows, stored, kind, at, newSlug, found, read, history, failures>>

\* PutObject of tests/{slug}/init.yml: a failure is logged, and success answered.
StoreInitYml(r) ==
    /\ pc[r] = "storing"
    /\ \/ stored' = stored \cup {at[r]} /\ Goes(r, "archiving") /\ UNCHANGED failures
       \/ Fails /\ Goes(r, "done") /\ UNCHANGED stored
    /\ UNCHANGED <<rows, kind, at, newSlug, found, read, history>>

\* problemArchive.create, whose failure is logged, too.
RecordArchive(r) ==
    /\ pc[r] = "archiving"
    /\ \/ Goes(r, "flagging") /\ UNCHANGED failures
       \/ Fails /\ Goes(r, "done")
    /\ UNCHANGED <<rows, stored, kind, at, newSlug, found, read, history>>

FlagTestData(r) ==
    /\ pc[r] = "flagging"
    /\ \/ /\ hasTestData' = hasTestData \cup {found[r]}
          /\ Founds(r, kind[r] = "finalize") /\ UNCHANGED failures
       \/ Fails /\ UNCHANGED <<hasTestData, misled>>
    /\ Goes(r, "done")
    /\ UNCHANGED <<slug, locked, deleted, stored, kind, at, newSlug, found, read,
                   toggled, removed, renamed, odd, overlapped>>

\* Before the first write a failure ends the request, and so does that of the write.
StatementFails(r) ==
    /\ pc[r] \in {"finding", "checking", "writing"}
    /\ Fails /\ Goes(r, "error")
    /\ UNCHANGED <<rows, stored, kind, at, newSlug, found, read, history>>

-------------------------------------------------------------------------------

Next ==
    \/ UploadTestData
    \/ \E r \in Requests :
          \/ ReceiveRequest(r) \/ FindProblem(r) \/ CheckSlug(r)
          \/ CreateProblem(r) \/ UpdateProblem(r) \/ DeleteProblem(r)
          \/ ChangeLockStatus(r) \/ UpdateTestcaseVisibility(r)
          \/ ListTestData(r) \/ CorrectFlag(r)
          \/ DownloadArchive(r) \/ StoreInitYml(r) \/ RecordArchive(r) \/ FlagTestData(r)
          \/ StatementFails(r)

Spec == Init /\ [][Next]_vars

-------------------------------------------------------------------------------
\* An update is about to compare the flag with what is stored.
IsRechecked(p) == \E r \in Requests : found[r] = p /\ pc[r] \in {"listing", "correcting"}

(***************************************************************************)
(* hasTestData ("Whether this problem currently has test data uploaded to  *)
(* object storage") is true only of a problem with test data under its     *)
(* slug, through renames, uploads and new problems under old slugs, except *)
(* while updateProblem compares them, and where it is misled: the flag was *)
(* set for the URL of an archive, by a request during which the problem    *)
(* was renamed, or the comparison failed.                                  *)
(***************************************************************************)
FlagIsFounded ==
    \A p \in hasTestData : slug[p] \in stored \/ IsRechecked(p) \/ p \in misled

(***************************************************************************)
(* A toggle of the lock is lost only if it overlapped another one.         *)
(***************************************************************************)
TogglesCount == \A p \in Problems \ overlapped : p \in locked <=> p \in odd

\* Without that condition: every toggle that was answered with success counts.
EveryToggleCounts == \A p \in Problems : p \in locked <=> p \in odd

\* A step that answers a write for a problem that was found: to its row, to its
\* archives or to its objects in the storage.
Changes(r) ==
    /\ pc[r] \in {"writing", "correcting", "storing", "archiving", "flagging"}
    /\ kind[r] # "create"
    /\ pc'[r] \notin {pc[r], "error"}

(***************************************************************************)
(* What is done to a deleted problem, uploads and the correction of its    *)
(* flag included, is done by requests that were under way when it was      *)
(* deleted.  Likewise what an update (with that correction), a deletion    *)
(* or a change of visibility does to a locked one; finalize asks nothing   *)
(* of the lock, see TestDataAreLocked, nor does changeLockStatus.          *)
(***************************************************************************)
ChangesAreCurrent ==
    [][\A r \in Requests : Changes(r) =>
          /\ found[r] \in deleted => r \in removed
          /\ MindsLock(kind[r]) /\ found[r] \in locked => r \in toggled]_vars

(***************************************************************************)
(* "Modifications to this problem are restricted": that the test data of a *)
(* locked problem are left alone likewise, which finalize does not ensure. *)
(***************************************************************************)
TestDataAreLocked ==
    [][\A r \in Requests :
          pc[r] = "storing" /\ pc'[r] = "archiving" /\ found[r] \in locked => r \in toggled]_vars

\* "init.yml generated and stored": what a finalize that is done has achieved.
FinalizedIsStored ==
    \A r \in Requests : pc[r] = "done" /\ kind[r] = "finalize" => at[r] \in stored

(***************************************************************************)
(* Why these hold.  A request that found its problem keeps it; the slug it *)
(* asks the storage for is the problem's unless the problem was renamed    *)
(* since; the lock it read is the problem's unless it was toggled since.   *)
(* A flag without test data is on its way to be taken back by an update    *)
(* that nobody has renamed the problem after.                              *)
(***************************************************************************)
Located ==
    \A r \in Requests :
        /\ pc[r] # "idle" => at[r] \in Slugs
        /\ pc[r] # "idle" /\ kind[r] = "create" =>
              newSlug[r] \in Slugs /\ pc[r] \in {"checking", "writing", "done", "error"}
        /\ pc[r] \in {"idle", "finding"} \/ kind[r] = "create" => found[r] = NoProblem
        /\ pc[r] \in Steps \ {"finding"} /\ kind[r] # "create" => found[r] # NoProblem
        /\ pc[r] = "checking" => kind[r] \in {"create", "update"}
        /\ pc[r] \in {"listing", "correcting"} => kind[r] = "update"
        /\ pc[r] = "storing" => kind[r] = "finalize"
        /\ pc[r] = "downloading" => kind[r] = "archive"

LocksAreRead ==
    \A r \in Requests :
        /\ pc[r] = "writing" /\ kind[r] = "lock" /\ r \notin toggled =>
              (read[r] <=> found[r] \in locked)
        /\ pc[r] \in Steps \ {"finding"} /\ MindsLock(kind[r]) /\ found[r] \in locked =>
              r \in toggled
        /\ pc[r] \in Steps \ {"finding"} /\ found[r] \in deleted => r \in removed

SlugsAreRead ==
    \A r \in Requests :
        /\ \/ pc[r] \in {"listing", "correcting"}
           \/ pc[r] \in {"storing", "archiving", "flagging"} /\ kind[r] = "finalize"
           => r \in renamed \/ at[r] = slug[found[r]]
        /\ \/ pc[r] = "correcting" /\ read[r]
           \/ pc[r] \in {"archiving", "flagging"} /\ kind[r] = "finalize"
           => at[r] \in stored

TakesBack(r) ==
    /\ r \notin renamed
    /\ \/ pc[r] = "listing" /\ read[r]
       \/ pc[r] = "correcting" /\ ~read[r]

FlagInv ==
    \A p \in hasTestData :
        slug[p] \in stored \/ p \in misled \/ \E r \in Requests : found[r] = p /\ TakesBack(r)

EditingInv == TypeOK /\ Located /\ LocksAreRead /\ SlugsAreRead /\ FlagInv /\ TogglesCount

===============================================================================
