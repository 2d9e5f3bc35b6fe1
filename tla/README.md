# A verification development for yacps-server

yacps-server is the back end of a competitive-programming site: a NestJS process that
serves the site's HTTP API, keeps everything it knows in PostgreSQL (through Prisma), and
sends submissions to DMOJ judges that connect to it over TCP. This directory holds TLA+
models of its judging core, of the requests that feed it and of the accounts behind them, the
TLC instances that check them, and proofs of the theorems that hold for instances of every
size. Paths below are relative to `src/`, the repository;
`judge-api/...` and `client-api/...` are under `src/src/`.

Judging is where the program is hard. One JavaScript thread interleaves, at every `await`,
a scheduler that does not wait for its last run, the packets of several judges, timers and
database statements; some of its knowledge is in rows and survives a restart, some in
memory and does not. A test drives one of these at a time.

## 1. The system

### Components

| Component | State | Operations | Properties that make it correct | Model |
|---|---|---|---|---|
| Submission queue (`judge-api/submission-queue`) | rows of `SubmissionQueue`; `busyJudges`, `processingSubmissions`, `lastUsedJudgeIndex` in memory | `addToQueue`, `getNextSubmission`, `getNextAvailableJudge`, `assignToJudge`, `completeSubmission`, `failSubmission` | a judge has one submission, a submission one judge; nothing is lost; attempts are bounded; what is marked is released, but for named causes; everything is judged eventually; judges take turns | `SubmissionQueue`, `RoundRobin`, `JudgeRotation`; abstractly `Judging` |
| Judge manager, queue processor (`judge-api/judge-manager`) | the runs of `processQueue` in flight | `processQueue` every five seconds; the handlers that end a judging | as above | `SubmissionQueue` |
| Judge manager, results | rows of `SubmissionTestCase`; `currentBatchPerSubmission` | `handleBatchBegin`, `handleBatchEnd`, `handleTestCaseStatus`, `handleGradingEnd`, `mapDMOJStatusToVerdict` | the result is that of the cases the judge reported; cases stay in their batches; the two rankings of verdicts agree | `Grading`, `Verdict` |
| DMOJ bridge (`judge-api/dmoj-bridge`) | maps of connections, names, capabilities, ping intervals | accepting, handshake, close and error handlers, failure timer, pings, lookups by name | a live judge stays registered and is offered; its maps agree; pings end | `DMOJBridge`; what the queue sees of it, `JudgeLinks` |
| Packet framing (same file) | one buffer per connection | `handleData` | packets come out whole, in order and at once, however TCP cuts them | `PacketFraming`; abstractly `PacketChannel` |
| Message gateway (live updates) | rooms | joining, forwarding events | the last update shown is the state that is stored | in `SubmissionIntake`, the last event shown; rooms are left out |
| Submissions API (`client-api/submissions`) | rows of `Submission`, stored files | create, upload, queue; queries by permission | what was accepted is judged; a judge finds the file; refusals are current | `SubmissionIntake`, `ProblemAccess` |
| Problems API (`client-api/problems`) | rows of `Problem` | create, update, delete, lock, visibility; queries by permission | changes respect the lock and the deletion; toggles count; the same problems are listed, found and shown; a lock takes the same rights from everybody | `ProblemEditing`, `ProblemAccess` |
| Test cases API (same directory) | `init.yml` in storage, `hasTestData` | `finalize` with cases or with an archive's URL | every selected case is in `init.yml`, in its batch; the flag says what is stored | `InitYml`, `ProblemEditing` |
| Permissions (`client-api/auth`) | bit masks | has, add | an administrator has all; rights grow with permissions | `hasPerms` in `ProblemAccess` |
| Sessions and the guard (`client-api/sessions`, `client-api/auth`) | rows of `Session` | guard of every request, login, logout of one and of all others | what is over stays over; what a request does, its user may do | `Accounts` |
| Users (`client-api/users`) | rows of `User` | both registrations, queries | names and addresses are unique; a registration is answered truly | `Accounts` |
| Categories, types, ratings, contests, judge controller | rows | single statements or stubs | — | not modelled |
| Turnstile, argon2, S3, scripts, migrations | — | external calls, maintenance | — | not modelled |

`PROJECT.json` lists all of them with their files and what is left out of each.

### How they interact

    HTTP ── Submissions API ──addToQueue──► SubmissionQueue rows
                                                   │ findFirst
    scheduler (5 s) ──► processQueue ──────────────┤
                           │ getNextAvailableJudge │ assignToJudge (attempts + 1, verdict RN)
                           ▼                       │
                       DMOJ bridge ──submission-request──► judge
                           ▲                                 │
                           └── begin-grading, batch-begin, test-case-status, ..., grading-end
                           │
                      judge manager ──► test case rows, completeSubmission / failSubmission
                           └──► message gateway ──► browsers

The queue and the bridge share nothing but judge names: `processQueue` asks the bridge who
is connected, the queue remembers who is busy, and **nothing tells the queue that a
connection closed**. The judge manager awaits no handler of a judge's packet: each runs
when its packet arrives and stops at its own awaits. Every HTTP request but logins,
registrations and public queries passes the guard first, which reads the session and its
user once; what the handler does later relies on that answer.

Three interfaces are modules of their own. `JudgeLinks` is between queue and bridge: the
bridge implements it, and the queue's environment steps are among its steps, so what each
proves of itself holds of the two together. `PacketChannel` is what the packet handlers
assume of a connection and `PacketFraming` implements. `Judging` is what the queue promises
to everybody who has submitted something.

### What is hard

* *Overlap.* `@Cron` starts `processQueue` again while the last run waits for the
  database. What the second run reads was true before the first one wrote.
* *Stale answers.* `getNextSubmission` copies `processingSubmissions` into its query and
  the submission is added to it two statements later, in `assignToJudge`.
* *Partial failure.* `assignToJudge`, `completeSubmission` and `failSubmission` are
  several statements without a transaction.
* *Loss.* A judge's connection closes while it works; a judge reconnects before its old
  socket reports its close; the socket of a handshake closes during the handshake.
* *Restart.* `busyJudges` and `processingSubmissions` are forgotten, attempts are not.
* *Order.* Upserts of test cases are not awaited before the rows are read back; a
  submission is queued while parts of its creation are still to come.
* *Requests over one problem.* Each reads the row, decides, and writes by id; the lock is
  toggled from what was read, and the flag for test data from what was listed.
* *Find, then create.* A name is searched for by one statement and inserted by another, and
  the search leaves some users out.
* *A guard that was right.* A session may be ended, its user banned or its permission taken
  away while a request that passed the guard is still under way.
* *Bytes.* TCP cuts a frame anywhere, its four bytes of length included; a garbled packet
  comes in one piece with good ones.

Each is listed at its line under `hazards` in `PROJECT.json`, with the properties it
threatens.

## 2. The modules

An action is what the thread does between two awaits: *the database executes the statement
a task waits for, and the task continues up to its next `await`*. A statement nobody waits
for before doing something that matters is a record in a set (`writes`) or a sequence
(`upserts`) and lands later. Formatting, logging, source code and texts are left out.
Operators named after another with a suffix, and commented "mutated form of", are
plausible bugs; no specification uses them. They document what each property is
sensitive to.

### `SubmissionQueue` — the queue and its processor

| Model | Code |
|---|---|
| `entries`, `createdAt`, `attempts` | rows of `SubmissionQueue` |
| `verdict`, `ended` | `Submission.verdict`, `judgingEndedAt` |
| `busyJudges`, `processingSubmissions`, `lastUsedJudgeIndex` | fields of `SubmissionQueueService` |
| `run[r]` | one call of `processQueue`: idle, *querying* (`findFirst`), *found*, *assigning* (first update of `assignToJudge`), *marking* (second) |
| `handlers` | calls of `completeSubmission` and `failSubmission` that wait for a statement |
| `writes` | verdict updates issued by `addToQueue`, `handleBeginGrading` and `failSubmission` |
| `link`, `requests` | what the bridge and the judges look like from here: a judge is down, up, or a *ghost* (registered by a handshake whose socket had closed) |
| `faults` | how often a statement failed, a connection closed, the server restarted |

The search for the next submission is the statement whose answer grows stale, so it takes
three actions (`RunStarts`, `RunQueries`, `RunChooses`). `IsSelected` and `IndexAfter` come
from `RoundRobin`. `Restart` empties memory and keeps rows. `MaxAttempts` is the literal 3
of `getNextSubmission`, also the column's default.

### `Judging` — what the queue promises

A submission is unknown, queued or judged, and some judge works on it or none. `PhaseOf` and
`WorkerIn` in `SubmissionQueue` are the refinement mapping: the phase from the row and
`judgingEndedAt`, the worker from the requests that judges have. A row that goes without a
result has no phase in `Judging`, so losing one would be a step it does not have.

### `JudgeRotation` — who is selected

The same selection with only what it depends on, and as history how often each judge was
available and passed over. It says what "round-robin" is worth: `lastUsedJudgeIndex` is an
index into *whichever* list of free judges exists at that moment. It runs in `Tables`.

### `DMOJBridge` — connections

One connection is a socket, a handshake and the judge name it claims. `registry` holds the
maps of `DMOJBridgeService`, keyed by connection id or by name as there. A handshake waits
for the token's verification, the lookup, the update of `lastActive`, or, once failed, the
100 ms timer; the `close` and `error` events of its socket may come before, between or
after. `mappedAt` is the insertion order of `connectionIdToJudgeName`, because
`getConnectionIdForJudgeName` takes the first entry. A connection id is a uuid, hence never
used again.

### `JudgeLinks` — what the queue sees of the bridge

A judge's name is *down* (not listed), *up* (listed, and `submitToJudge` finds its
connection) or a *ghost* (listed, and it does not). `LinkOf` in `DMOJBridge` computes that
from the maps; the variable `link` of `SubmissionQueue` is it. A name is listed as one or the
other and stays so until it is listed no more.

### `PacketFraming` and `PacketChannel` — bytes and packets

One direction of one connection: `wire` holds the bytes written and not received, `buffer`
what the `data` handler kept. `Data(n)` is one call of it with the next `n` bytes, whatever
`n`: `Turn` is one turn of its loop, which cuts a frame off, and `Consume` all of them.
`Stream` is the bytes of a sequence of packets, `Parsed` those of them that are no garbage.
Lengths are written and read byte by byte, as `writeUInt32BE` and `readUInt32BE` do. Deflating
and JSON are one fact of a payload: whether it is `Garbled`.

### `Grading` and `Verdict` — results

`Verdict` holds the pure parts: flags to verdict, the loop over the cases (a recursive
function), the rounding of points. `Grading` follows one submission through its attempts:
the judge's packets in order, `currentBatch` (the entry of `currentBatchPerSubmission`),
the upserts, and `handleGradingEnd` with its two reads. Two choices are made once, in
`Init`: `numbering`, whether the judge's packets carry a batch number, and `inOrder`,
whether statements are executed in the order they are issued (a pool of one connection) or
not (any larger pool). `Result` uses `Worst`, the worst verdict of a set, for the loop; the
run `Tables` shows the two equal.

### `SubmissionIntake` — how a submission is created

One request makes at most one submission: `pc` is the statement or call its handler awaits
(`finding`, `creating`, `downloading`, `uploading`, `queueing` and `marking`, the two
statements of `addToQueue`), `answer` what the client is told. `rows`, `entries`, `verdict`,
`ended` and `stored` are the database and the object storage, `shown` the last event sent
to the submission's room. Judging races the rest of the creation and its own leftovers, and
has one action per await as well: `stage` is the statement or judge the submission waits for
(`assigning` the two statements of `assignToJudge`, `judging`, `finding` the query of
`failSubmission`, `completing` and `deleting` the two statements of `completeSubmission`;
`stuck` if one of them failed), `result` what completes it, `tells` whether the handler tells
browsers (`processQueue`, after a failed send, does not). `writes` are the updates of the
verdict that nothing waits for: the RN of `handleBeginGrading`, and the QU of a retry, which
`failSubmission` issues *after* it let go of the submission, so that the next attempt may begin
and end before it. `unsettled` is history: the results written while another write of the
verdict was under way, and those whose row in the queue stayed.

### `ProblemEditing` — requests over problems

The same shape for the handlers of `ProblemsController` and `TestcasesController`: `found` is
the problem a request holds by id, `at` the slug it asks the storage for, `read` the value it
read and will write back changed. A problem's `slug`, its membership in `locked`, `deleted` and
`hasTestData`, and `stored` (slugs with objects under `tests/{slug}/`) are the state. Whether a
handler asks for the lock is `MindsLock`: updates, deletions and changes of visibility do,
`finalize` and `changeLockStatus` do not. The history records what overlapped, so that
properties can say *only if*. Authors' tools upload
test data to the storage without asking the server (`UploadTestData`, external).

### `Accounts` — registrations, sessions and the guard

`request[r]` is a slot for requests that are under way: its `pc` is the statement it waits
for, in `AuthGuard` (twice for `forceCreateUser`, on which the guard is declared twice), in a
registration, a login, a logout or a handler that only reads. The rows of users and sessions
are sets of ids with functions. `late` marks a request whose session was over when it came,
`overtaken` one whose findings were changed since by somebody else; both are history.
Administrators (who have no code here: a ban, a deletion, a permission) and time (expiry)
change rows at any moment.

### `ProblemAccess` and `InitYml` — decisions and the test case list

`ProblemAccess` holds the predicates by which services and controllers admit a user, one
operator per place that decides, refusals of locked problems included: four of them answer who
sees a problem, two who edits its test data. `InitYml` is
`finalize`'s loop over the submitted entries as a recursive function over a state of two
lists, the open batch and a sum; `Contents` says what the list it builds holds. Both are pure
and are checked by `Tables`.

## 3. What the runs check

| Run | Instance | Distinct states | Question |
|---|---|---|---|
| `QueueOverlap` | 1 submission, 2 judges, 2 runs, each fault once | 878 000 | Do overlapping runs and faults break exclusiveness of judges, lose a submission, exceed the attempts, leave anything marked but by the causes named? |
| `QueueSerial` | 2 submissions, 2 judges, 1 run, a restart | 1 681 000 | Without overlap: does the queue implement `Judging`, does a completion free its judge, is the last attempt ended? |
| `QueueLiveness` | 2 submissions, 1 judge, 1 run, no faults, fair | 145 000 | Is every queued submission judged? |
| `BridgeRegistry` | 3 connections of 1 name, 1 failing statement, fair | 232 000 | Do the maps agree with each other and with the live connections; does the bridge implement `JudgeLinks`; do pings end? |
| `Tables` | all flag sets, lists of up to 4 verdicts, scores up to 30, lists of up to 4 entries with every selection, all users and problems; 4 judges that take turns | 509 000 | Do the tables agree, is rounding monotone; does `init.yml` keep the cases; do the places that decide access agree; when is the round-robin fair? |
| `GradingAttempts` | 1 or 2 cases at each of 2 attempts, 1 failed upsert, 1 restart | 1 471 000 | Is the stored result the one of the reported cases; do batches stay apart? |
| `Intake` | 1 submission, 2 attempts, 2 failed statements, 1 restart | 3 653 000 | Is an accepted submission kept, its file in time, a refusal current, a result undone? |
| `Editing` | 3 requests, 2 problems, 2 slugs, 1 failure | 701 000 | Does the flag say what is stored; do toggles count; is the lock respected? |
| `Framing` | 4 packets of 4 payloads, 1 of them garbled, fair | 15 000 | Is the framing an in-order channel, whatever TCP does; is a packet handled by the call that completes it? |
| `Accounts` | 2 requests at a time, 2 users, 2 sessions, 3 names, 2 addresses, 2 changes, 1 failed statement | 1 955 000 | Do ended sessions stay ended; is access current; are registrations answered truly? |

*Properties.* Queue. `ClaimInv`: of a run that selected a judge, a request it works on and a
handler that will free it, at most one exists, and then the judge is busy. `NoSubmissionLost`:
a row that was created is there or the submission has `judgingEndedAt`. `AttemptsBounded`: the
limit is overshot by at most the overlap. `SerialInv`: without overlap the claims on
submissions are exclusive too, and claimed submissions are in `processingSubmissions`.
`JudgingIsImplemented`: without overlap every step of queue, processor, handlers and judges is
one of `Judging`'s or invisible to it. `StuckForACause`: a busy judge is left with nobody in charge
only by a step in which its connection closes or its handler throws, and a submission marked as
processing by these and by a failing second statement of `assignToJudge`; everything else, a
send that finds no connection and an overlapping attempt whose row is gone included, gives back
what it marked. Each of the causes is necessary: without one of them TLC finds it.
`CompletionFreesJudge`, `ExhaustedIsInChargeWithoutFaults`: a completion finds its row and frees
its judge; as long as nothing fails no row is out of attempts without somebody in charge. `EveryEntryIsJudged`: every queued
submission is judged or marked as failed. `RotationIsFair`: with n connected judges nobody is
passed over n times, *if* each is free again before the next selection, or n is at most 2.

Bridge. `RegistryAgrees`: a listed name can be resolved to a connection id and a database id,
and every interval that fires can be found, although a close removes what another
connection's handshake wrote. `LiveStaysRegistered`, `LiveAloneIsOffered`: no event of another
connection takes a live judge's entries, and a judge whose name nobody else claims is offered.
`LinksAreImplemented`; `PingingStops`: every interval of a closed connection ends.
`ChannelIsImplemented`, `HandledOnArrival`, `EverythingArrives`: the packets that can be parsed
come out in order and once; none waits in the buffer for the bytes of another; all are handled
unless the connection ends.

Results. `RowsExplainFinal`: with statements in order, the verdict and points are those of the
rows, whatever upserts failed; and if none failed, every case that the completing attempt
reported has the row it was reported with, whatever rows, more or fewer, an earlier attempt
left. (Rows of cases that the last attempt did not have stay, and count.) `BatchesAreKept`: two
batched cases share a number exactly if they were reported in the same batch; a case in no
batch has no number in a first attempt, and in a later one (a batch that was left open is active
still) never that of a batch, as long as the server counts them. `VerdictsAgree`, `PointsAgree`: flags and verdicts are
ranked alike; points grow with the score, and full points mean a full score unless there are
2000 case points for every point of the problem: then the rounding reaches them earlier.

Intake. `NothingStranded`: a submission whose creation was answered with success is queued or
judged, whatever fails; and without a failing statement or a restart no row is left in QU
unqueued, in particular not by a file that cannot be fetched or stored. `FilePrecedesJudging`,
`RefusalsAreCurrent`: the file is stored (or known to be lost) before a judge can ask for it;
code for a locked or deleted problem is accepted only if it became so during the request.
`ResultsStand`: a result that is not `unsettled` stands, its row in the queue goes, and it is
what was shown last if its handler tells of results. What unsettles a result is a write of the
verdict under way when it is written (the QU of `addToQueue`, the RN of begin-grading, the QU of
a retry), or a deletion of its row that failed or was cut off; no earlier attempt, failed
statement or restart before it does.

Problems. `FlagIsFounded`: `hasTestData` is true only where test data are stored, except while
an update compares the two or after one of three things named in its comment. `TogglesCount`,
`ChangesAreCurrent`: a toggle of the lock is lost only if it overlaps another; a deleted problem
is changed (its row, its flag, its archives, its test data) only by requests that were under way
when it was deleted, a locked one updated, its flag corrected, deleted or shown to others only by
such requests (`finalize` asks nothing of the lock and is not meant: `TestDataAreLocked`). `EntriesAreKept`: every selected case is in `test_cases` once and in
order, no batch is empty, and a submission can earn points unless a batch was started twice.
`AccessAgrees`: a problem is listed, found and shown to the same users; both controllers let
the same users edit test data, but for locked problems, which only one refuses; who edits them
sees them; no permission, role or login takes an ability away, and an administrator has all of
them on a problem neither deleted nor locked; a lock takes modifying, deleting and changing the
visibility from everybody, and nothing else.

Accounts. `TypeOK` says that no two users share a name or an address. `EndedStaysEnded`: a
request whose session the server had ended before it came never passes the guard.
`AccessIsCurrent`: what happens behind the guard happens with a valid session of an active user
with the permission, unless that was changed after the guard had asked.
`RegistrationsAreAnsweredTruly`: an account said to be created is the only one with its name
and address; a taken one is an `UNKNOWN_ERROR` only if it was taken after the search, or the
search leaves its owner out.

*Bounds.* `MaxFaults`, `MaxDbFailures` and `MaxRestarts` cap faults; `MaxAttempts` is the
code's own in the queue, 2 in `GradingAttempts` and `Intake` (enough for what an earlier attempt
leaves behind, and for one that is the last); `MaxFailures` caps failing statements and storage calls together; `TooOften` stops the
counting of the rotation's history; `Connections` cap the connections made. Every conflict in
the queue is between two tasks over one judge or one submission, so two of each produce all of
them, and the theorems of section 5 remove the bound for the safety properties that matter.
Three connections of one name are needed for a live judge, an old socket and a third
connection in whose shadow they meet. Submissions of `Intake` share the problem and the count of
faults, nothing else: one, of any kind, shows what any of them can do. Two cases suffice for a batch to have an inside, an
outside and an end. `Interchangeable` is a symmetry of submissions and runs (of connections
and names, requests, problems and slugs in other modules); judges are ordered by name and
are not interchangeable. Three requests over a problem are a rename, an upload that it
overtakes and an update that compares; two problems let one take the slug the other gave up.
`MaxEntries` of four fits a batch's start, a case and an end with one more entry before,
between or after; `EntryPoints` are none (zero) and some. `MaxSent` of four packets lets a
garbled one stand between others and a header be cut in the middle of three; the payloads
include one that reads as a header and an empty one. In `Accounts`, two requests are a
registration and the one that overtakes it (or a request and the logout that ends its
session), and `MaxChanges` of two a ban and its end. A third name is needed: only then can an
address be taken by a user of another name while the name that was asked for is free. Ids of
users and sessions are used up.

*Deadlock* is checked for the queue and the intake, which never stop. The bridge stops when
all `Connections` are used up, grading when the submission left the queue, editing when every
request is answered, a connection in `Framing` when it is closed, `Accounts` when ids, changes
and failures are used up, and `Tables` asks one question per behaviour: those runs do not check
it.

*Fairness.* In the queue: the scheduler fires for ever and a run's statements are answered
(`RunSteps`), handlers' statements are answered, a judge that exists connects and finishes
what it is sent. The first two are what NestJS's scheduler and Prisma's promises provide,
the last two are the operators' part; without them nothing is ever judged. In the bridge:
promises settle, timers and intervals fire, a socket that broke reports its close. In the
framing: TCP delivers what was written while the connection is open. Nothing is assumed to be
strongly fair.

## 4. What the code does otherwise

Two runs expect a violation; each shows behaviour that a comment in the code rules out
(quoted under `findings`).

* `OverlapDuplicates`: two overlapping runs find the same submission, because it enters
  `processingSubmissions` two statements after the query that excludes it, and send it to
  two judges. "to avoid duplicate processing" holds of runs that do not overlap (proved).
* `DropLeaksJudge`: a judge whose connection closes while it works stays in `busyJudges`
  until the server restarts, and is never selected again.

Properties stated in the modules and true of less than one would like, without a run of
their own; adding the name to the given configuration shows the behaviour:

| Property | Fails with | Because |
|---|---|---|
| `AttemptsWithinMax` | `QueueOverlap` | two runs pass `attempts < 3` before either counts |
| `ExhaustedIsInCharge` | `QueueSerial` | a restart during the third attempt leaves a row, with verdict RN, that no query finds again; only `failSubmission` would have marked it |
| `ProcessingMeansWorking` | `QueueOverlap` | the second statement of `assignToJudge` fails: the judge is given back, the submission stays in `processingSubmissions` until the server restarts (and so after each cause of `StuckForACause`) |
| `FinalReflectsReports` | `GradingAttempts` | `handleGradingEnd` may read the rows before the last upsert was executed |
| `CompletionFreesJudge` | `QueueOverlap` | the second completion's delete finds no row, throws, and leaves its judge busy |
| `RunningMeansQueued` | `QueueSerial` | the RN of begin-grading may be executed after the final verdict |
| `LiveIsListed` | `BridgeRegistry` | a judge reconnects before the close of its old socket is reported; that close removes the name from `connectedJudgeNames`, and the judge is offered to nobody |
| `OfferedMeansGreeted` | `BridgeRegistry` | `handleHandshake` lists the name, awaits the update of `lastActive`, and only then answers: a submission may be sent before handshake-success |
| `ListedMeansOpen`, `CapabilitiesMeanConnected` | `BridgeRegistry` | the socket closes during the handshake, which then registers the judge |
| `BatchNumberMeansBatch` | `GradingAttempts` | a batch left by an internal error is active in the next attempt; if the judge numbers its batches it may reach that number, and a case of no batch shares one |
| `NobodyIsStarved` | `Tables` | with three judges whose work overlaps, the index can skip one for ever |
| `NothingEverStranded` | `Intake` | a request that fails or is cut off before `addToQueue` leaves a row in QU that nothing queues |
| `ShownErrorIsFinal` | `Intake` | `handleInternalError` sends ISE although `failSubmission` put the submission back to QU ("either retry or mark as ISE") |
| `ErrorMeansNotQueued` | `Intake` | the second statement of `addToQueue` fails: the client is told of an error and the submission is judged |
| `ResultsAlwaysStand` | `Intake` | a judge may end a submission before the second statement of `addToQueue` says QU, before the RN of begin-grading is executed, or, in a next attempt, before the QU of the last one's `failSubmission` is |
| `EndedIsNotJudgedAgain` | `Intake` | the result is written, and a restart comes before the row is deleted: it is found again |
| `ResultsAreTold` | `Intake` | the send of the last attempt fails: `processQueue` has the submission marked ISE and tells nobody |
| `EveryToggleCounts` | `Editing` | two toggles write the negation of the same value |
| `TestDataAreLocked` | `Editing` | `finalize` does not ask whether the problem is locked ("Modifications to this problem are restricted") |
| `FinalizedIsStored` | `Editing` | a failed upload is logged and "init.yml generated and stored" answered |
| `TakenIsAnswered` | `Accounts` | a name taken between the search and the insertion, or the address of a user the search leaves out, violates a unique constraint: `UNKNOWN_ERROR` instead of `USERNAME_UNAVAILABLE` or `EMAIL_IN_USE` |
| `LogoutIsNoError` | `Accounts` | two logouts of one session: the second finds no row, and its `SESSION_NOT_FOUND` is caught and becomes an `UNKNOWN_ERROR` |
| `EntriesAlwaysEarn` | `Tables` | a batch started twice is dropped without `EMPTY_BATCH_NOT_ALLOWED`, its points counted |

`SentOnlyWhileQueued` (a submission that left the queue is not sent again) holds without
overlap, is proved, and has no run of its own because `JudgingIsImplemented` implies it.

## 5. What is proved

With TLAPS, for sets of any size (finite where the assumption says so) and any numbers of
faults, from the assumption each module states of its constants:

| Module | Theorems | From |
|---|---|---|
| `SubmissionQueueProofs` | `TypeCorrect`; `ClaimsHold`, `JudgesAreExclusive` (`ClaimInv`, hence a judge never works on two submissions); `NothingIsLost` (`NoSubmissionLost`); `AttemptsAreBounded` (`AttemptsBounded`); `NothingSticksWithoutCause` (`StuckForACause`); `ExhaustedAreInCharge` (`ExhaustedIsInChargeWithoutFaults`); with at most one run (`SerialRuns`) `SerialClaimsHold`, `SubmissionsAreExclusive`, `SentSubmissionsAreQueued`, `ClaimedHaveRows`, `CompletionsFreeJudges` (`CompletionFreesJudge`), `QueueImplementsJudging` (`JudgingIsImplemented`); `QueueUsesLinks`: whatever the queue assumes of connections, `JudgeLinks` allows | `QueueAssumption` |
| `DMOJBridgeProofs` | `TypeCorrect`; `MapsAgree` (`RegistryAgrees`); `LiveJudgesStayRegistered`; `LiveJudgesAloneAreOffered`; `BridgeImplementsLinks` (`LinksAreImplemented`) | `BridgeAssumption` |
| `GradingProofs` | `TypeCorrect`; `BatchesStayApart` (`BatchesAreKept`); `ResultsAreExplained` (`RowsExplainFinal`) | `GradingAssumption` |
| `SubmissionIntakeProofs` | `TypeCorrect`; `AcceptedAreKept` (`NothingStranded`); `FilesPrecedeJudging`; `RefusalsAreTimely`; `ResultsAreKept` (`ResultsStand`) | `IntakeAssumption` |
| `ProblemEditingProofs` | `TypeCorrect`; `FlagsAreFounded`; `LocksAreToggled` (`TogglesCount`); `ChangesAreTimely` | `EditingAssumption` |
| `AccountsProofs` | `TypeCorrect`; `EndedSessionsStayEnded`; `AccessIsTimely`; `RegistrationsAreTrue` | `AccountsAssumption` |
| `FramingProofs` | `FramingInvHolds`; `TheChannelIsImplemented` (`ChannelIsImplemented`); `PacketsAreHandledOnArrival` (`HandledOnArrival`) | `FramingAssumption`; `HeaderAssumption`: the length of every payload fits the header (otherwise `writeUInt32BE` throws and nothing is sent) |
| `TablesProofs` | `RotationInvHolds`; `TheRotationIsFair`; `TheVerdictsAgree`; `ThePointsAgree`; `TheEntriesAreKept`; `TheAccessAgrees`: for lists, totals and points of any size and any finite number of judges | `RotationAssumption`, `TablesAssumption` |

*Inductive invariants.* In the queue, `JudgeExclusive` alone says nothing of a run that has
selected a judge and not sent to it yet, nor of a handler that is about to free it; `ClaimInv`
counts all three as claims and adds that a claimed judge is in `busyJudges`, which is what
keeps `RunChooses` from selecting it. `NoSubmissionLost` needs that a delete follows its
verdict (`DeletesFollowVerdicts`). `AttemptsBounded` is the visible part of `AttemptInv`:
attempts plus the runs that have passed the guard and not counted yet. `SerialInv` is the
analogue of `ClaimInv` for submissions and needs, of a run between its query and its update,
that what it excluded covers `processingSubmissions` still and what it found is in nobody's
hands; the first is false as soon as a second run can mark a submission, and
`SubmissionExclusive` with it. `CompletionFreesJudge` needs `ClaimedAreQueued`: without overlap
nobody has a claim on a submission whose row is gone, so no completion meets a deleted row,
throws, and leaves its judge marked. `StuckForACause` is about steps and follows from `ClaimInv`:
of what a step lets go it must have cleared the marks, unless another claim is left. `ExhaustedIsInChargeWithoutFaults` needs that attempts are
counted only while a row exists and that a row is new when it is queued
(`AttemptsFollowQueueing`). The refinement of `Judging` adds that a row belongs to a
submission that was created and that requests are for rows.

In the bridge, `BridgeInv` needs what no handler says: a connection's handshake writes its
entry once and under the name it claims (`OneHandshake`), after all entries before it
(`RanksGrow`, which makes the first entry for a name the oldest), and an accepted judge keeps
what was registered for it (`AcceptedKeepsPlace`). The two theorems `BridgeImplementsLinks` and
`QueueUsesLinks` together are the composition of queue and bridge.

In the grading, `GradingInv`. Batches stay apart because what the server has counted and what
the judge has begun differ by the batches of earlier attempts, the same number for every case
of an attempt (`BatchesCount`); a case of no batch has the number that was left open before the
first one, which is below theirs (`OutsidersCount`); the numbers stay in bounds because every
batch has a case (`JudgeCounts`). The rows explain the result because each case the judge has reported is either
settled, or its last upsert under way will settle it (`RowsSettle`), whatever the number of
cases was before; with statements in order
the read of `handleGradingEnd` comes after all of them. `Result` is left unexpanded: the proof
holds whatever is made of the rows.

In the intake, `IntakeInv`: a submission is queued once, after its row and its file
(`QueuedOnce`, `FileInv`), what the check found holds or was changed during the request
(`CheckedInv`), and for a result that is settled nothing is under way (`SettledInv`). In editing, `EditingInv`: which step a request of each kind can be at and what it
holds there (`Located`), that what it read of the lock, the deletion or the slug is still so or somebody overtook it, at
whichever of its steps (`LocksAreRead`, `SlugsAreRead`), and that a flag without data is about to be taken
back (`FlagInv`). In the accounts, `AccountsInv`: a session is created once and is gone once it is
over (`SessionsEndOnce`), a request keeps the session it came with (`KeepsSession`), and what it
found holds until it is overtaken (`FoundHolds`, `FreeHolds`). Each of these invariants was
checked by TLC on the instance of its run before it was proved. The proof of the last showed
what its run had missed: with two names, whoever takes an address has taken the name too, and
the condition on deleted users' addresses was never tried; hence the third name.

In the rotation, `RotationInv`. While every judge is free again before the next selection, how
often a judge was passed over and the turns until it is selected (`TurnsUntil`) stay below the
number of judges together (`InTurn`); with two judges whose work overlaps, the one that was
passed over is free and next (`NextOfTwo`). Of three whose work overlaps neither is true, nor
claimed.

In the framing, `FramingInv`: between two calls the handler stands between two frames. There is
a `k` such that the packets of the first `k` frames are handled, and buffer and wire together
hold the frames after them, the buffer no whole one. That the loop of a call has ended is part
of the proof: every frame has bytes.

*Induction.* The prover cannot instantiate a theorem about an arbitrary predicate, so induction
is stated about sets: a set of numbers has a least element (`Least`), and one that holds 0 and
`n + 1` with `n` holds all (`UpFromZero`). A recursive function of the model is a `CHOOSE`;
`LoopsExist` shows that there is a function to choose and `LoopsAreUnique` that the turns
determine it. So `Turn`, `Parsed` and `Stream` (in the framing) and the loops over verdicts and
entries are reasoned about by their turns. For `init.yml` the invariant of the loop is
`Explained`: the cases met so far are those in the list and in the open batch, in order; the
sum is at most what the list and the open batch can earn, unless a batch was started twice
(`StartsTwice`); and if the open batch is empty, all that came since its start were starts.

Each proof has one step per action; what a step does to the requests that do not take it is a
lemma of its own.

*Only model-checked*: liveness under fairness (`EveryEntryIsJudged`, `PingingStops`,
`EverythingArrives`), which TLAPS does not reach. Every other property of a passing run is
stated by a theorem. The mutated forms and the properties of section 4 that do not hold are
for TLC alone.

## 6. Not modelled

The database is one that executes each statement atomically and durably; isolation between
statements does not arise as the code uses no transactions here. Judges are modelled from
how the code treats their packets: one handshake per connection, packets in order, one
ending per request. Time is not modelled: timers fire at any moment, which includes the
right one. `disconnectJudge`, `disconnectAll` and the tallies of time and memory are left
out. Events that the bridge emits and nobody listens to (`submission.terminated`,
`submission.compile-message`, `judge.supported-problems`) change nothing; of
`submission.acknowledged` the judge manager makes an update for browsers without a verdict, which
`shown` leaves out. Points are numbers with a fraction in the schema and natural numbers here.
In `Accounts` no client sends a token with a login or a registration; if one does, the guard
checks it there too. A query that fails is answered by the framework's own error in some
handlers and by `UNKNOWN_ERROR` in others: here both are one answer. Of the message gateway, rooms and who joins them are left out, and of the judge
websocket guard all: it guards one message whose handler only logs. Captchas, passwords,
throttling and the signing of tokens are pure or external. The sums of points and the lists of
users, categories, types, ratings, contests and judges are queries or single statements without
state of their own. `addPerms` and the other scripts are run by hand.

## 7. Plan

Done: `RoundRobin`, `SubmissionQueue`, `Judging`, `JudgeRotation`, `DMOJBridge`, `JudgeLinks`,
`PacketFraming`, `PacketChannel`, `Verdict`, `Grading`, `SubmissionIntake`, `ProblemEditing`,
`Accounts`, `ProblemAccess`, `InitYml`, and the proofs of section 5. Left:

* The gateway's rooms: who joins one and sees which update.
