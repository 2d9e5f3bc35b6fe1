------------------------- MODULE ProblemEditingProofs --------------------------
(***************************************************************************)
(* Theorems about ProblemEditing, for any requests, problems, slugs and    *)
(* numbers of failures.                                                    *)
(***************************************************************************)
EXTENDS ProblemEditing, TLAPS

-------------------------------------------------------------------------------
(* The invariant, part by part. *)

LEMMA FirstStepOf ==
    ASSUME NEW k, NEW s, NEW n
    PROVE  /\ FirstStep(k, s, n) \in {"checking", "storing", "downloading", "writing"}
           /\ FirstStep(k, s, n) = "checking" => k = "update"
           /\ FirstStep(k, s, n) = "storing" => k = "finalize"
           /\ FirstStep(k, s, n) = "downloading" => k = "archive"
  BY DEF FirstStep

\* What is read of a row replaces what was read before.
LEMMA Found ==
    ASSUME TypeOK, NEW r \in Requests, NEW p, Finds(r, p)
    PROVE  found'[r] = p /\ (read'[r] <=> p \in locked)
  <1>1. found \in [Requests -> Problems \cup {NoProblem}] /\ read \in [Requests -> BOOLEAN]
    BY DEF TypeOK
  <1>2. found' = [found EXCEPT ![r] = p] /\ read' = [read EXCEPT ![r] = p \in locked]
    BY DEF Finds
  <1>3. read'[r] = (p \in locked)
    BY <1>1, <1>2
  <1> QED
    BY <1>1, <1>2, <1>3

LEMMA Updated ==
    ASSUME TypeOK, NEW r \in Requests, NEW s, UpdatesRow(r, s)
    PROVE  (read'[r] <=> found[r] \in hasTestData)
           /\ \A q \in Requests \ {r} : read'[q] = read[q]
  <1>1. read \in [Requests -> BOOLEAN]
    BY DEF TypeOK
  <1>2. read' = [read EXCEPT ![r] = found[r] \in hasTestData]
    BY DEF UpdatesRow
  <1>3. read'[r] = (found[r] \in hasTestData)
    BY <1>1, <1>2
  <1> QED
    BY <1>1, <1>2, <1>3

\* What was listed replaces what was read.
LEMMA Listed ==
    ASSUME TypeOK, NEW r \in Requests, ListTestData(r)
    PROVE  /\ read' \in [Requests -> BOOLEAN] /\ \A q \in Requests \ {r} : read'[q] = read[q]
           /\ pc'[r] \in {"done", "correcting"} /\ \A q \in Requests \ {r} : pc'[q] = pc[q]
           /\ pc'[r] = "correcting" => (read'[r] <=> ~read[r]) /\ (read'[r] <=> at[r] \in stored)
           /\ pc'[r] = "correcting" => UNCHANGED misled
           /\ pc'[r] = "done" =>
                 \/ UNCHANGED misled /\ (read[r] <=> at[r] \in stored)
                 \/ misled' = misled \cup {found[r]}
  <1> USE DEF TypeOK, Goes, Fails
  <1>1. pc \in [Requests -> Steps \cup {"idle", "done", "error"}] /\ read \in [Requests -> BOOLEAN]
    BY DEF TypeOK
  <1>2. CASE Goes(r, "done") /\ UNCHANGED read
    <2>1. pc'[r] = "done" /\ \A q \in Requests \ {r} : pc'[q] = pc[q]
      BY <1>1, <1>2
    <2> QED
      BY <1>1, <1>2, <2>1 DEF ListTestData
  <1>3. CASE /\ Goes(r, "correcting") /\ read' = [read EXCEPT ![r] = ~@] /\ UNCHANGED misled
             /\ (at[r] \in stored) # read[r]
    <2>1. pc'[r] = "correcting" /\ \A q \in Requests \ {r} : pc'[q] = pc[q]
      BY <1>1, <1>3
    <2>2. read'[r] = ~read[r] /\ \A q \in Requests \ {r} : read'[q] = read[q]
      BY <1>1, <1>3
    <2>3. read' \in [Requests -> BOOLEAN]
      BY <1>1, <1>3
    <2>4. (read[r] = TRUE \/ read[r] = FALSE) /\ (at[r] \in stored \/ at[r] \notin stored)
      BY <1>1
    <2>5. read'[r] <=> ~read[r]
      BY <2>2
    <2>6. read'[r] <=> at[r] \in stored
      <3>1. CASE read[r] = TRUE
        BY <1>3, <2>5, <3>1
      <3>2. CASE read[r] = FALSE
        BY <1>3, <2>5, <3>2
      <3> QED
        BY <2>4, <3>1, <3>2
    <2> QED
      BY <1>3, <2>1, <2>2, <2>3, <2>5, <2>6
  <1> QED
    BY <1>2, <1>3 DEF ListTestData

\* Every variable keeps its type, slugs stay unique and rows stay.
LEMMA TypeOKNext ==
    ASSUME TypeOK, Located, EditingAssumption, [Next]_vars
    PROVE  TypeOK'
  <1> USE DEF rows, requests, history, Steps, Goes, Fails, OthersAt, Kinds, TypeOK, Located
  <1>1. CASE UploadTestData
    BY <1>1 DEF UploadTestData
  <1>2. ASSUME NEW r \in Requests, ReceiveRequest(r) PROVE TypeOK'
    BY <1>2 DEF ReceiveRequest
  <1>3. ASSUME NEW r \in Requests, FindProblem(r) PROVE TypeOK'
    <2>1. CASE Goes(r, "error") /\ UNCHANGED <<found, read>>
      BY <1>3, <2>1 DEF FindProblem
    <2>2. ASSUME NEW p \in Problems \ deleted, slug[p] = at[r], Finds(r, p) PROVE TypeOK'
      <3>1. at[r] # NoSlug
        BY <1>3, EditingAssumption DEF FindProblem
      <3>2. read' \in [Requests -> BOOLEAN]
        BY <2>2 DEF Finds
      <3>3. pc' \in [Requests -> Steps \cup {"idle", "done", "error"}]
        BY <2>2, FirstStepOf DEF Finds
      <3>4. /\ found' \in [Requests -> Problems \cup {NoProblem}]
            /\ \A q \in Requests : found'[q] # NoProblem => slug[found'[q]] # NoSlug
        BY <2>2, <3>1 DEF Finds
      <3> QED
        BY <1>3, <3>2, <3>3, <3>4 DEF FindProblem
    <2> QED
      BY <1>3, <2>1, <2>2 DEF FindProblem
  <1>4. ASSUME NEW r \in Requests, CheckSlug(r) PROVE TypeOK'
    BY <1>4 DEF CheckSlug, IsTaken
  <1>5. ASSUME NEW r \in Requests, CreateProblem(r) PROVE TypeOK'
    BY <1>5 DEF CreateProblem, IsTaken
  <1>6. ASSUME NEW r \in Requests, UpdateProblem(r) PROVE TypeOK'
    <2>1. CASE Goes(r, "error") /\ UNCHANGED <<slug, read, renamed, at>>
      BY <1>6, <2>1 DEF UpdateProblem
    <2>2. CASE /\ ~IsTaken(SlugAfter(r), found[r]) /\ UpdatesRow(r, SlugAfter(r))
               /\ at' = [at EXCEPT ![r] = SlugAfter(r)]
      <3>1. found[r] \in Problems /\ slug[found[r]] # NoSlug
        BY <1>6 DEF UpdateProblem
      <3>2. SlugAfter(r) \in Slugs
        BY <3>1 DEF SlugAfter
      <3>3. slug' \in [Problems -> Slugs \cup {NoSlug}]
        BY <2>2, <3>2 DEF UpdatesRow
      <3>4. /\ slug'[found[r]] = SlugAfter(r)
            /\ \A p \in Problems \ {found[r]} : slug'[p] = slug[p] /\ slug'[p] # SlugAfter(r)
        BY <2>2, <3>1 DEF UpdatesRow, IsTaken
      <3>5. /\ \A p, q \in Problems : slug'[p] = slug'[q] => p = q \/ slug'[p] = NoSlug
            /\ \A p \in Problems : slug[p] # NoSlug => slug'[p] # NoSlug
        BY <3>1, <3>2, <3>4, EditingAssumption
      <3>6. /\ pc' \in [Requests -> Steps \cup {"idle", "done", "error"}]
            /\ read' \in [Requests -> BOOLEAN] /\ renamed' \subseteq Requests
            /\ at' \in [Requests -> Slugs \cup {NoSlug}]
        BY <2>2, <3>2 DEF UpdatesRow
      <3>7. UNCHANGED <<locked, deleted, hasTestData, stored, kind, newSlug, found,
                        toggled, removed, odd, overlapped, misled, failures>>
        BY <1>6 DEF UpdateProblem
      <3> QED
        BY <3>3, <3>5, <3>6, <3>7
    <2> QED
      BY <1>6, <2>1, <2>2 DEF UpdateProblem
  <1>7. ASSUME NEW r \in Requests, DeleteProblem(r) PROVE TypeOK'
    BY <1>7 DEF DeleteProblem
  <1>8. ASSUME NEW r \in Requests, ChangeLockStatus(r) PROVE TypeOK'
    BY <1>8 DEF ChangeLockStatus, ChangesLock, Toggled
  <1>9. ASSUME NEW r \in Requests, UpdateTestcaseVisibility(r) PROVE TypeOK'
    BY <1>9 DEF UpdateTestcaseVisibility
  <1>10. ASSUME NEW r \in Requests, ListTestData(r) PROVE TypeOK'
    <2>1. read' \in [Requests -> BOOLEAN] /\ pc' \in [Requests -> Steps \cup {"idle", "done", "error"}]
      BY <1>10, Listed DEF ListTestData
    <2>2. misled' \subseteq Problems /\ failures' \in 0..MaxFailures
      BY <1>10, EditingAssumption DEF ListTestData
    <2> QED
      BY <1>10, <2>1, <2>2 DEF ListTestData
  <1>11. ASSUME NEW r \in Requests, CorrectFlag(r) PROVE TypeOK'
    BY <1>11 DEF CorrectFlag, Founds
  <1>12. ASSUME NEW r \in Requests, DownloadArchive(r) PROVE TypeOK'
    BY <1>12 DEF DownloadArchive
  <1>13. ASSUME NEW r \in Requests, StoreInitYml(r) PROVE TypeOK'
    BY <1>13 DEF StoreInitYml
  <1>14. ASSUME NEW r \in Requests, RecordArchive(r) PROVE TypeOK'
    BY <1>14 DEF RecordArchive
  <1>15. ASSUME NEW r \in Requests, FlagTestData(r) PROVE TypeOK'
    BY <1>15 DEF FlagTestData, Founds
  <1>16. ASSUME NEW r \in Requests, StatementFails(r) PROVE TypeOK'
    BY <1>16 DEF StatementFails
  <1>17. CASE UNCHANGED vars
    BY <1>17 DEF vars
  <1> QED
    BY <1>1, <1>2, <1>3, <1>4, <1>5, <1>6, <1>7, <1>8, <1>9, <1>10, <1>11, <1>12, <1>13, <1>14, <1>15, <1>16, <1>17 DEF Next

\* A request keeps the problem it found.
LEMMA LocatedNext ==
    ASSUME TypeOK, Located, EditingAssumption, [Next]_vars
    PROVE  Located'
  <1> USE DEF rows, requests, history, Steps, Goes, Fails, OthersAt, Kinds, TypeOK, Located
  <1>1. CASE UploadTestData
    BY <1>1 DEF UploadTestData
  <1>2. ASSUME NEW r \in Requests, ReceiveRequest(r) PROVE Located'
    BY <1>2 DEF ReceiveRequest
  <1>3. ASSUME NEW r \in Requests, FindProblem(r) PROVE Located'
    BY <1>3 DEF FindProblem, Finds, FirstStep
  <1>4. ASSUME NEW r \in Requests, CheckSlug(r) PROVE Located'
    BY <1>4 DEF CheckSlug, IsTaken
  <1>5. ASSUME NEW r \in Requests, CreateProblem(r) PROVE Located'
    BY <1>5 DEF CreateProblem, IsTaken
  <1>6. ASSUME NEW r \in Requests, UpdateProblem(r) PROVE Located'
    BY <1>6 DEF UpdateProblem, IsTaken, UpdatesRow, SlugAfter
  <1>7. ASSUME NEW r \in Requests, DeleteProblem(r) PROVE Located'
    BY <1>7 DEF DeleteProblem
  <1>8. ASSUME NEW r \in Requests, ChangeLockStatus(r) PROVE Located'
    BY <1>8 DEF ChangeLockStatus, ChangesLock, Toggled
  <1>9. ASSUME NEW r \in Requests, UpdateTestcaseVisibility(r) PROVE Located'
    BY <1>9 DEF UpdateTestcaseVisibility
  <1>10. ASSUME NEW r \in Requests, ListTestData(r) PROVE Located'
    BY <1>10 DEF ListTestData
  <1>11. ASSUME NEW r \in Requests, CorrectFlag(r) PROVE Located'
    BY <1>11 DEF CorrectFlag, Founds
  <1>12. ASSUME NEW r \in Requests, DownloadArchive(r) PROVE Located'
    BY <1>12 DEF DownloadArchive
  <1>13. ASSUME NEW r \in Requests, StoreInitYml(r) PROVE Located'
    BY <1>13 DEF StoreInitYml
  <1>14. ASSUME NEW r \in Requests, RecordArchive(r) PROVE Located'
    BY <1>14 DEF RecordArchive
  <1>15. ASSUME NEW r \in Requests, FlagTestData(r) PROVE Located'
    BY <1>15 DEF FlagTestData, Founds
  <1>16. ASSUME NEW r \in Requests, StatementFails(r) PROVE Located'
    BY <1>16 DEF StatementFails
  <1>17. CASE UNCHANGED vars
    BY <1>17 DEF vars
  <1> QED
    BY <1>1, <1>2, <1>3, <1>4, <1>5, <1>6, <1>7, <1>8, <1>9, <1>10, <1>11, <1>12, <1>13, <1>14, <1>15, <1>16, <1>17 DEF Next

\* What a request read of the lock is true, or known to be old.
LEMMA LocksAreReadNext ==
    ASSUME TypeOK, Located, LocksAreRead, EditingAssumption, [Next]_vars
    PROVE  LocksAreRead'
  <1> USE DEF rows, requests, history, Steps, Goes, Fails, OthersAt, Kinds, TypeOK, Located, LocksAreRead, MindsLock
  <1>1. CASE UploadTestData
    BY <1>1 DEF UploadTestData
  <1>2. ASSUME NEW r \in Requests, ReceiveRequest(r) PROVE LocksAreRead'
    BY <1>2 DEF ReceiveRequest
  <1>3. ASSUME NEW r \in Requests, FindProblem(r) PROVE LocksAreRead'
    <2>1. CASE Goes(r, "error") /\ UNCHANGED <<found, read>>
      BY <1>3, <2>1 DEF FindProblem
    <2>2. ASSUME NEW p \in Problems \ deleted, MindsLock(kind[r]) => p \notin locked, Finds(r, p)
          PROVE  LocksAreRead'
      <3>1. found'[r] = p /\ (read'[r] <=> p \in locked)
        BY <2>2, Found
      <3>2. \A q \in Requests \ {r} : pc'[q] = pc[q] /\ found'[q] = found[q] /\ read'[q] = read[q]
        BY <2>2 DEF Finds
      <3>3. UNCHANGED <<locked, deleted, kind, toggled, removed>>
        BY <1>3 DEF FindProblem
      <3> QED
        BY <2>2, <3>1, <3>2, <3>3
    <2> QED
      BY <1>3, <2>1, <2>2 DEF FindProblem
  <1>4. ASSUME NEW r \in Requests, CheckSlug(r) PROVE LocksAreRead'
    BY <1>4 DEF CheckSlug, IsTaken
  <1>5. ASSUME NEW r \in Requests, CreateProblem(r) PROVE LocksAreRead'
    BY <1>5 DEF CreateProblem, IsTaken
  <1>6. ASSUME NEW r \in Requests, UpdateProblem(r) PROVE LocksAreRead'
    BY <1>6 DEF UpdateProblem, IsTaken, UpdatesRow, SlugAfter
  <1>7. ASSUME NEW r \in Requests, DeleteProblem(r) PROVE LocksAreRead'
    BY <1>7 DEF DeleteProblem
  <1>8. ASSUME NEW r \in Requests, ChangeLockStatus(r) PROVE LocksAreRead'
    BY <1>8 DEF ChangeLockStatus, ChangesLock, Toggled
  <1>9. ASSUME NEW r \in Requests, UpdateTestcaseVisibility(r) PROVE LocksAreRead'
    BY <1>9 DEF UpdateTestcaseVisibility
  <1>10. ASSUME NEW r \in Requests, ListTestData(r) PROVE LocksAreRead'
    BY <1>10 DEF ListTestData
  <1>11. ASSUME NEW r \in Requests, CorrectFlag(r) PROVE LocksAreRead'
    BY <1>11 DEF CorrectFlag, Founds
  <1>12. ASSUME NEW r \in Requests, DownloadArchive(r) PROVE LocksAreRead'
    BY <1>12 DEF DownloadArchive
  <1>13. ASSUME NEW r \in Requests, StoreInitYml(r) PROVE LocksAreRead'
    BY <1>13 DEF StoreInitYml
  <1>14. ASSUME NEW r \in Requests, RecordArchive(r) PROVE LocksAreRead'
    BY <1>14 DEF RecordArchive
  <1>15. ASSUME NEW r \in Requests, FlagTestData(r) PROVE LocksAreRead'
    BY <1>15 DEF FlagTestData, Founds
  <1>16. ASSUME NEW r \in Requests, StatementFails(r) PROVE LocksAreRead'
    BY <1>16 DEF StatementFails
  <1>17. CASE UNCHANGED vars
    BY <1>17 DEF vars
  <1> QED
    BY <1>1, <1>2, <1>3, <1>4, <1>5, <1>6, <1>7, <1>8, <1>9, <1>10, <1>11, <1>12, <1>13, <1>14, <1>15, <1>16, <1>17 DEF Next

\* The slug a request asks for is the problem's, or known to be old.
LEMMA SlugsAreReadNext ==
    ASSUME TypeOK, Located, SlugsAreRead, EditingAssumption, [Next]_vars
    PROVE  SlugsAreRead'
  <1> USE DEF rows, requests, history, Steps, Goes, Fails, OthersAt, Kinds, TypeOK, Located, SlugsAreRead
  <1>1. CASE UploadTestData
    BY <1>1 DEF UploadTestData
  <1>2. ASSUME NEW r \in Requests, ReceiveRequest(r) PROVE SlugsAreRead'
    BY <1>2 DEF ReceiveRequest
  <1>3. ASSUME NEW r \in Requests, FindProblem(r) PROVE SlugsAreRead'
    BY <1>3 DEF FindProblem, Finds, FirstStep
  <1>4. ASSUME NEW r \in Requests, CheckSlug(r) PROVE SlugsAreRead'
    BY <1>4 DEF CheckSlug, IsTaken
  <1>5. ASSUME NEW r \in Requests, CreateProblem(r) PROVE SlugsAreRead'
    BY <1>5 DEF CreateProblem, IsTaken
  <1>6. ASSUME NEW r \in Requests, UpdateProblem(r) PROVE SlugsAreRead'
    BY <1>6 DEF UpdateProblem, IsTaken, UpdatesRow, SlugAfter
  <1>7. ASSUME NEW r \in Requests, DeleteProblem(r) PROVE SlugsAreRead'
    BY <1>7 DEF DeleteProblem
  <1>8. ASSUME NEW r \in Requests, ChangeLockStatus(r) PROVE SlugsAreRead'
    BY <1>8 DEF ChangeLockStatus, ChangesLock, Toggled
  <1>9. ASSUME NEW r \in Requests, UpdateTestcaseVisibility(r) PROVE SlugsAreRead'
    BY <1>9 DEF UpdateTestcaseVisibility
  <1>10. ASSUME NEW r \in Requests, ListTestData(r) PROVE SlugsAreRead'
    <2>1. /\ pc'[r] \in {"done", "correcting"} /\ \A q \in Requests \ {r} : pc'[q] = pc[q]
          /\ \A q \in Requests \ {r} : read'[q] = read[q]
          /\ pc'[r] = "correcting" => (read'[r] <=> at[r] \in stored)
      BY <1>10, Listed
    <2>2. UNCHANGED <<rows, stored, kind, at, found, renamed>> /\ pc[r] = "listing"
      BY <1>10 DEF ListTestData
    <2> QED
      BY <2>1, <2>2
  <1>11. ASSUME NEW r \in Requests, CorrectFlag(r) PROVE SlugsAreRead'
    BY <1>11 DEF CorrectFlag, Founds
  <1>12. ASSUME NEW r \in Requests, DownloadArchive(r) PROVE SlugsAreRead'
    BY <1>12 DEF DownloadArchive
  <1>13. ASSUME NEW r \in Requests, StoreInitYml(r) PROVE SlugsAreRead'
    BY <1>13 DEF StoreInitYml
  <1>14. ASSUME NEW r \in Requests, RecordArchive(r) PROVE SlugsAreRead'
    BY <1>14 DEF RecordArchive
  <1>15. ASSUME NEW r \in Requests, FlagTestData(r) PROVE SlugsAreRead'
    BY <1>15 DEF FlagTestData, Founds
  <1>16. ASSUME NEW r \in Requests, StatementFails(r) PROVE SlugsAreRead'
    BY <1>16 DEF StatementFails
  <1>17. CASE UNCHANGED vars
    BY <1>17 DEF vars
  <1> QED
    BY <1>1, <1>2, <1>3, <1>4, <1>5, <1>6, <1>7, <1>8, <1>9, <1>10, <1>11, <1>12, <1>13, <1>14, <1>15, <1>16, <1>17 DEF Next

\* A flag without test data is about to be taken back.
LEMMA FlagInvNext ==
    ASSUME TypeOK, Located, SlugsAreRead, FlagInv, EditingAssumption, [Next]_vars
    PROVE  FlagInv'
  <1> USE DEF rows, requests, history, Steps, Goes, Fails, OthersAt, Kinds, TypeOK, Located, SlugsAreRead, FlagInv, TakesBack
  <1>1. CASE UploadTestData
    BY <1>1 DEF UploadTestData
  <1>2. ASSUME NEW r \in Requests, ReceiveRequest(r) PROVE FlagInv'
    BY <1>2 DEF ReceiveRequest
  <1>3. ASSUME NEW r \in Requests, FindProblem(r) PROVE FlagInv'
    BY <1>3 DEF FindProblem, Finds, FirstStep
  <1>4. ASSUME NEW r \in Requests, CheckSlug(r) PROVE FlagInv'
    BY <1>4 DEF CheckSlug, IsTaken
  <1>5. ASSUME NEW r \in Requests, CreateProblem(r) PROVE FlagInv'
    BY <1>5 DEF CreateProblem, IsTaken
  <1>6. ASSUME NEW r \in Requests, UpdateProblem(r) PROVE FlagInv'
    <2>1. CASE Goes(r, "error") /\ UNCHANGED <<slug, read, renamed, at>>
      BY <1>6, <2>1 DEF UpdateProblem
    <2>2. CASE UpdatesRow(r, SlugAfter(r))
      <3>1. found[r] \in Problems
        BY <1>6 DEF UpdateProblem
      <3>2. /\ r \notin renamed' /\ pc'[r] = "listing" /\ (read'[r] <=> found[r] \in hasTestData)
            /\ \A q \in Requests \ {r} : pc'[q] = pc[q] /\ read'[q] = read[q]
            /\ \A p \in Problems \ {found[r]} : slug'[p] = slug[p]
        <4>1. slug' = [slug EXCEPT ![found[r]] = SlugAfter(r)] /\ r \notin renamed'
          BY <2>2 DEF UpdatesRow
        <4>2. pc'[r] = "listing" /\ \A q \in Requests \ {r} : pc'[q] = pc[q]
          BY <2>2 DEF UpdatesRow
        <4> QED
          BY <2>2, <3>1, <4>1, <4>2, Updated
      <3>8. ASSUME NEW q \in renamed' PROVE q \in renamed \/ found[q] = found[r]
        BY <2>2, <3>8 DEF UpdatesRow
      <3>3. UNCHANGED <<hasTestData, stored, found, misled>>
        BY <1>6 DEF UpdateProblem
      <3>4. ASSUME NEW p \in hasTestData, p = found[r]
            PROVE  \E q \in Requests : found'[q] = p /\ TakesBack(q)'
        BY <3>2, <3>3, <3>4
      <3>5. ASSUME NEW q \in Requests, found[q] # found[r], TakesBack(q) PROVE TakesBack(q)'
        <4>1. q # r /\ q \notin renamed'
          BY <3>2, <3>5, <3>8
        <4> QED
          BY <3>2, <3>5, <4>1
      <3>6. ASSUME NEW p \in hasTestData, p # found[r], slug[p] \notin stored, p \notin misled
            PROVE  \E q \in Requests : found'[q] = p /\ TakesBack(q)'
        <4>1. PICK q \in Requests : found[q] = p /\ TakesBack(q)
          BY <3>6 DEF FlagInv
        <4>2. TakesBack(q)'
          BY <3>5, <3>6, <4>1
        <4> QED
          BY <3>3, <4>1, <4>2
      <3>7. \A p \in hasTestData : p # found[r] => slug'[p] = slug[p]
        BY <3>2
      <3> QED
        BY <3>3, <3>4, <3>6, <3>7 DEF FlagInv
    <2> QED
      BY <1>6, <2>1, <2>2 DEF UpdateProblem
  <1>7. ASSUME NEW r \in Requests, DeleteProblem(r) PROVE FlagInv'
    BY <1>7 DEF DeleteProblem
  <1>8. ASSUME NEW r \in Requests, ChangeLockStatus(r) PROVE FlagInv'
    BY <1>8 DEF ChangeLockStatus, ChangesLock, Toggled
  <1>9. ASSUME NEW r \in Requests, UpdateTestcaseVisibility(r) PROVE FlagInv'
    BY <1>9 DEF UpdateTestcaseVisibility
  <1>10. ASSUME NEW r \in Requests, ListTestData(r) PROVE FlagInv'
    <2>1. UNCHANGED <<rows, stored, at, found, renamed>> /\ pc[r] = "listing" /\ misled \subseteq misled'
      BY <1>10 DEF ListTestData
    <2>2. ASSUME NEW q \in Requests \ {r}, TakesBack(q) PROVE TakesBack(q)'
      BY <1>10, <2>1, <2>2, Listed
    <2>3. ASSUME TakesBack(r), slug[found[r]] \notin stored, found[r] \notin misled'
          PROVE  TakesBack(r)'
      <3>1. read[r] /\ r \notin renamed /\ at[r] \notin stored
        BY <2>1, <2>3
      <3>2. pc'[r] = "correcting" /\ ~read'[r]
        BY <1>10, <2>3, <3>1, Listed
      <3> QED
        BY <2>1, <3>1, <3>2
    <2>4. ASSUME NEW p \in hasTestData, slug[p] \notin stored, p \notin misled'
          PROVE  \E q \in Requests : found'[q] = p /\ TakesBack(q)'
      <3>1. PICK q \in Requests : found[q] = p /\ TakesBack(q)
        BY <2>1, <2>4 DEF FlagInv
      <3>2. TakesBack(q)'
        BY <2>2, <2>3, <2>4, <3>1
      <3> QED
        BY <2>1, <3>1, <3>2
    <2> QED
      BY <2>1, <2>4 DEF FlagInv
  <1>11. ASSUME NEW r \in Requests, CorrectFlag(r) PROVE FlagInv'
    BY <1>11 DEF CorrectFlag, Founds
  <1>12. ASSUME NEW r \in Requests, DownloadArchive(r) PROVE FlagInv'
    BY <1>12 DEF DownloadArchive
  <1>13. ASSUME NEW r \in Requests, StoreInitYml(r) PROVE FlagInv'
    BY <1>13 DEF StoreInitYml
  <1>14. ASSUME NEW r \in Requests, RecordArchive(r) PROVE FlagInv'
    BY <1>14 DEF RecordArchive
  <1>15. ASSUME NEW r \in Requests, FlagTestData(r) PROVE FlagInv'
    BY <1>15 DEF FlagTestData, Founds
  <1>16. ASSUME NEW r \in Requests, StatementFails(r) PROVE FlagInv'
    BY <1>16 DEF StatementFails
  <1>17. CASE UNCHANGED vars
    BY <1>17 DEF vars
  <1> QED
    BY <1>1, <1>2, <1>3, <1>4, <1>5, <1>6, <1>7, <1>8, <1>9, <1>10, <1>11, <1>12, <1>13, <1>14, <1>15, <1>16, <1>17 DEF Next

\* A toggle is lost only to another one.
LEMMA TogglesCountNext ==
    ASSUME TypeOK, Located, LocksAreRead, TogglesCount, EditingAssumption, [Next]_vars
    PROVE  TogglesCount'
  <1> USE DEF rows, requests, history, Steps, Goes, Fails, OthersAt, Kinds, TypeOK, Located, LocksAreRead, TogglesCount
  <1>1. CASE UploadTestData
    BY <1>1 DEF UploadTestData
  <1>2. ASSUME NEW r \in Requests, ReceiveRequest(r) PROVE TogglesCount'
    BY <1>2 DEF ReceiveRequest
  <1>3. ASSUME NEW r \in Requests, FindProblem(r) PROVE TogglesCount'
    BY <1>3 DEF FindProblem, Finds, FirstStep
  <1>4. ASSUME NEW r \in Requests, CheckSlug(r) PROVE TogglesCount'
    BY <1>4 DEF CheckSlug, IsTaken
  <1>5. ASSUME NEW r \in Requests, CreateProblem(r) PROVE TogglesCount'
    BY <1>5 DEF CreateProblem, IsTaken
  <1>6. ASSUME NEW r \in Requests, UpdateProblem(r) PROVE TogglesCount'
    BY <1>6 DEF UpdateProblem, IsTaken, UpdatesRow, SlugAfter
  <1>7. ASSUME NEW r \in Requests, DeleteProblem(r) PROVE TogglesCount'
    BY <1>7 DEF DeleteProblem
  <1>8. ASSUME NEW r \in Requests, ChangeLockStatus(r) PROVE TogglesCount'
    BY <1>8 DEF ChangeLockStatus, ChangesLock, Toggled
  <1>9. ASSUME NEW r \in Requests, UpdateTestcaseVisibility(r) PROVE TogglesCount'
    BY <1>9 DEF UpdateTestcaseVisibility
  <1>10. ASSUME NEW r \in Requests, ListTestData(r) PROVE TogglesCount'
    BY <1>10 DEF ListTestData
  <1>11. ASSUME NEW r \in Requests, CorrectFlag(r) PROVE TogglesCount'
    BY <1>11 DEF CorrectFlag, Founds
  <1>12. ASSUME NEW r \in Requests, DownloadArchive(r) PROVE TogglesCount'
    BY <1>12 DEF DownloadArchive
  <1>13. ASSUME NEW r \in Requests, StoreInitYml(r) PROVE TogglesCount'
    BY <1>13 DEF StoreInitYml
  <1>14. ASSUME NEW r \in Requests, RecordArchive(r) PROVE TogglesCount'
    BY <1>14 DEF RecordArchive
  <1>15. ASSUME NEW r \in Requests, FlagTestData(r) PROVE TogglesCount'
    BY <1>15 DEF FlagTestData, Founds
  <1>16. ASSUME NEW r \in Requests, StatementFails(r) PROVE TogglesCount'
    BY <1>16 DEF StatementFails
  <1>17. CASE UNCHANGED vars
    BY <1>17 DEF vars
  <1> QED
    BY <1>1, <1>2, <1>3, <1>4, <1>5, <1>6, <1>7, <1>8, <1>9, <1>10, <1>11, <1>12, <1>13, <1>14, <1>15, <1>16, <1>17 DEF Next

LEMMA EditingInvInit == Init => EditingInv
  <1> SUFFICES ASSUME Init PROVE EditingInv
    OBVIOUS
  <1> USE EditingAssumption
  <1>1. TypeOK
    BY DEF Init, TypeOK, Kinds, Steps
  <1>2. Located /\ LocksAreRead /\ SlugsAreRead /\ TogglesCount
    BY DEF Init, Located, LocksAreRead, SlugsAreRead, TogglesCount, Steps
  <1>3. FlagInv
    BY DEF Init, FlagInv
  <1> QED
    BY <1>1, <1>2, <1>3 DEF EditingInv

LEMMA EditingInvNext == EditingInv /\ [Next]_vars => EditingInv'
  BY EditingAssumption, TypeOKNext, LocatedNext, LocksAreReadNext, SlugsAreReadNext, FlagInvNext,
     TogglesCountNext DEF EditingInv

\* The flag of test data is founded, locks are what the requests that read them left, and
\* a request under way has found the problem and the slug it read.
THEOREM EditingInvHolds == Spec => []EditingInv
  BY EditingInvInit, EditingInvNext, PTL DEF Spec

-------------------------------------------------------------------------------
(* What follows from it. *)

\* Every variable keeps its type; no two problems share a slug.
THEOREM TypeCorrect == Spec => []TypeOK
  <1>1. EditingInv => TypeOK
    BY DEF EditingInv
  <1> QED
    BY EditingInvHolds, <1>1, PTL

\* A flag says that there are test data only where there are, but for the cases named.
THEOREM FlagsAreFounded == Spec => []FlagIsFounded
  <1>1. EditingInv => FlagIsFounded
    BY DEF EditingInv, FlagInv, TakesBack, FlagIsFounded, IsRechecked
  <1> QED
    BY EditingInvHolds, <1>1, PTL

\* Toggles of the lock count unless they overlap.
THEOREM LocksAreToggled == Spec => []TogglesCount
  <1>1. EditingInv => TogglesCount
    BY DEF EditingInv
  <1> QED
    BY EditingInvHolds, <1>1, PTL

\* A deleted problem is changed only by requests that were under way when it was
\* deleted, a locked one only by such requests and by those that do not ask for the
\* lock: both ways of finalize, and changeLockStatus, which is there to open it.
THEOREM ChangesAreTimely == Spec => ChangesAreCurrent
  <1>1. ASSUME EditingInv, NEW r \in Requests, Changes(r)
        PROVE  /\ found[r] \in deleted => r \in removed
               /\ MindsLock(kind[r]) /\ found[r] \in locked => r \in toggled
    BY <1>1 DEF EditingInv, LocksAreRead, Changes, Steps
  <1>2. EditingInv /\ [Next]_vars =>
           [\A r \in Requests : Changes(r) =>
              /\ found[r] \in deleted => r \in removed
              /\ MindsLock(kind[r]) /\ found[r] \in locked => r \in toggled]_vars
    BY <1>1
  <1> QED
    BY <1>2, EditingInvHolds, PTL DEF Spec, ChangesAreCurrent

===============================================================================
