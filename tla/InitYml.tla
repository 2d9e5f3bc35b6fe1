-------------------------------- MODULE InitYml --------------------------------
(***************************************************************************)
(* How TestcasesController.finalize turns the cases an author submits into *)
(* the test_cases and pretest_test_cases of init.yml, the file the judges  *)
(* read: batches are opened and closed by entries of the list itself, and  *)
(* a selection of the entries may be asked for.  A case is known by its    *)
(* index; its files, checker and limits are left out.                      *)
(***************************************************************************)
EXTENDS Integers, Sequences

\* c.points is undefined or null.
NoPoints == -1
PointsOf(c) == IF c.points = NoPoints THEN 0 ELSE c.points

\* An entry of the list: a case, the start of a batch or the end of one.
CaseEntries(points) ==
    [type : {"C", "S"}, points : points \cup {NoPoints}, isPretest : BOOLEAN]
    \cup {[type |-> "E", points |-> NoPoints, isPretest |-> FALSE]}

\* What test_cases consists of: batches and cases of their own.
NoBatch == [kind |-> "none"]
EmptyBatch(c) ==
    [kind |-> "batch", of |-> <<>>, points |-> PointsOf(c), isPretest |-> c.isPretest]
Alone(i, c) == [kind |-> "case", of |-> <<i>>, points |-> c.points, isPretest |-> c.isPretest]

Start == [pretest |-> <<>>, testCases |-> <<>>, currentBatch |-> NoBatch,
          totalPoints |-> 0, error |-> FALSE]

Push(st, item) ==
    [st EXCEPT !.testCases = Append(@, item),
               !.pretest = IF item.isPretest THEN Append(@, item) ELSE @]

HasCases(st) == st.currentBatch # NoBatch /\ st.currentBatch.of # <<>>

\* Mutated form of StartBatch: the batch that is open is not kept.
StartBatchAnew(st, c) ==
    [st EXCEPT !.currentBatch = EmptyBatch(c), !.totalPoints = @ + PointsOf(c)]

\* type 'S': an open batch with cases in it ends; one without is dropped.
StartBatch(st, c) ==
    LET kept == IF HasCases(st) THEN Push(st, st.currentBatch) ELSE st
    IN  [kept EXCEPT !.currentBatch = EmptyBatch(c), !.totalPoints = @ + PointsOf(c)]

\* type 'E', and the end of the list: EMPTY_BATCH_NOT_ALLOWED, or it is kept.
EndBatch(st) ==
    IF st.currentBatch = NoBatch THEN st
    ELSE IF ~HasCases(st) THEN [st EXCEPT !.error = TRUE]
    ELSE [Push(st, st.currentBatch) EXCEPT !.currentBatch = NoBatch]

\* Mutated form of AddCase: the points of a case in a batch are added up, too.
AddCaseCounting(st, i, c) ==
    IF st.currentBatch # NoBatch THEN [st EXCEPT !.currentBatch.of = Append(@, i),
                                                 !.totalPoints = @ + PointsOf(c)]
    ELSE IF c.isPretest THEN Push(st, Alone(i, c))
    ELSE IF c.points = NoPoints THEN [st EXCEPT !.error = TRUE]
    ELSE [Push(st, Alone(i, c)) EXCEPT !.totalPoints = @ + c.points]

\* A case joins the open batch, or stands alone: a pretest whatever its points,
\* any other only with points (POINTS_MUST_BE_DEFINED_FOR_NON_BATCH_CASES).
AddCase(st, i, c) ==
    IF st.currentBatch # NoBatch THEN [st EXCEPT !.currentBatch.of = Append(@, i)]
    ELSE IF c.isPretest THEN Push(st, Alone(i, c))
    ELSE IF c.points = NoPoints THEN [st EXCEPT !.error = TRUE]
    ELSE [Push(st, Alone(i, c)) EXCEPT !.totalPoints = @ + c.points]

Turn(st, i, c) ==
    CASE c.type = "S" -> StartBatch(st, c)
      [] c.type = "E" -> EndBatch(st)
      [] c.type = "C" -> AddCase(st, i, c)

\* The loop over the selected entries, which an error leaves.
Loop(cases, selected) ==
    LET upTo[i \in 0..Len(cases)] ==
            IF i = 0 THEN Start
            ELSE IF upTo[i - 1].error \/ i \notin selected THEN upTo[i - 1]
            ELSE Turn(upTo[i - 1], i, cases[i])
    IN  upTo[Len(cases)]

\* init.test_cases and the rest, or an error.
Build(cases, selected) ==
    LET st == Loop(cases, selected)
        last == IF st.error THEN st ELSE EndBatch(st)
    IN  [last EXCEPT !.error = @ \/ last.totalPoints <= 0]

-------------------------------------------------------------------------------

\* What a list of batches and cases holds: its cases, its pretests, and what a
\* submission can earn: a batch as a whole, or a case of its own.
NoContents == [cases |-> <<>>, pretests |-> <<>>, earnable |-> 0]

WithItem(contents, item) ==
    [cases |-> contents.cases \o item.of,
     pretests |-> IF item.isPretest THEN Append(contents.pretests, item) ELSE contents.pretests,
     earnable |-> contents.earnable + PointsOf(item)]

Contents(items) ==
    LET upTo[i \in 0..Len(items)] ==
            IF i = 0 THEN NoContents ELSE WithItem(upTo[i - 1], items[i])
    IN  upTo[Len(items)]

\* The cases among the selected entries, in the order of the list.
SelectedCases(cases, selected) ==
    LET upTo[i \in 0..Len(cases)] ==
            IF i = 0 THEN <<>>
            ELSE IF i \in selected /\ cases[i].type = "C" THEN Append(upTo[i - 1], i)
            ELSE upTo[i - 1]
    IN  upTo[Len(cases)]

(***************************************************************************)
(* Whatever starts and ends surround them, and whichever of those were not *)
(* selected: every selected case is in test_cases once, in the order of    *)
(* the list; no batch is empty; and the pretests are those of test_cases.  *)
(***************************************************************************)
CasesAreKept(cases, selected) ==
    LET init == Build(cases, selected)
    IN  ~init.error =>
            /\ Contents(init.testCases).cases = SelectedCases(cases, selected)
            /\ \A i \in DOMAIN init.testCases : init.testCases[i].of # <<>>
            /\ init.pretest = Contents(init.testCases).pretests

\* A start directly after a start: the batch between them has no cases.
StartsTwice(cases, selected) ==
    \E i, j \in selected :
        /\ i < j /\ cases[i].type = "S" /\ cases[j].type = "S"
        /\ \A k \in selected : i < k /\ k < j => cases[k].type = "S"

(***************************************************************************)
(* "TOTAL_POINTS_MUST_BE_GREATER_THAN_ZERO": what is written to test_cases *)
(* lets a submission earn something, whichever points were added up.       *)
(***************************************************************************)
SomethingIsEarned(cases, selected) ==
    LET init == Build(cases, selected)
    IN  ~init.error => Contents(init.testCases).earnable > 0

(***************************************************************************)
(* It does unless a batch is started twice: the first is dropped without   *)
(* EMPTY_BATCH_NOT_ALLOWED, and its points were counted.                   *)
(***************************************************************************)
SomethingIsEarnedUnlessDropped(cases, selected) ==
    StartsTwice(cases, selected) \/ SomethingIsEarned(cases, selected)

===============================================================================
