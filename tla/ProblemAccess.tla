----------------------------- MODULE ProblemAccess -----------------------------
(***************************************************************************)
(* Who may do what with a problem, as the problem, test case and           *)
(* submission services decide it: several times over, in TypeScript, in    *)
(* the filters of Prisma's queries and in SQL.  A permission mask is the   *)
(* set of its bits.                                                        *)
(***************************************************************************)
EXTENDS FiniteSets

\* UserPermissions, those that matter here.
Permissions == {"ADMINISTRATOR", "VIEW_ALL_PROBLEMS", "MODIFY_ALL_PROBLEMS",
                "DELETE_PROBLEM", "LOCK_PROBLEM", "EDIT_PROBLEM_TESTS"}

NoUser == [known |-> FALSE, perms |-> {}, roles |-> {}]
Roles == {"author", "curator", "tester"}

\* A user, with the roles it has in the problem at hand.
Users == {NoUser} \cup [known : {TRUE}, perms : SUBSET Permissions, roles : SUBSET Roles]

Visibilities == {"EVERYONE", "AC_ONLY", "AUTHOR_ONLY"}
Problems == [isPublic : BOOLEAN, isDeleted : BOOLEAN, isLocked : BOOLEAN,
             testcaseDataVisibility : Visibilities]

\* Mutated form of HasPerms: an administrator is like anybody else.
HasPermsPlain(user, perm) == perm \in user.perms

\* PermissionsService.hasPerms
HasPerms(user, perm) == "ADMINISTRATOR" \in user.perms \/ perm \in user.perms

HasViewAllProbsPerms(user) == user.known /\ HasPerms(user, "VIEW_ALL_PROBLEMS")

IsAuthorOrCurator(user) == user.roles \cap {"author", "curator"} # {}

-------------------------------------------------------------------------------
(* The same question, four answers. *)

\* ProblemsService.viewableProblem, asked of a problem that was found.
ViewableProblem(user, problem) ==
    \/ HasViewAllProbsPerms(user)
    \/ problem.isPublic /\ ~problem.isDeleted
    \/ user.known /\ user.roles # {}

\* The `where' of findViewableProblems and findViewableProblemWithSlug.  A filter
\* that is undefined is no filter; without a user the parameter is ignored.
FoundWithSlug(user, problem, isDeleted) ==
    LET asked == isDeleted = "undefined" \/ problem.isDeleted = (isDeleted = "true")
        public == problem.isPublic /\ ~problem.isDeleted
    IN  \/ HasViewAllProbsPerms(user) /\ asked
        \/ user.known /\ (public \/ user.roles # {}) /\ asked
        \/ ~user.known /\ public

\* getViewableSubmissionWhereProblemQuery
FoundWithSubmission(user, problem) ==
    \/ HasViewAllProbsPerms(user)
    \/ problem.isPublic /\ ~problem.isDeleted
    \/ user.known /\ user.roles # {}

\* getProblemsStatusList, which only users who are logged in ask for.
InStatusList(user, problem) ==
    \/ HasViewAllProbsPerms(user)
    \/ problem.isPublic /\ ~problem.isDeleted
    \/ user.roles # {}

-------------------------------------------------------------------------------
(* Changing a problem. *)

\* updateProblem: findViewableProblemWithSlug(slug, user, false), PROBLEM_LOCKED, canModify.
CanModify(user, problem) ==
    /\ FoundWithSlug(user, problem, "false")
    /\ ~problem.isLocked
    /\ HasPerms(user, "MODIFY_ALL_PROBLEMS") \/ IsAuthorOrCurator(user)

\* deleteProblem, after AuthGuard asked for DELETE_PROBLEM
CanDelete(user, problem) ==
    /\ user.known /\ HasPerms(user, "DELETE_PROBLEM")
    /\ FoundWithSlug(user, problem, "false")
    /\ ~problem.isLocked

\* changeLockStatus
CanLock(user, problem) ==
    /\ FoundWithSlug(user, problem, "false")
    /\ user.known /\ (IsAuthorOrCurator(user) \/ HasPerms(user, "LOCK_PROBLEM"))

\* Mutated form of CanEditTestcases: testers, as a comment inside it says.
CanEditTestcasesAsTester(user, problem) ==
    /\ FoundWithSlug(user, problem, "false")
    /\ ~problem.isLocked
    /\ HasPerms(user, "EDIT_PROBLEM_TESTS") \/ user.roles # {}

\* updateTestcaseVisibility: found, PROBLEM_LOCKED, canEditProblemTestcases.
CanEditTestcases(user, problem) ==
    /\ FoundWithSlug(user, problem, "false")
    /\ ~problem.isLocked
    /\ HasPerms(user, "EDIT_PROBLEM_TESTS") \/ IsAuthorOrCurator(user)

\* TestcasesController.finalize
CanFinalize(user, problem) ==
    /\ FoundWithSlug(user, problem, "false")
    /\ IsAuthorOrCurator(user) \/ HasPerms(user, "EDIT_PROBLEM_TESTS")

\* getSubmission's view of a submission's test cases: canUserSeeTestcaseData.
CanSeeTestcaseData(user, problem, hasAC) ==
    /\ FoundWithSubmission(user, problem) /\ ViewableProblem(user, problem)
    /\ \/ problem.testcaseDataVisibility = "EVERYONE"
       \/ user.known /\ HasPerms(user, "EDIT_PROBLEM_TESTS")
       \/ user.known /\ problem.testcaseDataVisibility = "AC_ONLY" /\ hasAC
       \/ user.known /\ user.roles # {}

-------------------------------------------------------------------------------
(***************************************************************************)
(* A problem is listed, found by its slug, found with its submissions and  *)
(* shown by viewableProblem to the same users, so that the second check of *)
(* getSubmission and createSubmission never refuses what the query found.  *)
(***************************************************************************)
ViewsAgree(user, problem) ==
    LET viewable == ViewableProblem(user, problem)
    IN  /\ FoundWithSlug(user, problem, "undefined") = viewable
        /\ FoundWithSlug(user, problem, "false") = (viewable /\ ~problem.isDeleted)
        /\ FoundWithSubmission(user, problem) = viewable
        /\ user.known => InStatusList(user, problem) = viewable

(***************************************************************************)
(* The two controllers that change test data agree on who may, but for the *)
(* lock: finalize does not ask for it (testcases.controller.ts).  Who may  *)
(* replace test data may see them, whatever visibility they are given.     *)
(***************************************************************************)
EditorsAgree(user, problem) ==
    /\ CanEditTestcases(user, problem) = (CanFinalize(user, problem) /\ ~problem.isLocked)
    /\ \A hasAC \in BOOLEAN :
          CanFinalize(user, problem) => CanSeeTestcaseData(user, problem, hasAC)

Abilities == {"modify", "delete", "visibility", "lock", "view", "finalize", "data"}

Able(user, problem) ==
    {a \in Abilities :
        \/ a = "modify" /\ CanModify(user, problem)
        \/ a = "delete" /\ CanDelete(user, problem)
        \/ a = "visibility" /\ CanEditTestcases(user, problem)
        \/ a = "lock" /\ CanLock(user, problem)
        \/ a = "view" /\ ViewableProblem(user, problem)
        \/ a = "finalize" /\ CanFinalize(user, problem)
        \/ a = "data" /\ CanSeeTestcaseData(user, problem, FALSE)}

(***************************************************************************)
(* Rights grow with what they are made of: a permission or a role more, or *)
(* logging in, takes no ability away, and an administrator has them all on *)
(* a problem that is neither deleted nor locked.                           *)
(***************************************************************************)
RightsGrow(user, problem) ==
    /\ Able(NoUser, problem) \subseteq Able(user, problem)
    /\ user.known =>
          \A p \in Permissions, r \in Roles :
              Able(user, problem) \subseteq
                  (Able([user EXCEPT !.perms = @ \cup {p}], problem)
                   \cap Able([user EXCEPT !.roles = @ \cup {r}], problem))
    /\ "ADMINISTRATOR" \in user.perms /\ ~problem.isDeleted /\ ~problem.isLocked =>
          Able(user, problem) = Abilities

(***************************************************************************)
(* A lock takes the same three abilities from everybody, administrators    *)
(* included, and no other: who could lock a problem can unlock it.         *)
(***************************************************************************)
LocksRestrain(user, problem) ==
    Able(user, [problem EXCEPT !.isLocked = TRUE]) =
        Able(user, [problem EXCEPT !.isLocked = FALSE]) \ {"modify", "delete", "visibility"}

===============================================================================
