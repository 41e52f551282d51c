--------------------------- MODULE UpgradeRequest ---------------------------
(***************************************************************************)
(* createUpgradePullRequest (src/src/core/github/upgrade-pr.ts): requests  *)
(* for one upgrade, in clones of one repository, choose a branch, work in  *)
(* a temporary worktree, publish, and clean up whatever happened.  Every   *)
(* command is a step; it can fail, a process can die, the answer of a      *)
(* command can be lost after it has done its work, and the user can create *)
(* branches.                                                               *)
(*                                                                         *)
(* A branch is the number of its suffix, and holds whose it is: a          *)
(* request's, or the user's.                                               *)
(***************************************************************************)
EXTENDS Integers, FiniteSets

CONSTANTS
  Requests,       \* calls of createUpgradePullRequest
  Clones,         \* the clones of the repository they run in
  BranchNumbers,  \* the branch names tried: 1..50 in the code
  None, User,     \* whose a branch is, when it is no request's
  MaxUserBranches \* bound: branches the user creates

ASSUME UpgradeAssumption ==
  /\ BranchNumbers \in SUBSET Nat /\ BranchNumbers # {}
  /\ None \notin Requests /\ User \notin Requests /\ None # User

VARIABLES
  clone,        \* the clone each request runs in
  lockfiles,    \* the lockfiles in the root of the repository
  localRefs,    \* per clone and branch, whose the branch is
  remoteRefs,   \* the same of origin: the request whose push has created it
  worktrees,    \* the registered worktrees: [clone, branch, by]
  pulls,        \* the open pull requests: [head, by]
  requests,     \* per request: how far it is, and its variables
  userBranches  \* the branches the user has created

upgradeVars == <<clone, lockfiles, localRefs, remoteRefs, worktrees, pulls, requests, userBranches>>

Owners == Requests \cup {None, User}
First == CHOOSE n \in BranchNumbers : \A k \in BranchNumbers : n <= k

UpgradeInit ==
  /\ clone \in [Requests -> Clones]
  /\ lockfiles \in SUBSET {"pnpm", "yarn", "npm"}
  /\ localRefs \in [Clones -> [BranchNumbers -> {None, User}]]
  /\ \A c \in Clones : \A n \in BranchNumbers \ {First} : localRefs[c][n] = None
  /\ remoteRefs \in [BranchNumbers -> {None}]
  /\ worktrees = {} /\ pulls = {} /\ userBranches = 0
  /\ requests \in [Requests -> [at : {"validate"}, dryRun : BOOLEAN, branch : {First},
                                taken : {FALSE}, pushed : {FALSE}, joined : {FALSE},
                                prCreated : {FALSE}, clean : {TRUE}, status : {"none"}]]

UserCreatesBranch(c, n) ==
  /\ userBranches < MaxUserBranches
  /\ localRefs[c][n] = None
  /\ localRefs' = [localRefs EXCEPT ![c][n] = User]
  /\ userBranches' = userBranches + 1
  /\ UNCHANGED <<clone, lockfiles, remoteRefs, worktrees, pulls, requests>>

-----------------------------------------------------------------------------
(* Before the worktree *)

gitVars == <<localRefs, remoteRefs, worktrees, pulls>>
fixedVars == <<clone, lockfiles, userBranches>>

Set(r, request) == requests' = [requests EXCEPT ![r] = request]

\* Ends before there is anything to clean up.
Reject(r, status) ==
  /\ Set(r, [requests[r] EXCEPT !.at = "ended", !.status = status])
  /\ UNCHANGED <<gitVars, fixedVars>>

\* pnpm before yarn before npm.
Manager(found) ==
  IF "pnpm" \in found THEN "pnpm"
  ELSE IF "yarn" \in found THEN "yarn"
  ELSE IF "npm" \in found THEN "npm" ELSE "unknown"

\* The version, the root, the manifest, the declaration, the package manager and
\* the remote.
Validate(r) ==
  /\ requests[r].at = "validate"
  /\ \/ Reject(r, "failed")
     \/ /\ Manager(lockfiles) # "unknown"
        /\ Set(r, [requests[r] EXCEPT !.at = "local"])
        /\ UNCHANGED <<gitVars, fixedVars>>

\* localBranchExists: a check that fails counts as no.
CheckLocal(r) ==
  /\ requests[r].at = "local"
  /\ \E exists \in {localRefs[clone[r]][requests[r].branch] # None, FALSE} :
       Set(r, [requests[r] EXCEPT !.at = "remote", !.taken = exists])
  /\ UNCHANGED <<gitVars, fixedVars>>

\* remoteBranchExists; the next candidate, or the end of the dry run.
CheckRemote(r) ==
  LET n == requests[r].branch
      taken == requests[r].taken \/ remoteRefs[n] # None IN
  /\ requests[r].at = "remote"
  /\ \/ Reject(r, "failed")
     \/ taken /\ n + 1 \notin BranchNumbers /\ Reject(r, "failed")
     \/ taken /\ n + 1 \in BranchNumbers /\ Set(r, [requests[r] EXCEPT !.at = "local", !.branch = n + 1])
        /\ UNCHANGED <<gitVars, fixedVars>>
     \/ ~taken /\ requests[r].dryRun /\ Reject(r, "previewed")
     \/ ~taken /\ ~requests[r].dryRun /\ Set(r, [requests[r] EXCEPT !.at = "tempdir"])
        /\ UNCHANGED <<gitVars, fixedVars>>

MakeTempDir(r) ==
  /\ requests[r].at = "tempdir"
  /\ \/ Reject(r, "failed")
     \/ Set(r, [requests[r] EXCEPT !.at = "add"]) /\ UNCHANGED <<gitVars, fixedVars>>

-----------------------------------------------------------------------------
(* The try block *)

Refs(c, n, owner) == localRefs' = [localRefs EXCEPT ![c][n] = owner]

\* A command of the try block fails: the finally block starts.
CommandFails(r, from) ==
  /\ requests[r].at = from
  /\ Set(r, [requests[r] EXCEPT !.at = "remove", !.status = "failed"])
  /\ UNCHANGED <<gitVars, fixedVars>>

\* git worktree add -b: refused when the branch exists.
AddWorktree(r) ==
  LET c == clone[r]
      n == requests[r].branch IN
  \/ CommandFails(r, "add")
  \/ /\ requests[r].at = "add"
     /\ localRefs[c][n] = None
     /\ Refs(c, n, r)
     /\ worktrees' = worktrees \cup {[clone |-> c, branch |-> n, by |-> r]}
     /\ \E next \in {"prepare", "remove"} :
          Set(r, [requests[r] EXCEPT !.at = next, !.status = IF next = "remove" THEN "failed" ELSE @])
     /\ UNCHANGED <<remoteRefs, pulls, fixedVars>>

\* The manifest, the lockfile, the tests, git add and git commit: nothing but
\* the request's own worktree and branch is touched.
Prepare(r) ==
  \/ CommandFails(r, "prepare")
  \/ /\ requests[r].at = "prepare"
     /\ Set(r, [requests[r] EXCEPT !.at = "push"])
     /\ UNCHANGED <<gitVars, fixedVars>>

\* git push, without --force: it creates the branch.  Where origin has it already
\* the push is refused unless it changes nothing: another clone, at the same
\* HEAD and with the same identity, has made the very same commit within the
\* same second (joined).
Push(r) ==
  LET n == requests[r].branch IN
  \/ CommandFails(r, "push")
  \/ /\ requests[r].at = "push"
     /\ remoteRefs[n] = None
     /\ remoteRefs' = [remoteRefs EXCEPT ![n] = r]
     /\ \/ Set(r, [requests[r] EXCEPT !.at = "pr", !.pushed = TRUE])
        \/ Set(r, [requests[r] EXCEPT !.at = "remove", !.clean = FALSE, !.status = "failed"])
     /\ UNCHANGED <<localRefs, worktrees, pulls, fixedVars>>
  \/ /\ requests[r].at = "push"
     /\ remoteRefs[n] \in Requests \ {r}
     /\ Set(r, [requests[r] EXCEPT !.at = "pr", !.pushed = TRUE, !.joined = TRUE])
     /\ UNCHANGED <<gitVars, fixedVars>>

\* gh pr create: refused without the branch, and when it has an open pull request.
\* known: gh has said so.
CreatePull(r) ==
  LET n == requests[r].branch IN
  \/ CommandFails(r, "pr")
  \/ /\ requests[r].at = "pr"
     /\ remoteRefs[n] # None
     /\ \A pull \in pulls : pull.head # n
     /\ \E known \in BOOLEAN :
          /\ pulls' = pulls \cup {[head |-> n, by |-> r]}
          /\ Set(r, [requests[r] EXCEPT !.at = "remove", !.prCreated = known, !.clean = known,
                       !.status = IF known THEN "created" ELSE "failed"])
     /\ UNCHANGED <<localRefs, remoteRefs, worktrees, fixedVars>>

-----------------------------------------------------------------------------
(* The finally block: every step of it is tried, whatever became of the others *)

\* A step of the cleanup that could not be done.
Skip(r, from, to) ==
  /\ requests[r].at = from
  /\ Set(r, [requests[r] EXCEPT !.at = to, !.clean = FALSE])
  /\ UNCHANGED <<gitVars, fixedVars>>

\* git worktree remove --force, and rm of the temporary directory.
RemoveWorktree(r) ==
  \/ Skip(r, "remove", "branch")
  \/ /\ requests[r].at = "remove"
     /\ worktrees' = {w \in worktrees : w.by # r}
     /\ Set(r, [requests[r] EXCEPT !.at = "branch"])
     /\ UNCHANGED <<localRefs, remoteRefs, pulls, fixedVars>>

CheckedOut(c, n) == \E w \in worktrees : w.clone = c /\ w.branch = n

\* Mutant: the branch on origin is deleted whenever there is no pull request.
WithoutPull(r) == ~requests[r].prCreated
\* Mutant: it is deleted only after a push that failed.
NotPushed(r) == ~requests[r].pushed /\ ~requests[r].prCreated
Unpublished(r) == requests[r].pushed /\ ~requests[r].prCreated

\* git branch -D: whosever the branch is, unless a worktree has it checked out.
DeleteBranch(r) ==
  LET next == IF Unpublished(r) THEN "unpush" ELSE "ended" IN
  \/ Skip(r, "branch", next)
  \/ /\ requests[r].at = "branch"
     /\ IF CheckedOut(clone[r], requests[r].branch) THEN UNCHANGED localRefs
        ELSE Refs(clone[r], requests[r].branch, None)
     /\ Set(r, [requests[r] EXCEPT !.at = next])
     /\ UNCHANGED <<remoteRefs, worktrees, pulls, fixedVars>>

\* git push origin --delete, whosever the branch is; it closes the pull request.
DeleteRemote(r) ==
  LET n == requests[r].branch IN
  \/ Skip(r, "unpush", "ended")
  \/ /\ requests[r].at = "unpush"
     /\ remoteRefs' = [remoteRefs EXCEPT ![n] = None]
     /\ pulls' = {pull \in pulls : pull.head # n}
     /\ Set(r, [requests[r] EXCEPT !.at = "ended"])
     /\ UNCHANGED <<localRefs, worktrees, fixedVars>>

RequestDies(r) ==
  /\ requests[r].at \notin {"ended", "dead"}
  /\ Set(r, [requests[r] EXCEPT !.at = "dead"])
  /\ UNCHANGED <<gitVars, fixedVars>>

RequestStep(r) ==
  \/ Validate(r) \/ CheckLocal(r) \/ CheckRemote(r) \/ MakeTempDir(r)
  \/ AddWorktree(r) \/ Prepare(r) \/ Push(r) \/ CreatePull(r)
  \/ RemoveWorktree(r) \/ DeleteBranch(r) \/ DeleteRemote(r) \/ RequestDies(r)

UpgradeNext ==
  \/ \E c \in Clones, n \in BranchNumbers : UserCreatesBranch(c, n)
  \/ \E r \in Requests : RequestStep(r)

UpgradeSpec == UpgradeInit /\ [][UpgradeNext]_upgradeVars

-----------------------------------------------------------------------------
(* Properties *)

\* A branch of origin to which two requests have pushed the same commit.
Shared(n) == \E r \in Requests : requests[r].joined /\ requests[r].branch = n

\* "failed installs/tests/push/PR creation do not strand the user in the
\* generated branch" (docs/UPGRADE-PRS.md:42), and "temporary worktrees are
\* cleaned up" (:43): when a request has ended, wherever it failed, nothing of it
\* is left in its clone, and of origin nothing but its pull request and the branch
\* of it, unless a cleanup command failed or an answer of origin was lost.  What
\* it finds at origin is its own unless another clone has made the same commit.
NothingStranded ==
  \A r \in Requests : requests[r].at = "ended" /\ requests[r].clean =>
    /\ \A w \in worktrees : w.by # r
    /\ \A n \in BranchNumbers : localRefs[clone[r]][n] # r
    /\ ~Shared(requests[r].branch) =>
         /\ \A n \in BranchNumbers : remoteRefs[n] = r <=> \E pull \in pulls : pull.by = r /\ pull.head = n
         /\ requests[r].status = "created" <=> \E pull \in pulls : pull.by = r

\* The pull request of r is open, and its branch has r's commit in it.
Published(r) ==
  LET n == requests[r].branch IN
  /\ remoteRefs[n] = r
  /\ [head |-> n, by |-> r] \in pulls

\* A pull request that was reported stays open and keeps its branch, with its own
\* request's commit in it, whatever the cleanup of other requests for the same
\* upgrade deletes, if no push of the same commit was accepted twice.
PullsKeepTheirBranches ==
  \A r \in Requests : requests[r].prCreated /\ ~Shared(requests[r].branch) => Published(r)

\* The same without the condition: "branch-name collisions are handled
\* deliberately" (docs/UPGRADE-PRS.md:44).
ReportedPullsStay == \A r \in Requests : requests[r].prCreated => Published(r)
=============================================================================
