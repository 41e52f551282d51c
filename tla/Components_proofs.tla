-------------------------- MODULE Components_proofs --------------------------
(***************************************************************************)
(* What is proved of the components that meet no other one: the watch      *)
(* loop, the upgrade requests, the commands of the analyzers, the watched  *)
(* directories, the installed hook, the dependency tree and the parser of  *)
(* the git log, one part of this module for each.                          *)
(***************************************************************************)
EXTENDS WatchLoop, WatchTree, UpgradeRequest, AnalyzerCommand, HookFile,
        DependencyGraph, GitHistory, InductionLemmas

-----------------------------------------------------------------------------
(* The watch loop, for any set of files, any ignored subset and any bound   *)
(* on changes.  A pass is tied to the flag that guards it (PassInv), and    *)
(* nothing is under way before the watcher is registered; with that,        *)
(* NoChangeForgotten is inductive: a file leaves one of the places where    *)
(* its change waits only for the next one.                                  *)

\* Exactly the first pass, or the pass that the running flag stands for, is in
\* progress; and before the watcher is registered nothing else is.
PassInv ==
  /\ watching => passes = IF running THEN 1 ELSE 0
  /\ ~watching => /\ ~running /\ ~timer /\ ~queued /\ events = {} /\ watched = {}
                  /\ passes = IF closed THEN 0 ELSE 1

WatchInv == WatchTypeOK /\ PassInv /\ NoChangeForgotten

\* The type invariant in two parts, so that a step about numbers need not know
\* of the flags nor a step about flags of numbers.
FlagsOK ==
  /\ watching \in BOOLEAN /\ timer \in BOOLEAN /\ running \in BOOLEAN
  /\ queued \in BOOLEAN /\ closed \in BOOLEAN /\ failing \in BOOLEAN

DataOK ==
  /\ version \in [File -> 0..MaxChanges]
  /\ read \in [File -> 0..MaxChanges]
  /\ events \subseteq File
  /\ passes \in 0..1
  /\ toRead \subseteq File
  /\ watched \subseteq File

\* The type invariant is its two parts.
LEMMA TypesSplit == WatchTypeOK <=> FlagsOK /\ DataOK
  BY DEF WatchTypeOK, FlagsOK, DataOK

\* The flags, the sets and the counter have their types, and two passes never
\* overlap, in every reachable state; with it, no change is forgotten.
LEMMA WatchInvInductive == WatchSpec => []WatchInv
<1>1. WatchInit => WatchInv
  <2> SUFFICES ASSUME WatchInit PROVE WatchInv
    OBVIOUS
  <2>1. FlagsOK
    BY DEF WatchInit, FlagsOK
  <2>2. DataOK
    BY WatchAssumption DEF WatchInit, DataOK
  <2>3. PassInv
    BY DEF WatchInit, PassInv
  <2>4. NoChangeForgotten
    BY DEF WatchInit, NoChangeForgotten
  <2> QED
    BY <2>1, <2>2, <2>3, <2>4, TypesSplit DEF WatchInv
<1>2. WatchInv /\ [WatchNext]_watchVars => WatchInv'
  <2> SUFFICES ASSUME WatchInv, [WatchNext]_watchVars PROVE WatchInv'
    OBVIOUS
  <2> USE WatchAssumption DEF WatchInv
  <2>t. FlagsOK /\ DataOK /\ PassInv /\ NoChangeForgotten
    BY TypesSplit
  <2>q. FlagsOK' /\ DataOK' /\ PassInv' /\ NoChangeForgotten' => WatchInv'
    BY DEF WatchTypeOK, FlagsOK, DataOK
  <2>1. CASE UNCHANGED watchVars
    BY <2>1 DEF watchVars, flags, history, WatchTypeOK, PassInv,
       NoChangeForgotten, Stale
  <2>2. ASSUME NEW f \in File, Change(f) PROVE WatchInv'
    BY <2>2 DEF Change, flags, WatchTypeOK, PassInv, NoChangeForgotten, Stale
  <2>3. ASSUME NEW f \in File, Read(f) PROVE WatchInv'
    BY <2>3 DEF Read, flags, history, WatchTypeOK, PassInv, NoChangeForgotten, Stale
  <2>4. ASSUME NEW f \in File, Deliver(f) PROVE WatchInv'
    BY <2>4 DEF Deliver, history, WatchTypeOK, PassInv, NoChangeForgotten, Stale
  <2>5. ASSUME NEW ok \in BOOLEAN, FirstPassEnds(ok) PROVE WatchInv'
    <3>1. passes = 1 /\ passes' = 0
      BY <2>5, <2>t DEF FirstPassEnds, PassInv
    <3>2. FlagsOK'
      BY <2>5, <2>t DEF FirstPassEnds, Ends, FlagsOK
    <3>3. DataOK'
      BY <2>5, <3>1, <2>t DEF FirstPassEnds, DataOK
    <3>4. PassInv'
      BY <2>5, <3>1, <2>t DEF FirstPassEnds, FlagsOK, PassInv
    <3>5. NoChangeForgotten'
      BY <2>5, <2>t DEF FirstPassEnds, PassInv, NoChangeForgotten
    <3> QED
      BY <3>2, <3>3, <3>4, <3>5, <2>q
  <2>6. ASSUME NEW ok \in BOOLEAN, PassEnds(ok) PROVE WatchInv'
    <3>0. /\ watching /\ watching' /\ passes = 1
          /\ \/ running' /\ passes' = passes
             \/ ~running' /\ passes' = passes - 1
      BY <2>6, <2>t, Zenon DEF PassEnds, Ends, PassInv
    <3>1. \/ running' /\ passes' = 1
          \/ ~running' /\ passes' = 0
      BY <3>0
    <3>c. /\ UNCHANGED <<version, read, events, watched>>
          /\ toRead' = File \/ toRead' = {}
      BY <2>6 DEF PassEnds
    <3>2. FlagsOK'
      BY <2>6, <2>t, Zenon DEF PassEnds, Ends, FlagsOK
    <3>3. DataOK'
      BY <3>1, <3>c, <2>t DEF DataOK
    <3>4. PassInv'
      BY <3>0, <3>1, Zenon DEF PassInv
    <3>5. NoChangeForgotten'
      BY <2>6 DEF PassEnds, Ends, Follows, WatchTypeOK, PassInv,
         NoChangeForgotten, Stale
    <3> QED
      BY <3>2, <3>3, <3>4, <3>5, <2>q
  <2>7. CASE TimerFires
    <3>1. watching
      BY <2>7, <2>t DEF TimerFires, PassInv
    <3>2. passes' = IF running THEN passes ELSE 1
      BY <2>7, <3>1, <2>t DEF TimerFires, Idle, PassInv
    <3>3. FlagsOK'
      BY <2>7, <2>t DEF TimerFires, Queue, history, FlagsOK
    <3>c. /\ UNCHANGED <<version, read, events, watched>>
          /\ toRead' = File \/ toRead' = toRead
          /\ passes' = passes \/ passes' = 1
      BY <2>7, <3>2 DEF TimerFires, history
    <3>4. DataOK'
      BY <3>c, <2>t DEF DataOK
    <3>5. PassInv'
      BY <2>7, <3>1, <3>2, <2>t DEF TimerFires, Idle, PassInv
    <3>6. NoChangeForgotten'
      BY <2>7, <2>t DEF TimerFires, Idle, Queue, history, DataOK,
         NoChangeForgotten, Stale
    <3> QED
      BY <3>3, <3>4, <3>5, <3>6, <2>q
  <2>8. CASE Close
    <3>1. WatchTypeOK'
      BY <2>8 DEF Close, history, WatchTypeOK
    <3>2. PassInv'
      BY <2>8 DEF Close, PassInv
    <3>3. NoChangeForgotten'
      BY <2>8 DEF Close, NoChangeForgotten
    <3> QED
      BY <3>1, <3>2, <3>3
  <2> QED
    BY <2>1, <2>2, <2>3, <2>4, <2>5, <2>6, <2>7, <2>8 DEF WatchNext, Loop
<1> QED
  BY <1>1, <1>2, PTL DEF WatchSpec

\* The types of the watch command's state, for every project.
THEOREM WatchTypeCorrect == WatchSpec => []WatchTypeOK
<1>1. WatchInv => WatchTypeOK
  BY DEF WatchInv
<1> QED
  BY <1>1, WatchInvInductive, PTL

\* "This avoids overlapping full scans" (WATCH.md:15).
THEOREM NoOverlap == WatchSpec => []PassesDoNotOverlap
<1>1. WatchInv => PassesDoNotOverlap
  BY DEF WatchInv, WatchTypeOK, PassesDoNotOverlap
<1> QED
  BY <1>1, WatchInvInductive, PTL

\* No change made under the watcher is forgotten (WATCH.md:15), for every project
\* and every number of changes.
THEOREM NothingForgotten == WatchSpec => []NoChangeForgotten
<1>1. WatchInv => NoChangeForgotten
  BY DEF WatchInv
<1> QED
  BY <1>1, WatchInvInductive, PTL

-----------------------------------------------------------------------------
(* The cleanup of upgrade requests, for any number of requests, clones,     *)
(* branch names and branches of the user.                                   *)
(*                                                                          *)
(* A branch of origin to which no second push was accepted changes hands    *)
(* only through its owner: a request deletes it only while it is its own    *)
(* (RemoteOK).  So what one request does leaves what another one owns       *)
(* alone, and each can be looked at by itself (Tidy).  A shared branch      *)
(* stays shared (SharingStays), and nothing is claimed of it.               *)

Early == {"validate", "local", "remote", "tempdir", "add"}
Unpushed == Early \cup {"prepare", "push"}
Stages == Unpushed \cup {"pr", "remove", "branch", "unpush", "ended", "dead"}

Request == [at : Stages, dryRun : BOOLEAN, branch : BranchNumbers, taken : BOOLEAN, pushed : BOOLEAN,
            joined : BOOLEAN, prCreated : BOOLEAN, clean : BOOLEAN, status : {"none", "failed", "previewed", "created"}]

TypesOK ==
  /\ clone \in [Requests -> Clones]
  /\ localRefs \in [Clones -> [BranchNumbers -> Owners]]
  /\ remoteRefs \in [BranchNumbers -> Owners]
  /\ worktrees \subseteq [clone : Clones, branch : BranchNumbers, by : Requests]
  /\ pulls \subseteq [head : BranchNumbers, by : Requests]
  /\ requests \in [Requests -> Request]

HasWorktree(r) == \E w \in worktrees : w.by = r
HasPull(r) == \E pull \in pulls : pull.by = r

\* What is a request's in a clone or at origin has the name it has chosen.
NamesOK(r) ==
  /\ \A c \in Clones : \A n \in BranchNumbers :
       localRefs[c][n] = r => c = clone[r] /\ n = requests[r].branch
  /\ \A n \in BranchNumbers : remoteRefs[n] = r => n = requests[r].branch
  /\ \A pull \in pulls : pull.by = r => pull.head = requests[r].branch

\* A request that has not added its worktree has nothing.
NothingYet(r) ==
  /\ requests[r].at \in Early =>
       /\ ~HasWorktree(r)
       /\ \A c \in Clones : \A n \in BranchNumbers : localRefs[c][n] # r
  /\ requests[r].at \in Unpushed =>
       /\ \A n \in BranchNumbers : remoteRefs[n] # r
       /\ ~requests[r].pushed /\ ~requests[r].joined
  /\ requests[r].at \in Unpushed \cup {"pr"} =>
       /\ ~HasPull(r)
       /\ requests[r].status = "none" /\ ~requests[r].prCreated

\* What a request knows to have pushed is there until it deletes it itself, and
\* for ever once its pull request is known, if the branch is not shared.
RemoteOK(r) ==
  /\ requests[r].prCreated => requests[r].pushed
  /\ requests[r].at = "pr" => requests[r].pushed
  /\ requests[r].at = "unpush" => requests[r].pushed /\ ~requests[r].prCreated
  /\ ~Shared(requests[r].branch) =>
       /\ requests[r].pushed /\ (requests[r].at # "ended" \/ requests[r].prCreated)
            => remoteRefs[requests[r].branch] = r
       /\ requests[r].prCreated => HasPull(r)

\* When nothing has gone wrong in the cleanup and no answer was lost, what a
\* request has left is what it says.
Tidy(r) ==
  requests[r].clean =>
    /\ HasPull(r) => requests[r].prCreated
    /\ requests[r].status = "created" <=> requests[r].prCreated
    /\ ~Shared(requests[r].branch) =>
         /\ requests[r].at # "ended" => (remoteRefs[requests[r].branch] = r <=> requests[r].pushed)
         /\ requests[r].at = "ended" => (remoteRefs[requests[r].branch] = r <=> requests[r].prCreated)
    /\ requests[r].at \in {"branch", "unpush", "ended"} => ~HasWorktree(r)
    /\ requests[r].at \in {"unpush", "ended"} => localRefs[clone[r]][requests[r].branch] # r

\* A worktree has its request's branch checked out, which git then keeps.
WorktreesOK == \A w \in worktrees : localRefs[w.clone][w.branch] = w.by

RequestOK(r) == NamesOK(r) /\ NothingYet(r) /\ RemoteOK(r) /\ Tidy(r)
UpgradeInv == TypesOK /\ WorktreesOK /\ \A r \in Requests : RequestOK(r)

USE DEF Owners

-----------------------------------------------------------------------------
(* A request whose things are left alone *)

\* Request q gains nothing, and loses nothing that it owns alone.
LeftAlone(q) ==
  /\ clone'[q] = clone[q] /\ requests'[q] = requests[q]
  /\ \A c \in Clones : \A n \in BranchNumbers : localRefs'[c][n] = q => localRefs[c][n] = q
  /\ \A n \in BranchNumbers : remoteRefs'[n] = q => remoteRefs[n] = q
  /\ \A w \in worktrees' : w.by = q => w \in worktrees
  /\ \A pull \in pulls' : pull.by = q => pull \in pulls
  /\ ~Shared(requests[q].branch)' =>
       /\ ~Shared(requests[q].branch)
       /\ remoteRefs[requests[q].branch] = q => remoteRefs'[requests[q].branch] = q
       /\ requests[q].prCreated => \A pull \in pulls : pull.by = q => pull \in pulls'

\* A request that a step leaves alone keeps what holds of it.
LEMMA LeftAloneKeeps ==
  ASSUME TypesOK, NEW q \in Requests, RequestOK(q), LeftAlone(q)
  PROVE  RequestOK(q)'
<1>0. requests[q].branch \in BranchNumbers /\ clone[q] \in Clones /\ requests'[q] = requests[q]
  BY DEF TypesOK, Request, LeftAlone
<1>1. /\ HasPull(q)' => HasPull(q)
      /\ ~Shared(requests[q].branch)' /\ requests[q].prCreated /\ HasPull(q) => HasPull(q)'
  BY <1>0 DEF HasPull, LeftAlone
<1>2. HasWorktree(q)' => HasWorktree(q)
  BY DEF HasWorktree, LeftAlone
<1>3. NamesOK(q)'
  BY DEF RequestOK, NamesOK, LeftAlone
<1>4. NothingYet(q)'
  BY <1>1, <1>2 DEF RequestOK, NothingYet, LeftAlone
<1>5. RemoteOK(q)'
  BY <1>0, <1>1 DEF RequestOK, RemoteOK, LeftAlone
<1>6. Tidy(q)'
  BY <1>0, <1>1, <1>2 DEF RequestOK, Tidy, LeftAlone
<1> QED
  BY <1>3, <1>4, <1>5, <1>6 DEF RequestOK

\* A branch that is shared stays so: a request that has joined another one's
\* branch keeps its branch.
LEMMA SharingStays ==
  ASSUME TypesOK, NEW r \in Requests, NEW request \in Request, Set(r, request),
         requests[r].joined => request.joined /\ request.branch = requests[r].branch
  PROVE  \A n : Shared(n) => Shared(n)'
<1>1. \A q \in Requests : requests[q].joined =>
        requests'[q].joined /\ requests'[q].branch = requests[q].branch
  BY DEF TypesOK, Set
<1> QED
  BY <1>1 DEF Shared

\* A step that is one request's own affair.
LEMMA OwnStep ==
  ASSUME TypesOK, NEW r \in Requests, NEW request \in Request, Set(r, request),
         requests[r].joined => request.joined /\ request.branch = requests[r].branch,
         UNCHANGED <<gitVars, fixedVars>>, \A q \in Requests : RequestOK(q), WorktreesOK,
         RequestOK(r)'
  PROVE  UpgradeInv'
<1>1. TypesOK'
  BY DEF TypesOK, Set, gitVars, fixedVars
<1>2. WorktreesOK'
  BY DEF WorktreesOK, gitVars, fixedVars
<1>3. \A q \in Requests \ {r} : LeftAlone(q)
  BY SharingStays DEF LeftAlone, Set, gitVars, fixedVars, TypesOK
<1>4. \A q \in Requests \ {r} : RequestOK(q)'
  BY <1>3, LeftAloneKeeps
<1> QED
  BY <1>1, <1>2, <1>4 DEF UpgradeInv

\* Before its worktree is added a request may choose, end or die as it likes.
LEMMA EarlyMove ==
  ASSUME UpgradeInv, NEW r \in Requests, NEW request \in Request, requests[r].at \in Early,
         Set(r, request), UNCHANGED <<gitVars, fixedVars>>,
         request.at \in Early \cup {"ended", "dead"},
         request.pushed = requests[r].pushed, request.joined = requests[r].joined,
         request.prCreated = requests[r].prCreated,
         request.status # "created", request.at \in Early => request.status = "none"
  PROVE  UpgradeInv'
<1>0. TypesOK /\ WorktreesOK /\ (\A q \in Requests : RequestOK(q)) /\ RequestOK(r)
  BY DEF UpgradeInv
<1>1. requests'[r] = request /\ UNCHANGED <<localRefs, remoteRefs, worktrees, pulls, clone>>
  BY <1>0 DEF Set, TypesOK, gitVars, fixedVars
<1>2. /\ ~HasWorktree(r) /\ ~HasPull(r)
      /\ \A c \in Clones : \A n \in BranchNumbers : localRefs[c][n] # r
      /\ \A n \in BranchNumbers : remoteRefs[n] # r
      /\ ~request.pushed /\ ~request.prCreated /\ ~request.joined /\ ~requests[r].joined
  BY <1>0 DEF RequestOK, NothingYet, Unpushed
<1>3. ~HasWorktree(r)' /\ ~HasPull(r)'
  BY <1>1, <1>2 DEF HasWorktree, HasPull
<1>4. request.branch \in BranchNumbers /\ clone[r] \in Clones
  BY <1>0 DEF Request, TypesOK
<1>5. NamesOK(r)'
  BY <1>1, <1>2 DEF NamesOK, HasPull
<1>6. NothingYet(r)'
  BY <1>1, <1>2, <1>3 DEF NothingYet, Early, Unpushed
<1>7. RemoteOK(r)'
  BY <1>1, <1>2 DEF RemoteOK, HasPull, Early
<1>8. Tidy(r)'
  BY <1>1, <1>2, <1>3, <1>4 DEF Tidy, Early
<1> QED
  BY <1>0, <1>2, <1>5, <1>6, <1>7, <1>8, OwnStep DEF RequestOK

\* The stages of a request after its worktree was added, when only the request
\* itself changes: it goes on, fails, leaves out a step of the cleanup, or dies.
LEMMA LateMove ==
  ASSUME UpgradeInv, NEW r \in Requests, NEW request \in Request,
         Set(r, request), UNCHANGED <<gitVars, fixedVars>>,
         request.branch = requests[r].branch, request.joined = requests[r].joined,
         request.pushed = requests[r].pushed, request.prCreated = requests[r].prCreated,
         \/ /\ requests[r].at \in {"add", "prepare", "push", "pr"} /\ request.at = "remove"
            /\ request.status = "failed" /\ request.clean = requests[r].clean
         \/ /\ requests[r].at = "prepare" /\ request.at = "push"
            /\ request.status = requests[r].status /\ request.clean = requests[r].clean
         \/ /\ request.at \in {"branch", "ended"} /\ ~request.clean
            /\ requests[r].at \in {"remove", "branch", "unpush"}
         \/ /\ request.at = "unpush" /\ ~request.clean /\ Unpublished(r)
            /\ requests[r].at = "branch"
         \/ /\ request.at = "dead" /\ requests[r].at # "ended"
            /\ request.status = requests[r].status /\ request.clean = requests[r].clean
  PROVE  UpgradeInv'
<1>0. TypesOK /\ WorktreesOK /\ (\A q \in Requests : RequestOK(q)) /\ RequestOK(r)
  BY DEF UpgradeInv
<1>1. requests'[r] = request /\ UNCHANGED <<localRefs, remoteRefs, worktrees, pulls, clone>>
  BY <1>0 DEF Set, TypesOK, gitVars, fixedVars
<1>2. (HasWorktree(r)' <=> HasWorktree(r)) /\ (HasPull(r)' <=> HasPull(r))
  BY <1>1 DEF HasWorktree, HasPull
<1>s. Shared(request.branch) => Shared(request.branch)'
  BY <1>0, SharingStays
<1>3. NamesOK(r)'
  BY <1>0, <1>1 DEF RequestOK, NamesOK
<1>4. NothingYet(r)'
  BY <1>0, <1>1, <1>2 DEF RequestOK, NothingYet, Early, Unpushed
<1>5. RemoteOK(r)'
  BY <1>0, <1>1, <1>2, <1>s DEF RequestOK, RemoteOK, NothingYet, Unpublished, Early, Unpushed
<1>6. Tidy(r)'
  BY <1>0, <1>1, <1>2, <1>s DEF RequestOK, Tidy, NothingYet, Early, Unpushed
<1> QED
  BY <1>0, <1>3, <1>4, <1>5, <1>6, OwnStep DEF RequestOK

-----------------------------------------------------------------------------
(* The steps *)

\* The steps before a worktree is added keep the invariant.
LEMMA EarlySteps ==
  ASSUME UpgradeInv, NEW r \in Requests,
         Validate(r) \/ CheckLocal(r) \/ CheckRemote(r) \/ MakeTempDir(r)
  PROVE  UpgradeInv'
<1> DEFINE rq == requests[r]
<1>0. TypesOK /\ RequestOK(r) /\ rq \in Request
  BY DEF UpgradeInv, TypesOK
<1>1. ASSUME rq.at \in Early, NEW status \in {"failed", "previewed"}, Reject(r, status)
      PROVE  UpgradeInv'
  <2> DEFINE new == [rq EXCEPT !.at = "ended", !.status = status]
  <2>1. new \in Request /\ new.at = "ended" /\ new.status = status /\ new.pushed = rq.pushed /\ new.prCreated = rq.prCreated /\ new.joined = rq.joined
    BY <1>0 DEF Request, Stages
  <2>2. Set(r, new) /\ UNCHANGED <<gitVars, fixedVars>>
    BY <1>1 DEF Reject
  <2> HIDE DEF new
  <2> QED
    BY <1>1, <2>1, <2>2, EarlyMove DEF Early
<1>2. ASSUME rq.at \in Early, NEW at \in Early, NEW taken \in BOOLEAN, NEW branch \in BranchNumbers,
             NEW new \in {[rq EXCEPT !.at = at], [rq EXCEPT !.at = at, !.taken = taken],
                          [rq EXCEPT !.at = at, !.branch = branch]},
             Set(r, new), UNCHANGED <<gitVars, fixedVars>>
      PROVE  UpgradeInv'
  <2>1. new \in Request /\ new.at = at /\ new.status = rq.status /\ new.pushed = rq.pushed /\ new.prCreated = rq.prCreated /\ new.joined = rq.joined
    <3>1. at \in Stages
      BY DEF Stages, Unpushed
    <3> QED
      BY <1>0, <1>2, <3>1 DEF Request
  <2>2. rq.status = "none"
    BY <1>0, <1>2 DEF RequestOK, NothingYet, Unpushed
  <2> QED
    BY <1>2, <2>1, <2>2, EarlyMove
<1>b. rq.branch \in BranchNumbers
  BY <1>0 DEF Request
<1>3. CASE Validate(r)
  BY <1>1, <1>2, <1>3, <1>b DEF Validate, Early
<1>4. CASE CheckLocal(r)
  <2>1. PICK exists \in {localRefs[clone[r]][rq.branch] # None, FALSE} :
          Set(r, [rq EXCEPT !.at = "remote", !.taken = exists])
    BY <1>4 DEF CheckLocal
  <2>2. exists \in BOOLEAN
    OBVIOUS
  <2>3. rq.at \in Early /\ UNCHANGED <<gitVars, fixedVars>>
    BY <1>4 DEF CheckLocal, Early
  <2> DEFINE new == [rq EXCEPT !.at = "remote", !.taken = exists]
  <2>4. "remote" \in Early
    BY DEF Early
  <2>5. new \in {[rq EXCEPT !.at = "remote"], [rq EXCEPT !.at = "remote", !.taken = exists],
                 [rq EXCEPT !.at = "remote", !.branch = rq.branch]}
    OBVIOUS
  <2> HIDE DEF new
  <2>6. Set(r, new)
    BY <2>1 DEF new
  <2> QED
    BY <1>2, <1>b, <2>2, <2>3, <2>4, <2>5, <2>6
<1>5. CASE CheckRemote(r)
  <2>1. rq.at \in Early
    BY <1>5 DEF CheckRemote, Early
  <2>2. CASE \E status \in {"failed", "previewed"} : Reject(r, status)
    BY <1>1, <2>1, <2>2
  <2>3. CASE /\ rq.branch + 1 \in BranchNumbers
             /\ Set(r, [rq EXCEPT !.at = "local", !.branch = rq.branch + 1])
             /\ UNCHANGED <<gitVars, fixedVars>>
    <3> DEFINE new == [rq EXCEPT !.at = "local", !.branch = rq.branch + 1]
    <3>1. new \in {[rq EXCEPT !.at = "local"], [rq EXCEPT !.at = "local", !.taken = FALSE],
                   [rq EXCEPT !.at = "local", !.branch = rq.branch + 1]}
      OBVIOUS
    <3>2. Set(r, new) /\ "local" \in Early /\ FALSE \in BOOLEAN
      BY <2>3 DEF Early
    <3> HIDE DEF new
    <3> QED
      BY <1>2, <2>1, <2>3, <3>1, <3>2
  <2>4. CASE Set(r, [rq EXCEPT !.at = "tempdir"]) /\ UNCHANGED <<gitVars, fixedVars>>
    BY <1>2, <1>b, <2>1, <2>4 DEF Early
  <2> QED
    BY <1>5, <2>2, <2>3, <2>4 DEF CheckRemote
<1>6. CASE MakeTempDir(r)
  BY <1>1, <1>2, <1>6, <1>b DEF MakeTempDir, Early
<1> QED
  BY <1>3, <1>4, <1>5, <1>6

\* A command of the try block that fails, a step of the cleanup that is left out,
\* a death, and the preparation of the commit.
LEMMA LateSteps ==
  ASSUME UpgradeInv, NEW r \in Requests,
         \/ \E from \in {"add", "prepare", "push", "pr"} : CommandFails(r, from)
         \/ requests[r].at \notin Early /\ RequestDies(r)
         \/ /\ requests[r].at = "prepare" /\ Set(r, [requests[r] EXCEPT !.at = "push"])
            /\ UNCHANGED <<gitVars, fixedVars>>
         \/ Skip(r, "remove", "branch")
         \/ Skip(r, "branch", IF Unpublished(r) THEN "unpush" ELSE "ended")
         \/ Skip(r, "unpush", "ended")
  PROVE  UpgradeInv'
<1> DEFINE rq == requests[r]
<1>0. TypesOK /\ RequestOK(r) /\ rq \in Request
  BY DEF UpgradeInv, TypesOK
<1>1. CASE \E from \in {"add", "prepare", "push", "pr"} : CommandFails(r, from)
  <2> DEFINE new == [rq EXCEPT !.at = "remove", !.status = "failed"]
  <2>1. /\ new \in Request /\ new.at = "remove" /\ new.status = "failed" /\ new.clean = rq.clean
        /\ new.branch = rq.branch /\ new.pushed = rq.pushed /\ new.prCreated = rq.prCreated /\ new.joined = rq.joined
    BY <1>0 DEF Request, Stages
  <2>2. rq.at \in {"add", "prepare", "push", "pr"} /\ Set(r, new) /\ UNCHANGED <<gitVars, fixedVars>>
    BY <1>1 DEF CommandFails
  <2> HIDE DEF new
  <2> QED
    BY <2>1, <2>2, LateMove
<1>2. CASE requests[r].at \notin Early /\ RequestDies(r)
  <2> DEFINE new == [rq EXCEPT !.at = "dead"]
  <2>1. /\ new \in Request /\ new.at = "dead" /\ new.status = rq.status /\ new.clean = rq.clean
        /\ new.branch = rq.branch /\ new.pushed = rq.pushed /\ new.prCreated = rq.prCreated /\ new.joined = rq.joined
    BY <1>0 DEF Request, Stages
  <2>2. rq.at # "ended" /\ Set(r, new) /\ UNCHANGED <<gitVars, fixedVars>>
    BY <1>2 DEF RequestDies
  <2> HIDE DEF new
  <2> QED
    BY <2>1, <2>2, LateMove
<1>3. CASE /\ rq.at = "prepare" /\ Set(r, [rq EXCEPT !.at = "push"])
           /\ UNCHANGED <<gitVars, fixedVars>>
  <2> DEFINE new == [rq EXCEPT !.at = "push"]
  <2>1. /\ new \in Request /\ new.at = "push" /\ new.status = rq.status /\ new.clean = rq.clean
        /\ new.branch = rq.branch /\ new.pushed = rq.pushed /\ new.prCreated = rq.prCreated /\ new.joined = rq.joined
    BY <1>0 DEF Request, Stages, Unpushed
  <2>2. Set(r, new)
    BY <1>3
  <2> HIDE DEF new
  <2> QED
    BY <1>3, <2>1, <2>2, LateMove
<1>4. ASSUME NEW from \in {"remove", "branch", "unpush"}, NEW to \in {"branch", "unpush", "ended"},
             Skip(r, from, to), to = "unpush" => from = "branch" /\ Unpublished(r)
      PROVE  UpgradeInv'
  <2> DEFINE new == [rq EXCEPT !.at = to, !.clean = FALSE]
  <2>1. /\ new \in Request /\ new.at = to /\ ~new.clean
        /\ new.branch = rq.branch /\ new.pushed = rq.pushed /\ new.prCreated = rq.prCreated /\ new.joined = rq.joined
    BY <1>0 DEF Request, Stages
  <2>2. rq.at = from /\ Set(r, new) /\ UNCHANGED <<gitVars, fixedVars>>
    BY <1>4 DEF Skip
  <2> HIDE DEF new
  <2> QED
    BY <1>4, <2>1, <2>2, LateMove
<1> QED
  BY <1>1, <1>2, <1>3, <1>4

\* The other requests, when one of them acts on what is its own or nobody's.
LEMMA OthersKeep ==
  ASSUME UpgradeInv, NEW r \in Requests, NEW request \in Request, Set(r, request), UNCHANGED fixedVars,
         \A q \in Requests \ {r} : LeftAlone(q),
         TypesOK', WorktreesOK', RequestOK(r)'
  PROVE  UpgradeInv'
  BY LeftAloneKeeps DEF UpgradeInv

\* git worktree add: the branch was nobody's.
LEMMA AddKeeps ==
  ASSUME UpgradeInv, NEW r \in Requests, AddWorktree(r)
  PROVE  UpgradeInv'
<1> DEFINE rq == requests[r]
           c == clone[r]
           n == rq.branch
<1>0. TypesOK /\ WorktreesOK /\ RequestOK(r) /\ rq \in Request /\ c \in Clones /\ n \in BranchNumbers
  BY DEF UpgradeInv, TypesOK, Request
<1>1. CASE CommandFails(r, "add")
  BY <1>1, LateSteps
<1>2. CASE ~CommandFails(r, "add")
  <2>1. /\ rq.at = "add" /\ localRefs[c][n] = None
        /\ localRefs' = [localRefs EXCEPT ![c][n] = r]
        /\ worktrees' = worktrees \cup {[clone |-> c, branch |-> n, by |-> r]}
        /\ UNCHANGED <<remoteRefs, pulls, fixedVars>>
    BY <1>2 DEF AddWorktree, Refs
  <2>2. PICK next \in {"prepare", "remove"} :
          Set(r, [rq EXCEPT !.at = next, !.status = IF next = "remove" THEN "failed" ELSE @])
    BY <1>2 DEF AddWorktree
  <2> DEFINE new == [rq EXCEPT !.at = next, !.status = IF next = "remove" THEN "failed" ELSE @]
  <2>3. /\ new \in Request /\ new.at = next /\ new.branch = n /\ new.clean = rq.clean
        /\ new.pushed = rq.pushed /\ new.prCreated = rq.prCreated /\ new.joined = rq.joined
        /\ new.status = IF next = "remove" THEN "failed" ELSE rq.status
    BY <1>0 DEF Request, Stages, Unpushed
  <2>4. Set(r, new)
    BY <2>2
  <2> HIDE DEF new
  <2>5. requests' = [requests EXCEPT ![r] = new] /\ requests'[r] = new /\ clone' = clone
    BY <1>0, <2>1, <2>4 DEF Set, TypesOK, fixedVars
  <2>6. \A d \in Clones : \A k \in BranchNumbers :
          localRefs'[d][k] = IF d = c /\ k = n THEN r ELSE localRefs[d][k]
    BY <1>0, <2>1 DEF TypesOK
  <2>7. TypesOK'
    BY <1>0, <2>1, <2>3, <2>5 DEF TypesOK, fixedVars
  <2>8. WorktreesOK'
    <3> SUFFICES ASSUME NEW w \in worktrees' PROVE localRefs'[w.clone][w.branch] = w.by
      BY DEF WorktreesOK
    <3>1. CASE w \in worktrees
      <4>1. localRefs[w.clone][w.branch] = w.by /\ w.clone \in Clones /\ w.branch \in BranchNumbers /\ w.by \in Requests
        BY <1>0, <3>1 DEF WorktreesOK, TypesOK
      <4> QED
        BY <2>1, <2>6, <4>1, UpgradeAssumption DEF UpgradeAssumption
    <3>2. CASE w = [clone |-> c, branch |-> n, by |-> r]
      BY <1>0, <2>6, <3>2
    <3> QED
      BY <2>1, <3>1, <3>2
  <2>s. \A k : Shared(k) => Shared(k)'
    BY <1>0, <2>3, <2>4, SharingStays
  <2>9. \A q \in Requests \ {r} : LeftAlone(q)
    BY <1>0, <2>1, <2>5, <2>6, <2>s DEF LeftAlone, TypesOK
  <2>10. RequestOK(r)'
    <3>0. /\ ~HasPull(r)' /\ ~new.pushed /\ ~new.prCreated /\ ~new.joined /\ rq.status = "none"
          /\ \A k \in BranchNumbers : remoteRefs'[k] # r
      BY <1>0, <2>1, <2>3 DEF RequestOK, NothingYet, Early, Unpushed, HasPull
    <3>1. \A d \in Clones : \A k \in BranchNumbers : localRefs[d][k] # r
      BY <1>0, <2>1 DEF RequestOK, NothingYet, Early
    <3>2. NamesOK(r)'
      BY <2>3, <2>5, <2>6, <3>0, <3>1 DEF NamesOK, HasPull
    <3>3. NothingYet(r)'
      BY <2>3, <2>5, <3>0 DEF NothingYet, Early, Unpushed
    <3>4. RemoteOK(r)'
      BY <2>3, <2>5, <3>0 DEF RemoteOK, HasPull
    <3>5. Tidy(r)'
      BY <1>0, <2>3, <2>5, <3>0 DEF Tidy
    <3> QED
      BY <3>2, <3>3, <3>4, <3>5 DEF RequestOK
  <2> QED
    BY <2>1, <2>3, <2>4, <2>7, <2>8, <2>9, <2>10, OthersKeep
<1> QED
  BY <1>1, <1>2

\* git push: the name was free at origin, or becomes a shared one.
LEMMA PushKeeps ==
  ASSUME UpgradeInv, NEW r \in Requests, Push(r)
  PROVE  UpgradeInv'
<1> DEFINE rq == requests[r]
           n == rq.branch
<1>0. TypesOK /\ WorktreesOK /\ RequestOK(r) /\ rq \in Request /\ n \in BranchNumbers
  BY DEF UpgradeInv, TypesOK, Request
<1>1. CASE CommandFails(r, "push")
  BY <1>1, LateSteps
<1>2. CASE /\ rq.at = "push" /\ remoteRefs[n] = None
           /\ remoteRefs' = [remoteRefs EXCEPT ![n] = r]
           /\ \/ Set(r, [rq EXCEPT !.at = "pr", !.pushed = TRUE])
              \/ Set(r, [rq EXCEPT !.at = "remove", !.clean = FALSE, !.status = "failed"])
           /\ UNCHANGED <<localRefs, worktrees, pulls, fixedVars>>
  <2>1. /\ rq.at = "push" /\ remoteRefs[n] = None
        /\ remoteRefs' = [remoteRefs EXCEPT ![n] = r]
        /\ UNCHANGED <<localRefs, worktrees, pulls, fixedVars>>
    BY <1>2
  <2>2. PICK new \in Request :
          /\ Set(r, new)
          /\ new.branch = n /\ new.joined = rq.joined /\ new.prCreated = rq.prCreated
          /\ \/ new.at = "pr" /\ new.pushed /\ new.status = rq.status /\ new.clean = rq.clean
             \/ new.at = "remove" /\ ~new.clean /\ new.status = "failed" /\ new.pushed = rq.pushed
    <3>1. CASE Set(r, [rq EXCEPT !.at = "pr", !.pushed = TRUE])
      <4> DEFINE m == [rq EXCEPT !.at = "pr", !.pushed = TRUE]
      <4>1. /\ m \in Request /\ m.branch = n /\ m.joined = rq.joined /\ m.prCreated = rq.prCreated
            /\ m.at = "pr" /\ m.pushed /\ m.status = rq.status /\ m.clean = rq.clean
        BY <1>0 DEF Request, Stages
      <4> HIDE DEF m
      <4> QED
        BY <3>1, <4>1 DEF m
    <3>2. CASE Set(r, [rq EXCEPT !.at = "remove", !.clean = FALSE, !.status = "failed"])
      <4> DEFINE m == [rq EXCEPT !.at = "remove", !.clean = FALSE, !.status = "failed"]
      <4>1. /\ m \in Request /\ m.branch = n /\ m.joined = rq.joined /\ m.prCreated = rq.prCreated
            /\ m.at = "remove" /\ ~m.clean /\ m.status = "failed" /\ m.pushed = rq.pushed
        BY <1>0 DEF Request, Stages
      <4> HIDE DEF m
      <4> QED
        BY <3>2, <4>1 DEF m
    <3> QED
      BY <1>2, <3>1, <3>2
  <2>3. requests' = [requests EXCEPT ![r] = new] /\ requests'[r] = new /\ clone' = clone
    BY <1>0, <2>1, <2>2 DEF Set, TypesOK, fixedVars
  <2>4. \A k \in BranchNumbers : remoteRefs'[k] = IF k = n THEN r ELSE remoteRefs[k]
    BY <1>0, <2>1 DEF TypesOK
  <2>5. TypesOK' /\ WorktreesOK'
    BY <1>0, <2>1, <2>2, <2>3 DEF TypesOK, WorktreesOK, fixedVars
  <2>s. \A k : Shared(k) => Shared(k)'
    BY <1>0, <2>2, SharingStays
  <2>6. \A q \in Requests \ {r} : LeftAlone(q)
    BY <1>0, <2>1, <2>3, <2>4, <2>s, UpgradeAssumption DEF LeftAlone, TypesOK, UpgradeAssumption
  <2>7. RequestOK(r)'
    <3>0. /\ ~HasPull(r)' /\ ~new.prCreated /\ ~new.joined /\ rq.status = "none" /\ ~rq.pushed
          /\ \A pull \in pulls' : pull.by # r
      BY <1>0, <2>1, <2>2 DEF RequestOK, NothingYet, Unpushed, HasPull
    <3>2. NamesOK(r)'
      BY <1>0, <2>1, <2>2, <2>3, <2>4, <3>0 DEF RequestOK, NamesOK
    <3>3. NothingYet(r)'
      BY <2>2, <2>3, <3>0 DEF NothingYet, Early, Unpushed
    <3>4. RemoteOK(r)'
      BY <1>0, <2>2, <2>3, <2>4, <3>0 DEF RemoteOK
    <3>5. Tidy(r)'
      BY <1>0, <2>2, <2>3, <2>4, <3>0 DEF Tidy
    <3> QED
      BY <3>2, <3>3, <3>4, <3>5 DEF RequestOK
  <2> QED
    BY <2>1, <2>2, <2>5, <2>6, <2>7, OthersKeep
<1>3. CASE /\ rq.at = "push" /\ UNCHANGED <<gitVars, fixedVars>>
           /\ Set(r, [rq EXCEPT !.at = "pr", !.pushed = TRUE, !.joined = TRUE])
  <2> DEFINE new == [rq EXCEPT !.at = "pr", !.pushed = TRUE, !.joined = TRUE]
  <2>1. /\ new \in Request /\ new.branch = n /\ new.prCreated = rq.prCreated
        /\ new.at = "pr" /\ new.pushed /\ new.joined /\ new.status = rq.status /\ new.clean = rq.clean
    BY <1>0 DEF Request, Stages
  <2>2. Set(r, new) /\ UNCHANGED <<localRefs, remoteRefs, worktrees, pulls, clone>>
    BY <1>3 DEF gitVars, fixedVars
  <2> HIDE DEF new
  <2>3. requests'[r] = new
    BY <1>0, <2>2 DEF Set, TypesOK
  <2>4. Shared(n)'
    BY <2>1, <2>3 DEF Shared
  <2>5. ~HasPull(r)' /\ ~new.prCreated /\ rq.status = "none"
    BY <1>0, <1>3, <2>1, <2>2 DEF RequestOK, NothingYet, Unpushed, HasPull
  <2>6. NamesOK(r)'
    BY <1>0, <2>1, <2>2, <2>3 DEF RequestOK, NamesOK
  <2>7. NothingYet(r)'
    BY <2>1, <2>3, <2>5 DEF NothingYet, Early, Unpushed
  <2>8. RemoteOK(r)'
    BY <2>1, <2>3, <2>4, <2>5 DEF RemoteOK
  <2>9. Tidy(r)'
    BY <2>1, <2>3, <2>4, <2>5 DEF Tidy
  <2> QED
    BY <1>0, <1>3, <2>1, <2>2, <2>6, <2>7, <2>8, <2>9, OwnStep DEF RequestOK, UpgradeInv
<1> QED
  BY <1>1, <1>2, <1>3 DEF Push

\* gh pr create: the branch was pushed, and if it is not shared nobody else can
\* delete it.
LEMMA PullKeeps ==
  ASSUME UpgradeInv, NEW r \in Requests, CreatePull(r)
  PROVE  UpgradeInv'
<1> DEFINE rq == requests[r]
           n == rq.branch
<1>0. TypesOK /\ WorktreesOK /\ RequestOK(r) /\ rq \in Request /\ n \in BranchNumbers
  BY DEF UpgradeInv, TypesOK, Request
<1>1. CASE CommandFails(r, "pr")
  BY <1>1, LateSteps
<1>2. CASE ~CommandFails(r, "pr")
  <2>1. /\ rq.at = "pr"
        /\ UNCHANGED <<localRefs, remoteRefs, worktrees, fixedVars>>
    BY <1>2 DEF CreatePull
  <2>2. PICK known \in BOOLEAN :
          /\ pulls' = pulls \cup {[head |-> n, by |-> r]}
          /\ Set(r, [rq EXCEPT !.at = "remove", !.prCreated = known, !.clean = known,
                       !.status = IF known THEN "created" ELSE "failed"])
    BY <1>2 DEF CreatePull
  <2> DEFINE new == [rq EXCEPT !.at = "remove", !.prCreated = known, !.clean = known,
                       !.status = IF known THEN "created" ELSE "failed"]
             pull0 == [head |-> n, by |-> r]
  <2>3. /\ new \in Request /\ new.at = "remove" /\ new.branch = n /\ new.pushed = rq.pushed
        /\ new.joined = rq.joined /\ new.prCreated = known /\ new.clean = known
        /\ new.status = IF known THEN "created" ELSE "failed"
    BY <1>0 DEF Request, Stages
  <2>4. pull0 \in [head : BranchNumbers, by : Requests] /\ pull0.by = r /\ pull0.head = n
    BY <1>0
  <2>5. Set(r, new) /\ pulls' = pulls \cup {pull0}
    BY <2>2
  <2> HIDE DEF new, pull0
  <2>6. requests' = [requests EXCEPT ![r] = new] /\ requests'[r] = new /\ clone' = clone
    BY <1>0, <2>1, <2>5 DEF Set, TypesOK, fixedVars
  <2>7. TypesOK'
    BY <1>0, <2>1, <2>3, <2>4, <2>5, <2>6 DEF TypesOK, fixedVars
  <2>8. WorktreesOK'
    BY <1>0, <2>1 DEF WorktreesOK
  <2>s. \A k : Shared(k) => Shared(k)'
    BY <1>0, <2>3, <2>5, SharingStays
  <2>9. \A q \in Requests \ {r} : LeftAlone(q)
    BY <1>0, <2>1, <2>4, <2>5, <2>6, <2>s DEF LeftAlone, TypesOK
  <2>10. RequestOK(r)'
    <3>0. rq.pushed /\ ~HasPull(r) /\ (~Shared(n)' => remoteRefs[n] = r)
      BY <1>0, <2>1, <2>3, <2>6, <2>s DEF RequestOK, NothingYet, RemoteOK, Unpushed
    <3>1. HasPull(r)' /\ \A pull \in pulls' : pull.by = r => pull = pull0
      BY <2>4, <2>5, <3>0 DEF HasPull
    <3>2. NamesOK(r)'
      BY <1>0, <2>1, <2>3, <2>4, <2>6, <3>1 DEF RequestOK, NamesOK
    <3>3. NothingYet(r)'
      BY <2>3, <2>6 DEF NothingYet, Early, Unpushed
    <3>4. RemoteOK(r)'
      BY <2>1, <2>3, <2>4, <2>6, <3>0, <3>1 DEF RemoteOK
    <3>5. Tidy(r)'
      BY <2>1, <2>3, <2>6, <3>0, <3>1 DEF Tidy
    <3> QED
      BY <3>2, <3>3, <3>4, <3>5 DEF RequestOK
  <2> QED
    BY <2>1, <2>3, <2>5, <2>7, <2>8, <2>9, <2>10, OthersKeep
<1> QED
  BY <1>1, <1>2

\* git worktree remove: the request's own.
LEMMA RemoveKeeps ==
  ASSUME UpgradeInv, NEW r \in Requests, RemoveWorktree(r)
  PROVE  UpgradeInv'
<1> DEFINE rq == requests[r]
           new == [rq EXCEPT !.at = "branch"]
<1>0. TypesOK /\ WorktreesOK /\ RequestOK(r) /\ rq \in Request
  BY DEF UpgradeInv, TypesOK
<1>1. CASE Skip(r, "remove", "branch")
  BY <1>1, LateSteps
<1>2. CASE /\ rq.at = "remove"
           /\ worktrees' = {w \in worktrees : w.by # r}
           /\ Set(r, new)
           /\ UNCHANGED <<localRefs, remoteRefs, pulls, fixedVars>>
  <2>3. /\ new \in Request /\ new.at = "branch" /\ new.branch = rq.branch /\ new.pushed = rq.pushed
        /\ new.joined = rq.joined /\ new.prCreated = rq.prCreated /\ new.clean = rq.clean /\ new.status = rq.status
    BY <1>0 DEF Request, Stages
  <2>4. Set(r, new)
    BY <1>2
  <2> HIDE DEF new
  <2>6. requests' = [requests EXCEPT ![r] = new] /\ requests'[r] = new /\ clone' = clone
    BY <1>0, <1>2, <2>4 DEF Set, TypesOK, fixedVars
  <2>7. TypesOK' /\ WorktreesOK'
    BY <1>0, <1>2, <2>3, <2>6 DEF TypesOK, WorktreesOK, fixedVars
  <2>s. \A k : Shared(k) => Shared(k)'
    BY <1>0, <2>3, <2>4, SharingStays
  <2>9. \A q \in Requests \ {r} : LeftAlone(q)
    BY <1>0, <1>2, <2>6, <2>s DEF LeftAlone, TypesOK
  <2>10. RequestOK(r)'
    <3>1. ~HasWorktree(r)' /\ (HasPull(r)' <=> HasPull(r))
      BY <1>2 DEF HasWorktree, HasPull
    <3>2. NamesOK(r)'
      BY <1>0, <1>2, <2>3, <2>6 DEF RequestOK, NamesOK
    <3>3. NothingYet(r)'
      BY <2>3, <2>6 DEF NothingYet, Early, Unpushed
    <3>4. RemoteOK(r)'
      BY <1>0, <1>2, <2>3, <2>6, <2>s, <3>1 DEF RequestOK, RemoteOK
    <3>5. Tidy(r)'
      BY <1>0, <1>2, <2>3, <2>6, <2>s, <3>1 DEF RequestOK, Tidy
    <3> QED
      BY <3>2, <3>3, <3>4, <3>5 DEF RequestOK
  <2> QED
    BY <1>2, <2>3, <2>4, <2>7, <2>9, <2>10, OthersKeep
<1> QED
  BY <1>1, <1>2 DEF RemoveWorktree

\* git branch -D: a branch that is checked out stays, and then it is the branch of
\* the worktree's request.
LEMMA DeleteBranchKeeps ==
  ASSUME UpgradeInv, NEW r \in Requests, DeleteBranch(r)
  PROVE  UpgradeInv'
<1> DEFINE rq == requests[r]
           c == clone[r]
           n == rq.branch
           next == IF Unpublished(r) THEN "unpush" ELSE "ended"
           new == [rq EXCEPT !.at = next]
<1>0. TypesOK /\ WorktreesOK /\ RequestOK(r) /\ rq \in Request /\ c \in Clones /\ n \in BranchNumbers
  BY DEF UpgradeInv, TypesOK, Request
<1>1. CASE Skip(r, "branch", next)
  BY <1>1, LateSteps
<1>2. CASE /\ rq.at = "branch"
           /\ IF CheckedOut(c, n) THEN UNCHANGED localRefs ELSE Refs(c, n, None)
           /\ Set(r, new)
           /\ UNCHANGED <<remoteRefs, worktrees, pulls, fixedVars>>
  <2>1. next \in {"unpush", "ended"} /\ (next = "unpush" <=> rq.pushed /\ ~rq.prCreated)
    BY DEF Unpublished
  <2>3. /\ new \in Request /\ new.at = next /\ new.branch = n /\ new.pushed = rq.pushed
        /\ new.joined = rq.joined /\ new.prCreated = rq.prCreated /\ new.clean = rq.clean /\ new.status = rq.status
    <3> HIDE DEF next
    <3> QED
      BY <1>0, <2>1 DEF Request, Stages
  <2>4. Set(r, new)
    BY <1>2
  <2> HIDE DEF new, next
  <2>5. /\ \A d \in Clones : \A k \in BranchNumbers :
             localRefs'[d][k] = IF d = c /\ k = n /\ ~CheckedOut(c, n) THEN None ELSE localRefs[d][k]
        /\ localRefs' \in [Clones -> [BranchNumbers -> Owners]]
    <3>0. localRefs \in [Clones -> [BranchNumbers -> Owners]]
      BY <1>0 DEF TypesOK
    <3>1. CASE CheckedOut(c, n)
      BY <1>2, <3>0, <3>1
    <3>2. CASE ~CheckedOut(c, n)
      <4>1. localRefs' = [localRefs EXCEPT ![c][n] = None]
        BY <1>2, <3>2 DEF Refs
      <4>2. \A d \in Clones : \A k \in BranchNumbers :
              localRefs'[d][k] = IF d = c /\ k = n THEN None ELSE localRefs[d][k]
        BY <1>0, <3>0, <4>1
      <4>3. localRefs' \in [Clones -> [BranchNumbers -> Owners]]
        BY <1>0, <3>0, <4>1
      <4> QED
        BY <3>2, <4>2, <4>3
    <3> QED
      BY <3>1, <3>2
  <2>6. requests' = [requests EXCEPT ![r] = new] /\ requests'[r] = new /\ clone' = clone
    BY <1>0, <1>2, <2>4 DEF Set, TypesOK, fixedVars
  <2>7. TypesOK'
    BY <1>0, <1>2, <2>3, <2>5, <2>6 DEF TypesOK, fixedVars
  <2>8. WorktreesOK'
    <3> SUFFICES ASSUME NEW w \in worktrees PROVE localRefs'[w.clone][w.branch] = w.by
      BY <1>2 DEF WorktreesOK
    <3>1. w.clone \in Clones /\ w.branch \in BranchNumbers /\ localRefs[w.clone][w.branch] = w.by
      BY <1>0 DEF TypesOK, WorktreesOK
    <3>2. w.clone = c /\ w.branch = n => CheckedOut(c, n)
      BY DEF CheckedOut
    <3> QED
      BY <2>5, <3>1, <3>2
  <2>s. \A k : Shared(k) => Shared(k)'
    BY <1>0, <2>3, <2>4, SharingStays
  <2>9. \A q \in Requests \ {r} : LeftAlone(q)
    BY <1>0, <1>2, <2>5, <2>6, <2>s, UpgradeAssumption DEF LeftAlone, TypesOK, UpgradeAssumption
  <2>10. RequestOK(r)'
    <3>1. (HasWorktree(r)' <=> HasWorktree(r)) /\ (HasPull(r)' <=> HasPull(r))
      BY <1>2 DEF HasWorktree, HasPull
    <3>2. NamesOK(r)'
      BY <1>0, <1>2, <2>3, <2>5, <2>6, UpgradeAssumption DEF RequestOK, NamesOK, UpgradeAssumption
    <3>3. NothingYet(r)'
      BY <2>1, <2>3, <2>6 DEF NothingYet, Early, Unpushed
    <3>4. RemoteOK(r)'
      BY <1>0, <1>2, <2>1, <2>3, <2>6, <2>s, <3>1 DEF RequestOK, RemoteOK
    <3>5. rq.clean => localRefs'[c][n] # r
      <4>1. CASE CheckedOut(c, n)
        <5>1. PICK w \in worktrees : w.clone = c /\ w.branch = n
          BY <4>1 DEF CheckedOut
        <5>2. localRefs[c][n] = w.by
          BY <1>0, <5>1 DEF WorktreesOK
        <5>3. rq.clean => w.by # r
          BY <1>0, <1>2, <5>1 DEF RequestOK, Tidy, HasWorktree
        <5> QED
          BY <1>0, <2>5, <4>1, <5>2, <5>3
      <4>2. CASE ~CheckedOut(c, n)
        BY <1>0, <2>5, <4>2, UpgradeAssumption DEF UpgradeAssumption
      <4> QED
        BY <4>1, <4>2
    <3>6. Tidy(r)'
      <4>1. rq.clean => /\ HasPull(r)' => rq.prCreated
                        /\ rq.status = "created" <=> rq.prCreated
                        /\ ~Shared(n)' => (remoteRefs'[n] = r <=> rq.pushed)
                        /\ ~HasWorktree(r)'
        BY <1>0, <1>2, <2>3, <2>6, <2>s, <3>1 DEF RequestOK, Tidy
      <4>2. rq.prCreated => rq.pushed
        BY <1>0 DEF RequestOK, RemoteOK
      <4> QED
        BY <2>1, <2>3, <2>6, <3>5, <4>1, <4>2 DEF Tidy
    <3> QED
      BY <3>2, <3>3, <3>4, <3>6 DEF RequestOK
  <2> QED
    BY <1>2, <2>3, <2>4, <2>7, <2>8, <2>9, <2>10, OthersKeep
<1> QED
  BY <1>1, <1>2 DEF DeleteBranch

\* git push --delete: the branch the request has pushed is still its own, unless it
\* is shared.
LEMMA DeleteRemoteKeeps ==
  ASSUME UpgradeInv, NEW r \in Requests, DeleteRemote(r)
  PROVE  UpgradeInv'
<1> DEFINE rq == requests[r]
           n == rq.branch
           new == [rq EXCEPT !.at = "ended"]
<1>0. TypesOK /\ WorktreesOK /\ RequestOK(r) /\ rq \in Request /\ n \in BranchNumbers
  BY DEF UpgradeInv, TypesOK, Request
<1>1. CASE Skip(r, "unpush", "ended")
  BY <1>1, LateSteps
<1>2. CASE /\ rq.at = "unpush"
           /\ remoteRefs' = [remoteRefs EXCEPT ![n] = None]
           /\ pulls' = {pull \in pulls : pull.head # n}
           /\ Set(r, new)
           /\ UNCHANGED <<localRefs, worktrees, fixedVars>>
  <2>3. /\ new \in Request /\ new.at = "ended" /\ new.branch = n /\ new.pushed = rq.pushed
        /\ new.joined = rq.joined /\ new.prCreated = rq.prCreated /\ new.clean = rq.clean /\ new.status = rq.status
    BY <1>0 DEF Request, Stages
  <2>4. Set(r, new)
    BY <1>2
  <2> HIDE DEF new
  <2>5. \A k \in BranchNumbers : remoteRefs'[k] = IF k = n THEN None ELSE remoteRefs[k]
    BY <1>0, <1>2 DEF TypesOK
  <2>6. requests' = [requests EXCEPT ![r] = new] /\ requests'[r] = new /\ clone' = clone
    BY <1>0, <1>2, <2>4 DEF Set, TypesOK, fixedVars
  <2>7. TypesOK' /\ WorktreesOK'
    BY <1>0, <1>2, <2>3, <2>6 DEF TypesOK, WorktreesOK, fixedVars
  <2>8. ~rq.prCreated /\ rq.pushed /\ (~Shared(n) => remoteRefs[n] = r)
    BY <1>0, <1>2 DEF RequestOK, RemoteOK
  <2>s. \A k : Shared(k) => Shared(k)'
    BY <1>0, <2>3, <2>4, SharingStays
  <2>9. ASSUME NEW q \in Requests \ {r} PROVE LeftAlone(q)
    <3> DEFINE k == requests[q].branch
    <3>0. RequestOK(q) /\ k \in BranchNumbers
      BY <1>0 DEF UpgradeInv, TypesOK, Request
    <3>1. clone'[q] = clone[q] /\ requests'[q] = requests[q]
      BY <1>0, <2>6 DEF TypesOK
    <3>2. \A j \in BranchNumbers : remoteRefs'[j] = q => remoteRefs[j] = q
      BY <2>5, UpgradeAssumption DEF UpgradeAssumption
    <3>3. ~Shared(k)' => /\ ~Shared(k)
                         /\ remoteRefs[k] = q => remoteRefs'[k] = q
      BY <2>5, <2>8, <2>s, <3>0, <3>1
    <3>4. ASSUME ~Shared(k)', requests[q].prCreated, NEW pull \in pulls, pull.by = q
          PROVE  pull \in pulls'
      <4>1. remoteRefs[k] = q /\ pull.head = k
        BY <2>s, <3>0, <3>1, <3>4 DEF RequestOK, RemoteOK, NamesOK
      <4>2. k # n
        BY <2>8, <2>s, <3>1, <3>4, <4>1
      <4> QED
        BY <1>2, <3>4, <4>1, <4>2
    <3> QED
      BY <1>2, <3>1, <3>2, <3>3, <3>4 DEF LeftAlone
  <2>10. RequestOK(r)'
    <3>1. (HasWorktree(r)' <=> HasWorktree(r)) /\ (HasPull(r)' => HasPull(r))
      BY <1>2 DEF HasWorktree, HasPull
    <3>2. NamesOK(r)'
      BY <1>0, <1>2, <2>3, <2>5, <2>6, UpgradeAssumption DEF RequestOK, NamesOK, UpgradeAssumption
    <3>3. NothingYet(r)'
      BY <2>3, <2>6 DEF NothingYet, Early, Unpushed
    <3>4. RemoteOK(r)'
      BY <1>0, <1>2, <2>3, <2>6, <2>8, <2>s DEF RequestOK, RemoteOK
    <3>5. remoteRefs'[n] # r
      BY <1>0, <2>5, UpgradeAssumption DEF UpgradeAssumption
    <3>6. Tidy(r)'
      BY <1>0, <1>2, <2>3, <2>6, <2>8, <2>s, <3>1, <3>5 DEF RequestOK, Tidy
    <3> QED
      BY <3>2, <3>3, <3>4, <3>6 DEF RequestOK
  <2> QED
    BY <1>2, <2>3, <2>4, <2>7, <2>9, <2>10, OthersKeep
<1> QED
  BY <1>1, <1>2 DEF DeleteRemote

\* The user's branches take names that are free, and no request's.
LEMMA UserKeeps ==
  ASSUME UpgradeInv, NEW c \in Clones, NEW n \in BranchNumbers, UserCreatesBranch(c, n)
  PROVE  UpgradeInv'
<1>0. TypesOK /\ WorktreesOK /\ \A q \in Requests : RequestOK(q)
  BY DEF UpgradeInv
<1>1. /\ localRefs[c][n] = None /\ UNCHANGED <<clone, remoteRefs, worktrees, pulls, requests>>
      /\ \A d \in Clones : \A k \in BranchNumbers :
           localRefs'[d][k] = IF d = c /\ k = n THEN User ELSE localRefs[d][k]
      /\ localRefs' \in [Clones -> [BranchNumbers -> Owners]]
  BY <1>0 DEF UserCreatesBranch, TypesOK
<1>2. TypesOK'
  BY <1>0, <1>1 DEF TypesOK
<1>3. WorktreesOK'
  <2> SUFFICES ASSUME NEW w \in worktrees PROVE localRefs'[w.clone][w.branch] = w.by
    BY <1>1 DEF WorktreesOK
  <2>1. w.clone \in Clones /\ w.branch \in BranchNumbers /\ w.by \in Requests /\ localRefs[w.clone][w.branch] = w.by
    BY <1>0 DEF TypesOK, WorktreesOK
  <2> QED
    BY <1>1, <2>1, UpgradeAssumption DEF UpgradeAssumption
<1>4. \A q \in Requests : LeftAlone(q)
  BY <1>1, UpgradeAssumption DEF LeftAlone, Shared, UpgradeAssumption
<1> QED
  BY <1>0, <1>2, <1>3, <1>4, LeftAloneKeeps DEF UpgradeInv

\* A request can die at any stage.
LEMMA DeathKeeps ==
  ASSUME UpgradeInv, NEW r \in Requests, RequestDies(r)
  PROVE  UpgradeInv'
<1>1. CASE requests[r].at \notin Early
  BY <1>1, LateSteps
<1>2. CASE requests[r].at \in Early
  <2> DEFINE new == [requests[r] EXCEPT !.at = "dead"]
  <2>0. requests[r] \in Request /\ RequestOK(r)
    BY DEF UpgradeInv, TypesOK
  <2>1. /\ new \in Request /\ new.at = "dead" /\ new.status = requests[r].status
        /\ new.pushed = requests[r].pushed /\ new.prCreated = requests[r].prCreated /\ new.joined = requests[r].joined
    BY <2>0 DEF Request, Stages
  <2>2. Set(r, new) /\ UNCHANGED <<gitVars, fixedVars>>
    BY DEF RequestDies
  <2>3. requests[r].status = "none"
    BY <1>2, <2>0 DEF RequestOK, NothingYet, Unpushed
  <2> HIDE DEF new
  <2> QED
    BY <1>2, <2>1, <2>2, <2>3, EarlyMove DEF Early
<1> QED
  BY <1>1, <1>2

-----------------------------------------------------------------------------
(* Theorems *)

\* There is a first branch name.
LEMMA FirstExists == First \in BranchNumbers
<1>1. PICK n \in BranchNumbers : \A k \in BranchNumbers : ~(<<k, n>> \in OpToRel(<, Nat))
  BY NatLessThanWellFounded, WFMin, UpgradeAssumption DEF UpgradeAssumption
<1>2. \A k \in BranchNumbers : ~(k < n)
  BY <1>1, UpgradeAssumption DEF OpToRel, UpgradeAssumption
<1>3. \A k \in BranchNumbers : n <= k
  BY <1>2, UpgradeAssumption DEF UpgradeAssumption
<1> QED
  BY <1>3 DEF First

\* Every reachable state satisfies the invariant.
LEMMA UpgradeInvInductive == UpgradeSpec => []UpgradeInv
<1>1. UpgradeInit => UpgradeInv
  <2> SUFFICES ASSUME UpgradeInit PROVE UpgradeInv
    OBVIOUS
  <2>1. First \in BranchNumbers
    BY FirstExists
  <2>2. \A r \in Requests : requests[r] \in Request
        /\ requests[r].at = "validate" /\ ~requests[r].pushed /\ ~requests[r].joined
        /\ ~requests[r].prCreated /\ requests[r].clean /\ requests[r].status = "none" /\ requests[r].branch = First
    BY <2>1 DEF UpgradeInit, Request, Stages, Unpushed, Early
  <2>3. TypesOK
    BY <2>2 DEF UpgradeInit, TypesOK
  <2>4. WorktreesOK
    BY DEF UpgradeInit, WorktreesOK
  <2>5. ASSUME NEW r \in Requests PROVE RequestOK(r)
    <3>1. /\ \A c \in Clones : \A n \in BranchNumbers : localRefs[c][n] # r
          /\ \A n \in BranchNumbers : remoteRefs[n] # r
          /\ ~HasWorktree(r) /\ ~HasPull(r)
      BY UpgradeAssumption DEF UpgradeInit, UpgradeAssumption, HasWorktree, HasPull
    <3> QED
      BY <2>1, <2>2, <2>3, <3>1 DEF RequestOK, NamesOK, NothingYet, RemoteOK, Tidy, HasPull, TypesOK
  <2> QED
    BY <2>3, <2>4, <2>5 DEF UpgradeInv
<1>2. UpgradeInv /\ [UpgradeNext]_upgradeVars => UpgradeInv'
  <2> SUFFICES ASSUME UpgradeInv, [UpgradeNext]_upgradeVars PROVE UpgradeInv'
    OBVIOUS
  <2>1. ASSUME NEW r \in Requests, RequestStep(r) PROVE UpgradeInv'
    <3>1. CASE Validate(r) \/ CheckLocal(r) \/ CheckRemote(r) \/ MakeTempDir(r)
      BY <3>1, EarlySteps
    <3>2. CASE AddWorktree(r)
      BY <3>2, AddKeeps
    <3>3. CASE Prepare(r)
      BY <3>3, LateSteps DEF Prepare
    <3>4. CASE Push(r)
      BY <3>4, PushKeeps
    <3>5. CASE CreatePull(r)
      BY <3>5, PullKeeps
    <3>6. CASE RemoveWorktree(r)
      BY <3>6, RemoveKeeps
    <3>7. CASE DeleteBranch(r)
      BY <3>7, DeleteBranchKeeps
    <3>8. CASE DeleteRemote(r)
      BY <3>8, DeleteRemoteKeeps
    <3>9. CASE RequestDies(r)
      BY <3>9, DeathKeeps
    <3> QED
      BY <2>1, <3>1, <3>2, <3>3, <3>4, <3>5, <3>6, <3>7, <3>8, <3>9 DEF RequestStep
  <2>2. CASE UNCHANGED upgradeVars
    BY <2>2 DEF upgradeVars, UpgradeInv, TypesOK, WorktreesOK, RequestOK, NamesOK, NothingYet, RemoteOK, Tidy,
       HasPull, HasWorktree, Shared
  <2> QED
    BY <2>1, <2>2, UserKeeps DEF UpgradeNext
<1> QED
  BY <1>1, <1>2, PTL DEF UpgradeSpec

\* A pull request that was reported stays open and keeps its branch, for any
\* number of requests for the same upgrade, clones and branch names, whatever fails
\* or dies (core/github/upgrade-pr.ts:216-220 deletes only what was pushed and not
\* published), if git has not accepted a second push of the same commit to it.
THEOREM PublishedBranchesStay == UpgradeSpec => []PullsKeepTheirBranches
<1>1. UpgradeInv => PullsKeepTheirBranches
  <2> SUFFICES ASSUME UpgradeInv, NEW r \in Requests, requests[r].prCreated,
                      ~Shared(requests[r].branch)
               PROVE  Published(r)
    BY DEF PullsKeepTheirBranches
  <2>1. RequestOK(r) /\ pulls \subseteq [head : BranchNumbers, by : Requests]
    BY DEF UpgradeInv, TypesOK
  <2>2. remoteRefs[requests[r].branch] = r
    BY <2>1 DEF RequestOK, RemoteOK
  <2>3. PICK pull \in pulls : pull.by = r
    BY <2>1 DEF RequestOK, RemoteOK, HasPull
  <2>4. pull = [head |-> requests[r].branch, by |-> r]
    BY <2>1, <2>3 DEF RequestOK, NamesOK
  <2> QED
    BY <2>2, <2>3, <2>4 DEF Published
<1> QED
  BY <1>1, UpgradeInvInductive, PTL

\* A request that has ended leaves nothing in its clone, and at origin nothing but
\* its pull request and that one's branch, unless a cleanup command failed, an
\* answer was lost or the branch is shared.
THEOREM NothingIsStranded == UpgradeSpec => []NothingStranded
<1>1. UpgradeInv => NothingStranded
  <2> SUFFICES ASSUME UpgradeInv, NEW r \in Requests, requests[r].at = "ended", requests[r].clean
               PROVE  /\ \A w \in worktrees : w.by # r
                      /\ \A n \in BranchNumbers : localRefs[clone[r]][n] # r
                      /\ ~Shared(requests[r].branch) =>
                           /\ \A n \in BranchNumbers :
                                remoteRefs[n] = r <=> \E pull \in pulls : pull.by = r /\ pull.head = n
                           /\ requests[r].status = "created" <=> \E pull \in pulls : pull.by = r
    BY DEF NothingStranded
  <2>0. RequestOK(r) /\ clone[r] \in Clones /\ requests[r].branch \in BranchNumbers
    BY DEF UpgradeInv, TypesOK, Request
  <2>1. \A w \in worktrees : w.by # r
    BY <2>0 DEF RequestOK, Tidy, HasWorktree
  <2>2. \A n \in BranchNumbers : localRefs[clone[r]][n] # r
    BY <2>0 DEF RequestOK, Tidy, NamesOK
  <2>3. ASSUME ~Shared(requests[r].branch)
        PROVE  /\ \A n \in BranchNumbers :
                    remoteRefs[n] = r <=> \E pull \in pulls : pull.by = r /\ pull.head = n
               /\ requests[r].status = "created" <=> \E pull \in pulls : pull.by = r
    <3>1. HasPull(r) <=> requests[r].prCreated
      BY <2>0, <2>3 DEF RequestOK, RemoteOK, Tidy
    <3>2. requests[r].status = "created" <=> HasPull(r)
      BY <2>0, <3>1 DEF RequestOK, Tidy
    <3>3. remoteRefs[requests[r].branch] = r <=> HasPull(r)
      BY <2>0, <2>3, <3>1 DEF RequestOK, Tidy
    <3> QED
      BY <2>0, <3>2, <3>3 DEF RequestOK, NamesOK, HasPull
  <2> QED
    BY <2>1, <2>2, <2>3
<1> QED
  BY <1>1, UpgradeInvInductive, PTL

-----------------------------------------------------------------------------
(* The commands of the analyzers, for any inputs, severities, options and  *)
(* machines.  While the analyzer goes through its inputs the counters say  *)
(* exactly which of those it has come to were seen (Tallied), and an input  *)
(* that is not counted is one npm leaves out on this machine.              *)

\* The inputs an analyzer is for, and the packages npm does not install here.
Relevant ==
  {i \in DOMAIN inputs :
     invocation.command \in FileCommands =>
       inputs[i] = IF invocation.command = "docker-scan" THEN "Dockerfile" ELSE "source"}
LeftOut ==
  {i \in Relevant :
     /\ invocation.command = "install-scripts" /\ inputs[i].optional
     /\ \/ ~AllowedBy(inputs[i].os, machine.platform)
        \/ machine.platform = "linux" /\ ~AllowedBy(inputs[i].libc, machine.libc)}

OptionKnown == invocation.failOn = Undefined \/ IsFailOn(invocation.failOn)
Counting == {"ast-scan", "docker-scan", "reachability", "install-scripts"}
Empty == [eligible |-> 0, scanned |-> 0, skipped |-> 0, failed |-> 0, cancelled |-> FALSE]
Tallies == [eligible : Nat, scanned : Nat, skipped : Nat, failed : Nat, cancelled : BOOLEAN]

\* What the options of a command can be.
InvocationOK ==
  /\ invocation.command \in Counting \cup {"vulnerabilities", "git-history", "dependency-confusion"}
  /\ invocation.command = "ast-scan" => invocation.includeDev
  /\ invocation.command \in {"docker-scan", "reachability"} => invocation.failOn = Undefined

InputsOK ==
  /\ inputs \in Seq({inputs[i] : i \in DOMAIN inputs})
  /\ position \in 0..Len(inputs) /\ examined \subseteq 1..position

\* An input that the analyzer has come to and has not seen.
Passed(i) == i \in 1..position /\ i \notin examined
Unanswered == tally.skipped + tally.failed

Tallied ==
  /\ tally \in Tallies /\ tally.eligible = tally.scanned + Unanswered
  /\ tally.cancelled => outcome = "timed_out"
  /\ IF invocation.command \in Counting THEN tally.scanned = 0 <=> examined = {} ELSE tally = Empty
  /\ \A i \in Relevant \ LeftOut : Passed(i) => Unanswered > 0
  /\ Unanswered > 0 => \E i \in Relevant : Passed(i)

CommandInv ==
  /\ machine \in Machines /\ InvocationOK /\ InputsOK
  /\ outcome \in {"pending", "ok", "failed", "timed_out"}
  /\ outcome # "pending" \/ analysis # "discovering" => OptionKnown
  /\ outcome = "ok" => analysis = "returned"
  /\ analysis = "returned" => position = Len(inputs)
  /\ analysis # "thrown" => Tallied
  /\ ExitTellsTruth

\* The runtime's libc, when it can be told, is the machine's.
LEMMA OmittedIsLeftOut ==
  ASSUME machine \in Machines, invocation.command = "install-scripts",
         NEW i \in Relevant, IsOmittedOnPlatform(inputs[i])
  PROVE  i \in LeftOut
<1>1. machine.platform = "linux" /\ RuntimeLibc # "unknown" => RuntimeLibc = machine.libc
  BY DEF RuntimeLibc, Machines
<1> QED
  BY <1>1 DEF IsOmittedOnPlatform, LeftOut

\* The analyzer has gone on by one input.
LEMMA MovesOn ==
  ASSUME InputsOK, position < Len(inputs)
  PROVE  /\ position \in Nat /\ Len(inputs) \in Nat /\ position + 1 \in DOMAIN inputs
         /\ position + 1 \in 0..Len(inputs) /\ position + 1 \notin 1..position /\ position + 1 \in 1..(position + 1)
         /\ 1..(position + 1) = (1..position) \cup {position + 1}
<1>1. position \in Nat /\ Len(inputs) \in Nat /\ DOMAIN inputs = 1..Len(inputs)
  BY DEF InputsOK
<1> QED
  BY <1>1

\* What is said of the exit code says nothing while the command runs.
LEMMA StillRunning ==
  ASSUME exitCode' = Running
  PROVE  ExitTellsTruth'
  BY DEF ExitTellsTruth

\* A file is passed over, or read and counted.
LEMMA NextFileKeeps ==
  ASSUME CommandInv, NEW command \in {"ast-scan", "docker-scan", "reachability"},
         NEW failedApart \in BOOLEAN, NEW severities,
         NextFile(command, IF command = "docker-scan" THEN "Dockerfile" ELSE "source", failedApart, severities)
  PROVE  CommandInv'
<1> DEFINE kind == IF command = "docker-scan" THEN "Dockerfile" ELSE "source"
           next == position + 1
<1>1. /\ exitCode = Running /\ analysis = "examining" /\ invocation.command = command
      /\ position < Len(inputs) /\ position' = next
      /\ UNCHANGED <<invocation, machine, inputs, analysis, outcome, exitCode>>
  BY DEF NextFile, Examining
<1>2. InputsOK /\ Tallied /\ InvocationOK /\ machine \in Machines
  BY <1>1 DEF CommandInv
<1>3. /\ position \in Nat /\ Len(inputs) \in Nat /\ next \in DOMAIN inputs /\ next \in 0..Len(inputs)
      /\ next \notin 1..position /\ 1..next = (1..position) \cup {next}
  BY <1>1, <1>2, MovesOn
<1>4. Relevant' = Relevant /\ LeftOut' = LeftOut /\ command \in Counting
  BY <1>1 DEF Relevant, LeftOut, Counting
<1>5. next \in Relevant <=> inputs[next] = kind
  BY <1>1, <1>3 DEF Relevant, FileCommands
<1>6. SUFFICES examined' \subseteq 1..next /\ Tallied'
  BY <1>1, <1>2, <1>3, StillRunning DEF CommandInv, InvocationOK, InputsOK, OptionKnown
<1>7. examined \subseteq 1..position /\ next \notin examined
  BY <1>2, <1>3 DEF InputsOK
<1>8. CASE inputs[next] # kind
  <2>1. UNCHANGED <<tally, found, examined>> /\ next \notin Relevant
    BY <1>5, <1>8 DEF NextFile
  <2>2. \A i \in Relevant : Passed(i)' <=> Passed(i)
    BY <1>1, <1>3, <2>1 DEF Passed
  <2>3. Tallied'
    BY <1>1, <1>2, <1>4, <2>1, <2>2 DEF Tallied, Unanswered
  <2> QED
    BY <1>3, <1>7, <2>1, <2>3
<1>9. CASE inputs[next] = kind
  <2> DEFINE aborted == outcome = "timed_out" /\ command # "ast-scan"
             counted(status) ==
               [tally EXCEPT !.eligible = @ + 1,
                             !.scanned = IF status = "ok" THEN @ + 1 ELSE @,
                             !.failed = IF status = "failed" /\ failedApart THEN @ + 1 ELSE @,
                             !.skipped = IF status = "ok" \/ (status = "failed" /\ failedApart)
                                         THEN @ ELSE @ + 1,
                             !.cancelled = @ \/ status = "cancelled"]
  <2>1. PICK status \in ReadStatuses(aborted) :
          /\ tally' = counted(status)
          /\ examined' = IF status = "ok" THEN examined \cup {next} ELSE examined
    BY <1>9 DEF NextFile
  <2> DEFINE e == tally.eligible
             k == tally.scanned
             s == tally.skipped
             f == tally.failed
  <2>2. e \in Nat /\ k \in Nat /\ s \in Nat /\ f \in Nat /\ e = k + (s + f) /\ tally \in Tallies
    BY <1>2 DEF Tallied, Tallies, Unanswered
  <2>3. /\ tally'.eligible = e + 1 /\ tally'.scanned = (IF status = "ok" THEN k + 1 ELSE k)
        /\ tally'.failed = (IF status = "failed" /\ failedApart THEN f + 1 ELSE f)
        /\ tally'.skipped = (IF status = "ok" \/ (status = "failed" /\ failedApart) THEN s ELSE s + 1)
        /\ tally'.cancelled = (tally.cancelled \/ status = "cancelled")
    BY <2>1, <2>2 DEF Tallies
  <2>4. tally' \in Tallies
    <3> DEFINE scanned == IF status = "ok" THEN k + 1 ELSE k
               failed == IF status = "failed" /\ failedApart THEN f + 1 ELSE f
               skipped == IF status = "ok" \/ (status = "failed" /\ failedApart) THEN s ELSE s + 1
               cancelled == tally.cancelled \/ status = "cancelled"
    <3>1. tally' = [tally EXCEPT !.eligible = e + 1, !.scanned = scanned, !.failed = failed,
                                 !.skipped = skipped, !.cancelled = cancelled]
      BY <2>1
    <3>2. e + 1 \in Nat /\ scanned \in Nat /\ failed \in Nat /\ skipped \in Nat /\ cancelled \in BOOLEAN
      BY <2>2
    <3> HIDE DEF scanned, failed, skipped, cancelled, e, k, s, f
    <3> QED
      BY <2>2, <3>1, <3>2 DEF Tallies
  <2> HIDE DEF counted, e, k, s, f
  <2>5. tally'.cancelled => outcome' = "timed_out"
    BY <1>1, <1>2, <2>1, <2>3 DEF Tallied, ReadStatuses
  <2>6. next \in Relevant
    BY <1>5, <1>9
  <2>7. CASE status = "ok"
    <3>1. /\ tally'.scanned = k + 1 /\ tally'.failed = f /\ tally'.skipped = s
          /\ examined' = examined \cup {next} /\ Unanswered' = Unanswered /\ Unanswered = s + f
      BY <2>1, <2>3, <2>7 DEF Unanswered, s, f
    <3>2. tally'.eligible = tally'.scanned + Unanswered' /\ tally'.scanned # 0
      BY <2>2, <2>3, <3>1
    <3>3. \A i : Passed(i)' <=> Passed(i)
      BY <1>1, <1>3, <1>7, <3>1 DEF Passed
    <3>4. Tallied'
      BY <1>1, <1>2, <1>4, <2>4, <2>5, <3>1, <3>2, <3>3 DEF Tallied
    <3> QED
      BY <1>3, <1>7, <3>1, <3>4
  <2>8. CASE status # "ok"
    <3>1. /\ tally'.scanned = k /\ Unanswered' = s + f + 1 /\ examined' = examined
      <4>1. tally'.scanned = k /\ examined' = examined
        BY <2>1, <2>3, <2>8
      <4>2. \/ tally'.failed = f + 1 /\ tally'.skipped = s
            \/ tally'.failed = f /\ tally'.skipped = s + 1
        BY <2>3, <2>8
      <4>3. s + (f + 1) = s + f + 1 /\ (s + 1) + f = s + f + 1
        BY <2>2
      <4>4. Unanswered' = tally'.skipped + tally'.failed
        BY DEF Unanswered
      <4> QED
        BY <4>1, <4>2, <4>3, <4>4
    <3>2. tally'.eligible = tally'.scanned + Unanswered' /\ Unanswered' > 0
      BY <2>2, <2>3, <3>1
    <3>3. \E i \in Relevant : Passed(i)'
      <4>1. next \in 1..position' /\ next \notin examined'
        BY <1>1, <1>3, <1>7, <3>1
      <4> QED
        BY <2>6, <4>1 DEF Passed
    <3>4. tally'.scanned = 0 <=> examined' = {}
      BY <1>1, <1>2, <1>4, <3>1 DEF Tallied, k
    <3>5. Tallied'
      BY <1>1, <1>4, <2>4, <2>5, <3>2, <3>3, <3>4 DEF Tallied
    <3> QED
      BY <1>3, <1>7, <3>1, <3>5
  <2> QED
    BY <2>7, <2>8
<1> QED
  BY <1>8, <1>9

\* The next manifest is seen, counted, left out, or ends the analysis.
LEMMA InspectKeeps ==
  ASSUME CommandInv, InspectPackage
  PROVE  CommandInv'
<1> DEFINE next == position + 1
<1>1. /\ exitCode = Running /\ analysis = "examining" /\ invocation.command = "install-scripts"
      /\ position < Len(inputs) /\ position' = next
      /\ UNCHANGED <<invocation, machine, inputs, outcome, exitCode>>
  BY DEF InspectPackage, Examining
<1>2. InputsOK /\ Tallied /\ InvocationOK /\ machine \in Machines
  BY <1>1 DEF CommandInv
<1>3. /\ position \in Nat /\ Len(inputs) \in Nat /\ next \in DOMAIN inputs /\ next \in 0..Len(inputs)
      /\ next \notin 1..position /\ 1..next = (1..position) \cup {next}
  BY <1>1, <1>2, MovesOn
<1>4. Relevant' = Relevant /\ LeftOut' = LeftOut /\ invocation.command \in Counting /\ next \in Relevant
  BY <1>1, <1>3 DEF Relevant, LeftOut, Counting, FileCommands
<1>5. examined \subseteq 1..position /\ next \notin examined
  BY <1>2, <1>3 DEF InputsOK
<1>6. SUFFICES /\ examined' \subseteq 1..next
               /\ analysis' = "thrown" \/ (analysis' = "examining" /\ Tallied')
  <2>1. outcome # "ok"
    BY <1>1 DEF CommandInv
  <2> QED
    BY <1>1, <1>2, <1>3, <2>1, StillRunning DEF CommandInv, InvocationOK, InputsOK, OptionKnown
<1> DEFINE throw == analysis' = "thrown" /\ UNCHANGED <<tally, found, examined>>
           skip == tally' = [tally EXCEPT !.eligible = @ + 1, !.skipped = @ + 1]
                   /\ UNCHANGED <<found, examined, analysis>>
           see == tally' = [tally EXCEPT !.eligible = @ + 1, !.scanned = @ + 1]
                  /\ examined' = examined \cup {next} /\ UNCHANGED analysis
           omit == IsOmittedOnPlatform(inputs[next]) /\ UNCHANGED <<tally, found, examined, analysis>>
<1>7. throw \/ skip \/ see \/ omit
  BY DEF InspectPackage
<1> DEFINE e == tally.eligible
           k == tally.scanned
           s == tally.skipped
           f == tally.failed
<1>8. e \in Nat /\ k \in Nat /\ s \in Nat /\ f \in Nat /\ e = k + (s + f) /\ tally \in Tallies /\ Unanswered = s + f
  BY <1>2 DEF Tallied, Tallies, Unanswered
<1>9. CASE throw
  BY <1>3, <1>5, <1>9
<1>10. CASE skip
  <2>1. /\ tally' \in Tallies /\ tally'.eligible = e + 1 /\ tally'.scanned = k /\ tally'.skipped = s + 1
        /\ tally'.failed = f /\ tally'.cancelled = tally.cancelled /\ examined' = examined /\ analysis' = analysis
    <3>1. e + 1 \in Nat /\ s + 1 \in Nat
      BY <1>8
    <3>2. tally' = [tally EXCEPT !.eligible = e + 1, !.skipped = s + 1]
      BY <1>10
    <3> DEFINE eligible == e + 1
               skipped == s + 1
    <3>3. tally' = [tally EXCEPT !.eligible = eligible, !.skipped = skipped] /\ tally \in Tallies
      BY <1>8, <3>2
    <3> HIDE DEF eligible, skipped
    <3>4. /\ tally' \in Tallies /\ tally'.eligible = eligible /\ tally'.scanned = k /\ tally'.skipped = skipped
          /\ tally'.failed = f /\ tally'.cancelled = tally.cancelled
      BY <3>1, <3>3 DEF Tallies, eligible, skipped
    <3> QED
      BY <1>10, <3>4 DEF eligible, skipped
  <2> HIDE DEF e, k, s, f, skip
  <2>2. Unanswered' = s + f + 1
    BY <1>8, <2>1 DEF Unanswered
  <2>3. tally'.eligible = tally'.scanned + Unanswered' /\ Unanswered' > 0
    BY <1>8, <2>1, <2>2
  <2>4. \E i \in Relevant : Passed(i)'
    <3>1. next \in 1..position' /\ next \notin examined'
      BY <1>1, <1>3, <1>5, <2>1
    <3> QED
      BY <1>4, <3>1 DEF Passed
  <2>5. tally'.scanned = 0 <=> examined' = {}
    BY <1>2, <1>4, <2>1 DEF Tallied, k
  <2>6. Tallied'
    BY <1>1, <1>2, <1>4, <2>1, <2>3, <2>4, <2>5 DEF Tallied
  <2> QED
    BY <1>1, <1>3, <1>5, <2>1, <2>6
<1>11. CASE see
  <2>1. /\ tally' \in Tallies /\ tally'.eligible = e + 1 /\ tally'.scanned = k + 1 /\ tally'.skipped = s
        /\ tally'.failed = f /\ tally'.cancelled = tally.cancelled
        /\ examined' = examined \cup {next} /\ analysis' = analysis
    <3>1. e + 1 \in Nat /\ k + 1 \in Nat
      BY <1>8
    <3>2. tally' = [tally EXCEPT !.eligible = e + 1, !.scanned = k + 1]
      BY <1>11
    <3> DEFINE eligible == e + 1
               scanned == k + 1
    <3>3. tally' = [tally EXCEPT !.eligible = eligible, !.scanned = scanned] /\ tally \in Tallies
      BY <1>8, <3>2
    <3> HIDE DEF eligible, scanned
    <3>4. /\ tally' \in Tallies /\ tally'.eligible = eligible /\ tally'.scanned = scanned /\ tally'.skipped = s
          /\ tally'.failed = f /\ tally'.cancelled = tally.cancelled
      BY <3>1, <3>3 DEF Tallies, eligible, scanned
    <3> QED
      BY <1>11, <3>4 DEF eligible, scanned
  <2> HIDE DEF e, k, s, f, see
  <2>2. Unanswered' = Unanswered
    BY <1>8, <2>1 DEF Unanswered
  <2>3. tally'.eligible = tally'.scanned + Unanswered' /\ tally'.scanned # 0
    BY <1>8, <2>1, <2>2
  <2>4. \A i : Passed(i)' <=> Passed(i)
    BY <1>1, <1>3, <1>5, <2>1 DEF Passed
  <2>5. Tallied'
    BY <1>1, <1>2, <1>4, <2>1, <2>2, <2>3, <2>4 DEF Tallied
  <2> QED
    BY <1>1, <1>3, <1>5, <2>1, <2>5
<1>12. CASE omit
  <2>1. next \in LeftOut /\ UNCHANGED <<tally, examined, analysis>>
    BY <1>1, <1>2, <1>4, <1>12, OmittedIsLeftOut
  <2>2. (\A i \in Relevant \ LeftOut : Passed(i)' => Passed(i)) /\ \A i \in Relevant : Passed(i) => Passed(i)'
    BY <1>1, <1>3, <1>5, <2>1 DEF Passed
  <2>3. Tallied'
    BY <1>1, <1>2, <1>4, <2>1, <2>2 DEF Tallied, Unanswered
  <2> QED
    BY <1>1, <1>3, <1>5, <2>1, <2>3
<1> QED
  BY <1>7, <1>9, <1>10, <1>11, <1>12

\* Everything is collected at once, or the analysis ends.
LEMMA CollectKeeps ==
  ASSUME CommandInv, NEW command \in {"vulnerabilities", "dependency-confusion", "git-history"},
         NEW severities, Collect(command, severities)
  PROVE  CommandInv'
<1>1. /\ exitCode = Running /\ analysis = "examining" /\ invocation.command = command
      /\ UNCHANGED <<invocation, machine, inputs, tally, outcome, exitCode>>
      /\ \/ position' = Len(inputs) /\ examined' = DOMAIN inputs /\ UNCHANGED analysis
         \/ analysis' = "thrown" /\ UNCHANGED <<position, examined>>
  BY DEF Collect, Examining
<1>2. InputsOK /\ Tallied /\ InvocationOK /\ machine \in Machines /\ outcome # "ok" /\ OptionKnown
  BY <1>1 DEF CommandInv
<1>3. Len(inputs) \in Nat /\ DOMAIN inputs = 1..Len(inputs)
  BY <1>2 DEF InputsOK
<1>4. InputsOK' /\ InvocationOK' /\ OptionKnown'
  <2>1. InvocationOK' /\ OptionKnown'
    BY <1>1, <1>2 DEF InvocationOK, OptionKnown
  <2>2. {inputs[i] : i \in DOMAIN inputs}' = {inputs[i] : i \in DOMAIN inputs}
    BY <1>1
  <2>3. (inputs \in Seq({inputs[i] : i \in DOMAIN inputs}))'
    BY <1>1, <1>2, <2>2 DEF InputsOK
  <2>4. position' \in 0..Len(inputs') /\ examined' \subseteq 1..position'
    <3>1. CASE position' = Len(inputs) /\ examined' = DOMAIN inputs
      <4>1. Len(inputs) \in 0..Len(inputs)
        BY <1>3
      <4> QED
        BY <1>1, <1>3, <3>1, <4>1
    <3>2. CASE UNCHANGED <<position, examined>>
      BY <1>1, <1>2, <3>2 DEF InputsOK
    <3> QED
      BY <1>1, <3>1, <3>2
  <2> QED
    BY <2>1, <2>3, <2>4 DEF InputsOK
<1>5. CASE analysis' = "thrown"
  BY <1>1, <1>2, <1>4, <1>5, StillRunning DEF CommandInv
<1>6. CASE position' = Len(inputs) /\ examined' = DOMAIN inputs /\ UNCHANGED analysis
  <2>1. \A i : ~Passed(i)'
    BY <1>3, <1>6 DEF Passed
  <2>2. command \notin Counting
    BY DEF Counting
  <2>3. tally = Empty
    BY <1>1, <1>2, <2>2 DEF Tallied
  <2>4. Unanswered' = 0
    BY <1>1, <2>3 DEF Unanswered, Empty
  <2>5. Tallied'
    BY <1>1, <1>2, <2>1, <2>2, <2>3, <2>4 DEF Tallied, Unanswered
  <2> QED
    BY <1>1, <1>2, <1>4, <1>6, <2>5, StillRunning DEF CommandInv
<1> QED
  BY <1>1, <1>5, <1>6

\* Nothing but the stage of the analysis, its outcome or the exit code changes.
LEMMA StageKeeps ==
  ASSUME CommandInv, exitCode = Running, exitCode' = Running,
         UNCHANGED <<invocation, machine, inputs, position, tally, found, examined>>,
         \/ Discover
         \/ AnalysisReturns
         \/ Settle
  PROVE  CommandInv'
<1>1. InputsOK' /\ InvocationOK' /\ (machine \in Machines)' /\ ExitTellsTruth'
  BY StillRunning DEF CommandInv, InputsOK, InvocationOK
<1>2. /\ OptionKnown' <=> OptionKnown
      /\ tally.cancelled => outcome = "timed_out" \/ analysis = "thrown"
      /\ outcome = "timed_out" => outcome' = "timed_out"
  BY DEF CommandInv, OptionKnown, Tallied, Discover, AnalysisReturns, Settle
<1>3. Tallied /\ analysis' # "thrown" => Tallied'
  <2>1. Relevant' = Relevant /\ LeftOut' = LeftOut /\ Unanswered' = Unanswered /\ \A i : Passed(i)' <=> Passed(i)
    BY DEF Relevant, LeftOut, Unanswered, Passed
  <2> QED
    BY <1>2, <2>1 DEF Tallied
<1>4. CASE Discover
  BY <1>1, <1>2, <1>3, <1>4 DEF CommandInv, Discover, OptionKnown
<1>5. CASE AnalysisReturns
  BY <1>1, <1>2, <1>3, <1>5 DEF CommandInv, AnalysisReturns
<1>6. CASE Settle
  BY <1>1, <1>2, <1>3, <1>6 DEF CommandInv, Settle, OptionKnown
<1> QED
  BY <1>4, <1>5, <1>6

\* When the result is ok, its coverage tells what was seen.
LEMMA CoverageIsTrue ==
  ASSUME CommandInv, outcome = "ok", invocation.command \in Counting \cup {"vulnerabilities"}
  PROVE  /\ CoverageOf(tally) \in {"complete", "partial", "failed"}
         /\ CoverageOf(tally) = "complete" => Relevant \ examined \subseteq LeftOut
         /\ CoverageOf(tally) = "partial" => Relevant \ examined # {} /\ examined # {}
         /\ CoverageOf(tally) = "failed" => Relevant \ examined # {} /\ examined = {}
<1>1. Tallied /\ InputsOK /\ position = Len(inputs) /\ ~tally.cancelled
  BY DEF CommandInv, Tallied
<1>2. \A i \in Relevant : Passed(i) <=> i \notin examined
  BY <1>1 DEF Relevant, Passed, InputsOK
<1>3. /\ Unanswered > 0 => Relevant \ examined # {}
      /\ ~(Unanswered > 0) => Relevant \ examined \subseteq LeftOut
  BY <1>1, <1>2 DEF Tallied
<1> DEFINE none == tally.eligible > 0 /\ tally.scanned = 0 /\ Unanswered > 0
<1>4. CoverageOf(tally) = IF none THEN "failed" ELSE IF Unanswered > 0 THEN "partial" ELSE "complete"
  BY <1>1 DEF CoverageOf, Unanswered
<1>5. Unanswered > 0 => tally.eligible > 0 /\ (tally.scanned = 0 <=> examined = {})
  <2>1. /\ tally.scanned \in Nat /\ tally.skipped \in Nat /\ tally.failed \in Nat
        /\ tally.eligible = tally.scanned + Unanswered
    BY <1>1 DEF Tallied, Tallies
  <2>2. Unanswered \in Nat
    BY <2>1 DEF Unanswered
  <2>3. Unanswered > 0 => tally # Empty
    BY DEF Unanswered, Empty
  <2> QED
    BY <1>1, <2>1, <2>2, <2>3 DEF Tallied
<1> HIDE DEF none
<1>6. none <=> Unanswered > 0 /\ tally.scanned = 0
  BY <1>5 DEF none
<1> QED
  BY <1>3, <1>4, <1>5, <1>6

\* The gate sees the findings the property means.
GatedOnes(failOn) ==
  \E f \in found : /\ IsFailOn(failOn) /\ failOn # "none"
                   /\ f.development => invocation.includeDev
                   /\ SeverityRank[f.severity] >= SeverityRank[failOn]

\* When the analysis went well, each command gates on the findings of the
\* levels it was asked to gate on, and on no others.
LEMMA GateIsTrue ==
  ASSUME CommandInv, outcome = "ok"
  PROVE  /\ GatedFindings(Shown, invocation.failOn) # {} <=> GatedOnes(invocation.failOn)
         /\ invocation.command = "ast-scan" =>
              (GatedFindings(Reported, invocation.failOn) # {} <=> GatedOnes(invocation.failOn))
         /\ invocation.command \in {"docker-scan", "reachability"} =>
              /\ ~GatedOnes(invocation.failOn) /\ GatedFindings(Reported, invocation.failOn) = {}
              /\ GatedFindings({}, invocation.failOn) = {}
<1>1. OptionKnown /\ InvocationOK /\ Reported = found
  BY DEF CommandInv, Reported
<1>2. ~IsFailOn(Undefined)
  BY DEF IsFailOn, Undefined, SeverityRank
<1>3. \A findings : GatedFindings(findings, invocation.failOn) # {} <=>
        \E f \in findings : /\ IsFailOn(invocation.failOn) /\ invocation.failOn # "none"
                            /\ SeverityRank[f.severity] >= SeverityRank[invocation.failOn]
  BY <1>1, <1>2 DEF GatedFindings, OptionKnown
<1>4. Shown = {f \in found : f.development => invocation.includeDev}
  BY <1>1 DEF Shown
<1>5. invocation.command = "ast-scan" => invocation.includeDev
  BY <1>1 DEF InvocationOK
<1>6. invocation.command \in {"docker-scan", "reachability"} => ~IsFailOn(invocation.failOn)
  BY <1>1, <1>2 DEF InvocationOK
<1> HIDE DEF IsFailOn, GatedFindings
<1> QED
  BY <1>1, <1>3, <1>4, <1>5, <1>6 DEF GatedOnes

\* The truth of the exit code, by its parts.
ExitTrue ==
  exitCode # Running /\ invocation.command \notin {"git-history", "dependency-confusion"} =>
    CASE exitCode \in {0, 2} ->
           /\ outcome = "ok"
           /\ Relevant \ examined \subseteq LeftOut \/ (invocation.tolerant /\ examined # {})
           /\ GatedOnes(invocation.failOn) <=> exitCode = 2
      [] exitCode = 3 -> outcome = "ok" /\ Relevant \ examined # {} /\ examined # {} /\ ~invocation.tolerant
      [] exitCode = 4 -> outcome # "ok" \/ (Relevant \ examined # {} /\ examined = {})
      [] exitCode = 1 -> invocation.failOn # Undefined /\ ~IsFailOn(invocation.failOn)

\* A command ends with a code that tells the truth.
LEMMA FinishTells ==
  ASSUME CommandInv, NEW command, NEW findings, FinishAnalysis(command, findings),
         command \in Counting \cup {"vulnerabilities"},
         outcome = "ok" => (GatedFindings(findings, invocation.failOn) # {} <=> GatedOnes(invocation.failOn))
  PROVE  ExitTellsTruth'
<1>1. /\ invocation.command = command /\ outcome # "pending" /\ exitCode' = DecideExit(AssessExecution, GatedFindings(findings, invocation.failOn))
      /\ UNCHANGED <<invocation, machine, inputs, position, tally, found, examined, analysis, outcome>>
  BY DEF FinishAnalysis, Exit
<1> DEFINE state == AssessExecution
           gated == GatedFindings(findings, invocation.failOn) # {}
<1>2. exitCode' = IF state = "failed" THEN 4 ELSE IF state = "partial" /\ ~invocation.tolerant THEN 3
                  ELSE IF gated THEN 2 ELSE 0
  BY <1>1 DEF DecideExit
<1>3. outcome # "ok" => state = "failed"
  BY DEF AssessExecution
<1>4. outcome = "ok" =>
        /\ state \in {"complete", "partial", "failed"}
        /\ state = "complete" => Relevant \ examined \subseteq LeftOut
        /\ state = "partial" => Relevant \ examined # {} /\ examined # {}
        /\ state = "failed" => Relevant \ examined # {} /\ examined = {}
  BY <1>1, CoverageIsTrue DEF AssessExecution
<1> HIDE DEF state, gated
<1>5. outcome = "ok" => (gated <=> GatedOnes(invocation.failOn))
  BY DEF gated
<1>6. /\ exitCode' \in {0, 2} =>
           /\ outcome = "ok" /\ (GatedOnes(invocation.failOn) <=> exitCode' = 2)
           /\ Relevant \ examined \subseteq LeftOut \/ (invocation.tolerant /\ examined # {})
      /\ exitCode' = 3 => outcome = "ok" /\ Relevant \ examined # {} /\ examined # {} /\ ~invocation.tolerant
      /\ exitCode' = 4 => outcome # "ok" \/ (Relevant \ examined # {} /\ examined = {})
      /\ exitCode' \in {0, 2, 3, 4}
  BY <1>2, <1>3, <1>4, <1>5
<1>7. /\ Relevant' = Relevant /\ LeftOut' = LeftOut
      /\ UNCHANGED <<invocation, machine, inputs, examined, found, outcome>>
  BY <1>1 DEF Relevant, LeftOut
<1>8. GatedOnes(invocation.failOn)' <=> GatedOnes(invocation.failOn)
  BY <1>7 DEF GatedOnes
<1>9. ExitTrue'
  <2>1. CASE exitCode' \in {0, 2}
    <3>1. /\ outcome' = "ok"
          /\ (Relevant \ examined \subseteq LeftOut)' \/ (invocation.tolerant /\ examined # {})'
      BY <1>6, <1>7, <2>1
    <3>2. (GatedOnes(invocation.failOn) <=> exitCode = 2)'
      BY <1>6, <1>8, <2>1
    <3>3. exitCode' \notin {1, 3, 4}
      BY <2>1
    <3> HIDE DEF GatedOnes
    <3> QED
      BY <2>1, <3>1, <3>2, <3>3 DEF ExitTrue
  <2>2. CASE exitCode' = 3
    BY <1>6, <1>7, <2>2 DEF ExitTrue
  <2>3. CASE exitCode' = 4
    BY <1>6, <1>7, <2>3 DEF ExitTrue
  <2> QED
    BY <1>6, <2>1, <2>2, <2>3
<1> QED
  BY <1>9 DEF ExitTellsTruth, ExitTrue, Relevant, LeftOut, GatedOnes

\* Every step of a command keeps its invariant.
LEMMA CommandStepKeeps ==
  ASSUME CommandInv, [CommandNext]_commandVars
  PROVE  CommandInv'
<1>1. CASE UNCHANGED commandVars
  <2>1. ExitTellsTruth' /\ Tallied' = Tallied /\ InvocationOK' = InvocationOK /\ OptionKnown' = OptionKnown
    BY <1>1 DEF CommandInv, ExitTellsTruth, Tallied, Unanswered, Passed, Relevant, LeftOut, InvocationOK,
                OptionKnown, commandVars
  <2>2. InputsOK'
    BY <1>1 DEF CommandInv, InputsOK, commandVars
  <2> QED
    BY <1>1, <2>1, <2>2 DEF CommandInv, commandVars
<1>2. CASE RejectOption
  <2>1. /\ exitCode' = 1 /\ ~OptionKnown /\ exitCode = Running
        /\ UNCHANGED <<invocation, machine, inputs, position, tally, found, examined, analysis, outcome>>
    BY <1>2 DEF RejectOption, OptionKnown
  <2>2. ExitTellsTruth'
    BY <1>2, <2>1 DEF RejectOption, ExitTellsTruth
  <2>3. Tallied' = Tallied /\ InvocationOK' = InvocationOK /\ OptionKnown' = OptionKnown
    BY <2>1 DEF Tallied, Unanswered, Passed, Relevant, LeftOut, InvocationOK, OptionKnown
  <2>4. InputsOK'
    BY <2>1 DEF CommandInv, InputsOK
  <2> QED
    BY <2>1, <2>2, <2>3, <2>4 DEF CommandInv
<1>3. CASE Discover \/ AnalysisReturns \/ Settle
  BY <1>3, StageKeeps DEF Discover, AnalysisReturns, Settle
<1>4. CASE AstFile \/ Dockerfile \/ ReachabilityFile
  <2>1. TRUE \in BOOLEAN /\ FALSE \in BOOLEAN
    OBVIOUS
  <2>2. CASE AstFile
    BY <2>1, <2>2, NextFileKeeps DEF AstFile
  <2>3. CASE Dockerfile
    BY <2>1, <2>3, NextFileKeeps DEF Dockerfile
  <2>4. CASE ReachabilityFile
    BY <2>1, <2>4, NextFileKeeps DEF ReachabilityFile
  <2> QED
    BY <1>4, <2>2, <2>3, <2>4
<1>5. CASE InspectPackage
  BY <1>5, InspectKeeps
<1>6. CASE QueryOsv \/ LookupNames \/ ScanHistory
  BY <1>6, CollectKeeps DEF QueryOsv, LookupNames, ScanHistory
<1>7. ASSUME NEW command, NEW code, Exit(command, code), ExitTellsTruth'
      PROVE  CommandInv'
  <2>1. UNCHANGED <<invocation, machine, inputs, position, tally, found, examined, analysis, outcome>>
    BY <1>7 DEF Exit
  <2>2. Tallied' = Tallied /\ InvocationOK' = InvocationOK /\ OptionKnown' = OptionKnown
    BY <2>1 DEF Tallied, Unanswered, Passed, Relevant, LeftOut, InvocationOK, OptionKnown
  <2>3. InputsOK'
    BY <2>1 DEF CommandInv, InputsOK
  <2> QED
    BY <1>7, <2>1, <2>2, <2>3 DEF CommandInv
<1>8. CASE AstScan \/ DockerScan \/ Reachability \/ InstallScripts \/ Vulnerabilities
  <2>1. ASSUME NEW command, NEW findings, FinishAnalysis(command, findings),
               command \in Counting \cup {"vulnerabilities"},
               outcome = "ok" => (GatedFindings(findings, invocation.failOn) # {} <=> GatedOnes(invocation.failOn))
        PROVE  CommandInv'
    <3>1. ExitTellsTruth'
      BY <2>1, FinishTells
    <3>2. Exit(command, DecideExit(AssessExecution, GatedFindings(findings, invocation.failOn)))
      BY <2>1 DEF FinishAnalysis
    <3> QED
      BY <1>7, <3>1, <3>2
  <2>2. \A command, findings : FinishAnalysis(command, findings) => invocation.command = command
    BY DEF FinishAnalysis, Exit
  <2> HIDE DEF GatedOnes
  <2>3. CASE AstScan
    <3>1. FinishAnalysis("ast-scan", Reported) /\ invocation.command = "ast-scan"
      BY <2>2, <2>3 DEF AstScan
    <3> QED
      BY <2>1, <3>1, GateIsTrue DEF Counting
  <2>4. CASE DockerScan
    <3>1. FinishAnalysis("docker-scan", Reported) /\ invocation.command = "docker-scan"
      BY <2>2, <2>4 DEF DockerScan
    <3> QED
      BY <2>1, <3>1, GateIsTrue DEF Counting
  <2>5. CASE Reachability
    <3>1. FinishAnalysis("reachability", {}) /\ invocation.command = "reachability"
      BY <2>2, <2>5 DEF Reachability
    <3> QED
      BY <2>1, <3>1, GateIsTrue DEF Counting
  <2>6. CASE InstallScripts
    BY <2>1, <2>6, GateIsTrue DEF InstallScripts, Counting
  <2>7. CASE Vulnerabilities
    BY <2>1, <2>7, GateIsTrue DEF Vulnerabilities, Counting
  <2> QED
    BY <1>8, <2>3, <2>4, <2>5, <2>6, <2>7
<1>9. CASE GitHistoryCommand \/ DependencyConfusion
  <2>1. PICK command \in {"git-history", "dependency-confusion"} : Exit(command, 0)
    BY <1>9 DEF GitHistoryCommand, DependencyConfusion
  <2>2. ExitTellsTruth'
    BY <2>1 DEF Exit, ExitTellsTruth
  <2> QED
    BY <1>7, <2>1, <2>2
<1> QED
  BY <1>1, <1>2, <1>3, <1>4, <1>5, <1>6, <1>8, <1>9 DEF CommandNext

\* The exit code of a command that ends in finishAnalysis tells the truth about
\* what its analyzer has seen (docs/ANALYSIS-STATUS.md:15-23), however many
\* inputs there are.
THEOREM ExitCodesTellTruth == CommandSpec => []ExitTellsTruth
<1>1. CommandInit => CommandInv
  <2> SUFFICES ASSUME CommandInit PROVE CommandInv
    OBVIOUS
  <2>1. PICK n \in Nat : \E X : inputs \in [1..n -> X]
    <3> DEFINE kinds == IF invocation.command \in FileCommands
                        THEN {"source", "declaration", "Dockerfile"} ELSE Dependencies
    <3>1. inputs \in UNION {[1..m -> kinds] : m \in 0..MaxInputs}
      BY DEF CommandInit
    <3> HIDE DEF kinds
    <3>2. PICK m \in 0..MaxInputs : inputs \in [1..m -> kinds]
      BY <3>1
    <3>3. m \in Nat
      OBVIOUS
    <3> QED
      BY <3>2, <3>3
  <2>2. PICK X : inputs \in [1..n -> X]
    BY <2>1
  <2>3. inputs \in [1..n -> {inputs[i] : i \in DOMAIN inputs}]
    BY <2>2
  <2> DEFINE Xs == {inputs[i] : i \in DOMAIN inputs}
  <2>4. inputs \in Seq(Xs) /\ Len(inputs) = n
    <3> HIDE DEF Xs
    <3>1. inputs \in [1..n -> Xs]
      BY <2>3 DEF Xs
    <3> QED
      BY <2>1, <3>1, SeqDef, LenProperties
  <2>5. position = 0 /\ examined = {} /\ tally = Empty /\ exitCode = Running /\ outcome = "pending"
        /\ analysis = "discovering" /\ machine \in Machines
    BY DEF CommandInit, Empty
  <2>6. InputsOK
    BY <2>1, <2>4, <2>5 DEF InputsOK
  <2>7. InvocationOK
    BY DEF CommandInit, Invocation, InvocationOK, Counting
  <2>8. Tallied
    BY <2>5 DEF Tallied, Tallies, Empty, Unanswered, Passed
  <2>9. ExitTellsTruth
    BY <2>5 DEF ExitTellsTruth
  <2> QED
    BY <2>5, <2>6, <2>7, <2>8, <2>9 DEF CommandInv
<1>2. CommandInv => ExitTellsTruth
  BY DEF CommandInv
<1> QED
  BY <1>1, <1>2, CommandStepKeeps, PTL DEF CommandSpec

-----------------------------------------------------------------------------
(* The watched directories, in a tree of any depth.  A directory that is    *)
(* not watched is in one that is not either, or in one whose watcher has    *)
(* something to report (MissesAnnounced).  So when nothing is left to       *)
(* report, the upper directories of an unwatched one are unwatched up to    *)
(* the root, and the root's recovery is armed (RootWatched).                *)

\* The paths: a directory is on its own path, with those on that of the one it is
\* in; nothing else is.
LEMMA Paths ==
  /\ \A d \in Dirs : ParentOf(d) \in Dirs
  /\ \A d \in Dirs : PathTo[d] \subseteq Dirs /\ d \in PathTo[d] /\ Root \in PathTo[d]
  /\ \A d \in Dirs : PathTo[d] = {d} \cup PathTo[ParentOf(d)]
  /\ PathTo[Root] = {Root}
<1>1. ASSUME NEW d \in Dirs PROVE ParentOf(d) \in Dirs
  BY TreeAssumption DEF ParentOf
<1>2. ASSUME NEW d \in Dirs PROVE PathTo[d] \subseteq Dirs /\ d \in PathTo[d] /\ Root \in PathTo[d]
  <2>1. Root \in PathTo[d]
    BY TreeAssumption
  <2> QED
    BY <2>1 DEF PathTo
<1>3. ASSUME NEW d \in Dirs PROVE PathTo[d] = {d} \cup PathTo[ParentOf(d)]
  <2> DEFINE p == ParentOf(d)
             upwards(s) == \A e \in s : ParentOf(e) \in s
  <2>0. p \in Dirs
    BY <1>1
  <2>1. \A e \in Dirs : \A c : c \in PathTo[e] <=> c \in Dirs /\ \A s \in SUBSET Dirs : e \in s /\ upwards(s) => c \in s
    BY DEF PathTo
  <2>2. PathTo[p] \subseteq Dirs /\ upwards(PathTo[p])
    <3>1. ASSUME NEW e \in PathTo[p], NEW s \in SUBSET Dirs, p \in s, upwards(s) PROVE ParentOf(e) \in s
      BY <2>0, <2>1, <3>1
    <3> QED
      BY <1>1, <2>0, <2>1, <3>1
  <2>3. PathTo[d] \subseteq {d} \cup PathTo[p]
    <3> DEFINE s == {d} \cup PathTo[p]
    <3>1. s \in SUBSET Dirs /\ d \in s /\ upwards(s)
      <4>1. p \in PathTo[p]
        BY <2>0, <2>1
      <4> QED
        BY <2>2, <4>1
    <3> HIDE DEF s, upwards
    <3>2. PathTo[d] \subseteq s
      BY <2>1, <3>1
    <3> QED
      BY <3>2 DEF s
  <2>4. ASSUME NEW c \in PathTo[p] PROVE c \in PathTo[d]
    <3>1. \A s \in SUBSET Dirs : d \in s /\ upwards(s) => c \in s
      BY <2>0, <2>1
    <3> HIDE DEF upwards
    <3> QED
      BY <2>0, <2>1, <3>1
  <2>5. d \in PathTo[d]
    BY <2>1
  <2> QED
    BY <2>3, <2>4, <2>5
<1>4. PathTo[Root] = {Root}
  <2>1. {Root} \in SUBSET Dirs /\ (\A e \in {Root} : ParentOf(e) \in {Root})
    BY TreeAssumption DEF ParentOf
  <2>2. Root \in Dirs /\ \A c \in PathTo[Root] : c \in {Root}
    BY <2>1, TreeAssumption DEF PathTo
  <2> QED
    BY <1>2, <2>2
<1> QED
  BY <1>1, <1>2, <1>3, <1>4

\* A set with d and with the directory that each of its members is in has the
\* whole path.
LEMMA Upwards ==
  ASSUME NEW d \in Dirs, NEW s \in SUBSET Dirs, d \in s, \A e \in s : ParentOf(e) \in s
  PROVE  PathTo[d] \subseteq s
  BY DEF PathTo

\* What is below what: only a directory's own path leads to it, and no directory
\* is below one that it is in.
LEMMA Below ==
  /\ \A d \in Dirs : d \in Under[d] /\ Under[d] \subseteq Dirs
  /\ \A d, c \in Dirs : c \in Under[d] /\ c # d => c # Root /\ ParentOf(c) \in Under[d]
  /\ \A d, c \in Dirs : ParentOf(c) \in Under[d] => c \in Under[d]
  /\ \A d \in Dirs : d # Root => ParentOf(d) \notin Under[d] /\ ParentOf(d) # d
  /\ \A d, c, e \in Dirs : e \in Under[c] /\ c \in Under[d] => e \in Under[d]
  /\ Under[Root] = Dirs
<1>1. \A d, c \in Dirs : c \in Under[d] <=> d \in PathTo[c]
  BY DEF Under
<1>2. \A d \in Dirs : d \in Under[d] /\ Under[d] \subseteq Dirs
  BY Paths DEF Under
<1>3. ASSUME NEW d \in Dirs, NEW c \in Dirs, c \in Under[d], c # d
      PROVE  c # Root /\ ParentOf(c) \in Under[d]
  BY <1>1, <1>3, Paths
<1>4. ASSUME NEW d \in Dirs, NEW c \in Dirs, ParentOf(c) \in Under[d] PROVE c \in Under[d]
  BY <1>1, <1>4, Paths
<1>5. ASSUME NEW d \in Dirs, d # Root, ParentOf(d) \in Under[d] PROVE FALSE
  <2> DEFINE s == {e \in Dirs : d \in PathTo[e]}
  <2>1. d \in s /\ s \in SUBSET Dirs
    BY Paths
  <2>2. ASSUME NEW e \in s PROVE ParentOf(e) \in s
    <3>1. CASE e = d
      BY <1>1, <1>5, <3>1, Paths
    <3>2. CASE e # d
      BY <3>2, Paths
    <3> QED
      BY <3>1, <3>2
  <2>3. PathTo[d] \subseteq s
    BY <2>1, <2>2, Upwards
  <2>4. Root \in s
    BY <2>3, Paths
  <2> QED
    BY <2>4, <1>5, Paths
<1>6. ASSUME NEW d \in Dirs, NEW c \in Dirs, NEW e \in Dirs, e \in Under[c], c \in Under[d]
      PROVE  e \in Under[d]
  <2> DEFINE s == {x \in Dirs : x \in PathTo[e]}
  <2>1. PathTo[c] \subseteq PathTo[e]
    <3>1. c \in PathTo[e] /\ PathTo[e] \in SUBSET Dirs
      BY <1>1, <1>6, Paths
    <3>2. ASSUME NEW x \in PathTo[e] PROVE ParentOf(x) \in PathTo[e]
      <4>1. x \in Dirs /\ ParentOf(x) \in Dirs
        BY Paths
      <4>2. ASSUME NEW t \in SUBSET Dirs, e \in t, \A y \in t : ParentOf(y) \in t PROVE ParentOf(x) \in t
        BY <4>2 DEF PathTo
      <4> QED
        BY <4>1, <4>2 DEF PathTo
    <3> QED
      BY <3>1, <3>2, Upwards
  <2> QED
    BY <1>1, <1>6, <2>1
<1>7. Under[Root] = Dirs
  BY Paths, TreeAssumption DEF Under
<1> QED
  <2>1. \A d \in Dirs : d # Root => ParentOf(d) \notin Under[d] /\ ParentOf(d) # d
    BY <1>2, <1>5
  <2> QED
    BY <1>2, <1>3, <1>4, <1>6, <1>7, <2>1

\* Identities are taken from the count of moves: one that is new is nobody's.
TreeTypes ==
  /\ moves \in Nat
  /\ ino \in [Dirs -> 0..moves] /\ away \in [Dirs -> 0..moves]
  /\ watchers \in [Dirs -> 0..moves]
  /\ treeEvents \subseteq Dirs /\ returned \subseteq Dirs
  /\ recovery \in BOOLEAN /\ treeClosed \in BOOLEAN /\ lost \in BOOLEAN

\* A directory is in one that is there.
Rooted == \A d \in Dirs : ino[d] # 0 => \A above \in PathTo[d] : ino[above] # 0

\* The root's watcher is that of the root, or of the one that was moved away last;
\* without it the recovery is armed.
RootWatched ==
  ~treeClosed /\ ~lost =>
    /\ watchers[Root] = 0 => recovery
    /\ ino[Root] # 0 => watchers[Root] \in {0, ino[Root]}
    /\ ino[Root] = 0 => watchers[Root] \in {0, away[Root]}

\* Nothing above is ignored, or came back with what it was in.
Clean(d) == PathTo[d] \cap (IgnoredDirs \cup returned) = {}

\* The watcher above a directory that is not watched has something to report.
Missed(d) == d # Root /\ ino[d] # 0 /\ watchers[d] # ino[d] /\ Clean(d)
Announced(d) == watchers[ParentOf(d)] = ino[ParentOf(d)] => ParentOf(d) \in treeEvents
MissesAnnounced == ~treeClosed /\ ~lost => \A d \in Dirs : Missed(d) => Announced(d)

TreeInv == TreeTypes /\ Rooted /\ RootWatched /\ MissesAnnounced

\* The invariant of the watched tree holds at first, when nothing is watched.
LEMMA TreeInvInit == TreeInit => TreeInv
<1> SUFFICES ASSUME TreeInit PROVE TreeInv
  OBVIOUS
<1> USE DEF TreeInit
<1>1. TreeTypes
  <2>1. moves = 1 /\ 0..1 = {0, 1} /\ 1 \in Nat
    OBVIOUS
  <2>2. ino \in [Dirs -> 0..1] /\ watchers \in [Dirs -> 0..1] /\ away \in [Dirs -> 0..1]
    BY <2>1
  <2>3. treeEvents \subseteq Dirs /\ returned \subseteq Dirs
    OBVIOUS
  <2>4. recovery \in BOOLEAN /\ treeClosed \in BOOLEAN /\ lost \in BOOLEAN
    OBVIOUS
  <2> QED
    BY <2>1, <2>2, <2>3, <2>4 DEF TreeTypes
<1>2. Rooted
  <2> SUFFICES ASSUME NEW d \in Dirs, ino[d] # 0 PROVE \A above \in PathTo[d] : ino[above] # 0
    BY DEF Rooted
  <2> DEFINE s == {c \in Dirs : ino[c] = 1}
  <2>1. d \in s /\ s \in SUBSET Dirs /\ \A e \in s : ParentOf(e) \in s
    BY Paths
  <2>2. PathTo[d] \subseteq s
    <3> HIDE DEF s
    <3> QED
      BY <2>1, Upwards
  <2> QED
    BY <2>2
<1>3. RootWatched
  <2>1. PathTo[Root] \cap IgnoredDirs = {} /\ Root \in Dirs
    BY Paths, TreeAssumption
  <2> QED
    BY <2>1 DEF RootWatched
<1>4. MissesAnnounced
  BY <1>1 DEF MissesAnnounced, Missed, Clean, TreeTypes
<1> QED
  BY <1>1, <1>2, <1>3, <1>4 DEF TreeInv

\* What is not there has nothing below it.
LEMMA NothingBelow ==
  ASSUME Rooted, NEW d \in Dirs, ino[d] = 0
  PROVE  \A c \in Under[d] : ino[c] = 0
  BY Below DEF Rooted, Under

\* A directory is removed with all below it.
LEMMA RemovalKeepsRooted ==
  ASSUME TreeTypes, Rooted, NEW d \in Dirs,
         ino' = [c \in Dirs |-> IF c \in Under[d] THEN 0 ELSE ino[c]]
  PROVE  Rooted'
<1> SUFFICES ASSUME NEW e \in Dirs, ino'[e] # 0, NEW above \in PathTo[e]
             PROVE  ino'[above] # 0
  BY DEF Rooted
<1>1. above \in Dirs /\ e \in Under[above]
  BY Paths DEF Under
<1>2. e \notin Under[d] /\ ino[e] # 0
  OBVIOUS
<1>3. above \notin Under[d]
  BY <1>1, <1>2, Below
<1>4. ino[above] # 0
  BY <1>2 DEF Rooted
<1> QED
  BY <1>1, <1>3, <1>4

\* The tree changes.

\* A directory made anew keeps the invariant.
LEMMA MakeKeeps == ASSUME TreeInv, NEW d \in Dirs, MakeDir(d) PROVE TreeInv'
<1> USE DEF TreeInv, MakeDir, Moved
<1>1. TreeTypes'
  <2>1. WatchersOn({ParentOf(d)} \ {d}) \subseteq Dirs
    BY Paths DEF WatchersOn
  <2>2. 0..moves \subseteq 0..(moves + 1) /\ moves + 1 \in 0..(moves + 1) /\ moves + 1 \in Nat
    BY DEF TreeTypes
  <2>3. ino' \in [Dirs -> 0..(moves + 1)]
    BY <2>2 DEF TreeTypes
  <2>4. away' \in [Dirs -> 0..(moves + 1)] /\ watchers' \in [Dirs -> 0..(moves + 1)]
    BY <2>2 DEF TreeTypes
  <2> QED
    BY <2>1, <2>2, <2>3, <2>4 DEF TreeTypes
<1>t. /\ moves \in Nat /\ ino' = [ino EXCEPT ![d] = moves + 1] /\ DOMAIN ino = Dirs
      /\ \A e \in Dirs : watchers[e] \in 0..moves
  BY DEF TreeTypes
<1>2. Rooted'
  <2> SUFFICES ASSUME NEW e \in Dirs, ino'[e] # 0, NEW above \in PathTo[e] PROVE ino'[above] # 0
    BY DEF Rooted
  <2>1. above \in Dirs
    BY Paths
  <2>2. CASE above = d
    BY <1>t, <2>1, <2>2
  <2>3. CASE above # d /\ e # d
    BY <1>t, <2>1, <2>3 DEF Rooted
  <2>4. CASE above # d /\ e = d
    <3>1. d # Root /\ above \in PathTo[ParentOf(d)] /\ ino[ParentOf(d)] # 0
      BY <2>4, Paths
    <3>2. ino[above] # 0
      BY <3>1, Paths DEF Rooted
    <3> QED
      BY <1>t, <2>1, <2>4, <3>2
  <2> QED
    BY <2>2, <2>3, <2>4
<1>3. RootWatched'
  <2>1. CASE d = Root
    <3> SUFFICES ASSUME ~treeClosed, ~lost'
                 PROVE  watchers[Root] = 0 /\ recovery
      BY <1>t, <2>1, TreeAssumption DEF RootWatched
    <3> QED
      BY <2>1, TreeAssumption DEF RootWatched, TreeTypes
  <2>2. CASE d # Root
    BY <1>t, <2>2, TreeAssumption DEF RootWatched, TreeTypes
  <2> QED
    BY <2>1, <2>2
<1>4. MissesAnnounced'
  <2> SUFFICES ASSUME ~treeClosed, ~lost', NEW e \in Dirs, Missed(e)', 
                      watchers[ParentOf(e)] = ino'[ParentOf(e)]
               PROVE  ParentOf(e) \in treeEvents'
    BY DEF MissesAnnounced, Announced
  <2>1. ParentOf(e) \in Dirs /\ ParentOf(e) # d
    BY <1>t, Paths
  <2>2. ~lost
    BY DEF TreeTypes
  <2>3. CASE e = d
    <3>1. ParentOf(d) \in WatchersOn({ParentOf(d)} \ {d})
      <4>1. d # Root /\ ino[ParentOf(d)] # 0
        BY <2>3 DEF Missed
      <4> QED
        BY <1>t, <2>1, <2>3, <4>1 DEF WatchersOn
    <3> QED
      BY <2>3, <3>1
  <2>4. CASE e # d
    <3>1. e \notin Under[d]
      <4>1. ino[e] # 0
        BY <1>t, <2>4 DEF Missed
      <4> QED
        BY <4>1, NothingBelow
    <3>2. d \notin PathTo[e]
      BY <3>1 DEF Under
    <3>3. Missed(e)
      BY <1>t, <2>4, <3>2 DEF Missed, Clean
    <3> QED
      BY <1>t, <2>1, <2>2, <3>3 DEF MissesAnnounced, Announced
  <2> QED
    BY <2>3, <2>4
<1> QED
  BY <1>1, <1>2, <1>3, <1>4

\* A file changed in a directory keeps the invariant.
LEMMA TouchKeeps == ASSUME TreeInv, NEW d \in Dirs, TouchDir(d) PROVE TreeInv'
<1> USE DEF TreeInv, TouchDir, Moved
<1>1. TreeTypes'
  <2>1. WatchersOn({d}) \subseteq Dirs
    BY DEF WatchersOn
  <2>2. 0..moves \subseteq 0..(moves + 1) /\ moves + 1 \in Nat
    BY DEF TreeTypes
  <2> QED
    BY <2>1, <2>2 DEF TreeTypes
<1>2. Rooted' /\ RootWatched'
  BY DEF Rooted, RootWatched
<1>3. MissesAnnounced'
  BY DEF MissesAnnounced, Missed, Announced, Clean
<1> QED
  BY <1>1, <1>2, <1>3

\* A directory is deleted or moved away, with all below it.
LEMMA RemovalKeeps ==
  ASSUME TreeInv, NEW d \in Dirs, ino[d] # 0, NEW own \in SUBSET Dirs,
         ino' = [c \in Dirs |-> IF c \in Under[d] THEN 0 ELSE ino[c]],
         \/ d # Root /\ away' = away
         \/ away' = [c \in Dirs |-> IF c \in Under[d] THEN ino[c] ELSE away[c]],
         Reports(d, own)
  PROVE  TreeInv'
<1> USE DEF TreeInv, Reports, Moved
<1>1. TreeTypes'
  <2>1. WatchersOn({ParentOf(d)} \cup own) \subseteq Dirs
    BY Paths DEF WatchersOn
  <2>2. 0..moves \subseteq 0..(moves + 1) /\ 0 \in 0..(moves + 1) /\ moves + 1 \in Nat
    BY DEF TreeTypes
  <2>3. ino' \in [Dirs -> 0..(moves + 1)] /\ away' \in [Dirs -> 0..(moves + 1)]
        /\ watchers' \in [Dirs -> 0..(moves + 1)]
    BY <2>2 DEF TreeTypes
  <2> QED
    BY <2>1, <2>2, <2>3 DEF TreeTypes
<1>2. Rooted'
  BY RemovalKeepsRooted
<1>3. RootWatched'
  <2>1. CASE d = Root
    <3>1. ino'[Root] = 0 /\ away'[Root] = ino[Root]
      BY <2>1, Below, TreeAssumption
    <3> QED
      BY <2>1, <3>1 DEF RootWatched
  <2>2. CASE d # Root
    <3>1. Root \notin Under[d]
      BY <2>2, Paths DEF Under
    <3>2. ino'[Root] = ino[Root] /\ away'[Root] = away[Root]
      BY <3>1, TreeAssumption
    <3> QED
      BY <3>2 DEF RootWatched
  <2> QED
    BY <2>1, <2>2
<1>4. MissesAnnounced'
  <2> SUFFICES ASSUME ~treeClosed, ~lost, NEW e \in Dirs, Missed(e)', 
                      watchers[ParentOf(e)] = ino'[ParentOf(e)]
               PROVE  ParentOf(e) \in treeEvents
    BY DEF MissesAnnounced, Announced
  <2>1. e \notin Under[d] /\ Missed(e)
    BY DEF Missed, Clean
  <2>2. ParentOf(e) \in Dirs /\ ParentOf(e) \notin Under[d]
    BY <2>1, Paths, Below
  <2> QED
    BY <2>1, <2>2 DEF MissesAnnounced, Announced
<1> QED
  BY <1>1, <1>2, <1>3, <1>4

\* A directory deleted keeps the invariant.
LEMMA DeleteKeeps == ASSUME TreeInv, NEW d \in Dirs, DeleteDir(d) PROVE TreeInv'
<1>1. PICK own \in SUBSET Under[d] : Reports(d, own)
  BY DEF DeleteDir
<1>2. own \in SUBSET Dirs
  BY Below
<1> QED
  BY <1>1, <1>2, RemovalKeeps DEF DeleteDir

\* A directory moved out of the tree keeps the invariant.
LEMMA MoveKeeps == ASSUME TreeInv, NEW d \in Dirs, MoveAway(d) PROVE TreeInv'
<1>1. PICK own \in SUBSET Dirs : Reports(d, own)
  BY DEF MoveAway
<1> QED
  BY <1>1, RemovalKeeps DEF MoveAway

\* A directory moved back into the tree keeps the invariant.
LEMMA PutBackKeeps == ASSUME TreeInv, NEW d \in Dirs, PutBack(d) PROVE TreeInv'
<1> USE DEF TreeInv, PutBack, Moved
<1>a. d \in AwayWith(d) /\ AwayWith(d) \subseteq Under[d] /\ Under[d] \subseteq Dirs
      /\ \A c \in AwayWith(d) : away[c] # 0
  <2>1. \A above \in PathTo[d] \cap Under[d] : above = d
    <3> SUFFICES ASSUME NEW above \in PathTo[d] \cap Under[d], above # d PROVE FALSE
      OBVIOUS
    <3>1. above # Root /\ ParentOf(above) \in Under[d] /\ above \in Dirs
      BY Below
    <3>2. above \in PathTo[ParentOf(d)] /\ d \in Dirs /\ ParentOf(d) \in Dirs
      BY Paths
    <3>3. ParentOf(d) \in Under[above]
      BY <3>1, <3>2 DEF Under
    <3>4. ParentOf(d) \in Under[d]
      BY <3>1, <3>2, <3>3, Below
    <3>5. d # Root
      BY <3>1, Paths
    <3> QED
      BY <3>4, <3>5, Below
  <2>2. d \in Under[d] /\ Under[d] \subseteq Dirs
    BY Below
  <2>3. \A c \in AwayWith(d) : away[c] # 0
    BY <2>2, Paths DEF AwayWith
  <2> QED
    BY <2>1, <2>2, <2>3 DEF AwayWith
<1>t. /\ \A c \in Dirs : ino'[c] = IF c \in AwayWith(d) THEN away[c] ELSE ino[c]
      /\ \A c \in Under[d] : ino[c] = 0
  BY NothingBelow
<1>1. TreeTypes'
  <2>1. WatchersOn({ParentOf(d)} \ {d}) \subseteq Dirs
    BY Paths DEF WatchersOn
  <2>2. 0..moves \subseteq 0..(moves + 1) /\ 0 \in 0..(moves + 1) /\ moves + 1 \in Nat
    BY DEF TreeTypes
  <2>3. ino' \in [Dirs -> 0..(moves + 1)] /\ away' \in [Dirs -> 0..(moves + 1)]
        /\ watchers' \in [Dirs -> 0..(moves + 1)]
    BY <2>2 DEF TreeTypes
  <2>4. returned' \subseteq Dirs
    BY <1>a DEF TreeTypes
  <2> QED
    BY <2>1, <2>2, <2>3, <2>4 DEF TreeTypes
<1>2. Rooted'
  <2> SUFFICES ASSUME NEW e \in Dirs, ino'[e] # 0, NEW above \in PathTo[e] PROVE ino'[above] # 0
    BY DEF Rooted
  <2>0. above \in Dirs /\ e \in Under[above]
    BY Paths DEF Under
  <2>1. CASE e \in AwayWith(d) /\ above \in Under[d]
    <3>1. above \in AwayWith(d)
      <4> SUFFICES ASSUME NEW x \in PathTo[above] \cap Under[d] PROVE away[x] # 0
        BY <2>1 DEF AwayWith
      <4>1. x \in PathTo[e]
        <5>1. x \in Dirs /\ above \in Under[x]
          BY <2>0, Paths DEF Under
        <5>2. e \in Under[x]
          BY <2>0, <5>1, Below
        <5> QED
          BY <5>1, <5>2 DEF Under
      <4> QED
        BY <2>1, <4>1 DEF AwayWith
    <3> QED
      BY <1>a, <1>t, <2>0, <3>1
  <2>2. CASE e \in AwayWith(d) /\ above \notin Under[d]
    <3> DEFINE s == {x \in PathTo[e] : x \in Under[d] \/ ino[x] # 0}
    <3>1. s \in SUBSET Dirs /\ e \in s
      BY <1>a, <2>2, Paths
    <3>2. ASSUME NEW x \in s PROVE ParentOf(x) \in s
      <4>1. x \in Dirs /\ ParentOf(x) \in Dirs /\ ParentOf(x) \in PathTo[x] /\ e \in Under[x]
        BY <3>1, Paths DEF Under
      <4>2. ParentOf(x) \in PathTo[e]
        <5>1. x \in Under[ParentOf(x)]
          BY <4>1 DEF Under
        <5>2. e \in Under[ParentOf(x)]
          BY <4>1, <5>1, Below
        <5> QED
          BY <4>1, <5>2 DEF Under
      <4>3. CASE x = d /\ d # Root
        BY <4>2, <4>3
      <4>4. CASE x = d /\ d = Root
        BY <3>2, <4>4 DEF ParentOf
      <4>5. CASE x \in Under[d] /\ x # d
        BY <4>1, <4>2, <4>5, Below
      <4>6. CASE x \notin Under[d]
        BY <4>1, <4>2, <4>6 DEF Rooted
      <4> QED
        BY <4>3, <4>4, <4>5, <4>6
    <3>3. PathTo[e] \subseteq s
      <4> HIDE DEF s
      <4> QED
        BY <3>1, <3>2, Upwards
    <3> QED
      BY <1>a, <1>t, <2>0, <2>2, <3>3
  <2>3. CASE e \notin AwayWith(d)
    <3>1. ino[e] # 0 /\ ino[above] # 0
      BY <1>t, <2>3 DEF Rooted
    <3> QED
      BY <1>a, <1>t, <2>0, <3>1
  <2> QED
    BY <2>1, <2>2, <2>3
<1>3. RootWatched'
  <2>1. CASE d = Root
    <3>1. ino'[Root] = away[Root] /\ away[Root] # 0
      BY <1>a, <1>t, <2>1
    <3> QED
      BY <2>1, <3>1 DEF RootWatched
  <2>2. CASE d # Root
    <3>1. Root \notin Under[d]
      BY <2>2, Paths DEF Under
    <3>2. ino'[Root] = ino[Root] /\ away'[Root] = away[Root]
      BY <1>a, <1>t, <3>1, TreeAssumption
    <3> QED
      BY <3>2 DEF RootWatched
  <2> QED
    BY <2>1, <2>2
<1>4. MissesAnnounced'
  <2> SUFFICES ASSUME ~treeClosed, ~lost, NEW e \in Dirs, Missed(e)', 
                      watchers[ParentOf(e)] = ino'[ParentOf(e)]
               PROVE  ParentOf(e) \in treeEvents'
    BY DEF MissesAnnounced, Announced
  <2>1. e \notin Under[d] \ {d}
    BY Paths DEF Missed, Clean
  <2>2. ParentOf(e) \in Dirs /\ e # Root
    BY Paths DEF Missed
  <2>3. CASE e = d
    <3>1. ParentOf(d) \notin Under[d] /\ ParentOf(d) # d /\ ino[ParentOf(d)] # 0
      BY <2>2, <2>3, Below
    <3>2. ino'[ParentOf(d)] = ino[ParentOf(d)]
      BY <1>a, <1>t, <2>2, <2>3, <3>1
    <3>3. ParentOf(d) \in WatchersOn({ParentOf(d)} \ {d})
      BY <2>3, <3>1, <3>2 DEF WatchersOn
    <3> QED
      BY <2>3, <3>3
  <2>4. CASE e # d
    <3>1. e \notin Under[d] /\ ParentOf(e) \notin Under[d]
      BY <2>1, <2>2, <2>4, Below
    <3>2. ino'[e] = ino[e] /\ ino'[ParentOf(e)] = ino[ParentOf(e)]
      BY <1>a, <1>t, <2>2, <3>1
    <3>3. Missed(e)
      BY <3>2 DEF Missed, Clean
    <3> QED
      BY <3>2, <3>3 DEF MissesAnnounced, Announced
  <2> QED
    BY <2>3, <2>4
<1> QED
  BY <1>1, <1>2, <1>3, <1>4

\* The watchers keep up.

\* What Reconciled makes of the watchers, when no watch is refused to another
\* directory than the root: x's own event is used up, all that can be opened below
\* ds is opened, and what is below gone is closed.
LEMMA OpenedAreWatched ==
  ASSUME TreeTypes, NEW ds \in SUBSET Dirs, NEW e \in Dirs, e # Root, ino[e] # 0,
         e \notin IgnoredDirs, watchers[e] # ino[e],
         ParentOf(e) \in UNION {Opens(c) : c \in ds}
  PROVE  e \in UNION {Opens(c) : c \in ds}
<1>1. PICK c \in ds : ParentOf(e) \in Opens(c)
  OBVIOUS
<1>2. e \in Under[c]
  BY <1>1, Below DEF Opens
<1>3. ASSUME NEW above \in PathTo[e] \cap Under[c]
      PROVE  ino[above] # 0 /\ watchers[above] # ino[above] /\ above \notin IgnoredDirs
  <2>1. CASE above = e
    BY <2>1
  <2>2. CASE above # e
    <3>1. above \in PathTo[ParentOf(e)]
      BY <2>2, Paths
    <3> QED
      BY <1>1, <3>1 DEF Opens
  <2> QED
    BY <2>1, <2>2
<1>4. e \in Opens(c)
  BY <1>2, <1>3 DEF Opens
<1> QED
  BY <1>4

\* What opening a directory watches lies below it, is there, and was not
\* watched; the root is opened only as itself.
LEMMA OpensBelow ==
  /\ \A c \in Dirs : Opens(c) \subseteq Under[c] /\ Opens(c) \subseteq Dirs
  /\ \A c \in Dirs : \A d \in Opens(c) : ino[d] # 0 /\ watchers[d] # ino[d]
  /\ \A c \in Dirs : c # Root => Root \notin Opens(c)
<1>1. \A c \in Dirs : Opens(c) \subseteq Under[c] /\ Opens(c) \subseteq Dirs
  BY Below DEF Opens
<1>2. ASSUME NEW c \in Dirs, NEW d \in Opens(c) PROVE ino[d] # 0 /\ watchers[d] # ino[d]
  <2>1. d \in PathTo[d] \cap Under[c]
    BY <1>1, Paths
  <2> QED
    BY <2>1 DEF Opens
<1>3. ASSUME NEW c \in Dirs, c # Root PROVE Root \notin Opens(c)
  BY <1>1, <1>3, Paths DEF Under
<1> QED
  BY <1>1, <1>2, <1>3

\* The types, whatever is refused.
LEMMA ReconciledTypes ==
  ASSUME TreeTypes, NEW from, NEW ds \in SUBSET Dirs, NEW gone \in SUBSET Dirs, NEW refused,
         Reconciled(from, ds, gone, refused), recovery' \in BOOLEAN,
         UNCHANGED <<fileTree, treeClosed, returned>>
  PROVE  TreeTypes'
<1>1. watchers' \in [Dirs -> 0..moves]
  <2>1. 0 \in 0..moves
    BY DEF TreeTypes
  <2>2. \A e \in Dirs : watchers'[e] \in {0, ino[e], watchers[e]}
    BY DEF Reconciled
  <2>3. watchers' = [e \in Dirs |-> watchers'[e]]
    BY DEF Reconciled
  <2>4. \A e \in Dirs : ino[e] \in 0..moves /\ watchers[e] \in 0..moves
    BY DEF TreeTypes
  <2>5. \A e \in Dirs : watchers'[e] \in 0..moves
    BY <2>1, <2>2, <2>4
  <2> QED
    BY <2>3, <2>5
<1>2. treeEvents' \subseteq Dirs /\ lost' \in BOOLEAN
  BY DEF Reconciled, Delivered, TreeTypes
<1> QED
  BY <1>1, <1>2 DEF TreeTypes, fileTree

\* The handler of a directory's event, which reconciles it, keeps the invariant.
LEMMA EventKeeps == ASSUME TreeInv, NEW x \in Dirs, TreeEvent(x) PROVE TreeInv'
<1> DEFINE arrived == PresentChildren(x)
           opened == UNION {Opens(c) : c \in arrived}
           gone == {c \in ({x} \cup ChildrenOf(x)) \ opened : watchers[c] \notin {0, ino[c]}}
           removed == UNION {Under[d] : d \in gone}
<1>1. PICK refused \in Refusals(arrived) : Reconciled({x}, arrived, gone, refused)
  BY DEF TreeEvent, Reconcile
<1>2. /\ recovery' = (recovery \/ (x = Root /\ ino[Root] = 0))
      /\ UNCHANGED <<ino, away, moves, treeClosed, returned>> /\ ~treeClosed /\ x \in treeEvents
  BY DEF TreeEvent, Reconcile, RecoveryAfter, fileTree
<1>c. /\ ChildrenOf(x) \subseteq Dirs /\ arrived \subseteq ChildrenOf(x) /\ Root \notin ChildrenOf(x)
      /\ \A c \in Dirs : c \in ChildrenOf(x) <=> c # Root /\ ParentOf(c) = x
      /\ \A c \in ChildrenOf(x) : ino[c] # 0 => c \in arrived
      /\ \A c \in arrived : ino[c] # 0
  BY DEF ChildrenOf, PresentChildren, ParentOf
<1>3. TreeTypes'
  <2>1. arrived \in SUBSET Dirs /\ gone \in SUBSET Dirs /\ recovery' \in BOOLEAN
    BY <1>2, <1>c DEF TreeInv, TreeTypes
  <2>2. UNCHANGED <<fileTree, treeClosed, returned>>
    BY <1>2 DEF fileTree
  <2> HIDE DEF arrived, gone
  <2> QED
    BY <1>1, <2>1, <2>2, ReconciledTypes DEF TreeInv
<1>4. Rooted'
  BY <1>2 DEF TreeInv, Rooted
\* A refused watch is that of another directory than the root.
<1>5. ASSUME ~lost' PROVE refused = {} /\ ~lost
  <2>1. opened \subseteq Dirs /\ Root \notin opened
    BY <1>c, OpensBelow
  <2>2. refused \subseteq opened
    BY DEF Refusals
  <2> QED
    BY <1>1, <1>5, <2>1, <2>2 DEF Reconciled
<1>6. ASSUME ~lost'
      PROVE  /\ \A e \in Dirs : watchers'[e] =
                  IF e \in removed THEN 0 ELSE IF e \in opened THEN ino[e] ELSE watchers[e]
             /\ treeEvents' = treeEvents \ ({x} \cup removed \cup opened)
  <2>1. {d \in arrived : ino[d] = 0} = {} /\ refused = {}
    BY <1>5, <1>6, <1>c
  <2> HIDE DEF arrived, gone
  <2> QED
    BY <1>1, <2>1 DEF Reconciled, Delivered
<1>7. /\ opened \subseteq Dirs /\ Root \notin opened /\ removed \subseteq Dirs /\ gone \subseteq Dirs
      /\ \A e \in opened : ino[e] # 0 /\ watchers[e] # ino[e]
      /\ \A e \in gone : e \notin opened /\ watchers[e] \notin {0, ino[e]}
      /\ \A e \in removed : e \in gone \/ (e # Root /\ ParentOf(e) \in removed)
  <2>1. opened \subseteq Dirs /\ Root \notin opened /\ \A e \in opened : ino[e] # 0 /\ watchers[e] # ino[e]
    BY <1>c, OpensBelow
  <2>2. removed \subseteq Dirs /\ gone \subseteq Dirs
    BY <1>c, Below
  <2>3. ASSUME NEW e \in removed, e \notin gone PROVE e # Root /\ ParentOf(e) \in removed
    <3>1. PICK g \in gone : e \in Under[g]
      OBVIOUS
    <3>2. e # g /\ g \in Dirs /\ e \in Dirs
      BY <2>2, <2>3
    <3> HIDE DEF gone
    <3> QED
      BY <3>1, <3>2, Below
  <2> QED
    BY <2>1, <2>2, <2>3
<1>8. RootWatched'
  <2> SUFFICES ASSUME ~lost'
               PROVE  /\ watchers'[Root] = 0 => recovery'
                      /\ ino[Root] # 0 => watchers'[Root] \in {0, ino[Root]}
                      /\ ino[Root] = 0 => watchers'[Root] \in {0, away[Root]}
    BY <1>2 DEF RootWatched
  <2>1. Root \in Dirs /\ Root \notin opened
    BY <1>7, TreeAssumption
  <2>2. /\ watchers[Root] = 0 => recovery
        /\ ino[Root] # 0 => watchers[Root] \in {0, ino[Root]}
        /\ ino[Root] = 0 => watchers[Root] \in {0, away[Root]}
    BY <1>2, <1>5 DEF TreeInv, RootWatched
  <2>3. CASE Root \in removed
    <3>1. Root \in gone
      BY <1>7, <2>3
    <3>2. x = Root /\ ino[Root] = 0
      <4>1. Root = x
        BY <1>c, <3>1
      <4>2. watchers[Root] \notin {0, ino[Root]}
        BY <1>7, <3>1
      <4> QED
        BY <2>2, <4>1, <4>2
    <3>3. watchers'[Root] = 0
      BY <1>6, <2>1, <2>3
    <3> QED
      BY <1>2, <3>2, <3>3
  <2>4. CASE Root \notin removed
    <3>1. watchers'[Root] = watchers[Root]
      BY <1>6, <2>1, <2>4
    <3> QED
      BY <1>2, <2>2, <3>1
  <2> QED
    BY <2>3, <2>4
<1>9. MissesAnnounced'
  <2> SUFFICES ASSUME ~lost', NEW e \in Dirs, e # Root, ino[e] # 0, watchers'[e] # ino[e],
                      Clean(e), watchers'[ParentOf(e)] = ino[ParentOf(e)]
               PROVE  ParentOf(e) \in treeEvents'
    BY <1>2 DEF MissesAnnounced, Missed, Announced, Clean
  <2> DEFINE p == ParentOf(e)
  <2>1. p \in Dirs /\ p \in PathTo[e] /\ e \in PathTo[e] /\ p # e
    BY Paths, Below
  <2>2. ino[p] # 0 /\ e \notin IgnoredDirs
    BY <2>1 DEF TreeInv, Rooted, Clean
  <2>3. p \notin removed
    BY <1>6, <2>1, <2>2
  <2>4. e \in removed => e \in gone
    BY <1>7, <2>3
  <2>5. e \notin opened
    BY <1>6, <1>7, <2>4
  <2> HIDE DEF p
  <2>6. p \notin opened
    <3> SUFFICES ASSUME p \in opened PROVE FALSE
      OBVIOUS
    <3>1. arrived \in SUBSET Dirs
      BY <1>c
    <3>2. watchers[e] = ino[e]
      <4> HIDE DEF arrived
      <4> QED
        BY <2>2, <2>5, <3>1, OpenedAreWatched DEF TreeInv, p
    <3>3. e \notin gone
      BY <1>7, <3>2
    <3> QED
      BY <1>6, <2>4, <2>5, <3>2, <3>3
  <2>7. p # x
    <3> SUFFICES ASSUME p = x PROVE FALSE
      OBVIOUS
    <3>1. e \in arrived
      BY <1>c DEF p
    <3>2. watchers[e] = ino[e]
      <4> SUFFICES ASSUME watchers[e] # ino[e] PROVE e \in Opens(e)
        BY <2>5, <3>1
      <4>1. \A above \in PathTo[e] \cap Under[e] : above = e
        <5> SUFFICES ASSUME NEW above \in PathTo[e] \cap Under[e], above # e PROVE FALSE
          OBVIOUS
        <5>1. above \in Dirs /\ above \in PathTo[p] /\ p \in Dirs
          BY <2>1, Paths DEF p
        <5>2. p \in Under[above]
          BY <5>1 DEF Under
        <5> QED
          BY <2>1, <5>1, <5>2, Below DEF p
      <4> QED
        BY <2>2, <4>1, Below DEF Opens
    <3>3. e \notin gone
      BY <1>7, <3>2
    <3> QED
      BY <1>6, <2>4, <2>5, <3>2, <3>3
  <2>8. p \in treeEvents
    <3>1. watchers[p] = ino[p]
      BY <1>6, <2>1, <2>3, <2>6 DEF p
    <3>2. watchers[e] # ino[e]
      BY <1>6, <1>7, <2>4, <2>5
    <3>3. Missed(e)
      BY <3>2 DEF Missed
    <3> QED
      BY <1>2, <1>5, <3>1, <3>3 DEF TreeInv, MissesAnnounced, Announced, p
  <2> QED
    BY <1>6, <2>3, <2>6, <2>7, <2>8 DEF p
<1> QED
  BY <1>3, <1>4, <1>8, <1>9 DEF TreeInv

\* Opening the root again keeps the invariant.
LEMMA RecoveryKeeps == ASSUME TreeInv, RecoverRoot PROVE TreeInv'
<1> USE TreeAssumption DEF RecoverRoot
<1>1. UNCHANGED <<ino, away, moves, treeClosed, returned>> /\ ~treeClosed /\ recovery
  BY DEF fileTree
<1>2. CASE watchers[Root] # 0
  BY <1>1, <1>2 DEF TreeInv, TreeTypes, Rooted, RootWatched, MissesAnnounced, Missed, Announced, Clean
<1>3. CASE watchers[Root] = 0
  <2>1. PICK refused \in Refusals({Root}) : Reconciled({}, {Root}, {}, refused)
    BY <1>3
  <2>2. recovery' = (watchers'[Root] = 0)
    BY <1>3
  <2>3. TreeTypes'
    <3>1. {Root} \in SUBSET Dirs /\ {} \in SUBSET Dirs /\ recovery' \in BOOLEAN
          /\ UNCHANGED <<fileTree, treeClosed, returned>>
      BY <2>2
    <3> QED
      BY <2>1, <3>1, ReconciledTypes DEF TreeInv
  <2>4. Rooted'
    BY <1>1 DEF TreeInv, Rooted
  <2>5. watchers'[Root] \in {0, ino[Root]}
    BY <1>3, <2>1 DEF Reconciled
  <2>6. RootWatched'
    <3>1. ino[Root] = 0 => watchers'[Root] = 0
      BY <2>5
    <3> QED
      BY <1>1, <2>2, <2>5, <3>1 DEF RootWatched
  <2>7. MissesAnnounced'
    <3> SUFFICES ASSUME ~lost', NEW e \in Dirs, e # Root, ino[e] # 0, watchers'[e] # ino[e],
                        Clean(e), watchers'[ParentOf(e)] = ino[ParentOf(e)]
                 PROVE  ParentOf(e) \in treeEvents'
      BY <1>1 DEF MissesAnnounced, Missed, Announced, Clean
    <3> DEFINE p == ParentOf(e)
               opened == Opens(Root)
    <3>1. p \in Dirs /\ e \in PathTo[e] /\ Root \in PathTo[e] /\ p \in PathTo[e]
      BY Paths
    <3>2. ino[p] # 0 /\ ino[Root] # 0 /\ e \notin IgnoredDirs
      BY <3>1 DEF TreeInv, Rooted, Clean
    <3>3. ~lost /\ refused \subseteq {Root} /\ (refused = {} \/ refused = {Root})
      BY <2>1 DEF Reconciled, Refusals
    <3>4. UNION {Opens(d) : d \in {Root}} = opened /\ opened \subseteq Dirs
          /\ \A d \in opened : ino[d] # 0 /\ watchers[d] # ino[d]
      BY OpensBelow
    <3> HIDE DEF p, opened
    <3>5. /\ \A d \in Dirs : watchers'[d] =
               IF d \in refused THEN 0
               ELSE IF d \in opened \ UNION {Under[r] : r \in refused} THEN ino[d] ELSE watchers[d]
          /\ treeEvents' = treeEvents \ (refused \cup (opened \ UNION {Under[r] : r \in refused}))
      <4>1. UNION {Under[d] : d \in {} \cup {d \in {Root} : ino[d] = 0}} = {}
        BY <3>2
      <4> QED
        BY <2>1, <3>4, <4>1 DEF Reconciled, Delivered
    <3>6. CASE refused = {Root}
      <4>1. opened \ UNION {Under[r] : r \in refused} = {}
        BY <3>4, <3>6, Below
      <4>2. p # Root /\ watchers[p] = ino[p] /\ watchers[e] # ino[e]
        BY <3>1, <3>2, <3>5, <3>6, <4>1 DEF p
      <4>3. p \in treeEvents
        BY <1>1, <3>3, <4>2 DEF TreeInv, MissesAnnounced, Missed, Announced, p
      <4> QED
        BY <3>5, <3>6, <4>1, <4>2, <4>3 DEF p
    <3>7. CASE refused = {}
      <4>1. /\ \A d \in Dirs : watchers'[d] = IF d \in opened THEN ino[d] ELSE watchers[d]
            /\ treeEvents' = treeEvents \ opened
        BY <3>5, <3>7
      <4>2. e \notin opened /\ watchers[e] # ino[e]
        BY <4>1
      <4>3. p \notin opened
        <5>1. p \in UNION {Opens(d) : d \in {Root}} => e \in UNION {Opens(d) : d \in {Root}}
          BY <3>2, <4>2, OpenedAreWatched DEF TreeInv, p
        <5> QED
          BY <3>4, <4>2, <5>1
      <4>4. watchers[p] = ino[p]
        BY <3>1, <4>1, <4>3 DEF p
      <4>5. p \in treeEvents
        BY <1>1, <3>3, <4>2, <4>4 DEF TreeInv, MissesAnnounced, Missed, Announced, p
      <4> QED
        BY <4>1, <4>3, <4>5 DEF p
    <3> QED
      BY <3>3, <3>6, <3>7
  <2> QED
    BY <2>3, <2>4, <2>6, <2>7 DEF TreeInv
<1> QED
  BY <1>2, <1>3

\* The failure of a watcher keeps the invariant.
LEMMA FailureKeeps == ASSUME TreeInv, NEW d \in Dirs, WatcherFails(d) PROVE TreeInv'
<1> USE DEF WatcherFails, Delivered, fileTree
<1>1. TreeTypes'
  <2>1. 0 \in 0..moves
    BY DEF TreeInv, TreeTypes
  <2> QED
    BY <2>1 DEF TreeInv, TreeTypes
<1>2. Rooted'
  BY DEF TreeInv, Rooted
<1>3. RootWatched'
  BY DEF TreeInv, TreeTypes, RootWatched
<1>4. MissesAnnounced'
  <2> SUFFICES ASSUME ~lost', NEW e \in Dirs, e # Root, ino[e] # 0, watchers'[e] # ino[e],
                      Clean(e), watchers'[ParentOf(e)] = ino[ParentOf(e)]
               PROVE  ParentOf(e) \in treeEvents'
    BY DEF MissesAnnounced, Missed, Announced, Clean
  <2>1. d = Root /\ ~lost
    OBVIOUS
  <2>2. ParentOf(e) \in Dirs /\ ParentOf(e) \in PathTo[e]
    BY Paths
  <2>3. ino[ParentOf(e)] # 0
    BY <2>2 DEF TreeInv, Rooted
  <2>4. ParentOf(e) # Root /\ watchers[ParentOf(e)] = ino[ParentOf(e)] /\ watchers[e] # ino[e]
    BY <2>1, <2>2, <2>3 DEF TreeInv, TreeTypes
  <2>5. ParentOf(e) \in treeEvents
    BY <2>1, <2>4 DEF TreeInv, MissesAnnounced, Missed, Announced
  <2> QED
    BY <2>1, <2>4, <2>5
<1> QED
  BY <1>1, <1>2, <1>3, <1>4 DEF TreeInv

\* Closing the watcher keeps the invariant.
LEMMA CloseTreeKeeps == ASSUME TreeInv, CloseTree PROVE TreeInv'
<1> USE DEF CloseTree, fileTree
<1>1. TreeTypes'
  <2>1. 0 \in 0..moves
    BY DEF TreeInv, TreeTypes
  <2> QED
    BY <2>1 DEF TreeInv, TreeTypes
<1> QED
  BY <1>1 DEF TreeInv, Rooted, RootWatched, MissesAnnounced

\* Downwards from the root: where no event is waiting and the one above is
\* watched, so is a directory.
LEMMA TreeInvWatches == TreeInv => NewTreesWatched
<1> SUFFICES ASSUME TreeInv, Quiet, ~treeClosed, ~lost, NEW d \in Unwatched,
                    PathTo[d] \cap returned = {}
             PROVE  FALSE
  BY DEF NewTreesWatched
<1> DEFINE s == {c \in PathTo[d] : watchers[c] # ino[c]}
<1>1. d \in Dirs /\ ino[d] # 0 /\ PathTo[d] \cap (IgnoredDirs \cup returned) = {} /\ d \in s
  BY Paths DEF Unwatched
<1>2. s \in SUBSET Dirs
  BY <1>1, Paths
<1>3. ASSUME NEW c \in s PROVE ParentOf(c) \in s
  <2>1. c \in Dirs /\ c \in PathTo[d] /\ d \in Under[c] /\ ino[c] # 0
    BY <1>1, <1>2 DEF TreeInv, Rooted, Under
  <2>2. PathTo[c] \subseteq PathTo[d]
    <3> SUFFICES ASSUME NEW a \in PathTo[c] PROVE a \in PathTo[d]
      OBVIOUS
    <3>1. a \in Dirs /\ c \in Under[a]
      BY <2>1, Paths DEF Under
    <3>2. d \in Under[a]
      BY <1>1, <2>1, <3>1, Below
    <3> QED
      BY <3>1, <3>2 DEF Under
  <2>3. Clean(c) /\ ParentOf(c) \in PathTo[d]
    BY <1>1, <2>1, <2>2, Paths DEF Clean
  <2>4. CASE c = Root
    BY <2>4 DEF ParentOf
  <2>5. CASE c # Root
    <3>1. Announced(c)
      BY <2>1, <2>3, <2>5 DEF TreeInv, MissesAnnounced, Missed
    <3> QED
      BY <2>3, <3>1 DEF Announced, Quiet
  <2> QED
    BY <2>4, <2>5
<1>4. PathTo[d] \subseteq s
  <2> HIDE DEF s
  <2> QED
    BY <1>1, <1>2, <1>3, Upwards
<1>5. watchers[Root] # ino[Root] /\ ino[Root] # 0
  BY <1>1, <1>4, Paths DEF TreeInv, Rooted
<1> QED
  BY <1>5 DEF TreeInv, RootWatched, Quiet

\* Every directory is watched once everything is reported, in a tree of any
\* depth and after any number of moves.
THEOREM EveryTreeIsWatched == TreeSpec => []NewTreesWatched
<1>1. TreeInv /\ [TreeNext]_treeVars => TreeInv'
  <2> SUFFICES ASSUME TreeInv, [TreeNext]_treeVars PROVE TreeInv'
    OBVIOUS
  <2>1. CASE UNCHANGED treeVars
    BY <2>1 DEF TreeInv, TreeTypes, Rooted, RootWatched, MissesAnnounced, Missed, Announced,
                Clean, treeVars, fileTree
  <2>2. ASSUME NEW d \in Dirs,
               MakeDir(d) \/ DeleteDir(d) \/ MoveAway(d) \/ PutBack(d) \/ TouchDir(d)
        PROVE  TreeInv'
    BY <2>2, MakeKeeps, DeleteKeeps, MoveKeeps, PutBackKeeps, TouchKeeps
  <2>3. ASSUME NEW d \in Dirs, TreeEvent(d) \/ WatcherFails(d) PROVE TreeInv'
    BY <2>3, EventKeeps, FailureKeeps
  <2> QED
    BY <2>1, <2>2, <2>3, RecoveryKeeps, CloseTreeKeeps DEF TreeNext
<1> QED
  BY <1>1, TreeInvInit, TreeInvWatches, PTL DEF TreeSpec

-----------------------------------------------------------------------------
(* The installed hook, for any number of installs, any number of edits and  *)
(* any texts, however long.  What the recursive TokensAt picks is described  *)
(* by what one more token adds (TokensAtLast); from that, by induction over  *)
(* texts, the lines of a text that is put together, collapsed or trimmed,    *)
(* and with them what placing a block does to any hook that ReadHook accepts *)
(* (PlacedFacts).  The invariant then says that an install which writes has  *)
(* read a hook that would become the same one as the hook that is there now, *)
(* unless it was edited meanwhile (NotStale).                                *)


\* The equations of the recursive function in TokensAt.
Picks(g, text, places) ==
  g = [n \in 0..Len(text) |->
         IF n = 0 THEN <<>>
         ELSE IF n \in places THEN Append(g[n - 1], text[n]) ELSE g[n - 1]]

PicksTo(g, text, places, m) ==
  \A n \in 0..m : g[n] = IF n = 0 THEN <<>>
                         ELSE IF n \in places THEN Append(g[n - 1], text[n]) ELSE g[n - 1]

\* The recursion has a solution.
LEMMA PicksExist == \A text, places : Len(text) \in Nat => \E g : Picks(g, text, places)
<1> SUFFICES ASSUME NEW text, NEW places, Len(text) \in Nat PROVE \E g : Picks(g, text, places)
  OBVIOUS
<1> DEFINE Upto == {m \in Nat : \E g : PicksTo(g, text, places, m)}
<1>1. 0 \in Upto
  <2> DEFINE g == [n \in 0..0 |-> <<>>]
  <2>1. PicksTo(g, text, places, 0)
    BY DEF PicksTo
  <2> QED
    BY <2>1
<1>2. ASSUME NEW m \in Nat, m \in Upto PROVE m + 1 \in Upto
  <2>1. PICK g : PicksTo(g, text, places, m)
    BY <1>2
  <2> DEFINE last == IF m + 1 \in places THEN Append(g[m], text[m + 1]) ELSE g[m]
             h == [n \in 0..(m + 1) |-> IF n = m + 1 THEN last ELSE g[n]]
  <2> HIDE DEF last
  <2>2. h[m + 1] = last /\ \A n \in 0..m : h[n] = g[n]
    OBVIOUS
  <2> HIDE DEF h
  <2>3. ASSUME NEW n \in 0..(m + 1)
        PROVE  h[n] = IF n = 0 THEN <<>>
                      ELSE IF n \in places THEN Append(h[n - 1], text[n]) ELSE h[n - 1]
    <3>1. CASE n = m + 1
      <4>1. n # 0 /\ n - 1 = m /\ h[m] = g[m]
        BY <2>2, <3>1
      <4> QED
        BY <2>2, <3>1, <4>1 DEF last
    <3>2. CASE n # m + 1
      <4>1. n \in 0..m /\ (n # 0 => n - 1 \in 0..m)
        BY <3>2
      <4>2. h[n] = g[n] /\ (n # 0 => h[n - 1] = g[n - 1])
        BY <2>2, <4>1
      <4> QED
        BY <2>1, <4>1, <4>2 DEF PicksTo
    <3> QED
      BY <3>1, <3>2
  <2>4. PicksTo(h, text, places, m + 1)
    BY <2>3 DEF PicksTo
  <2> QED
    BY <2>4
<1>3. Nat \subseteq Upto
  <2> HIDE DEF Upto
  <2> QED
    BY <1>1, <1>2, SetInduction
<1>4. PICK g : PicksTo(g, text, places, Len(text))
  BY <1>3
<1> DEFINE h == [n \in 0..Len(text) |-> g[n]]
<1>5. ASSUME NEW n \in 0..Len(text)
      PROVE  h[n] = IF n = 0 THEN <<>>
                    ELSE IF n \in places THEN Append(h[n - 1], text[n]) ELSE h[n - 1]
  <2>1. n # 0 => n - 1 \in 0..Len(text)
    OBVIOUS
  <2>2. h[n] = g[n] /\ (n # 0 => h[n - 1] = g[n - 1])
    BY <2>1
  <2> QED
    BY <1>4, <2>2 DEF PicksTo
<1>6. Picks(h, text, places)
  BY <1>5 DEF Picks
<1> QED
  BY <1>6

\* There is nothing in an empty text.
LEMMA TokensAtNone == \A places : TokensAt(<<>>, places) = <<>>
<1> SUFFICES ASSUME NEW places PROVE TokensAt(<<>>, places) = <<>>
  OBVIOUS
<1> DEFINE g == CHOOSE g : Picks(g, <<>>, places)
<1>1. TokensAt(<<>>, places) = g[Len(<<>>)] /\ Len(<<>>) = 0
  BY DEF TokensAt, Picks
<1>2. Picks(g, <<>>, places)
  BY <1>1, PicksExist
<1> HIDE DEF g
<1>3. g[0] = <<>>
  BY <1>1, <1>2 DEF Picks
<1> QED
  BY <1>1, <1>3

\* The last token is there or not, whatever is before it.
LEMMA TokensAtLast ==
  ASSUME NEW S, NEW text \in Seq(S), NEW x \in S, NEW places
  PROVE  /\ TokensAt(<<>>, places) = <<>>
         /\ TokensAt(Append(text, x), places) =
              IF Len(text) + 1 \in places THEN Append(TokensAt(text, places), x)
              ELSE TokensAt(text, places)
<1> DEFINE sol(t) == CHOOSE g : Picks(g, t, places)
<1>1. \A t : TokensAt(t, places) = sol(t)[Len(t)]
  BY DEF TokensAt, Picks
<1>2. \A t : Len(t) \in Nat => Picks(sol(t), t, places)
  BY PicksExist
<1> DEFINE more == Append(text, x)
           e == sol(<<>>)
           g == sol(text)
           h == sol(more)
<1>3. /\ more \in Seq(S) /\ Len(more) = Len(text) + 1 /\ Len(text) \in Nat
      /\ more[Len(text) + 1] = x /\ \A n \in 1..Len(text) : more[n] = text[n]
      /\ Len(<<>>) = 0
  OBVIOUS
<1>4. Picks(e, <<>>, places) /\ Picks(g, text, places) /\ Picks(h, more, places)
  BY <1>2, <1>3
<1>5. TokensAt(<<>>, places) = e[0] /\ TokensAt(text, places) = g[Len(text)]
      /\ TokensAt(more, places) = h[Len(text) + 1]
  BY <1>1, <1>3
<1> HIDE DEF more, e, g, h
<1>6. e[0] = <<>>
  BY <1>3, <1>4 DEF Picks
<1>7. /\ \A n \in 0..Len(text) : g[n] = IF n = 0 THEN <<>>
             ELSE IF n \in places THEN Append(g[n - 1], text[n]) ELSE g[n - 1]
      /\ \A n \in 0..(Len(text) + 1) : h[n] = IF n = 0 THEN <<>>
             ELSE IF n \in places THEN Append(h[n - 1], more[n]) ELSE h[n - 1]
  BY <1>3, <1>4 DEF Picks
<1> DEFINE Same == {n \in Nat : n \in 0..Len(text) => g[n] = h[n]}
<1>8. 0 \in Same
  BY <1>3, <1>7
<1>9. ASSUME NEW n \in Nat, n \in Same PROVE n + 1 \in Same
  <2> SUFFICES ASSUME n + 1 \in 0..Len(text) PROVE g[n + 1] = h[n + 1]
    OBVIOUS
  <2>1. n \in 0..Len(text) /\ n + 1 \in 0..(Len(text) + 1) /\ n + 1 # 0 /\ (n + 1) - 1 = n
        /\ n + 1 \in 1..Len(text)
    BY <1>3
  <2>2. g[n] = h[n] /\ more[n + 1] = text[n + 1]
    BY <1>3, <1>9, <2>1
  <2> QED
    BY <1>7, <2>1, <2>2
<1>10. Nat \subseteq Same
  <2> HIDE DEF Same
  <2> QED
    BY <1>8, <1>9, SetInduction
<1>11. g[Len(text)] = h[Len(text)]
  BY <1>3, <1>10
<1>12. h[Len(text) + 1] = IF Len(text) + 1 \in places THEN Append(h[Len(text)], x) ELSE h[Len(text)]
  <2>1. Len(text) + 1 \in 0..(Len(text) + 1) /\ Len(text) + 1 # 0 /\ (Len(text) + 1) - 1 = Len(text)
    BY <1>3
  <2> QED
    BY <1>3, <1>7, <2>1
<1> QED
  BY <1>5, <1>6, <1>11, <1>12 DEF more

\* Only the places in the text count.
LEMMA TokensAtSame ==
  ASSUME NEW S, NEW text \in Seq(S), NEW P, NEW Q,
         \A n \in 1..Len(text) : n \in P <=> n \in Q
  PROVE  TokensAt(text, P) = TokensAt(text, Q)
<1> DEFINE X == {t \in Seq(S) : (\A n \in 1..Len(t) : n \in P <=> n \in Q)
                                  => TokensAt(t, P) = TokensAt(t, Q)}
<1>1. <<>> \in X
  <2>1. TokensAt(<<>>, P) = <<>> /\ TokensAt(<<>>, Q) = <<>>
    BY TokensAtNone
  <2> QED
    BY <2>1
<1>2. ASSUME NEW t \in Seq(S), t \in X, NEW x \in S PROVE Append(t, x) \in X
  <2> SUFFICES ASSUME \A n \in 1..Len(Append(t, x)) : n \in P <=> n \in Q
               PROVE  TokensAt(Append(t, x), P) = TokensAt(Append(t, x), Q)
    OBVIOUS
  <2>1. TokensAt(t, P) = TokensAt(t, Q) /\ (Len(t) + 1 \in P <=> Len(t) + 1 \in Q)
    BY <1>2
  <2>2. \A R : TokensAt(Append(t, x), R) =
                IF Len(t) + 1 \in R THEN Append(TokensAt(t, R), x) ELSE TokensAt(t, R)
    BY TokensAtLast
  <2> QED
    BY <2>1, <2>2
<1>3. Seq(S) \subseteq X
  <2> HIDE DEF X
  <2> QED
    BY <1>1, <1>2, SequenceInduction
<1> QED
  BY <1>3

\* The lines of a text, token by token.
LEMMA LinesLast ==
  ASSUME NEW S, NEW text \in Seq(S), NEW x \in S
  PROVE  /\ LinesOf(<<>>) = <<>>
         /\ LinesOf(Append(text, x)) = IF x = "nl" THEN LinesOf(text) ELSE Append(LinesOf(text), x)
<1> DEFINE more == Append(text, x)
           P == DOMAIN text \ Positions(text, "nl")
           Q == DOMAIN more \ Positions(more, "nl")
<1>1. /\ more \in Seq(S) /\ Len(more) = Len(text) + 1 /\ Len(text) \in Nat
      /\ DOMAIN more = 1..Len(more) /\ DOMAIN text = 1..Len(text)
      /\ more[Len(text) + 1] = x /\ \A n \in 1..Len(text) : more[n] = text[n]
  OBVIOUS
<1>2. /\ \A n \in 1..Len(text) : n \in P <=> n \in Q
      /\ Len(text) + 1 \in Q <=> x # "nl"
  BY <1>1 DEF Positions
<1>3. LinesOf(text) = TokensAt(text, P) /\ LinesOf(more) = TokensAt(more, Q)
  BY DEF LinesOf
<1> HIDE DEF more, P, Q
<1>4. TokensAt(text, P) = TokensAt(text, Q)
  BY <1>2, TokensAtSame
<1>5. TokensAt(more, Q) = IF Len(text) + 1 \in Q THEN Append(TokensAt(text, Q), x) ELSE TokensAt(text, Q)
  BY TokensAtLast DEF more
<1>6. LinesOf(<<>>) = <<>>
  BY TokensAtLast DEF LinesOf
<1> QED
  BY <1>2, <1>3, <1>4, <1>5, <1>6 DEF more

\* The collapsed text, token by token.
LEMMA CollapsedLast ==
  ASSUME NEW S, NEW text \in Seq(S), NEW x \in S
  PROVE  /\ Collapsed(<<>>) = <<>>
         /\ Collapsed(Append(text, x)) =
              IF /\ x = "nl" /\ Len(text) > 1
                 /\ text[Len(text)] = "nl" /\ text[Len(text) - 1] = "nl"
              THEN Collapsed(text) ELSE Append(Collapsed(text), x)
<1> DEFINE more == Append(text, x)
           stays(t) == {n \in DOMAIN t : n < 3 \/ \E m \in (n - 2)..n : t[m] # "nl"}
           P == stays(text)
           Q == stays(more)
<1>1. /\ more \in Seq(S) /\ Len(more) = Len(text) + 1 /\ Len(text) \in Nat
      /\ DOMAIN more = 1..Len(more) /\ DOMAIN text = 1..Len(text)
      /\ more[Len(text) + 1] = x /\ \A n \in 1..Len(text) : more[n] = text[n]
  OBVIOUS
<1>2. ASSUME NEW n \in 1..Len(text) PROVE n \in P <=> n \in Q
  <2>1. CASE n < 3
    BY <1>1, <2>1
  <2>2. CASE ~(n < 3)
    <3>1. \A m \in (n - 2)..n : m \in 1..Len(text)
      BY <1>1, <2>2
    <3>2. \A m \in (n - 2)..n : more[m] = text[m]
      BY <1>1, <3>1
    <3>3. n \in DOMAIN text /\ n \in DOMAIN more
      BY <1>1
    <3> HIDE DEF more
    <3> QED
      BY <2>2, <3>2, <3>3
  <2> QED
    BY <2>1, <2>2
<1>3. Len(text) + 1 \in Q <=>
        ~(/\ x = "nl" /\ Len(text) > 1
          /\ text[Len(text)] = "nl" /\ text[Len(text) - 1] = "nl")
  <2> DEFINE k == Len(text) + 1
  <2>1. k \in DOMAIN more /\ k \in Nat
    BY <1>1
  <2>2. CASE k < 3
    BY <1>1, <2>1, <2>2
  <2>3. CASE ~(k < 3)
    <3>1. Len(text) > 1 /\ Len(text) \in 1..Len(text) /\ Len(text) - 1 \in 1..Len(text)
      BY <1>1, <2>3
    <3>2. \A m : m \in (k - 2)..k <=> m = Len(text) - 1 \/ m = Len(text) \/ m = Len(text) + 1
      BY <1>1
    <3>3. more[Len(text)] = text[Len(text)] /\ more[Len(text) - 1] = text[Len(text) - 1]
      BY <1>1, <3>1
    <3> HIDE DEF more
    <3> QED
      BY <1>1, <2>1, <2>3, <3>1, <3>2, <3>3
  <2> QED
    BY <2>2, <2>3
<1>4. Collapsed(text) = TokensAt(text, P) /\ Collapsed(more) = TokensAt(more, Q)
  BY DEF Collapsed
<1> HIDE DEF more, P, Q
<1>5. TokensAt(text, P) = TokensAt(text, Q)
  BY <1>2, TokensAtSame
<1>6. TokensAt(more, Q) = IF Len(text) + 1 \in Q THEN Append(TokensAt(text, Q), x) ELSE TokensAt(text, Q)
  BY TokensAtLast DEF more
<1>7. Collapsed(<<>>) = <<>>
  BY TokensAtLast DEF Collapsed
<1> QED
  BY <1>3, <1>4, <1>5, <1>6, <1>7 DEF more

\* The lines of two texts, one after the other.
LEMMA LinesJoined ==
  ASSUME NEW S, NEW s \in Seq(S), NEW t \in Seq(S)
  PROVE  /\ LinesOf(s) \in Seq(S)
         /\ LinesOf(s \o t) = LinesOf(s) \o LinesOf(t)
<1> DEFINE Typed == {u \in Seq(S) : LinesOf(u) \in Seq(S)}
           Joined == {u \in Seq(S) : LinesOf(s \o u) = LinesOf(s) \o LinesOf(u)}
<1>0. LinesOf(<<>>) = <<>>
  BY TokensAtNone DEF LinesOf
<1>1. Seq(S) \subseteq Typed
  <2>1. <<>> \in Typed
    <3> DEFINE e == <<>>
    <3>1. e \in Seq(S) /\ LinesOf(e) = e
      BY <1>0
    <3> HIDE DEF e
    <3>2. e \in Typed
      BY <3>1
    <3> QED
      BY <3>2 DEF e
  <2>2. ASSUME NEW u \in Seq(S), u \in Typed, NEW x \in S PROVE Append(u, x) \in Typed
    <3>1. LinesOf(Append(u, x)) = IF x = "nl" THEN LinesOf(u) ELSE Append(LinesOf(u), x)
      BY LinesLast
    <3>2. LinesOf(u) \in Seq(S)
      BY <2>2
    <3>3. Append(u, x) \in Seq(S) /\ Append(LinesOf(u), x) \in Seq(S)
      BY <3>2, AppendJoined
    <3>4. LinesOf(Append(u, x)) \in Seq(S)
      BY <3>1, <3>2, <3>3
    <3> QED
      BY <3>3, <3>4
  <2> HIDE DEF Typed
  <2> QED
    BY <2>1, <2>2, SequenceInduction
<1>2. Seq(S) \subseteq Joined
  <2>1. <<>> \in Joined
    <3> DEFINE e == <<>>
    <3>1. LinesOf(s) \in Seq(S)
      BY <1>1
    <3>2. e \in Seq(S) /\ LinesOf(e) = e /\ \A r \in Seq(S) : r \o e = r
      BY <1>0
    <3> HIDE DEF e
    <3>3. e \in Joined
      BY <3>1, <3>2
    <3> QED
      BY <3>3 DEF e
  <2>2. ASSUME NEW u \in Seq(S), u \in Joined, NEW x \in S PROVE Append(u, x) \in Joined
    <3>1. /\ LinesOf(Append(u, x)) = IF x = "nl" THEN LinesOf(u) ELSE Append(LinesOf(u), x)
          /\ LinesOf(Append(s \o u, x)) =
               IF x = "nl" THEN LinesOf(s \o u) ELSE Append(LinesOf(s \o u), x)
      BY AppendJoined, LinesLast
    <3>2. s \o Append(u, x) = Append(s \o u, x) /\ LinesOf(u) \in Seq(S) /\ LinesOf(s) \in Seq(S)
      BY <1>1, AppendJoined
    <3>3. Append(LinesOf(s) \o LinesOf(u), x) = LinesOf(s) \o Append(LinesOf(u), x)
      <4> DEFINE a == LinesOf(s)
                 b == LinesOf(u)
      <4>1. a \in Seq(S) /\ b \in Seq(S)
        BY <3>2
      <4> HIDE DEF a, b
      <4>2. a \o Append(b, x) = Append(a \o b, x)
        BY <4>1, AppendJoined
      <4> QED
        BY <4>2 DEF a, b
    <3>4. LinesOf(s \o u) = LinesOf(s) \o LinesOf(u)
      BY <2>2
    <3>5. LinesOf(s \o Append(u, x)) = LinesOf(s) \o LinesOf(Append(u, x))
      BY <3>1, <3>2, <3>3, <3>4
    <3> QED
      BY <3>5, AppendJoined
  <2> HIDE DEF Joined
  <2> QED
    BY <2>1, <2>2, SequenceInduction
<1> QED
  BY <1>1, <1>2

\* Line breaks are no lines.
LEMMA NoLines ==
  ASSUME NEW t \in Seq({"nl"})
  PROVE  LinesOf(t) = <<>>
<1> DEFINE X == {u \in Seq({"nl"}) : LinesOf(u) = <<>>}
<1>1. <<>> \in X
  BY TokensAtNone DEF LinesOf
<1>2. ASSUME NEW u \in Seq({"nl"}), u \in X, NEW x \in {"nl"} PROVE Append(u, x) \in X
  <2>1. LinesOf(Append(u, x)) = LinesOf(u)
    BY LinesLast
  <2> QED
    BY <1>2, <2>1
<1> HIDE DEF X
<1>3. Seq({"nl"}) \subseteq X
  BY <1>1, <1>2, SequenceInduction
<1> QED
  BY <1>3 DEF X

\* Collapsing keeps the lines, the first token and what is on lines of their own.
LEMMA CollapsedKeeps ==
  ASSUME NEW S, NEW text \in Seq(S)
  PROVE  /\ Collapsed(text) \in Seq(S)
         /\ LinesOf(Collapsed(text)) = LinesOf(text)
         /\ text # <<>> => Collapsed(text) # <<>> /\ Collapsed(text)[1] = text[1]
         /\ text = <<>> => Collapsed(text) = <<>>
         /\ Lined(text) => Lined(Collapsed(text))
<1> DEFINE Like(c, t) ==
             /\ c \in Seq(S) /\ LinesOf(c) = LinesOf(t)
             /\ t # <<>> => c # <<>> /\ c[1] = t[1] /\ c[Len(c)] = t[Len(t)]
             /\ t = <<>> => c = <<>>
             /\ Lined(t) => Lined(c)
           X == {t \in Seq(S) : Like(Collapsed(t), t)}
<1>1. <<>> \in X
  <2> DEFINE e == <<>>
  <2>1. Collapsed(e) = e /\ e \in Seq(S)
    BY TokensAtNone DEF Collapsed
  <2>2. e = <<>>
    OBVIOUS
  <2> HIDE DEF e
  <2>3. Like(e, e)
    BY <2>1, <2>2
  <2> HIDE DEF Like
  <2> QED
    BY <2>1, <2>2, <2>3
<1>2. ASSUME NEW t \in Seq(S), t \in X, NEW x \in S PROVE Append(t, x) \in X
  <2> DEFINE c == Collapsed(t)
             more == Append(t, x)
             dropped == x = "nl" /\ Len(t) > 1 /\ t[Len(t)] = "nl" /\ t[Len(t) - 1] = "nl"
  <2>1. Collapsed(more) = IF dropped THEN c ELSE Append(c, x)
    BY CollapsedLast
  <2>2. Like(c, t)
    BY <1>2
  <2>3. /\ more \in Seq(S) /\ more # <<>> /\ Len(more) = Len(t) + 1 /\ Len(t) \in Nat
        /\ more[Len(more)] = x /\ (t # <<>> => more[1] = t[1]) /\ (t = <<>> => more[1] = x)
        /\ \A n \in 1..Len(t) : more[n] = t[n]
        /\ (t = <<>> <=> Len(t) = 0) /\ DOMAIN more = 1..Len(more) /\ DOMAIN t = 1..Len(t)
    OBVIOUS
  <2>4. LinesOf(more) = IF x = "nl" THEN LinesOf(t) ELSE Append(LinesOf(t), x)
    BY LinesLast
  <2>5. Lined(more) => Lined(t) /\ (t # <<>> => x = "nl" \/ t[Len(t)] = "nl")
    <3> SUFFICES ASSUME Lined(more) PROVE Lined(t) /\ (t # <<>> => x = "nl" \/ t[Len(t)] = "nl")
      OBVIOUS
    <3>1. \A n \in 1..Len(more) : n > 1 => more[n - 1] = "nl" \/ more[n] = "nl"
      BY <2>3 DEF Lined
    <3>2. ASSUME NEW n \in 1..Len(t), n > 1 PROVE t[n - 1] = "nl" \/ t[n] = "nl"
      <4>1. n \in 1..Len(more) /\ n - 1 \in 1..Len(t)
        BY <2>3, <3>2
      <4> HIDE DEF more
      <4> QED
        BY <2>3, <3>1, <3>2, <4>1
    <3>3. ASSUME t # <<>> PROVE x = "nl" \/ t[Len(t)] = "nl"
      <4>1. Len(more) \in 1..Len(more) /\ Len(more) > 1 /\ Len(more) - 1 = Len(t) /\ Len(t) \in 1..Len(t)
        BY <2>3, <3>3
      <4> HIDE DEF more
      <4> QED
        BY <2>3, <3>1, <4>1
    <3> QED
      BY <2>3, <3>2, <3>3 DEF Lined
  <2> HIDE DEF c, more
  <2>6. CASE dropped
    <3>1. t # <<>> /\ Collapsed(more) = c /\ x = "nl" /\ t[Len(t)] = x
      BY <2>1, <2>3, <2>6
    <3>2. Like(c, more)
      BY <2>2, <2>3, <2>4, <2>5, <3>1
    <3> QED
      BY <2>3, <3>1, <3>2 DEF more
  <2>7. CASE ~dropped
    <3> DEFINE d == Append(c, x)
    <3>0. Collapsed(more) = d /\ c \in Seq(S)
      BY <2>1, <2>2, <2>7
    <3>1. /\ d \in Seq(S) /\ d # <<>> /\ Len(d) = Len(c) + 1 /\ Len(c) \in Nat
          /\ d[Len(d)] = x /\ (c # <<>> => d[1] = c[1]) /\ (c = <<>> => d[1] = x)
          /\ \A n \in 1..Len(c) : d[n] = c[n]
          /\ (c = <<>> <=> Len(c) = 0) /\ DOMAIN d = 1..Len(d) /\ DOMAIN c = 1..Len(c)
      BY <3>0
    <3>2. LinesOf(d) = LinesOf(more)
      <4>1. LinesOf(d) = IF x = "nl" THEN LinesOf(c) ELSE Append(LinesOf(c), x)
        BY <3>0, LinesLast
      <4> QED
        BY <2>2, <2>4, <4>1
    <3> HIDE DEF d
    <3>3. d[1] = more[1] /\ d[Len(d)] = more[Len(more)]
      BY <2>2, <2>3, <3>1
    <3>4. ASSUME Lined(more) PROVE Lined(d)
      <4> SUFFICES ASSUME NEW n \in 1..Len(d), n > 1 PROVE d[n - 1] = "nl" \/ d[n] = "nl"
        BY <3>1 DEF Lined
      <4>1. CASE n = Len(d)
        <5>1. c # <<>> /\ n - 1 = Len(c) /\ Len(c) \in 1..Len(c)
          BY <3>1, <4>1
        <5>2. d[n - 1] = c[Len(c)] /\ t # <<>>
          BY <2>2, <3>1, <5>1
        <5> QED
          BY <2>2, <2>5, <3>1, <3>4, <4>1, <5>2
      <4>2. CASE n # Len(d)
        <5>1. n \in 1..Len(c) /\ n - 1 \in 1..Len(c)
          BY <3>1, <4>2
        <5>2. Lined(c)
          BY <2>2, <2>5, <3>4
        <5>3. c[n - 1] = "nl" \/ c[n] = "nl"
          BY <3>1, <5>1, <5>2 DEF Lined
        <5> QED
          BY <3>1, <5>1, <5>3
      <4> QED
        BY <4>1, <4>2
    <3>5. Like(d, more)
      BY <2>3, <3>1, <3>2, <3>3, <3>4
    <3> QED
      BY <2>3, <3>0, <3>5 DEF more
  <2> QED
    BY <2>6, <2>7
<1>3. Seq(S) \subseteq X
  <2> HIDE DEF X
  <2> QED
    BY <1>1, <1>2, SequenceInduction
<1> QED
  BY <1>3

-----------------------------------------------------------------------------
(* The texts that are placed *)

\* Lines of the user, line breaks and shebangs.
Free == Tokens \ {"start", "end"}

\* A text that ReadHook accepts.
Accepted(text) ==
  text \in Seq(Tokens) /\ Lined(text) /\ ~NonShell(text) /\ ~Corrupt(text)

\* An accepted text has no block, or one with its start before its end.
LEMMA BlockPlace ==
  ASSUME NEW text, Accepted(text)
  PROVE  \/ text \in Seq(Free) /\ Positions(text, "start") = {} /\ Positions(text, "end") = {}
         \/ \E s, e \in 1..Len(text) :
              /\ s < e /\ text[s] = "start" /\ text[e] = "end"
              /\ Positions(text, "start") = {s} /\ Positions(text, "end") = {e}
              /\ CutBlock(text) = SubSeq(text, 1, s - 1) \o SubSeq(text, e + 1, Len(text))
<1> DEFINE starts == Positions(text, "start")
           ends == Positions(text, "end")
<1>1. /\ text \in Seq(Tokens) /\ DOMAIN text = 1..Len(text) /\ Len(text) \in Nat
      /\ \A n \in 1..Len(text) : text[n] \in Tokens
  BY DEF Accepted
<1>2. /\ \A n : n \in starts <=> n \in 1..Len(text) /\ text[n] = "start"
      /\ \A n : n \in ends <=> n \in 1..Len(text) /\ text[n] = "end"
  BY <1>1 DEF Positions
<1>3. IsFiniteSet(starts) /\ IsFiniteSet(ends)
  <2>1. Len(text) \in Int /\ 1 \in Int
    BY <1>1
  <2>2. IsFiniteSet(1..Len(text))
    BY <2>1, FS_Interval
  <2>3. starts \subseteq 1..Len(text) /\ ends \subseteq 1..Len(text)
    BY <1>2
  <2> QED
    BY <2>2, <2>3, FS_Subset
<1>4. Cardinality(starts) = Cardinality(ends) /\ ~(Cardinality(starts) > 1)
      /\ ~(Cardinality(starts) = 1 /\ Min(ends) < Min(starts))
  BY DEF Accepted, Corrupt
<1>5. CutBlock(text) = SubSeq(text, 1, Min(starts) - 1) \o SubSeq(text, Min(ends) + 1, Len(text))
  BY DEF CutBlock
<1>c. Cardinality(starts) \in Nat /\ Cardinality(ends) \in Nat
  BY <1>3, FS_CardinalityType
<1> HIDE DEF starts, ends
<1>6. CASE Cardinality(starts) = 0
  <2>1. starts = {} /\ ends = {}
    BY <1>3, <1>4, <1>6, FS_EmptySet
  <2>2. \A n \in 1..Len(text) : text[n] \in Free
    BY <1>1, <1>2, <2>1 DEF Free
  <2>3. text \in Seq(Free)
    BY <1>1, <2>2
  <2> QED
    BY <2>1, <2>3 DEF starts, ends
<1>7. CASE Cardinality(starts) = 1
  <2>0. \A S : IsFiniteSet(S) /\ Cardinality(S) = 1 => \E x : S = {x}
    BY FS_Singleton
  <2>1. PICK s : starts = {s}
    BY <1>3, <1>7, <2>0
  <2>2. PICK e : ends = {e}
    BY <1>3, <1>4, <1>7, <2>0
  <2>3. s \in 1..Len(text) /\ e \in 1..Len(text) /\ text[s] = "start" /\ text[e] = "end"
    BY <1>2, <2>1, <2>2
  <2>4. Min(starts) = s /\ Min(ends) = e
    BY <1>1, <2>1, <2>2, <2>3, LeastOfOne
  <2>5. s < e
    <3>1. s # e
      BY <2>3
    <3> QED
      BY <1>1, <1>4, <1>7, <2>3, <2>4, <3>1
  <2> QED
    BY <1>5, <2>1, <2>2, <2>3, <2>4, <2>5 DEF starts, ends
<1> QED
  <2>1. Cardinality(starts) = 0 \/ Cardinality(starts) = 1
    BY <1>4, <1>c
  <2> QED
    BY <2>1, <1>6, <1>7

\* What is left of an accepted text without its block: lines of the user, and no
\* shebang of another interpreter.
LEMMA KeptText ==
  ASSUME NEW text, Accepted(text)
  PROVE  /\ WithoutBlock(text) \in Seq(Free) /\ Lined(WithoutBlock(text))
         /\ WithoutBlock(text) # <<>> => WithoutBlock(text)[1] # "py"
<1>1. CASE Positions(text, "start") = {}
  <2>1. text \in Seq(Free)
    BY <1>1, BlockPlace
  <2> QED
    BY <1>1, <2>1 DEF WithoutBlock, Accepted, NonShell
<1>2. CASE Positions(text, "start") # {}
  <2>1. PICK s, e \in 1..Len(text) :
          /\ s < e /\ text[s] = "start" /\ text[e] = "end"
          /\ Positions(text, "start") = {s} /\ Positions(text, "end") = {e}
          /\ CutBlock(text) = SubSeq(text, 1, s - 1) \o SubSeq(text, e + 1, Len(text))
    BY <1>2, BlockPlace
  <2> DEFINE a == SubSeq(text, 1, s - 1)
             b == SubSeq(text, e + 1, Len(text))
             cut == CutBlock(text)
  <2>2. /\ text \in Seq(Tokens) /\ DOMAIN text = 1..Len(text) /\ Len(text) \in Nat
        /\ \A n \in 1..Len(text) : text[n] \in Tokens
        /\ \A n \in 1..Len(text) : n # s /\ n # e => text[n] \in Free
    <3>1. \A n \in 1..Len(text) : /\ n \in Positions(text, "start") <=> text[n] = "start"
                                  /\ n \in Positions(text, "end") <=> text[n] = "end"
      BY DEF Accepted, Positions
    <3> QED
      BY <2>1, <3>1 DEF Accepted, Free
  <2>3. /\ a \in Seq(Free) /\ Len(a) = s - 1 /\ \A n \in 1..(s - 1) : a[n] = text[n]
        /\ b \in Seq(Free) /\ Len(b) = Len(text) - e
        /\ \A n \in 1..(Len(text) - e) : b[n] = text[e + n]
    <3>1. /\ \A n \in 1..(s - 1) : text[n] \in Free
          /\ \A n \in (e + 1)..Len(text) : text[n] \in Free
      <4>1. \A n \in 1..(s - 1) : n \in 1..Len(text) /\ n # s /\ n # e
        BY <2>1, <2>2
      <4>2. \A n \in (e + 1)..Len(text) : n \in 1..Len(text) /\ n # s /\ n # e
        BY <2>1, <2>2
      <4> QED
        BY <2>2, <4>1, <4>2
    <3>2. text \in Seq(Tokens) /\ s - 1 \in 0..Len(text) /\ e + 1 \in 1..(Len(text) + 1)
      BY <2>1, <2>2
    <3>3. /\ Len(a) = s - 1 /\ \A n \in 1..(s - 1) : a[n] = text[n]
          /\ Len(b) = Len(text) - e /\ \A n \in 1..(Len(text) - e) : b[n] = text[e + n]
      BY <3>2, PartOf
    <3>4. a \in Seq(Free) /\ b \in Seq(Free)
      BY <3>1, <3>2, PartOf
    <3> QED
      BY <3>3, <3>4
  <2> HIDE DEF a, b
  <2>4. /\ cut = a \o b /\ cut \in Seq(Free) /\ Len(cut) = Len(a) + Len(b)
        /\ \A n \in 1..Len(a) : cut[n] = a[n]
        /\ \A n \in 1..Len(b) : cut[Len(a) + n] = b[n]
        /\ DOMAIN cut = 1..Len(cut)
    <3>1. cut = a \o b
      BY <2>1 DEF a, b
    <3>2. a \in Seq(Free) /\ b \in Seq(Free)
      BY <2>3
    <3> HIDE DEF cut
    <3> QED
      BY <3>1, <3>2, JoinedPlaces
  <2> HIDE DEF cut
  <2>5. \A n \in 2..Len(text) : text[n - 1] = "nl" \/ text[n] = "nl"
    <3>1. \A n \in DOMAIN text : n > 1 => text[n - 1] = "nl" \/ text[n] = "nl"
      BY DEF Accepted, Lined
    <3>2. \A n \in 2..Len(text) : n \in DOMAIN text /\ n > 1
      BY <2>2
    <3> QED
      BY <3>1, <3>2
  <2>6. (s > 1 => text[s - 1] = "nl") /\ (e < Len(text) => text[e + 1] = "nl")
    <3>1. ASSUME s > 1 PROVE text[s - 1] = "nl"
      <4>1. s \in 2..Len(text)
        BY <2>2, <3>1
      <4> QED
        BY <2>1, <2>5, <4>1
    <3>2. ASSUME e < Len(text) PROVE text[e + 1] = "nl"
      <4>1. e + 1 \in 2..Len(text) /\ (e + 1) - 1 = e
        BY <2>2, <3>2
      <4> QED
        BY <2>1, <2>5, <4>1
    <3> QED
      BY <3>1, <3>2
  <2>7. Lined(cut)
    <3> SUFFICES ASSUME NEW n \in 1..Len(cut), n > 1 PROVE cut[n - 1] = "nl" \/ cut[n] = "nl"
      BY <2>4 DEF Lined
    <3>1. CASE n <= Len(a)
      <4>1. cut[n] = text[n] /\ cut[n - 1] = text[n - 1] /\ n \in 2..Len(text)
        BY <2>1, <2>2, <2>3, <2>4, <3>1
      <4> QED
        BY <2>5, <4>1
    <3>2. CASE n = Len(a) + 1
      <4>1. n - 1 \in 1..Len(a) /\ n - 1 = s - 1 /\ s > 1
        BY <2>1, <2>2, <2>3, <3>2
      <4>2. cut[n - 1] = text[s - 1]
        BY <2>3, <2>4, <4>1
      <4> QED
        BY <2>6, <4>1, <4>2
    <3>3. CASE n > Len(a) + 1
      <4>1. n - Len(a) \in 1..Len(b) /\ (n - 1) - Len(a) \in 1..Len(b)
        BY <2>1, <2>2, <2>3, <2>4, <3>3
      <4>2. cut[n] = b[n - Len(a)] /\ cut[n - 1] = b[(n - 1) - Len(a)]
        BY <2>2, <2>3, <2>4, <4>1
      <4>3. b[n - Len(a)] = text[e + (n - Len(a))] /\ b[(n - 1) - Len(a)] = text[e + ((n - 1) - Len(a))]
        BY <2>3, <4>1
      <4>4. e + (n - Len(a)) \in 2..Len(text) /\ (e + (n - Len(a))) - 1 = e + ((n - 1) - Len(a))
        BY <2>1, <2>2, <2>3, <4>1
      <4> QED
        BY <2>5, <4>2, <4>3, <4>4
    <3> QED
      BY <2>1, <2>2, <2>3, <3>1, <3>2, <3>3
  <2>8. cut # <<>> => cut[1] # "py"
    <3> SUFFICES ASSUME cut # <<>> PROVE cut[1] # "py"
      OBVIOUS
    <3>1. Len(cut) > 0
      BY <2>4
    <3>2. CASE s > 1
      <4>1. cut[1] = text[1] /\ text # <<>>
        BY <2>1, <2>2, <2>3, <2>4, <3>2
      <4> QED
        BY <4>1 DEF Accepted, NonShell
    <3>3. CASE ~(s > 1)
      <4>1. Len(a) = 0 /\ 1 \in 1..Len(b) /\ e < Len(text)
        BY <2>1, <2>2, <2>3, <2>4, <3>1, <3>3
      <4>2. cut[1] = b[1] /\ b[1] = text[e + 1]
        BY <2>3, <2>4, <4>1
      <4> QED
        BY <2>6, <4>1, <4>2
    <3> QED
      BY <3>2, <3>3
  <2>9. WithoutBlock(text) = Collapsed(cut)
    BY <1>2 DEF WithoutBlock, cut
  <2> QED
    BY <2>4, <2>7, <2>8, <2>9, CollapsedKeeps
<1> QED
  BY <1>1, <1>2

\* Two texts, one after the other, are lined when a line break is between them.
LEMMA LinedJoined ==
  ASSUME NEW S, NEW a \in Seq(S), NEW b \in Seq(S), Lined(a), Lined(b),
         a # <<>> /\ b # <<>> => "nl" \in {a[Len(a)], b[1]}
  PROVE  Lined(a \o b)
<1> DEFINE c == a \o b
<1>1. /\ Len(c) = Len(a) + Len(b) /\ DOMAIN c = 1..Len(c)
      /\ \A k \in 1..Len(a) : c[k] = a[k]
      /\ \A k \in 1..Len(b) : c[Len(a) + k] = b[k]
      /\ Len(a) \in Nat /\ Len(b) \in Nat
  <2>1. c \in Seq(S)
    BY JoinedPlaces
  <2> QED
    BY <2>1, JoinedPlaces
<1>2. /\ \A k \in 1..Len(a) : k > 1 => "nl" \in {a[k - 1], a[k]}
      /\ \A k \in 1..Len(b) : k > 1 => "nl" \in {b[k - 1], b[k]}
      /\ (a = <<>> <=> Len(a) = 0) /\ (b = <<>> <=> Len(b) = 0)
  <2>1. DOMAIN a = 1..Len(a) /\ DOMAIN b = 1..Len(b)
    OBVIOUS
  <2>2. /\ \A k \in DOMAIN a : k > 1 => "nl" \in {a[k - 1], a[k]}
        /\ \A k \in DOMAIN b : k > 1 => "nl" \in {b[k - 1], b[k]}
    BY DEF Lined
  <2>3. (a = <<>> <=> Len(a) = 0) /\ (b = <<>> <=> Len(b) = 0)
    OBVIOUS
  <2> QED
    BY <2>1, <2>2, <2>3
<1> SUFFICES ASSUME NEW n \in 1..Len(c), n > 1 PROVE "nl" \in {c[n - 1], c[n]}
  BY <1>1 DEF Lined
<1> HIDE DEF c
<1>3. CASE n <= Len(a)
  <2>1. n \in 1..Len(a) /\ n - 1 \in 1..Len(a)
    BY <1>1, <1>3
  <2> QED
    BY <1>1, <1>2, <2>1
<1>4. CASE n = Len(a) + 1
  <2>1. Len(a) \in 1..Len(a) /\ 1 \in 1..Len(b) /\ n - 1 = Len(a)
    BY <1>1, <1>4
  <2>2. c[n - 1] = a[Len(a)] /\ c[n] = b[1]
    BY <1>1, <1>4, <2>1
  <2> QED
    BY <1>2, <2>1, <2>2
<1>5. CASE n > Len(a) + 1
  <2>1. /\ n - Len(a) \in 1..Len(b) /\ (n - Len(a)) - 1 \in 1..Len(b) /\ n - Len(a) > 1
        /\ n = Len(a) + (n - Len(a)) /\ n - 1 = Len(a) + ((n - Len(a)) - 1)
    BY <1>1, <1>5
  <2>2. c[n] = b[n - Len(a)] /\ c[n - 1] = b[(n - Len(a)) - 1]
    BY <1>1, <2>1
  <2> QED
    BY <1>2, <2>1, <2>2
<1> QED
  BY <1>1, <1>3, <1>4, <1>5

\* A part of a lined text is lined.
LEMMA LinedPart ==
  ASSUME NEW S, NEW t \in Seq(S), Lined(t), NEW m \in 1..(Len(t) + 1), NEW n \in (m - 1)..Len(t)
  PROVE  Lined(SubSeq(t, m, n))
<1> DEFINE p == SubSeq(t, m, n)
<1>1. Len(p) = n - m + 1 /\ p \in Seq(S) /\ \A k \in 1..(n - m + 1) : p[k] = t[m - 1 + k]
  <2>1. m \in Int /\ n \in Int
    OBVIOUS
  <2> QED
    BY <2>1, PartOf
<1>2. DOMAIN p = 1..Len(p) /\ DOMAIN t = 1..Len(t) /\ Len(t) \in Nat
  BY <1>1
<1> HIDE DEF p
<1> SUFFICES ASSUME NEW k \in 1..Len(p), k > 1 PROVE "nl" \in {p[k - 1], p[k]}
  BY <1>2 DEF Lined, p
<1>3. /\ k \in 1..(n - m + 1) /\ k - 1 \in 1..(n - m + 1)
      /\ m - 1 + k \in 1..Len(t) /\ m - 1 + k > 1 /\ m - 1 + (k - 1) = (m - 1 + k) - 1
  BY <1>1, <1>2
<1>4. p[k] = t[m - 1 + k] /\ p[k - 1] = t[(m - 1 + k) - 1]
  BY <1>1, <1>3
<1> QED
  BY <1>2, <1>3, <1>4 DEF Lined

\* What is trimmed off a text is line breaks.
LEMMA TrimmedKeeps ==
  ASSUME NEW S, NEW text \in Seq(S)
  PROVE  /\ Trimmed(text) \in Seq(S)
         /\ LinesOf(Trimmed(text)) = LinesOf(text)
         /\ Lined(text) => Lined(Trimmed(text))
<1> DEFINE kept == DOMAIN text \ Positions(text, "nl")
           m == Min(kept)
           n == Max(kept)
<1>1. DOMAIN text = 1..Len(text) /\ Len(text) \in Nat /\ \A k \in 1..Len(text) : text[k] \in S
  OBVIOUS
<1>2. \A k : k \in kept <=> k \in 1..Len(text) /\ text[k] # "nl"
  BY <1>1 DEF Positions
<1>3. CASE kept = {}
  <2>1. Trimmed(text) = <<>>
    BY <1>3 DEF Trimmed
  <2>2. \A k \in 1..Len(text) : text[k] \in {"nl"}
    BY <1>2, <1>3
  <2>3. text \in Seq({"nl"})
    BY <1>1, <2>2
  <2>4. LinesOf(text) = <<>>
    BY <2>3, NoLines
  <2>5. LinesOf(<<>>) = <<>>
    BY TokensAtNone DEF LinesOf
  <2>6. <<>> \in Seq(S) /\ Lined(<<>>)
    BY DEF Lined
  <2> QED
    BY <2>1, <2>4, <2>5, <2>6
<1>4. CASE kept # {}
  <2>1. Trimmed(text) = SubSeq(text, m, n)
    BY <1>4 DEF Trimmed
  <2>2. m \in kept /\ \A k \in kept : m <= k
    <3>1. kept \in SUBSET Nat
      BY <1>1
    <3> HIDE DEF kept
    <3> QED
      BY <1>4, <3>1, MinExists
  <2>3. n \in kept /\ \A k \in kept : k <= n
    <3>1. kept \in SUBSET Nat
      BY <1>1
    <3> HIDE DEF kept
    <3>2. \A k \in kept : k <= Len(text)
      BY <1>1, <1>2
    <3> QED
      BY <1>1, <1>4, <3>1, <3>2, MaxExists
  <2> HIDE DEF kept, m, n
  <2>4. m \in 1..Len(text) /\ n \in 1..Len(text) /\ m <= n
    BY <1>2, <2>2, <2>3
  <2> DEFINE a == SubSeq(text, 1, m - 1)
             b == SubSeq(text, m, n)
             c == SubSeq(text, n + 1, Len(text))
  <2>5. /\ m - 1 \in 0..Len(text) /\ n + 1 \in 1..(Len(text) + 1) /\ n \in (m - 1)..Len(text)
        /\ m \in 1..(Len(text) + 1) /\ Len(text) \in ((n + 1) - 1)..Len(text) /\ m - 1 \in (1 - 1)..Len(text)
        /\ {m, n, m - 1, n + 1, 1, Len(text)} \subseteq Int /\ 1 \in 1..(Len(text) + 1)
    BY <1>1, <2>4
  <2>6. b \in Seq(S) /\ Len(b) = n - m + 1 /\ \A k \in 1..(n - m + 1) : b[k] = text[m - 1 + k]
    BY <2>5, PartOf
  <2>7. (\A k \in 1..(m - 1) : text[k] \in {"nl"}) /\ (\A k \in (n + 1)..Len(text) : text[k] \in {"nl"})
    BY <1>1, <1>2, <2>2, <2>3, <2>4
  <2>8. /\ a \in Seq({"nl"}) /\ a \in Seq(S)
        /\ Len(a) = m - 1 /\ \A k \in 1..(m - 1) : a[k] = text[k]
    <3>1. Len(a) = m - 1 /\ \A k \in 1..(m - 1) : a[k] = text[k]
      BY <2>5, PartOf
    <3> QED
      BY <2>5, <2>7, <3>1, PartOf
  <2>9. /\ c \in Seq({"nl"}) /\ c \in Seq(S)
        /\ Len(c) = Len(text) - n /\ \A k \in 1..(Len(text) - n) : c[k] = text[n + k]
    <3>1. /\ Len(c) = Len(text) - (n + 1) + 1
          /\ \A k \in 1..(Len(text) - (n + 1) + 1) : c[k] = text[(n + 1) - 1 + k]
      BY <2>5, PartOf
    <3>2. c \in Seq({"nl"}) /\ c \in Seq(S)
      BY <2>5, <2>7, PartOf
    <3> HIDE DEF c
    <3>3. Len(text) - (n + 1) + 1 = Len(text) - n /\ \A k \in Nat : (n + 1) - 1 + k = n + k
      BY <1>1, <2>4
    <3>4. \A k \in 1..(Len(text) - n) : k \in 1..(Len(text) - (n + 1) + 1) /\ k \in Nat
      BY <3>3
    <3>5. ASSUME NEW k \in 1..(Len(text) - n) PROVE c[k] = text[n + k]
      BY <3>1, <3>3, <3>4
    <3> QED
      BY <3>1, <3>2, <3>3, <3>5
  <2> HIDE DEF a, b, c
  <2>10. text = (a \o b) \o c
    <3> DEFINE ab == a \o b
               all == ab \o c
    <3>0. a \in Seq(S) /\ b \in Seq(S) /\ c \in Seq(S)
      BY <2>6, <2>8, <2>9
    <3>1. /\ ab \in Seq(S) /\ Len(ab) = Len(a) + Len(b)
          /\ (\A k \in 1..Len(a) : ab[k] = a[k]) /\ \A k \in 1..Len(b) : ab[Len(a) + k] = b[k]
      BY <3>0, JoinedPlaces
    <3> HIDE DEF ab
    <3>2. /\ all \in Seq(S) /\ Len(all) = Len(ab) + Len(c)
          /\ (\A k \in 1..Len(ab) : all[k] = ab[k]) /\ \A k \in 1..Len(c) : all[Len(ab) + k] = c[k]
      <4>1. ab \in Seq(S) /\ c \in Seq(S)
        BY <3>0, <3>1
      <4> QED
        BY <4>1, JoinedPlaces
    <3> HIDE DEF all
    <3>3. Len(ab) = n /\ Len(all) = Len(text)
      BY <1>1, <2>4, <2>6, <2>8, <2>9, <3>1, <3>2
    <3>4. ASSUME NEW k \in 1..Len(text) PROVE all[k] = text[k]
      <4>1. CASE k < m
        <5>1. k \in 1..Len(a) /\ k \in 1..Len(ab) /\ k \in 1..(m - 1)
          BY <1>1, <2>4, <2>8, <3>3, <4>1
        <5> QED
          BY <2>8, <3>1, <3>2, <5>1
      <4>2. CASE m <= k /\ k <= n
        <5>1. /\ k - m + 1 \in 1..Len(b) /\ k - m + 1 \in 1..(n - m + 1) /\ k \in 1..Len(ab)
              /\ Len(a) + (k - m + 1) = k /\ m - 1 + (k - m + 1) = k
          BY <1>1, <2>4, <2>6, <2>8, <3>3, <4>2
        <5>2. all[k] = ab[k] /\ ab[k] = b[k - m + 1]
          BY <3>1, <3>2, <5>1
        <5>3. b[k - m + 1] = text[k]
          BY <2>6, <5>1
        <5> QED
          BY <5>2, <5>3
      <4>3. CASE n < k
        <5>1. /\ k - n \in 1..Len(c) /\ k - n \in 1..(Len(text) - n)
              /\ Len(ab) + (k - n) = k /\ n + (k - n) = k
          BY <1>1, <2>4, <2>9, <3>3, <4>3
        <5>2. all[k] = c[k - n]
          BY <3>2, <5>1
        <5>3. c[k - n] = text[k]
          BY <2>9, <5>1
        <5> QED
          BY <5>2, <5>3
      <4> QED
        BY <2>4, <4>1, <4>2, <4>3
    <3>5. all = text
      BY <3>2, <3>3, <3>4, SeqEqual
    <3> QED
      BY <3>5 DEF all, ab
  <2>11. LinesOf(text) = LinesOf(b)
    <3>1. LinesOf(a) = <<>> /\ LinesOf(c) = <<>>
      BY <2>8, <2>9, NoLines
    <3>2. LinesOf(a \o b) = LinesOf(a) \o LinesOf(b) /\ LinesOf(b) \in Seq(S) /\ a \o b \in Seq(S)
      <4>1. a \in Seq(S) /\ b \in Seq(S)
        BY <2>6, <2>8
      <4>2. LinesOf(a \o b) = LinesOf(a) \o LinesOf(b) /\ LinesOf(b) \in Seq(S)
        BY <4>1, LinesJoined
      <4>3. a \o b \in Seq(S)
        BY <4>1, JoinedPlaces
      <4> QED
        BY <4>2, <4>3
    <3>3. LinesOf((a \o b) \o c) = LinesOf(a \o b) \o LinesOf(c)
      BY <2>9, <3>2, LinesJoined
    <3> DEFINE l == LinesOf(b)
    <3>4. l \in Seq(S)
      BY <3>2
    <3>5. LinesOf(text) = (<<>> \o l) \o <<>>
      BY <2>10, <3>1, <3>2, <3>3
    <3> HIDE DEF l
    <3>6. (<<>> \o l) \o <<>> = l
      BY <3>4
    <3> QED
      BY <3>5, <3>6 DEF l
  <2>12. Lined(text) => Lined(b)
    BY <2>4, <2>5, LinedPart DEF b
  <2> QED
    BY <2>1, <2>6, <2>11, <2>12 DEF b
<1> QED
  BY <1>3, <1>4

BlockHead == <<"sh", "nl", "start", "nl", "check", "nl", "end", "nl">>
AfterBlock(body) == IF body = <<>> THEN <<>> ELSE <<"nl">> \o body \o <<"nl">>

\* What is placed after the block has the lines of the body, and starts a line.
LEMMA AfterBlockKeeps ==
  ASSUME NEW body \in Seq(Free), Lined(body)
  PROVE  /\ AfterBlock(body) \in Seq(Free) /\ Lined(AfterBlock(body))
         /\ AfterBlock(body) # <<>> => AfterBlock(body)[1] = "nl"
         /\ LinesOf(AfterBlock(body)) = LinesOf(body)
<1>1. CASE body = <<>>
  <2>1. AfterBlock(body) = body
    BY <1>1 DEF AfterBlock
  <2> QED
    BY <1>1, <2>1
<1>2. CASE body # <<>>
  <2> DEFINE n == <<"nl">>
             front == n \o body
             all == front \o n
  <2>1. /\ n \in Seq(Free) /\ n \in Seq({"nl"}) /\ Len(n) = 1 /\ n[1] = "nl" /\ n # <<>>
        /\ DOMAIN n = 1..1
    BY DEF Free, Tokens
  <2>2. AfterBlock(body) = all
    BY <1>2 DEF AfterBlock
  <2>3. Lined(n)
    BY <2>1 DEF Lined
  <2> HIDE DEF n
  <2>4. /\ front \in Seq(Free) /\ Len(front) = Len(n) + Len(body)
        /\ \A k \in 1..Len(n) : front[k] = n[k]
    BY <2>1, JoinedPlaces
  <2>5. Lined(front)
    BY <2>1, <2>3, LinedJoined
  <2>6. LinesOf(front) = LinesOf(n) \o LinesOf(body) /\ LinesOf(body) \in Seq(Free)
    BY <2>1, LinesJoined
  <2> HIDE DEF front
  <2>7. /\ all \in Seq(Free) /\ Len(all) = Len(front) + Len(n)
        /\ \A k \in 1..Len(front) : all[k] = front[k]
    BY <2>1, <2>4, JoinedPlaces
  <2>8. Lined(all)
    BY <2>1, <2>3, <2>4, <2>5, LinedJoined
  <2>9. LinesOf(all) = LinesOf(front) \o LinesOf(n)
    BY <2>1, <2>4, LinesJoined
  <2>10. LinesOf(n) = <<>>
    BY <2>1, NoLines
  <2> DEFINE l == LinesOf(body)
  <2>11. LinesOf(all) = (<<>> \o l) \o <<>> /\ l \in Seq(Free)
    BY <2>6, <2>9, <2>10
  <2> HIDE DEF l
  <2>12. LinesOf(all) = l
    BY <2>11
  <2>13. all[1] = "nl"
    <3>1. Len(body) \in Nat
      OBVIOUS
    <3>2. 1 \in 1..Len(n) /\ 1 \in 1..Len(front)
      BY <2>1, <2>4, <3>1
    <3> QED
      BY <2>1, <2>4, <2>7, <3>2
  <2> HIDE DEF all
  <2> QED
    BY <2>2, <2>7, <2>8, <2>12, <2>13 DEF l
<1> QED
  BY <1>1, <1>2

\* The head of a new hook, token by token.
LEMMA HeadIs == <<"sh">> \o <<"nl">> \o Block \o <<"nl">> = BlockHead
<1> DEFINE sh == <<"sh">>
           nl == <<"nl">>
           two == sh \o nl
           seven == two \o Block
           all == seven \o nl
<1>1. /\ sh \in Seq(Tokens) /\ Len(sh) = 1 /\ sh[1] = "sh"
      /\ nl \in Seq(Tokens) /\ Len(nl) = 1 /\ nl[1] = "nl"
  BY DEF Tokens
<1>2. /\ Block \in Seq(Tokens) /\ Len(Block) = 5
      /\ Block[1] = "start" /\ Block[2] = "nl" /\ Block[3] = "check" /\ Block[4] = "nl" /\ Block[5] = "end"
  BY DEF Block, Tokens
<1>3. /\ BlockHead \in Seq(Tokens) /\ Len(BlockHead) = 8
      /\ BlockHead[1] = "sh" /\ BlockHead[2] = "nl" /\ BlockHead[3] = "start" /\ BlockHead[4] = "nl"
      /\ BlockHead[5] = "check" /\ BlockHead[6] = "nl" /\ BlockHead[7] = "end" /\ BlockHead[8] = "nl"
  BY DEF BlockHead, Tokens
<1> HIDE DEF sh, nl
<1>4. /\ two \in Seq(Tokens) /\ Len(two) = 2 /\ two[1] = "sh" /\ two[2] = "nl"
  <2>1. /\ two \in Seq(Tokens) /\ Len(two) = Len(sh) + Len(nl)
        /\ (\A k \in 1..Len(sh) : two[k] = sh[k]) /\ \A k \in 1..Len(nl) : two[Len(sh) + k] = nl[k]
    <3>1. sh \in Seq(Tokens) /\ nl \in Seq(Tokens)
      BY <1>1
    <3> QED
      BY <3>1, JoinedPlaces
  <2> HIDE DEF two
  <2> QED
    BY <1>1, <2>1
<1> HIDE DEF two
<1>5. /\ seven \in Seq(Tokens) /\ Len(seven) = 7
      /\ \A k \in 1..2 : seven[k] = two[k]
      /\ \A k \in 1..5 : seven[2 + k] = Block[k]
  <2>1. /\ seven \in Seq(Tokens) /\ Len(seven) = Len(two) + Len(Block)
        /\ (\A k \in 1..Len(two) : seven[k] = two[k])
        /\ \A k \in 1..Len(Block) : seven[Len(two) + k] = Block[k]
    <3>1. two \in Seq(Tokens) /\ Block \in Seq(Tokens)
      BY <1>2, <1>4
    <3> QED
      BY <3>1, JoinedPlaces
  <2> HIDE DEF seven
  <2> QED
    BY <1>2, <1>4, <2>1
<1>6. /\ seven[1] = "sh" /\ seven[2] = "nl"
      /\ seven[2 + 1] = "start" /\ seven[2 + 2] = "nl" /\ seven[2 + 3] = "check"
      /\ seven[2 + 4] = "nl" /\ seven[2 + 5] = "end"
  BY <1>2, <1>4, <1>5
<1> HIDE DEF seven
<1>7. /\ all \in Seq(Tokens) /\ Len(all) = 8
      /\ \A k \in 1..7 : all[k] = seven[k]
      /\ \A k \in 1..1 : all[7 + k] = nl[k]
  <2>1. /\ all \in Seq(Tokens) /\ Len(all) = Len(seven) + Len(nl)
        /\ (\A k \in 1..Len(seven) : all[k] = seven[k])
        /\ \A k \in 1..Len(nl) : all[Len(seven) + k] = nl[k]
    <3>1. seven \in Seq(Tokens) /\ nl \in Seq(Tokens)
      BY <1>1, <1>5
    <3> QED
      BY <3>1, JoinedPlaces
  <2> HIDE DEF all
  <2> QED
    BY <1>1, <1>5, <2>1
<1>8. all[7 + 1] = "nl"
  BY <1>1, <1>7
<1> HIDE DEF all
<1>9. ASSUME NEW k \in 1..8 PROVE all[k] = BlockHead[k]
  <2>1. k = 1 \/ k = 2 \/ k = 3 \/ k = 4 \/ k = 5 \/ k = 6 \/ k = 7 \/ k = 8
    OBVIOUS
  <2>2. k # 8 => k \in 1..7
    OBVIOUS
  <2> QED
    BY <1>3, <1>6, <1>7, <1>8, <2>1, <2>2
<1>10. all = BlockHead
  BY <1>3, <1>7, <1>9, SeqEqual
<1> QED
  BY <1>10 DEF all, seven, two, sh, nl

\* The text of an accepted hook, with the block placed in it.
LEMMA PlacedIs ==
  ASSUME NEW text, Accepted(text)
  PROVE  \E body \in Seq(Free) :
           /\ Lined(body) /\ Placed(text) = BlockHead \o AfterBlock(body)
           /\ <<"sh">> \o LinesOf(body) =
                IF WithoutBlock(text) # <<>> /\ WithoutBlock(text)[1] = "sh" THEN Own(text)
                ELSE <<"sh">> \o Own(text)
<1> DEFINE kept == WithoutBlock(text)
           shebang == ShebangLength(kept)
           rest == SubSeq(kept, shebang + 1, Len(kept))
           body == Trimmed(rest)
<1>1. /\ kept \in Seq(Free) /\ Lined(kept) /\ (kept # <<>> => kept[1] # "py")
      /\ DOMAIN kept = 1..Len(kept) /\ Len(kept) \in Nat /\ (kept = <<>> <=> Len(kept) = 0)
  BY KeptText
<1>2. Placed(text) = (IF shebang = 0 THEN <<"sh">> ELSE SubSeq(kept, 1, shebang))
                       \o <<"nl">> \o Block \o <<"nl">> \o AfterBlock(body)
  BY DEF Placed, AfterBlock
<1>3. Own(text) = LinesOf(kept)
  BY DEF Own, Accepted
<1>4. shebang = IF kept = <<>> \/ kept[1] \notin {"sh", "py"} THEN 0
                ELSE Min(Positions(kept, "nl") \cup {Len(kept) + 1}) - 1
  BY DEF ShebangLength
<1> HIDE DEF kept, shebang
<1>5. CASE kept # <<>> /\ kept[1] = "sh"
  <2>1. shebang = 1
    <3> DEFINE ends == Positions(kept, "nl") \cup {Len(kept) + 1}
    <3>1. \A k : k \in ends <=> (k \in 1..Len(kept) /\ kept[k] = "nl") \/ k = Len(kept) + 1
      BY <1>1 DEF Positions
    <3>2. ends \in SUBSET Nat /\ ends # {}
      BY <1>1, <3>1
    <3>3. shebang = Min(ends) - 1
      BY <1>4, <1>5
    <3> HIDE DEF ends
    <3>4. Min(ends) \in ends /\ \A k \in ends : Min(ends) <= k
      BY <3>2, MinExists
    <3>5. 1 \notin ends /\ \A k \in ends : k >= 2
      BY <1>1, <1>5, <3>1
    <3>6. 2 \in ends
      <4>1. CASE Len(kept) = 1
        BY <3>1, <4>1
      <4>2. CASE Len(kept) # 1
        <5>1. 2 \in DOMAIN kept /\ 2 > 1 /\ 2 - 1 = 1
          BY <1>1, <1>5, <4>2
        <5>2. "nl" \in {kept[1], kept[2]}
          BY <1>1, <5>1 DEF Lined
        <5> QED
          BY <1>1, <1>5, <3>1, <5>1, <5>2
      <4> QED
        BY <4>1, <4>2
    <3> DEFINE least == Min(ends)
    <3>7. least \in Nat /\ least >= 2 /\ least <= 2 /\ shebang = least - 1
      BY <3>2, <3>3, <3>4, <3>5, <3>6
    <3> HIDE DEF least
    <3> QED
      BY <3>7
  <2> DEFINE first == SubSeq(kept, 1, 1)
  <2>2. /\ 1 \in 0..Len(kept) /\ 2 \in 1..(Len(kept) + 1) /\ 1 + 1 = 2
        /\ Len(kept) \in (2 - 1)..Len(kept) /\ {1, 2, Len(kept)} \subseteq Int
        /\ 1 \in 1..(Len(kept) + 1) /\ 1 \in (1 - 1)..Len(kept)
    BY <1>1, <1>5
  <2>3. first \in Seq(Free) /\ first = <<"sh">>
    <3>1. first \in Seq(Free) /\ Len(first) = 1 /\ first[1] = kept[1]
      BY <1>1, <1>5
    <3> DEFINE sh == <<"sh">>
    <3>2. sh \in Seq(Free) /\ Len(sh) = 1 /\ sh[1] = "sh"
      BY DEF Free, Tokens
    <3> HIDE DEF first, sh
    <3>3. first = sh
      BY <1>5, <3>1, <3>2, SeqEqual
    <3> QED
      BY <3>1, <3>3 DEF sh
  <2>4. rest = SubSeq(kept, 2, Len(kept)) /\ rest \in Seq(Free) /\ Lined(rest)
    <3>1. rest = SubSeq(kept, 2, Len(kept))
      BY <2>1, <2>2
    <3>2. SubSeq(kept, 2, Len(kept)) \in Seq(Free)
      BY <1>1, <2>2, PartOf
    <3>3. Lined(SubSeq(kept, 2, Len(kept)))
      BY <1>1, <2>2, LinedPart
    <3> QED
      BY <3>1, <3>2, <3>3
  <2>5. kept = first \o rest
    BY <1>1, <1>5, <2>4
  <2> HIDE DEF first, rest
  <2>6. body \in Seq(Free) /\ LinesOf(body) = LinesOf(rest) /\ Lined(body)
    BY <2>4, TrimmedKeeps
  <2>7. LinesOf(kept) = LinesOf(first) \o LinesOf(rest)
    BY <2>3, <2>4, <2>5, LinesJoined
  <2>8. LinesOf(first) = <<"sh">>
    <3> DEFINE e == <<>>
    <3>1. e \in Seq(Free) /\ "sh" \in Free /\ Append(e, "sh") = first
      BY <2>3 DEF Free, Tokens
    <3>2. LinesOf(e) = e
      BY TokensAtNone DEF LinesOf
    <3> HIDE DEF e
    <3>3. LinesOf(Append(e, "sh")) = Append(e, "sh")
      BY <3>1, <3>2, LinesLast
    <3> QED
      BY <2>3, <3>1, <3>3
  <2> HIDE DEF body
  <2>9. Placed(text) = first \o <<"nl">> \o Block \o <<"nl">> \o AfterBlock(body)
    BY <1>2, <2>1 DEF first
  <2>10. first \o <<"nl">> \o Block \o <<"nl">> = BlockHead
    BY <2>3, HeadIs
  <2>11. Placed(text) = BlockHead \o AfterBlock(body)
    BY <2>9, <2>10
  <2>12. <<"sh">> \o LinesOf(body) = Own(text)
    BY <1>3, <2>6, <2>7, <2>8
  <2> QED
    BY <1>5, <2>6, <2>11, <2>12 DEF kept
<1>6. CASE ~(kept # <<>> /\ kept[1] = "sh")
  <2>1. shebang = 0
    BY <1>1, <1>4, <1>6
  <2>2. rest = kept
    <3>1. rest = SubSeq(kept, 1, Len(kept))
      BY <2>1
    <3>2. Len(kept) \in 0..Len(kept) /\ {1, Len(kept)} \subseteq Int /\ 1 \in 1..(Len(kept) + 1)
          /\ Len(kept) \in (1 - 1)..Len(kept)
      BY <1>1
    <3> HIDE DEF rest
    <3>3. rest \in Seq(Free) /\ Len(rest) = Len(kept) /\ \A k \in 1..Len(kept) : rest[k] = kept[k]
      <4>1. SubSeq(kept, 1, Len(kept)) \in Seq(Free)
        BY <1>1, <3>2, PartOf
      <4>2. /\ Len(SubSeq(kept, 1, Len(kept))) = Len(kept)
            /\ \A k \in 1..Len(kept) : SubSeq(kept, 1, Len(kept))[k] = kept[k]
        BY <1>1, <3>2, PartOf
      <4> QED
        BY <3>1, <4>1, <4>2
    <3> QED
      BY <1>1, <3>3, SeqEqual
  <2> HIDE DEF rest
  <2>3. body \in Seq(Free) /\ LinesOf(body) = LinesOf(kept) /\ Lined(body)
    BY <1>1, <2>2, TrimmedKeeps
  <2> HIDE DEF body
  <2>4. Placed(text) = <<"sh">> \o <<"nl">> \o Block \o <<"nl">> \o AfterBlock(body)
    BY <1>2, <2>1
  <2>5. <<"sh">> \o <<"nl">> \o Block \o <<"nl">> = BlockHead
    BY HeadIs
  <2>6. Placed(text) = BlockHead \o AfterBlock(body)
    BY <2>4, <2>5
  <2> QED
    BY <1>3, <1>6, <2>3, <2>6 DEF kept
<1> QED
  BY <1>5, <1>6

\* A text with the whole block right after the shebang.
LEMMA HeadText ==
  ASSUME NEW tail \in Seq(Free), Lined(tail), tail # <<>> => tail[1] = "nl"
  PROVE  /\ BlockHead \o tail \in Seq(Tokens) /\ Len(BlockHead \o tail) = 8 + Len(tail)
         /\ \A k \in 1..8 : (BlockHead \o tail)[k] = BlockHead[k]
         /\ \A k \in 1..Len(tail) : (BlockHead \o tail)[8 + k] = tail[k]
         /\ Lined(BlockHead \o tail)
         /\ Positions(BlockHead \o tail, "start") = {3}
         /\ Positions(BlockHead \o tail, "end") = {7}
<1> DEFINE p == BlockHead \o tail
<1>1. /\ BlockHead \in Seq(Tokens) /\ Len(BlockHead) = 8 /\ BlockHead # <<>>
      /\ BlockHead[1] = "sh" /\ BlockHead[2] = "nl" /\ BlockHead[3] = "start" /\ BlockHead[4] = "nl"
      /\ BlockHead[5] = "check" /\ BlockHead[6] = "nl" /\ BlockHead[7] = "end" /\ BlockHead[8] = "nl"
  BY DEF BlockHead, Tokens
<1>2. Lined(BlockHead)
  <2>1. DOMAIN BlockHead = 1..8
    BY <1>1
  <2>2. ASSUME NEW k \in 1..8, k > 1 PROVE "nl" \in {BlockHead[k - 1], BlockHead[k]}
    <3>1. k = 2 \/ k = 3 \/ k = 4 \/ k = 5 \/ k = 6 \/ k = 7 \/ k = 8
      BY <2>2
    <3>2. 2 - 1 = 1 /\ 3 - 1 = 2 /\ 4 - 1 = 3 /\ 5 - 1 = 4 /\ 6 - 1 = 5 /\ 7 - 1 = 6 /\ 8 - 1 = 7
      OBVIOUS
    <3> QED
      BY <1>1, <3>1, <3>2
  <2> QED
    BY <2>1, <2>2 DEF Lined
<1>3. tail \in Seq(Tokens) /\ Len(tail) \in Nat /\ \A k \in 1..Len(tail) : tail[k] \in Free
  BY DEF Free
<1>4. /\ p \in Seq(Tokens) /\ Len(p) = Len(BlockHead) + Len(tail)
      /\ (\A k \in 1..Len(BlockHead) : p[k] = BlockHead[k])
      /\ \A k \in 1..Len(tail) : p[Len(BlockHead) + k] = tail[k]
  <2>1. BlockHead \in Seq(Tokens) /\ tail \in Seq(Tokens)
    BY <1>1, <1>3
  <2> QED
    BY <2>1, JoinedPlaces
<1>5. Lined(p)
  <2>1. BlockHead # <<>> /\ tail # <<>> => "nl" \in {BlockHead[Len(BlockHead)], tail[1]}
    BY <1>1
  <2> QED
    BY <1>1, <1>2, <1>3, <2>1, LinedJoined
<1> HIDE DEF p
<1>6. /\ Len(p) = 8 + Len(tail) /\ DOMAIN p = 1..(8 + Len(tail))
      /\ (\A k \in 1..8 : p[k] = BlockHead[k]) /\ \A k \in 1..Len(tail) : p[8 + k] = tail[k]
  BY <1>1, <1>4
<1>7. ASSUME NEW k \in DOMAIN p
      PROVE  (p[k] = "start" <=> k = 3) /\ (p[k] = "end" <=> k = 7)
  <2>1. CASE k \in 1..8
    <3>1. k = 1 \/ k = 2 \/ k = 3 \/ k = 4 \/ k = 5 \/ k = 6 \/ k = 7 \/ k = 8
      BY <2>1
    <3>2. p[k] = BlockHead[k]
      BY <1>6, <2>1
    <3> QED
      BY <1>1, <3>1, <3>2
  <2>2. CASE k \notin 1..8
    <3>1. k - 8 \in 1..Len(tail) /\ k = 8 + (k - 8) /\ k # 3 /\ k # 7
      BY <1>3, <1>6, <2>2
    <3>2. p[k] = tail[k - 8]
      BY <1>6, <3>1
    <3>3. p[k] \in Free
      BY <1>3, <3>1, <3>2
    <3> QED
      BY <3>1, <3>3 DEF Free
  <2> QED
    BY <2>1, <2>2
<1>8. 3 \in DOMAIN p /\ 7 \in DOMAIN p
  BY <1>3, <1>6
<1>9. Positions(p, "start") = {3} /\ Positions(p, "end") = {7}
  BY <1>7, <1>8 DEF Positions
<1> QED
  BY <1>4, <1>5, <1>6, <1>9 DEF p

\* Its user's part: the shebang and what follows the block.
LEMMA HeadOwn ==
  ASSUME NEW tail \in Seq(Free), Lined(tail), tail # <<>> => tail[1] = "nl"
  PROVE  /\ Accepted(BlockHead \o tail)
         /\ Cardinality(Positions(BlockHead \o tail, "start")) = 1
         /\ WithoutBlock(BlockHead \o tail) # <<>> /\ WithoutBlock(BlockHead \o tail)[1] = "sh"
         /\ Own(BlockHead \o tail) = <<"sh">> \o LinesOf(tail)
<1> DEFINE p == BlockHead \o tail
           sh == <<"sh">>
           nl == <<"nl">>
           first == SubSeq(p, 1, 2)
           rest == SubSeq(p, 8, Len(p))
           cut == CutBlock(p)
<1>1. /\ p \in Seq(Tokens) /\ Len(p) = 8 + Len(tail) /\ Len(tail) \in Nat
      /\ (\A k \in 1..8 : p[k] = BlockHead[k]) /\ \A k \in 1..Len(tail) : p[8 + k] = tail[k]
      /\ Lined(p) /\ Positions(p, "start") = {3} /\ Positions(p, "end") = {7}
  BY HeadText
<1>2. BlockHead[1] = "sh" /\ BlockHead[2] = "nl" /\ BlockHead[8] = "nl"
  BY DEF BlockHead
<1> HIDE DEF p
<1>3. Cardinality({3}) = 1 /\ Cardinality({7}) = 1 /\ Min({3}) = 3 /\ Min({7}) = 7
  BY FS_Singleton, LeastOfOne
<1>4. Accepted(p)
  <2>1. ~Corrupt(p)
    <3> DEFINE starts == Positions(p, "start")
               ends == Positions(p, "end")
    <3>1. /\ Cardinality(starts) = 1 /\ Cardinality(ends) = 1 /\ Min(starts) = 3 /\ Min(ends) = 7
      BY <1>1, <1>3
    <3>2. Corrupt(p) => \/ Cardinality(starts) # Cardinality(ends)
                        \/ Cardinality(starts) > 1
                        \/ Min(ends) < Min(starts)
      BY DEF Corrupt
    <3> HIDE DEF starts, ends
    <3> QED
      BY <3>1, <3>2
  <2>2. p[1] = "sh"
    BY <1>1, <1>2
  <2> QED
    BY <1>1, <2>1, <2>2 DEF Accepted, NonShell
<1>5. cut = first \o rest
  <2>1. 3 - 1 = 2 /\ 7 + 1 = 8
    OBVIOUS
  <2> QED
    BY <1>1, <1>3, <2>1 DEF CutBlock
<1>6. /\ sh \in Seq(Free) /\ Len(sh) = 1 /\ sh[1] = "sh"
      /\ nl \in Seq(Free) /\ nl \in Seq({"nl"}) /\ Len(nl) = 1 /\ nl[1] = "nl"
      /\ "nl" \in Free /\ "sh" \in Free
  BY DEF Free, Tokens
<1>7. first = Append(sh, "nl")
  <2> DEFINE a == Append(sh, "nl")
  <2>1. a \in Seq(Tokens) /\ Len(a) = 2 /\ a[1] = "sh" /\ a[2] = "nl"
    BY DEF Tokens
  <2>2. /\ 1 \in 1..(Len(p) + 1) /\ 2 \in (1 - 1)..Len(p) /\ 2 \in 0..Len(p) /\ {1, 2} \subseteq Int
        /\ 2 - 1 + 1 = 2
    BY <1>1
  <2>3. first \in Seq(Tokens) /\ Len(first) = 2 /\ \A k \in 1..2 : first[k] = p[k]
    BY <1>1, <2>2, PartOf
  <2> HIDE DEF a, first
  <2>4. ASSUME NEW k \in 1..2 PROVE first[k] = a[k]
    <3>1. k = 1 \/ k = 2
      OBVIOUS
    <3>2. k \in 1..8
      OBVIOUS
    <3> QED
      BY <1>1, <1>2, <2>1, <2>3, <3>1, <3>2
  <2>5. first = a
    BY <2>1, <2>3, <2>4, SeqEqual
  <2> QED
    BY <2>5 DEF a
<1>8. rest = nl \o tail
  <2> DEFINE b == nl \o tail
  <2>1. /\ 8 \in 1..(Len(p) + 1) /\ Len(p) \in (8 - 1)..Len(p) /\ {8, Len(p)} \subseteq Int
        /\ Len(p) - 8 + 1 = 1 + Len(tail)
    BY <1>1
  <2>2. /\ rest \in Seq(Tokens) /\ Len(rest) = Len(p) - 8 + 1
        /\ \A k \in 1..(Len(p) - 8 + 1) : rest[k] = p[8 - 1 + k]
    BY <1>1, <2>1, PartOf
  <2>3. /\ b \in Seq(Free) /\ Len(b) = Len(nl) + Len(tail)
        /\ (\A k \in 1..Len(nl) : b[k] = nl[k]) /\ \A k \in 1..Len(tail) : b[Len(nl) + k] = tail[k]
    BY <1>6, JoinedPlaces
  <2> HIDE DEF b, rest
  <2>4. Len(b) = 1 + Len(tail) /\ b[1] = "nl" /\ \A k \in 1..Len(tail) : b[1 + k] = tail[k]
    BY <1>6, <2>3
  <2>5. ASSUME NEW k \in 1..(1 + Len(tail)) PROVE rest[k] = b[k]
    <3>1. rest[k] = p[7 + k]
      BY <2>1, <2>2
    <3>2. CASE k = 1
      <4>1. p[7 + 1] = BlockHead[8] /\ rest[1] = p[7 + 1]
        BY <1>1, <3>1, <3>2
      <4> QED
        BY <1>2, <2>4, <3>2, <4>1
    <3>3. CASE k # 1
      <4>1. k - 1 \in 1..Len(tail) /\ 7 + k = 8 + (k - 1) /\ k = 1 + (k - 1)
        BY <1>1, <3>3
      <4>2. p[7 + k] = tail[k - 1] /\ b[k] = tail[k - 1]
        BY <1>1, <2>4, <4>1
      <4> QED
        BY <3>1, <4>2
    <3> QED
      BY <3>2, <3>3
  <2>6. b \in Seq(Tokens)
    BY <2>3 DEF Free
  <2>7. rest = b
    BY <2>1, <2>2, <2>4, <2>5, <2>6, SeqEqual
  <2> QED
    BY <2>7 DEF b
<1> HIDE DEF first, rest, cut
<1>9. first \in Seq(Free) /\ LinesOf(first) = sh /\ first # <<>> /\ first[1] = "sh" /\ Len(first) = 2
  <2> DEFINE e == <<>>
  <2>1. e \in Seq(Free) /\ LinesOf(e) = e /\ Append(e, "sh") = sh
    BY TokensAtNone DEF LinesOf
  <2> HIDE DEF e, sh
  <2>2. LinesOf(sh) = sh
    BY <1>6, <2>1, LinesLast
  <2>3. LinesOf(first) = sh
    BY <1>6, <1>7, <2>2, LinesLast
  <2>4. first \in Seq(Free) /\ first # <<>> /\ first[1] = "sh" /\ Len(first) = 2
    BY <1>6, <1>7
  <2> QED
    BY <2>3, <2>4
<1> HIDE DEF sh, nl
<1>10. rest \in Seq(Free) /\ LinesOf(rest) = LinesOf(tail)
  <2>1. LinesOf(rest) = LinesOf(nl) \o LinesOf(tail) /\ LinesOf(nl) = <<>>
    BY <1>6, <1>8, LinesJoined, NoLines
  <2>2. LinesOf(tail) \in Seq(Free)
    BY LinesJoined
  <2> DEFINE l == LinesOf(tail)
  <2>3. l \in Seq(Free) /\ LinesOf(rest) = <<>> \o l
    BY <2>1, <2>2
  <2> HIDE DEF l
  <2>4. LinesOf(rest) = l
    BY <2>3
  <2>5. rest \in Seq(Free)
    BY <1>6, <1>8, JoinedPlaces
  <2> QED
    BY <2>4, <2>5 DEF l
<1>11. cut \in Seq(Free) /\ LinesOf(cut) = sh \o LinesOf(tail)
  <2>1. cut \in Seq(Free)
    BY <1>5, <1>9, <1>10, JoinedPlaces
  <2>2. LinesOf(cut) = LinesOf(first) \o LinesOf(rest)
    BY <1>5, <1>9, <1>10, LinesJoined
  <2> QED
    BY <1>9, <1>10, <2>1, <2>2
<1>12. cut # <<>> /\ cut[1] = "sh"
  <2>1. Len(cut) = Len(first) + Len(rest) /\ (\A k \in 1..Len(first) : cut[k] = first[k])
        /\ Len(rest) \in Nat
    <3>1. first \in Seq(Free) /\ rest \in Seq(Free)
      BY <1>9, <1>10
    <3>2. /\ Len(first \o rest) = Len(first) + Len(rest)
          /\ \A k \in 1..Len(first) : (first \o rest)[k] = first[k]
      BY <3>1, JoinedPlaces
    <3> QED
      BY <1>5, <3>1, <3>2
  <2>2. 1 \in 1..Len(first)
    BY <1>9
  <2>3. cut[1] = "sh"
    BY <1>9, <2>1, <2>2
  <2>4. Len(cut) # 0
    BY <1>9, <2>1
  <2> QED
    BY <2>3, <2>4
<1>13. WithoutBlock(p) = Collapsed(cut)
  BY <1>1 DEF WithoutBlock, cut
<1>14. WithoutBlock(p) # <<>> /\ WithoutBlock(p)[1] = "sh" /\ LinesOf(WithoutBlock(p)) = LinesOf(cut)
  BY <1>11, <1>12, <1>13, CollapsedKeeps
<1>15. Own(p) = LinesOf(WithoutBlock(p))
  BY <1>4 DEF Own, Accepted
<1> QED
  BY <1>1, <1>3, <1>4, <1>11, <1>14, <1>15 DEF p, sh

\* The hook after an install: a block right after the shebang, the whole of it and
\* only one, and the lines that the user had, after a shebang.
LEMMA PlacedFacts ==
  ASSUME NEW text, Accepted(text)
  PROVE  /\ Accepted(Placed(text))
         /\ IsPrefix(<<"sh", "nl">> \o Block, Placed(text))
         /\ Cardinality(Positions(Placed(text), "start")) = 1
         /\ WithoutBlock(Placed(text)) # <<>> /\ WithoutBlock(Placed(text))[1] = "sh"
         /\ Own(Placed(text)) =
              IF WithoutBlock(text) # <<>> /\ WithoutBlock(text)[1] = "sh" THEN Own(text)
              ELSE <<"sh">> \o Own(text)
<1>1. PICK body \in Seq(Free) :
        /\ Lined(body) /\ Placed(text) = BlockHead \o AfterBlock(body)
        /\ <<"sh">> \o LinesOf(body) =
             IF WithoutBlock(text) # <<>> /\ WithoutBlock(text)[1] = "sh" THEN Own(text)
             ELSE <<"sh">> \o Own(text)
  BY PlacedIs
<1> DEFINE tail == AfterBlock(body)
           p == BlockHead \o tail
<1>2. /\ tail \in Seq(Free) /\ Lined(tail) /\ LinesOf(tail) = LinesOf(body)
      /\ tail # <<>> => tail[1] = "nl"
  BY <1>1, AfterBlockKeeps
<1> HIDE DEF tail
<1>3. /\ Accepted(p) /\ Cardinality(Positions(p, "start")) = 1
      /\ WithoutBlock(p) # <<>> /\ WithoutBlock(p)[1] = "sh"
      /\ Own(p) = <<"sh">> \o LinesOf(tail)
  BY <1>2, HeadOwn
<1>4. /\ p \in Seq(Tokens) /\ Len(p) = 8 + Len(tail) /\ Len(tail) \in Nat
      /\ \A k \in 1..8 : p[k] = BlockHead[k]
  BY <1>2, HeadText
<1> HIDE DEF p
<1>5. IsPrefix(<<"sh", "nl">> \o Block, p)
  <2> DEFINE sh == <<"sh", "nl">>
             front == sh \o Block
  <2>1. /\ sh \in Seq(Tokens) /\ Len(sh) = 2 /\ sh[1] = "sh" /\ sh[2] = "nl"
        /\ Block \in Seq(Tokens) /\ Len(Block) = 5
        /\ Block[1] = "start" /\ Block[2] = "nl" /\ Block[3] = "check" /\ Block[4] = "nl" /\ Block[5] = "end"
    BY DEF Block, Tokens
  <2>2. /\ BlockHead[1] = "sh" /\ BlockHead[2] = "nl" /\ BlockHead[3] = "start" /\ BlockHead[4] = "nl"
        /\ BlockHead[5] = "check" /\ BlockHead[6] = "nl" /\ BlockHead[7] = "end"
    BY DEF BlockHead
  <2> HIDE DEF sh
  <2>3. /\ front \in Seq(Tokens) /\ Len(front) = Len(sh) + Len(Block)
        /\ (\A k \in 1..Len(sh) : front[k] = sh[k])
        /\ \A k \in 1..Len(Block) : front[Len(sh) + k] = Block[k]
    <3>1. sh \in Seq(Tokens) /\ Block \in Seq(Tokens)
      BY <2>1
    <3> QED
      BY <3>1, JoinedPlaces
  <2> HIDE DEF front
  <2>4. /\ Len(front) = 7 /\ front[1] = "sh" /\ front[2] = "nl"
        /\ front[2 + 1] = "start" /\ front[2 + 2] = "nl" /\ front[2 + 3] = "check"
        /\ front[2 + 4] = "nl" /\ front[2 + 5] = "end"
    BY <2>1, <2>3
  <2>5. ASSUME NEW k \in 1..7 PROVE front[k] = p[k]
    <3>1. k = 1 \/ k = 2 \/ k = 3 \/ k = 4 \/ k = 5 \/ k = 6 \/ k = 7
      OBVIOUS
    <3>2. k \in 1..8
      OBVIOUS
    <3> QED
      BY <1>4, <2>2, <2>4, <3>1, <3>2
  <2> DEFINE a == SubSeq(front, 1, 7)
             b == SubSeq(p, 1, 7)
  <2>6. /\ 1 \in 1..(Len(p) + 1) /\ 7 \in (1 - 1)..Len(p) /\ 7 \in 0..Len(p) /\ {1, 7} \subseteq Int
        /\ 1 \in 1..(Len(front) + 1) /\ 7 \in (1 - 1)..Len(front) /\ 7 \in 0..Len(front)
    BY <1>4, <2>4
  <2>7. a \in Seq(Tokens) /\ Len(a) = 7 /\ \A k \in 1..7 : a[k] = front[k]
    BY <2>3, <2>6, PartOf
  <2>8. b \in Seq(Tokens) /\ Len(b) = 7 /\ \A k \in 1..7 : b[k] = p[k]
    BY <1>4, <2>6, PartOf
  <2> HIDE DEF a, b
  <2>9. a = b
    <3>1. Len(a) = Len(b) /\ \A k \in 1..Len(a) : a[k] = b[k]
      BY <2>5, <2>7, <2>8
    <3> QED
      BY <2>7, <2>8, <3>1, SeqEqual
  <2>10. Len(front) <= Len(p) /\ SubSeq(front, 1, Len(front)) = SubSeq(p, 1, Len(front))
    BY <1>4, <2>4, <2>9 DEF a, b
  <2> QED
    BY <2>10 DEF IsPrefix, front, sh
<1> QED
  BY <1>1, <1>2, <1>3, <1>5 DEF p, tail

-----------------------------------------------------------------------------
(* The hook's inductive invariant *)

\* The steps of an install at which a failure has something to undo, or not.
Writing == {"write", "chmod", "rename"}
Ready == {"chmod", "rename"}
Places == Writing \cup {"resolve", "read", "remove", "installed", "failed", "dead"}
Known == {"git", "husky"}

HookTypes ==
  /\ directory \in Directories
  /\ hook \in [text : Seq(Tokens), exec : BOOLEAN, own : BOOLEAN] /\ Lined(hook.text)
  /\ temps \in [Installs -> Seq(Tokens)]
  /\ installs \in [Installs -> [at : Places, text : Seq(Tokens), edited : BOOLEAN]]

\* An install that gets to its rename has a hook it could read, and a whole file.
InstallOK(i) ==
  /\ installs[i].at \in Writing \cup {"read"} => directory \in Known
  /\ installs[i].at \in Writing => Accepted(installs[i].text)
  /\ installs[i].at \in Ready => temps[i] = Placed(installs[i].text)

\* What it has read gives the same hook as what is there now, but for the places of
\* the line breaks: nobody edits the hook, or others have replaced it alike.
NotStale(i) ==
  installs[i].at \in Writing /\ ~installs[i].edited =>
    /\ Accepted(hook.text)
    /\ Own(Placed(hook.text)) = Own(Placed(installs[i].text))

InstalledWhole ==
  hook.own =>
    directory \in Known /\ hook.exec /\ \E text : Accepted(text) /\ hook.text = Placed(text)

HookInv ==
  HookTypes /\ InstalledWhole /\ \A i \in Installs : InstallOK(i) /\ NotStale(i)

\* The invariant of the hook holds of every hook there may be at first.
LEMMA HookInvInit == HookInit => HookInv
<1> SUFFICES ASSUME HookInit PROVE HookInv
  OBVIOUS
<1>1. PICK text \in FirstTexts, exec \in BOOLEAN :
        hook = [text |-> text, exec |-> exec, own |-> FALSE]
  BY DEF HookInit
<1>2. text \in Seq(Tokens) /\ Lined(text)
  BY HookAssumption
<1> DEFINE e == <<>>
<1>3. e \in Seq(Tokens)
  OBVIOUS
<1>4. /\ directory \in Directories /\ temps = [i \in Installs |-> e]
      /\ installs = [i \in Installs |-> [at |-> "resolve", text |-> e, edited |-> FALSE]]
  BY DEF HookInit
<1> HIDE DEF e
<1>5. HookTypes
  BY <1>1, <1>2, <1>3, <1>4 DEF HookTypes, Places, Writing
<1>6. InstalledWhole
  BY <1>1 DEF InstalledWhole
<1>7. \A i \in Installs : InstallOK(i) /\ NotStale(i)
  BY <1>4 DEF InstallOK, NotStale, Writing, Ready
<1> QED
  BY <1>5, <1>6, <1>7 DEF HookInv

\* Something put into a text: a line break, or what has line breaks on both sides.
LEMMA InsertKeeps ==
  ASSUME NEW t \in Seq(Tokens), Lined(t), NEW n \in 1..(Len(t) + 1), NEW x \in Tokens,
         n > 1 => "nl" \in {t[n - 1], x}, n <= Len(t) => "nl" \in {x, t[n]}
  PROVE  /\ InsertAt(t, n, x) \in Seq(Tokens) /\ Lined(InsertAt(t, n, x))
         /\ Len(InsertAt(t, n, x)) = Len(t) + 1 /\ InsertAt(t, n, x)[n] = x
         /\ n > 1 => InsertAt(t, n, x)[n - 1] = t[n - 1]
<1> DEFINE a == SubSeq(t, 1, n - 1)
           o == <<x>>
           b == SubSeq(t, n, Len(t))
           ao == a \o o
           all == ao \o b
<1>1. /\ Len(t) \in Nat /\ 1 \in 1..(Len(t) + 1) /\ n - 1 \in (1 - 1)..Len(t) /\ n - 1 \in 0..Len(t)
      /\ Len(t) \in (n - 1)..Len(t) /\ {1, n, n - 1, Len(t)} \subseteq Int
  OBVIOUS
<1>2. /\ a \in Seq(Tokens) /\ Len(a) = n - 1 /\ (\A k \in 1..(n - 1) : a[k] = t[k]) /\ Lined(a)
  <2>1. Len(a) = n - 1 /\ \A k \in 1..(n - 1) : a[k] = t[k]
    BY <1>1, PartOf
  <2>2. a \in Seq(Tokens)
    BY <1>1, PartOf
  <2>3. Lined(a)
    BY <1>1, LinedPart
  <2> QED
    BY <2>1, <2>2, <2>3
<1>3. /\ b \in Seq(Tokens) /\ Len(b) = Len(t) - n + 1 /\ Lined(b)
      /\ \A k \in 1..(Len(t) - n + 1) : b[k] = t[n - 1 + k]
  <2>1. Len(b) = Len(t) - n + 1 /\ \A k \in 1..(Len(t) - n + 1) : b[k] = t[n - 1 + k]
    BY <1>1, PartOf
  <2>2. b \in Seq(Tokens)
    BY <1>1, PartOf
  <2>3. Lined(b)
    BY <1>1, LinedPart
  <2> QED
    BY <2>1, <2>2, <2>3
<1>4. o \in Seq(Tokens) /\ Len(o) = 1 /\ o[1] = x /\ o # <<>>
  OBVIOUS
<1>5. Lined(o)
  <2>1. DOMAIN o = 1..1
    OBVIOUS
  <2> QED
    BY <2>1 DEF Lined
<1>6. InsertAt(t, n, x) = all
  BY DEF InsertAt
<1> HIDE DEF a, b, o
<1>7. /\ ao \in Seq(Tokens) /\ Len(ao) = Len(a) + Len(o)
      /\ (\A k \in 1..Len(a) : ao[k] = a[k]) /\ \A k \in 1..Len(o) : ao[Len(a) + k] = o[k]
  <2>1. a \in Seq(Tokens) /\ o \in Seq(Tokens)
    BY <1>2, <1>4
  <2> QED
    BY <2>1, JoinedPlaces
<1>8. Lined(ao)
  <2>1. ASSUME a # <<>> PROVE "nl" \in {a[Len(a)], o[1]}
    <3>1. Len(a) # 0 /\ n - 1 \in 1..(n - 1) /\ n > 1
      BY <1>1, <1>2, <2>1
    <3>2. a[Len(a)] = t[n - 1]
      BY <1>2, <3>1
    <3> QED
      BY <1>4, <3>1, <3>2
  <2> QED
    BY <1>2, <1>4, <1>5, <2>1, LinedJoined
<1> HIDE DEF ao
<1>9. /\ all \in Seq(Tokens) /\ Len(all) = Len(ao) + Len(b)
      /\ (\A k \in 1..Len(ao) : all[k] = ao[k])
  <2>1. ao \in Seq(Tokens) /\ b \in Seq(Tokens)
    BY <1>3, <1>7
  <2> QED
    BY <2>1, JoinedPlaces
<1>10. /\ Len(ao) = n /\ ao[n] = x /\ (n > 1 => ao[n - 1] = t[n - 1])
  <2>1. Len(ao) = n
    BY <1>1, <1>2, <1>4, <1>7
  <2>2. 1 \in 1..Len(o) /\ Len(a) + 1 = n
    BY <1>1, <1>2, <1>4
  <2>3. n > 1 => n - 1 \in 1..Len(a) /\ n - 1 \in 1..(n - 1)
    BY <1>1, <1>2
  <2> QED
    BY <1>2, <1>4, <1>7, <2>1, <2>2, <2>3
<1>11. Lined(all)
  <2>1. ASSUME b # <<>> PROVE "nl" \in {ao[Len(ao)], b[1]}
    <3>1. Len(b) # 0 /\ 1 \in 1..(Len(t) - n + 1) /\ n <= Len(t) /\ n - 1 + 1 = n
      BY <1>1, <1>3, <2>1
    <3>2. b[1] = t[n]
      BY <1>3, <3>1
    <3> QED
      BY <1>10, <3>1, <3>2
  <2> QED
    BY <1>3, <1>7, <1>8, <2>1, LinedJoined
<1> HIDE DEF all
<1>12. Len(all) = Len(t) + 1 /\ all[n] = x /\ (n > 1 => all[n - 1] = t[n - 1])
  <2>1. n \in 1..Len(ao) /\ (n > 1 => n - 1 \in 1..Len(ao))
    BY <1>1, <1>10
  <2> QED
    BY <1>1, <1>3, <1>9, <1>10, <2>1
<1> QED
  BY <1>6, <1>9, <1>11, <1>12

\* Something taken out of a text: it begins the text or a line break is before it.
LEMMA RemoveAtKeeps ==
  ASSUME NEW t \in Seq(Tokens), Lined(t), NEW n \in 1..Len(t), n > 1 => t[n - 1] = "nl"
  PROVE  RemoveAt(t, n) \in Seq(Tokens) /\ Lined(RemoveAt(t, n))
<1> DEFINE a == SubSeq(t, 1, n - 1)
           b == SubSeq(t, n + 1, Len(t))
<1>1. /\ Len(t) \in Nat /\ 1 \in 1..(Len(t) + 1) /\ n - 1 \in (1 - 1)..Len(t) /\ n - 1 \in 0..Len(t)
      /\ n + 1 \in 1..(Len(t) + 1) /\ Len(t) \in ((n + 1) - 1)..Len(t)
      /\ {1, n, n - 1, n + 1, Len(t)} \subseteq Int
  OBVIOUS
<1>2. a \in Seq(Tokens) /\ Len(a) = n - 1 /\ (\A k \in 1..(n - 1) : a[k] = t[k]) /\ Lined(a)
  <2>1. Len(a) = n - 1 /\ \A k \in 1..(n - 1) : a[k] = t[k]
    BY <1>1, PartOf
  <2>2. a \in Seq(Tokens)
    BY <1>1, PartOf
  <2>3. Lined(a)
    BY <1>1, LinedPart
  <2> QED
    BY <2>1, <2>2, <2>3
<1>3. b \in Seq(Tokens) /\ Lined(b)
  <2>1. b \in Seq(Tokens)
    BY <1>1, PartOf
  <2>2. Lined(b)
    BY <1>1, LinedPart
  <2> QED
    BY <2>1, <2>2
<1>4. RemoveAt(t, n) = a \o b
  BY DEF RemoveAt
<1> HIDE DEF a, b
<1>5. ASSUME a # <<>> PROVE a[Len(a)] = "nl"
  <2>1. n > 1 /\ n - 1 \in 1..(n - 1)
    BY <1>1, <1>2, <1>5
  <2> QED
    BY <1>2, <2>1
<1>6. Lined(a \o b)
  BY <1>2, <1>3, <1>5, LinedJoined
<1>7. a \o b \in Seq(Tokens)
  BY <1>2, <1>3, JoinedPlaces
<1> QED
  BY <1>4, <1>6, <1>7

\* The user writing a hook of any text made of whole lines keeps the invariant.
LEMMA EditKeeps ==
  ASSUME HookInv, NEW text \in Seq(Tokens), Lined(text), NEW exec \in BOOLEAN, EditHook(text, exec)
  PROVE  HookInv'
<1>1. /\ HookTypes /\ \A i \in Installs : InstallOK(i)
      /\ hook' = [text |-> text, exec |-> exec, own |-> FALSE]
      /\ installs' = [i \in Installs |-> [installs[i] EXCEPT !.edited = TRUE]]
      /\ UNCHANGED <<directory, temps>>
  BY DEF HookInv, EditHook
<1>2. ASSUME NEW i \in Installs
      PROVE  /\ installs[i] \in [at : Places, text : Seq(Tokens), edited : BOOLEAN]
             /\ installs'[i] \in [at : Places, text : Seq(Tokens), edited : BOOLEAN]
             /\ installs'[i].at = installs[i].at /\ installs'[i].text = installs[i].text
             /\ installs'[i].edited
  BY <1>1 DEF HookTypes
<1>3. HookTypes'
  BY <1>1, <1>2 DEF HookTypes
<1>4. InstalledWhole'
  BY <1>1 DEF InstalledWhole
<1>5. ASSUME NEW i \in Installs PROVE (InstallOK(i) /\ NotStale(i))'
  BY <1>1, <1>2 DEF InstallOK, NotStale
<1> QED
  BY <1>3, <1>4, <1>5 DEF HookInv

\* Every edit the user makes keeps the invariant.
LEMMA UserKeepsHook == ASSUME HookInv, UserEdits PROVE HookInv'
<1>1. /\ hook.text \in Seq(Tokens) /\ Lined(hook.text) /\ hook.exec \in BOOLEAN
      /\ DOMAIN hook.text = 1..Len(hook.text) /\ Len(hook.text) \in Nat
      /\ "nl" \in Tokens /\ "a" \in Tokens
  BY DEF HookInv, HookTypes, Tokens
<1> DEFINE t == hook.text
<1>2. \A n \in 1..Len(t) : n > 1 => "nl" \in {t[n - 1], t[n]}
  BY <1>1 DEF Lined
<1>3. \A n : n \in Positions(t, "nl") <=> n \in 1..Len(t) /\ t[n] = "nl"
  BY <1>1 DEF Positions
<1>4. CASE \E n \in DOMAIN t :
             /\ t[n] = "nl" => n - 1 \in Positions(t, "nl") \cup {0}
             /\ EditHook(RemoveAt(t, n), hook.exec)
  <2>1. PICK n \in 1..Len(t) : /\ t[n] = "nl" => n - 1 \in Positions(t, "nl") \cup {0}
                               /\ EditHook(RemoveAt(t, n), hook.exec)
    BY <1>1, <1>4
  <2>2. n > 1 => t[n - 1] = "nl"
    BY <1>2, <1>3, <2>1
  <2>3. RemoveAt(t, n) \in Seq(Tokens) /\ Lined(RemoveAt(t, n))
    BY <1>1, <2>2, RemoveAtKeeps
  <2> QED
    BY <1>1, <2>1, <2>3, EditKeeps
<1>5. ASSUME NEW n \in 1..(Len(t) + 1), EditHook(InsertAt(t, n, "nl"), hook.exec)
      PROVE  HookInv'
  <2>1. InsertAt(t, n, "nl") \in Seq(Tokens) /\ Lined(InsertAt(t, n, "nl"))
    BY <1>1, InsertKeeps
  <2> QED
    BY <1>1, <1>5, <2>1, EditKeeps
<1>6. ASSUME NEW n \in 1..(Len(t) + 1), n - 1 \in Positions(t, "nl") \cup {0},
             EditHook(InsertAt(InsertAt(t, n, "nl"), n, "a"), hook.exec)
      PROVE  HookInv'
  <2> DEFINE u == InsertAt(t, n, "nl")
  <2>1. /\ u \in Seq(Tokens) /\ Lined(u) /\ Len(u) = Len(t) + 1 /\ u[n] = "nl"
        /\ n > 1 => u[n - 1] = t[n - 1]
    BY <1>1, InsertKeeps
  <2>2. n > 1 => t[n - 1] = "nl"
    BY <1>3, <1>6
  <2> HIDE DEF u
  <2>3. n \in 1..(Len(u) + 1)
    BY <1>1, <2>1
  <2>4. InsertAt(u, n, "a") \in Seq(Tokens) /\ Lined(InsertAt(u, n, "a"))
    BY <1>1, <2>1, <2>2, <2>3, InsertKeeps
  <2> QED
    BY <1>1, <1>6, <2>4, EditKeeps DEF u
<1>7. CASE EditHook(<<>>, FALSE)
  <2>1. <<>> \in Seq(Tokens) /\ Lined(<<>>) /\ FALSE \in BOOLEAN
    BY DEF Lined
  <2> QED
    BY <1>7, <2>1, EditKeeps
<1>8. CASE EditHook(t, FALSE)
  <2>1. FALSE \in BOOLEAN
    OBVIOUS
  <2> QED
    BY <1>1, <1>8, <2>1, EditKeeps
<1> QED
  BY <1>4, <1>5, <1>6, <1>7, <1>8 DEF UserEdits

\* A step of install i alone: the others, and the hook, are as before.
LEMMA AloneKeeps ==
  ASSUME HookInv, NEW i \in Installs, UNCHANGED <<directory, hook>>,
         NEW one \in [at : Places, text : Seq(Tokens), edited : BOOLEAN],
         installs' = [installs EXCEPT ![i] = one],
         NEW file \in Seq(Tokens), temps' = [temps EXCEPT ![i] = file],
         one.at \in Writing \cup {"read"} => directory \in Known,
         one.at \in Writing => Accepted(one.text),
         one.at \in Ready => file = Placed(one.text),
         one.at \in Writing /\ ~one.edited =>
           Accepted(hook.text) /\ Own(Placed(hook.text)) = Own(Placed(one.text))
  PROVE  HookInv'
<1>1. /\ HookTypes /\ InstalledWhole
      /\ directory' = directory /\ hook' = hook
      /\ \A j \in Installs : InstallOK(j) /\ NotStale(j)
  BY DEF HookInv
<1>2. /\ installs'[i] = one /\ temps'[i] = file
      /\ \A j \in Installs : j # i => installs'[j] = installs[j] /\ temps'[j] = temps[j]
  BY <1>1 DEF HookTypes
<1>3. HookTypes'
  BY <1>1 DEF HookTypes
<1>4. InstalledWhole'
  BY <1>1 DEF InstalledWhole
<1>5. ASSUME NEW j \in Installs PROVE InstallOK(j)' /\ NotStale(j)'
  <2>1. CASE j = i
    BY <1>1, <1>2, <2>1 DEF InstallOK, NotStale
  <2>2. CASE j # i
    BY <1>1, <1>2, <2>2 DEF InstallOK, NotStale
  <2> QED
    BY <2>1, <2>2
<1> QED
  BY <1>3, <1>4, <1>5 DEF HookInv

\* What has been placed is a hook that an install has put in place.
LEMMA PlacedTwice ==
  ASSUME NEW text, Accepted(text)
  PROVE  Accepted(Placed(text)) /\ Own(Placed(Placed(text))) = Own(Placed(text))
<1>1. /\ Accepted(Placed(text))
      /\ WithoutBlock(Placed(text)) # <<>> /\ WithoutBlock(Placed(text))[1] = "sh"
  BY PlacedFacts
<1> DEFINE p == Placed(text)
<1> HIDE DEF p
<1>2. Accepted(p) /\ WithoutBlock(p) # <<>> /\ WithoutBlock(p)[1] = "sh"
  BY <1>1 DEF p
<1>3. Own(Placed(p)) = Own(p)
  BY <1>2, PlacedFacts
<1> QED
  BY <1>2, <1>3 DEF p

\* The rename that replaces the hook keeps the invariant.
LEMMA RenameKeeps == ASSUME HookInv, NEW i \in Installs, RenameTemp(i) PROVE HookInv'
<1> DEFINE text == installs[i].text
<1>1. /\ HookTypes /\ \A j \in Installs : InstallOK(j) /\ NotStale(j)
      /\ installs[i].at = "rename"
      /\ installs' = [j \in Installs |->
           IF j = i THEN [installs[i] EXCEPT !.at = "installed"]
           ELSE [installs[j] EXCEPT !.edited = @ \/ installs[i].edited]]
      /\ hook' = [text |-> temps[i], exec |-> TRUE, own |-> TRUE]
      /\ temps' = [temps EXCEPT ![i] = <<>>]
      /\ UNCHANGED directory
  BY DEF HookInv, RenameTemp, Mode
<1>2. /\ temps[i] = Placed(text) /\ Accepted(text) /\ directory \in Known
      /\ ~installs[i].edited => Accepted(hook.text) /\ Own(Placed(hook.text)) = Own(Placed(text))
  BY <1>1 DEF InstallOK, NotStale, Writing, Ready
<1> DEFINE p == Placed(text)
<1>3. Accepted(p) /\ Own(Placed(p)) = Own(p) /\ p \in Seq(Tokens) /\ Lined(p)
  <2>1. Accepted(p) /\ Own(Placed(p)) = Own(p)
    BY <1>2, PlacedTwice
  <2> QED
    BY <2>1 DEF Accepted
<1>4. hook'.text = p /\ hook'.exec = TRUE /\ hook'.own = TRUE /\ directory' = directory
  BY <1>1, <1>2
<1> HIDE DEF p
<1>5. ASSUME NEW j \in Installs
      PROVE  /\ installs'[j] \in [at : Places, text : Seq(Tokens), edited : BOOLEAN]
             /\ installs'[j].text = installs[j].text
             /\ j = i => installs'[j].at = "installed"
             /\ j # i => /\ installs'[j].at = installs[j].at /\ temps'[j] = temps[j]
                         /\ installs'[j].edited = (installs[j].edited \/ installs[i].edited)
  <2>1. /\ installs[j] \in [at : Places, text : Seq(Tokens), edited : BOOLEAN]
        /\ installs[i] \in [at : Places, text : Seq(Tokens), edited : BOOLEAN]
        /\ temps \in [Installs -> Seq(Tokens)]
    BY <1>1 DEF HookTypes
  <2>2. CASE j = i
    <3>1. installs'[j] = [installs[i] EXCEPT !.at = "installed"]
      BY <1>1, <2>2
    <3> QED
      BY <2>1, <2>2, <3>1 DEF Places
  <2>3. CASE j # i
    <3>1. installs'[j] = [installs[j] EXCEPT !.edited = @ \/ installs[i].edited]
      BY <1>1, <2>3
    <3>2. temps'[j] = temps[j]
      BY <1>1, <2>1, <2>3
    <3> QED
      BY <2>1, <2>3, <3>1, <3>2
  <2> QED
    BY <2>2, <2>3
<1>6. HookTypes'
  <2>1. hook' \in [text : Seq(Tokens), exec : BOOLEAN, own : BOOLEAN] /\ Lined(hook'.text)
    <3>1. hook' = [text |-> p, exec |-> TRUE, own |-> TRUE]
      BY <1>1, <1>2 DEF p
    <3> QED
      BY <1>3, <1>4, <3>1
  <2>2. temps' \in [Installs -> Seq(Tokens)]
    <3> DEFINE e == <<>>
    <3>1. e \in Seq(Tokens) /\ temps' = [temps EXCEPT ![i] = e] /\ temps \in [Installs -> Seq(Tokens)]
      BY <1>1 DEF HookTypes
    <3> HIDE DEF e
    <3> QED
      BY <3>1
  <2>3. installs' \in [Installs -> [at : Places, text : Seq(Tokens), edited : BOOLEAN]]
    <3>1. DOMAIN installs' = Installs /\ installs' = [j \in Installs |-> installs'[j]]
      BY <1>1
    <3> QED
      BY <1>5, <3>1
  <2> QED
    BY <1>1, <2>1, <2>2, <2>3 DEF HookTypes
<1>7. InstalledWhole'
  <2>1. directory' \in Known /\ hook'.exec
    BY <1>2, <1>4
  <2>2. Accepted(text) /\ hook'.text = Placed(text)
    BY <1>2, <1>4 DEF p
  <2> QED
    BY <2>1, <2>2 DEF InstalledWhole
<1>8. ASSUME NEW j \in Installs PROVE InstallOK(j)'
  BY <1>1, <1>4, <1>5 DEF InstallOK, Writing, Ready
<1>9. ASSUME NEW j \in Installs PROVE NotStale(j)'
  <2> SUFFICES ASSUME installs'[j].at \in Writing, ~installs'[j].edited
               PROVE  Accepted(hook'.text) /\ Own(Placed(hook'.text)) = Own(Placed(installs'[j].text))
    BY DEF NotStale
  <2>1. j # i
    BY <1>5 DEF Writing
  <2>2. ~installs[j].edited /\ ~installs[i].edited /\ installs[j].at \in Writing
    BY <1>5, <2>1
  <2>3. Own(Placed(hook.text)) = Own(p)
    BY <1>2, <2>2 DEF p
  <2>4. Own(Placed(hook.text)) = Own(Placed(installs[j].text))
    BY <1>1, <2>2 DEF NotStale
  <2> QED
    BY <1>3, <1>4, <1>5, <2>3, <2>4
<1> QED
  BY <1>6, <1>7, <1>8, <1>9 DEF HookInv

\* Every step of an installation keeps the invariant.
LEMMA InstallKeeps == ASSUME HookInv, NEW i \in Installs, InstallStep(i) PROVE HookInv'
<1> DEFINE One == [at : Places, text : Seq(Tokens), edited : BOOLEAN]
           one == installs[i]
<1>1. /\ one \in One /\ temps[i] \in Seq(Tokens) /\ InstallOK(i) /\ NotStale(i)
      /\ hook.text \in Seq(Tokens) /\ Lined(hook.text)
      /\ installs \in [Installs -> One] /\ temps \in [Installs -> Seq(Tokens)]
  BY DEF HookInv, HookTypes
<1>2. temps = [temps EXCEPT ![i] = temps[i]]
  BY <1>1
\* A step that only moves on, to a step that asks no more of the install.
<1>3. ASSUME NEW from, NEW to \in Places, Step(i, from, to), UNCHANGED <<directory, hook>>,
             NEW file \in Seq(Tokens), temps' = [temps EXCEPT ![i] = file],
             to \in Writing \cup {"read"} => directory \in Known,
             to \in Writing => from \in Writing,
             to \in Ready => file = Placed(one.text)
      PROVE  HookInv'
  <2> DEFINE next == [one EXCEPT !.at = to]
  <2>1. next \in One /\ next.at = to /\ next.text = one.text /\ next.edited = one.edited
    BY <1>1
  <2>2. one.at = from /\ installs' = [installs EXCEPT ![i] = next]
    BY <1>1, <1>3 DEF Step
  <2> HIDE DEF next
  <2>3. /\ next.at \in Writing => Accepted(next.text)
        /\ next.at \in Writing /\ ~next.edited =>
             Accepted(hook.text) /\ Own(Placed(hook.text)) = Own(Placed(next.text))
    BY <1>1, <1>3, <2>1, <2>2 DEF InstallOK, NotStale
  <2> HIDE DEF one
  <2>4. /\ next.at \in Writing \cup {"read"} => directory \in Known
        /\ next.at \in Ready => file = Placed(next.text)
    BY <1>3, <2>1
  <2> QED
    BY <1>3, <2>1, <2>2, <2>3, <2>4, AloneKeeps
<1>4. CASE ResolveHooksDir(i)
  <2> DEFINE to == IF directory \in {"git", "husky"} THEN "read" ELSE "failed"
  <2>1. to \in Places /\ to \notin Writing /\ to \notin Ready /\ (to = "read" => directory \in Known)
    BY DEF Places, Writing, Ready, Known
  <2>2. Step(i, "resolve", to) /\ UNCHANGED <<directory, hook, temps>>
    BY <1>4 DEF ResolveHooksDir
  <2> HIDE DEF to
  <2> QED
    BY <1>1, <1>2, <1>3, <2>1, <2>2
<1>5. CASE ReadHook(i)
  <2>1. /\ one.at = "read" /\ UNCHANGED <<directory, hook, temps>>
        /\ installs' = [installs EXCEPT ![i] =
             IF NonShell(hook.text) \/ Corrupt(hook.text)
             THEN [@ EXCEPT !.at = "failed"]
             ELSE [at |-> "write", text |-> hook.text, edited |-> FALSE]]
    BY <1>5 DEF ReadHook
  <2>2. directory \in Known
    BY <1>1, <2>1 DEF InstallOK
  <2>3. CASE NonShell(hook.text) \/ Corrupt(hook.text)
    <3>1. installs' = [installs EXCEPT ![i] = [one EXCEPT !.at = "failed"]]
      BY <1>1, <2>1, <2>3
    <3>2. Step(i, "read", "failed")
      BY <1>1, <2>1, <3>1 DEF Step
    <3>3. "failed" \in Places /\ "failed" \notin Writing \cup Ready
      BY DEF Places, Writing, Ready
    <3> QED
      BY <1>1, <1>2, <1>3, <2>1, <3>2, <3>3
  <2>4. CASE ~(NonShell(hook.text) \/ Corrupt(hook.text))
    <3> DEFINE next == [at |-> "write", text |-> hook.text, edited |-> FALSE]
    <3>1. installs' = [installs EXCEPT ![i] = next]
      BY <1>1, <2>1, <2>4
    <3>2. next \in One /\ next.at = "write" /\ next.text = hook.text
      BY <1>1 DEF Places, Writing
    <3>3. Accepted(hook.text) /\ "write" \notin Ready
      BY <1>1, <2>4 DEF Accepted, Ready
    <3> DEFINE file == temps[i]
    <3>4. /\ next.at \in Writing \cup {"read"} => directory \in Known
          /\ next.at \in Writing => Accepted(next.text)
          /\ next.at \in Ready => file = Placed(next.text)
          /\ next.at \in Writing /\ ~next.edited =>
               Accepted(hook.text) /\ Own(Placed(hook.text)) = Own(Placed(next.text))
      BY <2>2, <3>2, <3>3
    <3>5. file \in Seq(Tokens) /\ temps' = [temps EXCEPT ![i] = file] /\ UNCHANGED <<directory, hook>>
      BY <1>1, <1>2, <2>1
    <3> HIDE DEF next, file, One
    <3>6. next \in [at : Places, text : Seq(Tokens), edited : BOOLEAN]
      BY <3>2 DEF One
    <3> QED
      BY <3>1, <3>4, <3>5, <3>6, AloneKeeps
  <2> QED
    BY <2>3, <2>4
<1>6. CASE WriteTemp(i)
  <2>1. UNCHANGED <<directory, hook>>
    BY <1>6 DEF WriteTemp
  <2>2. CASE Step(i, "write", "chmod") /\ temps' = [temps EXCEPT ![i] = Placed(one.text)]
    <3>1. Accepted(one.text) /\ directory \in Known
      BY <1>1, <2>2 DEF InstallOK, Step, Writing
    <3>2. Placed(one.text) \in Seq(Tokens)
      <4>1. Accepted(Placed(one.text))
        BY <3>1, PlacedFacts
      <4> QED
        BY <4>1 DEF Accepted
    <3>3. "chmod" \in Places /\ "write" \in Writing
      BY DEF Places, Writing
    <3> QED
      BY <1>3, <2>1, <2>2, <3>1, <3>2, <3>3
  <2>3. ASSUME Step(i, "write", "remove"), NEW n \in {0, 2},
               temps' = [temps EXCEPT ![i] = SubSeq(Placed(one.text), 1, n)]
        PROVE  HookInv'
    <3>1. Accepted(one.text)
      BY <1>1, <2>3 DEF InstallOK, Step, Writing
    <3> DEFINE p == Placed(one.text)
               file == SubSeq(p, 1, n)
    <3>2. p \in Seq(Tokens) /\ Cardinality(Positions(p, "start")) = 1
      <4>1. Accepted(p) /\ Cardinality(Positions(p, "start")) = 1
        BY <3>1, PlacedFacts
      <4> QED
        BY <4>1 DEF Accepted
    <3>3. IsPrefix(<<"sh", "nl">> \o Block, p)
      BY <3>1, PlacedFacts
    <3> HIDE DEF p
    <3>4. Len(p) \in Nat /\ Len(p) >= 2
      <4>1. Len(<<"sh", "nl">> \o Block) <= Len(p)
        BY <3>3 DEF IsPrefix
      <4>2. Len(<<"sh", "nl">> \o Block) = 7
        BY DEF Block
      <4> QED
        BY <3>2, <4>1, <4>2
    <3>5. file \in Seq(Tokens)
      <4>1. 1 \in 1..(Len(p) + 1) /\ n \in (1 - 1)..Len(p) /\ {1, n} \subseteq Int
        BY <3>4
      <4> QED
        BY <3>2, <4>1, PartOf
    <3> HIDE DEF file
    <3>6. "remove" \in Places /\ "remove" \notin Writing \cup Ready \cup {"read"}
      BY DEF Places, Writing, Ready
    <3>7. temps' = [temps EXCEPT ![i] = file]
      BY <2>3 DEF file, p
    <3> QED
      BY <1>3, <2>1, <2>3, <3>5, <3>6, <3>7
  <2> QED
    BY <1>6, <2>2, <2>3 DEF WriteTemp
<1>7. CASE Chmod(i)
  <2>1. Step(i, "chmod", "rename") /\ UNCHANGED <<directory, hook, temps>>
    BY <1>7 DEF Chmod
  <2>2. one.at = "chmod"
    BY <2>1 DEF Step
  <2>3. directory \in Known /\ temps[i] = Placed(one.text)
    BY <1>1, <2>2 DEF InstallOK, Writing, Ready
  <2>4. "rename" \in Places /\ "chmod" \in Writing
    BY DEF Places, Writing
  <2> QED
    BY <1>1, <1>2, <1>3, <2>1, <2>3, <2>4
<1>8. CASE RenameTemp(i)
  BY <1>8, RenameKeeps
<1>9. CASE AccessFails(i)
  <2>1. "failed" \in Places /\ "failed" \notin Writing \cup Ready \cup {"read"}
        /\ "remove" \in Places /\ "remove" \notin Writing \cup Ready \cup {"read"}
    BY DEF Places, Writing, Ready
  <2>2. UNCHANGED <<directory, hook, temps>>
    BY <1>9 DEF AccessFails
  <2>3. Step(i, one.at, "failed") \/ Step(i, one.at, "remove")
    BY <1>9 DEF AccessFails
  <2> HIDE DEF one
  <2> QED
    BY <1>1, <1>2, <1>3, <2>1, <2>2, <2>3
<1>10. CASE RemoveTemp(i)
  <2> DEFINE e == <<>>
  <2>1. e \in Seq(Tokens) /\ temps' = [temps EXCEPT ![i] = e] /\ UNCHANGED <<directory, hook>>
        /\ Step(i, "remove", "failed")
    BY <1>10 DEF RemoveTemp
  <2>2. "failed" \in Places /\ "failed" \notin Writing \cup Ready \cup {"read"}
    BY DEF Places, Writing, Ready
  <2> HIDE DEF e
  <2> QED
    BY <1>3, <2>1, <2>2
<1>11. CASE Dies(i)
  <2>1. Step(i, one.at, "dead") /\ UNCHANGED <<directory, hook, temps>>
    BY <1>11 DEF Dies
  <2>2. "dead" \in Places /\ "dead" \notin Writing \cup Ready \cup {"read"}
    BY DEF Places, Writing, Ready
  <2> HIDE DEF one
  <2> QED
    BY <1>1, <1>2, <1>3, <2>1, <2>2
<1> QED
  BY <1>4, <1>5, <1>6, <1>7, <1>8, <1>9, <1>10, <1>11 DEF InstallStep

\* The invariant of the hook holds in every reachable state.
LEMMA HookInvInductive == HookSpec => []HookInv
<1>1. HookInit => HookInv
  BY HookInvInit
<1>2. HookInv /\ [HookNext]_hookVars => HookInv'
  <2> SUFFICES ASSUME HookInv, [HookNext]_hookVars PROVE HookInv'
    OBVIOUS
  <2>1. CASE UserEdits
    BY <2>1, UserKeepsHook
  <2>2. ASSUME NEW i \in Installs, InstallStep(i) PROVE HookInv'
    BY <2>2, InstallKeeps
  <2>3. CASE UNCHANGED hookVars
    BY <2>3 DEF hookVars, HookInv, HookTypes, InstalledWhole, InstallOK, NotStale
  <2> QED
    BY <2>1, <2>2, <2>3 DEF HookNext
<1> QED
  BY <1>1, <1>2, PTL DEF HookSpec

\* A hook that an install put in place and nobody edited since runs the check
\* (installManagedHook, upsertManagedBlock): executable, a shell's shebang, the whole
\* block after it and only once, whatever installs crashed or overlapped before.
THEOREM InstalledHooksRun == HookSpec => []InstalledHookRuns
<1>1. HookInv => InstalledHookRuns
  <2> SUFFICES ASSUME HookInv, hook.own PROVE InstalledHookRuns
    BY DEF InstalledHookRuns
  <2>1. /\ directory \in Known /\ hook.exec
        /\ \E text : Accepted(text) /\ hook.text = Placed(text)
    BY DEF HookInv, InstalledWhole
  <2>2. IsPrefix(<<"sh", "nl">> \o Block, hook.text) /\ Cardinality(Positions(hook.text, "start")) = 1
    BY <2>1, PlacedFacts
  <2> QED
    BY <2>1, <2>2 DEF InstalledHookRuns, Known
<1> QED
  BY <1>1, HookInvInductive, PTL

\* An install that replaces the hook keeps every line the user had in it, in their
\* order (upsertManagedBlock, removeManagedBlock), unless the hook was edited between
\* its read and its rename.
THEOREM UserTextIsKept == HookSpec => UserTextKept
<1> DEFINE Kept ==
      \A i \in Installs :
        RenameTemp(i) /\ ~installs[i].edited =>
          LET before == Own(hook.text) IN
          Own(hook'.text) \in {before, <<"sh">> \o before}
<1>1. HookInv /\ [HookNext]_hookVars => [Kept]_hookVars
  <2> SUFFICES ASSUME HookInv, NEW i \in Installs, RenameTemp(i), ~installs[i].edited
               PROVE  Own(hook'.text) \in {Own(hook.text), <<"sh">> \o Own(hook.text)}
    OBVIOUS
  <2>1. /\ installs[i].at = "rename" /\ hook'.text = temps[i]
        /\ InstallOK(i) /\ NotStale(i)
    BY DEF HookInv, RenameTemp
  <2>2. /\ hook'.text = Placed(installs[i].text) /\ Accepted(hook.text)
        /\ Own(Placed(hook.text)) = Own(Placed(installs[i].text))
    BY <2>1 DEF InstallOK, NotStale, Writing, Ready
  <2>3. Own(Placed(hook.text)) \in {Own(hook.text), <<"sh">> \o Own(hook.text)}
    BY <2>2, PlacedFacts
  <2> QED
    BY <2>2, <2>3
<1>2. HookInv /\ [HookNext]_hookVars => [Kept]_hookVars
  BY <1>1
<1> QED
  BY <1>2, HookInvInductive, PTL DEF HookSpec, UserTextKept

-----------------------------------------------------------------------------
(* The dependency tree, for any lockfile that GraphAssumption admits.  The   *)
(* code resolves a name by walking up directories (WalksExist: it has a      *)
(* result at every depth; NearestFound: the nearest one) and builds a branch *)
(* by prolonging the branch of its parent, never through a package it holds  *)
(* already; so branches are injective, no longer than there are packages,    *)
(* and the SPDX relationships and CycloneDX edges, made from them, are those *)
(* Node would follow.                                                        *)

\* What the n-th node_modules directory above a package has of a name.
CandidateAt(from, name, n) == Candidate(Append(SubSeq(from, 1, n), name))

\* The equations of the recursive function in InstalledPath.
Walks(g, from, name) ==
  g = [n \in 0..Len(from) |->
         LET candidate == Candidate(Append(SubSeq(from, 1, n), name)) IN
         IF candidate # Nowhere \/ n = 0 THEN candidate ELSE g[n - 1]]

WalksTo(g, from, name, m) ==
  \A n \in 0..m :
    g[n] = IF CandidateAt(from, name, n) # Nowhere \/ n = 0 THEN CandidateAt(from, name, n) ELSE g[n - 1]

\* The recursion has a solution.
LEMMA WalksExist == \A from, name : Len(from) \in Nat => \E g : Walks(g, from, name)
<1> SUFFICES ASSUME NEW from, NEW name, Len(from) \in Nat PROVE \E g : Walks(g, from, name)
  OBVIOUS
<1> DEFINE Upto == {m \in Nat : \E g : WalksTo(g, from, name, m)}
           at(n) == CandidateAt(from, name, n)
<1>1. 0 \in Upto
  <2> DEFINE g == [n \in 0..0 |-> at(0)]
  <2>1. g[0] = at(0)
    OBVIOUS
  <2> HIDE DEF g
  <2>2. WalksTo(g, from, name, 0)
    BY <2>1 DEF WalksTo
  <2> QED
    BY <2>2
<1>2. ASSUME NEW m \in Nat, m \in Upto PROVE m + 1 \in Upto
  <2>1. PICK g : WalksTo(g, from, name, m)
    BY <1>2
  <2> DEFINE last == IF at(m + 1) # Nowhere THEN at(m + 1) ELSE g[m]
             h == [n \in 0..(m + 1) |-> IF n = m + 1 THEN last ELSE g[n]]
  <2> HIDE DEF last
  <2>2. h[m + 1] = last /\ \A n \in 0..m : h[n] = g[n]
    OBVIOUS
  <2> HIDE DEF h
  <2>3. ASSUME NEW n \in 0..(m + 1)
        PROVE  h[n] = IF at(n) # Nowhere \/ n = 0 THEN at(n) ELSE h[n - 1]
    <3>1. CASE n = m + 1
      <4>1. n # 0 /\ n - 1 = m /\ h[m] = g[m]
        BY <2>2, <3>1
      <4> QED
        BY <2>2, <3>1, <4>1 DEF last
    <3>2. CASE n # m + 1
      <4>1. n \in 0..m /\ (n # 0 => n - 1 \in 0..m)
        BY <3>2
      <4>2. h[n] = g[n] /\ (n # 0 => h[n - 1] = g[n - 1])
        BY <2>2, <4>1
      <4> QED
        BY <2>1, <4>1, <4>2 DEF WalksTo
    <3> QED
      BY <3>1, <3>2
  <2>4. WalksTo(h, from, name, m + 1)
    BY <2>3 DEF WalksTo
  <2> QED
    BY <2>4
<1>3. Nat \subseteq Upto
  <2> HIDE DEF Upto
  <2> QED
    BY <1>1, <1>2, SetInduction
<1>4. PICK g : WalksTo(g, from, name, Len(from))
  BY <1>3
<1> DEFINE h == [n \in 0..Len(from) |-> g[n]]
<1>5. ASSUME NEW n \in 0..Len(from)
      PROVE  h[n] = IF at(n) # Nowhere \/ n = 0 THEN at(n) ELSE h[n - 1]
  <2>1. n # 0 => n - 1 \in 0..Len(from)
    OBVIOUS
  <2>2. h[n] = g[n] /\ (n # 0 => h[n - 1] = g[n - 1])
    BY <2>1
  <2> QED
    BY <1>4, <2>2 DEF WalksTo
<1>6. Walks(h, from, name)
  BY <1>5 DEF Walks, CandidateAt
<1> QED
  BY <1>6

\* The walk ends at the nearest directory that has the name.
LEMMA NearestFound ==
  ASSUME NEW from, NEW name, Len(from) \in Nat
  PROVE  /\ (\A n \in 0..Len(from) : CandidateAt(from, name, n) = Nowhere)
              => InstalledPath(from, name) = Nowhere
         /\ \A n \in 0..Len(from) :
              /\ CandidateAt(from, name, n) # Nowhere
              /\ \A m \in (n + 1)..Len(from) : CandidateAt(from, name, m) = Nowhere
              => InstalledPath(from, name) = CandidateAt(from, name, n)
<1> DEFINE g == CHOOSE g : Walks(g, from, name)
           at(n) == CandidateAt(from, name, n)
<1>1. InstalledPath(from, name) = g[Len(from)]
  BY DEF InstalledPath, Walks
<1>2. Walks(g, from, name)
  BY WalksExist
<1> HIDE DEF g
<1>3. ASSUME NEW n \in 0..Len(from)
      PROVE  g[n] = IF at(n) # Nowhere \/ n = 0 THEN at(n) ELSE g[n - 1]
  BY <1>2 DEF Walks, CandidateAt
<1> HIDE DEF at
<1> DEFINE Good == {n \in Nat : n <= Len(from) =>
                      /\ (\A k \in 0..n : at(k) = Nowhere) => g[n] = Nowhere
                      /\ \A k \in 0..n : at(k) # Nowhere /\ (\A m \in (k + 1)..n : at(m) = Nowhere)
                                           => g[n] = at(k)}
<1>4. 0 \in Good
  <2>1. g[0] = at(0) /\ 0 \in 0..0 /\ \A k \in 0..0 : k = 0
    BY <1>3
  <2> QED
    BY <2>1
<1>5. ASSUME NEW n \in Nat, n \in Good PROVE n + 1 \in Good
  <2> SUFFICES ASSUME n + 1 <= Len(from)
               PROVE  /\ (\A k \in 0..(n + 1) : at(k) = Nowhere) => g[n + 1] = Nowhere
                      /\ \A k \in 0..(n + 1) :
                           at(k) # Nowhere /\ (\A m \in (k + 1)..(n + 1) : at(m) = Nowhere)
                             => g[n + 1] = at(k)
    OBVIOUS
  <2>1. n + 1 \in 0..Len(from) /\ n + 1 # 0 /\ (n + 1) - 1 = n /\ n <= Len(from)
    OBVIOUS
  <2>2. g[n + 1] = IF at(n + 1) # Nowhere THEN at(n + 1) ELSE g[n]
    BY <1>3, <2>1
  <2>3. /\ (\A k \in 0..n : at(k) = Nowhere) => g[n] = Nowhere
        /\ \A k \in 0..n : at(k) # Nowhere /\ (\A m \in (k + 1)..n : at(m) = Nowhere) => g[n] = at(k)
    BY <1>5, <2>1
  <2>4. ASSUME \A k \in 0..(n + 1) : at(k) = Nowhere PROVE g[n + 1] = Nowhere
    <3>1. at(n + 1) = Nowhere /\ \A k \in 0..n : at(k) = Nowhere
      BY <2>1, <2>4
    <3> QED
      BY <2>2, <2>3, <3>1
  <2>5. ASSUME NEW k \in 0..(n + 1), at(k) # Nowhere, \A m \in (k + 1)..(n + 1) : at(m) = Nowhere
        PROVE  g[n + 1] = at(k)
    <3>1. CASE k = n + 1
      BY <2>2, <2>5, <3>1
    <3>2. CASE k # n + 1
      <4>1. k \in 0..n /\ n + 1 \in (k + 1)..(n + 1) /\ \A m \in (k + 1)..n : m \in (k + 1)..(n + 1)
        BY <3>2
      <4>2. at(n + 1) = Nowhere
        BY <2>5, <4>1
      <4> QED
        BY <2>2, <2>3, <2>5, <4>1, <4>2
    <3> QED
      BY <3>1, <3>2
  <2> QED
    BY <2>4, <2>5
<1>6. Nat \subseteq Good
  <2> HIDE DEF Good
  <2> QED
    BY <1>4, <1>5, SetInduction
<1>7. Len(from) \in Good
  BY <1>6
<1> QED
  BY <1>1, <1>7 DEF at

\* What a name can be found as from a path, by its place on the way up.
LEMMA VisibleFrom ==
  ASSUME lockfile \in Lockfiles, NEW from \in Seq(Names), NEW name \in Names,
         \A workspace \in Workspaces : Last(workspace) # name
  PROVE  /\ \A n \in 0..Len(from) :
              CandidateAt(from, name, n) # Nowhere =>
                /\ Append(SubSeq(from, 1, n), name) \in Visible(from, name)
                /\ Len(Append(SubSeq(from, 1, n), name)) = n + 1
         /\ \A path \in Visible(from, name) : \E n \in 0..Len(from) :
              /\ path = Append(SubSeq(from, 1, n), name) /\ Len(path) = n + 1
              /\ CandidateAt(from, name, n) # Nowhere
<1>1. ASSUME NEW n \in 0..Len(from), CandidateAt(from, name, n) # Nowhere
      PROVE  /\ Append(SubSeq(from, 1, n), name) \in Visible(from, name)
             /\ Len(Append(SubSeq(from, 1, n), name)) = n + 1
  <2> DEFINE upto == SubSeq(from, 1, n)
             path == Append(upto, name)
  <2>1. /\ upto \in Seq(Names) /\ Len(upto) = n /\ (\A k \in 1..n : upto[k] = from[k])
    <3>1. n \in Int /\ 1 \in 1..(Len(from) + 1) /\ n \in (1 - 1)..Len(from) /\ 1 \in Int
      OBVIOUS
    <3>2. upto \in Seq(Names)
      BY <3>1, PartOf
    <3>3. Len(upto) = n /\ \A k \in 1..n : upto[k] = from[k]
      BY <3>1, PartOf
    <3> QED
      BY <3>2, <3>3
  <2>2. path \in DOMAIN lockfile
    BY <1>1 DEF CandidateAt, Candidate, Versioned
  <2> HIDE DEF upto
  <2>3. /\ path \in Seq(Names) /\ Len(path) = n + 1 /\ path # <<>> /\ path[n + 1] = name
        /\ \A k \in 1..n : path[k] = upto[k]
    BY <2>1
  <2>4. Last(path) = name
    BY <2>3 DEF Last
  <2>5. path \notin Workspaces
    BY <2>4
  <2>6. Front(path) = upto
    <3> HIDE DEF path
    <3>1. Front(path) \in Seq(Names) /\ Len(Front(path)) = n /\ \A k \in 1..n : Front(path)[k] = path[k]
      <4>1. n \in 0..Len(path) /\ n \in Int /\ 1 \in Int /\ 1 \in 1..(Len(path) + 1) /\ n \in (1 - 1)..Len(path)
        BY <2>3
      <4>2. Front(path) = SubSeq(path, 1, n)
        BY <2>3 DEF Front
      <4>3. SubSeq(path, 1, n) \in Seq(Names)
        BY <2>3, <4>1, PartOf
      <4>4. Len(SubSeq(path, 1, n)) = n /\ \A k \in 1..n : SubSeq(path, 1, n)[k] = path[k]
        BY <2>3, <4>1, PartOf
      <4> QED
        BY <4>2, <4>3, <4>4
    <3>2. \A k \in 1..Len(Front(path)) : Front(path)[k] = upto[k]
      BY <2>3, <3>1
    <3> QED
      BY <2>1, <3>1, <3>2, SeqEqual
  <2>7. IsPrefix(upto, from)
    <3>1. SubSeq(upto, 1, Len(upto)) = upto
      BY <2>1
    <3>2. Len(upto) <= Len(from) /\ SubSeq(from, 1, Len(upto)) = upto
      BY <2>1 DEF upto
    <3> QED
      BY <3>1, <3>2 DEF IsPrefix
  <2>8. Candidate(path) # Nowhere
    BY <1>1 DEF CandidateAt, upto
  <2> HIDE DEF path
  <2>9. path \in Visible(from, name)
    BY <2>2, <2>3, <2>4, <2>5, <2>6, <2>7, <2>8 DEF Visible
  <2> QED
    BY <2>3, <2>9 DEF path, upto
<1>2. ASSUME NEW path \in Visible(from, name)
      PROVE  \E n \in 0..Len(from) :
               /\ path = Append(SubSeq(from, 1, n), name) /\ Len(path) = n + 1
               /\ CandidateAt(from, name, n) # Nowhere
  <2>1. /\ path \in DOMAIN lockfile /\ path # <<>> /\ Last(path) = name
        /\ IsPrefix(Front(path), from) /\ Candidate(path) # Nowhere
    BY DEF Visible
  <2>2. path \in Seq(Names) /\ Len(path) \in Nat /\ Len(path) # 0
    BY <2>1, GraphAssumption
  <2> DEFINE n == Len(path) - 1
             front == Front(path)
  <2>3. front \in Seq(Names) /\ Len(front) = n /\ n \in Nat /\ \A k \in 1..n : front[k] = path[k]
    <3>1. n \in 0..Len(path) /\ n \in Int /\ 1 \in Int /\ 1 \in 1..(Len(path) + 1) /\ n \in (1 - 1)..Len(path)
      BY <2>2
    <3>2. front = SubSeq(path, 1, n)
      BY DEF Front
    <3> HIDE DEF n, front
    <3>3. SubSeq(path, 1, n) \in Seq(Names)
      BY <2>2, <3>1, PartOf
    <3>4. Len(SubSeq(path, 1, n)) = n /\ \A k \in 1..n : SubSeq(path, 1, n)[k] = path[k]
      BY <2>2, <3>1, PartOf
    <3> QED
      BY <3>1, <3>2, <3>3, <3>4
  <2> HIDE DEF front
  <2>4. n <= Len(from) /\ front = SubSeq(from, 1, n)
    <3>1. Len(front) <= Len(from) /\ SubSeq(front, 1, Len(front)) = SubSeq(from, 1, Len(front))
      BY <2>1 DEF IsPrefix, front
    <3>2. SubSeq(front, 1, Len(front)) = front
      BY <2>3
    <3> QED
      BY <2>3, <3>1, <3>2
  <2>5. path[Len(path)] = name
    BY <2>1 DEF Last
  <2> DEFINE again == Append(front, name)
  <2>6. again \in Seq(Names) /\ Len(again) = n + 1 /\ again[n + 1] = name /\ \A k \in 1..n : again[k] = front[k]
    BY <2>3
  <2> HIDE DEF again
  <2>7. path = again
    <3>1. Len(path) = n + 1
      BY <2>2
    <3>2. ASSUME NEW k \in 1..Len(path) PROVE path[k] = again[k]
      <4>1. k = n + 1 \/ k \in 1..n
        BY <2>2
      <4> QED
        BY <2>3, <2>5, <2>6, <3>1, <4>1
    <3> QED
      BY <2>2, <2>6, <3>1, <3>2, SeqEqual
  <2>8. path = Append(SubSeq(from, 1, n), name)
    BY <2>4, <2>7 DEF again
  <2>9. CandidateAt(from, name, n) # Nowhere
    BY <2>1, <2>8 DEF CandidateAt
  <2>10. n \in 0..Len(from) /\ Len(path) = n + 1
    BY <2>2, <2>3, <2>4
  <2> QED
    BY <2>8, <2>9, <2>10
<1> QED
  BY <1>1, <1>2

\* The walk finds what Node finds, or nothing when there is nothing to find.
LEMMA NodeFinds ==
  ASSUME lockfile \in Lockfiles, NEW from \in Seq(Names), NEW name \in Names,
         \A workspace \in Workspaces : Last(workspace) # name
  PROVE  IF Visible(from, name) = {} THEN InstalledPath(from, name) = Nowhere
         ELSE /\ InstalledPath(from, name) = Found(from, name)
              /\ Found(from, name) \in DOMAIN lockfile /\ Found(from, name) # <<>>
              /\ lockfile[Found(from, name)].version
<1> DEFINE at(n) == CandidateAt(from, name, n)
           levels == {n \in 0..Len(from) : at(n) # Nowhere}
<1>1. Len(from) \in Nat
  OBVIOUS
<1>2. CASE levels = {}
  <2>1. \A n \in 0..Len(from) : at(n) = Nowhere
    BY <1>2
  <2>2. Visible(from, name) = {}
    BY <2>1, VisibleFrom
  <2>3. InstalledPath(from, name) = Nowhere
    BY <1>1, <2>1, NearestFound
  <2> QED
    BY <2>2, <2>3
<1>3. CASE levels # {}
  <2> DEFINE top == Max(levels)
             path == Append(SubSeq(from, 1, top), name)
  <2>1. top \in levels /\ \A n \in levels : n <= top
    <3>1. levels \in SUBSET Nat /\ \A n \in levels : n <= Len(from)
      BY <1>1
    <3> HIDE DEF levels
    <3> QED
      BY <1>1, <1>3, <3>1, MaxExists
  <2> HIDE DEF top
  <2>2. top \in 0..Len(from) /\ at(top) # Nowhere /\ \A n \in (top + 1)..Len(from) : at(n) = Nowhere
    <3>1. ASSUME NEW n \in (top + 1)..Len(from) PROVE at(n) = Nowhere
      <4>1. n \in 0..Len(from) /\ ~(n <= top)
        BY <1>1, <2>1
      <4> QED
        BY <2>1, <4>1
    <3> QED
      BY <2>1, <3>1
  <2>3. InstalledPath(from, name) = at(top)
    BY <1>1, <2>2, NearestFound
  <2>4. path \in Visible(from, name) /\ Len(path) = top + 1
    BY <2>2, VisibleFrom
  <2>5. ASSUME NEW other \in Visible(from, name)
        PROVE  Len(other) <= Len(path) /\ (Len(path) <= Len(other) => other = path)
    <3>1. PICK n \in 0..Len(from) : other = Append(SubSeq(from, 1, n), name) /\ Len(other) = n + 1
                                    /\ at(n) # Nowhere
      BY VisibleFrom
    <3>2. n <= top
      BY <2>1, <3>1
    <3>3. top + 1 <= n + 1 => n = top
      BY <2>2, <3>2
    <3> QED
      BY <2>2, <2>4, <3>1, <3>2, <3>3
  <2> DEFINE longest == CHOOSE p \in Visible(from, name) :
                          \A other \in Visible(from, name) : Len(other) <= Len(p)
  <2> HIDE DEF path
  <2>6. longest = path
    <3>1. longest \in Visible(from, name) /\ \A other \in Visible(from, name) : Len(other) <= Len(longest)
      BY <2>4, <2>5
    <3> HIDE DEF longest
    <3> QED
      BY <2>4, <2>5, <3>1
  <2>7. Found(from, name) = at(top)
    BY <2>6 DEF Found, CandidateAt, path
  <2>8. at(top) = Candidate(path)
    BY DEF CandidateAt, path
  <2>9. at(top) \in DOMAIN lockfile /\ lockfile[at(top)].version /\ at(top) # <<>>
    <3>1. CASE Versioned(path)
      <4>1. path # <<>>
        BY <2>4 DEF Visible
      <4> QED
        BY <2>8, <3>1, <4>1 DEF Candidate, Versioned
    <3>2. CASE ~Versioned(path)
      <4>1. path \in DOMAIN lockfile /\ Versioned(lockfile[path].target) /\ at(top) = lockfile[path].target
        BY <2>2, <2>8, <3>2 DEF Candidate
      <4> QED
        BY <4>1, GraphAssumption DEF Versioned
    <3> QED
      BY <3>1, <3>2
  <2> QED
    BY <2>3, <2>4, <2>7, <2>9
<1> QED
  BY <1>2, <1>3

-----------------------------------------------------------------------------
(* What is derived from a lockfile *)

GraphInv ==
  /\ lockfile # <<>> => lockfile \in Lockfiles
  /\ documented =>
       /\ lockfile # <<>>
       /\ graph = [packages |-> Packages, edges |-> Edges, direct |-> RootTargets(Edges)]
       /\ tree = Tree(Edges) /\ bom = Bom(graph)

\* The invariant of the dependency graph holds in every reachable state.
LEMMA GraphInvInductive == GraphSpec => []GraphInv
<1>1. GraphInit => GraphInv
  BY DEF GraphInit, GraphInv
<1>2. GraphInv /\ [GraphNext]_graphVars => GraphInv'
  <2> SUFFICES ASSUME GraphInv, [GraphNext]_graphVars PROVE GraphInv'
    OBVIOUS
  <2>1. CASE NpmInstalls
    <3>1. lockfile = <<>> /\ lockfile' \in Lockfiles /\ documented' = documented
      BY <2>1 DEF NpmInstalls
    <3>2. ~documented
      BY <3>1 DEF GraphInv
    <3> QED
      BY <3>1, <3>2 DEF GraphInv
  <2>2. CASE DeriveAll
    <3>1. /\ lockfile # <<>> /\ lockfile' = lockfile
          /\ graph' = [packages |-> Packages, edges |-> Edges, direct |-> RootTargets(Edges)]
          /\ tree' = Tree(graph'.edges) /\ bom' = Bom(graph')
      BY <2>2 DEF DeriveAll, ReadGraph
    <3>2. graph'.edges = Edges /\ lockfile' = lockfile
      BY <3>1
    <3>3. lockfile' = lockfile => Edges' = Edges /\ Packages' = Packages
      BY DEF Edges, Packages, EdgesFrom, Requirements, Identified, InstalledPath, Candidate, Versioned
    <3> QED
      BY <3>1, <3>2, <3>3 DEF GraphInv
  <2>3. CASE UNCHANGED graphVars
    <3>1. /\ lockfile' = lockfile /\ graph' = graph /\ tree' = tree /\ bom' = bom
          /\ documented' = documented
      BY <2>3 DEF graphVars
    <3>2. lockfile' = lockfile
      BY <3>1
    <3>3. Edges' = Edges /\ Packages' = Packages
      BY <3>2 DEF Edges, Packages, EdgesFrom, Requirements, Identified, InstalledPath, Candidate, Versioned
    <3> QED
      BY <3>1, <3>3 DEF GraphInv
  <2> QED
    BY <2>1, <2>2, <2>3 DEF GraphNext
<1> QED
  BY <1>1, <1>2, PTL DEF GraphSpec

\* The edges of a lockfile: where each comes from, and what it is for.
LEMMA EdgeIs ==
  ASSUME lockfile \in Lockfiles
  PROVE  /\ \A from \in Packages \cup {<<>>} :
              /\ from \in DOMAIN lockfile /\ from \in Seq(Names)
              /\ \A need \in Requirements(from) :
                   Identified(InstalledPath(from, need[1])) =>
                     [from |-> from, to |-> InstalledPath(from, need[1]), section |-> need[2]] \in Edges
         /\ \A edge \in Edges :
              /\ edge.from \in Packages \cup {<<>>}
              /\ edge.to \in Packages
              /\ \E need \in Requirements(edge.from) :
                   /\ edge.to = InstalledPath(edge.from, need[1])
                   /\ edge = [from |-> edge.from, to |-> edge.to, section |-> need[2]]
<1>1. ASSUME NEW from \in Packages \cup {<<>>} PROVE from \in DOMAIN lockfile /\ from \in Seq(Names)
  BY GraphAssumption DEF Packages
<1>2. ASSUME NEW from \in Packages \cup {<<>>}, NEW need \in Requirements(from),
             Identified(InstalledPath(from, need[1]))
      PROVE  [from |-> from, to |-> InstalledPath(from, need[1]), section |-> need[2]] \in Edges
  BY <1>2 DEF Edges, EdgesFrom
<1>3. ASSUME NEW edge \in Edges
      PROVE  /\ edge.from \in Packages \cup {<<>>}
             /\ edge.to \in Packages
             /\ \E need \in Requirements(edge.from) :
                  /\ edge.to = InstalledPath(edge.from, need[1])
                  /\ edge = [from |-> edge.from, to |-> edge.to, section |-> need[2]]
  <2>1. PICK from \in Packages \cup {<<>>} : edge \in EdgesFrom(from)
    BY DEF Edges
  <2>2. PICK need \in Requirements(from) :
          /\ Identified(InstalledPath(from, need[1]))
          /\ edge = [from |-> from, to |-> InstalledPath(from, need[1]), section |-> need[2]]
    BY <2>1 DEF EdgesFrom
  <2>3. InstalledPath(from, need[1]) \in Packages
    BY <2>2 DEF Packages, Identified, Versioned
  <2> QED
    BY <2>2, <2>3
<1> QED
  BY <1>1, <1>2, <1>3

\* What a path needs is a name that no workspace's directory has.
LEMMA NeedIs ==
  ASSUME lockfile \in Lockfiles, NEW from \in DOMAIN lockfile
  PROVE  /\ \A name \in Needed(from) : \E need \in Requirements(from) : need[1] = name
         /\ \A need \in Requirements(from) : need[1] \in Needed(from)
         /\ \A name \in Needed(from) :
              name \in Names /\ \A workspace \in Workspaces : Last(workspace) # name
<1>1. \A name \in lockfile[from].requires \cup lockfile[from].develops :
        name \in Names /\ \A workspace \in Workspaces : Last(workspace) # name
  BY GraphAssumption
<1>2. ASSUME NEW name \in Needed(from)
      PROVE  \E need \in Requirements(from) : need[1] = name
  <2>1. CASE name \in lockfile[from].requires
    <3>1. <<name, "dependency">> \in Requirements(from) /\ <<name, "dependency">>[1] = name
      BY <2>1 DEF Requirements
    <3> QED
      BY <3>1
  <2>2. CASE from = <<>> /\ name \in lockfile[from].develops
    <3>1. <<name, "devDependency">> \in Requirements(from) /\ <<name, "devDependency">>[1] = name
      BY <2>2 DEF Requirements
    <3> QED
      BY <3>1
  <2> QED
    BY <1>2, <2>1, <2>2 DEF Needed
<1>3. \A need \in Requirements(from) : need[1] \in Needed(from)
  BY DEF Requirements, Needed
<1> QED
  BY <1>1, <1>2, <1>3 DEF Needed

\* The edges are Node's, in any lockfile.
THEOREM EdgesFollowNode == GraphSpec => []EdgesAreNodes
<1>1. GraphInv => EdgesAreNodes
  <2> SUFFICES ASSUME GraphInv, documented PROVE EdgesAreNodes
    BY DEF EdgesAreNodes
  <2>1. /\ lockfile \in Lockfiles /\ graph.packages = Packages /\ graph.edges = Edges
        /\ graph.direct = RootTargets(Edges)
    BY DEF GraphInv
  <2>2. ASSUME NEW from \in Packages \cup {<<>>}, NEW name \in Needed(from),
               Visible(from, name) # {},
               Found(from, name) \in Workspaces => lockfile[Found(from, name)].named
        PROVE  \E edge \in Edges : edge.from = from /\ edge.to = Found(from, name)
    <3>1. from \in DOMAIN lockfile /\ from \in Seq(Names)
      BY <2>1, EdgeIs
    <3>2. name \in Names /\ \A workspace \in Workspaces : Last(workspace) # name
      BY <2>1, <2>2, <3>1, NeedIs
    <3>n. PICK need \in Requirements(from) : need[1] = name
      BY <2>1, <2>2, <3>1, NeedIs
    <3> DEFINE nearest == Found(from, name)
    <3>3. /\ InstalledPath(from, name) = nearest /\ nearest \in DOMAIN lockfile /\ nearest # <<>>
          /\ lockfile[nearest].version
      BY <2>1, <2>2, <3>1, <3>2, NodeFinds
    <3> HIDE DEF nearest
    <3>4. Identified(nearest)
      BY <2>2, <3>3 DEF Identified, Versioned, nearest
    <3> DEFINE edge == [from |-> from, to |-> nearest, section |-> need[2]]
    <3>6. edge \in Edges
      BY <2>1, <3>n, <3>3, <3>4, EdgeIs
    <3>7. edge.from = from /\ edge.to = nearest
      OBVIOUS
    <3> HIDE DEF edge
    <3> QED
      BY <3>6, <3>7 DEF nearest
  <2>3. ASSUME NEW edge \in Edges
        PROVE  \E name \in Needed(edge.from) :
                 Visible(edge.from, name) # {} /\ edge.to = Found(edge.from, name)
    <3> DEFINE from == edge.from
    <3>1. PICK need \in Requirements(from) : edge.to = InstalledPath(from, need[1])
      BY <2>1, EdgeIs
    <3>2. from \in Packages \cup {<<>>} /\ edge.to \in Packages
      BY <2>1, EdgeIs
    <3>3. from \in DOMAIN lockfile /\ from \in Seq(Names)
      BY <2>1, <3>2, EdgeIs
    <3> DEFINE name == need[1]
    <3>4. /\ name \in Needed(from) /\ name \in Names
          /\ \A workspace \in Workspaces : Last(workspace) # name
      BY <2>1, <3>3, NeedIs
    <3> HIDE DEF name, from
    <3>5. edge.to # Nowhere
      BY <2>1, <3>2, GraphAssumption DEF Packages
    <3>6. IF Visible(from, name) = {} THEN InstalledPath(from, name) = Nowhere
          ELSE InstalledPath(from, name) = Found(from, name)
      BY <2>1, <3>3, <3>4, NodeFinds
    <3>7. edge.to = InstalledPath(from, name)
      BY <3>1 DEF name
    <3> QED
      BY <3>4, <3>5, <3>6, <3>7 DEF from
  <2>4. RootTargets(Edges) =
          {path \in Packages : \E edge \in Edges : edge.from = <<>> /\ edge.to = path}
    BY <2>1, EdgeIs DEF RootTargets
  <2> QED
    BY <2>1, <2>2, <2>3, <2>4 DEF EdgesAreNodes
<1> QED
  BY <1>1, GraphInvInductive, PTL

-----------------------------------------------------------------------------
(* The branches of the tree *)

\* Paths that an edge leads to.
Targets(edges) == {edge.to : edge \in edges}
Longest(edges) == Cardinality(Targets(edges)) + 1

\* The equations of the recursive function in Branches.
Grows(g, edges) ==
  g = [n \in 1..Longest(edges) |->
         IF n = 1 THEN {<<path>> : path \in Children(edges, <<>>)}
         ELSE Longer(edges, g[n - 1])]

GrowsTo(g, edges, m) ==
  \A n \in 1..m : g[n] = IF n = 1 THEN {<<path>> : path \in Children(edges, <<>>)}
                         ELSE Longer(edges, g[n - 1])

\* The branches by their lengths.
LEMMA BranchesByLength ==
  ASSUME NEW edges, IsFiniteSet(Targets(edges))
  PROVE  \E g : /\ GrowsTo(g, edges, Longest(edges))
                /\ Branches(edges) = UNION {g[n] : n \in 1..Longest(edges)}
<1> DEFINE first == {<<path>> : path \in Children(edges, <<>>)}
           Upto == {m \in Nat : \E g : GrowsTo(g, edges, m)}
           longest == Longest(edges)
<1>0. longest \in Nat
  BY FS_CardinalityType DEF Longest
<1> HIDE DEF longest
<1>1. 0 \in Upto
  BY DEF GrowsTo
<1>2. ASSUME NEW m \in Nat, m \in Upto PROVE m + 1 \in Upto
  <2>1. PICK g : GrowsTo(g, edges, m)
    BY <1>2
  <2> DEFINE last == IF m + 1 = 1 THEN first ELSE Longer(edges, g[m])
             h == [n \in 0..(m + 1) |-> IF n = m + 1 THEN last ELSE g[n]]
  <2> HIDE DEF last
  <2>2. h[m + 1] = last /\ \A n \in 1..m : h[n] = g[n]
    OBVIOUS
  <2> HIDE DEF h
  <2>3. ASSUME NEW n \in 1..(m + 1)
        PROVE  h[n] = IF n = 1 THEN first ELSE Longer(edges, h[n - 1])
    <3>1. CASE n = m + 1
      <4>1. n # 1 => n - 1 = m /\ m \in 1..m /\ h[m] = g[m]
        BY <2>2, <3>1
      <4> QED
        BY <2>2, <3>1, <4>1 DEF last
    <3>2. CASE n # m + 1
      <4>1. n \in 1..m /\ (n # 1 => n - 1 \in 1..m)
        BY <3>2
      <4>2. h[n] = g[n] /\ (n # 1 => h[n - 1] = g[n - 1])
        BY <2>2, <4>1
      <4> QED
        BY <2>1, <4>1, <4>2 DEF GrowsTo
    <3> QED
      BY <3>1, <3>2
  <2>4. GrowsTo(h, edges, m + 1)
    BY <2>3 DEF GrowsTo
  <2> QED
    BY <2>4
<1>3. Nat \subseteq Upto
  <2> HIDE DEF Upto
  <2> QED
    BY <1>1, <1>2, SetInduction
<1>4. PICK g : GrowsTo(g, edges, longest)
  BY <1>0, <1>3
<1> DEFINE h == [n \in 1..longest |-> g[n]]
<1>5. ASSUME NEW n \in 1..longest
      PROVE  h[n] = IF n = 1 THEN first ELSE Longer(edges, h[n - 1])
  <2>1. n # 1 => n - 1 \in 1..longest
    BY <1>0
  <2>2. h[n] = g[n] /\ (n # 1 => h[n - 1] = g[n - 1])
    BY <2>1
  <2> QED
    BY <1>4, <2>2 DEF GrowsTo
<1>6. Grows(h, edges)
  BY <1>5 DEF Grows, longest
<1> DEFINE sol == CHOOSE s : Grows(s, edges)
<1>7. Branches(edges) = UNION {sol[n] : n \in 1..longest}
  BY DEF Branches, Grows, Longest, Targets, longest
<1>8. Grows(sol, edges)
  BY <1>6
<1> HIDE DEF sol
<1>9. GrowsTo(sol, edges, longest)
  BY <1>8 DEF Grows, GrowsTo, longest
<1> QED
  BY <1>7, <1>9 DEF longest

\* A branch is a direct dependency, or an edge longer than a branch that has no
\* package twice.
Extends(branch, edges, branches) ==
  \E shorter \in branches : \E child \in Children(edges, Last(shorter)) :
    IsInjective(shorter) /\ branch = Append(shorter, child)

\* The branches are the children of the root, and each branch extended by a child
\* of its end: the least set with these is reached after as many rounds as there
\* are packages.
LEMMA BranchesAre ==
  ASSUME NEW edges, IsFiniteSet(Targets(edges))
  PROVE  /\ \A path \in Children(edges, <<>>) : <<path>> \in Branches(edges)
         /\ \A branch \in Branches(edges) :
              /\ branch \in Seq(Targets(edges)) /\ branch # <<>>
              /\ \/ \E path \in Children(edges, <<>>) : branch = <<path>>
                 \/ Extends(branch, edges, Branches(edges))
              /\ IsInjective(branch) =>
                   \A child \in Children(edges, Last(branch)) : Append(branch, child) \in Branches(edges)
              /\ \A path \in ToSet(branch) :
                   \E other \in Branches(edges) : IsInjective(other) /\ Last(other) = path
<1> DEFINE T == Targets(edges)
           N == Longest(edges)
           B == Branches(edges)
<1>1. PICK g : GrowsTo(g, edges, N) /\ B = UNION {g[n] : n \in 1..N}
  BY BranchesByLength
<1>2. N \in Nat /\ 1 \in 1..N /\ Cardinality(T) = N - 1 /\ Cardinality(T) \in Nat
  BY FS_CardinalityType DEF Longest
<1>c. \A path : Children(edges, path) \subseteq T
  BY DEF Children, Targets
<1> HIDE DEF T, N, B
<1>3. g[1] = {<<path>> : path \in Children(edges, <<>>)}
  BY <1>1, <1>2 DEF GrowsTo
<1>4. ASSUME NEW n \in 1..N, n + 1 \in 1..N PROVE g[n + 1] = Longer(edges, g[n])
  <2>1. n + 1 # 1 /\ (n + 1) - 1 = n
    BY <1>2
  <2> QED
    BY <1>1, <1>4, <2>1 DEF GrowsTo
<1> DEFINE Typed == {n \in Nat : n + 1 \in 1..N => \A b \in g[n + 1] : b \in Seq(T) /\ Len(b) = n + 1}
<1>5. Nat \subseteq Typed
  <2>1. 0 \in Typed
    <3> SUFFICES ASSUME NEW b \in g[0 + 1] PROVE b \in Seq(T) /\ Len(b) = 0 + 1
      OBVIOUS
    <3>1. PICK path \in T : b = <<path>>
      BY <1>3, <1>c
    <3> QED
      BY <3>1
  <2>2. ASSUME NEW n \in Nat, n \in Typed PROVE n + 1 \in Typed
    <3> SUFFICES ASSUME (n + 1) + 1 \in 1..N, NEW b \in g[(n + 1) + 1]
                 PROVE  b \in Seq(T) /\ Len(b) = (n + 1) + 1
      OBVIOUS
    <3>1. n + 1 \in 1..N
      BY <1>2
    <3>2. b \in Longer(edges, g[n + 1])
      BY <1>4, <3>1
    <3>3. PICK a \in g[n + 1] : \E child \in Children(edges, Last(a)) : b = Append(a, child)
      BY <3>2 DEF Longer
    <3>4. a \in Seq(T) /\ Len(a) = n + 1
      BY <2>2, <3>1
    <3>5. PICK child \in T : b = Append(a, child)
      BY <1>c, <3>3
    <3> QED
      BY <3>4, <3>5
  <2> HIDE DEF Typed
  <2> QED
    BY <2>1, <2>2, SetInduction
<1>6. ASSUME NEW b \in B
      PROVE  \E n \in 1..N : b \in g[n] /\ b \in Seq(T) /\ Len(b) = n
  <2>1. PICK n \in 1..N : b \in g[n]
    BY <1>1
  <2>2. n - 1 \in Nat /\ (n - 1) + 1 = n
    BY <1>2
  <2>3. n - 1 \in Typed
    BY <1>5, <2>2
  <2> QED
    BY <2>1, <2>2, <2>3
<1>7. \A n \in 1..N : g[n] \subseteq B
  BY <1>1
<1>8. \A path \in Children(edges, <<>>) : <<path>> \in B
  BY <1>2, <1>3, <1>7
<1>9. ASSUME NEW b \in B, IsInjective(b), NEW child \in Children(edges, Last(b))
      PROVE  Append(b, child) \in B
  <2>1. PICK n \in 1..N : b \in g[n] /\ b \in Seq(T) /\ Len(b) = n
    BY <1>6
  <2>2. n <= Cardinality(T)
    <3>1. b \in Injection(1..n, T)
      BY <1>9, <2>1 DEF Injection
    <3>2. IsFiniteSet(1..n) /\ Cardinality(1..n) = n
      <4>1. n \in Int /\ 1 \in Int /\ 1 <= n
        BY <1>2
      <4>2. Cardinality(1..n) = IF 1 > n THEN 0 ELSE n - 1 + 1
        BY <4>1, FS_Interval
      <4> QED
        BY <4>1, <4>2, FS_Interval
    <3>3. Cardinality(1..n) <= Cardinality(T)
      BY <3>1, FS_Injection DEF T
    <3> QED
      BY <3>2, <3>3
  <2>3. n + 1 \in 1..N
    BY <1>2, <2>2
  <2>4. Append(b, child) \in Longer(edges, g[n])
    BY <1>9, <2>1 DEF Longer
  <2> QED
    BY <1>4, <1>7, <2>3, <2>4
<1>10. ASSUME NEW b \in B
       PROVE  \/ \E path \in Children(edges, <<>>) : b = <<path>>
              \/ Extends(b, edges, B)
  <2>1. PICK n \in 1..N : b \in g[n]
    BY <1>6
  <2>2. CASE n = 1
    BY <1>3, <2>1, <2>2
  <2>3. CASE n # 1
    <3>1. n - 1 \in 1..N /\ (n - 1) + 1 = n
      BY <1>2, <2>3
    <3>2. b \in Longer(edges, g[n - 1])
      BY <1>4, <2>1, <3>1
    <3>3. PICK a \in g[n - 1] : IsInjective(a) /\ \E child \in Children(edges, Last(a)) : b = Append(a, child)
      BY <3>2 DEF Longer
    <3>4. a \in B
      BY <1>7, <3>1
    <3> QED
      BY <3>3, <3>4 DEF Extends
  <2> QED
    BY <2>2, <2>3
<1> DEFINE Once(path) == \E other \in B : IsInjective(other) /\ Last(other) = path
           Met == {n \in Nat : n + 1 \in 1..N => \A b \in g[n + 1] : \A k \in 1..Len(b) : Once(b[k])}
<1>11. Nat \subseteq Met
  <2>1. 0 \in Met
    <3> SUFFICES ASSUME NEW b \in g[0 + 1], NEW k \in 1..Len(b) PROVE Once(b[k])
      OBVIOUS
    <3>1. PICK path \in Children(edges, <<>>) : b = <<path>>
      BY <1>3
    <3>2. k = 1 /\ Last(b) = b[k] /\ IsInjective(b)
      BY <3>1 DEF Last, IsInjective
    <3>3. b \in B
      BY <1>8, <3>1
    <3> QED
      BY <3>2, <3>3
  <2>2. ASSUME NEW n \in Nat, n \in Met PROVE n + 1 \in Met
    <3> SUFFICES ASSUME (n + 1) + 1 \in 1..N, NEW b \in g[(n + 1) + 1], NEW k \in 1..Len(b)
                 PROVE  Once(b[k])
      OBVIOUS
    <3>1. n + 1 \in 1..N
      BY <1>2
    <3>2. b \in Longer(edges, g[n + 1])
      BY <1>4, <3>1
    <3>3. PICK a \in g[n + 1] : IsInjective(a) /\ \E child \in Children(edges, Last(a)) : b = Append(a, child)
      BY <3>2 DEF Longer
    <3>4. PICK child \in T : child \in Children(edges, Last(a)) /\ b = Append(a, child)
      BY <1>c, <3>3
    <3>5. n \in Typed
      BY <1>5
    <3>6. a \in Seq(T) /\ Len(a) = n + 1
      BY <3>1, <3>5
    <3>7. \A j \in 1..Len(a) : Once(a[j])
      BY <2>2, <3>1
    <3> HIDE DEF Once
    <3>8. /\ Len(b) = Len(a) + 1 /\ b[Len(a) + 1] = child /\ \A j \in 1..Len(a) : b[j] = a[j]
          /\ DOMAIN b = 1..Len(b) /\ DOMAIN a = 1..Len(a)
      BY <3>4, <3>6
    <3>9. CASE k \in 1..Len(a)
      BY <3>7, <3>8, <3>9
    <3>10. CASE k \notin 1..Len(a)
      <4>1. k = Len(a) + 1 /\ b[k] = child
        BY <3>6, <3>8, <3>10
      <4>2. CASE \E j \in 1..Len(a) : a[j] = child
        BY <3>7, <4>1, <4>2
      <4>3. CASE ~ \E j \in 1..Len(a) : a[j] = child
        <5>1. \A i, j \in 1..Len(a) : a[i] = a[j] => i = j
          BY <3>3, <3>8 DEF IsInjective
        <5>2. ASSUME NEW i \in 1..Len(b), NEW j \in 1..Len(b), b[i] = b[j] PROVE i = j
          <6>1. (i \in 1..Len(a) \/ i = Len(a) + 1) /\ (j \in 1..Len(a) \/ j = Len(a) + 1)
            BY <3>6, <3>8
          <6> QED
            BY <3>8, <4>3, <5>1, <5>2, <6>1
        <5>3. IsInjective(b)
          BY <3>8, <5>2 DEF IsInjective
        <5>4. Last(b) = child
          BY <3>8 DEF Last
        <5>5. b \in B
          BY <1>7
        <5> QED
          BY <4>1, <5>3, <5>4, <5>5 DEF Once
      <4> QED
        BY <4>2, <4>3
    <3> QED
      BY <3>9, <3>10
  <2> HIDE DEF Met
  <2> QED
    BY <2>1, <2>2, SetInduction
<1>12. ASSUME NEW b \in B, NEW path \in ToSet(b) PROVE Once(path)
  <2>1. PICK n \in 1..N : b \in g[n] /\ b \in Seq(T) /\ Len(b) = n
    BY <1>6
  <2>2. n - 1 \in Nat /\ (n - 1) + 1 = n
    BY <1>2
  <2>3. n - 1 \in Met
    BY <1>11, <2>2
  <2>4. PICK k \in 1..Len(b) : path = b[k]
    BY <2>1 DEF ToSet
  <2> QED
    BY <2>1, <2>2, <2>3, <2>4
<1>13. ASSUME NEW b \in B PROVE b \in Seq(T) /\ b # <<>>
  <2>1. PICK n \in 1..N : b \in Seq(T) /\ Len(b) = n
    BY <1>6
  <2> QED
    BY <1>2, <2>1
<1> QED
  BY <1>8, <1>9, <1>10, <1>12, <1>13 DEF T, B

\* The documents agree, whatever cycles there are.
THEOREM DocumentsAreOne == GraphSpec => []DocumentsAgree
<1>1. GraphInv => DocumentsAgree
  <2> SUFFICES ASSUME GraphInv, documented PROVE DocumentsAgree
    BY DEF DocumentsAgree
  <2> DEFINE edges == Edges
             B == Branches(edges)
             T == Targets(edges)
             shown == {Last(branch) : branch \in B}
             root == <<>>
             rooted == {<<root>> \o branch : branch \in B}
             direct == Children(edges, root)
             pairs == {<<edge.from, edge.to>> : edge \in edges}
  <2>1. /\ lockfile \in Lockfiles /\ bom.components = Packages /\ bom.dependsOn = pairs
        /\ tree.branches = B /\ tree.direct = Cardinality(direct)
        /\ tree.transitive = Cardinality(shown) - Cardinality(direct)
    BY DEF GraphInv, Bom, Tree
  <2>2. T \subseteq Packages
    BY <2>1, EdgeIs DEF Targets
  <2>3. IsFiniteSet(T)
    <3>1. IsFiniteSet(DOMAIN lockfile) /\ T \subseteq DOMAIN lockfile
      BY <2>1, <2>2, GraphAssumption DEF Packages
    <3> QED
      BY <3>1, FS_Subset
  <2> HIDE DEF edges, root
  <2>4. /\ \A path \in direct : <<path>> \in B
        /\ \A branch \in B :
             /\ branch \in Seq(T) /\ branch # <<>>
             /\ (\E path \in direct : branch = <<path>>) \/ Extends(branch, edges, B)
             /\ IsInjective(branch) =>
                  \A child \in Children(edges, Last(branch)) : Append(branch, child) \in B
             /\ \A path \in ToSet(branch) : \E other \in B : IsInjective(other) /\ Last(other) = path
    BY <2>3, BranchesAre DEF root
  <2>5. \A path, child : child \in Children(edges, path) <=>
                           \E edge \in edges : edge.from = path /\ edge.to = child
    BY DEF Children
  <2> HIDE DEF B, T, direct, pairs
  \* The last step of a branch.
  <2>6. ASSUME NEW b \in B
        PROVE  /\ (<<root>> \o b)[Len(<<root>> \o b) - 1] = IF Len(b) = 1 THEN root ELSE b[Len(b) - 1]
               /\ Last(<<root>> \o b) = Last(b)
               /\ Last(b) \in T /\ Last(b) \in ToSet(b) /\ Len(b) \in Nat /\ Len(b) # 0
    <3> DEFINE S == T \cup {root}
               one == <<root>>
               c == one \o b
    <3>1. b \in Seq(T) /\ b # <<>> /\ Len(b) \in Nat /\ Len(b) # 0 /\ b \in Seq(S)
          /\ one \in Seq(S) /\ Len(one) = 1 /\ one[1] = root
      BY <2>4
    <3> HIDE DEF one
    <3>2. c \in Seq(S) /\ Len(c) = Len(one) + Len(b) /\ (\A k \in 1..Len(one) : c[k] = one[k])
          /\ \A k \in 1..Len(b) : c[Len(one) + k] = b[k]
      <4>1. one \in Seq(S) /\ b \in Seq(S)
        BY <3>1
      <4> QED
        BY <4>1, JoinedPlaces
    <3> HIDE DEF c, S
    <3>3. Len(c) = 1 + Len(b) /\ c[1] = root /\ \A k \in 1..Len(b) : c[1 + k] = b[k]
      BY <3>1, <3>2
    <3>4. c[Len(c)] = b[Len(b)]
      <4>1. Len(b) \in 1..Len(b)
        BY <3>1
      <4> QED
        BY <3>3, <4>1
    <3>5. Len(b) # 1 => c[Len(b)] = b[Len(b) - 1]
      <4>1. Len(b) # 1 => Len(b) - 1 \in 1..Len(b) /\ 1 + (Len(b) - 1) = Len(b)
        BY <3>1
      <4> QED
        BY <3>3, <4>1
    <3>6. Len(c) - 1 = Len(b)
      BY <3>1, <3>3
    <3>7. b[Len(b)] \in T /\ b[Len(b)] \in ToSet(b)
      BY <3>1 DEF ToSet
    <3> QED
      BY <3>1, <3>3, <3>4, <3>5, <3>6, <3>7 DEF Last, c, one
  <2>7. ASSUME NEW b \in B, NEW child, child \in Children(edges, Last(b)), IsInjective(b)
        PROVE  Append(b, child) \in B /\ Len(Append(b, child)) # 1
               /\ Append(b, child)[Len(Append(b, child)) - 1] = Last(b) /\ Last(Append(b, child)) = child
    <3>1. Append(b, child) \in B
      BY <2>4, <2>7
    <3>2. b \in Seq(T) /\ Len(b) \in Nat /\ Len(b) # 0
      BY <2>4, <2>6
    <3>3. child \in T
      BY <2>5, <2>7 DEF T, Targets
    <3> DEFINE more == Append(b, child)
    <3>4. Len(more) = Len(b) + 1 /\ more[Len(b) + 1] = child /\ \A k \in 1..Len(b) : more[k] = b[k]
      BY <3>2, <3>3
    <3> HIDE DEF more
    <3>5. Len(more) # 1 /\ more[Len(more) - 1] = b[Len(b)] /\ more[Len(more)] = child
      BY <3>2, <3>4
    <3> QED
      BY <3>1, <3>5 DEF Last, more
  <2>8. ASSUME NEW pair \in pairs, pair[1] \in shown \cup {root}
        PROVE  \E branch \in rooted : pair = <<branch[Len(branch) - 1], Last(branch)>>
    <3>1. PICK edge \in edges : pair = <<edge.from, edge.to>>
      BY DEF pairs
    <3>2. pair[1] = edge.from
      BY <3>1
    <3>3. \E b \in B : Last(b) = edge.to /\ edge.from = IF Len(b) = 1 THEN root ELSE b[Len(b) - 1]
      <4>1. CASE edge.from = root
        <5> DEFINE b == <<edge.to>>
        <5>1. b \in B
          BY <2>4, <2>5, <4>1 DEF direct
        <5>2. Len(b) = 1 /\ Last(b) = edge.to
          BY DEF Last
        <5> HIDE DEF b
        <5> QED
          BY <4>1, <5>1, <5>2
      <4>2. CASE edge.from \in shown
        <5>1. PICK a \in B : edge.from = Last(a)
          BY <4>2
        <5>2. PICK other \in B : IsInjective(other) /\ Last(other) = edge.from
          BY <2>4, <2>6, <5>1
        <5>3. edge.to \in Children(edges, Last(other))
          BY <2>5, <5>2
        <5> DEFINE b == Append(other, edge.to)
        <5>4. b \in B /\ Len(b) # 1 /\ b[Len(b) - 1] = edge.from /\ Last(b) = edge.to
          BY <2>7, <5>2, <5>3
        <5> HIDE DEF b
        <5> QED
          BY <5>4
      <4> QED
        BY <2>8, <3>2, <4>1, <4>2
    <3>4. PICK b \in B : Last(b) = edge.to /\ edge.from = IF Len(b) = 1 THEN root ELSE b[Len(b) - 1]
      BY <3>3
    <3> DEFINE c == <<root>> \o b
    <3>5. c \in rooted /\ c[Len(c) - 1] = edge.from /\ Last(c) = edge.to
      BY <2>6, <3>4
    <3> HIDE DEF c, rooted
    <3> QED
      BY <3>1, <3>5
  <2>9. ASSUME NEW branch \in rooted
        PROVE  /\ <<branch[Len(branch) - 1], Last(branch)>> \in pairs
               /\ branch[Len(branch) - 1] \in shown \cup {root}
    <3>1. PICK b \in B : branch = <<root>> \o b
      OBVIOUS
    <3>2. branch[Len(branch) - 1] = (IF Len(b) = 1 THEN root ELSE b[Len(b) - 1]) /\ Last(branch) = Last(b)
      BY <2>6, <3>1
    <3>3. CASE \E path \in direct : b = <<path>>
      <4>1. PICK path \in direct : b = <<path>>
        BY <3>3
      <4>2. Len(b) = 1 /\ Last(b) = path
        BY <4>1 DEF Last
      <4>3. PICK edge \in edges : edge.from = root /\ edge.to = path
        BY <2>5 DEF direct
      <4>4. branch[Len(branch) - 1] = edge.from /\ Last(branch) = edge.to
        BY <3>2, <4>2, <4>3
      <4> QED
        BY <4>3, <4>4 DEF pairs
    <3>4. CASE Extends(b, edges, B)
      <4>1. PICK a \in B : IsInjective(a) /\ \E child \in Children(edges, Last(a)) : b = Append(a, child)
        BY <3>4 DEF Extends
      <4>2. PICK child : child \in Children(edges, Last(a)) /\ b = Append(a, child)
        BY <4>1
      <4>3. Len(b) # 1 /\ b[Len(b) - 1] = Last(a) /\ Last(b) = child
        BY <2>7, <4>1, <4>2
      <4>4. PICK edge \in edges : edge.from = Last(a) /\ edge.to = child
        BY <2>5, <4>2
      <4>5. branch[Len(branch) - 1] = edge.from /\ Last(branch) = edge.to /\ edge.from \in shown
        BY <3>2, <4>3, <4>4
      <4> QED
        BY <4>4, <4>5 DEF pairs
    <3> QED
      BY <2>4, <3>3, <3>4
  <2>10. \A pair \in pairs : \E x, y : pair = <<x, y>>
    BY DEF pairs
  <2>11. {pair \in pairs : pair[1] \in shown \cup {root}} =
           {<<branch[Len(branch) - 1], Last(branch)>> : branch \in rooted}
    <3> DEFINE left == {pair \in pairs : pair[1] \in shown \cup {root}}
               right == {<<branch[Len(branch) - 1], Last(branch)>> : branch \in rooted}
    <3>1. ASSUME NEW pair \in left PROVE pair \in right
      BY <2>8
    <3>2. ASSUME NEW pair \in right PROVE pair \in left
      <4>1. PICK branch \in rooted : pair = <<branch[Len(branch) - 1], Last(branch)>>
        OBVIOUS
      <4>2. pair[1] = branch[Len(branch) - 1]
        BY <4>1
      <4> HIDE DEF rooted, shown
      <4> QED
        BY <2>9, <4>1, <4>2
    <3> QED
      BY <3>1, <3>2
  <2>12. shown \subseteq bom.components
    BY <2>1, <2>2, <2>6
  <2> QED
    BY <2>11, <2>12, <2>1 DEF DocumentsAgree, root
<1> QED
  BY <1>1, GraphInvInductive, PTL

-----------------------------------------------------------------------------
(* The parser of the git log, over any histories that git can print.  The   *)
(* parser is a function, Run, of the lines and the state it starts in; it   *)
(* runs over the lines of a hunk, of a change, of a commit and of the whole *)
(* log, one after another, and the invariant is that the scanner of the     *)
(* model is what Run makes of the lines consumed so far.                    *)

\* What consume makes of a line: state is the scanner and the lines reported.
State(commit, file, number, inHunk, reported) ==
  <<[commit |-> commit, file |-> file, number |-> number, inHunk |-> inHunk], reported>>

Scanned(state, l) ==
  LET at == state[1]
      header == ~at.inHunk /\ StartsFile(l) IN
  CASE l.kind = "commit" ->
         <<[at EXCEPT !.commit = @ + 1, !.file = NoFile, !.inHunk = FALSE], state[2]>>
    [] header -> <<[at EXCEPT !.file = IF l.kind = "file" THEN l.value ELSE "other"], state[2]>>
    [] ~at.inHunk /\ l.kind = "null" -> <<[at EXCEPT !.file = NoFile], state[2]>>
    [] l.kind = "hunk" -> <<[at EXCEPT !.number = l.value, !.inHunk = TRUE], state[2]>>
    [] at.inHunk /\ l.kind \in {"plus", "file", "null"} /\ ~header ->
         <<[at EXCEPT !.number = @ + 1],
           state[2] \cup {[commit |-> at.commit, file |-> at.file, number |-> at.number, text |-> l.value]}>>
    [] l.kind \in {"minus", "backslash"} -> state
    [] OTHER -> <<[at EXCEPT !.inHunk = FALSE], state[2]>>

\* The equations of the parser's states, up to n lines, and all.
RunsTo(g, lines, state, n) ==
  \A k \in 0..n : g[k] = IF k = 0 THEN state ELSE Scanned(g[k - 1], lines[k])
Runs(g, lines, state) ==
  g = [k \in 0..Len(lines) |-> IF k = 0 THEN state ELSE Scanned(g[k - 1], lines[k])]

\* The parser's state after the lines.
Run(lines, state) ==
  LET after[k \in 0..Len(lines)] ==
        IF k = 0 THEN state ELSE Scanned(after[k - 1], lines[k]) IN
  after[Len(lines)]

\* The equations of the parser's states have a solution.
LEMMA RunExists ==
  ASSUME NEW lines, Len(lines) \in Nat, NEW state
  PROVE  \E g : Runs(g, lines, state)
<1> DEFINE Upto == {n \in Nat : \E g : RunsTo(g, lines, state, n)}
<1>1. 0 \in Upto
  <2> DEFINE g == [k \in 0..0 |-> state]
  <2>1. g[0] = state
    OBVIOUS
  <2> HIDE DEF g
  <2>2. RunsTo(g, lines, state, 0)
    BY <2>1 DEF RunsTo
  <2> QED
    BY <2>2
<1>2. ASSUME NEW n \in Nat, n \in Upto PROVE n + 1 \in Upto
  <2>1. PICK g : RunsTo(g, lines, state, n)
    BY <1>2
  <2> DEFINE last == Scanned(g[n], lines[n + 1])
             h == [k \in 0..(n + 1) |-> IF k = n + 1 THEN last ELSE g[k]]
  <2> HIDE DEF last
  <2>2. h[n + 1] = last /\ \A k \in 0..n : h[k] = g[k]
    OBVIOUS
  <2> HIDE DEF h
  <2>3. ASSUME NEW k \in 0..(n + 1)
        PROVE  h[k] = IF k = 0 THEN state ELSE Scanned(h[k - 1], lines[k])
    <3>1. CASE k = n + 1
      <4>1. k # 0 /\ k - 1 = n /\ h[n] = g[n]
        BY <2>2, <3>1
      <4> QED
        BY <2>2, <3>1, <4>1 DEF last
    <3>2. CASE k # n + 1
      <4>1. k \in 0..n /\ (k # 0 => k - 1 \in 0..n)
        BY <3>2
      <4>2. h[k] = g[k] /\ (k # 0 => h[k - 1] = g[k - 1])
        BY <2>2, <4>1
      <4> QED
        BY <2>1, <4>1, <4>2 DEF RunsTo
    <3> QED
      BY <3>1, <3>2
  <2>4. RunsTo(h, lines, state, n + 1)
    BY <2>3 DEF RunsTo
  <2> QED
    BY <2>4
<1>3. Nat \subseteq Upto
  <2> HIDE DEF Upto
  <2> QED
    BY <1>1, <1>2, SetInduction
<1>4. PICK g : RunsTo(g, lines, state, Len(lines))
  BY <1>3
<1> DEFINE h == [k \in 0..Len(lines) |-> g[k]]
<1>5. ASSUME NEW k \in 0..Len(lines)
      PROVE  h[k] = IF k = 0 THEN state ELSE Scanned(h[k - 1], lines[k])
  <2>1. k # 0 => k - 1 \in 0..Len(lines)
    OBVIOUS
  <2>2. h[k] = g[k] /\ (k # 0 => h[k - 1] = g[k - 1])
    BY <2>1
  <2> QED
    BY <1>4, <2>2 DEF RunsTo
<1>6. Runs(h, lines, state)
  BY <1>5 DEF Runs
<1> QED
  BY <1>6

\* Two solutions of the equations agree, when the lines do.
LEMMA RunUnique ==
  ASSUME NEW n \in Nat, NEW s, NEW t, Agree(s, t, n), NEW state,
         NEW g, RunsTo(g, s, state, n), NEW h, RunsTo(h, t, state, n)
  PROVE  g[n] = h[n]
<1> DEFINE Same == {k \in Nat : k \in 0..n => g[k] = h[k]}
<1>1. 0 \in Same
  BY DEF RunsTo
<1>2. ASSUME NEW k \in Nat, k \in Same PROVE k + 1 \in Same
  <2>1. CASE k + 1 \in 0..n
    <3>1. s[k + 1] = t[k + 1] /\ g[k] = h[k] /\ k + 1 # 0 /\ (k + 1) - 1 = k
      BY <1>2, <2>1 DEF Agree
    <3>2. g[k + 1] = Scanned(g[(k + 1) - 1], s[k + 1])
      BY <2>1, <3>1 DEF RunsTo
    <3>3. h[k + 1] = Scanned(h[(k + 1) - 1], t[k + 1])
      BY <2>1, <3>1 DEF RunsTo
    <3>4. g[k + 1] = h[k + 1]
      BY <3>1, <3>2, <3>3
    <3> QED
      BY <3>4
  <2> QED
    BY <2>1
<1>3. Nat \subseteq Same
  <2> HIDE DEF Same
  <2> QED
    BY <1>1, <1>2, SetInduction
<1> QED
  BY <1>3

\* No line changes nothing; a line more is scanned last.
LEMMA RunLast ==
  ASSUME NEW S, NEW lines \in Seq(S), NEW l \in S, NEW state
  PROVE  /\ Run(<<>>, state) = state
         /\ Run(Append(lines, l), state) = Scanned(Run(lines, state), l)
<1>1. Run(<<>>, state) = state
  <2> DEFINE G == CHOOSE g : Runs(g, <<>>, state)
  <2>1. Runs(G, <<>>, state)
    BY RunExists
  <2>2. G[0] = state
    BY <2>1 DEF Runs
  <2> QED
    BY <2>2 DEF Run, Runs
<1> DEFINE more == Append(lines, l)
           n == Len(lines)
<1>2. n \in Nat /\ Len(more) = n + 1 /\ more[n + 1] = l /\ \A i \in 1..n : more[i] = lines[i]
  OBVIOUS
<1> HIDE DEF more
<1> DEFINE G == CHOOSE g : Runs(g, more, state)
           H == CHOOSE g : Runs(g, lines, state)
<1>3. Runs(G, more, state) /\ Runs(H, lines, state)
  <2>1. Len(more) \in Nat /\ Len(lines) \in Nat
    BY <1>2
  <2>2. (\E g : Runs(g, more, state)) /\ \E g : Runs(g, lines, state)
    BY <2>1, RunExists
  <2> QED
    BY <2>2
<1>4. Run(more, state) = G[n + 1] /\ Run(lines, state) = H[n]
  BY <1>2 DEF Run, Runs
<1> HIDE DEF G, H
<1>5. \A k \in 0..(n + 1) : G[k] = IF k = 0 THEN state ELSE Scanned(G[k - 1], more[k])
  BY <1>2, <1>3 DEF Runs
<1>6. RunsTo(G, more, state, n)
  BY <1>2, <1>5 DEF RunsTo
<1>7. RunsTo(H, lines, state, n)
  BY <1>3 DEF Runs, RunsTo
<1>8. G[n] = H[n]
  <2>1. n \in Nat /\ Agree(more, lines, n)
    BY <1>2 DEF Agree
  <2> HIDE DEF n
  <2> QED
    BY <1>6, <1>7, <2>1, RunUnique
<1>9. G[n + 1] = Scanned(G[n], l)
  <2>1. n + 1 \in 0..(n + 1) /\ n + 1 # 0 /\ (n + 1) - 1 = n
    BY <1>2
  <2> QED
    BY <1>2, <1>5, <2>1
<1> QED
  BY <1>1, <1>4, <1>8, <1>9 DEF more

\* The parser goes on from where it was.
LEMMA RunJoined ==
  ASSUME NEW S, NEW s \in Seq(S), NEW t \in Seq(S), NEW state
  PROVE  Run(s \o t, state) = Run(t, Run(s, state))
<1> DEFINE X == {u \in Seq(S) : Run(s \o u, state) = Run(u, Run(s, state))}
<1>1. <<>> \in X
  <2>1. s \o <<>> = s
    OBVIOUS
  <2>2. Run(<<>>, Run(s, state)) = Run(s, state)
    <3> DEFINE sn == Run(s, state)
    <3>1. 1 \in {1} /\ <<>> \in Seq({1})
      OBVIOUS
    <3> HIDE DEF sn
    <3>2. Run(<<>>, sn) = sn
      BY <3>1, RunLast
    <3> QED
      BY <3>2 DEF sn
  <2> DEFINE e == <<>>
  <2>3. e \in Seq(S)
    OBVIOUS
  <2>4. Run(s \o e, state) = Run(e, Run(s, state))
    BY <2>1, <2>2
  <2> HIDE DEF e
  <2>5. e \in X
    BY <2>3, <2>4
  <2> QED
    BY <2>5 DEF e
<1>2. ASSUME NEW u \in Seq(S), u \in X, NEW l \in S PROVE Append(u, l) \in X
  <2>1. s \o u \in Seq(S) /\ Append(u, l) \in Seq(S) /\ s \o Append(u, l) = Append(s \o u, l)
    BY AppendJoined
  <2>2. Run(s \o u, state) = Run(u, Run(s, state))
    BY <1>2
  <2> DEFINE joined == s \o u
             sn == Run(s, state)
  <2>3. Run(Append(joined, l), state) = Scanned(Run(joined, state), l)
    <3>1. joined \in Seq(S)
      BY <2>1
    <3> HIDE DEF joined
    <3> QED
      BY <3>1, RunLast
  <2>4. Run(Append(u, l), sn) = Scanned(Run(u, sn), l)
    <3> HIDE DEF sn
    <3> QED
      BY RunLast
  <2>5. Run(s \o Append(u, l), state) = Run(Append(u, l), Run(s, state))
    BY <2>1, <2>2, <2>3, <2>4
  <2> QED
    BY <2>1, <2>5
<1>3. Seq(S) \subseteq X
  <2> HIDE DEF X
  <2> QED
    BY <1>1, <1>2, SequenceInduction
<1> QED
  BY <1>3

-----------------------------------------------------------------------------
(* What the parser makes of each line of the log, and of a hunk *)

Kinds == {"commit", "file", "null", "hunk", "plus", "minus", "backslash", "other"}
Values == STRING \cup Nat \cup {Tabbed(f) : f \in STRING} \cup {"none", "diff", "quoted", "binary"}
PrintedLine == [kind : Kinds, value : Values]

\* Names for the texts of lines and for the two places of the scanner: the lemmas
\* below are instantiated with them.
Texts == STRING
Inside == TRUE
Outside == FALSE

ReportedAs(commit, file, number, text) ==
  [commit |-> commit, file |-> file, number |-> number, text |-> text]

\* The line of a commit counts it, and forgets the file.
LEMMA CommitScanned ==
  ASSUME NEW c \in Nat, NEW f, NEW n \in Nat, NEW h, NEW A, NEW v
  PROVE  Scanned(State(c, f, n, h, A), Line("commit", v)) =
           State(c + 1, NoFile, n, Outside, A)
<1> DEFINE state == State(c, f, n, h, A)
           at == [commit |-> c, file |-> f, number |-> n, inHunk |-> h]
           l == Line("commit", v)
<1>1. /\ state[1] = at /\ state[2] = A
      /\ at.commit = c /\ at.file = f /\ at.number = n /\ at.inHunk = h
  BY DEF State
<1>2. l.kind = "commit" /\ l.value = v
  BY DEF Line
<1> HIDE DEF state, at, l
<1>3. Scanned(state, l) = <<[at EXCEPT !.commit = @ + 1, !.file = NoFile, !.inHunk = Outside], A>>
  BY <1>1, <1>2 DEF Scanned, StartsFile, Inside, Outside
<1>4. [at EXCEPT !.commit = @ + 1, !.file = NoFile, !.inHunk = Outside] =
        [commit |-> c + 1, file |-> NoFile, number |-> n, inHunk |-> Outside]
  <2>1. DOMAIN at = {"commit", "file", "number", "inHunk"}
    BY DEF at
  <2>2. [at EXCEPT !.commit = @ + 1, !.file = NoFile, !.inHunk = Outside] =
          [x \in DOMAIN at |-> IF x = "inHunk" THEN Outside ELSE IF x = "file" THEN NoFile ELSE IF x = "commit" THEN c + 1 ELSE at[x]]
    BY <1>1
  <2> QED
    BY <1>1, <2>1, <2>2
<1> QED
  BY <1>3, <1>4 DEF state, l, State

\* Outside a hunk, a header names the file.
LEMMA FileScanned ==
  ASSUME NEW c \in Nat, NEW f, NEW n \in Nat, NEW A, NEW v
  PROVE  Scanned(State(c, f, n, Outside, A), Line("file", v)) =
           State(c, v, n, Outside, A)
<1> DEFINE state == State(c, f, n, Outside, A)
           at == [commit |-> c, file |-> f, number |-> n, inHunk |-> Outside]
           l == Line("file", v)
<1>1. /\ state[1] = at /\ state[2] = A
      /\ at.commit = c /\ at.file = f /\ at.number = n /\ at.inHunk = Outside
  BY DEF State
<1>2. l.kind = "file" /\ l.value = v
  BY DEF Line
<1> HIDE DEF state, at, l
<1>3. Scanned(state, l) = <<[at EXCEPT !.file = v], A>>
  BY <1>1, <1>2 DEF Scanned, StartsFile, Inside, Outside
<1>4. [at EXCEPT !.file = v] =
        [commit |-> c, file |-> v, number |-> n, inHunk |-> Outside]
  <2>1. DOMAIN at = {"commit", "file", "number", "inHunk"}
    BY DEF at
  <2>2. [at EXCEPT !.file = v] =
          [x \in DOMAIN at |-> IF x = "file" THEN v ELSE at[x]]
    BY <1>1
  <2> QED
    BY <1>1, <2>1, <2>2
<1> QED
  BY <1>3, <1>4 DEF state, l, State

\* Outside a hunk, the header of a deleted file forgets the file.
LEMMA NullScanned ==
  ASSUME NEW c \in Nat, NEW f, NEW n \in Nat, NEW A, NEW v
  PROVE  Scanned(State(c, f, n, Outside, A), Line("null", v)) =
           State(c, NoFile, n, Outside, A)
<1> DEFINE state == State(c, f, n, Outside, A)
           at == [commit |-> c, file |-> f, number |-> n, inHunk |-> Outside]
           l == Line("null", v)
<1>1. /\ state[1] = at /\ state[2] = A
      /\ at.commit = c /\ at.file = f /\ at.number = n /\ at.inHunk = Outside
  BY DEF State
<1>2. l.kind = "null" /\ l.value = v
  BY DEF Line
<1> HIDE DEF state, at, l
<1>3. Scanned(state, l) = <<[at EXCEPT !.file = NoFile], A>>
  BY <1>1, <1>2 DEF Scanned, StartsFile, Inside, Outside
<1>4. [at EXCEPT !.file = NoFile] =
        [commit |-> c, file |-> NoFile, number |-> n, inHunk |-> Outside]
  <2>1. DOMAIN at = {"commit", "file", "number", "inHunk"}
    BY DEF at
  <2>2. [at EXCEPT !.file = NoFile] =
          [x \in DOMAIN at |-> IF x = "file" THEN NoFile ELSE at[x]]
    BY <1>1
  <2> QED
    BY <1>1, <2>1, <2>2
<1> QED
  BY <1>3, <1>4 DEF state, l, State

\* The header of a hunk sets the number, and begins it.
LEMMA HunkScanned ==
  ASSUME NEW c \in Nat, NEW f, NEW n \in Nat, NEW h, NEW A, NEW v
  PROVE  Scanned(State(c, f, n, h, A), Line("hunk", v)) =
           State(c, f, v, Inside, A)
<1> DEFINE state == State(c, f, n, h, A)
           at == [commit |-> c, file |-> f, number |-> n, inHunk |-> h]
           l == Line("hunk", v)
<1>1. /\ state[1] = at /\ state[2] = A
      /\ at.commit = c /\ at.file = f /\ at.number = n /\ at.inHunk = h
  BY DEF State
<1>2. l.kind = "hunk" /\ l.value = v
  BY DEF Line
<1> HIDE DEF state, at, l
<1>3. Scanned(state, l) = <<[at EXCEPT !.number = v, !.inHunk = Inside], A>>
  BY <1>1, <1>2 DEF Scanned, StartsFile, Inside, Outside
<1>4. [at EXCEPT !.number = v, !.inHunk = Inside] =
        [commit |-> c, file |-> f, number |-> v, inHunk |-> Inside]
  <2>1. DOMAIN at = {"commit", "file", "number", "inHunk"}
    BY DEF at
  <2>2. [at EXCEPT !.number = v, !.inHunk = Inside] =
          [x \in DOMAIN at |-> IF x = "inHunk" THEN Inside ELSE IF x = "number" THEN v ELSE at[x]]
    BY <1>1
  <2> QED
    BY <1>1, <2>1, <2>2
<1> QED
  BY <1>3, <1>4 DEF state, l, State

\* In a hunk, an added line is reported with its number, whatever it reads.
LEMMA PlusScanned ==
  ASSUME NEW c \in Nat, NEW f, NEW n \in Nat, NEW A, NEW v
  PROVE  Scanned(State(c, f, n, Inside, A), Line("plus", v)) =
           State(c, f, n + 1, Inside, A \cup {ReportedAs(c, f, n, v)})
<1> DEFINE state == State(c, f, n, Inside, A)
           at == [commit |-> c, file |-> f, number |-> n, inHunk |-> Inside]
           l == Line("plus", v)
           next == n + 1
<1>1. /\ state[1] = at /\ state[2] = A
      /\ at.commit = c /\ at.file = f /\ at.number = n /\ at.inHunk = Inside
  BY DEF State
<1>2. l.kind = "plus" /\ l.value = v
  BY DEF Line
<1> HIDE DEF state, at, l
<1>3. Scanned(state, l) = <<[at EXCEPT !.number = @ + 1], A \cup {ReportedAs(c, f, n, v)}>>
  BY <1>1, <1>2 DEF Scanned, StartsFile, ReportedAs, Inside, Outside
<1>4. [at EXCEPT !.number = @ + 1] =
        [commit |-> c, file |-> f, number |-> next, inHunk |-> Inside]
  <2>1. DOMAIN at = {"commit", "file", "number", "inHunk"}
    BY DEF at
  <2>2. [at EXCEPT !.number = @ + 1] =
          [x \in DOMAIN at |-> IF x = "number" THEN next ELSE at[x]]
    BY <1>1
  <2> HIDE DEF next
  <2> QED
    BY <1>1, <2>1, <2>2
<1> QED
  BY <1>3, <1>4 DEF state, l, State

\* Any other line ends the hunk.
LEMMA OtherScanned ==
  ASSUME NEW c \in Nat, NEW f, NEW n \in Nat, NEW h, NEW A, NEW v
  PROVE  Scanned(State(c, f, n, h, A), Line("other", v)) =
           State(c, f, n, Outside, A)
<1> DEFINE state == State(c, f, n, h, A)
           at == [commit |-> c, file |-> f, number |-> n, inHunk |-> h]
           l == Line("other", v)
<1>1. /\ state[1] = at /\ state[2] = A
      /\ at.commit = c /\ at.file = f /\ at.number = n /\ at.inHunk = h
  BY DEF State
<1>2. l.kind = "other" /\ l.value = v
  BY DEF Line
<1> HIDE DEF state, at, l
<1>3. Scanned(state, l) = <<[at EXCEPT !.inHunk = Outside], A>>
  BY <1>1, <1>2 DEF Scanned, StartsFile, Inside, Outside
<1>4. [at EXCEPT !.inHunk = Outside] =
        [commit |-> c, file |-> f, number |-> n, inHunk |-> Outside]
  <2>1. DOMAIN at = {"commit", "file", "number", "inHunk"}
    BY DEF at
  <2>2. [at EXCEPT !.inHunk = Outside] =
          [x \in DOMAIN at |-> IF x = "inHunk" THEN Outside ELSE at[x]]
    BY <1>1
  <2> QED
    BY <1>1, <2>1, <2>2
<1> QED
  BY <1>3, <1>4 DEF state, l, State

\* A removed line, and the note on a missing line break, change nothing.
LEMMA PassedOver ==
  ASSUME NEW c, NEW f, NEW n, NEW h, NEW A, NEW kind \in {"minus", "backslash"}, NEW v
  PROVE  Scanned(State(c, f, n, h, A), Line(kind, v)) = State(c, f, n, h, A)
<1> DEFINE state == State(c, f, n, h, A)
           l == Line(kind, v)
<1>1. l.kind = kind
  BY DEF Line
<1> HIDE DEF state, l
<1>2. Scanned(state, l) = state
  BY <1>1 DEF Scanned, StartsFile
<1> QED
  BY <1>2 DEF state, l

\* What a hunk adds when the parser is at commit c and file f.
HunkAdds(c, f, number, texts) ==
  {ReportedAs(c, f, number + k - 1, texts[k]) : k \in DOMAIN texts}

PlusLines(texts) == [k \in DOMAIN texts |-> Line("plus", texts[k])]

\* The added lines of a hunk are reported with the numbers they have.
LEMMA PlusRun ==
  ASSUME NEW c \in Nat, NEW f, NEW number \in Nat, NEW A, NEW texts \in Seq(Texts)
  PROVE  /\ PlusLines(texts) \in Seq(PrintedLine)
         /\ Run(PlusLines(texts), State(c, f, number, Inside, A)) =
              State(c, f, number + Len(texts), Inside, A \cup HunkAdds(c, f, number, texts))
<1> DEFINE start == State(c, f, number, Inside, A)
           X == {t \in Seq(Texts) :
                   /\ PlusLines(t) \in Seq(PrintedLine)
                   /\ Run(PlusLines(t), start) =
                        State(c, f, number + Len(t), Inside, A \cup HunkAdds(c, f, number, t))}
<1>1. <<>> \in X
  <2> DEFINE e == <<>>
  <2>1. PlusLines(e) = e /\ HunkAdds(c, f, number, e) = {} /\ Len(e) = 0
    BY DEF PlusLines, HunkAdds
  <2>2. Run(e, start) = start
    <3>1. 1 \in {1} /\ e \in Seq({1})
      OBVIOUS
    <3> HIDE DEF start
    <3> QED
      BY <3>1, RunLast
  <2>3. start = State(c, f, number + 0, Inside, A \cup {})
    OBVIOUS
  <2>4. e \in Seq(Texts) /\ e \in Seq(PrintedLine)
    OBVIOUS
  <2> HIDE DEF e, start
  <2>5. e \in X
    BY <2>1, <2>2, <2>3, <2>4
  <2> QED
    BY <2>5 DEF e
<1>2. ASSUME NEW t \in Seq(Texts), t \in X, NEW x \in Texts PROVE Append(t, x) \in X
  <2> DEFINE l == Line("plus", x)
             B == A \cup HunkAdds(c, f, number, t)
             n == number + Len(t)
  <2>1. PlusLines(t) \in Seq(PrintedLine) /\ Run(PlusLines(t), start) = State(c, f, n, Inside, B)
    BY <1>2
  <2>2. l \in PrintedLine
    BY DEF Line, PrintedLine, Kinds, Values, Texts
  <2>3. PlusLines(Append(t, x)) = Append(PlusLines(t), l)
    BY DEF PlusLines
  <2>4. Append(t, x) \in Seq(Texts) /\ Len(Append(t, x)) = Len(t) + 1 /\ Len(t) \in Nat
    OBVIOUS
  <2>5. HunkAdds(c, f, number, Append(t, x)) =
          HunkAdds(c, f, number, t) \cup {ReportedAs(c, f, n, x)}
    <3>1. DOMAIN Append(t, x) = DOMAIN t \cup {Len(t) + 1} /\ Append(t, x)[Len(t) + 1] = x
      OBVIOUS
    <3>2. \A k \in DOMAIN t : Append(t, x)[k] = t[k]
      OBVIOUS
    <3>3. number + (Len(t) + 1) - 1 = n
      BY <2>4
    <3> QED
      BY <3>1, <3>2, <3>3 DEF HunkAdds
  <2> HIDE DEF l, start
  <2>6. Append(PlusLines(t), l) \in Seq(PrintedLine)
    BY <2>1, <2>2
  <2>7. Run(Append(PlusLines(t), l), start) = Scanned(State(c, f, n, Inside, B), l)
    <3> DEFINE s == PlusLines(t)
    <3>1. s \in Seq(PrintedLine)
      BY <2>1
    <3> HIDE DEF s
    <3>2. Run(Append(s, l), start) = Scanned(Run(s, start), l)
      BY <2>2, <3>1, RunLast
    <3> QED
      BY <2>1, <3>2 DEF s
  <2>8. Scanned(State(c, f, n, Inside, B), l) = State(c, f, n + 1, Inside, B \cup {ReportedAs(c, f, n, x)})
    <3>1. n \in Nat
      OBVIOUS
    <3> HIDE DEF n, B
    <3>2. Scanned(State(c, f, n, Inside, B), Line("plus", x)) =
            State(c, f, n + 1, Inside, B \cup {ReportedAs(c, f, n, x)})
      BY <3>1, PlusScanned
    <3> QED
      BY <3>2 DEF l
  <2>9. n + 1 = number + Len(Append(t, x))
    BY <2>4
  <2>10. B \cup {ReportedAs(c, f, n, x)} = A \cup HunkAdds(c, f, number, Append(t, x))
    BY <2>5
  <2> HIDE DEF n, B
  <2> QED
    BY <2>3, <2>4, <2>6, <2>7, <2>8, <2>9, <2>10
<1>3. Seq(Texts) \subseteq X
  <2> HIDE DEF X
  <2> QED
    BY <1>1, <1>2, SequenceInduction
<1> QED
  BY <1>3

\* The removed lines of a hunk change nothing.
LEMMA MinusRun ==
  ASSUME NEW c, NEW f, NEW number, NEW h, NEW A, NEW removed \in Nat
  PROVE  /\ Repeat(Line("minus", "none"), removed) \in Seq(PrintedLine)
         /\ Run(Repeat(Line("minus", "none"), removed), State(c, f, number, h, A)) =
              State(c, f, number, h, A)
<1> DEFINE start == State(c, f, number, h, A)
           l == Line("minus", "none")
           X == {n \in Nat : Repeat(l, n) \in Seq(PrintedLine) /\ Run(Repeat(l, n), start) = start}
<1>1. l \in PrintedLine /\ Scanned(start, l) = start
  <2>1. l \in PrintedLine
    BY DEF Line, PrintedLine, Kinds, Values
  <2>2. Scanned(State(c, f, number, h, A), Line("minus", "none")) = State(c, f, number, h, A)
    BY PassedOver
  <2> QED
    BY <2>1, <2>2
<1> HIDE DEF l, start
<1>2. 0 \in X
  <2> DEFINE e == <<>>
  <2>1. Repeat(l, 0) = e /\ e \in Seq(PrintedLine)
    BY DEF Repeat
  <2>2. Run(e, start) = start
    BY <1>1, <2>1, RunLast
  <2> HIDE DEF e
  <2> QED
    BY <2>1, <2>2
<1>3. ASSUME NEW n \in Nat, n \in X PROVE n + 1 \in X
  <2>1. Repeat(l, n) \in Seq(PrintedLine) /\ Run(Repeat(l, n), start) = start
    BY <1>3
  <2>2. Repeat(l, n + 1) = Append(Repeat(l, n), l)
    BY DEF Repeat
  <2>3. Append(Repeat(l, n), l) \in Seq(PrintedLine)
    BY <1>1, <2>1
  <2>4. Run(Append(Repeat(l, n), l), start) = Scanned(start, l)
    BY <1>1, <2>1, RunLast
  <2>5. Repeat(l, n + 1) \in Seq(PrintedLine) /\ Run(Repeat(l, n + 1), start) = start
    BY <1>1, <2>2, <2>3, <2>4
  <2> QED
    BY <2>5
<1>4. Nat \subseteq X
  <2> HIDE DEF X
  <2> QED
    BY <1>2, <1>3, SetInduction
<1> QED
  BY <1>4 DEF l, start

\* One line, and one sequence of lines after another.
LEMMA RunOne ==
  ASSUME NEW S, NEW l \in S, NEW state
  PROVE  <<l>> \in Seq(S) /\ Run(<<l>>, state) = Scanned(state, l)
<1> DEFINE e == <<>>
<1>1. e \in Seq(S) /\ <<l>> = Append(e, l) /\ <<l>> \in Seq(S)
  OBVIOUS
<1>2. Run(e, state) = state
  BY <1>1, RunLast
<1> HIDE DEF e
<1>3. Run(Append(e, l), state) = Scanned(Run(e, state), l)
  BY <1>1, RunLast
<1> QED
  BY <1>1, <1>2, <1>3

\* Two runs, one after the other.
LEMMA RunThen ==
  ASSUME NEW S, NEW s \in Seq(S), NEW t \in Seq(S), NEW first, NEW then, NEW last,
         Run(s, first) = then, Run(t, then) = last
  PROVE  s \o t \in Seq(S) /\ Run(s \o t, first) = last
<1>1. s \o t \in Seq(S)
  OBVIOUS
<1>2. Run(s \o t, first) = Run(t, Run(s, first))
  BY RunJoined
<1> QED
  BY <1>1, <1>2

\* The number after a hunk, and what the hunk adds.
After(hunk) == hunk.number + Len(hunk.texts)
Adds(c, f, hunk) == HunkAdds(c, f, hunk.number, hunk.texts)

\* Over the lines of a hunk the parser reports exactly the lines the hunk adds.
LEMMA HunkRun ==
  ASSUME NEW c \in Nat, NEW f, NEW n \in Nat, NEW h, NEW A, NEW hunk \in Hunks
  PROVE  /\ HunkLines(hunk) \in Seq(PrintedLine)
         /\ After(hunk) \in Nat
         /\ Run(HunkLines(hunk), State(c, f, n, h, A)) =
              State(c, f, After(hunk), Inside, A \cup Adds(c, f, hunk))
<1>1. hunk.number \in Nat /\ hunk.removed \in Nat /\ hunk.texts \in Seq(Texts)
  BY DEF Hunks, Texts
<1>2. After(hunk) \in Nat
  BY <1>1 DEF After
<1>n. PICK N \in Nat : N = hunk.number
  BY <1>1
<1>r. PICK removed \in Nat : removed = hunk.removed
  BY <1>1
<1>m. PICK m \in Nat : m = After(hunk)
  BY <1>2
<1>t. PICK texts \in Seq(Texts) : texts = hunk.texts
  BY <1>1
<1> DEFINE B == A \cup HunkAdds(c, f, N, texts)
           head == <<Line("hunk", N)>>
           minus == Repeat(Line("minus", "none"), removed)
           plus == PlusLines(texts)
           rest == IF hunk.broken THEN <<Line("backslash", "none")>> ELSE <<>>
           s0 == State(c, f, n, h, A)
           s1 == State(c, f, N, Inside, A)
           s2 == State(c, f, m, Inside, B)
<1>3. head \in Seq(PrintedLine) /\ Run(head, s0) = s1
  <2>1. Line("hunk", N) \in PrintedLine
    BY DEF Line, PrintedLine, Kinds, Values
  <2>2. Scanned(s0, Line("hunk", N)) = s1
    BY HunkScanned
  <2> HIDE DEF s0, s1
  <2> QED
    BY <2>1, <2>2, RunOne
<1>4. minus \in Seq(PrintedLine) /\ Run(minus, s1) = s1
  BY MinusRun
<1>5. plus \in Seq(PrintedLine) /\ Run(plus, s1) = s2
  <2>1. plus \in Seq(PrintedLine) /\ Run(plus, s1) = State(c, f, N + Len(texts), Inside, B)
    BY PlusRun
  <2>2. N + Len(texts) = m
    BY <1>n, <1>m, <1>t DEF After
  <2> QED
    BY <2>1, <2>2
<1>6. rest \in Seq(PrintedLine) /\ Run(rest, s2) = s2
  <2>1. CASE hunk.broken
    <3> DEFINE l == Line("backslash", "none")
    <3>1. l \in PrintedLine
      BY DEF Line, PrintedLine, Kinds, Values
    <3>2. Scanned(s2, l) = s2
      <4> HIDE DEF B
      <4> QED
        BY PassedOver
    <3> HIDE DEF l, s2
    <3>3. <<l>> \in Seq(PrintedLine) /\ Run(<<l>>, s2) = s2
      BY <3>1, <3>2, RunOne
    <3>4. rest = <<l>>
      BY <2>1 DEF l
    <3> QED
      BY <3>3, <3>4
  <2>2. CASE ~hunk.broken
    <3> DEFINE e == <<>>
    <3>1. 1 \in {1} /\ e \in Seq({1}) /\ e \in Seq(PrintedLine) /\ rest = e
      BY <2>2
    <3> HIDE DEF e, s2, rest
    <3>2. Run(e, s2) = s2
      BY <3>1, RunLast DEF e
    <3> QED
      BY <3>1, <3>2
  <2> QED
    BY <2>1, <2>2
<1>7. HunkLines(hunk) = ((head \o minus) \o plus) \o rest
  BY <1>n, <1>r, <1>t DEF HunkLines, PlusLines
<1> HIDE DEF head, minus, plus, rest, s0, s1, s2
<1>8. head \o minus \in Seq(PrintedLine) /\ Run(head \o minus, s0) = s1
  BY <1>3, <1>4, RunThen
<1>9. (head \o minus) \o plus \in Seq(PrintedLine) /\ Run((head \o minus) \o plus, s0) = s2
  <2> DEFINE before == head \o minus
  <2>1. before \in Seq(PrintedLine) /\ Run(before, s0) = s1
    BY <1>8
  <2> HIDE DEF before
  <2>2. before \o plus \in Seq(PrintedLine) /\ Run(before \o plus, s0) = s2
    BY <1>5, <2>1, RunThen
  <2> QED
    BY <2>2 DEF before
<1>10. /\ ((head \o minus) \o plus) \o rest \in Seq(PrintedLine)
       /\ Run(((head \o minus) \o plus) \o rest, s0) = s2
  <2> DEFINE before == (head \o minus) \o plus
  <2>1. before \in Seq(PrintedLine) /\ Run(before, s0) = s2
    BY <1>9
  <2> HIDE DEF before
  <2>2. before \o rest \in Seq(PrintedLine) /\ Run(before \o rest, s0) = s2
    BY <1>6, <2>1, RunThen
  <2> QED
    BY <2>2 DEF before
<1> QED
  BY <1>n, <1>m, <1>t, <1>7, <1>10 DEF s0, s2, Adds

\* What the hunks of a file add.
AllAdds(c, f, hunks) == UNION {Adds(c, f, hunk) : hunk \in ToSet(hunks)}

HunksLines(hunks) == FlattenSeq([k \in DOMAIN hunks |-> HunkLines(hunks[k])])

\* The parser gets from state to one at commit c and file f that has reported B.
LeadsTo(lines, state, c, f, B) == \E n \in Nat : \E h : Run(lines, state) = State(c, f, n, h, B)

\* Over the lines of several hunks it reports exactly what they add.
LEMMA HunksRun ==
  ASSUME NEW c \in Nat, NEW f, NEW n \in Nat, NEW h, NEW A, NEW hunks \in Seq(Hunks)
  PROVE  /\ HunksLines(hunks) \in Seq(PrintedLine)
         /\ LeadsTo(HunksLines(hunks), State(c, f, n, h, A), c, f, A \cup AllAdds(c, f, hunks))
<1> DEFINE start == State(c, f, n, h, A)
           X == {s \in Seq(Hunks) :
                   /\ HunksLines(s) \in Seq(PrintedLine)
                   /\ \E n2 \in Nat : \E h2 :
                        Run(HunksLines(s), start) = State(c, f, n2, h2, A \cup AllAdds(c, f, s))}
           parts(s) == [k \in DOMAIN s |-> HunkLines(s[k])]
<1>1. ASSUME NEW s \in Seq(Hunks) PROVE parts(s) \in Seq(Seq(PrintedLine))
  <2>1. \A k \in DOMAIN s : s[k] \in Hunks
    OBVIOUS
  <2>2. \A hunk \in Hunks : HunkLines(hunk) \in Seq(PrintedLine)
    BY HunkRun
  <2>3. DOMAIN s = 1..Len(s) /\ Len(s) \in Nat
    OBVIOUS
  <2> QED
    BY <2>1, <2>2, <2>3
<1>2. <<>> \in X
  <2> DEFINE e == <<>>
  <2>1. parts(e) = e /\ AllAdds(c, f, e) = {}
    BY DEF AllAdds, ToSet
  <2>2. FlattenSeq(e) = e /\ Run(e, start) = start
    <3>1. 1 \in {1} /\ e \in Seq({1}) /\ e \in Seq(Seq({1}))
      OBVIOUS
    <3> HIDE DEF start
    <3> QED
      BY <3>1, RunLast, FlattenLast
  <2>3. start = State(c, f, n, h, A \cup {})
    OBVIOUS
  <2>4. e \in Seq(Hunks) /\ e \in Seq(PrintedLine)
    OBVIOUS
  <2>5. HunksLines(e) = e
    BY <2>1, <2>2 DEF HunksLines
  <2> HIDE DEF e, start, parts
  <2>6. e \in X
    BY <2>1, <2>2, <2>3, <2>4, <2>5
  <2> QED
    BY <2>6 DEF e
<1>3. ASSUME NEW s \in Seq(Hunks), s \in X, NEW hunk \in Hunks PROVE Append(s, hunk) \in X
  <2> DEFINE B == A \cup AllAdds(c, f, s)
             m == After(hunk)
             C == B \cup Adds(c, f, hunk)
             x == HunkLines(hunk)
             now == HunksLines(s)
  <2>1. now \in Seq(PrintedLine)
    BY <1>3
  <2>0. PICK n2 \in Nat : \E h2 : Run(now, start) = State(c, f, n2, h2, B)
    BY <1>3
  <2>2. PICK h2 : Run(now, start) = State(c, f, n2, h2, B)
    BY <2>0
  <2>3. x \in Seq(PrintedLine) /\ m \in Nat /\ Run(x, State(c, f, n2, h2, B)) = State(c, f, m, Inside, C)
    <3> HIDE DEF B
    <3> QED
      BY HunkRun
  <2>4. parts(Append(s, hunk)) = Append(parts(s), x)
    OBVIOUS
  <2>5. HunksLines(Append(s, hunk)) = now \o x
    <3> DEFINE p == parts(s)
    <3>1. p \in Seq(Seq(PrintedLine)) /\ x \in Seq(PrintedLine)
      BY <1>1, <2>3
    <3>2. HunksLines(Append(s, hunk)) = FlattenSeq(Append(p, x)) /\ now = FlattenSeq(p)
      BY <2>4 DEF HunksLines
    <3> HIDE DEF p, x, now
    <3> QED
      BY <3>1, <3>2, FlattenLast
  <2>6. Append(s, hunk) \in Seq(Hunks)
    OBVIOUS
  <2>7. A \cup AllAdds(c, f, Append(s, hunk)) = C
    <3>1. ToSet(Append(s, hunk)) = ToSet(s) \cup {hunk}
      BY ElementsAppended
    <3> QED
      BY <3>1 DEF AllAdds
  <2> DEFINE s1 == State(c, f, n2, h2, B)
             s2 == State(c, f, m, Inside, C)
  <2>8. now \o x \in Seq(PrintedLine) /\ Run(now \o x, start) = s2
    <3>1. Run(now, start) = s1 /\ Run(x, s1) = s2
      BY <2>2, <2>3
    <3> HIDE DEF now, x, start, s1, s2
    <3> QED
      BY <2>1, <2>3, <3>1, RunThen
  <2>9. HunksLines(Append(s, hunk)) \in Seq(PrintedLine)
    BY <2>5, <2>8
  <2>10. Run(HunksLines(Append(s, hunk)), start) =
           State(c, f, m, Inside, A \cup AllAdds(c, f, Append(s, hunk)))
    BY <2>5, <2>7, <2>8
  <2> HIDE DEF start, m
  <2> QED
    BY <2>3, <2>6, <2>9, <2>10
<1>4. Seq(Hunks) \subseteq X
  <2> HIDE DEF X
  <2> QED
    BY <1>2, <1>3, SequenceInduction
<1> QED
  BY <1>4 DEF LeadsTo

-----------------------------------------------------------------------------
(* A file's change *)

Honest ==
  {change \in Changes :
     /\ change.name = "binary" => change.hunks = <<>>
     /\ change.name = "deleted" => \A hunk \in ToSet(change.hunks) : hunk.texts = <<>>}

\* A run over two lines.
LEMMA RunTwo ==
  ASSUME NEW l1 \in PrintedLine, NEW l2 \in PrintedLine, NEW state
  PROVE  <<l1, l2>> \in Seq(PrintedLine) /\ Run(<<l1, l2>>, state) = Scanned(Scanned(state, l1), l2)
<1>1. <<l1>> \in Seq(PrintedLine) /\ Run(<<l1>>, state) = Scanned(state, l1)
  BY RunOne
<1>2. <<l1, l2>> = Append(<<l1>>, l2) /\ <<l1, l2>> \in Seq(PrintedLine)
  OBVIOUS
<1> DEFINE one == <<l1>>
<1>3. Run(Append(one, l2), state) = Scanned(Run(one, state), l2)
  <2>1. one \in Seq(PrintedLine)
    BY <1>1
  <2> HIDE DEF one
  <2> QED
    BY <2>1, RunLast
<1> QED
  BY <1>1, <1>2, <1>3

\* The names a header gives without quotes, and those of all files with lines.
PlainNames == {"plain", "spaced"}
ShownNames == {"plain", "spaced", "quoted"}

\* The header names the file when git prints its name without quotes.
LEMMA HeaderRun ==
  ASSUME NEW c \in Nat, NEW f, NEW n \in Nat, NEW A, NEW change \in Changes
  PROVE  /\ Header(change) \in Seq(PrintedLine)
         /\ \E f2 : /\ Run(Header(change), State(c, f, n, Outside, A)) = State(c, f2, n, Outside, A)
                    /\ change.name \in PlainNames => f2 = PrintedName(change)
<1> DEFINE minus == Line("minus", "none")
           name == PrintedName(change)
           file == Line("file", name)
           quoted == Line("other", "quoted")
           null == Line("null", "none")
           binary == Line("other", "binary")
           s0 == State(c, f, n, Outside, A)
<1>0. change.name \in {"plain", "spaced", "quoted", "deleted", "binary"} /\ change.file \in STRING
  BY DEF Changes
<1>1. name \in Values
  BY <1>0 DEF PrintedName, Values
<1>2. /\ minus \in PrintedLine /\ file \in PrintedLine /\ quoted \in PrintedLine
      /\ null \in PrintedLine /\ binary \in PrintedLine
  <2> HIDE DEF name
  <2>1. {"none", "quoted", "binary"} \subseteq Values
    BY DEF Values
  <2> QED
    BY <1>1, <2>1 DEF Line, PrintedLine, Kinds
<1> HIDE DEF name
<1>3. Scanned(s0, minus) = s0
  BY PassedOver
<1>4. /\ Scanned(s0, file) = State(c, name, n, Outside, A)
      /\ Scanned(s0, quoted) = s0
      /\ Scanned(s0, null) = State(c, NoFile, n, Outside, A)
      /\ Scanned(s0, binary) = s0
  <2>1. Scanned(s0, file) = State(c, name, n, Outside, A)
    BY FileScanned
  <2>2. Scanned(s0, null) = State(c, NoFile, n, Outside, A)
    BY NullScanned
  <2>3. Scanned(s0, quoted) = s0
    BY OtherScanned
  <2>4. Scanned(s0, binary) = s0
    BY OtherScanned
  <2> QED
    BY <2>1, <2>2, <2>3, <2>4
<1>5. CASE change.name \in {"plain", "spaced"}
  <2>1. Header(change) = <<minus, file>>
    BY <1>5 DEF Header, name
  <2> HIDE DEF minus, file, s0
  <2>2. /\ <<minus, file>> \in Seq(PrintedLine)
        /\ Run(<<minus, file>>, s0) = State(c, name, n, Outside, A)
    BY <1>2, <1>3, <1>4, RunTwo
  <2> QED
    BY <2>1, <2>2 DEF s0, name
<1>6. CASE change.name = "quoted"
  <2>1. Header(change) = <<minus, quoted>>
    BY <1>6 DEF Header
  <2> HIDE DEF minus, quoted, s0
  <2>2. <<minus, quoted>> \in Seq(PrintedLine) /\ Run(<<minus, quoted>>, s0) = s0
    BY <1>2, <1>3, <1>4, RunTwo
  <2> QED
    BY <1>6, <2>1, <2>2 DEF s0, PlainNames
<1>7. CASE change.name = "deleted"
  <2>1. Header(change) = <<minus, null>>
    BY <1>7 DEF Header
  <2> HIDE DEF minus, null, s0
  <2>2. /\ <<minus, null>> \in Seq(PrintedLine)
        /\ Run(<<minus, null>>, s0) = State(c, NoFile, n, Outside, A)
    BY <1>2, <1>3, <1>4, RunTwo
  <2> QED
    BY <1>7, <2>1, <2>2 DEF s0, PlainNames
<1>8. CASE change.name = "binary"
  <2>1. Header(change) = <<binary>>
    BY <1>8 DEF Header
  <2> HIDE DEF binary, s0
  <2>2. <<binary>> \in Seq(PrintedLine) /\ Run(<<binary>>, s0) = s0
    BY <1>2, <1>4, RunOne
  <2> QED
    BY <1>8, <2>1, <2>2 DEF s0, PlainNames
<1> QED
  BY <1>0, <1>5, <1>6, <1>7, <1>8

\* The lines of a change report its hunks, under its name when git prints that.
ReportsChange(change, state, c, A) ==
  \E f : /\ LeadsTo(ChangeLines(change), state, c, f, A \cup AllAdds(c, f, change.hunks))
         /\ change.name \in PlainNames => f = PrintedName(change)

\* Over the lines of a change it reports what the hunks add, under the name of the
\* file when git shows it plainly.
LEMMA ChangeRun ==
  ASSUME NEW c \in Nat, NEW f, NEW n \in Nat, NEW h, NEW A, NEW change \in Changes
  PROVE  /\ ChangeLines(change) \in Seq(PrintedLine)
         /\ ReportsChange(change, State(c, f, n, h, A), c, A)
<1> DEFINE diff == Line("other", "diff")
           header == Header(change)
           body == HunksLines(change.hunks)
           s0 == State(c, f, n, h, A)
           s1 == State(c, f, n, Outside, A)
<1>1. <<diff>> \in Seq(PrintedLine) /\ Run(<<diff>>, s0) = s1
  <2>1. diff \in PrintedLine
    BY DEF Line, PrintedLine, Kinds, Values
  <2>2. Scanned(s0, diff) = s1
    BY OtherScanned
  <2> HIDE DEF diff, s0, s1
  <2> QED
    BY <2>1, <2>2, RunOne
<1>2. header \in Seq(PrintedLine)
  BY HeaderRun
<1>3. PICK f2 : Run(header, s1) = State(c, f2, n, Outside, A) /\ (change.name \in PlainNames => f2 = PrintedName(change))
  <2>1. PICK r : r = Run(Header(change), State(c, f, n, Outside, A))
    OBVIOUS
  <2> QED
    BY <2>1, HeaderRun
<1> DEFINE s2 == State(c, f2, n, Outside, A)
           B == A \cup AllAdds(c, f2, change.hunks)
<1>4. PICK hunks \in Seq(Hunks) : hunks = change.hunks
  BY DEF Changes
<1>5. HunksLines(hunks) \in Seq(PrintedLine)
  BY HunksRun
<1>6. LeadsTo(HunksLines(hunks), s2, c, f2, A \cup AllAdds(c, f2, hunks))
  BY HunksRun
<1>7. body \in Seq(PrintedLine)
  BY <1>4, <1>5
<1>8. PICK n2 \in Nat : \E h2 : Run(body, s2) = State(c, f2, n2, h2, B)
  BY <1>4, <1>6 DEF LeadsTo
<1>9. PICK h2 : Run(body, s2) = State(c, f2, n2, h2, B)
  BY <1>8
<1> DEFINE s3 == State(c, f2, n2, h2, B)
<1>10. ChangeLines(change) = (<<diff>> \o header) \o body
  BY DEF ChangeLines, HunksLines
<1>11. Run(header, s1) = s2 /\ Run(body, s2) = s3
  BY <1>3, <1>9
<1> HIDE DEF header, body, s0, s1, s2, s3
<1>12. <<diff>> \o header \in Seq(PrintedLine) /\ Run(<<diff>> \o header, s0) = s2
  <2> DEFINE one == <<diff>>
  <2>1. one \in Seq(PrintedLine) /\ Run(one, s0) = s1
    BY <1>1
  <2> HIDE DEF one
  <2>2. one \o header \in Seq(PrintedLine) /\ Run(one \o header, s0) = s2
    BY <1>2, <1>11, <2>1, RunThen
  <2> QED
    BY <2>2 DEF one
<1>13. ChangeLines(change) \in Seq(PrintedLine) /\ Run(ChangeLines(change), s0) = s3
  <2> DEFINE before == <<diff>> \o header
  <2>1. before \in Seq(PrintedLine) /\ Run(before, s0) = s2
    BY <1>12
  <2> HIDE DEF before
  <2>2. before \o body \in Seq(PrintedLine) /\ Run(before \o body, s0) = s3
    BY <1>7, <1>11, <2>1, RunThen
  <2> QED
    BY <1>10, <2>2 DEF before
<1> QED
  BY <1>3, <1>13 DEF s0, s3, LeadsTo, ReportsChange

-----------------------------------------------------------------------------
(* What is reported and what was added *)

Unnamed(lines) == {[l EXCEPT !.file = NoFile] : l \in lines}

\* What AddedLinesExact says: all of some lines, and, but for the file, others.
Covers(reported, lines, more) == lines \subseteq reported /\ Unnamed(reported) = Unnamed(more)

AddedIn(n, commit, names) ==
  UNION {AddedBy(n, change) : change \in {c \in ToSet(commit) : c.name \in names}}
AddedOver(commits, names) == UNION {AddedIn(n, commits[n], names) : n \in DOMAIN commits}

\* What is covered stays covered when both sides grow alike.
LEMMA CoversMore ==
  ASSUME NEW A, NEW S, NEW T, Covers(A, S, T), NEW B, NEW s, NEW t, Covers(B, s, t)
  PROVE  Covers(A \cup B, S \cup s, T \cup t)
<1>1. \A x, y : Unnamed(x \cup y) = Unnamed(x) \cup Unnamed(y)
  BY DEF Unnamed
<1>2. S \cup s \subseteq A \cup B
  BY DEF Covers
<1>3. Unnamed(A \cup B) = Unnamed(T \cup t)
  <2>1. Unnamed(A) = Unnamed(T) /\ Unnamed(B) = Unnamed(t)
    BY DEF Covers
  <2>2. Unnamed(A \cup B) = Unnamed(A) \cup Unnamed(B) /\ Unnamed(T \cup t) = Unnamed(T) \cup Unnamed(t)
    BY <1>1
  <2> QED
    BY <2>1, <2>2
<1> QED
  BY <1>2, <1>3 DEF Covers

\* Under whatever name, the hunks of a change add its lines.
LEMMA ChangeCovered ==
  ASSUME NEW c, NEW f, NEW change \in Honest, change.name \in PlainNames => f = PrintedName(change)
  PROVE  Covers(AllAdds(c, f, change.hunks),
                IF change.name \in PlainNames THEN AddedBy(c, change) ELSE {},
                IF change.name \in ShownNames THEN AddedBy(c, change) ELSE {})
<1> DEFINE hunks == change.hunks
<1>1. AddedBy(c, change) = AllAdds(c, PrintedName(change), hunks)
  BY DEF AddedBy, AllAdds, Adds, HunkAdds, ReportedAs
<1>2. \A g : Unnamed(AllAdds(c, g, hunks)) = AllAdds(c, NoFile, hunks)
  <2> SUFFICES ASSUME NEW g PROVE Unnamed(AllAdds(c, g, hunks)) = AllAdds(c, NoFile, hunks)
    OBVIOUS
  <2>1. \A number, text :
          [ReportedAs(c, g, number, text) EXCEPT !.file = NoFile] = ReportedAs(c, NoFile, number, text)
    BY DEF ReportedAs
  <2>2. ASSUME NEW x \in AllAdds(c, g, hunks) PROVE [x EXCEPT !.file = NoFile] \in AllAdds(c, NoFile, hunks)
    <3>1. PICK hunk \in ToSet(hunks) : x \in HunkAdds(c, g, hunk.number, hunk.texts)
      BY DEF AllAdds, Adds
    <3>2. PICK k \in DOMAIN hunk.texts : x = ReportedAs(c, g, hunk.number + k - 1, hunk.texts[k])
      BY <3>1 DEF HunkAdds
    <3>3. [x EXCEPT !.file = NoFile] = ReportedAs(c, NoFile, hunk.number + k - 1, hunk.texts[k])
      BY <2>1, <3>2
    <3>4. [x EXCEPT !.file = NoFile] \in HunkAdds(c, NoFile, hunk.number, hunk.texts)
      BY <3>3 DEF HunkAdds
    <3> QED
      BY <3>1, <3>4 DEF AllAdds, Adds
  <2>3. ASSUME NEW y \in AllAdds(c, NoFile, hunks)
        PROVE  \E x \in AllAdds(c, g, hunks) : y = [x EXCEPT !.file = NoFile]
    <3>1. PICK hunk \in ToSet(hunks) : y \in HunkAdds(c, NoFile, hunk.number, hunk.texts)
      BY DEF AllAdds, Adds
    <3>2. PICK k \in DOMAIN hunk.texts : y = ReportedAs(c, NoFile, hunk.number + k - 1, hunk.texts[k])
      BY <3>1 DEF HunkAdds
    <3> DEFINE x == ReportedAs(c, g, hunk.number + k - 1, hunk.texts[k])
    <3>3. x \in HunkAdds(c, g, hunk.number, hunk.texts)
      BY DEF HunkAdds
    <3>4. x \in AllAdds(c, g, hunks) /\ y = [x EXCEPT !.file = NoFile]
      BY <2>1, <3>1, <3>2, <3>3 DEF AllAdds, Adds
    <3> QED
      BY <3>4
  <2> QED
    BY <2>2, <2>3 DEF Unnamed
<1>3. change.name \in {"plain", "spaced", "quoted", "deleted", "binary"}
  BY DEF Honest, Changes
<1>4. ASSUME change.name \notin ShownNames PROVE AllAdds(c, f, hunks) = {}
  <2>1. \A hunk \in ToSet(hunks) : DOMAIN hunk.texts = {}
    <3>1. CASE change.name = "deleted"
      BY <3>1 DEF Honest
    <3>2. CASE change.name = "binary"
      BY <3>2 DEF Honest, ToSet
    <3> QED
      BY <1>3, <1>4, <3>1, <3>2 DEF ShownNames
  <2> QED
    BY <2>1 DEF AllAdds, Adds, HunkAdds
<1>5. Unnamed({}) = {}
  BY DEF Unnamed
<1> HIDE DEF hunks
<1>6. CASE change.name \in ShownNames
  BY <1>1, <1>2, <1>6 DEF Covers, hunks, PlainNames, ShownNames
<1>7. CASE change.name \notin ShownNames
  BY <1>4, <1>5, <1>7 DEF Covers, hunks, PlainNames, ShownNames
<1> QED
  BY <1>6, <1>7

-----------------------------------------------------------------------------
(* A commit, and the history *)

\* The lines bring the parser from state to commit c, having reported what covers
\* S and T.
Reaches(lines, state, c, S, T) == \E f, B : Covers(B, S, T) /\ LeadsTo(lines, state, c, f, B)

\* A change more adds its lines to those of the commit.
LEMMA AddedLast ==
  ASSUME NEW c, NEW names, NEW commit \in Seq(Honest), NEW change \in Honest
  PROVE  AddedIn(c, Append(commit, change), names) =
           AddedIn(c, commit, names) \cup (IF change.name \in names THEN AddedBy(c, change) ELSE {})
<1>1. ToSet(Append(commit, change)) = ToSet(commit) \cup {change}
  BY ElementsAppended
<1>2. {x \in ToSet(Append(commit, change)) : x.name \in names} =
        {x \in ToSet(commit) : x.name \in names} \cup (IF change.name \in names THEN {change} ELSE {})
  BY <1>1
<1> QED
  BY <1>2 DEF AddedIn

ChangesLines(commit) == FlattenSeq([k \in DOMAIN commit |-> ChangeLines(commit[k])])

\* Over the changes of a commit it reports what the commit adds.
LEMMA ChangesRun ==
  ASSUME NEW c \in Nat, NEW f, NEW n \in Nat, NEW h, NEW A, NEW S, NEW T, Covers(A, S, T),
         NEW commit \in Seq(Honest)
  PROVE  /\ ChangesLines(commit) \in Seq(PrintedLine)
         /\ Reaches(ChangesLines(commit), State(c, f, n, h, A), c,
                    S \cup AddedIn(c, commit, PlainNames), T \cup AddedIn(c, commit, ShownNames))
<1> DEFINE start == State(c, f, n, h, A)
           S1(s) == S \cup AddedIn(c, s, PlainNames)
           T1(s) == T \cup AddedIn(c, s, ShownNames)
           X == {s \in Seq(Honest) :
                   /\ ChangesLines(s) \in Seq(PrintedLine)
                   /\ Reaches(ChangesLines(s), start, c, S1(s), T1(s))}
           parts(s) == [k \in DOMAIN s |-> ChangeLines(s[k])]
<1>h. \A x \in Honest : x \in Changes
  BY DEF Honest
<1>1. ASSUME NEW s \in Seq(Honest) PROVE parts(s) \in Seq(Seq(PrintedLine))
  <2>1. \A k \in DOMAIN s : s[k] \in Honest
    OBVIOUS
  <2>2. \A x \in Changes : ChangeLines(x) \in Seq(PrintedLine)
    <3>1. 0 \in Nat
      OBVIOUS
    <3> QED
      BY <3>1, ChangeRun
  <2>3. DOMAIN s = 1..Len(s) /\ Len(s) \in Nat
    OBVIOUS
  <2> QED
    BY <1>h, <2>1, <2>2, <2>3
<1>2. <<>> \in X
  <2> DEFINE e == <<>>
  <2>1. parts(e) = e
    OBVIOUS
  <2>2. AddedIn(c, e, PlainNames) = {} /\ AddedIn(c, e, ShownNames) = {}
    BY DEF AddedIn, ToSet
  <2>3. FlattenSeq(e) = e /\ Run(e, start) = start
    <3>1. 1 \in {1} /\ e \in Seq({1}) /\ e \in Seq(Seq({1}))
      OBVIOUS
    <3> HIDE DEF start
    <3> QED
      BY <3>1, RunLast, FlattenLast
  <2>4. e \in Seq(Honest) /\ e \in Seq(PrintedLine)
    OBVIOUS
  <2>5. ChangesLines(e) = e
    BY <2>1, <2>3 DEF ChangesLines
  <2> HIDE DEF e, parts
  <2>6. LeadsTo(e, start, c, f, A)
    BY <2>3 DEF LeadsTo
  <2>7. Reaches(e, start, c, S, T)
    <3> HIDE DEF start
    <3> QED
      BY <2>6 DEF Reaches
  <2>8. S1(e) = S /\ T1(e) = T
    BY <2>2
  <2> HIDE DEF start, S1, T1
  <2>9. e \in X
    BY <2>4, <2>5, <2>7, <2>8
  <2> QED
    BY <2>9 DEF e
<1>3. ASSUME NEW s \in Seq(Honest), s \in X, NEW change \in Honest PROVE Append(s, change) \in X
  <2> DEFINE x == ChangeLines(change)
             now == ChangesLines(s)
             plain == IF change.name \in PlainNames THEN AddedBy(c, change) ELSE {}
             shown == IF change.name \in ShownNames THEN AddedBy(c, change) ELSE {}
  <2>1. now \in Seq(PrintedLine) /\ Reaches(now, start, c, S1(s), T1(s))
    BY <1>3
  <2>2. PICK f1, B : Covers(B, S1(s), T1(s)) /\ LeadsTo(now, start, c, f1, B)
    BY <2>1 DEF Reaches
  <2>3. PICK n1 \in Nat : \E h1 : Run(now, start) = State(c, f1, n1, h1, B)
    BY <2>2 DEF LeadsTo
  <2>4. PICK h1 : Run(now, start) = State(c, f1, n1, h1, B)
    BY <2>3
  <2> DEFINE s1 == State(c, f1, n1, h1, B)
  <2>5. x \in Seq(PrintedLine)
    BY <1>h, ChangeRun
  <2>6. PICK f2 : /\ LeadsTo(x, s1, c, f2, B \cup AllAdds(c, f2, change.hunks))
                  /\ change.name \in PlainNames => f2 = PrintedName(change)
    <3>1. change \in Changes
      BY <1>h
    <3>2. ReportsChange(change, State(c, f1, n1, h1, B), c, B)
      BY <3>1, ChangeRun
    <3> QED
      BY <3>2 DEF ReportsChange
  <2> DEFINE D == AllAdds(c, f2, change.hunks)
             C == B \cup D
  <2>7. PICK n2 \in Nat : \E h2 : Run(x, s1) = State(c, f2, n2, h2, C)
    BY <2>6 DEF LeadsTo
  <2>8. PICK h2 : Run(x, s1) = State(c, f2, n2, h2, C)
    BY <2>7
  <2> DEFINE s2 == State(c, f2, n2, h2, C)
  <2>9. Covers(D, plain, shown)
    BY <2>6, ChangeCovered
  <2>10. /\ S1(Append(s, change)) = S1(s) \cup plain
         /\ T1(Append(s, change)) = T1(s) \cup shown
    <3>1. AddedIn(c, Append(s, change), PlainNames) = AddedIn(c, s, PlainNames) \cup plain
      BY AddedLast
    <3>2. AddedIn(c, Append(s, change), ShownNames) = AddedIn(c, s, ShownNames) \cup shown
      BY AddedLast
    <3> HIDE DEF plain, shown
    <3> QED
      BY <3>1, <3>2
  <2>11. Covers(C, S1(Append(s, change)), T1(Append(s, change)))
    <3> HIDE DEF D, S1, T1, plain, shown
    <3> QED
      BY <2>2, <2>9, <2>10, CoversMore
  <2>12. ChangesLines(Append(s, change)) = now \o x
    <3>1. parts(Append(s, change)) = Append(parts(s), x)
      OBVIOUS
    <3> DEFINE p == parts(s)
    <3>2. p \in Seq(Seq(PrintedLine))
      BY <1>1
    <3>3. ChangesLines(Append(s, change)) = FlattenSeq(Append(p, x)) /\ now = FlattenSeq(p)
      BY <3>1 DEF ChangesLines
    <3> HIDE DEF p, x, now
    <3> QED
      BY <2>5, <3>2, <3>3, FlattenLast
  <2>13. now \o x \in Seq(PrintedLine) /\ Run(now \o x, start) = s2
    <3>1. Run(now, start) = s1 /\ Run(x, s1) = s2
      BY <2>4, <2>8
    <3> HIDE DEF now, x, start, s1, s2
    <3> QED
      BY <2>1, <2>5, <3>1, RunThen
  <2>14. Append(s, change) \in Seq(Honest)
    OBVIOUS
  <2>15. LeadsTo(ChangesLines(Append(s, change)), start, c, f2, C)
    <3> HIDE DEF now, x, start, C
    <3> QED
      BY <2>12, <2>13 DEF LeadsTo
  <2>16. Reaches(ChangesLines(Append(s, change)), start, c, S1(Append(s, change)), T1(Append(s, change)))
    <3> HIDE DEF start, C, S1, T1
    <3> QED
      BY <2>11, <2>15 DEF Reaches
  <2>17. ChangesLines(Append(s, change)) \in Seq(PrintedLine)
    BY <2>12, <2>13
  <2> HIDE DEF start, S1, T1
  <2> QED
    BY <2>14, <2>16, <2>17
<1>4. Seq(Honest) \subseteq X
  <2> HIDE DEF X
  <2> QED
    BY <1>2, <1>3, SequenceInduction
<1> QED
  BY <1>4

\* Over the lines of a commit it counts the commit and reports what it adds.
LEMMA CommitRun ==
  ASSUME NEW c \in Nat, NEW f, NEW n \in Nat, NEW h, NEW A, NEW S, NEW T, Covers(A, S, T),
         NEW commit \in Seq(Honest)
  PROVE  /\ CommitLines(commit) \in Seq(PrintedLine)
         /\ Reaches(CommitLines(commit), State(c, f, n, h, A), c + 1,
                    S \cup AddedIn(c + 1, commit, PlainNames), T \cup AddedIn(c + 1, commit, ShownNames))
<1>1. PICK d \in Nat : d = c + 1
  OBVIOUS
<1> DEFINE head == <<Line("commit", "none")>>
           tail == <<Line("other", "none")>>
           body == ChangesLines(commit)
           s0 == State(c, f, n, h, A)
           s1 == State(d, NoFile, n, Outside, A)
           S1 == S \cup AddedIn(d, commit, PlainNames)
           T1 == T \cup AddedIn(d, commit, ShownNames)
<1>2. head \in Seq(PrintedLine) /\ Run(head, s0) = s1
  <2> DEFINE l == Line("commit", "none")
  <2>1. l \in PrintedLine
    BY DEF Line, PrintedLine, Kinds, Values
  <2>2. Scanned(s0, l) = s1
    BY <1>1, CommitScanned
  <2> HIDE DEF l, s0, s1
  <2>3. <<l>> \in Seq(PrintedLine) /\ Run(<<l>>, s0) = s1
    BY <2>1, <2>2, RunOne
  <2> QED
    BY <2>3 DEF l
<1>3. body \in Seq(PrintedLine) /\ Reaches(body, s1, d, S1, T1)
  BY ChangesRun
<1>4. PICK f1, B : Covers(B, S1, T1) /\ LeadsTo(body, s1, d, f1, B)
  BY <1>3 DEF Reaches
<1>5. PICK n1 \in Nat : \E h1 : Run(body, s1) = State(d, f1, n1, h1, B)
  BY <1>4 DEF LeadsTo
<1>6. PICK h1 : Run(body, s1) = State(d, f1, n1, h1, B)
  BY <1>5
<1> DEFINE s2 == State(d, f1, n1, h1, B)
           s3 == State(d, f1, n1, Outside, B)
<1>7. tail \in Seq(PrintedLine) /\ Run(tail, s2) = s3
  <2> DEFINE l == Line("other", "none")
  <2>1. l \in PrintedLine
    BY DEF Line, PrintedLine, Kinds, Values
  <2>2. Scanned(s2, l) = s3
    BY OtherScanned
  <2> HIDE DEF l, s2, s3
  <2>3. <<l>> \in Seq(PrintedLine) /\ Run(<<l>>, s2) = s3
    BY <2>1, <2>2, RunOne
  <2> QED
    BY <2>3 DEF l
<1>8. CommitLines(commit) = (head \o body) \o tail
  BY DEF CommitLines, ChangesLines
<1>9. Run(body, s1) = s2
  BY <1>6
<1> HIDE DEF head, tail, body, s0, s1, s2, s3, S1, T1
<1>10. head \o body \in Seq(PrintedLine) /\ Run(head \o body, s0) = s2
  BY <1>2, <1>3, <1>9, RunThen
<1>11. (head \o body) \o tail \in Seq(PrintedLine) /\ Run((head \o body) \o tail, s0) = s3
  <2> DEFINE before == head \o body
  <2>1. before \in Seq(PrintedLine) /\ Run(before, s0) = s2
    BY <1>10
  <2> HIDE DEF before
  <2>2. before \o tail \in Seq(PrintedLine) /\ Run(before \o tail, s0) = s3
    BY <1>7, <2>1, RunThen
  <2> QED
    BY <2>2 DEF before
<1>12. LeadsTo(CommitLines(commit), s0, d, f1, B)
  BY <1>8, <1>11 DEF LeadsTo, s3
<1>13. Reaches(CommitLines(commit), s0, d, S1, T1)
  BY <1>4, <1>12 DEF Reaches
<1> QED
  BY <1>1, <1>8, <1>11, <1>13 DEF s0, S1, T1

\* A commit more adds its lines to those of the history.
LEMMA OverLast ==
  ASSUME NEW names, NEW U, NEW commits \in Seq(U), NEW commit \in U
  PROVE  AddedOver(Append(commits, commit), names) =
           AddedOver(commits, names) \cup AddedIn(Len(commits) + 1, commit, names)
<1> DEFINE more == Append(commits, commit)
           last == Len(commits) + 1
<1>1. DOMAIN more = DOMAIN commits \cup {last} /\ more[last] = commit
  OBVIOUS
<1>2. \A k \in DOMAIN commits : more[k] = commits[k]
  OBVIOUS
<1> HIDE DEF more, last
<1>3. {AddedIn(n, more[n], names) : n \in DOMAIN more} =
        {AddedIn(n, commits[n], names) : n \in DOMAIN commits} \cup {AddedIn(last, commit, names)}
  BY <1>1, <1>2
<1>4. UNION {AddedIn(n, more[n], names) : n \in DOMAIN more} =
        (UNION {AddedIn(n, commits[n], names) : n \in DOMAIN commits}) \cup AddedIn(last, commit, names)
  BY <1>3
<1> QED
  BY <1>4 DEF AddedOver, more, last

Start == State(0, NoFile, 0, Outside, {})

\* Over the whole log it reports the lines of every commit, each under its own.
LEMMA LogRun ==
  ASSUME NEW commits \in Seq(Seq(Honest))
  PROVE  /\ Lines(commits) \in Seq(PrintedLine)
         /\ Reaches(Lines(commits), Start, Len(commits),
                    AddedOver(commits, PlainNames), AddedOver(commits, ShownNames))
<1> DEFINE S1(s) == AddedOver(s, PlainNames)
           T1(s) == AddedOver(s, ShownNames)
           X == {s \in Seq(Seq(Honest)) :
                   Lines(s) \in Seq(PrintedLine) /\ Reaches(Lines(s), Start, Len(s), S1(s), T1(s))}
           parts(s) == [n \in DOMAIN s |-> CommitLines(s[n])]
<1>z. Covers({}, {}, {})
  BY DEF Covers
<1>1. ASSUME NEW s \in Seq(Seq(Honest)) PROVE parts(s) \in Seq(Seq(PrintedLine))
  <2>1. \A k \in DOMAIN s : s[k] \in Seq(Honest)
    OBVIOUS
  <2>2. \A x \in Seq(Honest) : CommitLines(x) \in Seq(PrintedLine)
    <3>1. 0 \in Nat
      OBVIOUS
    <3> QED
      BY <1>z, <3>1, CommitRun
  <2>3. DOMAIN s = 1..Len(s) /\ Len(s) \in Nat
    OBVIOUS
  <2> QED
    BY <2>1, <2>2, <2>3
<1>2. <<>> \in X
  <2> DEFINE e == <<>>
  <2>1. parts(e) = e /\ Len(e) = 0
    OBVIOUS
  <2>2. S1(e) = {} /\ T1(e) = {}
    BY DEF AddedOver
  <2>3. FlattenSeq(e) = e /\ Run(e, Start) = Start
    <3>1. 1 \in {1} /\ e \in Seq({1}) /\ e \in Seq(Seq({1}))
      OBVIOUS
    <3> QED
      BY <3>1, RunLast, FlattenLast
  <2>4. e \in Seq(Seq(Honest)) /\ e \in Seq(PrintedLine)
    OBVIOUS
  <2>5. Lines(e) = e
    BY <2>1, <2>3 DEF Lines
  <2> HIDE DEF e, parts, S1, T1
  <2>6. LeadsTo(e, Start, 0, NoFile, {})
    BY <2>3 DEF LeadsTo, Start
  <2>7. Reaches(e, Start, 0, {}, {})
    BY <1>z, <2>6 DEF Reaches
  <2>8. e \in X
    BY <2>1, <2>2, <2>4, <2>5, <2>7
  <2> QED
    BY <2>8 DEF e
<1>3. ASSUME NEW s \in Seq(Seq(Honest)), s \in X, NEW commit \in Seq(Honest) PROVE Append(s, commit) \in X
  <2> DEFINE x == CommitLines(commit)
             now == Lines(s)
             more == Append(s, commit)
  <2>1. now \in Seq(PrintedLine) /\ Reaches(now, Start, Len(s), S1(s), T1(s))
    BY <1>3
  <2>2. PICK c \in Nat : c = Len(s)
    OBVIOUS
  <2>3. PICK f1, B : Covers(B, S1(s), T1(s)) /\ LeadsTo(now, Start, c, f1, B)
    BY <2>1, <2>2 DEF Reaches
  <2>4. PICK n1 \in Nat : \E h1 : Run(now, Start) = State(c, f1, n1, h1, B)
    BY <2>3 DEF LeadsTo
  <2>5. PICK h1 : Run(now, Start) = State(c, f1, n1, h1, B)
    BY <2>4
  <2> DEFINE s1 == State(c, f1, n1, h1, B)
             S2 == S1(s) \cup AddedIn(c + 1, commit, PlainNames)
             T2 == T1(s) \cup AddedIn(c + 1, commit, ShownNames)
  <2>6. x \in Seq(PrintedLine) /\ Reaches(x, s1, c + 1, S2, T2)
    <3> DEFINE a == S1(s)
               b == T1(s)
    <3>1. Covers(B, a, b)
      BY <2>3
    <3> HIDE DEF a, b
    <3>2. /\ CommitLines(commit) \in Seq(PrintedLine)
          /\ Reaches(CommitLines(commit), State(c, f1, n1, h1, B), c + 1,
                     a \cup AddedIn(c + 1, commit, PlainNames), b \cup AddedIn(c + 1, commit, ShownNames))
      BY <3>1, CommitRun
    <3> QED
      BY <3>2 DEF a, b
  <2>7. more \in Seq(Seq(Honest)) /\ Len(more) = c + 1
    BY <2>2
  <2>8. S1(more) = S2 /\ T1(more) = T2
    <3> DEFINE U == Seq(Honest)
    <3>1. s \in Seq(U) /\ commit \in U
      OBVIOUS
    <3> HIDE DEF U
    <3>2. \A names : AddedOver(Append(s, commit), names) =
                       AddedOver(s, names) \cup AddedIn(Len(s) + 1, commit, names)
      BY <3>1, OverLast
    <3> QED
      BY <2>2, <3>2
  <2>9. Lines(more) = now \o x
    <3>1. parts(more) = Append(parts(s), x)
      OBVIOUS
    <3> DEFINE p == parts(s)
    <3>2. p \in Seq(Seq(PrintedLine))
      BY <1>1
    <3>3. Lines(more) = FlattenSeq(Append(p, x)) /\ now = FlattenSeq(p)
      BY <3>1 DEF Lines
    <3> HIDE DEF p, x, now
    <3> QED
      BY <2>6, <3>2, <3>3, FlattenLast
  <2> HIDE DEF more, S2, T2, S1, T1, now, x
  <2>10. PICK f2, C : Covers(C, S2, T2) /\ LeadsTo(x, s1, c + 1, f2, C)
    BY <2>6 DEF Reaches
  <2>11. PICK n2 \in Nat : \E h2 : Run(x, s1) = State(c + 1, f2, n2, h2, C)
    BY <2>10 DEF LeadsTo
  <2>12. PICK h2 : Run(x, s1) = State(c + 1, f2, n2, h2, C)
    BY <2>11
  <2> DEFINE s2 == State(c + 1, f2, n2, h2, C)
  <2>13. now \o x \in Seq(PrintedLine) /\ Run(now \o x, Start) = s2
    <3>1. Run(now, Start) = s1 /\ Run(x, s1) = s2
      BY <2>5, <2>12
    <3> HIDE DEF s1, s2
    <3> QED
      BY <2>1, <2>6, <3>1, RunThen
  <2>14. LeadsTo(Lines(more), Start, c + 1, f2, C)
    BY <2>9, <2>13 DEF LeadsTo
  <2>15. Reaches(Lines(more), Start, c + 1, S2, T2)
    BY <2>10, <2>14 DEF Reaches
  <2>16. more \in X
    BY <2>7, <2>8, <2>9, <2>13, <2>15
  <2> QED
    BY <2>16 DEF more
<1>4. Seq(Seq(Honest)) \subseteq X
  <2> DEFINE U == Seq(Honest)
  <2>1. \A s \in Seq(U) : s \in X => \A commit \in U : Append(s, commit) \in X
    BY <1>3
  <2>2. <<>> \in X
    BY <1>2
  <2> HIDE DEF X, U
  <2>3. Seq(U) \subseteq X
    BY <2>1, <2>2, SequenceInduction
  <2> QED
    BY <2>3 DEF U
<1> QED
  BY <1>4

-----------------------------------------------------------------------------
(* streamGitLog *)

\* The scanner is where the lines consumed so far bring it, and only a history
\* that is consumed to its end is reported as scanned.
HistoryInv ==
  /\ log \in Logs /\ printed = Lines(log)
  /\ line \in 0..Len(printed)
  /\ <<scanner, added>> = Run(SubSeq(printed, 1, line), Start)
  /\ gitLog = "resolved" => line = Len(printed)

\* The assumption on the histories: each change is one git can print.
LEMMA LogsHonest == \A commits \in Logs : commits \in Seq(Seq(Honest))
<1> SUFFICES ASSUME NEW commits \in Logs PROVE commits \in Seq(Seq(Honest))
  OBVIOUS
<1>1. commits \in Seq(Seq(Changes))
  BY HistoryAssumption
<1>2. ASSUME NEW n \in 1..Len(commits) PROVE commits[n] \in Seq(Honest)
  <2>1. commits[n] \in Seq(Changes) /\ commits[n] \in ToSet(commits)
    BY <1>1 DEF ToSet
  <2>2. ASSUME NEW k \in 1..Len(commits[n]) PROVE commits[n][k] \in Honest
    <3>1. commits[n][k] \in Changes /\ commits[n][k] \in ToSet(commits[n])
      BY <2>1 DEF ToSet
    <3> QED
      BY <2>1, <3>1, HistoryAssumption DEF Honest
  <2> QED
    BY <2>1, <2>2
<1> QED
  BY <1>1, <1>2

\* Consume is what the proofs call Scanned.
LEMMA ConsumeScans ==
  Consume => <<scanner, added>>' = Scanned(<<scanner, added>>, printed[line + 1])
<1> SUFFICES ASSUME Consume PROVE <<scanner', added'>> = Scanned(<<scanner, added>>, printed[line + 1])
  OBVIOUS
<1> DEFINE l == printed[line + 1]
           state == <<scanner, added>>
<1>1. state[1] = scanner /\ state[2] = added
  OBVIOUS
<1> DEFINE header == ~scanner.inHunk /\ StartsFile(l)
<1>2. FileHeader(l) <=> header
  BY DEF FileHeader
<1>3. StartsFile(l) => l.kind \in {"file", "plus"}
  BY DEF StartsFile
<1>4. CASE l.kind = "commit"
  BY <1>1, <1>2, <1>3, <1>4 DEF Consume, Scanned, AddedLine
<1>5. CASE header
  BY <1>1, <1>2, <1>3, <1>5 DEF Consume, Scanned
<1>6. CASE ~header /\ ~scanner.inHunk /\ l.kind = "null"
  BY <1>1, <1>2, <1>3, <1>6 DEF Consume, Scanned, AddedLine
<1>7. CASE ~header /\ l.kind = "hunk"
  BY <1>1, <1>2, <1>3, <1>7 DEF Consume, Scanned, AddedLine
<1>8. CASE ~header /\ scanner.inHunk /\ AddedLine(l)
  BY <1>1, <1>2, <1>3, <1>8 DEF Consume, Scanned, Report, AddedLine
<1>9. CASE ~header /\ l.kind \in {"minus", "backslash"}
  BY <1>1, <1>2, <1>3, <1>9 DEF Consume, Scanned, AddedLine
<1>10. CASE /\ ~header /\ l.kind \notin {"commit", "hunk", "minus", "backslash"}
            /\ ~(~scanner.inHunk /\ l.kind = "null") /\ ~(scanner.inHunk /\ AddedLine(l))
  BY <1>1, <1>2, <1>3, <1>10 DEF Consume, Scanned, AddedLine
<1> QED
  BY <1>4, <1>5, <1>6, <1>7, <1>8, <1>9, <1>10

\* The scanner is what the parser makes of the lines consumed, in every reachable
\* state.
LEMMA HistoryInvInductive == HistorySpec => []HistoryInv
<1>t. \A commits \in Logs : Lines(commits) \in Seq(PrintedLine)
  BY LogsHonest, LogRun
<1>1. HistoryInit => HistoryInv
  <2> SUFFICES ASSUME HistoryInit PROVE HistoryInv
    OBVIOUS
  <2>1. printed \in Seq(PrintedLine) /\ line = 0 /\ gitLog = "running"
    BY <1>t DEF HistoryInit
  <2> DEFINE e == <<>>
  <2>2. SubSeq(printed, 1, line) = e /\ e \in Seq(PrintedLine)
    BY <2>1
  <2>3. Run(e, Start) = Start
    <3>1. 1 \in {1} /\ e \in Seq({1})
      OBVIOUS
    <3> QED
      BY <3>1, RunLast
  <2>4. <<scanner, added>> = Start
    BY DEF HistoryInit, Start, State, Outside
  <2> HIDE DEF e
  <2>5. 0 \in 0..Len(printed)
    BY <2>1
  <2> QED
    BY <2>1, <2>2, <2>3, <2>4, <2>5 DEF HistoryInit, HistoryInv
<1>2. HistoryInv /\ [HistoryNext]_historyVars => HistoryInv'
  <2> SUFFICES ASSUME HistoryInv, [HistoryNext]_historyVars PROVE HistoryInv'
    OBVIOUS
  <2>1. printed \in Seq(PrintedLine) /\ Len(printed) \in Nat /\ line \in 0..Len(printed)
    BY <1>t DEF HistoryInv
  <2>2. CASE Consume
    <3>1. /\ line < Len(printed) /\ line' = line + 1 /\ gitLog # "resolved"
          /\ log' = log /\ printed' = printed /\ gitLog' = gitLog
      BY <2>2 DEF Consume
    <3> DEFINE before == SubSeq(printed, 1, line)
               l == printed[line + 1]
    <3>2. before \in Seq(PrintedLine) /\ l \in PrintedLine
      BY <2>1, <3>1
    <3>3. SubSeq(printed, 1, line + 1) = Append(before, l)
      BY <2>1, <3>1
    <3>4. <<scanner, added>>' = Scanned(<<scanner, added>>, l)
      BY <2>2, ConsumeScans
    <3>5. <<scanner, added>> = Run(before, Start)
      BY DEF HistoryInv
    <3> HIDE DEF before, l
    <3>6. Run(Append(before, l), Start) = Scanned(Run(before, Start), l)
      BY <3>2, RunLast
    <3>7. <<scanner, added>>' = Run(SubSeq(printed', 1, line'), Start)
      BY <3>1, <3>3, <3>4, <3>5, <3>6
    <3>8. line' \in 0..Len(printed') /\ gitLog' # "resolved"
      BY <2>1, <3>1
    <3> QED
      BY <3>1, <3>7, <3>8 DEF HistoryInv
  <2>3. CASE KillGit
    BY <2>3 DEF KillGit, HistoryInv
  <2>4. CASE GitEnds
    BY <2>4 DEF GitEnds, HistoryInv
  <2>5. CASE UNCHANGED historyVars
    BY <2>5 DEF historyVars, HistoryInv
  <2> QED
    BY <2>2, <2>3, <2>4, <2>5 DEF HistoryNext
<1> QED
  BY <1>1, <1>2, PTL DEF HistorySpec

\* Every history that streamGitLog reports as scanned has each line its commits
\* added, under its number and its file's name as git prints it (a TAB behind a name
\* with a space) if that is not quoted, and no other, whatever the texts of the
\* lines: one that looks like the header of a file, in a hunk, is a line.
THEOREM HistoryIsExact == HistorySpec => []AddedLinesExact
<1>1. HistoryInv => AddedLinesExact
  <2> SUFFICES ASSUME HistoryInv, gitLog = "resolved" PROVE AddedLinesExact
    BY DEF AddedLinesExact
  <2>1. log \in Seq(Seq(Honest)) /\ printed = Lines(log) /\ line = Len(printed)
    BY LogsHonest DEF HistoryInv
  <2>2. printed \in Seq(PrintedLine) /\ Reaches(printed, Start, Len(log),
           AddedOver(log, PlainNames), AddedOver(log, ShownNames))
    BY <2>1, LogRun
  <2>3. SubSeq(printed, 1, line) = printed
    BY <2>1, <2>2
  <2>4. <<scanner, added>> = Run(printed, Start)
    BY <2>3 DEF HistoryInv
  <2>5. PICK f, B : /\ Covers(B, AddedOver(log, PlainNames), AddedOver(log, ShownNames))
                    /\ LeadsTo(printed, Start, Len(log), f, B)
    BY <2>2 DEF Reaches
  <2>6. PICK n \in Nat : \E h : Run(printed, Start) = State(Len(log), f, n, h, B)
    BY <2>5 DEF LeadsTo
  <2>7. PICK h : Run(printed, Start) = State(Len(log), f, n, h, B)
    BY <2>6
  <2>8. added = B
    BY <2>4, <2>7 DEF State
  <2>9. Covers(added, AddedOver(log, PlainNames), AddedOver(log, ShownNames))
    BY <2>5, <2>8
  <2> QED
    BY <2>9 DEF AddedLinesExact, Covers, AddedOver, AddedIn, PlainNames, ShownNames, Unnamed
<1> QED
  BY <1>1, HistoryInvInductive, PTL

==============================================================================
