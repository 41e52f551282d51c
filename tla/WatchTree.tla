----------------------------- MODULE WatchTree -----------------------------
(***************************************************************************)
(* watchDirectoryTree (src/src/core/watch/watch.ts): where there is no     *)
(* recursive watcher, one watcher per directory, kept in step with a tree  *)
(* in which directories are made, removed, moved away and put back.  A     *)
(* watcher stays with the directory it was opened on, whatever its path    *)
(* leads to later; it reports what happens in that directory, some time    *)
(* after it happened.                                                      *)
(*                                                                         *)
(* A directory's identity is its device and inode: 0 stands for none.  The *)
(* synchronous calls of one callback see one state of the tree.            *)
(***************************************************************************)
EXTENDS Integers, FiniteSets

CONSTANTS
  Dirs, Root,       \* the paths of directories there may be
  ParentDir,        \* the directory every other one is in
  IgnoredDirs,      \* those that match an ignored pattern
  MaxMoves          \* bound: directories made, removed or put back

ParentOf(d) == IF d = Root THEN Root ELSE ParentDir[d]
ChildrenOf(d) == {c \in Dirs \ {Root} : ParentDir[c] = d}

\* Per directory, the directories on its path, itself included: those in every
\* set with d and with the upper directory of each member.
PathTo ==
  [d \in Dirs |->
     {c \in Dirs : \A s \in SUBSET Dirs :
        d \in s /\ (\A e \in s : ParentOf(e) \in s) => c \in s}]
\* Those below it, itself included.
Under == [d \in Dirs |-> {c \in Dirs : d \in PathTo[c]}]

\* Every path starts at the root.
ASSUME TreeAssumption ==
  /\ Root \in Dirs /\ IgnoredDirs \subseteq Dirs \ {Root}
  /\ ParentDir \in [Dirs \ {Root} -> Dirs]
  /\ \A d \in Dirs : Root \in PathTo[d]
  /\ MaxMoves \in Nat

VARIABLES
  ino,        \* the identity of the directory at each path
  away,       \* the identity of the directory that was last moved away from there
  moves,      \* how often the tree has changed: identities are taken from it
  watchers,   \* the identity each watcher was opened on
  treeEvents, \* the watchers with a change to report
  recovery,   \* rootRecoveryTimer is armed
  treeClosed, \* closed
  lost,       \* history variable: a watcher of another directory than the root has failed,
              \* or a new root has come before the old one was missed
  returned    \* history variable: the directories that came back with one above them

fileTree == <<ino, away, moves>>
treeVars == <<fileTree, watchers, treeEvents, recovery, treeClosed, lost, returned>>

\* The directories on which addDirectory(d) opens a watch: d and, for what is
\* new, everything below.
Opens(d) ==
  {c \in Under[d] :
     \A above \in PathTo[c] \cap Under[d] :
       ino[above] # 0 /\ watchers[above] # ino[above] /\ above \notin IgnoredDirs}

TreeInit ==
  /\ ino \in [Dirs -> {0, 1}]
  /\ ino[Root] = 1 /\ \A d \in Dirs : ino[d] = 1 => ino[ParentOf(d)] = 1
  /\ away = [d \in Dirs |-> 0] /\ moves = 1
  /\ watchers = [d \in Dirs |->
       IF ino[d] = 1 /\ PathTo[d] \cap IgnoredDirs = {} THEN 1 ELSE 0]
  /\ treeEvents = {}
  /\ recovery = FALSE /\ treeClosed = FALSE /\ lost = FALSE /\ returned = {}

-----------------------------------------------------------------------------
(* The tree *)

\* The watchers that were opened on the directories ds as they are now.
WatchersOn(ds) == {d \in ds : watchers[d] # 0 /\ watchers[d] = ino[d]}

Moved(others) ==
  /\ moves <= MaxMoves
  /\ moves' = moves + 1
  /\ treeEvents' = treeEvents \cup others
  /\ UNCHANGED <<watchers, recovery, treeClosed>>

MakeDir(d) ==
  /\ ino[d] = 0
  /\ d # Root => ino[ParentOf(d)] # 0
  /\ ino' = [ino EXCEPT ![d] = moves + 1]
  /\ returned' = returned \ {d}
  /\ lost' = (lost \/ (d = Root /\ watchers[Root] # 0))
  /\ Moved(WatchersOn({ParentOf(d)} \ {d}))
  /\ UNCHANGED away

\* A file comes or goes.
TouchDir(d) ==
  /\ ino[d] # 0
  /\ Moved(WatchersOn({d}))
  /\ UNCHANGED <<ino, away, returned, lost>>

\* A watched directory may report its own removal too; the root's does.
Reports(d, own) == Moved(WatchersOn({ParentOf(d)} \cup own)) /\ UNCHANGED <<returned, lost>>

DeleteDir(d) ==
  /\ ino[d] # 0 /\ d # Root
  /\ ino' = [c \in Dirs |-> IF c \in Under[d] THEN 0 ELSE ino[c]]
  /\ \E own \in SUBSET Under[d] : Reports(d, own)
  /\ UNCHANGED away

MoveAway(d) ==
  /\ ino[d] # 0
  /\ ino' = [c \in Dirs |-> IF c \in Under[d] THEN 0 ELSE ino[c]]
  /\ away' = [c \in Dirs |-> IF c \in Under[d] THEN ino[c] ELSE away[c]]
  /\ \E own \in {{}, {d}} : Reports(d, own)

\* What was moved away from below d, with what it was in.
AwayWith(d) == {c \in Under[d] : \A above \in PathTo[c] \cap Under[d] : away[above] # 0}

PutBack(d) ==
  /\ ino[d] = 0 /\ away[d] # 0
  /\ d # Root => ino[ParentOf(d)] # 0
  /\ ino' = [c \in Dirs |-> IF c \in AwayWith(d) THEN away[c] ELSE ino[c]]
  /\ away' = [c \in Dirs |-> IF c \in Under[d] THEN 0 ELSE away[c]]
  /\ returned' = returned \cup (Under[d] \ {d})
  /\ Moved(WatchersOn({ParentOf(d)} \ {d}))
  /\ UNCHANGED lost

-----------------------------------------------------------------------------
(* watchDirectoryTree *)

\* The watchers at these paths have reported, or are closed and report no more.
Delivered(ds) == treeEvents' = treeEvents \ ds

\* The watchers in from have reported: addDirectory for each of ds, where the
\* watches on refused cannot be opened, then removeWatchTree for each of gone.
Reconciled(from, ds, gone, refused) ==
  LET opened == UNION {Opens(d) : d \in ds}
      kept == opened \ UNION {Under[d] : d \in refused}
      removed == UNION {Under[d] : d \in gone \cup {d \in ds : ino[d] = 0}} IN
  /\ watchers' = [d \in Dirs |->
       IF d \in removed \cup refused THEN 0
       ELSE IF d \in kept THEN ino[d] ELSE watchers[d]]
  /\ Delivered(from \cup removed \cup refused \cup kept)
  /\ lost' = (lost \/ refused \ {Root} # {})

\* At most one of the watches cannot be opened.
Refusals(ds) == {{}} \cup {{d} : d \in UNION {Opens(c) : c \in ds}}

\* Mutant: only directories without a watcher count as new.
UnwatchedChildren(d) == {c \in ChildrenOf(d) : ino[c] # 0 /\ watchers[c] = 0}
PresentChildren(d) == {c \in ChildrenOf(d) : ino[c] # 0}

\* The root cannot be read: its registration is tried again later.
RecoveryAfter(d) == recovery \/ (d = Root /\ ino[Root] = 0)

\* reconcileDirectory: first the children are added, then the entries of d and
\* of its children are removed when something else, or nothing, is in their place.
Reconcile(d) ==
  LET added == PresentChildren(d)
      opened == UNION {Opens(c) : c \in added}
      replaced == {c \in ({d} \cup ChildrenOf(d)) \ opened : watchers[c] \notin {0, ino[c]}} IN
  /\ \E refused \in Refusals(added) : Reconciled({d}, added, replaced, refused)
  /\ recovery' = RecoveryAfter(d)

\* An event of a watcher for a name that has come or gone.  The microtask that
\* reconciles its directory follows at once.
TreeEvent(d) ==
  /\ ~treeClosed /\ d \in treeEvents
  /\ Reconcile(d)
  /\ UNCHANGED <<fileTree, treeClosed, returned>>

\* The timer of scheduleRootRecovery: every 100 ms until the root is watched.
RecoverRoot ==
  /\ ~treeClosed /\ recovery
  /\ IF watchers[Root] # 0
     THEN recovery' = FALSE /\ UNCHANGED <<watchers, treeEvents, lost>>
     ELSE \E refused \in Refusals({Root}) :
            /\ Reconciled({}, {Root}, {}, refused)
            /\ recovery' = (watchers'[Root] = 0)
  /\ UNCHANGED <<fileTree, treeClosed, returned>>

\* The error event of a watcher.
WatcherFails(d) ==
  /\ ~treeClosed /\ watchers[d] # 0
  /\ watchers' = [watchers EXCEPT ![d] = 0]
  /\ Delivered({d})
  /\ recovery' = (recovery \/ d = Root)
  /\ lost' = (lost \/ d # Root)
  /\ UNCHANGED <<fileTree, treeClosed, returned>>

CloseTree ==
  /\ ~treeClosed
  /\ treeClosed' = TRUE /\ recovery' = FALSE
  /\ watchers' = [d \in Dirs |-> 0] /\ treeEvents' = {}
  /\ UNCHANGED <<fileTree, lost, returned>>

TreeNext ==
  \/ \E d \in Dirs : MakeDir(d) \/ DeleteDir(d) \/ MoveAway(d) \/ PutBack(d) \/ TouchDir(d)
  \/ \E d \in Dirs : TreeEvent(d) \/ WatcherFails(d)
  \/ RecoverRoot \/ CloseTree

TreeSpec == TreeInit /\ [][TreeNext]_treeVars

-----------------------------------------------------------------------------
(* Properties *)

Quiet == treeEvents = {}  /\ ~recovery

Unwatched ==
  {d \in Dirs : ino[d] # 0 /\ PathTo[d] \cap IgnoredDirs = {} /\ watchers[d] # ino[d]}

\* "Reconcile ... directory replacement so recreated subtrees remain monitored"
\* (CHANGELOG.md:12): once everything is reported and the root's recovery is not
\* waiting, every directory that is there and not ignored is watched, itself and
\* not one that was at its path before.  Excepted are runs in which a watcher has
\* failed or the root was replaced before it was missed, and what lies below a
\* directory that was moved away and put back, made there later included: an event
\* that arrives while it is away closes the watcher of a directory below it, and
\* the return opens it only when the upper one is new.
NewTreesWatched ==
  Quiet /\ ~treeClosed /\ ~lost => \A d \in Unwatched : PathTo[d] \cap returned # {}
=============================================================================
