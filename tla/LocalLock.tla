----------------------------- MODULE LocalLock -----------------------------
(***************************************************************************)
(* withLocalStateLock (src/src/core/local-lock.ts): the lease every        *)
(* mutation of toolip's local state (history, vault) runs under.           *)
(*                                                                         *)
(* Each member of Call is one call made by one CLI process.  A call takes  *)
(* a proper-lockfile lease (a directory made with mkdir, kept fresh by a   *)
(* heartbeat, open to takeover once stale), installs an owner marker file  *)
(* named by a fresh token, sweeps the markers of earlier owners, and then  *)
(* runs its operation between three runs of the ownership guard.  Every    *)
(* file system access is a step of its own: other processes, a stalled     *)
(* process and a crash can come between any two of them.                   *)
(***************************************************************************)
EXTENDS Naturals, FiniteSets

CONSTANTS
  Call,            \* the calls: one process each
  Inode,           \* inode numbers a lock directory can have (they are reused)
  Retries,         \* retries of a call that finds the lease taken
  CleanupLimit,    \* directory entries one sweep may inspect
  CanCrash,        \* the calls whose process may die
  ChecksFail,      \* TRUE: an lstat, read or rm of the lock's own files may fail
  Stalls,          \* TRUE: a live owner may miss its heartbeats for leaseStaleMs
  RacyTakeover     \* TRUE: stat, rmdir and mkdir of a takeover are separate steps

ASSUME LockAssumption ==
  /\ Inode # {} /\ "none" \notin Inode
  /\ "nobody" \notin Call
  /\ Retries \in Nat
  /\ CleanupLimit \in Nat
  /\ CanCrash \subseteq Call
  /\ ChecksFail \in BOOLEAN
  /\ Stalls \in BOOLEAN
  /\ RacyTakeover \in BOOLEAN

\* The environment in which the lease alone excludes: owners that live keep
\* their lease fresh, and a stale lease is replaced in one step.
WellTimed == ~Stalls /\ ~RacyTakeover

NoDir == [maker |-> "nobody", ino |-> "none"]
NoIno == "none"

VARIABLES
  lockDir,    \* the directory at <resource>.lock: who made it, and its inode
  stale,      \* its mtime is older than leaseStaleMs
  file,       \* per call: its owner file under its temporary or final name
  pc,         \* per call: the next file system access
  guard,      \* per call: which run of assertOwned it is in
  tries,      \* per call: retries used up
  ident,      \* per call: acquiredIdentity
  todo,       \* per call: entries its sweep has still to unlink
  installed,  \* per call: markerInstalled
  compromised,\* per call: compromised is set
  lease,      \* per call: proper-lockfile holds a lease record and heartbeats
  outcome     \* per call: how the call ends

lockVars == <<lockDir, stale, file, pc, guard, tries, ident, todo,
              installed, compromised, lease, outcome>>

Owning == {"identify", "write", "install", "list", "sweep", "restrict",
           "dir", "marker", "lease", "body", "commit",
           "rmtmp", "ownmarker", "recheck", "unlink", "release"}
Waiting == {"start", "remove", "mkdir"}
PcValues == Owning \cup Waiting \cup {"done", "dead"}

LockTypeOK ==
  /\ lockDir \in [maker : Call, ino : Inode] \cup {NoDir}
  /\ stale \in BOOLEAN
  /\ file \in [Call -> {"none", "tmp", "marker"}]
  /\ pc \in [Call -> PcValues]
  /\ guard \in [Call -> {"entry", "commit", "exit"}]
  /\ tries \in [Call -> 0..Retries]
  /\ ident \in [Call -> Inode \cup {NoIno}]
  /\ todo \in [Call -> SUBSET (Call \X {"tmp", "marker"})]
  /\ installed \in [Call -> BOOLEAN]
  /\ compromised \in [Call -> BOOLEAN]
  /\ lease \in [Call -> BOOLEAN]
  /\ outcome \in [Call -> {"none", "ok", "failed", "timeout"}]

LockInit ==
  /\ lockDir = NoDir
  /\ stale = FALSE
  /\ file = [c \in Call |-> "none"]
  /\ pc = [c \in Call |-> "start"]
  /\ guard = [c \in Call |-> "entry"]
  /\ tries = [c \in Call |-> 0]
  /\ ident = [c \in Call |-> NoIno]
  /\ todo = [c \in Call |-> {}]
  /\ installed = [c \in Call |-> FALSE]
  /\ compromised = [c \in Call |-> FALSE]
  /\ lease = [c \in Call |-> FALSE]
  /\ outcome = [c \in Call |-> "none"]

-----------------------------------------------------------------------------
(* Helpers *)

At(c, here) == pc[c] = here
Goto(c, there) == pc' = [pc EXCEPT ![c] = there]

\* The operation, or a step around it, throws: the finally block runs next.
Throw(c) ==
  /\ Goto(c, "rmtmp")
  /\ outcome' = [outcome EXCEPT ![c] = "failed"]

\* The lock path names a directory with the identity recorded on acquisition.
\* An inode number can be reused, so this need not be the same directory.
OwnsLockDirectory(c) == lockDir # NoDir /\ lockDir.ino = ident[c]

-----------------------------------------------------------------------------
(* Acquisition: lockfile.lock with retries *)

\* mkdir succeeds: the library records the lease and starts the heartbeat.
Acquire(c) ==
  /\ \E i \in Inode : lockDir' = [maker |-> c, ino |-> i]
  /\ stale' = FALSE
  /\ lease' = [lease EXCEPT ![c] = TRUE]
  /\ Goto(c, "identify")
  /\ UNCHANGED <<tries, outcome>>

MayRetry(c) == tries[c] < Retries

\* Mutant: the retries are not counted, as with forever: true.
Uncounted(c) == tries
Retried(c) == [tries EXCEPT ![c] = @ + 1]

\* ELOCKED: sleep 50 ms and try again, or give up with LOCAL_STATE_LOCK_TIMEOUT.
Locked(c) ==
  /\ IF MayRetry(c)
     THEN /\ tries' = Retried(c)
          /\ Goto(c, "start")
          /\ UNCHANGED outcome
     ELSE /\ outcome' = [outcome EXCEPT ![c] = "timeout"]
          /\ Goto(c, "done")
          /\ UNCHANGED tries
  /\ UNCHANGED <<lockDir, stale, lease>>

\* Any other error, of the first mkdir or within a takeover, is thrown as it is.
AcquireFails(c) ==
  /\ outcome' = [outcome EXCEPT ![c] = "failed"]
  /\ Goto(c, "done")
  /\ UNCHANGED <<lockDir, stale, lease, tries>>

Contend(c) ==
  /\ At(c, "start")
  /\ \/ AcquireFails(c)
     \/ lockDir = NoDir /\ Acquire(c)
     \/ lockDir # NoDir /\ ~stale /\ Locked(c)
     \/ lockDir # NoDir /\ stale /\ ~RacyTakeover /\ Acquire(c)
     \/ /\ lockDir # NoDir /\ stale /\ RacyTakeover
        /\ Goto(c, "remove")
        /\ UNCHANGED <<lockDir, stale, lease, tries, outcome>>
  /\ UNCHANGED <<file, guard, ident, todo, installed, compromised>>

\* The takeover's rmdir, of whatever directory is there by now.
RemoveStale(c) ==
  /\ At(c, "remove")
  /\ \/ AcquireFails(c)
     \/ /\ lockDir' = NoDir
        /\ stale' = FALSE
        /\ Goto(c, "mkdir")
        /\ UNCHANGED <<tries, lease, outcome>>
  /\ UNCHANGED <<file, guard, ident, todo, installed, compromised>>

\* The takeover's second mkdir, which another call may have won.
TakeOver(c) ==
  /\ At(c, "mkdir")
  /\ \/ AcquireFails(c)
     \/ lockDir = NoDir /\ Acquire(c)
     \/ lockDir # NoDir /\ Locked(c)
  /\ UNCHANGED <<file, guard, ident, todo, installed, compromised>>

-----------------------------------------------------------------------------
(* Ownership: identity, marker, sweep, permissions *)

\* lstat(lockPath): whichever directory is there gives acquiredIdentity.
Identify(c) ==
  /\ At(c, "identify")
  /\ \/ /\ lockDir # NoDir
        /\ ident' = [ident EXCEPT ![c] = lockDir.ino]
        /\ Goto(c, "write")
        /\ UNCHANGED outcome
     \/ (lockDir = NoDir \/ ChecksFail) /\ Throw(c) /\ UNCHANGED ident
  /\ UNCHANGED <<lockDir, stale, file, guard, tries, todo, installed,
                 compromised, lease>>

\* writeFile(temporaryOwnerPath): may fail, and may have left the file.
WriteOwner(c) ==
  /\ At(c, "write")
  /\ \/ file' = [file EXCEPT ![c] = "tmp"] /\ Goto(c, "install") /\ UNCHANGED outcome
     \/ file' \in {file, [file EXCEPT ![c] = "tmp"]} /\ Throw(c)
  /\ UNCHANGED <<lockDir, stale, guard, tries, ident, todo, installed,
                 compromised, lease>>

\* rename(temporaryOwnerPath, ownerPath): fails if a sweep removed the file.
InstallOwner(c) ==
  /\ At(c, "install")
  /\ \/ /\ file[c] = "tmp"
        /\ file' = [file EXCEPT ![c] = "marker"]
        /\ installed' = [installed EXCEPT ![c] = TRUE]
        /\ Goto(c, "list")
        /\ UNCHANGED outcome
     \/ Throw(c) /\ UNCHANGED <<file, installed>>
  /\ UNCHANGED <<lockDir, stale, guard, tries, ident, todo, compromised, lease>>

\* The owner files of other calls, as the directory lists them now.
OtherOwnerFiles(c) == {<<d, file[d]>> : d \in {e \in Call \ {c} : file[e] # "none"}}

\* opendir: the listing is bounded, its order is the file system's, and files of
\* other names count towards the bound; it may fail, or break off with an error.
ListOwners(c) ==
  /\ At(c, "list")
  /\ \/ /\ \E seen \in SUBSET OtherOwnerFiles(c) :
             /\ Cardinality(seen) <= CleanupLimit
             /\ todo' = [todo EXCEPT ![c] = seen]
        /\ Goto(c, "sweep")
        /\ UNCHANGED outcome
     \/ Throw(c) /\ UNCHANGED todo
  /\ UNCHANGED <<lockDir, stale, file, guard, tries, ident, installed,
                 compromised, lease>>

\* One unlink of the sweep, best-effort: a file renamed or removed since it was
\* listed is missed.
Sweep(c) ==
  /\ At(c, "sweep")
  /\ \/ /\ todo[c] = {}
        /\ Goto(c, "restrict")
        /\ UNCHANGED <<file, todo>>
     \/ \E f \in todo[c] :
        /\ todo' = [todo EXCEPT ![c] = @ \ {f}]
        /\ \/ file[f[1]] = f[2] /\ file' = [file EXCEPT ![f[1]] = "none"]
           \/ UNCHANGED file
        /\ UNCHANGED pc
  /\ UNCHANGED <<lockDir, stale, guard, tries, ident, installed, compromised,
                 lease, outcome>>

\* restrictLockDirectory: opens and chmods whichever directory is there.
Restrict(c) ==
  /\ At(c, "restrict")
  /\ \/ /\ lockDir # NoDir
        /\ Goto(c, "dir")
        /\ guard' = [guard EXCEPT ![c] = "entry"]
        /\ UNCHANGED outcome
     \/ Throw(c) /\ UNCHANGED guard
  /\ UNCHANGED <<lockDir, stale, file, tries, ident, todo, installed,
                 compromised, lease>>

-----------------------------------------------------------------------------
(* assertOwned: three accesses, run on entry, before a commit and on exit *)

Compromise(c) ==
  /\ compromised' = [compromised EXCEPT ![c] = TRUE]
  /\ Throw(c)

\* The guard's first access: the directory's identity.
GuardDirectory(c) ==
  /\ At(c, "dir")
  /\ LET owned == ~compromised[c] /\ OwnsLockDirectory(c) IN
     \/ owned /\ Goto(c, "marker") /\ UNCHANGED <<compromised, outcome>>
     \/ (~owned \/ ChecksFail) /\ Compromise(c)
  /\ UNCHANGED <<lockDir, stale, file, guard, tries, ident, todo, installed, lease>>

\* Mutant: the guard trusts the flag and does not read the marker again.
TrustsFlag(c) == installed[c]

\* ownsMarker: the marker at this call's path holds its token.
OwnsMarker(c) == file[c] = "marker"

\* The guard's second access: this call's token in its marker.
GuardMarker(c) ==
  /\ At(c, "marker")
  /\ \/ OwnsMarker(c) /\ Goto(c, "lease") /\ UNCHANGED <<compromised, outcome>>
     \/ (~OwnsMarker(c) \/ ChecksFail) /\ Compromise(c)
  /\ UNCHANGED <<lockDir, stale, file, guard, tries, ident, todo, installed, lease>>

AfterGuard(c) ==
  CASE guard[c] = "entry" -> "body" [] guard[c] = "commit" -> "commit"
    [] OTHER -> "rmtmp"

\* The guard's third access: somebody's fresh lease, then compromised again.
GuardLease(c) ==
  /\ At(c, "lease")
  /\ LET active == lockDir # NoDir /\ ~stale /\ ~compromised[c] IN
     \/ /\ active
        /\ Goto(c, AfterGuard(c))
        /\ outcome' = IF guard[c] = "exit" THEN [outcome EXCEPT ![c] = "ok"]
                                           ELSE outcome
        /\ UNCHANGED compromised
     \/ ~active /\ Compromise(c)
     \/ ChecksFail /\ Throw(c) /\ UNCHANGED compromised
  /\ UNCHANGED <<lockDir, stale, file, guard, tries, ident, todo, installed, lease>>

-----------------------------------------------------------------------------
(* The operation, as the lock sees it *)

\* The operation asks for a commit (guard again), returns, or throws.
EnterGuard(c, which) ==
  /\ guard' = [guard EXCEPT ![c] = which]
  /\ Goto(c, "dir")
  /\ UNCHANGED outcome

Work(c, next) ==
  /\ At(c, "body")
  /\ \/ next \in {"commit", "exit"} /\ EnterGuard(c, next)
     \/ next = "throw" /\ Throw(c) /\ UNCHANGED guard
  /\ UNCHANGED <<lockDir, stale, file, tries, ident, todo, installed,
                 compromised, lease>>

\* The guard has passed: the operation replaces the state and returns, or an
\* access before or after the replacement fails.
Commit(c, next) ==
  /\ At(c, "commit")
  /\ \/ next = "exit" /\ EnterGuard(c, "exit")
     \/ next = "throw" /\ Throw(c) /\ UNCHANGED guard
  /\ UNCHANGED <<lockDir, stale, file, tries, ident, todo, installed,
                 compromised, lease>>

-----------------------------------------------------------------------------
(* The finally block *)

\* rm(temporaryOwnerPath): an error other than a missing file ends the call.
RemoveTemp(c) ==
  /\ At(c, "rmtmp")
  /\ \/ /\ file' = IF file[c] = "tmp" THEN [file EXCEPT ![c] = "none"] ELSE file
        /\ Goto(c, CASE ~installed[c] -> "recheck"
                     [] installed[c] /\ compromised[c] -> "done"
                     [] OTHER -> "ownmarker")
        /\ UNCHANGED outcome
     \/ /\ ChecksFail
        /\ Goto(c, "done")
        /\ outcome' = [outcome EXCEPT ![c] = "failed"]
        /\ UNCHANGED file
  /\ UNCHANGED <<lockDir, stale, guard, tries, ident, todo, installed,
                 compromised, lease>>

\* A marker or directory that cannot be read counts as not owned.
CheckMarker(c) ==
  /\ At(c, "ownmarker")
  /\ \/ Goto(c, IF OwnsMarker(c) THEN "recheck" ELSE "done")
     \/ ChecksFail /\ Goto(c, "done")
  /\ UNCHANGED <<lockDir, stale, file, guard, tries, ident, todo, installed,
                 compromised, lease, outcome>>

\* Mutant: a call that failed before it had a marker does not release.
AfterRecheckOfMarkedOnly(c) ==
  IF OwnsLockDirectory(c) /\ installed[c] THEN "unlink" ELSE "done"

AfterRecheck(c) ==
  IF ~OwnsLockDirectory(c) THEN "done" ELSE IF installed[c] THEN "unlink" ELSE "release"

CheckDirectory(c) ==
  /\ At(c, "recheck")
  /\ Goto(c, AfterRecheck(c)) \/ (ChecksFail /\ Goto(c, "done"))
  /\ UNCHANGED <<lockDir, stale, file, guard, tries, ident, todo, installed,
                 compromised, lease, outcome>>

\* unlink(ownerPath), best-effort.
UnlinkMarker(c) ==
  /\ At(c, "unlink")
  /\ file' \in {file, [file EXCEPT ![c] = "none"]}
  /\ Goto(c, "release")
  /\ UNCHANGED <<lockDir, stale, guard, tries, ident, todo, installed,
                 compromised, lease, outcome>>

\* release(): the library removes whatever directory is there, or rejects when
\* its lease record is gone.
Release(c) ==
  /\ At(c, "release")
  /\ IF lease[c]
     THEN lockDir' = NoDir /\ stale' = FALSE /\ UNCHANGED outcome
     ELSE outcome' = [outcome EXCEPT ![c] = "failed"] /\ UNCHANGED <<lockDir, stale>>
  /\ lease' = [lease EXCEPT ![c] = FALSE]
  /\ Goto(c, "done")
  /\ UNCHANGED <<file, guard, tries, ident, todo, installed, compromised>>

-----------------------------------------------------------------------------
(* The environment *)

\* The library's timer: refreshes the caller's own directory; finding it gone
\* or replaced (another mtime), drops the record and calls onCompromised.
Heartbeat(c) ==
  /\ lease[c]
  /\ \/ lockDir.maker = c /\ stale' = FALSE /\ UNCHANGED <<lease, compromised>>
     \/ /\ lockDir.maker # c
        /\ lease' = [lease EXCEPT ![c] = FALSE]
        /\ compromised' = [compromised EXCEPT ![c] = TRUE]
        /\ UNCHANGED stale
  /\ UNCHANGED <<lockDir, file, pc, guard, tries, ident, todo, installed, outcome>>

\* Mutant: the heartbeat is slower than the lease is short.
SlowHeartbeat == lockDir # NoDir

\* leaseStaleMs pass without a heartbeat: the maker is gone, or has stalled.
HeartbeatMissed == lockDir # NoDir /\ (Stalls \/ ~lease[lockDir.maker])

LeaseExpires ==
  /\ ~stale /\ HeartbeatMissed
  /\ stale' = TRUE
  /\ UNCHANGED <<lockDir, file, pc, guard, tries, ident, todo, installed,
                 compromised, lease, outcome>>

\* The process dies; its files and its directory stay.
Crash(c) ==
  /\ c \in CanCrash /\ pc[c] \notin {"done", "dead"}
  /\ Goto(c, "dead")
  /\ lease' = [lease EXCEPT ![c] = FALSE]
  /\ UNCHANGED <<lockDir, stale, file, guard, tries, ident, todo, installed,
                 compromised, outcome>>

\* The process of a call that returned without releasing ends, and its timer too.
ProcessExit(c) ==
  /\ At(c, "done") /\ lease[c]
  /\ lease' = [lease EXCEPT ![c] = FALSE]
  /\ UNCHANGED <<lockDir, stale, file, pc, guard, tries, ident, todo, installed,
                 compromised, outcome>>

-----------------------------------------------------------------------------
(* Everything a call does outside its operation, and the environment *)
Protocol(c) ==
  \/ Contend(c) \/ RemoveStale(c) \/ TakeOver(c)
  \/ Identify(c) \/ WriteOwner(c) \/ InstallOwner(c)
  \/ ListOwners(c) \/ Sweep(c) \/ Restrict(c)
  \/ GuardDirectory(c) \/ GuardMarker(c) \/ GuardLease(c)
  \/ RemoveTemp(c) \/ CheckMarker(c) \/ CheckDirectory(c)
  \/ UnlinkMarker(c) \/ Release(c)

Environment ==
  \/ LeaseExpires
  \/ \E c \in Call : Heartbeat(c) \/ Crash(c) \/ ProcessExit(c)

LockStep(c) ==
  \/ Protocol(c)
  \/ \E next \in {"commit", "exit", "throw"} : Work(c, next)
  \/ \E next \in {"exit", "throw"} : Commit(c, next)

LockNext == (\E c \in Call : LockStep(c)) \/ Environment

LockSpec == LockInit /\ [][LockNext]_lockVars

-----------------------------------------------------------------------------
(* Properties *)

\* The call is between acquiring the lease and giving it up.
Holding(c) == pc[c] \in Owning

\* Two calls never hold the lease at the same time, as long as live owners keep
\* their lease fresh and a stale lease is taken over in one step
\* ("Serializes mutations across processes", local-lock.ts:22).
Exclusive == \A c, d \in Call : Holding(c) /\ Holding(d) => c = d

\* No call returns and leaves the lease behind: a failed marker write, a failed
\* unlink or an operation that throws must not strand it (local-lock.ts:132-133).
\* It holds while ~ChecksFail: the code releases nothing it cannot verify.
LeaseNotStranded == \A c \in Call : At(c, "done") => lockDir.maker # c

\* Past the marker check of the guard that precedes a commit.
Committing(c) == At(c, "commit") \/ (At(c, "lease") /\ guard[c] = "commit")

\* A call whose marker a later owner has swept, unless it was already past the
\* marker check, never reaches a commit: whatever stalls, takeover races and
\* inode reuse happened in between.
Swept(c) == installed[c] /\ file[c] = "none" /\ ~Committing(c)
SweptNeverCommits == \A c \in Call : [](Swept(c) => [](~At(c, "commit")))

\* Every call ends: waiting for a lease that never becomes free is bounded by
\* the retries, and no guard or finally path loops.
EveryCallEnds == \A c \in Call : <>(pc[c] \in {"done", "dead"})
=============================================================================
