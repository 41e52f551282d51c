-------------------------- MODULE LocalLock_proofs --------------------------
(* Type correctness and the safety of LocalLock, for every set of calls. *)
EXTENDS LocalLock, TLAPS

\* An acquisition, and a refusal, keep the types of what they assign.
LEMMA AcquireType ==
  ASSUME LockTypeOK, NEW c \in Call, Acquire(c)
  PROVE  /\ lockDir' \in [maker : Call, ino : Inode] /\ stale' \in BOOLEAN
         /\ lease' \in [Call -> BOOLEAN] /\ pc' \in [Call -> PcValues]
         /\ tries' = tries /\ outcome' = outcome
<1>1. PICK i \in Inode : lockDir' = [maker |-> c, ino |-> i]
  BY DEF Acquire
<1>2. lockDir' \in [maker : Call, ino : Inode]
  BY <1>1
<1>3. pc' \in [Call -> PcValues]
  BY DEF LockTypeOK, Acquire, Goto, PcValues, Owning
<1>4. lease' \in [Call -> BOOLEAN] /\ stale' \in BOOLEAN
  BY DEF LockTypeOK, Acquire
<1>5. tries' = tries /\ outcome' = outcome
  BY DEF Acquire
<1>6. QED
  BY <1>2, <1>3, <1>4, <1>5

\* ... the refusal.
LEMMA LockedType ==
  ASSUME LockTypeOK, NEW c \in Call, Locked(c)
  PROVE  /\ tries' \in [Call -> 0..Retries] /\ pc' \in [Call -> PcValues]
         /\ outcome' \in [Call -> {"none", "ok", "failed", "timeout"}]
         /\ lockDir' = lockDir /\ stale' = stale /\ lease' = lease
BY LockAssumption DEF LockTypeOK, Locked, MayRetry, Retried, Goto, PcValues, Waiting

\* Every variable keeps its type under a step of the protocol.
LEMMA ProtocolType ==
  ASSUME LockTypeOK, NEW c \in Call, Protocol(c)
  PROVE  LockTypeOK'
<1> USE LockAssumption DEF LockTypeOK, PcValues, Owning, Waiting, At, Goto, NoDir, NoIno
<1>1. CASE Contend(c)
  BY AcquireType, LockedType, <1>1 DEF Contend, AcquireFails
<1>2. CASE RemoveStale(c)
  BY <1>2 DEF RemoveStale, AcquireFails
<1>3. CASE TakeOver(c)
  BY AcquireType, LockedType, <1>3 DEF TakeOver, AcquireFails
<1>4. CASE Identify(c)
  BY <1>4 DEF Identify, Throw
<1>5. CASE WriteOwner(c)
  BY <1>5 DEF WriteOwner, Throw
<1>6. CASE InstallOwner(c)
  BY <1>6 DEF InstallOwner, Throw
<1>7. CASE ListOwners(c)
  BY <1>7 DEF ListOwners, OtherOwnerFiles, Throw
<1>8. CASE Sweep(c)
  BY <1>8 DEF Sweep
<1>9. CASE Restrict(c)
  BY <1>9 DEF Restrict, Throw
<1>10. CASE GuardDirectory(c)
  BY <1>10 DEF GuardDirectory, Compromise, Throw
<1>11. CASE GuardMarker(c)
  BY <1>11 DEF GuardMarker, OwnsMarker, Compromise, Throw
<1>12. CASE GuardLease(c)
  BY <1>12 DEF GuardLease, Compromise, Throw, AfterGuard
<1>13. CASE RemoveTemp(c)
  BY <1>13 DEF RemoveTemp
<1>14. CASE CheckMarker(c)
  BY <1>14 DEF CheckMarker, OwnsMarker
<1>15. CASE CheckDirectory(c)
  BY <1>15 DEF CheckDirectory, AfterRecheck
<1>16. CASE UnlinkMarker(c)
  BY <1>16 DEF UnlinkMarker
<1>17. CASE Release(c)
  BY <1>17 DEF Release
<1>18. QED
  BY <1>1, <1>2, <1>3, <1>4, <1>5, <1>6, <1>7, <1>8, <1>9, <1>10, <1>11, <1>12, <1>13, <1>14, <1>15, <1>16, <1>17 DEF Protocol

\* ... of the operation.
LEMMA OperationType ==
  ASSUME LockTypeOK, NEW c \in Call, NEW next \in {"commit", "exit", "throw"},
         Work(c, next) \/ (next # "commit" /\ Commit(c, next))
  PROVE  LockTypeOK'
BY DEF LockTypeOK, Work, Commit, EnterGuard, Throw, PcValues, Owning, Goto

\* ... of the environment.
LEMMA EnvironmentType ==
  ASSUME LockTypeOK, Environment
  PROVE  LockTypeOK'
<1>1. CASE LeaseExpires
  BY <1>1 DEF LeaseExpires, LockTypeOK
<1>2. ASSUME NEW c \in Call, Heartbeat(c) \/ ProcessExit(c) PROVE LockTypeOK'
  BY <1>2 DEF Heartbeat, ProcessExit, LockTypeOK
<1>3. ASSUME NEW c \in Call, Crash(c) PROVE LockTypeOK'
  BY <1>3 DEF Crash, LockTypeOK, PcValues, Goto
<1>4. QED
  BY <1>1, <1>2, <1>3 DEF Environment

\* ... and has its type initially.
LEMMA InitType == LockInit => LockTypeOK
<1> SUFFICES ASSUME LockInit PROVE LockTypeOK
  OBVIOUS
<1>1. pc \in [Call -> PcValues] /\ tries \in [Call -> 0..Retries]
  BY LockAssumption DEF LockInit, PcValues, Waiting
<1>2. lockDir \in {NoDir} /\ stale \in BOOLEAN /\ ident \in [Call -> {NoIno}]
  BY DEF LockInit
<1>3. /\ file \in [Call -> {"none", "tmp", "marker"}]
      /\ guard \in [Call -> {"entry", "commit", "exit"}]
      /\ outcome \in [Call -> {"none", "ok", "failed", "timeout"}]
  BY DEF LockInit
<1>4. /\ installed \in [Call -> BOOLEAN] /\ compromised \in [Call -> BOOLEAN]
      /\ lease \in [Call -> BOOLEAN]
      /\ todo \in [Call -> SUBSET (Call \X {"tmp", "marker"})]
  BY DEF LockInit
<1>5. QED
  BY <1>1, <1>2, <1>3, <1>4 DEF LockTypeOK

\* Every variable keeps its type under every step.
LEMMA StepType == LockTypeOK /\ [LockNext]_lockVars => LockTypeOK'
<1>1. ASSUME LockTypeOK, LockNext PROVE LockTypeOK'
  BY <1>1, ProtocolType, OperationType, EnvironmentType DEF LockNext, LockStep
<1>2. ASSUME LockTypeOK, UNCHANGED lockVars PROVE LockTypeOK'
  BY <1>2 DEF LockTypeOK, lockVars
<1>3. QED
  BY <1>1, <1>2

\* Every variable of the lock keeps its type (the shape of local-lock.ts's state).
THEOREM TypeCorrect == LockSpec => []LockTypeOK
<1>1. LockInit => LockTypeOK
  BY InitType
<1>2. QED
  BY <1>1, StepType, PTL DEF LockSpec

-----------------------------------------------------------------------------
(* What a well-timed environment keeps true of every call. *)

\* A holder has the lease record and made the directory that is there.
HolderInv(c) == Holding(c) => lease[c] /\ lockDir.maker = c

\* Whoever has the lease record made the directory, and keeps it fresh; a call
\* that has not acquired it has neither.
RecordInv(c) ==
  /\ lease[c] => lockDir.maker = c /\ ~stale
  /\ pc[c] \in Waiting => At(c, "start") /\ ~lease[c] /\ lockDir.maker # c

LeaseInv == LockTypeOK /\ \A c \in Call : HolderInv(c) /\ RecordInv(c)

\* No call holds the lease at first.
LEMMA LeaseInvInit == LockInit => LeaseInv
<1> SUFFICES ASSUME LockInit PROVE LeaseInv
  OBVIOUS
<1>1. LockTypeOK
  BY InitType
<1>2. ASSUME NEW c \in Call PROVE HolderInv(c) /\ RecordInv(c)
  BY LockAssumption DEF LockInit, HolderInv, RecordInv, Holding, Owning, At, NoDir
<1>3. QED
  BY <1>1, <1>2 DEF LeaseInv

\* A call acquires the lease only when nobody holds it, not even a record.
LEMMA AcquiredFromNobody ==
  ASSUME WellTimed, LeaseInv, NEW c \in Call, Contend(c), ~AcquireFails(c),
         lockDir = NoDir \/ stale
  PROVE  /\ At(c, "start")
         /\ lockDir'.maker = c /\ stale' = FALSE
         /\ pc' = [pc EXCEPT ![c] = "identify"] /\ lease' = [lease EXCEPT ![c] = TRUE]
         /\ UNCHANGED <<file, guard, ident, todo, installed, compromised>>
         /\ \A d \in Call : ~Holding(d) /\ ~lease[d] /\ (d # c => lockDir'.maker # d)
<1>1. Acquire(c) /\ At(c, "start")
      /\ UNCHANGED <<file, guard, ident, todo, installed, compromised>>
  BY DEF Contend, Locked, WellTimed
<1>2. PICK i \in Inode : lockDir' = [maker |-> c, ino |-> i]
  BY <1>1 DEF Acquire
<1>3. ASSUME NEW d \in Call PROVE ~Holding(d) /\ ~lease[d]
  <2>1. (lease[d] => lockDir.maker = d /\ ~stale) /\ (Holding(d) => lease[d])
    BY DEF LeaseInv, HolderInv, RecordInv
  <2>2. lockDir = NoDir => lockDir.maker # d
    BY LockAssumption DEF NoDir
  <2>3. QED
    BY <2>1, <2>2
<1>4. QED
  BY <1>1, <1>2, <1>3 DEF Acquire, Goto

\* The protocol's steps keep the lease invariant: a call that is refused waits,
\* and only the holder's own release removes its directory.
LEMMA LeaseInvProtocol ==
  ASSUME WellTimed, LeaseInv, NEW c \in Call, Protocol(c), LockTypeOK'
  PROVE  LeaseInv'
<1> SUFFICES ASSUME NEW d \in Call PROVE HolderInv(d)' /\ RecordInv(d)'
  BY DEF LeaseInv
<1>0. /\ HolderInv(c) /\ RecordInv(c) /\ HolderInv(d) /\ RecordInv(d)
      /\ LockTypeOK
  BY DEF LeaseInv
<1> USE <1>0, LockAssumption DEF LockTypeOK, HolderInv, RecordInv, Holding, Owning, Waiting,
        At, Goto, Throw, NoDir
<1>1. CASE Contend(c)
  <2>0. CASE AcquireFails(c)
    BY <1>1, <2>0 DEF Contend, AcquireFails
  <2>1. CASE ~AcquireFails(c) /\ (lockDir = NoDir \/ stale)
    <3>1. /\ lockDir'.maker = c /\ stale' = FALSE
          /\ pc' = [pc EXCEPT ![c] = "identify"] /\ lease' = [lease EXCEPT ![c] = TRUE]
          /\ ~Holding(d) /\ ~lease[d] /\ (d # c => lockDir'.maker # d)
      BY <1>1, <2>1, AcquiredFromNobody
    <3>2. QED
      BY <3>1
  <2>2. CASE lockDir # NoDir /\ ~stale
    BY <1>1, <2>2 DEF Contend, Locked, Acquire, AcquireFails
  <2>3. QED
    BY <2>0, <2>1, <2>2
<1>2. CASE RemoveStale(c) \/ TakeOver(c)
  BY <1>2 DEF RemoveStale, TakeOver, AcquireFails
<1>3. CASE Identify(c) \/ WriteOwner(c) \/ InstallOwner(c)
  BY <1>3 DEF Identify, WriteOwner, InstallOwner
<1>4. CASE ListOwners(c) \/ Sweep(c) \/ Restrict(c)
  BY <1>4 DEF ListOwners, Sweep, Restrict
<1>5. CASE GuardDirectory(c) \/ GuardMarker(c)
  BY <1>5 DEF GuardDirectory, GuardMarker, Compromise
<1>6. CASE GuardLease(c)
  BY <1>6 DEF GuardLease, AfterGuard, Compromise
<1>7. CASE RemoveTemp(c) \/ CheckMarker(c)
  BY <1>7 DEF RemoveTemp, CheckMarker
<1>8. CASE CheckDirectory(c) \/ UnlinkMarker(c)
  BY <1>8 DEF CheckDirectory, AfterRecheck, UnlinkMarker
<1>9. CASE Release(c)
  BY <1>9 DEF Release
<1>10. QED
  BY <1>1, <1>2, <1>3, <1>4, <1>5, <1>6, <1>7, <1>8, <1>9 DEF Protocol

\* What every step of an operation does to the lock.
LEMMA OperationStep ==
  ASSUME NEW c \in Call, NEW next \in {"commit", "exit", "throw"},
         Work(c, next) \/ Commit(c, next)
  PROVE  /\ UNCHANGED <<lockDir, stale, file, tries, ident, todo, installed, compromised, lease>>
         /\ pc[c] \in {"body", "commit"}
         /\ pc' \in {[pc EXCEPT ![c] = "dir"], [pc EXCEPT ![c] = "rmtmp"]}
BY DEF Work, Commit, EnterGuard, Throw, Goto, At

\* The steps of an operation keep the lease invariant.
LEMMA LeaseInvOperation ==
  ASSUME LeaseInv, LockTypeOK', NEW c \in Call, NEW next \in {"commit", "exit", "throw"},
         Work(c, next) \/ Commit(c, next)
  PROVE  LeaseInv'
BY OperationStep DEF LeaseInv, LockTypeOK, HolderInv, RecordInv, Holding, Owning, Waiting, At

\* The steps of the environment keep it: no living owner's lease expires, and a
\* heartbeat finds its own directory.
LEMMA LeaseInvEnvironment ==
  ASSUME WellTimed, LeaseInv, LockTypeOK', Environment
  PROVE  LeaseInv'
<1> SUFFICES ASSUME NEW d \in Call PROVE HolderInv(d)' /\ RecordInv(d)'
  BY DEF LeaseInv
<1>0. HolderInv(d) /\ RecordInv(d) /\ LockTypeOK
  BY DEF LeaseInv
<1> USE <1>0 DEF LockTypeOK, HolderInv, RecordInv, Holding, Owning, Waiting, At, Goto
<1>1. CASE LeaseExpires
  BY <1>1, LockAssumption DEF LeaseExpires, HeartbeatMissed, WellTimed
<1>2. ASSUME NEW c \in Call, Heartbeat(c) PROVE HolderInv(d)' /\ RecordInv(d)'
  <2>1. lockDir.maker = c
    BY <1>2 DEF Heartbeat, LeaseInv
  <2>2. QED
    BY <1>2, <2>1 DEF Heartbeat
<1>3. ASSUME NEW c \in Call, Crash(c) \/ ProcessExit(c) PROVE HolderInv(d)' /\ RecordInv(d)'
  BY <1>3 DEF Crash, ProcessExit
<1>4. QED
  BY <1>1, <1>2, <1>3 DEF Environment

\* Every step keeps the lease invariant.
LEMMA LeaseInvStep ==
  ASSUME WellTimed
  PROVE  LeaseInv /\ [LockNext]_lockVars => LeaseInv'
<1> SUFFICES ASSUME LeaseInv, [LockNext]_lockVars PROVE LeaseInv'
  OBVIOUS
<1>1. LockTypeOK'
  BY StepType DEF LeaseInv
<1>2. CASE LockNext
  BY <1>1, <1>2, LeaseInvProtocol, LeaseInvOperation, LeaseInvEnvironment
     DEF LockNext, LockStep
<1>3. CASE UNCHANGED lockVars
  BY <1>1, <1>3 DEF LeaseInv, lockVars, HolderInv, RecordInv, Holding, At
<1>4. QED
  BY <1>2, <1>3

\* In a well-timed environment, two calls never hold the lease together: the
\* serialization that local-lock.ts:22 promises, whatever crashes and fails.
THEOREM MutualExclusion ==
  ASSUME WellTimed
  PROVE  LockSpec => []Exclusive
<1>1. LeaseInv => Exclusive
  BY DEF LeaseInv, HolderInv, Exclusive
<1>2. QED
  BY <1>1, LeaseInvInit, LeaseInvStep, PTL DEF LockSpec

-----------------------------------------------------------------------------
(* When the lock's own checks do not fail, a call that returns has released. *)

Marked == Owning \ {"identify", "write", "install", "rmtmp", "recheck", "release"}

\* A holder's guards pass: it knows its directory, and its marker is there until
\* it unlinks it itself; no sweep lists the sweeper's own file.
KnownInv(c) == Holding(c) =>
  /\ ~compromised[c]
  /\ ~At(c, "identify") => ident[c] = lockDir.ino
  /\ \A f \in todo[c] : f[1] # c
  /\ pc[c] \in Marked => installed[c]
  /\ pc[c] \in {"identify", "write", "install"} => ~installed[c]
  /\ installed[c] /\ ~At(c, "release") => file[c] = "marker"

\* Before it starts, and once it has returned.
IdleInv(c) ==
  /\ At(c, "start") => ~installed[c] /\ ~compromised[c] /\ todo[c] = {}
  /\ At(c, "done") => ~lease[c] /\ lockDir.maker # c

TidyInv == LeaseInv /\ \A c \in Call : KnownInv(c) /\ IdleInv(c)

\* No call has started.
LEMMA TidyInvInit == LockInit => TidyInv
<1> SUFFICES ASSUME LockInit PROVE TidyInv
  OBVIOUS
<1>1. ASSUME NEW c \in Call PROVE KnownInv(c) /\ IdleInv(c)
  BY DEF LockInit, KnownInv, IdleInv, Holding, Owning, At
<1>2. QED
  BY <1>1, LeaseInvInit DEF TidyInv

\* The protocol's steps keep it: what holds of a holder is disturbed by no other
\* call, since no other call holds.
LEMMA TidyInvProtocol ==
  ASSUME WellTimed, ~ChecksFail, TidyInv, NEW c \in Call, Protocol(c), LeaseInv'
  PROVE  TidyInv'
<1> SUFFICES ASSUME NEW d \in Call PROVE KnownInv(d)' /\ IdleInv(d)'
  BY DEF TidyInv
<1>0. /\ KnownInv(c) /\ IdleInv(c) /\ KnownInv(d) /\ IdleInv(d)
      /\ HolderInv(c) /\ RecordInv(c) /\ HolderInv(d) /\ RecordInv(d)
      /\ LockTypeOK
  BY DEF TidyInv, LeaseInv
<1> USE <1>0, LockAssumption DEF LockTypeOK, KnownInv, IdleInv, HolderInv, RecordInv, Holding,
        Owning, Waiting, Marked, At, Goto, Throw, NoDir
<1>1. CASE Contend(c)
  <2>0. CASE AcquireFails(c)
    BY <1>1, <2>0 DEF Contend, AcquireFails
  <2>1. CASE ~AcquireFails(c) /\ (lockDir = NoDir \/ stale)
    <3>1. /\ lockDir'.maker = c
          /\ pc' = [pc EXCEPT ![c] = "identify"] /\ lease' = [lease EXCEPT ![c] = TRUE]
          /\ UNCHANGED <<file, guard, ident, todo, installed, compromised>>
          /\ At(c, "start") /\ ~Holding(d) /\ ~lease[d] /\ (d # c => lockDir'.maker # d)
      BY <1>1, <2>1, AcquiredFromNobody DEF TidyInv
    <3>2. QED
      BY <3>1
  <2>2. CASE lockDir # NoDir /\ ~stale
    BY <1>1, <2>2 DEF Contend, Locked, Acquire, AcquireFails
  <2>3. QED
    BY <2>0, <2>1, <2>2
<1>2. CASE RemoveStale(c) \/ TakeOver(c)
  BY <1>2 DEF RemoveStale, TakeOver, AcquireFails
<1>3. CASE Identify(c) \/ WriteOwner(c) \/ InstallOwner(c)
  BY <1>3 DEF Identify, WriteOwner, InstallOwner
<1>4. CASE ListOwners(c)
  BY <1>4 DEF ListOwners, OtherOwnerFiles
<1>5. CASE Sweep(c)
  <2>1. Holding(c) /\ (Holding(d) => d = c)
    BY <1>5 DEF Sweep
  <2>2. /\ UNCHANGED <<lockDir, ident, installed, compromised, lease>>
        /\ file'[c] = file[c] /\ \A f \in todo'[c] : f \in todo[c]
        /\ pc' \in {pc, [pc EXCEPT ![c] = "restrict"]}
    BY <1>5, <2>1 DEF Sweep
  <2>3. CASE d = c
    BY <1>5, <2>1, <2>2, <2>3 DEF Sweep
  <2>4. CASE d # c
    BY <1>5, <2>1, <2>2, <2>4 DEF Sweep
  <2>5. QED
    BY <2>3, <2>4
<1>6. CASE Restrict(c)
  BY <1>6 DEF Restrict
<1>7. CASE GuardDirectory(c)
  BY <1>7 DEF GuardDirectory, OwnsLockDirectory, Compromise
<1>8. CASE GuardMarker(c)
  BY <1>8 DEF GuardMarker, OwnsMarker, Compromise
<1>9. CASE GuardLease(c)
  BY <1>9 DEF GuardLease, AfterGuard, Compromise
<1>10. CASE RemoveTemp(c)
  BY <1>10 DEF RemoveTemp
<1>11. CASE CheckMarker(c) \/ CheckDirectory(c)
  BY <1>11 DEF CheckMarker, OwnsMarker, CheckDirectory, AfterRecheck, OwnsLockDirectory
<1>12. CASE UnlinkMarker(c)
  BY <1>12 DEF UnlinkMarker
<1>13. CASE Release(c)
  BY <1>13 DEF Release
<1>14. QED
  BY <1>1, <1>2, <1>3, <1>4, <1>5, <1>6, <1>7, <1>8, <1>9, <1>10, <1>11, <1>12, <1>13
     DEF Protocol

\* The operation and the environment keep it.
LEMMA TidyInvOther ==
  ASSUME WellTimed, TidyInv, LeaseInv',
         \/ \E c \in Call : \E next \in {"commit", "exit", "throw"} : Work(c, next) \/ Commit(c, next)
         \/ Environment
         \/ UNCHANGED lockVars
  PROVE  TidyInv'
<1> SUFFICES ASSUME NEW d \in Call PROVE KnownInv(d)' /\ IdleInv(d)'
  BY DEF TidyInv
<1>0. KnownInv(d) /\ IdleInv(d) /\ HolderInv(d) /\ RecordInv(d) /\ LockTypeOK
  BY DEF TidyInv, LeaseInv
<1> USE <1>0 DEF LockTypeOK, KnownInv, IdleInv, HolderInv, RecordInv, Holding,
        Owning, Waiting, Marked, At, Goto
<1>1. ASSUME NEW c \in Call, NEW next \in {"commit", "exit", "throw"},
             Work(c, next) \/ Commit(c, next)
      PROVE  KnownInv(d)' /\ IdleInv(d)'
  BY <1>1, OperationStep
<1>2. ASSUME NEW c \in Call, Heartbeat(c) PROVE KnownInv(d)' /\ IdleInv(d)'
  <2>1. lockDir.maker = c
    BY <1>2 DEF Heartbeat, TidyInv, LeaseInv
  <2>2. QED
    BY <1>2, <2>1 DEF Heartbeat
<1>3. ASSUME NEW c \in Call, Crash(c) \/ ProcessExit(c) PROVE KnownInv(d)' /\ IdleInv(d)'
  BY <1>3 DEF Crash, ProcessExit
<1>4. CASE LeaseExpires \/ UNCHANGED lockVars
  BY <1>4 DEF LeaseExpires, lockVars
<1>5. QED
  BY <1>1, <1>2, <1>3, <1>4 DEF Environment

\* No call returns with its lease left behind, on any path: a failed marker
\* write, a failed unlink, an operation that throws (local-lock.ts:132-133).
THEOREM NoStrandedLease ==
  ASSUME WellTimed, ~ChecksFail
  PROVE  LockSpec => []LeaseNotStranded
<1>1. TidyInv /\ [LockNext]_lockVars => TidyInv'
  <2> SUFFICES ASSUME TidyInv, [LockNext]_lockVars PROVE TidyInv'
    OBVIOUS
  <2>1. LeaseInv'
    BY LeaseInvStep DEF TidyInv
  <2>2. QED
    BY <2>1, TidyInvProtocol, TidyInvOther DEF LockNext, LockStep
<1>2. TidyInv => LeaseNotStranded
  BY DEF TidyInv, IdleInv, LeaseNotStranded
<1>3. QED
  BY <1>1, <1>2, TidyInvInit, PTL DEF LockSpec

-----------------------------------------------------------------------------
(* What no stall, takeover race or inode reuse can break. *)

BeforeInstall == Waiting \cup {"identify", "write", "install"}

\* A call that has installed its marker never writes its owner file again.
InstalledInv == LockTypeOK /\ \A c \in Call : installed[c] => pc[c] \notin BeforeInstall

\* Every step keeps it.
LEMMA InstalledInvStep == InstalledInv /\ [LockNext]_lockVars => InstalledInv'
<1> SUFFICES ASSUME InstalledInv, [LockNext]_lockVars PROVE InstalledInv'
  OBVIOUS
<1>0. LockTypeOK /\ LockTypeOK'
  BY StepType DEF InstalledInv
<1> SUFFICES ASSUME NEW d \in Call, installed'[d] PROVE pc'[d] \notin BeforeInstall
  BY <1>0 DEF InstalledInv
<1> USE <1>0 DEF LockTypeOK, InstalledInv, BeforeInstall, Waiting, At, Goto, Throw
<1>1. ASSUME NEW c \in Call, Protocol(c) PROVE pc'[d] \notin BeforeInstall
  <2>1. CASE Contend(c) \/ RemoveStale(c) \/ TakeOver(c) \/ Identify(c) \/ WriteOwner(c)
    BY <2>1 DEF Contend, RemoveStale, TakeOver, Acquire, AcquireFails, Locked, Identify, WriteOwner
  <2>2. CASE InstallOwner(c) \/ ListOwners(c) \/ Sweep(c) \/ Restrict(c)
    BY <2>2 DEF InstallOwner, ListOwners, Sweep, Restrict
  <2>3. CASE GuardDirectory(c) \/ GuardMarker(c) \/ GuardLease(c)
    BY <2>3 DEF GuardDirectory, GuardMarker, OwnsMarker, GuardLease, AfterGuard, Compromise
  <2>4. CASE RemoveTemp(c) \/ CheckMarker(c) \/ CheckDirectory(c) \/ UnlinkMarker(c) \/ Release(c)
    BY <2>4 DEF RemoveTemp, CheckMarker, CheckDirectory, AfterRecheck, UnlinkMarker, Release
  <2>5. QED
    BY <1>1, <2>1, <2>2, <2>3, <2>4 DEF Protocol
<1>2. ASSUME NEW c \in Call, NEW next \in {"commit", "exit", "throw"},
             Work(c, next) \/ Commit(c, next)
      PROVE  pc'[d] \notin BeforeInstall
  BY <1>2 DEF Work, Commit, EnterGuard
<1>3. CASE Environment
  BY <1>3 DEF Environment, LeaseExpires, Heartbeat, Crash, ProcessExit
<1>4. CASE UNCHANGED lockVars
  BY <1>4 DEF lockVars
<1>5. QED
  BY <1>1, <1>2, <1>3, <1>4 DEF LockNext, LockStep

\* A swept call stays swept: nobody writes its marker again, and the guard it
\* is in, or enters, stops at its marker check.
LEMMA SweptStays ==
  ASSUME NEW d \in Call
  PROVE  InstalledInv /\ Swept(d) /\ [LockNext]_lockVars => Swept(d)'
<1> SUFFICES ASSUME InstalledInv, Swept(d), [LockNext]_lockVars PROVE Swept(d)'
  OBVIOUS
<1> USE DEF LockTypeOK, InstalledInv, BeforeInstall, Waiting, Swept, Committing, At, Goto, Throw
<1>1. ASSUME NEW c \in Call, Protocol(c) PROVE Swept(d)'
  <2>1. CASE Contend(c) \/ RemoveStale(c) \/ TakeOver(c) \/ Identify(c) \/ WriteOwner(c)
    BY <2>1 DEF Contend, RemoveStale, TakeOver, Acquire, AcquireFails, Locked, Identify, WriteOwner
  <2>2. CASE InstallOwner(c) \/ ListOwners(c) \/ Sweep(c) \/ Restrict(c)
    BY <2>2 DEF InstallOwner, ListOwners, Sweep, Restrict
  <2>3. CASE GuardDirectory(c) \/ GuardMarker(c) \/ GuardLease(c)
    BY <2>3 DEF GuardDirectory, GuardMarker, OwnsMarker, GuardLease, AfterGuard, Compromise
  <2>4. CASE RemoveTemp(c) \/ CheckMarker(c) \/ CheckDirectory(c) \/ UnlinkMarker(c) \/ Release(c)
    BY <2>4 DEF RemoveTemp, CheckMarker, CheckDirectory, AfterRecheck, UnlinkMarker, Release
  <2>5. QED
    BY <1>1, <2>1, <2>2, <2>3, <2>4 DEF Protocol
<1>2. ASSUME NEW c \in Call, NEW next \in {"commit", "exit", "throw"},
             Work(c, next) \/ Commit(c, next)
      PROVE  Swept(d)'
  BY <1>2 DEF Work, Commit, EnterGuard
<1>3. CASE Environment
  BY <1>3 DEF Environment, LeaseExpires, Heartbeat, Crash, ProcessExit
<1>4. CASE UNCHANGED lockVars
  BY <1>4 DEF lockVars
<1>5. QED
  BY <1>1, <1>2, <1>3, <1>4 DEF LockNext, LockStep

\* Whatever stalls, takeover races and inode reuse happen, a call whose marker a
\* later owner has swept, and that was not past the marker check of its guard,
\* never commits (local-lock.ts:88-100).
THEOREM SweptCallsNeverCommit == LockSpec => SweptNeverCommits
<1>1. ASSUME NEW c \in Call
      PROVE  LockSpec => [](Swept(c) => [](~At(c, "commit")))
  <2>1. LockInit => InstalledInv
    BY InitType DEF LockInit, InstalledInv
  <2>2. Swept(c) => ~At(c, "commit")
    BY DEF Swept, Committing
  <2>3. InstalledInv /\ Swept(c) /\ [LockNext]_lockVars => Swept(c)'
    BY SweptStays
  <2>4. QED
    BY <2>1, <2>2, <2>3, InstalledInvStep, PTL DEF LockSpec
<1>2. LockSpec => \A c \in Call : [](Swept(c) => [](~At(c, "commit")))
  BY <1>1
<1>3. QED
  BY <1>2 DEF SweptNeverCommits

-----------------------------------------------------------------------------
(* What a store under the lease needs to know of a call: when it has taken    *)
(* effect, when it has something staged, and how it ends.                     *)

InGuard(c) == pc[c] \in {"dir", "marker", "lease"}
Ending == {"rmtmp", "ownmarker", "recheck", "unlink", "release"}

\* Between the read of an operation and its commit.
Staging(c) == At(c, "commit") \/ (InGuard(c) /\ guard[c] = "commit")

\* has: the call has taken effect.  It has not before its operation, has when it
\* leaves it, and how the call ends is settled then.
AppliedInv(c, has) ==
  /\ pc[c] \in Waiting \cup {"identify", "write", "install", "list", "sweep",
                              "restrict", "body"} => ~has
  /\ InGuard(c) /\ guard[c] = "entry" => ~has
  /\ InGuard(c) /\ guard[c] = "exit" => has
  /\ pc[c] \in Ending => outcome[c] \in {"ok", "failed"}
  /\ At(c, "done") => outcome[c] \in {"ok", "failed", "timeout"}
  /\ outcome[c] = "ok" => has
  /\ outcome[c] = "timeout" => At(c, "done") /\ ~has

\* A step of the protocol moves one call on, and its operation neither into it nor
\* out of it.
LEMMA ProtocolMoves ==
  ASSUME LockTypeOK, NEW c \in Call, Protocol(c)
  PROVE  /\ pc[c] \notin {"done", "dead"} /\ pc'[c] # "dead"
         /\ \A d \in Call \ {c} : pc'[d] = pc[d] /\ guard'[d] = guard[d] /\ outcome'[d] = outcome[d]
<1> USE DEF LockTypeOK, At, Goto, Throw
<1>1. CASE Contend(c) \/ RemoveStale(c) \/ TakeOver(c)
  BY <1>1 DEF Contend, RemoveStale, TakeOver, Acquire, AcquireFails, Locked
<1>2. CASE Identify(c) \/ WriteOwner(c) \/ InstallOwner(c)
  BY <1>2 DEF Identify, WriteOwner, InstallOwner
<1>3. CASE ListOwners(c) \/ Sweep(c) \/ Restrict(c)
  BY <1>3 DEF ListOwners, Sweep, Restrict
<1>4. CASE GuardDirectory(c) \/ GuardMarker(c)
  BY <1>4 DEF GuardDirectory, GuardMarker, Compromise
<1>5. CASE GuardLease(c)
  BY <1>5 DEF GuardLease, AfterGuard, Compromise
<1>6. CASE RemoveTemp(c) \/ CheckMarker(c) \/ CheckDirectory(c)
  BY <1>6 DEF RemoveTemp, CheckMarker, CheckDirectory, AfterRecheck
<1>7. CASE UnlinkMarker(c) \/ Release(c)
  BY <1>7 DEF UnlinkMarker, Release
<1>8. QED
  BY <1>1, <1>2, <1>3, <1>4, <1>5, <1>6, <1>7 DEF Protocol

\* It changes nothing of what a call has staged, or whether it has taken effect.
LEMMA ProtocolKeeps ==
  ASSUME LockTypeOK, NEW c \in Call, Protocol(c), NEW d \in Call, NEW has \in BOOLEAN,
         AppliedInv(d, has)
  PROVE  AppliedInv(d, has)' /\ (Staging(d)' => Staging(d))
<1>1. CASE d # c
  BY <1>1, ProtocolMoves DEF AppliedInv, Staging, InGuard, At
<1>2. CASE d = c
  <2> USE <1>2 DEF AppliedInv, Staging, InGuard, Ending, Waiting, LockTypeOK, At, Goto, Throw
  <2>1. CASE Contend(c) \/ RemoveStale(c) \/ TakeOver(c)
    BY <2>1 DEF Contend, RemoveStale, TakeOver, Acquire, AcquireFails, Locked
  <2>2. CASE Identify(c) \/ WriteOwner(c) \/ InstallOwner(c)
    BY <2>2 DEF Identify, WriteOwner, InstallOwner
  <2>3. CASE ListOwners(c) \/ Sweep(c) \/ Restrict(c)
    BY <2>3 DEF ListOwners, Sweep, Restrict
  <2>4. CASE GuardDirectory(c) \/ GuardMarker(c)
    BY <2>4 DEF GuardDirectory, GuardMarker, Compromise
  <2>5. CASE GuardLease(c)
    BY <2>5 DEF GuardLease, AfterGuard, Compromise
  <2>6. CASE RemoveTemp(c) \/ CheckMarker(c) \/ CheckDirectory(c)
    BY <2>6 DEF RemoveTemp, CheckMarker, CheckDirectory, AfterRecheck
  <2>7. CASE UnlinkMarker(c) \/ Release(c)
    BY <2>7 DEF UnlinkMarker, Release
  <2>8. QED
    BY <2>1, <2>2, <2>3, <2>4, <2>5, <2>6, <2>7 DEF Protocol
<1>3. QED
  BY <1>1, <1>2

\* A step of the environment at most stops one call.
LEMMA EnvironmentKeeps ==
  ASSUME LockTypeOK, Environment, NEW d \in Call, NEW has \in BOOLEAN, AppliedInv(d, has)
  PROVE  AppliedInv(d, has)' /\ (Staging(d)' => Staging(d))
BY DEF Environment, LeaseExpires, Heartbeat, Crash, ProcessExit, LockTypeOK, AppliedInv,
       Staging, InGuard, Ending, Waiting, At, Goto

\* The operation's read, and its commit: what they leave of the caller and of
\* every other call.
LEMMA WorkMoves ==
  ASSUME LockTypeOK, NEW c \in Call, NEW next \in {"commit", "exit", "throw"},
         Work(c, next) \/ (next # "commit" /\ Commit(c, next)),
         NEW had \in BOOLEAN, AppliedInv(c, had), NEW has \in BOOLEAN, had => has,
         next = "exit" => has, next = "commit" => ~has
  PROVE  /\ AppliedInv(c, has)' /\ (Staging(c)' <=> next = "commit")
         /\ At(c, "body") => ~had
         /\ pc[c] \in {"body", "commit"} /\ pc'[c] \in {"dir", "rmtmp"}
         /\ \A d \in Call \ {c} : pc'[d] = pc[d] /\ guard'[d] = guard[d] /\ outcome'[d] = outcome[d]
BY DEF Work, Commit, EnterGuard, Throw, LockTypeOK, AppliedInv, Staging, InGuard, Ending,
       Waiting, At, Goto
=============================================================================
