------------------------- MODULE VaultStore_proofs -------------------------
(***************************************************************************)
(* In a well-timed environment VaultStore implements SerialStore, and a    *)
(* stored vault keeps its password until it is destroyed: the condition    *)
(* that a call read the vault under still holds when it replaces it.       *)
(***************************************************************************)
EXTENDS VaultStore, LocalLock_proofs

\* The lock's part of a step, for every step of the store.
LEMMA StoreStepIsLockStep ==
  ASSUME [VaultNext]_vaultVars
  PROVE  [LockNext]_lockVars
<1>1. ASSUME NEW c \in Call, VaultStep(c) PROVE LockNext
  BY <1>1 DEF VaultStep, ReadAndStage, Replace, LockNext, LockStep
<1>2. CASE Environment \/ \E c \in Call : Protocol(c)
  BY <1>2 DEF LockNext, LockStep
<1>3. CASE UNCHANGED vaultVars
  BY <1>3 DEF vaultVars
<1>4. QED
  BY <1>1, <1>2, <1>3 DEF VaultNext, CallStep

-----------------------------------------------------------------------------
(* What the store adds to the lease invariant. *)

\* Between its read and its commit, a call may still be applied to the vault, and
\* what it has staged is its effect on the vault as it is now: nobody else has
\* written in between.
StagedInv(c) ==
  Staging(c) => Allowed(c, vault) /\ staged[c] = Effect(c, vault) /\ ~applied[c]

StoreInv ==
  /\ vault \in Vaults
  /\ staged \in [Call -> Vaults]
  /\ applied \in [Call -> BOOLEAN]
  /\ \A c \in Call : StagedInv(c) /\ AppliedInv(c, applied[c])

\* Every effect on a vault that allows it leaves a vault.
LEMMA EffectType ==
  ASSUME NEW c \in Call, NEW v \in Vaults, Allowed(c, v)
  PROVE  Effect(c, v) \in Vaults
<1>1. /\ Request[c].kind \in Kind /\ Request[c].pw \in Password
      /\ Request[c].secret \in Secret /\ Request[c].value \in Value
  BY VaultAssumption
<1>2. CASE Request[c].kind \in {"set", "delete"}
  <2>1. v \in [pw : Password, secrets : [Secret -> Value \cup {"none"}]]
    BY <1>2 DEF Allowed, Readable, Vaults
  <2>2. Effect(c, v) \in [pw : Password, secrets : [Secret -> Value \cup {"none"}]]
    BY <1>1, <1>2, <2>1 DEF Effect
  <2>3. QED
    BY <2>2 DEF Vaults
<1>3. CASE Request[c].kind \in {"init", "destroy"}
  BY <1>1, <1>3 DEF Effect, Vaults, NoSecrets
<1>4. QED
  BY <1>1, <1>2, <1>3 DEF Kind

\* Deleting a secret that is not stored is no change.
LEMMA NothingIsWritten ==
  ASSUME NEW c \in Call, NEW v \in Vaults, Allowed(c, v), NothingToWrite(c, v)
  PROVE  Effect(c, v) = v
<1>1. Request[c].kind = "delete" /\ Request[c].secret \in Secret
  BY VaultAssumption DEF NothingToWrite
<1>2. v \in [pw : Password, secrets : [Secret -> Value \cup {"none"}]]
  BY <1>1 DEF Allowed, Readable, Vaults
<1>3. QED
  BY <1>1, <1>2 DEF Effect, NothingToWrite

\* It holds initially.
LEMMA StoreInvInit == VaultInit => StoreInv
<1> SUFFICES ASSUME VaultInit PROVE StoreInv
  OBVIOUS
<1>1. vault \in Vaults /\ staged \in [Call -> Vaults]
  BY VaultAssumption DEF VaultInit, Vaults
<1>2. applied \in [Call -> BOOLEAN]
  BY DEF VaultInit
<1>3. \A c \in Call : StagedInv(c) /\ AppliedInv(c, applied[c])
  BY DEF VaultInit, LockInit, StagedInv, AppliedInv, Staging, InGuard, Ending, At, Waiting
<1>4. QED
  BY <1>1, <1>2, <1>3 DEF StoreInv

\* A step of the protocol, or of the environment, leaves the store alone.
LEMMA StoreInvKept ==
  ASSUME LeaseInv, StoreInv, UNCHANGED storeVars,
         (\E c \in Call : Protocol(c)) \/ Environment
  PROVE  StoreInv'
<1> SUFFICES ASSUME NEW d \in Call PROVE StagedInv(d)' /\ AppliedInv(d, applied[d])'
  BY DEF StoreInv, storeVars
<1>1. LockTypeOK /\ StagedInv(d) /\ AppliedInv(d, applied[d]) /\ applied[d] \in BOOLEAN
  BY DEF StoreInv, LeaseInv
<1>2. AppliedInv(d, applied[d])' /\ (Staging(d)' => Staging(d))
  <2>1. applied'[d] = applied[d]
    BY DEF storeVars
  <2>2. QED
    BY <1>1, <2>1, ProtocolKeeps, EnvironmentKeeps DEF AppliedInv, Staging, InGuard, At
<1>3. QED
  BY <1>1, <1>2 DEF StagedInv, Allowed, Readable, Effect, StoreInv, storeVars

\* A read stages the effect on the file as it is; a commit changes the file when
\* no other call has staged anything: the caller holds the lease, and only one
\* call does.
LEMMA StoreInvOperation ==
  ASSUME LeaseInv, StoreInv, NEW c \in Call, VaultStep(c)
  PROVE  StoreInv'
<1>0. LockTypeOK /\ StagedInv(c) /\ AppliedInv(c, applied[c]) /\ applied[c] \in BOOLEAN
      /\ vault \in Vaults /\ staged \in [Call -> Vaults] /\ applied \in [Call -> BOOLEAN]
      /\ \A d \in Call : StagedInv(d) /\ AppliedInv(d, applied[d])
  BY DEF StoreInv, LeaseInv
<1>1. PICK next \in {"commit", "exit", "throw"} :
        /\ Work(c, next) \/ (next # "commit" /\ Commit(c, next))
        /\ \/ next = "commit" /\ At(c, "body") /\ Allowed(c, vault)
              /\ staged' = [staged EXCEPT ![c] = Effect(c, vault)]
              /\ UNCHANGED <<vault, applied>>
           \/ next # "commit" /\ applied' = [applied EXCEPT ![c] = TRUE] /\ UNCHANGED staged
              /\ (vault' = vault \/ (At(c, "commit") /\ vault' = staged[c]))
           \/ next = "throw" /\ UNCHANGED storeVars
  BY <1>0 DEF VaultStep, ReadAndStage, Replace, Work, Commit
<1>2. applied' \in [Call -> BOOLEAN] /\ vault' \in Vaults /\ staged' \in [Call -> Vaults]
  <2>1. Allowed(c, vault) => Effect(c, vault) \in Vaults
    BY <1>0, EffectType
  <2>2. QED
    BY <1>0, <1>1, <2>1 DEF storeVars
<1>3. /\ applied[c] => applied'[c]
      /\ next = "exit" => applied'[c]
      /\ next = "commit" => ~applied'[c]
  BY <1>0, <1>1 DEF storeVars, AppliedInv, At
<1>4. /\ AppliedInv(c, applied[c])' /\ (Staging(c)' <=> next = "commit")
      /\ \A d \in Call \ {c} : pc'[d] = pc[d] /\ guard'[d] = guard[d] /\ outcome'[d] = outcome[d]
  <2>1. ASSUME NEW has \in BOOLEAN, has = applied'[c]
        PROVE  /\ AppliedInv(c, has)' /\ (Staging(c)' <=> next = "commit")
               /\ \A d \in Call \ {c} : pc'[d] = pc[d] /\ guard'[d] = guard[d] /\ outcome'[d] = outcome[d]
    BY <1>0, <1>1, <1>3, <2>1, WorkMoves
  <2>2. applied'[c] \in BOOLEAN
    BY <1>2
  <2>3. QED
    BY <2>1, <2>2 DEF AppliedInv, InGuard, At
<1>5. StagedInv(c)'
  <2>1. CASE next = "commit"
    <3>1. vault' = vault /\ Allowed(c, vault) /\ staged'[c] = Effect(c, vault) /\ ~applied'[c]
      BY <1>0, <1>1, <1>3, <2>1
    <3>2. QED
      BY <3>1 DEF StagedInv, Allowed, Readable, Effect
  <2>2. CASE next # "commit"
    BY <1>4, <2>2 DEF StagedInv
  <2>3. QED
    BY <2>1, <2>2
<1>6. ASSUME NEW d \in Call \ {c}
      PROVE  StagedInv(d)' /\ AppliedInv(d, applied[d])'
  <2>1. applied'[d] = applied[d] /\ staged'[d] = staged[d]
    BY <1>0, <1>1 DEF storeVars
  <2>2. Staging(d)' <=> Staging(d)
    BY <1>4 DEF Staging, InGuard, At
  <2>3. Staging(d) => vault' = vault
    <3>1. Staging(d) => Holding(d)
      BY DEF Staging, InGuard, At, Holding, Owning
    <3>2. At(c, "commit") => Holding(c)
      BY DEF At, Holding, Owning
    <3>3. Holding(c) /\ Holding(d) => c = d
      BY DEF LeaseInv, HolderInv
    <3>4. QED
      BY <1>1, <3>1, <3>2, <3>3 DEF storeVars
  <2>4. AppliedInv(d, applied[d])'
    BY <1>0, <1>4, <2>1 DEF AppliedInv, InGuard, At
  <2>5. StagedInv(d)'
    BY <1>0, <2>1, <2>2, <2>3 DEF StagedInv, Allowed, Readable, Effect
  <2>6. QED
    BY <2>4, <2>5
<1>7. QED
  BY <1>2, <1>4, <1>5, <1>6 DEF StoreInv

\* Every step keeps it.
LEMMA StoreInvStep ==
  LeaseInv /\ StoreInv /\ [VaultNext]_vaultVars => StoreInv'
<1>1. ASSUME StoreInv, UNCHANGED vaultVars PROVE StoreInv'
  BY <1>1 DEF vaultVars, lockVars, storeVars, StoreInv, StagedInv, AppliedInv, Staging, InGuard, At
<1>2. ASSUME LeaseInv, StoreInv, VaultNext PROVE StoreInv'
  BY <1>2, StoreInvKept, StoreInvOperation DEF VaultNext, CallStep
<1>3. QED
  BY <1>1, <1>2

-----------------------------------------------------------------------------
(* The refinement mapping, step by step *)

\* A step that moves no call to its end, and leaves the store alone, stutters.
LEMMA SerialStutter ==
  ASSUME UNCHANGED storeVars, \A c \in Call : Phase(c)' = Phase(c)
  PROVE  UNCHANGED Serial!serialVars
BY DEF Serial!serialVars, storeVars

\* A step that ends one call, and leaves the store alone, is its End.
LEMMA SerialEnd ==
  ASSUME UNCHANGED storeVars, NEW c \in Call, NEW how \in {"ok", "failed", "timeout", "dead"},
         Phase(c) = "open", Phase(c)' = how,
         \A d \in Call \ {c} : Phase(d)' = Phase(d),
         how = "ok" => applied[c], how = "timeout" => ~applied[c]
  PROVE  Serial!SerialNext
<1>1. [d \in Call |-> Phase(d)]' = [[d \in Call |-> Phase(d)] EXCEPT ![c] = how]
  OBVIOUS
<1>2. [d \in Call |-> Phase(d)][c] = "open"
  OBVIOUS
<1>3. Serial!End(c, how)
  BY <1>1, <1>2 DEF Serial!End, storeVars
<1>4. QED
  BY <1>3 DEF Serial!SerialNext, Serial!Ends

\* A step of the protocol ends its call, or stutters.
LEMMA ProtocolEnds ==
  ASSUME LeaseInv, StoreInv, NEW c \in Call, Protocol(c), UNCHANGED storeVars
  PROVE  [Serial!SerialNext]_(Serial!serialVars)
<1>1. /\ pc[c] \notin {"done", "dead"} /\ pc'[c] # "dead"
      /\ \A d \in Call \ {c} : Phase(d)' = Phase(d)
  BY ProtocolMoves DEF LeaseInv, Phase, At
<1>2. CASE pc'[c] \notin {"done", "dead"}
  <2>1. Phase(c)' = Phase(c)
    BY <1>1, <1>2 DEF Phase, At
  <2>2. QED
    BY <1>1, <2>1, SerialStutter
<1>3. CASE pc'[c] = "done"
  <2>1. AppliedInv(c, applied[c])'
    BY StoreInvKept DEF StoreInv
  <2>2. /\ Phase(c) = "open" /\ Phase(c)' = outcome'[c]
        /\ outcome'[c] \in {"ok", "failed", "timeout"}
        /\ outcome'[c] = "ok" => applied[c]
        /\ outcome'[c] = "timeout" => ~applied[c]
    BY <1>1, <1>3, <2>1 DEF Phase, At, AppliedInv, storeVars
  <2>3. QED
    BY <1>1, <2>2, SerialEnd
<1>4. QED
  BY <1>1, <1>2, <1>3

\* A crash ends a call; heartbeats, expiries and exits stutter.
LEMMA EnvironmentEnds ==
  ASSUME LeaseInv, StoreInv, Environment, UNCHANGED storeVars
  PROVE  [Serial!SerialNext]_(Serial!serialVars)
<1>0. LockTypeOK
  BY DEF LeaseInv
<1>1. CASE LeaseExpires \/ \E c \in Call : Heartbeat(c) \/ ProcessExit(c)
  <2>1. UNCHANGED <<pc, outcome>>
    BY <1>1 DEF LeaseExpires, Heartbeat, ProcessExit
  <2>2. QED
    BY <2>1, SerialStutter DEF Phase, At
<1>2. ASSUME NEW c \in Call, Crash(c)
      PROVE  [Serial!SerialNext]_(Serial!serialVars)
  <2>1. Phase(c) = "open" /\ Phase(c)' = "dead"
    BY <1>0, <1>2 DEF Crash, Phase, At, Goto, LockTypeOK
  <2>2. \A d \in Call \ {c} : Phase(d)' = Phase(d)
    BY <1>0, <1>2 DEF Crash, Phase, At, Goto, LockTypeOK
  <2>3. QED
    BY <2>1, <2>2, SerialEnd
<1>3. QED
  BY <1>1, <1>2 DEF Environment

\* The steps of the store itself: a read that finds nothing to delete and a
\* replacement are the caller's Apply, everything else stutters.
LEMMA StoreApplies ==
  ASSUME LeaseInv, StoreInv, NEW c \in Call, VaultStep(c)
  PROVE  [Serial!SerialNext]_(Serial!serialVars)
<1>0. LockTypeOK /\ StagedInv(c) /\ AppliedInv(c, applied[c])
  BY DEF StoreInv, LeaseInv
<1>1. /\ pc[c] \in {"body", "commit"} /\ pc'[c] \in {"dir", "rmtmp"}
      /\ \A d \in Call \ {c} : pc'[d] = pc[d] /\ outcome'[d] = outcome[d]
  BY <1>0 DEF VaultStep, ReadAndStage, Replace, Work, Commit, EnterGuard, Throw, At, Goto, LockTypeOK
<1>2. Phase(c) = "open" /\ \A d \in Call : Phase(d)' = Phase(d)
  BY <1>1 DEF Phase, At
<1>3. CASE ~applied[c] /\ Allowed(c, vault) /\ vault' = Effect(c, vault) /\ applied' = [applied EXCEPT ![c] = TRUE]
  <2>1. Serial!Apply(c)
    BY <1>2, <1>3 DEF Serial!Apply
  <2>2. QED
    BY <2>1 DEF Serial!SerialNext
<1>4. CASE UNCHANGED <<vault, applied>>
  BY <1>2, <1>4 DEF Serial!serialVars
<1>5. CASE ReadAndStage(c)
  <2>1. CASE Allowed(c, vault) /\ NothingToWrite(c, vault) /\ Work(c, "exit")
             /\ applied' = [applied EXCEPT ![c] = TRUE] /\ UNCHANGED <<vault, staged>>
    <3>1. Effect(c, vault) = vault
      BY <2>1, NothingIsWritten DEF StoreInv
    <3>2. ~applied[c]
      BY <1>0, <2>1 DEF Work, At, AppliedInv
    <3>3. QED
      BY <1>3, <2>1, <3>1, <3>2
  <2>2. QED
    BY <1>4, <1>5, <2>1 DEF ReadAndStage, storeVars
<1>6. CASE Replace(c)
  <2>1. Staging(c)
    BY <1>6 DEF Replace, Commit, Staging
  <2>2. QED
    BY <1>0, <1>3, <1>4, <1>6, <2>1 DEF Replace, StagedInv, storeVars
<1>7. QED
  BY <1>5, <1>6 DEF VaultStep

\* Every step is a step of the serial store, or stutters.
LEMMA SerialStep ==
  ASSUME LeaseInv, StoreInv, [VaultNext]_vaultVars
  PROVE  [Serial!SerialNext]_(Serial!serialVars)
<1>1. CASE UNCHANGED vaultVars
  BY <1>1, SerialStutter DEF vaultVars, lockVars, Phase, At
<1>2. QED
  BY <1>1, StoreApplies, ProtocolEnds, EnvironmentEnds DEF VaultNext, CallStep

\* In a well-timed environment, the mutations of any number of processes take
\* effect one at a time on the vault the previous one left, each under the
\* condition it was checked against; with any passwords and secrets, and crashes
\* at any step (ENGINEERING.md:60, vault.ts:52).
THEOREM VaultIsSerial ==
  ASSUME WellTimed
  PROVE  VaultSpec => VaultMutationsAreSerial
<1>1. VaultInit => LeaseInv /\ StoreInv
  BY LeaseInvInit, StoreInvInit DEF VaultInit
<1>2. LeaseInv /\ StoreInv /\ [VaultNext]_vaultVars => (LeaseInv /\ StoreInv)'
  BY StoreStepIsLockStep, LeaseInvStep, StoreInvStep
<1>3. VaultInit => Serial!SerialInit
  BY DEF VaultInit, LockInit, Serial!SerialInit, Phase, At
<1>4. LeaseInv /\ StoreInv /\ [VaultNext]_vaultVars => [Serial!SerialNext]_(Serial!serialVars)
  BY SerialStep
<1>5. QED
  BY <1>1, <1>2, <1>3, <1>4, PTL DEF VaultSpec, VaultMutationsAreSerial, Serial!SerialSpec

\* The store adds nothing to what its calls do to the lease: what is proved of
\* the lease holds of the store.
THEOREM VaultImplementsLock == VaultSpec => LockSpec
<1>1. VaultInit => LockInit
  BY DEF VaultInit
<1>2. [VaultNext]_vaultVars => [LockNext]_lockVars
  BY StoreStepIsLockStep
<1>3. QED
  BY <1>1, <1>2, PTL DEF VaultSpec, LockSpec

\* A replacement is the effect of a call that was allowed on the vault it replaces.
LEMMA EffectKeepsPassword ==
  ASSUME NEW c \in Call, NEW v \in Vaults, Allowed(c, v), v # Absent
  PROVE  Effect(c, v).pw = v.pw \/ Effect(c, v) = Absent
<1>1. Request[c].kind \in Kind /\ v \in [pw : Password, secrets : [Secret -> Value \cup {"none"}]]
  BY VaultAssumption DEF Vaults
<1>2. CASE Request[c].kind \in {"set", "delete"}
  BY <1>1, <1>2 DEF Effect
<1>3. CASE Request[c].kind = "init"
  BY <1>3 DEF Allowed
<1>4. CASE Request[c].kind = "destroy"
  BY <1>4 DEF Effect
<1>5. QED
  BY <1>1, <1>2, <1>3, <1>4 DEF Kind

\* A stored vault keeps its password until it is destroyed, whoever else writes
\* between a call's check and its rename: a second init never overwrites it, and
\* set and delete never replace a vault they could not decrypt (vault.ts:52).
THEOREM PasswordIsKept ==
  ASSUME WellTimed
  PROVE  VaultSpec => KeepsPasswordUntilDestroyed
<1>1. VaultInit => LeaseInv /\ StoreInv
  BY LeaseInvInit, StoreInvInit DEF VaultInit
<1>2. LeaseInv /\ StoreInv /\ [VaultNext]_vaultVars => (LeaseInv /\ StoreInv)'
  BY StoreStepIsLockStep, LeaseInvStep, StoreInvStep
<1>3. LeaseInv /\ StoreInv /\ [VaultNext]_vaultVars
        => [vault # Absent => vault'.pw = vault.pw \/ vault' = Absent]_vaultVars
  <2> SUFFICES ASSUME StoreInv, VaultNext, vault # Absent, vault' # vault
               PROVE  vault'.pw = vault.pw \/ vault' = Absent
    OBVIOUS
  <2>1. PICK c \in Call : At(c, "commit") /\ vault' = staged[c]
    BY DEF VaultNext, CallStep, VaultStep, ReadAndStage, Replace, Commit, storeVars
  <2>2. Allowed(c, vault) /\ staged[c] = Effect(c, vault) /\ vault \in Vaults
    BY <2>1 DEF StoreInv, StagedInv, Staging
  <2>3. QED
    BY <2>1, <2>2, EffectKeepsPassword
<1>4. QED
  BY <1>1, <1>2, <1>3, PTL DEF VaultSpec, KeepsPasswordUntilDestroyed

\* No return path of any vault operation leaves the lease behind, as long as the
\* checks of the lock's own files do not fail (local-lock.ts:132-133).
THEOREM VaultStrandsNoLease ==
  ASSUME WellTimed, ~ChecksFail
  PROVE  VaultSpec => []LeaseNotStranded
BY VaultImplementsLock, NoStrandedLease
=============================================================================
