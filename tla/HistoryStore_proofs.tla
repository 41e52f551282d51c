------------------------ MODULE HistoryStore_proofs ------------------------
(* In a well-timed environment HistoryStore implements SerialStore; in any     *)
(* environment the file keeps no entry twice and no more entries than allowed. *)
EXTENDS HistoryStore, LocalLock_proofs

\* The lock's part of a step, for every step of the store.
LEMMA StoreStepIsLockStep ==
  ASSUME [HistNext]_histVars
  PROVE  [LockNext]_lockVars
<1>1. ASSUME NEW c \in Call, HistStep(c) PROVE LockNext
  BY <1>1 DEF HistStep, ReadAndStage, Replace, LockNext, LockStep
<1>2. CASE Environment \/ \E c \in Call : Protocol(c)
  BY <1>2 DEF LockNext, LockStep
<1>3. CASE UNCHANGED histVars
  BY <1>3 DEF histVars
<1>4. QED
  BY <1>1, <1>2, <1>3 DEF HistNext, CallStep

-----------------------------------------------------------------------------
(* What the store adds to the lease invariant. *)

\* Between its read and its commit, what a call has staged is its effect on the
\* file as it is now: nobody else has written in between.
StagedInv(c) == Staging(c) => staged[c] = Effect(c, history) /\ ~applied[c]

StoreInv ==
  /\ DOMAIN staged = Call
  /\ applied \in [Call -> BOOLEAN]
  /\ \A c \in Call : StagedInv(c) /\ AppliedInv(c, applied[c])

\* It holds initially.
LEMMA StoreInvInit == HistInit => StoreInv
BY DEF HistInit, LockInit, StoreInv, StagedInv, AppliedInv, Staging, InGuard, Ending, At, Waiting

\* A step of the protocol, or of the environment, leaves the store alone.
LEMMA StoreInvKept ==
  ASSUME LeaseInv, StoreInv, UNCHANGED storeVars,
         (\E c \in Call : Protocol(c)) \/ Environment
  PROVE  StoreInv'
<1> SUFFICES ASSUME NEW d \in Call PROVE StagedInv(d)' /\ AppliedInv(d, applied[d])'
  BY DEF StoreInv, storeVars
<1>1. LockTypeOK /\ StagedInv(d) /\ AppliedInv(d, applied[d]) /\ applied[d] \in BOOLEAN
  BY DEF StoreInv, LeaseInv
<1>2. AppliedInv(d, applied[d])' /\ (Staging(d)' => Staging(d))
  <2>1. applied'[d] = applied[d]
    BY DEF storeVars
  <2>2. QED
    BY <1>1, <2>1, ProtocolKeeps, EnvironmentKeeps DEF AppliedInv, Staging, InGuard, At
<1>3. QED
  BY <1>1, <1>2 DEF StagedInv, Effect, storeVars

\* A read stages the effect on the file as it is; a commit changes the file when
\* no other call has staged anything: the caller holds the lease, and only one
\* call does.
LEMMA StoreInvOperation ==
  ASSUME LeaseInv, StoreInv, NEW c \in Call, HistStep(c)
  PROVE  StoreInv'
<1>0. LockTypeOK /\ StagedInv(c) /\ AppliedInv(c, applied[c]) /\ applied[c] \in BOOLEAN
      /\ DOMAIN staged = Call /\ applied \in [Call -> BOOLEAN]
      /\ \A d \in Call : StagedInv(d) /\ AppliedInv(d, applied[d])
  BY DEF StoreInv, LeaseInv
<1>1. PICK next \in {"commit", "exit", "throw"} :
        /\ Work(c, next) \/ (next # "commit" /\ Commit(c, next))
        /\ \/ next = "commit" /\ At(c, "body") /\ staged' = [staged EXCEPT ![c] = Effect(c, history)]
              /\ UNCHANGED <<history, applied>>
           \/ next # "commit" /\ applied' = [applied EXCEPT ![c] = TRUE] /\ UNCHANGED staged
              /\ (history' = history \/ At(c, "commit"))
           \/ next = "throw" /\ UNCHANGED storeVars
  BY <1>0 DEF HistStep, ReadAndStage, Replace, Work, Commit
<1>2. applied' \in [Call -> BOOLEAN] /\ DOMAIN staged' = Call
  BY <1>0, <1>1 DEF storeVars
<1>3. /\ applied[c] => applied'[c]
      /\ next = "exit" => applied'[c]
      /\ next = "commit" => ~applied'[c]
  BY <1>0, <1>1 DEF storeVars, AppliedInv, At
<1>4. /\ AppliedInv(c, applied[c])' /\ (Staging(c)' <=> next = "commit")
      /\ \A d \in Call \ {c} : pc'[d] = pc[d] /\ guard'[d] = guard[d] /\ outcome'[d] = outcome[d]
  <2>1. ASSUME NEW has \in BOOLEAN, has = applied'[c]
        PROVE  /\ AppliedInv(c, has)' /\ (Staging(c)' <=> next = "commit")
               /\ \A d \in Call \ {c} : pc'[d] = pc[d] /\ guard'[d] = guard[d] /\ outcome'[d] = outcome[d]
    BY <1>0, <1>1, <1>3, <2>1, WorkMoves
  <2>2. applied'[c] \in BOOLEAN
    BY <1>2
  <2>3. QED
    BY <2>1, <2>2 DEF AppliedInv, InGuard, At
<1>5. StagedInv(c)'
  <2>1. CASE next = "commit"
    <3>1. staged'[c] = Effect(c, history') /\ ~applied'[c]
      BY <1>0, <1>1, <1>3, <2>1
    <3>2. QED
      BY <3>1 DEF StagedInv, Effect
  <2>2. CASE next # "commit"
    BY <1>4, <2>2 DEF StagedInv
  <2>3. QED
    BY <2>1, <2>2
<1>6. ASSUME NEW d \in Call \ {c}
      PROVE  StagedInv(d)' /\ AppliedInv(d, applied[d])'
  <2>1. applied'[d] = applied[d] /\ staged'[d] = staged[d]
    BY <1>0, <1>1 DEF storeVars
  <2>2. Staging(d)' <=> Staging(d)
    BY <1>4 DEF Staging, InGuard, At
  <2>3. Staging(d) => history' = history
    <3>1. Staging(d) => Holding(d)
      BY DEF Staging, InGuard, At, Holding, Owning
    <3>2. At(c, "commit") => Holding(c)
      BY DEF At, Holding, Owning
    <3>3. Holding(c) /\ Holding(d) => c = d
      BY DEF LeaseInv, HolderInv
    <3>4. QED
      BY <1>1, <3>1, <3>2, <3>3 DEF storeVars
  <2>4. AppliedInv(d, applied[d])'
    BY <1>0, <1>4, <2>1 DEF AppliedInv, InGuard, At
  <2>5. StagedInv(d)'
    BY <1>0, <2>1, <2>2, <2>3 DEF StagedInv, Effect
  <2>6. QED
    BY <2>4, <2>5
<1>7. QED
  BY <1>2, <1>4, <1>5, <1>6 DEF StoreInv

\* Every step keeps it.
LEMMA StoreInvStep ==
  LeaseInv /\ StoreInv /\ [HistNext]_histVars => StoreInv'
<1>1. ASSUME StoreInv, UNCHANGED histVars PROVE StoreInv'
  BY <1>1 DEF histVars, lockVars, storeVars, StoreInv, StagedInv, AppliedInv, Staging, InGuard, At
<1>2. ASSUME LeaseInv, StoreInv, HistNext PROVE StoreInv'
  BY <1>2, StoreInvKept, StoreInvOperation DEF HistNext, CallStep
<1>3. QED
  BY <1>1, <1>2

-----------------------------------------------------------------------------
(* The refinement mapping, step by step *)

\* A step that moves no call to its end, and leaves the store alone, stutters.
LEMMA SerialStutter ==
  ASSUME UNCHANGED storeVars, \A c \in Call : Phase(c)' = Phase(c)
  PROVE  UNCHANGED Serial!serialVars
BY DEF Serial!serialVars, storeVars

\* A step that ends one call, and leaves the store alone, is its End.
LEMMA SerialEnd ==
  ASSUME UNCHANGED storeVars, NEW c \in Call, NEW how \in {"ok", "failed", "timeout", "dead"},
         Phase(c) = "open", Phase(c)' = how,
         \A d \in Call \ {c} : Phase(d)' = Phase(d),
         how = "ok" => applied[c], how = "timeout" => ~applied[c]
  PROVE  Serial!SerialNext
<1>1. [d \in Call |-> Phase(d)]' = [[d \in Call |-> Phase(d)] EXCEPT ![c] = how]
  OBVIOUS
<1>2. [d \in Call |-> Phase(d)][c] = "open"
  OBVIOUS
<1>3. Serial!End(c, how)
  BY <1>1, <1>2 DEF Serial!End, storeVars
<1>4. QED
  BY <1>3 DEF Serial!SerialNext, Serial!Ends

\* A step of the protocol ends its call, or stutters.
LEMMA ProtocolEnds ==
  ASSUME LeaseInv, StoreInv, NEW c \in Call, Protocol(c), UNCHANGED storeVars
  PROVE  [Serial!SerialNext]_(Serial!serialVars)
<1>1. /\ pc[c] \notin {"done", "dead"} /\ pc'[c] # "dead"
      /\ \A d \in Call \ {c} : Phase(d)' = Phase(d)
  BY ProtocolMoves DEF LeaseInv, Phase, At
<1>2. CASE pc'[c] \notin {"done", "dead"}
  <2>1. Phase(c)' = Phase(c)
    BY <1>1, <1>2 DEF Phase, At
  <2>2. QED
    BY <1>1, <2>1, SerialStutter
<1>3. CASE pc'[c] = "done"
  <2>1. AppliedInv(c, applied[c])'
    BY StoreInvKept DEF StoreInv
  <2>2. /\ Phase(c) = "open" /\ Phase(c)' = outcome'[c]
        /\ outcome'[c] \in {"ok", "failed", "timeout"}
        /\ outcome'[c] = "ok" => applied[c]
        /\ outcome'[c] = "timeout" => ~applied[c]
    BY <1>1, <1>3, <2>1 DEF Phase, At, AppliedInv, storeVars
  <2>3. QED
    BY <1>1, <2>2, SerialEnd
<1>4. QED
  BY <1>1, <1>2, <1>3

\* A crash ends a call; heartbeats, expiries and exits stutter.
LEMMA EnvironmentEnds ==
  ASSUME LeaseInv, StoreInv, Environment, UNCHANGED storeVars
  PROVE  [Serial!SerialNext]_(Serial!serialVars)
<1>0. LockTypeOK
  BY DEF LeaseInv
<1>1. CASE LeaseExpires \/ \E c \in Call : Heartbeat(c) \/ ProcessExit(c)
  <2>1. UNCHANGED <<pc, outcome>>
    BY <1>1 DEF LeaseExpires, Heartbeat, ProcessExit
  <2>2. QED
    BY <2>1, SerialStutter DEF Phase, At
<1>2. ASSUME NEW c \in Call, Crash(c)
      PROVE  [Serial!SerialNext]_(Serial!serialVars)
  <2>1. Phase(c) = "open" /\ Phase(c)' = "dead"
    BY <1>0, <1>2 DEF Crash, Phase, At, Goto, LockTypeOK
  <2>2. \A d \in Call \ {c} : Phase(d)' = Phase(d)
    BY <1>0, <1>2 DEF Crash, Phase, At, Goto, LockTypeOK
  <2>3. QED
    BY <2>1, <2>2, SerialEnd
<1>3. QED
  BY <1>1, <1>2 DEF Environment

\* The steps of the store itself: a retry's read and a replacement are the
\* caller's Apply, everything else stutters.
LEMMA StoreApplies ==
  ASSUME LeaseInv, StoreInv, NEW c \in Call, HistStep(c)
  PROVE  [Serial!SerialNext]_(Serial!serialVars)
<1>0. LockTypeOK /\ StagedInv(c) /\ AppliedInv(c, applied[c])
  BY DEF StoreInv, LeaseInv
<1>1. /\ pc[c] \in {"body", "commit"} /\ pc'[c] \in {"dir", "rmtmp"}
      /\ \A d \in Call \ {c} : pc'[d] = pc[d] /\ outcome'[d] = outcome[d]
  BY <1>0 DEF HistStep, ReadAndStage, Replace, Work, Commit, EnterGuard, Throw, At, Goto, LockTypeOK
<1>2. Phase(c) = "open" /\ \A d \in Call : Phase(d)' = Phase(d)
  BY <1>1 DEF Phase, At
<1>3. CASE ~applied[c] /\ history' = Effect(c, history) /\ applied' = [applied EXCEPT ![c] = TRUE]
  <2>1. Serial!Apply(c)
    BY <1>2, <1>3 DEF Serial!Apply, Anything
  <2>2. QED
    BY <2>1 DEF Serial!SerialNext
<1>4. CASE UNCHANGED <<history, applied>>
  BY <1>2, <1>4 DEF Serial!serialVars
<1>5. CASE ReadAndStage(c)
  <2>1. CASE IsRetry(c, history) /\ Work(c, "exit") /\ applied' = [applied EXCEPT ![c] = TRUE]
             /\ UNCHANGED <<history, staged>>
    BY <1>0, <1>3, <2>1 DEF IsRetry, Effect, Work, At, AppliedInv
  <2>2. QED
    BY <1>4, <1>5, <2>1 DEF ReadAndStage, storeVars
<1>6. CASE Replace(c)
  <2>1. Staging(c)
    BY <1>6 DEF Replace, Commit, Staging
  <2>2. QED
    BY <1>0, <1>3, <1>4, <1>6, <2>1 DEF Replace, StagedInv, storeVars
<1>7. QED
  BY <1>5, <1>6 DEF HistStep

\* Every step is a step of the serial store, or stutters.
LEMMA SerialStep ==
  ASSUME LeaseInv, StoreInv, [HistNext]_histVars
  PROVE  [Serial!SerialNext]_(Serial!serialVars)
<1>1. CASE UNCHANGED histVars
  BY <1>1, SerialStutter DEF histVars, lockVars, Phase, At
<1>2. QED
  BY <1>1, StoreApplies, ProtocolEnds, EnvironmentEnds DEF HistNext, CallStep

\* In a well-timed environment, appends and clears of any number of processes
\* take effect one at a time, each on the entries the previous one left; with
\* any entries, any retention bound, and crashes at any step (HISTORY.md:15).
THEOREM HistoryIsSerial ==
  ASSUME WellTimed
  PROVE  HistSpec => AppendsAndClearsAreSerial
<1>1. HistInit => LeaseInv /\ StoreInv
  BY LeaseInvInit, StoreInvInit DEF HistInit
<1>2. LeaseInv /\ StoreInv /\ [HistNext]_histVars => (LeaseInv /\ StoreInv)'
  BY StoreStepIsLockStep, LeaseInvStep, StoreInvStep
<1>3. HistInit => Serial!SerialInit
  BY DEF HistInit, LockInit, Serial!SerialInit, Phase, At
<1>4. LeaseInv /\ StoreInv /\ [HistNext]_histVars => [Serial!SerialNext]_(Serial!serialVars)
  BY SerialStep
<1>5. QED
  BY <1>1, <1>2, <1>3, <1>4, PTL DEF HistSpec, AppendsAndClearsAreSerial, Serial!SerialSpec

\* The store adds nothing to what its calls do to the lease: what is proved of
\* the lease holds of the store.
THEOREM HistoryImplementsLock == HistSpec => LockSpec
<1>1. HistInit => LockInit
  BY DEF HistInit
<1>2. [HistNext]_histVars => [LockNext]_lockVars
  BY StoreStepIsLockStep
<1>3. QED
  BY <1>1, <1>2, PTL DEF HistSpec, LockSpec

\* Two appends or clears never hold the lease at the same time (local-lock.ts:22).
THEOREM HistoryExcludes ==
  ASSUME WellTimed
  PROVE  HistSpec => []Exclusive
BY HistoryImplementsLock, MutualExclusion

\* Whatever stalls, takeover races and inode reuse happen, an append or clear whose
\* marker a later owner has swept never replaces the file (local-lock.ts:88-100).
THEOREM SweptNeverReplaces == HistSpec => SweptNeverCommits
BY HistoryImplementsLock, SweptCallsNeverCommit

-----------------------------------------------------------------------------
(* What holds without any assumption on time: what is in the file, and in any *)
(* temporary file, however old the entries are that it was made from.         *)

Distinct(s) == \A i, j \in 1..Len(s) : s[i] = s[j] => i = j

\* A list of entries that the code may store.
Storable(s) ==
  /\ s \in Seq(Entry) /\ Distinct(s)
  /\ Len(s) <= Kept \/ s = Earlier

FilesInv ==
  /\ Storable(history)
  /\ staged \in [Call -> Seq(Entry)]
  /\ \A c \in Call : Storable(staged[c])

\* A bound below one still keeps an entry.
LEMMA KeptType == Kept \in Nat /\ Kept >= 1
BY HistoryAssumption DEF Kept

\* The empty list may be stored.
LEMMA EmptyIsStorable == Storable(<<>>)
<1>1. <<>> \in Seq(Entry) /\ Len(<<>>) = 0
  OBVIOUS
<1>2. QED
  BY <1>1, KeptType DEF Storable, Distinct

\* Retention cuts a list to the bound and leaves no entry twice.
LEMMA NewestIsStorable ==
  ASSUME NEW s \in Seq(Entry), Distinct(s)
  PROVE  Storable(Newest(s))
<1>1. Len(s) \in Nat /\ \A i \in 1..Len(s) : s[i] \in Entry
  OBVIOUS
<1>2. CASE Len(s) <= Kept
  BY <1>2 DEF Newest, Storable
<1>3. CASE Len(s) > Kept
  <2> DEFINE m == Len(s) - Kept + 1
             t == SubSeq(s, m, Len(s))
  <2>1. m \in Int /\ m >= 1 /\ Len(s) \in Int /\ Len(s) - m + 1 = Kept /\ m <= Len(s)
    BY <1>1, <1>3, KeptType
  <2>2. \A i \in m..Len(s) : s[i] \in Entry
    BY <1>1, <2>1
  <2> HIDE DEF m
  <2>3. /\ t \in Seq(Entry) /\ Len(t) = Kept
        /\ \A i \in 1..Kept : t[i] = s[m + i - 1]
    BY <2>1, <2>2
  <2>4. \A i \in 1..Kept : m + i - 1 \in 1..Len(s)
    BY <1>1, <2>1, KeptType
  <2>5. Distinct(t)
    BY <2>1, <2>3, <2>4, KeptType DEF Distinct
  <2>6. Newest(s) = t
    BY <1>1, <1>3, KeptType DEF Newest, m
  <2>7. QED
    BY <2>3, <2>5, <2>6, KeptType DEF Storable
<1>4. QED
  BY <1>1, <1>2, <1>3, KeptType

\* What a call that is no retry stages may be stored.
LEMMA EffectIsStorable ==
  ASSUME NEW c \in Call, NEW s, Storable(s), ~IsRetry(c, s)
  PROVE  Storable(Effect(c, s))
<1>1. CASE c \in Clearing
  BY <1>1, EmptyIsStorable DEF Effect
<1>2. CASE c \notin Clearing
  <2>1. s \in Seq(Entry) /\ Distinct(s) /\ EntryOf[c] \in Entry /\ ~Stored(EntryOf[c], s)
    BY <1>2, HistoryAssumption DEF IsRetry, Storable
  <2> DEFINE t == Append(s, EntryOf[c])
  <2>2. /\ t \in Seq(Entry) /\ Len(t) = Len(s) + 1 /\ Len(s) \in Nat
        /\ \A i \in 1..Len(s) : t[i] = s[i]
        /\ t[Len(s) + 1] = EntryOf[c]
    BY <2>1
  <2>3. Distinct(t)
    BY <2>1, <2>2 DEF Distinct, Stored
  <2>4. Effect(c, s) = Newest(t)
    BY <1>2, <2>1 DEF Effect
  <2>5. QED
    BY <2>2, <2>3, <2>4, NewestIsStorable
<1>3. QED
  BY <1>1, <1>2

\* It holds initially.
LEMMA FilesInvInit == HistInit => FilesInv
<1> SUFFICES ASSUME HistInit PROVE FilesInv
  OBVIOUS
<1>1. Storable(history)
  BY HistoryAssumption DEF HistInit, Storable, Distinct
<1>2. staged = [c \in Call |-> <<>>]
  BY DEF HistInit
<1>3. QED
  BY <1>1, <1>2, EmptyIsStorable DEF FilesInv, Storable

\* Every step keeps it: only a read fills a temporary file, only a rename of one
\* changes the history.
LEMMA FilesInvStep == FilesInv /\ [HistNext]_histVars => FilesInv'
<1> SUFFICES ASSUME FilesInv, [HistNext]_histVars PROVE FilesInv'
  OBVIOUS
<1>1. ASSUME UNCHANGED <<history, staged>> PROVE FilesInv'
  BY <1>1 DEF FilesInv, Storable, Distinct
<1>2. ASSUME NEW c \in Call, ~IsRetry(c, history),
             staged' = [staged EXCEPT ![c] = Effect(c, history)], UNCHANGED history
      PROVE  FilesInv'
  <2>1. Storable(Effect(c, history))
    BY <1>2, EffectIsStorable DEF FilesInv
  <2>2. staged' \in [Call -> Seq(Entry)]
    BY <1>2, <2>1 DEF FilesInv, Storable
  <2>3. \A d \in Call : Storable(staged'[d])
    BY <1>2, <2>1 DEF FilesInv
  <2>4. QED
    BY <1>2, <2>2, <2>3 DEF FilesInv, Storable, Distinct
<1>3. ASSUME NEW c \in Call, history' = staged[c], UNCHANGED staged
      PROVE  FilesInv'
  BY <1>3 DEF FilesInv, Storable, Distinct
<1>4. ASSUME NEW c \in Call, HistStep(c) PROVE FilesInv'
  BY <1>1, <1>2, <1>3, <1>4 DEF HistStep, ReadAndStage, Replace, storeVars
<1>5. QED
  BY <1>1, <1>4 DEF HistNext, CallStep, histVars, storeVars

\* However processes stall, race for a stale lease, reuse inode numbers or die, the
\* file never holds an entry twice (HISTORY.md:15).
THEOREM NoEntryTwice == HistSpec => []NoDuplicates
<1>1. FilesInv => NoDuplicates
  BY DEF FilesInv, Storable, Distinct, NoDuplicates
<1>2. QED
  BY <1>1, FilesInvInit, FilesInvStep, PTL DEF HistSpec

\* ... and never more entries than the bound, whatever maxEntries is, unless it
\* is still the list that was there before (HISTORY.md:15).
THEOREM RetentionHolds == HistSpec => []Retained
<1>1. FilesInv => Retained
  BY DEF FilesInv, Storable, Retained
<1>2. QED
  BY <1>1, FilesInvInit, FilesInvStep, PTL DEF HistSpec
=============================================================================
