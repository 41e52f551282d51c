----------------------- MODULE AnalyzerRunner_proofs -----------------------
(* The safety of AnalyzerRunner, for any number of analyzers and slots. *)
EXTENDS AnalyzerRunner, FiniteSetTheorems, TLAPS

-----------------------------------------------------------------------------
(* The inductive invariant *)

RunnerTypes ==
  /\ cursor \in Nat /\ cursor >= 1
  /\ at \in [Loop -> 0..(N + 1)]
  /\ cancelled \in BOOLEAN
  /\ stage \in [Analyzer -> {"queued", "done"} \cup InSlot]
  /\ op \in [Analyzer -> {"idle", "running", "ok", "failed", "killed"}]
  /\ outcome \in [Analyzer -> {"none", "ok", "failed", "timed_out", "cancelled"}]
  /\ unresponsive \in [Analyzer -> BOOLEAN]
  /\ active \in Nat /\ peak \in Nat

\* The cursor divides the analyzers that were taken from the queued ones, and
\* every analyzer that was taken is done or still on a loop, on one loop only.
CursorInv ==
  /\ \A a \in Analyzer : stage[a] = "queued" <=> a >= cursor
  /\ \A l \in Loop : at[l] \in Analyzer => at[l] < cursor
  /\ \A l \in Loop : at[l] = N + 1 => cursor > N
  /\ \A l, m \in Loop : at[l] = at[m] /\ at[l] \in Analyzer => l = m
  /\ \A a \in Holders : \E l \in Loop : at[l] = a

\* What an analyzer's outcome and operation can be at each stage of its runOne.
StageInv(a) ==
  /\ stage[a] = "queued" => op[a] = "idle" /\ outcome[a] = "none"
  /\ stage[a] \in {"grace", "stopping", "done"} => outcome[a] # "none"
  /\ stage[a] = "grace" => a \notin Isolated /\ outcome[a] \in {"timed_out", "cancelled"}
  /\ stage[a] = "stopping" => a \in Isolated
  /\ outcome[a] \in {"ok", "failed"} /\ a \notin Isolated => op[a] # "running"
  /\ unresponsive[a] => stage[a] = "done" /\ outcome[a] \in {"timed_out", "cancelled"}
  /\ stage[a] = "done" /\ op[a] = "running" => unresponsive[a] /\ a \notin Isolated

SlotInv == active = Cardinality(Holders) /\ active <= peak /\ peak <= Slots

RunnerInv ==
  /\ RunnerTypes /\ CursorInv /\ SlotInv
  /\ \A a \in Analyzer : StageInv(a)

-----------------------------------------------------------------------------
(* Counting slots *)

\* There are no more loops than slots, and finitely many analyzers.
LEMMA FiniteLoops ==
  /\ Slots \in Nat /\ Slots >= 1
  /\ IsFiniteSet(Loop) /\ Cardinality(Loop) <= Slots
  /\ IsFiniteSet(Analyzer)
<1>1. Slots \in Nat /\ Slots >= 1 /\ N \in Nat
  BY RunnerAssumption DEF Slots
<1>2. PICK n \in Nat : Loop = 1..n /\ n <= Slots
  BY <1>1 DEF Loop
<1>3. IsFiniteSet(1..n) /\ Cardinality(1..n) = n
  BY FS_Interval
<1>4. IsFiniteSet(1..N)
  BY <1>1, FS_Interval
<1>5. QED
  BY <1>1, <1>2, <1>3, <1>4 DEF Analyzer

\* Analyzers that are each on a loop of their own are no more than the slots.
LEMMA OneLoopEach ==
  ASSUME NEW f, NEW S \in SUBSET Analyzer, \A a \in S : \E l \in Loop : f[l] = a
  PROVE  IsFiniteSet(S) /\ Cardinality(S) <= Slots
<1> DEFINE g == [a \in S |-> CHOOSE l \in Loop : f[l] = a]
<1>1. \A a \in S : g[a] \in Loop /\ f[g[a]] = a
  OBVIOUS
<1>2. g \in Injection(S, Loop)
  BY <1>1 DEF Injection, IsInjective
<1>3. IsFiniteSet(S) /\ Cardinality(S) <= Cardinality(Loop)
  BY <1>2, FiniteLoops, FS_Injection
<1>4. Cardinality(S) \in Nat /\ Cardinality(Loop) \in Nat
  BY <1>3, FiniteLoops, FS_CardinalityType
<1>5. QED
  BY <1>3, <1>4, FiniteLoops

-----------------------------------------------------------------------------
(* The invariant is inductive *)

\* It holds initially.
LEMMA RunnerInvInit == Init => RunnerInv
<1> SUFFICES ASSUME Init PROVE RunnerInv
  OBVIOUS
<1> USE RunnerAssumption DEF Init
<1>1. RunnerTypes
  <2>1. at \in [Loop -> 0..(N + 1)]
    OBVIOUS
  <2>2. stage \in [Analyzer -> {"queued", "done"} \cup InSlot]
    OBVIOUS
  <2>3. op \in [Analyzer -> {"idle", "running", "ok", "failed", "killed"}]
    OBVIOUS
  <2>4. outcome \in [Analyzer -> {"none", "ok", "failed", "timed_out", "cancelled"}]
    OBVIOUS
  <2>5. unresponsive \in [Analyzer -> BOOLEAN] /\ cancelled \in BOOLEAN
    OBVIOUS
  <2>6. QED
    BY <2>1, <2>2, <2>3, <2>4, <2>5 DEF RunnerTypes
<1>2. Holders = {}
  BY DEF Holders, InSlot
<1>3. CursorInv
  BY <1>2 DEF CursorInv, Analyzer
<1>4. SlotInv
  BY <1>2, FS_EmptySet, FiniteLoops DEF SlotInv
<1>5. \A a \in Analyzer : StageInv(a)
  BY DEF StageInv
<1>6. QED
  BY <1>1, <1>3, <1>4, <1>5 DEF RunnerInv

\* Holders are finitely many.
LEMMA HoldersCounted ==
  /\ IsFiniteSet(Holders) /\ Cardinality(Holders) \in Nat
  /\ \A a \in Holders : Cardinality(Holders) >= 1
<1>1. Holders \subseteq Analyzer
  BY DEF Holders
<1>2. IsFiniteSet(Holders)
  BY <1>1, FiniteLoops, FS_Subset
<1>3. Cardinality(Holders) \in Nat /\ (Cardinality(Holders) = 0 <=> Holders = {})
  BY <1>2, FS_EmptySet, FS_CardinalityType
<1>4. QED
  BY <1>2, <1>3

\* Every variable keeps its type.
LEMMA TypesStep ==
  ASSUME RunnerInv, Next
  PROVE  RunnerTypes'
<1> USE RunnerAssumption DEF RunnerInv, RunnerTypes
<1>1. ASSUME NEW l \in Loop, TakeNext(l)
      PROVE  cursor' \in Nat /\ cursor' >= 1 /\ at' \in [Loop -> 0..(N + 1)]
  <2>1. (IF cursor > N THEN N + 1 ELSE cursor) \in 0..(N + 1)
    OBVIOUS
  <2>2. QED
    BY <1>1, <2>1 DEF TakeNext
<1>2. ASSUME NEW l \in Loop, LoopEnds(l)
      PROVE  RunnerTypes'
  BY <1>1, <1>2 DEF LoopEnds
<1>3. ASSUME NEW l \in Loop, SkipCancelled(l)
      PROVE  RunnerTypes'
  BY <1>1, <1>3 DEF SkipCancelled
<1>4. ASSUME NEW l \in Loop, Start(l) \/ StartFails(l)
      PROVE  RunnerTypes'
  BY <1>1, <1>4 DEF Start, StartFails, TakeSlot, InSlot
<1>5. ASSUME NEW a \in Analyzer, Deadline(a) \/ LeaveRaceIsolated(a)
      PROVE  RunnerTypes'
  BY <1>5 DEF Deadline, LeaveRaceIsolated, Resolve, InSlot
<1>6. ASSUME NEW a \in Analyzer, LeaveRace(a) \/ GraceEnds(a) \/ Terminated(a)
      PROVE  RunnerTypes'
  <2>1. a \in Holders
    BY <1>6 DEF LeaveRace, GraceEnds, Terminated, InGrace, Holders, InSlot
  <2>2. active - 1 \in Nat
    BY <2>1, HoldersCounted DEF SlotInv
  <2>3. QED
    BY <1>6, <2>2 DEF LeaveRace, GraceEnds, Terminated, Release, StillRunning, InSlot
<1>7. ASSUME NEW a \in Analyzer, NEW how \in {"ok", "failed"}, OperationEnds(a, how)
      PROVE  RunnerTypes'
  BY <1>7 DEF OperationEnds, Resolve
<1>8. CASE Cancel
  BY <1>8 DEF Cancel, Resolve
<1>9. QED
  BY <1>2, <1>3, <1>4, <1>5, <1>6, <1>7, <1>8 DEF Next, Scheduler, Runner

\* A loop that is free goes on to the analyzer under the cursor, if there is one,
\* which leaves the queue.
LEMMA TakeNextStep ==
  ASSUME RunnerTypes, CursorInv, NEW l \in Loop, Free(l), TakeNext(l),
         IF cursor > N THEN stage' = stage
         ELSE \E s \in {"done"} \cup InSlot : stage' = [stage EXCEPT ![cursor] = s]
  PROVE  CursorInv'
<1> USE RunnerAssumption
<1>1. /\ cursor \in Nat /\ cursor' = cursor + 1 /\ at \in [Loop -> 0..(N + 1)]
      /\ at' = [at EXCEPT ![l] = IF cursor > N THEN N + 1 ELSE cursor]
      /\ cursor >= 1 /\ N \in Nat
  BY DEF RunnerTypes, TakeNext
<1>2. \A a \in Analyzer : /\ a # cursor => stage'[a] = stage[a]
                          /\ a = cursor => stage'[a] # "queued"
  BY <1>1 DEF RunnerTypes, Analyzer, InSlot
<1>3. \A a \in Analyzer : stage'[a] = "queued" <=> a >= cursor'
  BY <1>1, <1>2 DEF CursorInv, Analyzer
<1>4. \A m \in Loop : at'[m] = IF m # l THEN at[m] ELSE IF cursor > N THEN N + 1 ELSE cursor
  BY <1>1
<1>5. /\ \A m \in Loop : at'[m] \in Analyzer => at'[m] < cursor'
      /\ \A m \in Loop : at'[m] = N + 1 => cursor' > N
  BY <1>1, <1>4 DEF CursorInv, Analyzer
<1>6. \A m, n \in Loop : at'[m] = at'[n] /\ at'[m] \in Analyzer => m = n
  BY <1>1, <1>4 DEF CursorInv, Analyzer
<1>7. ASSUME NEW a \in Analyzer, stage'[a] \in InSlot
      PROVE  \E m \in Loop : at'[m] = a
  <2>1. CASE a = cursor
    BY <1>1, <1>4, <2>1 DEF Analyzer
  <2>2. CASE a # cursor
    <3>1. PICK m \in Loop : at[m] = a
      BY <1>2, <1>7, <2>2 DEF CursorInv, Holders
    <3>2. m # l
      BY <1>1, <1>2, <1>7, <2>2, <3>1 DEF Free, InSlot, Analyzer
    <3>3. QED
      BY <1>4, <3>1, <3>2
  <2>3. QED
    BY <2>1, <2>2
<1>8. QED
  BY <1>3, <1>5, <1>6, <1>7 DEF CursorInv, Holders

\* Where analyzers and loops are changes in no other step, except that a slot is
\* left.
LEMMA CursorStep ==
  ASSUME RunnerInv, Next
  PROVE  CursorInv'
<1> USE RunnerAssumption DEF RunnerInv
<1>1. ASSUME NEW l \in Loop, Scheduler(l)
      PROVE  CursorInv'
  BY <1>1, TakeNextStep DEF Scheduler, LoopEnds, SkipCancelled, Start, StartFails, MayStart,
     TakeSlot, RunnerTypes, InSlot
<1>2. ASSUME NEW a \in Analyzer, Runner(a)
      PROVE  CursorInv'
  BY <1>2 DEF Runner, Deadline, LeaveRace, LeaveRaceIsolated, GraceEnds, Terminated, InGrace,
     Release, RunnerTypes, CursorInv, Holders, InSlot
<1>3. ASSUME UNCHANGED <<cursor, at, stage>>
      PROVE  CursorInv'
  BY <1>3 DEF CursorInv, Holders
<1>4. QED
  BY <1>1, <1>2, <1>3 DEF Next, OperationEnds, Cancel

\* An outcome is decided once, an operation that ends decides it in the race, and
\* who leaves the slot with its operation running is flagged.
LEMMA StageStep ==
  ASSUME RunnerInv, Next
  PROVE  \A a \in Analyzer : StageInv(a)'
<1>0. RunnerTypes /\ RunnerTypes' /\ CursorInv /\ \A a \in Analyzer : StageInv(a)
  BY TypesStep DEF RunnerInv
<1> SUFFICES ASSUME NEW b \in Analyzer PROVE StageInv(b)'
  OBVIOUS
<1>1. StageInv(b)
  BY <1>0
<1> USE <1>1 DEF RunnerTypes, StageInv, InSlot
<1>2. ASSUME NEW l \in Loop, Scheduler(l)
      PROVE  StageInv(b)'
  <2>1. cursor \in Analyzer => stage[cursor] = "queued" /\ StageInv(cursor)
    BY <1>0, RunnerAssumption DEF CursorInv, Analyzer
  <2>2. QED
    BY <1>0, <1>2, <2>1, RunnerAssumption DEF Scheduler, LoopEnds, SkipCancelled, Start,
       StartFails, MayStart, TakeSlot
<1>3. ASSUME NEW a \in Analyzer, Deadline(a) \/ LeaveRace(a) \/ LeaveRaceIsolated(a)
      PROVE  StageInv(b)'
  BY <1>0, <1>3 DEF Deadline, LeaveRace, LeaveRaceIsolated, Release, Resolve
<1>4. ASSUME NEW a \in Analyzer, GraceEnds(a) \/ Terminated(a)
      PROVE  StageInv(b)'
  BY <1>0, <1>4 DEF GraceEnds, Terminated, Release, InGrace, StillRunning
<1>5. ASSUME NEW a \in Analyzer, NEW how \in {"ok", "failed"}, OperationEnds(a, how)
      PROVE  StageInv(b)'
  BY <1>0, <1>5 DEF OperationEnds, Resolve
<1>6. CASE Cancel
  BY <1>0, <1>6 DEF Cancel, Resolve
<1>7. QED
  BY <1>2, <1>3, <1>4, <1>5, <1>6 DEF Next, Runner

\* The counters follow the set of analyzers that hold a slot.
LEMMA SlotStep ==
  ASSUME RunnerInv, Next
  PROVE  SlotInv'
<1> USE DEF RunnerInv
<1>0. /\ IsFiniteSet(Holders) /\ SlotInv /\ Cardinality(Holders) \in Nat /\ peak \in Nat
      /\ Slots \in Nat /\ \A a \in Analyzer : stage[a] = "queued" => a \notin Holders
  BY HoldersCounted, FiniteLoops DEF RunnerTypes, Holders, InSlot
<1>1. Cardinality(Holders') <= Slots
  BY CursorStep, OneLoopEach DEF CursorInv, Holders
<1>2. ASSUME NEW l \in Loop, Start(l) \/ StartFails(l)
      PROVE  SlotInv'
  <2>1. /\ cursor \in Analyzer /\ stage[cursor] = "queued" /\ active' = active + 1
        /\ peak' = IF peak < active + 1 THEN active + 1 ELSE peak
    BY <1>2, RunnerAssumption DEF Start, StartFails, MayStart, TakeSlot, Analyzer, RunnerTypes, CursorInv
  <2>2. Holders' = Holders \cup {cursor}
    BY <1>2, <2>1 DEF Start, StartFails, Holders, InSlot, RunnerTypes
  <2>3. Cardinality(Holders') = Cardinality(Holders) + 1
    BY <1>0, <2>1, <2>2, FS_AddElement
  <2>4. QED
    BY <1>0, <1>1, <2>1, <2>3 DEF SlotInv
<1>3. ASSUME NEW a \in Analyzer, stage[a] \in InSlot, Release(a), peak' = peak
      PROVE  SlotInv'
  <2>1. Holders' = Holders \ {a} /\ a \in Holders
    BY <1>3 DEF Release, Holders, InSlot, RunnerTypes
  <2>2. Cardinality(Holders') = Cardinality(Holders) - 1
    BY <1>0, <2>1, FS_RemoveElement
  <2>3. QED
    BY <1>0, <1>1, <1>3, <2>2 DEF SlotInv, Release
<1>4. ASSUME Holders' = Holders, UNCHANGED <<active, peak>>
      PROVE  SlotInv'
  BY <1>0, <1>4 DEF SlotInv
<1>5. ASSUME NEW l \in Loop, LoopEnds(l) \/ SkipCancelled(l)
      PROVE  SlotInv'
  <2>1. SkipCancelled(l) => cursor \in Analyzer /\ stage[cursor] = "queued"
    BY RunnerAssumption DEF SkipCancelled, Analyzer, RunnerTypes, CursorInv
  <2>2. Holders' = Holders
    BY <1>0, <1>5, <2>1 DEF LoopEnds, SkipCancelled, Holders, InSlot, RunnerTypes
  <2>3. QED
    BY <1>4, <1>5, <2>2 DEF LoopEnds, SkipCancelled
<1>6. ASSUME NEW a \in Analyzer, Runner(a)
      PROVE  SlotInv'
  <2>1. CASE LeaveRace(a) /\ stage' = [stage EXCEPT ![a] = "grace"] /\ UNCHANGED active
    BY <1>4, <2>1 DEF LeaveRace, Holders, InSlot, RunnerTypes
  <2>2. CASE LeaveRaceIsolated(a)
    BY <1>4, <2>2 DEF LeaveRaceIsolated, Holders, InSlot, RunnerTypes
  <2>3. CASE Deadline(a)
    BY <1>4, <2>3 DEF Deadline, Holders
  <2>4. QED
    BY <1>3, <1>6, <2>1, <2>2, <2>3 DEF Runner, LeaveRace, GraceEnds, Terminated, InGrace, InSlot
<1>7. CASE Cancel \/ \E a \in Analyzer : \E how \in {"ok", "failed"} : OperationEnds(a, how)
  BY <1>4, <1>7 DEF Cancel, OperationEnds, Holders
<1>8. QED
  BY <1>2, <1>5, <1>6, <1>7 DEF Next, Scheduler

\* Every step keeps it.
LEMMA RunnerInvStep == RunnerInv /\ [Next]_runnerVars => RunnerInv'
<1>1. ASSUME RunnerInv, Next PROVE RunnerInv'
  BY <1>1, TypesStep, CursorStep, StageStep, SlotStep DEF RunnerInv
<1>2. ASSUME RunnerInv, UNCHANGED runnerVars PROVE RunnerInv'
  BY <1>2 DEF runnerVars, RunnerInv, RunnerTypes, CursorInv, SlotInv, StageInv, Holders
<1>3. QED
  BY <1>1, <1>2

\* The runner never leaves its invariant: types, the division of the analyzers by
\* the cursor, and the stages of every runOne (analyzer-runner.ts, concurrency.ts).
THEOREM RunnerInvHolds == Spec => []RunnerInv
BY RunnerInvInit, RunnerInvStep, PTL DEF Spec

-----------------------------------------------------------------------------
(* The properties *)

\* For any number of analyzers and any configured concurrency, active is the
\* number of slots held and never exceeds the bound: no path through the race,
\* the grace period, a failed start or a cancellation leaks a slot or gives one
\* up twice (analyzer-runner.ts, concurrency.ts).
THEOREM SlotsAreAccounted == Spec => []SlotsAccounted
<1>1. RunnerInv => SlotsAccounted
  BY DEF RunnerInv, SlotInv, SlotsAccounted
<1>2. QED
  BY <1>1, RunnerInvHolds, PTL

\* An isolated analyzer never outlives its slot, any other that does is reported
\* as unresponsive, and only one whose answer was not taken is
\* (analyzer-runner.ts:56-58, :29-35).
THEOREM OutlivingIsFlagged == Spec => []OutlivesOnlyFlagged
<1>1. RunnerInv => OutlivesOnlyFlagged
  <2> SUFFICES ASSUME RunnerInv, NEW a \in Analyzer
               PROVE  /\ op[a] = "running" /\ stage[a] \notin InSlot
                           => unresponsive[a] /\ a \notin Isolated
                      /\ unresponsive[a] => outcome[a] \in {"timed_out", "cancelled"}
    BY DEF OutlivesOnlyFlagged
  <2>1. StageInv(a) /\ stage[a] \in {"queued", "done"} \cup InSlot
    BY DEF RunnerInv, RunnerTypes
  <2>2. QED
    BY <2>1 DEF StageInv
<1>2. QED
  BY <1>1, RunnerInvHolds, PTL

\* When the run returns, every analyzer has been taken, is off its slot and has a
\* result: none is skipped or lost between the loops (concurrency.ts).
THEOREM EveryAnalyzerIsReported == Spec => []EveryAnalyzerReported
<1>1. RunnerInv => EveryAnalyzerReported
  <2> SUFFICES ASSUME RunnerInv, Returned, NEW a \in Analyzer
               PROVE  stage[a] = "done" /\ outcome[a] # "none"
    BY DEF EveryAnalyzerReported
  <2>1. 1 \in Loop /\ N \in Nat /\ a \in 1..N
    BY RunnerAssumption, FiniteLoops DEF Loop, Analyzer
  <2>2. cursor \in Nat /\ cursor > N
    BY <2>1 DEF RunnerInv, CursorInv, RunnerTypes, Returned
  <2>3. stage[a] # "queued"
    BY <2>1, <2>2 DEF RunnerInv, CursorInv
  <2>4. a \notin Holders
    BY <2>1 DEF RunnerInv, CursorInv, Returned
  <2>5. StageInv(a) /\ stage[a] \in {"queued", "done"} \cup InSlot
    BY DEF RunnerInv, RunnerTypes
  <2>6. QED
    BY <2>3, <2>4, <2>5 DEF StageInv, Holders
<1>2. QED
  BY <1>1, RunnerInvHolds, PTL

\* After the caller's cancellation no operation starts, on whichever loop
\* (analyzer-runner.ts:99).
THEOREM NothingIsStartedAfterCancel == Spec => NothingStartsAfterCancel
<1>1. RunnerInv /\ [Next]_runnerVars
        => [\A a \in Analyzer : op[a] = "idle" /\ op'[a] # "idle" => ~cancelled]_runnerVars
  <2> SUFFICES ASSUME RunnerInv, Next, NEW a \in Analyzer, op[a] = "idle", op'[a] # "idle"
               PROVE  ~cancelled
    OBVIOUS
  <2>1. op \in [Analyzer -> {"idle", "running", "ok", "failed", "killed"}]
    BY DEF RunnerInv, RunnerTypes
  <2>2. ASSUME NEW b \in Analyzer, Runner(b) PROVE FALSE
    BY <2>1, <2>2 DEF Runner, Deadline, LeaveRace, GraceEnds, LeaveRaceIsolated, Terminated
  <2>3. ASSUME NEW b \in Analyzer, NEW how \in {"ok", "failed"}, OperationEnds(b, how) PROVE FALSE
    BY <2>1, <2>3 DEF OperationEnds
  <2>4. QED
    BY <2>2, <2>3 DEF Next, Scheduler, LoopEnds, SkipCancelled, Start, StartFails, MayStart, Cancel
<1>2. QED
  BY <1>1, RunnerInvHolds, PTL DEF Spec, NothingStartsAfterCancel
=============================================================================
