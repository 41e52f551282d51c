--------------------------- MODULE AnalyzerRunner ---------------------------
(***************************************************************************)
(* AnalyzerRunner.run (src/src/application/analyzer-runner.ts) over        *)
(* mapConcurrent (src/src/application/concurrency.ts): analyzers run in a  *)
(* bounded number of slots, each raced against a deadline and the caller's *)
(* cancellation.  An in-process analyzer can only be asked to stop and is  *)
(* given a grace period; an isolated one runs in a worker thread that is   *)
(* terminated before its slot is given up.                                 *)
(*                                                                         *)
(* An analyzer's operation ends whenever, and however, it likes.  The      *)
(* deadline and the grace period are timers: no clock is kept, they may    *)
(* fire at any moment of the stage they belong to.                         *)
(***************************************************************************)
EXTENDS Naturals, FiniteSets

CONSTANTS
  N,            \* the number of analyzers: they are 1..N, in input order
  Isolated,     \* those that declare isolation
  Concurrency   \* options.concurrency

ASSUME RunnerAssumption ==
  /\ N \in Nat
  /\ Isolated \subseteq 1..N
  /\ Concurrency \in Nat

Analyzer == 1..N

\* The constructor's and mapConcurrent's bounds: never more loops than items.
Slots == IF Concurrency < 1 THEN 1 ELSE Concurrency
Loop == 1..(IF Slots < N THEN Slots ELSE N)

VARIABLES
  cursor,       \* mapConcurrent's cursor (1 is the first item)
  at,           \* per loop: the item it is on (0: none yet, N + 1: returned)
  cancelled,    \* context.signal.aborted
  stage,        \* per analyzer: how far its runOne has got
  op,           \* per analyzer: its operation (the analysis or the worker)
  outcome,      \* per analyzer: the first of the raced promises to resolve
  unresponsive, \* per analyzer: reported as still running
  active,       \* stats.active
  peak          \* stats.peakActive

runnerVars == <<cursor, at, cancelled, stage, op, outcome, unresponsive, active, peak>>

InSlot == {"running", "grace", "stopping"}

Init ==
  /\ cursor = 1
  /\ at = [l \in Loop |-> 0]
  /\ cancelled = FALSE
  /\ stage = [a \in Analyzer |-> "queued"]
  /\ op = [a \in Analyzer |-> "idle"]
  /\ outcome = [a \in Analyzer |-> "none"]
  /\ unresponsive = [a \in Analyzer |-> FALSE]
  /\ active = 0
  /\ peak = 0

-----------------------------------------------------------------------------
(* mapConcurrent and the start of runOne *)

\* Mutant: mapConcurrent does not await the item.
FreeWithoutAwait(l) == at[l] # N + 1

\* The loop has no item yet, or its item's promise has resolved.
Free(l) == IF at[l] = 0 THEN TRUE ELSE at[l] \in Analyzer /\ stage[at[l]] = "done"

TakeNext(l) ==
  /\ cursor' = cursor + 1
  /\ at' = [at EXCEPT ![l] = IF cursor > N THEN N + 1 ELSE cursor]

\* The analyzer under the cursor takes a slot.
TakeSlot(l) ==
  /\ TakeNext(l)
  /\ active' = active + 1
  /\ peak' = IF peak < active + 1 THEN active + 1 ELSE peak

\* Mutant: the cancellation is not looked at before the start.
MayStartAnyway(l) == Free(l) /\ cursor <= N
MayStart(l) == Free(l) /\ cursor <= N /\ ~cancelled

\* No item is left: the loop returns.
LoopEnds(l) ==
  /\ Free(l) /\ cursor > N
  /\ TakeNext(l)
  /\ UNCHANGED <<cancelled, stage, op, outcome, unresponsive, active, peak>>

\* Cancellation was requested: the analyzer is reported without being started.
SkipCancelled(l) ==
  /\ Free(l) /\ cursor <= N /\ cancelled
  /\ TakeNext(l)
  /\ stage' = [stage EXCEPT ![cursor] = "done"]
  /\ outcome' = [outcome EXCEPT ![cursor] = "cancelled"]
  /\ UNCHANGED <<cancelled, op, unresponsive, active, peak>>

\* The analyzer's timer and abort listener are installed, and its operation starts.
Start(l) ==
  /\ MayStart(l) /\ TakeSlot(l)
  /\ stage' = [stage EXCEPT ![cursor] = "running"]
  /\ op' = [op EXCEPT ![cursor] = "running"]
  /\ UNCHANGED <<cancelled, outcome, unresponsive>>

\* new Worker throws: a failed outcome, and nothing to terminate.
StartFails(l) ==
  /\ MayStart(l) /\ cursor \in Isolated /\ TakeSlot(l)
  /\ stage' = [stage EXCEPT ![cursor] = "stopping"]
  /\ outcome' = [outcome EXCEPT ![cursor] = "failed"]
  /\ UNCHANGED <<cancelled, op, unresponsive>>

-----------------------------------------------------------------------------
(* The race *)

\* The first promise to resolve decides; later ones are ignored.
Resolve(S, how) ==
  outcome' = [a \in Analyzer |->
    IF a \in S /\ stage[a] = "running" /\ outcome[a] = "none" THEN how ELSE outcome[a]]

\* The operation ends by itself: an answer, an exception, a worker that exits.  A
\* worker may also post its answer and run on.
OperationEnds(a, how) ==
  /\ op[a] = "running"
  /\ op' = [op EXCEPT ![a] = how] \/ (a \in Isolated /\ UNCHANGED op)
  /\ Resolve({a}, how)
  /\ UNCHANGED <<cursor, at, cancelled, stage, unresponsive, active, peak>>

\* The deadline's timer, which is cleared once runOne has left the race.
Deadline(a) ==
  /\ stage[a] = "running"
  /\ outcome[a] = "none"
  /\ Resolve({a}, "timed_out")
  /\ UNCHANGED <<cursor, at, cancelled, stage, op, unresponsive, active, peak>>

\* The caller aborts its signal: every listener runs in the same turn.
Cancel ==
  /\ ~cancelled
  /\ cancelled' = TRUE
  /\ Resolve(Analyzer, "cancelled")
  /\ UNCHANGED <<cursor, at, stage, op, unresponsive, active, peak>>

-----------------------------------------------------------------------------
(* After the race *)

\* Mutant: the finally block is missing.
Leak(a) == stage' = [stage EXCEPT ![a] = "done"] /\ UNCHANGED active

\* The finally block of runOne: the slot is free, the result is stored.
Release(a) ==
  /\ stage' = [stage EXCEPT ![a] = "done"]
  /\ active' = active - 1

\* In process: an answer ends runOne, an abort opens the grace period.
LeaveRace(a) ==
  /\ stage[a] = "running" /\ outcome[a] # "none" /\ a \notin Isolated
  /\ \/ outcome[a] \in {"ok", "failed"} /\ Release(a)
     \/ /\ outcome[a] \in {"timed_out", "cancelled"}
        /\ stage' = [stage EXCEPT ![a] = "grace"]
        /\ UNCHANGED active
  /\ UNCHANGED <<cursor, at, cancelled, op, outcome, unresponsive, peak>>

\* Mutant: no timer bounds the grace period.
GraceForever(a) == stage[a] = "grace" /\ op[a] # "running"
InGrace(a) == stage[a] = "grace"

\* Mutant: only a timeout is reported.
TimedOutStill(a) == op[a] = "running" /\ outcome[a] = "timed_out"
StillRunning(a) == op[a] = "running"

\* The operation has ended, or the grace timer fires first.
GraceEnds(a) ==
  /\ InGrace(a)
  /\ unresponsive' = [unresponsive EXCEPT ![a] = StillRunning(a)]
  /\ Release(a)
  /\ UNCHANGED <<cursor, at, cancelled, op, outcome, peak>>

\* Isolated: terminate is called whatever the outcome was ...
LeaveRaceIsolated(a) ==
  /\ stage[a] = "running" /\ outcome[a] # "none" /\ a \in Isolated
  /\ stage' = [stage EXCEPT ![a] = "stopping"]
  /\ UNCHANGED <<cursor, at, cancelled, op, outcome, unresponsive, active, peak>>

\* ... and resolves once the thread, if one was started, has exited.
Terminated(a) ==
  /\ stage[a] = "stopping"
  /\ op' = [op EXCEPT ![a] = IF @ = "running" THEN "killed" ELSE @]
  /\ Release(a)
  /\ UNCHANGED <<cursor, at, cancelled, outcome, unresponsive, peak>>

-----------------------------------------------------------------------------
Scheduler(l) == LoopEnds(l) \/ SkipCancelled(l) \/ Start(l) \/ StartFails(l)
Runner(a) ==
  Deadline(a) \/ LeaveRace(a) \/ GraceEnds(a) \/ LeaveRaceIsolated(a) \/ Terminated(a)

Next ==
  \/ \E l \in Loop : Scheduler(l)
  \/ \E a \in Analyzer : Runner(a) \/ \E how \in {"ok", "failed"} : OperationEnds(a, how)
  \/ Cancel

Spec == Init /\ [][Next]_runnerVars

\* Timers fire and promises continue, as long as no analyzer blocks the event
\* loop; nothing makes an analyzer's operation end, nor a caller cancel.
FairSpec ==
  /\ Spec
  /\ \A l \in Loop : WF_runnerVars(Scheduler(l))
  /\ \A a \in Analyzer : WF_runnerVars(Runner(a))

-----------------------------------------------------------------------------
(* Properties *)

Holders == {a \in Analyzer : stage[a] \in InSlot}

\* The counters are exact: active is the number of slots held, and neither it
\* nor its peak exceeds the configured concurrency, on any path through the
\* race, the grace period, a failed start or a cancellation.
SlotsAccounted ==
  /\ active = Cardinality(Holders)
  /\ active <= peak /\ peak <= Slots

\* "a timed-out analyzer cannot keep running behind a free slot" if it is isolated
\* (analyzer-runner.ts:56-58); any other that outlives its slot is reported
\* unresponsive, and one that was never had its answer taken (:29-35).
OutlivesOnlyFlagged ==
  \A a \in Analyzer :
    /\ op[a] = "running" /\ stage[a] \notin InSlot => unresponsive[a] /\ a \notin Isolated
    /\ unresponsive[a] => outcome[a] \in {"timed_out", "cancelled"}

\* Nothing is started once the caller has cancelled (analyzer-runner.ts:99).
NothingStartsAfterCancel ==
  [][\A a \in Analyzer : op[a] = "idle" /\ op'[a] # "idle" => ~cancelled]_runnerVars

\* mapConcurrent has returned: every analyzer has one result, in its own place.
Returned == \A l \in Loop : at[l] = N + 1
EveryAnalyzerReported ==
  Returned => \A a \in Analyzer : stage[a] = "done" /\ outcome[a] # "none"

\* The run returns even if no analyzer ever ends by itself.
RunReturns == <>Returned

=============================================================================
