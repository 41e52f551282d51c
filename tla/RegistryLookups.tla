-------------------------- MODULE RegistryLookups --------------------------
(***************************************************************************)
(* The registry half of a dependency scan: scanDependencies                *)
(* (src/src/core/dependency-scan.ts) asks the npm registry for one         *)
(* manifest per dependency, through fetchPackageManifest                   *)
(* (core/npm-registry.ts) and withBudget (core/scan-budget.ts).  All       *)
(* lookups share one budget: an abort signal that fires at the scan's      *)
(* deadline or when the caller cancels, a cap on the lookups in progress   *)
(* and a timer per request.                                                *)
(*                                                                         *)
(* The registry answers whenever, and however, it likes, or never.  Timers *)
(* may fire at any moment.  What runs between two turns of the event loop  *)
(* is one step: the abort of the signal rejects every pending request and  *)
(* every pending backoff at once.                                          *)
(***************************************************************************)
EXTENDS Naturals, FiniteSets

CONSTANTS
  N,            \* the number of unique dependencies: their lookups are 1..N
  MaxRequests,  \* budget.maxConcurrentRequests, as given
  Retries       \* policy.retries

ASSUME LookupAssumption ==
  /\ N \in Nat
  /\ MaxRequests \in Nat
  /\ Retries \in Nat

Lookup == 1..N

VARIABLES
  signal,   \* budget.signal: "live", or the reason it was aborted with
  late,     \* Date.now() >= budget.deadlineAt
  inputs,   \* the dependencies to look up: being read, read, or rejected
  stage,    \* per lookup: how far its withBudget has got
  asked,    \* per lookup: the requests it has made
  said,     \* history variable, per lookup: what its latest request brought
  result    \* per lookup: "ok", or the kind of its failure

lookupVars == <<signal, late, inputs, stage, asked, said, result>>

\* misnamed: a well-formed manifest, of another package.
Answers == {"manifest", "misnamed", "malformed", "permanent", "transient"}
FailureKinds == {"timed_out", "cancelled", "unavailable", "failed"}

LookupTypeOK ==
  /\ signal \in {"live", "deadline", "cancelled"}
  /\ late \in BOOLEAN
  /\ inputs \in {"reading", "read", "rejected"}
  /\ stage \in [Lookup -> {"queued", "asking", "waiting", "done"}]
  /\ asked \in [Lookup -> 0..(Retries + 1)]
  /\ said \in [Lookup -> Answers \cup {"nothing", "silence"}]
  /\ result \in [Lookup -> {"none", "ok"} \cup FailureKinds]

\* The caller's signal may have been aborted before the budget is made.
LookupInit ==
  /\ signal \in {"live", "cancelled"}
  /\ late = FALSE
  /\ inputs = "reading"
  /\ stage = [l \in Lookup |-> "queued"]
  /\ asked = [l \in Lookup |-> 0]
  /\ said = [l \in Lookup |-> "nothing"]
  /\ result = [l \in Lookup |-> "none"]

-----------------------------------------------------------------------------
(* Helpers *)

\* Math.max(1, ...), in createScanBudget and again in mapConcurrent.
Cap == IF MaxRequests < 1 THEN 1 ELSE MaxRequests

InProgress == {l \in Lookup : stage[l] \in {"asking", "waiting"}}
AllDone == \A l \in Lookup : stage[l] = "done"

\* Mutant: the clock is not consulted, nor the reason.
AlwaysCancelled(reason) == "cancelled"

\* abortedError: a cancelled scan that is past its deadline has timed out.
AbortedKind(reason) == IF reason = "deadline" \/ late THEN "timed_out" ELSE "cancelled"

End(S, kind) ==
  /\ stage' = [l \in Lookup |-> IF l \in S THEN "done" ELSE stage[l]]
  /\ result' = [l \in Lookup |-> IF l \in S THEN kind ELSE result[l]]

Ask(l) ==
  /\ stage' = [stage EXCEPT ![l] = "asking"]
  /\ asked' = [asked EXCEPT ![l] = @ + 1]
  /\ said' = [said EXCEPT ![l] = "nothing"]
  /\ UNCHANGED result

-----------------------------------------------------------------------------
(* The scan *)

\* readDependencyScanInputs; without inputs, scanDependencies rejects.
ReadInputs ==
  /\ inputs = "reading"
  /\ inputs' \in {"read", "rejected"}
  /\ UNCHANGED <<signal, late, stage, asked, said, result>>

\* mapConcurrent has room for the next lookup.
IsNext(l) ==
  /\ inputs = "read"
  /\ stage[l] = "queued"
  /\ \A k \in 1..(l - 1) : stage[k] # "queued"
  /\ Cardinality(InProgress) < Cap

\* Mutant: the first attempt does not look at the signal.
TakesAnyway(l) == IsNext(l) /\ Ask(l) /\ UNCHANGED <<signal, late, inputs>>

\* withBudget, up to the first request: nothing is asked once the budget aborted.
Take(l) ==
  /\ IsNext(l)
  /\ \/ signal = "live" /\ Ask(l)
     \/ signal # "live" /\ End({l}, AbortedKind(signal)) /\ UNCHANGED <<asked, said>>
  /\ UNCHANGED <<signal, late, inputs>>

MayRetry(l) == asked[l] <= Retries /\ ~late

\* validate: a name and a version; the name is not compared with the one asked for.
Valid(what) == what \in {"manifest", "misnamed"}

\* The request settles.  A transient failure is retried after a backoff if an
\* attempt is left and the backoff ends before the deadline.
Answer(l, what) ==
  /\ stage[l] = "asking"
  /\ said' = [said EXCEPT ![l] = what]
  /\ \/ Valid(what) /\ End({l}, "ok")
     \/ ~Valid(what) /\ what # "transient" /\ End({l}, "failed")
     \/ what = "transient" /\ End({l}, "unavailable")
     \/ /\ what = "transient" /\ MayRetry(l)
        /\ stage' = [stage EXCEPT ![l] = "waiting"]
        /\ UNCHANGED result
  /\ UNCHANGED <<signal, late, inputs, asked>>

\* The request's own timer: a ProviderError, which is not retried.
RequestTimesOut(l) ==
  /\ stage[l] = "asking"
  /\ said' = [said EXCEPT ![l] = "silence"]
  /\ End({l}, "timed_out")
  /\ UNCHANGED <<signal, late, inputs, asked>>

\* The backoff ends, and the next attempt starts.
Retry(l) ==
  /\ stage[l] = "waiting"
  /\ Ask(l)
  /\ UNCHANGED <<signal, late, inputs>>

-----------------------------------------------------------------------------
(* The budget *)

\* The first abort of the signal wins; every request and every backoff listens.
Abort(reason) ==
  /\ signal = "live"
  /\ signal' = reason
  /\ End(InProgress, AbortedKind(reason))
  /\ UNCHANGED <<late, inputs, asked, said>>

\* deadlineAt is a wall clock time, the deadline's timer is not: either comes first.
DeadlinePasses ==
  /\ ~late
  /\ late' = TRUE
  /\ UNCHANGED <<signal, inputs, stage, asked, said, result>>

-----------------------------------------------------------------------------
LookupStep(l) == Take(l) \/ RequestTimesOut(l) \/ Retry(l)

LookupNext ==
  \/ ReadInputs \/ DeadlinePasses
  \/ \E reason \in {"deadline", "cancelled"} : Abort(reason)
  \/ \E l \in Lookup : LookupStep(l) \/ \E what \in Answers : Answer(l, what)

LookupSpec == LookupInit /\ [][LookupNext]_lookupVars

-----------------------------------------------------------------------------
(* Coverage (contracts/analysis.ts, core/dependency-scan.ts) *)

Scanned == {l \in Lookup : result[l] = "ok"}
Skipped == {l \in Lookup : result[l] \in {"timed_out", "cancelled"}}
Failed == {l \in Lookup : result[l] \in {"unavailable", "failed"}}

\* Mutant: what was skipped on purpose does not count.
CountsFailedOnly(scanned, skipped, failed) ==
  CASE scanned = 0 /\ failed > 0 -> "failed"
    [] scanned > 0 /\ failed > 0 -> "partial"
    [] OTHER -> "complete"

\* coverageOf, for what scanDependencies gives it: a cancelled lookup is skipped.
CoverageState(scanned, skipped, failed) ==
  CASE scanned = 0 /\ skipped + failed > 0 -> "failed"
    [] scanned > 0 /\ skipped + failed > 0 -> "partial"
    [] OTHER -> "complete"

Coverage ==
  CoverageState(Cardinality(Scanned), Cardinality(Skipped), Cardinality(Failed))

-----------------------------------------------------------------------------
(* Properties *)

\* The latest answer is a well-formed manifest.
Seen(l) == said[l] \in {"manifest", "misnamed"}

\* The kind of a failure is the truth: a lookup is called cancelled only when
\* the caller's signal, and not the deadline, aborted the budget, timed out only
\* when its own timer fired or the scan's time was up, unavailable or failed
\* only when the registry's latest answer was such a failure, and ok only on a
\* well-formed manifest ("A provider call that did not produce a trustworthy
\* answer. Never clean", scan-budget.ts:32), which may be another package's: that
\* it is not is MisnamedFailsClosed.
OutcomeIsTrue ==
  \A l \in Lookup : LET why == result[l] IN
    /\ why = "ok" <=> stage[l] = "done" /\ Seen(l)
    /\ why = "cancelled" => signal = "cancelled"
    /\ why = "timed_out" => said[l] = "silence" \/ late \/ signal = "deadline"
    /\ why = "unavailable" => said[l] = "transient"
    /\ why = "failed" => said[l] \in {"malformed", "permanent"}

\* No request is made once the budget is aborted: neither by a lookup that is
\* still queued nor by one that sleeps before a retry ("retries never run past
\* the deadline", scan-budget.ts:106).
AsksNothingAfterAbort ==
  [][\A l \in Lookup : asked'[l] # asked[l] => signal = "live"]_lookupVars

\* A scan is complete exactly when every lookup has brought a well-formed
\* manifest, and failed exactly when none has: an aborted, half-answered or silent
\* scan is never clean (ANALYSIS-STATUS.md:3).
CoverageIsHonest ==
  inputs = "read" /\ AllDone =>
    /\ Coverage = "complete" <=> \A l \in Lookup : Seen(l) /\ stage[l] = "done"
    /\ Coverage = "failed" <=> N > 0 /\ \A l \in Lookup : ~Seen(l)

\* "A truncated, malformed or name-mismatched response fails closed"
\* (npm-registry.ts:10-12): no dependency is healthy on another's manifest.
MisnamedFailsClosed ==
  \A l \in Lookup : result[l] = "ok" => said[l] # "misnamed"
=============================================================================
