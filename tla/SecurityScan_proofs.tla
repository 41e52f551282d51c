------------------------ MODULE SecurityScan_proofs ------------------------
(***************************************************************************)
(* First the registry lookups alone: the kinds of their failures are the   *)
(* truth, and the coverage of the scan is honest, for any number of        *)
(* dependencies, any cap and any number of retries.  What makes            *)
(* OutcomeIsTrue inductive is that a lookup that is not done remembers     *)
(* nothing but a transient failure (Pending).  Then the whole scan: what   *)
(* holds of the lookups holds of it, because every step of the scan is a   *)
(* step of the lookups or leaves them alone; and the exit code is honest,  *)
(* for any number of OSV batches.  For the exit code, what the scorecard   *)
(* read when it made its report must still be so afterwards (Verdict),     *)
(* whatever late answers arrive.                                           *)
(***************************************************************************)
EXTENDS SecurityScan, FiniteSetTheorems, TLAPS

\* A lookup has a result exactly when it is done; one that is queued has asked
\* nothing, one that asks has heard nothing of its request, one that waits has
\* heard of a transient failure and has an attempt left.
Pending ==
  \A l \in Lookup :
    /\ result[l] = "none" <=> stage[l] # "done"
    /\ stage[l] \in {"queued", "asking"} => said[l] = "nothing"
    /\ stage[l] = "queued" => asked[l] = 0
    /\ stage[l] = "waiting" => said[l] = "transient" /\ asked[l] <= Retries

LookupInv == LookupTypeOK /\ Pending /\ OutcomeIsTrue

\* Every step of the lookups, and every step that leaves them alone, keeps the
\* invariant.
LEMMA LookupInvStep == LookupInv /\ [LookupNext]_lookupVars => LookupInv'
<1> SUFFICES ASSUME LookupInv, [LookupNext]_lookupVars PROVE LookupInv'
  OBVIOUS
<1> USE LookupAssumption DEF LookupInv, Seen
<1>1. CASE UNCHANGED lookupVars
  BY <1>1 DEF lookupVars, LookupTypeOK, Pending, OutcomeIsTrue
<1>2. CASE ReadInputs
  BY <1>2 DEF ReadInputs, LookupTypeOK, Pending, OutcomeIsTrue
<1>3. CASE DeadlinePasses
  BY <1>3 DEF DeadlinePasses, LookupTypeOK, Pending, OutcomeIsTrue
<1>4. ASSUME NEW reason \in {"deadline", "cancelled"}, Abort(reason) PROVE LookupInv'
  <2>1. LookupTypeOK'
    BY <1>4 DEF Abort, End, AbortedKind, InProgress, LookupTypeOK, FailureKinds
  <2>2. Pending'
    BY <1>4 DEF Abort, End, AbortedKind, InProgress, LookupTypeOK, Pending
  <2>3. OutcomeIsTrue'
    BY <1>4 DEF Abort, End, AbortedKind, InProgress, LookupTypeOK, Pending,
       OutcomeIsTrue
  <2> QED
    BY <2>1, <2>2, <2>3
<1>5. ASSUME NEW l \in Lookup, Take(l) PROVE LookupInv'
  <2>1. CASE signal = "live" /\ Ask(l)
    <3>1. /\ stage[l] = "queued" /\ asked[l] = 0
          /\ stage' = [stage EXCEPT ![l] = "asking"]
          /\ asked' = [asked EXCEPT ![l] = @ + 1]
          /\ said' = [said EXCEPT ![l] = "nothing"]
          /\ UNCHANGED <<signal, late, inputs, result>>
      BY <1>5, <2>1 DEF Take, IsNext, Ask, Pending
    <3>2. LookupTypeOK'
      <4>1. asked' \in [Lookup -> 0..(Retries + 1)]
        BY <3>1 DEF LookupTypeOK
      <4> QED
        BY <3>1, <4>1 DEF LookupTypeOK
    <3>3. Pending'
      BY <3>1 DEF LookupTypeOK, Pending
    <3>4. OutcomeIsTrue'
      BY <3>1 DEF LookupTypeOK, Pending, OutcomeIsTrue
    <3> QED
      BY <3>2, <3>3, <3>4
  <2>2. CASE signal # "live" /\ End({l}, AbortedKind(signal)) /\ UNCHANGED <<asked, said>>
    <3>1. LookupTypeOK'
      BY <1>5, <2>2 DEF Take, End, AbortedKind, LookupTypeOK, FailureKinds
    <3>2. Pending'
      BY <1>5, <2>2 DEF Take, IsNext, End, AbortedKind, LookupTypeOK, Pending
    <3>3. OutcomeIsTrue'
      BY <1>5, <2>2 DEF Take, IsNext, End, AbortedKind, LookupTypeOK, Pending,
         OutcomeIsTrue
    <3> QED
      BY <3>1, <3>2, <3>3
  <2> QED
    BY <1>5, <2>1, <2>2 DEF Take
<1>6. ASSUME NEW l \in Lookup, RequestTimesOut(l) PROVE LookupInv'
  BY <1>6 DEF RequestTimesOut, End, LookupTypeOK, FailureKinds, Pending, OutcomeIsTrue
<1>7. ASSUME NEW l \in Lookup, Retry(l) PROVE LookupInv'
  BY <1>7 DEF Retry, Ask, LookupTypeOK, Pending, OutcomeIsTrue
<1>8. ASSUME NEW l \in Lookup, NEW what \in Answers, Answer(l, what) PROVE LookupInv'
  <2>1. LookupTypeOK'
    BY <1>8 DEF Answer, End, LookupTypeOK, FailureKinds
  <2>2. Pending'
    BY <1>8 DEF Answer, Valid, MayRetry, End, LookupTypeOK, Pending
  <2>3. OutcomeIsTrue'
    BY <1>8 DEF Answer, Valid, Answers, End, LookupTypeOK, Pending, OutcomeIsTrue
  <2> QED
    BY <2>1, <2>2, <2>3
<1> QED
  BY <1>1, <1>2, <1>3, <1>4, <1>5, <1>6, <1>7, <1>8 DEF LookupNext, LookupStep

\* The invariant holds when the scan starts.
LEMMA LookupInvInit == LookupInit => LookupInv
<1> SUFFICES ASSUME LookupInit PROVE LookupInv
  OBVIOUS
<1>1. asked \in [Lookup -> 0..(Retries + 1)]
  BY LookupAssumption DEF LookupInit
<1>2. LookupTypeOK
  BY <1>1 DEF LookupInit, LookupTypeOK
<1>3. Pending
  BY DEF LookupInit, Pending
<1>4. OutcomeIsTrue
  BY DEF LookupInit, OutcomeIsTrue
<1> QED
  BY <1>2, <1>3, <1>4 DEF LookupInv

\* The lookups of one set, counted: none of them, or at least one.
LEMMA CountOfLookups ==
  ASSUME NEW S \in SUBSET Lookup
  PROVE  Cardinality(S) \in Nat /\ (Cardinality(S) = 0 <=> S = {})
<1>1. IsFiniteSet(Lookup)
  BY LookupAssumption, FS_Interval DEF Lookup
<1>2. IsFiniteSet(S)
  BY <1>1, FS_Subset
<1> QED
  BY <1>2, FS_CardinalityType, FS_EmptySet

\* Whenever the kinds are true, so is the coverage: complete exactly if every
\* manifest was seen, failed exactly if none was (ANALYSIS-STATUS.md:3).
LEMMA TruthGivesCoverage == LookupInv => CoverageIsHonest
<1> SUFFICES ASSUME LookupInv, AllDone PROVE
      /\ Coverage = "complete" <=> \A l \in Lookup : Seen(l) /\ stage[l] = "done"
      /\ Coverage = "failed" <=> N > 0 /\ \A l \in Lookup : ~Seen(l)
  BY DEF CoverageIsHonest
<1> DEFINE Missed == Cardinality(Skipped) + Cardinality(Failed)
<1>1. \A l \in Lookup : l \in Scanned <=> Seen(l)
  BY DEF LookupInv, OutcomeIsTrue, AllDone, Scanned
<1>2. \A l \in Lookup : l \in Scanned \/ l \in Skipped \/ l \in Failed
  BY DEF LookupInv, LookupTypeOK, Pending, FailureKinds, AllDone, Scanned, Skipped, Failed
<1>3. \A l \in Skipped \cup Failed : l \in Lookup /\ l \notin Scanned
  BY DEF Scanned, Skipped, Failed
<1>4. /\ Cardinality(Scanned) \in Nat /\ Cardinality(Skipped) \in Nat
      /\ Cardinality(Failed) \in Nat
      /\ Cardinality(Scanned) = 0 <=> Scanned = {}
      /\ Cardinality(Skipped) = 0 <=> Skipped = {}
      /\ Cardinality(Failed) = 0 <=> Failed = {}
  <2>1. Scanned \in SUBSET Lookup /\ Skipped \in SUBSET Lookup /\ Failed \in SUBSET Lookup
    BY DEF Scanned, Skipped, Failed
  <2> QED
    BY <2>1, CountOfLookups
<1>5. /\ Missed > 0 <=> Skipped \cup Failed # {}
      /\ Missed = 0 <=> Skipped \cup Failed = {}
  BY <1>4
<1>6. Coverage = "complete" <=> Skipped \cup Failed = {}
  BY <1>4, <1>5 DEF Coverage, CoverageState
<1>7. Coverage = "failed" <=> Scanned = {} /\ Skipped \cup Failed # {}
  BY <1>4, <1>5 DEF Coverage, CoverageState
<1>8. N > 0 <=> Lookup # {}
  BY LookupAssumption DEF Lookup
<1>9. Coverage = "complete" <=> \A l \in Lookup : Seen(l) /\ stage[l] = "done"
  BY <1>1, <1>2, <1>3, <1>6 DEF AllDone
<1>10. Coverage = "failed" <=> N > 0 /\ \A l \in Lookup : ~Seen(l)
  BY <1>1, <1>2, <1>3, <1>7, <1>8 DEF Scanned
<1> QED
  BY <1>9, <1>10

\* The kind of every failure is the truth, for every number of dependencies.
THEOREM KindsAreTrue == LookupSpec => []OutcomeIsTrue
<1>1. LookupInv => OutcomeIsTrue
  BY DEF LookupInv
<1> QED
  BY <1>1, LookupInvInit, LookupInvStep, PTL DEF LookupSpec

\* A scan is never called complete unless every manifest was seen.
THEOREM HonestCoverage == LookupSpec => []CoverageIsHonest
  BY LookupInvInit, LookupInvStep, TruthGivesCoverage, PTL DEF LookupSpec

\* An aborted budget has no lookup in progress.
NothingInProgress == signal # "live" => InProgress = {}

\* No request is made once the budget is aborted: every action that asks is
\* guarded by the signal or belongs to a lookup that the abort would have ended.
THEOREM NothingAskedAfterAbort == LookupSpec => AsksNothingAfterAbort
<1> DEFINE Inv == LookupInv /\ NothingInProgress
<1>1. LookupInit => Inv
  BY LookupInvInit DEF LookupInit, NothingInProgress, InProgress
<1>2. Inv /\ [LookupNext]_lookupVars => Inv'
  <2> SUFFICES ASSUME Inv, [LookupNext]_lookupVars PROVE NothingInProgress'
    BY LookupInvStep
  <2> USE DEF NothingInProgress, InProgress, LookupInv, LookupTypeOK
  <2>1. CASE UNCHANGED lookupVars
    BY <2>1 DEF lookupVars
  <2>2. CASE ReadInputs \/ DeadlinePasses
    BY <2>2 DEF ReadInputs, DeadlinePasses
  <2>3. ASSUME NEW reason \in {"deadline", "cancelled"}, Abort(reason)
        PROVE NothingInProgress'
    BY <2>3 DEF Abort, End
  <2>4. ASSUME NEW l \in Lookup, Take(l) PROVE NothingInProgress'
    BY <2>4 DEF Take, IsNext, Ask, End
  <2>5. ASSUME NEW l \in Lookup, RequestTimesOut(l) \/ Retry(l) PROVE NothingInProgress'
    BY <2>5 DEF RequestTimesOut, Retry, Ask, End
  <2>6. ASSUME NEW l \in Lookup, NEW what \in Answers, Answer(l, what)
        PROVE NothingInProgress'
    BY <2>6 DEF Answer, End
  <2> QED
    BY <2>1, <2>2, <2>3, <2>4, <2>5, <2>6 DEF LookupNext, LookupStep
<1>3. Inv /\ [LookupNext]_lookupVars =>
        [\A l \in Lookup : asked'[l] # asked[l] => signal = "live"]_lookupVars
  <2> SUFFICES ASSUME Inv, LookupNext, NEW l \in Lookup, asked'[l] # asked[l]
               PROVE signal = "live"
    OBVIOUS
  <2> USE DEF NothingInProgress, InProgress, LookupInv, LookupTypeOK
  <2>1. CASE ReadInputs \/ DeadlinePasses
    BY <2>1 DEF ReadInputs, DeadlinePasses
  <2>2. ASSUME NEW reason \in {"deadline", "cancelled"}, Abort(reason)
        PROVE signal = "live"
    BY <2>2 DEF Abort
  <2>3. ASSUME NEW k \in Lookup, Take(k) PROVE signal = "live"
    BY <2>3 DEF Take
  <2>4. ASSUME NEW k \in Lookup, RequestTimesOut(k) \/ Retry(k) PROVE signal = "live"
    BY <2>4 DEF RequestTimesOut, Retry
  <2>5. ASSUME NEW k \in Lookup, NEW what \in Answers, Answer(k, what)
        PROVE signal = "live"
    BY <2>5 DEF Answer
  <2> QED
    BY <2>1, <2>2, <2>3, <2>4, <2>5 DEF LookupNext, LookupStep
<1> QED
  BY <1>1, <1>2, <1>3, PTL DEF LookupSpec, AsksNothingAfterAbort

-----------------------------------------------------------------------------
(* The scan *)

\* The lookups' part of a step, for every step of the scan.
LEMMA ScanStepIsLookupStep ==
  ASSUME [ScanNext]_scanVars
  PROVE  [LookupNext]_lookupVars
<1>1. CASE Alone(ReadInputs) \/ Alone(DeadlinePasses)
  BY <1>1 DEF Alone, LookupNext
<1>2. ASSUME NEW l \in Lookup,
             Alone(LookupStep(l)) \/ \E what \in Answers : Alone(Answer(l, what))
      PROVE  LookupNext
  BY <1>2 DEF Alone, LookupNext
<1>3. CASE \E reason \in {"deadline", "cancelled"} : BudgetAborts(reason)
  BY <1>3 DEF BudgetAborts, LookupNext
<1>4. CASE DoctorSettles \/ GitSettles \/ OsvInputsRead \/ OsvAnswers \/ Runner \/ MakeReport
  BY <1>4 DEF DoctorSettles, GitSettles, OsvInputsRead, OsvAnswers, Runner, OsvDeadline,
     LeaveRace, GraceEnds, MakeReport
<1>5. CASE UNCHANGED scanVars
  BY <1>5 DEF scanVars
<1> QED
  BY <1>1, <1>2, <1>3, <1>4, <1>5 DEF ScanNext

\* The scan is a scan of its dependencies: it implements the specification of
\* the lookups, whatever doctor, audit, OSV and the scorecard do meanwhile.
THEOREM ScanImplementsLookups == ScanSpec => LookupSpec
<1>1. ScanInit => LookupInit
  BY DEF ScanInit
<1> QED
  BY <1>1, ScanStepIsLookupStep, PTL DEF ScanSpec, LookupSpec

\* In the whole scan, the kind of every failure is the truth.
THEOREM ScanKindsAreTrue == ScanSpec => []OutcomeIsTrue
  BY ScanImplementsLookups, KindsAreTrue

\* In the whole scan, coverage is complete only if every manifest was seen.
THEOREM ScanCoverageIsHonest == ScanSpec => []CoverageIsHonest
  BY ScanImplementsLookups, HonestCoverage

\* In the whole scan, no lookup asks the registry once the budget is aborted.
THEOREM ScanAsksNothingAfterAbort == ScanSpec => AsksNothingAfterAbort
  BY ScanImplementsLookups, NothingAskedAfterAbort

-----------------------------------------------------------------------------
(* The exit code *)

\* The OSV result is taken from an operation that ended with it, the race is not
\* left without a result, and no lookup starts before its dependency is known.
OsvInv ==
  /\ status = "ok" => op = "ok"
  /\ race # "racing" => status # "none"
  /\ inputs # "read" => \A l \in Lookup : stage[l] = "queued"

\* A source that has found something had something to look at.
Looked(s) ==
  /\ s = "dependencies" => inputs = "read"
  /\ s = "osv" => status = "ok"
  /\ s = "doctor" => doctor # "rejected"
  /\ s = "git" => git # "rejected"

\* The report still says what the settled parts say.
Verdict ==
  report # NoReport =>
    /\ Settled
    /\ report.state = AnalysisState
    /\ report.found = {} \/ \E s \in Sources : report.found = {s} /\ Looked(s)
    /\ report.gated = report.found \cap Reported
    /\ report.failOnIncomplete \in BOOLEAN
    /\ report.exit = DecideExit(AnalysisState, report.gated, report.failOnIncomplete)

ScanInv == LookupInv /\ OsvInv /\ Verdict

\* The invariant of the scan holds at first.
LEMMA ScanInvInit == ScanInit => ScanInv
<1> SUFFICES ASSUME ScanInit PROVE ScanInv
  OBVIOUS
<1>1. LookupInv
  BY LookupInvInit DEF ScanInit
<1>2. OsvInv
  BY DEF ScanInit, LookupInit, OsvInv
<1>3. Verdict
  BY DEF ScanInit, Verdict
<1> QED
  BY <1>1, <1>2, <1>3 DEF ScanInv

\* A step that is the lookups' own leaves the rest of the scan alone, and takes up
\* a lookup only when its dependency is known.
LEMMA OsvInvStep == ScanInv /\ [ScanNext]_scanVars => OsvInv'
<1> SUFFICES ASSUME ScanInv, [ScanNext]_scanVars PROVE OsvInv'
  OBVIOUS
<1> USE DEF ScanInv, OsvInv
<1>1. CASE Alone(ReadInputs) \/ Alone(DeadlinePasses)
  BY <1>1 DEF Alone, ReadInputs, DeadlinePasses, osvVars
<1>2. ASSUME NEW l \in Lookup, Alone(LookupStep(l)) PROVE OsvInv'
  <2>1. inputs = "read" /\ UNCHANGED inputs
    BY <1>2 DEF Alone, LookupStep, Take, IsNext, RequestTimesOut, Retry
  <2> QED
    BY <1>2, <2>1 DEF Alone, osvVars
<1>3. ASSUME NEW l \in Lookup, NEW what \in Answers, Alone(Answer(l, what))
      PROVE  OsvInv'
  <2>1. inputs = "read" /\ UNCHANGED inputs
    BY <1>3 DEF Alone, Answer
  <2> QED
    BY <1>3, <2>1 DEF Alone, osvVars
<1>4. ASSUME NEW reason \in {"deadline", "cancelled"}, BudgetAborts(reason)
      PROVE  OsvInv'
  <2>1. inputs' = inputs /\ race' = race
    BY <1>4 DEF BudgetAborts, Abort
  <2>2. inputs # "read" => \A l \in Lookup : stage'[l] = "queued"
    BY <1>4 DEF BudgetAborts, Abort, End, InProgress
  <2>3. (status' = "ok" => op' = "ok") /\ (race # "racing" => status' # "none")
    BY <1>4 DEF BudgetAborts, OsvAborted
  <2> QED
    BY <2>1, <2>2, <2>3
<1>5. CASE DoctorSettles \/ GitSettles \/ MakeReport
  <2>1. UNCHANGED <<osvVars, lookupVars>>
    BY <1>5 DEF DoctorSettles, GitSettles, MakeReport
  <2> QED
    BY <2>1 DEF osvVars, lookupVars
<1>6. CASE LeaveRace \/ GraceEnds
  BY <1>6 DEF LeaveRace, GraceEnds, InGrace, lookupVars
<1>7. CASE OsvInputsRead \/ OsvAnswers
  BY <1>7 DEF OsvInputsRead, OsvAnswers, Proceed, OpEnds, lookupVars
<1>8. CASE OsvDeadline
  BY <1>8 DEF OsvDeadline, OsvAborted, lookupVars
<1>9. CASE UNCHANGED scanVars
  BY <1>9 DEF scanVars, osvVars, lookupVars
<1> QED
  BY <1>1, <1>2, <1>3, <1>4, <1>5, <1>6, <1>7, <1>8, <1>9 DEF ScanNext, Runner

\* Once everything has settled and the report is made, no step changes what it
\* was made from: the lookups, the doctor and the audit have ended, the budget no
\* longer aborts anything, and OSV's late answers find its race decided.
LEMMA SettledStaysSettled ==
  ASSUME ScanInv, [ScanNext]_scanVars, report # NoReport
  PROVE  UNCHANGED <<inputs, stage, said, result, doctor, git, race, status, report>>
<1> USE DEF ScanInv, OsvInv
<1>1. Settled /\ (inputs = "rejected" \/ inputs = "read") /\ status # "none"
  BY DEF Verdict, Settled
<1>2. \A l \in Lookup : stage[l] \in {"queued", "done"}
  BY <1>1 DEF Settled, AllDone
<1>3. inputs = "read" => \A l \in Lookup : stage[l] # "queued"
  BY <1>1 DEF Settled, AllDone
<1>4. CASE Alone(ReadInputs) \/ Alone(DeadlinePasses)
  BY <1>1, <1>4 DEF Alone, ReadInputs, DeadlinePasses, osvVars
<1>5. ASSUME NEW l \in Lookup,
             Alone(LookupStep(l)) \/ \E what \in Answers : Alone(Answer(l, what))
      PROVE  FALSE
  BY <1>2, <1>3, <1>5 DEF Alone, LookupStep, Take, IsNext, RequestTimesOut, Retry, Answer
<1>6. CASE DoctorSettles \/ GitSettles \/ Runner \/ MakeReport
      \/ \E reason \in {"deadline", "cancelled"} : BudgetAborts(reason)
  BY <1>1, <1>6 DEF Settled, DoctorSettles, GitSettles, Runner, OsvDeadline, LeaveRace,
     GraceEnds, InGrace, MakeReport, BudgetAborts
<1>7. CASE OsvInputsRead \/ OsvAnswers
  BY <1>1, <1>7 DEF OsvInputsRead, OsvAnswers, Proceed, OpEnds, lookupVars
<1>8. CASE UNCHANGED scanVars
  BY <1>8 DEF scanVars, osvVars, lookupVars
<1> QED
  BY <1>4, <1>5, <1>6, <1>7, <1>8 DEF ScanNext

\* What the report was made from decides everything in it.
LEMMA VerdictStep == ScanInv /\ [ScanNext]_scanVars => Verdict'
<1> SUFFICES ASSUME ScanInv, [ScanNext]_scanVars, (report # NoReport)' PROVE Verdict'
  BY DEF Verdict
<1>1. CASE report # NoReport
  <2>1. UNCHANGED <<inputs, stage, said, result, doctor, git, race, status, report>>
    BY <1>1, SettledStaysSettled
  <2>2. /\ Settled' = Settled /\ Reported' = Reported /\ AnalysisState' = AnalysisState
        /\ \A s \in Sources : Looked(s)' = Looked(s)
    <3>1. AllDone' = AllDone /\ Coverage' = Coverage
      BY <2>1 DEF AllDone, Coverage, Scanned, Skipped, Failed
    <3>2. DependenciesMeasured' = DependenciesMeasured
      BY <2>1, <3>1 DEF DependenciesMeasured
    <3>3. Measured' = Measured
      BY <2>1, <3>2 DEF Measured
    <3> QED
      BY <2>1, <3>1, <3>3 DEF Settled, Reported, AnalysisState, Looked
  <2> QED
    BY <1>1, <2>1, <2>2 DEF ScanInv, Verdict
<1>2. CASE report = NoReport
  <2>1. MakeReport
    BY <1>2 DEF ScanNext, scanVars, Alone, DoctorSettles, GitSettles, OsvInputsRead,
       OsvAnswers, BudgetAborts, Runner, OsvDeadline, LeaveRace, GraceEnds
  <2>2. UNCHANGED <<inputs, stage, said, result, doctor, git, race, status>>
    BY <2>1 DEF MakeReport, lookupVars, osvVars
  <2>3. /\ Settled' = Settled /\ Reported' = Reported /\ AnalysisState' = AnalysisState
        /\ \A s \in Sources : Looked(s)' = Looked(s)
    <3>1. AllDone' = AllDone /\ Coverage' = Coverage
      BY <2>2 DEF AllDone, Coverage, Scanned, Skipped, Failed
    <3>2. DependenciesMeasured' = DependenciesMeasured
      BY <2>2, <3>1 DEF DependenciesMeasured
    <3>3. Measured' = Measured
      BY <2>2, <3>2 DEF Measured
    <3> QED
      BY <2>2, <3>1, <3>3 DEF Settled, Reported, AnalysisState, Looked
  <2>4. Scanned # {} => inputs = "read"
    BY DEF ScanInv, OsvInv, LookupInv, Pending, Scanned
  <2>5. PICK found \in {{}} \cup {{s} : s \in Sources}, failOnIncomplete \in BOOLEAN :
          /\ "dependencies" \in found => Scanned # {}
          /\ "osv" \in found => status = "ok"
          /\ "doctor" \in found => doctor # "rejected"
          /\ "git" \in found => git # "rejected"
          /\ report' = [state |-> AnalysisState, found |-> found,
                        gated |-> found \cap Reported,
                        failOnIncomplete |-> failOnIncomplete,
                        exit |-> DecideExit(AnalysisState, found \cap Reported,
                                            failOnIncomplete)]
    BY <2>1 DEF MakeReport
  <2>6. found = {} \/ \E s \in Sources : found = {s} /\ Looked(s)
    BY <2>4, <2>5 DEF Looked
  <2>7. Settled
    BY <2>1 DEF MakeReport
  <2> QED
    BY <2>3, <2>5, <2>6, <2>7 DEF Verdict
<1> QED
  BY <1>1, <1>2

\* The verdict of the report, for the parts as they are, is an honest one.
LEMMA VerdictIsHonest == ScanInv => ExitIsHonest
<1> SUFFICES ASSUME ScanInv, report # NoReport PROVE ExitIsHonest
  BY DEF ExitIsHonest
<1> USE DEF ScanInv, OsvInv
<1>1. /\ Settled /\ report.state = AnalysisState
      /\ report.found = {} \/ \E s \in Sources : report.found = {s} /\ Looked(s)
      /\ report.gated = report.found \cap Reported
      /\ report.failOnIncomplete \in BOOLEAN
      /\ report.exit = DecideExit(AnalysisState, report.gated, report.failOnIncomplete)
  BY DEF Verdict
<1>2. inputs = "read" => (Coverage = "complete" <=> \A l \in Lookup : Seen(l))
  BY <1>1, TruthGivesCoverage DEF Settled, AllDone, CoverageIsHonest
<1>3. DependenciesMeasured =>
        inputs = "read" /\ op = "ok" /\ \A l \in Lookup : Seen(l)
  BY <1>2 DEF DependenciesMeasured
<1>4. /\ "dependency health" \in Measured <=> DependenciesMeasured
      /\ "secret hygiene" \in Measured <=> doctor = "complete"
      /\ "git safety" \in Measured <=> git = "observed"
      /\ DependenciesMeasured \/ doctor = "complete" \/ git = "observed"
           <=> Measured # {}
  BY DEF Measured
<1>5. AnalysisState = "complete" => EverythingAnalyzed
  BY <1>3, <1>4 DEF AnalysisState, Dimensions, EverythingAnalyzed
<1>6. NothingAnalyzed => AnalysisState = "failed"
  BY <1>3, <1>4 DEF AnalysisState, Dimensions, NothingAnalyzed
<1>7. AnalysisState \in States
  BY DEF AnalysisState, States
<1>8. NothingAnalyzed => report.exit = 4
  BY <1>1, <1>6 DEF DecideExit
<1>9. ~EverythingAnalyzed /\ report.failOnIncomplete => report.exit >= 3
  BY <1>1, <1>5, <1>7 DEF DecideExit, States
<1>10. report.found # {} /\ ~(inputs # "read" /\ "osv" \in report.found)
         => report.gated # {}
  BY <1>1 DEF Looked, Reported, Sources
<1>11. report.gated # {} => report.exit >= 2
  BY <1>1, <1>7 DEF DecideExit, States
<1> QED
  BY <1>1, <1>5, <1>8, <1>9, <1>10, <1>11 DEF ExitIsHonest

\* Every scan's exit code is honest: it never reports clean for work it did not
\* complete (ANALYSIS-STATUS.md:3), however late the answers come.
THEOREM EveryExitIsHonest == ScanSpec => []ExitIsHonest
<1>1. ScanInv /\ [ScanNext]_scanVars => ScanInv'
  <2> SUFFICES ASSUME ScanInv, [ScanNext]_scanVars PROVE ScanInv'
    OBVIOUS
  <2>1. LookupInv'
    BY ScanStepIsLookupStep, LookupInvStep DEF ScanInv
  <2> QED
    BY <2>1, OsvInvStep, VerdictStep DEF ScanInv
<1> QED
  BY <1>1, ScanInvInit, VerdictIsHonest, PTL DEF ScanSpec
=============================================================================
