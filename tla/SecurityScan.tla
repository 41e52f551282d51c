---------------------------- MODULE SecurityScan ----------------------------
(***************************************************************************)
(* toolip scan: buildSecurityScorecard                                     *)
(* (src/src/application/security-scorecard.ts) runs the registry lookups,  *)
(* the security doctor, the git audit and the OSV analyzer under one       *)
(* budget, waits until all four have settled, derives the four score       *)
(* dimensions and the state of the analysis, and the command               *)
(* (commands/scan.ts) turns state and findings into an exit code.          *)
(*                                                                         *)
(* The OSV analyzer is run by AnalyzerRunner in one slot; only the race,   *)
(* the grace period and the analyzer's own requests matter here.  The      *)
(* doctor and the audit are reduced to how they settle: a file that is not *)
(* scanned and a Git state that cannot be observed make them incomplete.   *)
(***************************************************************************)
EXTENDS RegistryLookups

CONSTANT Batches  \* the number of OSV requests the dependencies need

ASSUME BatchesAssumption == Batches \in Nat

VARIABLES
  doctor,  \* runSecurityDoctor: "running" or how it settled
  git,     \* runGitAudit: "running" or how it settled
  race,    \* the OSV analyzer's runOne: "racing", "grace" or "done"
  status,  \* the status of its execution result
  op,      \* its operation: reading the lockfile, asking OSV, or ended
  sent,    \* OSV requests sent so far
  report   \* the scorecard and the exit code, once made

osvVars == <<race, status, op, sent>>
scanVars == <<lookupVars, doctor, git, osvVars, report>>

Sources == {"dependencies", "osv", "doctor", "git"}
States == {"complete", "partial", "failed"}
NoReport == [state |-> "none"]

\* A signal that is already aborted: the runner reports without starting.
ScanInit ==
  /\ LookupInit
  /\ doctor = "running"
  /\ git = "running"
  /\ race = IF signal = "live" THEN "racing" ELSE "done"
  /\ status = IF signal = "live" THEN "none" ELSE "cancelled"
  /\ op = IF signal = "live" THEN "reading" ELSE "idle"
  /\ sent = 0
  /\ report = NoReport

-----------------------------------------------------------------------------
(* The doctor and the audit *)

\* Files left unread by a cancellation, a budget or an error are skipped files.
DoctorSettles ==
  /\ doctor = "running"
  /\ doctor' \in {"rejected", "complete", "incomplete"}
  /\ UNCHANGED <<lookupVars, git, osvVars, report>>

GitSettles ==
  /\ git = "running"
  /\ git' \in {"rejected", "observed", "unknown"}
  /\ UNCHANGED <<lookupVars, doctor, osvVars, report>>

-----------------------------------------------------------------------------
(* The OSV analyzer (analyzers/vulnerability/osv-analyzer.ts,              *)
(* providers/osv/client.ts)                                                *)

\* The operation ends, and decides the race if nothing else has.
OpEnds(how) ==
  /\ op' = how
  /\ status' = IF status = "none" THEN how ELSE status
  /\ UNCHANGED sent

\* The next batch is sent, or none is left.  The analyzer's signal is not read:
\* an abort that came before this batch's listener is never noticed.
Proceed ==
  \/ sent < Batches /\ op' = "asking" /\ sent' = sent + 1 /\ UNCHANGED status
  \/ sent = Batches /\ OpEnds("ok")

\* The lockfile has been read, and the cache asked.
OsvInputsRead ==
  /\ op = "reading"
  /\ Proceed \/ OpEnds("failed")
  /\ UNCHANGED <<lookupVars, doctor, git, race, report>>

\* A batch is answered, refused or malformed, or its own timer fires.
OsvAnswers ==
  /\ op = "asking"
  /\ Proceed \/ OpEnds("failed")
  /\ UNCHANGED <<lookupVars, doctor, git, race, report>>

\* The analyzer's signal is aborted: the request that listens is aborted too.
OsvAborted(how) ==
  IF race = "racing" /\ status = "none"
  THEN /\ status' = how
       /\ op' = IF op = "asking" THEN "failed" ELSE op
       /\ UNCHANGED sent
  ELSE UNCHANGED <<status, op, sent>>

\* The runner's deadline for the analyzer.
OsvDeadline ==
  /\ race = "racing" /\ status = "none"
  /\ OsvAborted("timed_out")
  /\ UNCHANGED <<lookupVars, doctor, git, race, report>>

\* The budget's abort reaches the lookups and the runner at once.
BudgetAborts(reason) ==
  /\ report = NoReport
  /\ Abort(reason)
  /\ OsvAborted("cancelled")
  /\ UNCHANGED <<doctor, git, race, report>>

LeaveRace ==
  /\ race = "racing" /\ status # "none"
  /\ race' = IF status \in {"timed_out", "cancelled"} THEN "grace" ELSE "done"
  /\ UNCHANGED <<lookupVars, doctor, git, status, op, sent, report>>

\* Mutant: no timer bounds the grace period.
GraceForever == race = "grace" /\ op \in {"ok", "failed"}
InGrace == race = "grace"

\* The operation has ended, or the grace timer fires first.
GraceEnds ==
  /\ InGrace
  /\ race' = "done"
  /\ UNCHANGED <<lookupVars, doctor, git, status, op, sent, report>>

-----------------------------------------------------------------------------
(* The scorecard and the exit code *)

\* Promise.allSettled: every part has settled.
Settled ==
  /\ inputs = "rejected" \/ (inputs = "read" /\ AllDone)
  /\ doctor # "running" /\ git # "running" /\ race = "done"

\* Mutant: dependencies are measured by the lookups alone.
LookupsMeasured == inputs = "read" /\ Coverage = "complete"

\* Dependency health needs every manifest and a completed OSV analysis.
DependenciesMeasured == inputs = "read" /\ Coverage = "complete" /\ status = "ok"

Dimensions ==
  {"dependency health", "secret hygiene", "configuration security", "git safety"}

\* The doctor gives two dimensions, secret hygiene and configuration security.
Measured ==
  (IF DependenciesMeasured THEN {"dependency health"} ELSE {})
  \cup (IF doctor = "complete" THEN {"secret hygiene", "configuration security"} ELSE {})
  \cup (IF git = "observed" THEN {"git safety"} ELSE {})

AnalysisState ==
  CASE Measured = Dimensions -> "complete"
    [] Measured = {} -> "failed"
    [] OTHER -> "partial"

\* The parts whose findings are reported: partial ones too.
Reported ==
  {s \in Sources :
    CASE s = "osv" -> inputs = "read" /\ status = "ok"
      [] s = "dependencies" -> inputs = "read"
      [] s = "doctor" -> doctor # "rejected"
      [] s = "git" -> git # "rejected"}

DecideExit(state, gated, failOnIncomplete) ==
  CASE state = "failed" -> 4
    [] state = "partial" /\ failOnIncomplete -> 3
    [] gated # {} /\ (state = "complete" \/ (state = "partial" /\ ~failOnIncomplete)) -> 2
    [] OTHER -> 0

\* A part that looked at something may have found something to gate on; for the
\* exit code one finding is as good as many.
MakeReport ==
  /\ report = NoReport /\ Settled
  /\ \E found \in {{}} \cup {{s} : s \in Sources}, failOnIncomplete \in BOOLEAN :
       /\ "dependencies" \in found => Scanned # {}
       /\ "osv" \in found => status = "ok"
       /\ "doctor" \in found => doctor # "rejected"
       /\ "git" \in found => git # "rejected"
       /\ LET gated == found \cap Reported IN
          report' = [state |-> AnalysisState, found |-> found, gated |-> gated,
                     failOnIncomplete |-> failOnIncomplete,
                     exit |-> DecideExit(AnalysisState, gated, failOnIncomplete)]
  /\ UNCHANGED <<lookupVars, doctor, git, osvVars>>

-----------------------------------------------------------------------------
\* The steps of the lookups that are the scan's own.
Alone(step) == step /\ UNCHANGED <<doctor, git, osvVars, report>>

Runner == OsvDeadline \/ LeaveRace \/ GraceEnds

ScanNext ==
  \/ Alone(ReadInputs) \/ Alone(DeadlinePasses)
  \/ \E l \in Lookup : Alone(LookupStep(l)) \/ \E what \in Answers : Alone(Answer(l, what))
  \/ DoctorSettles \/ GitSettles
  \/ OsvInputsRead \/ OsvAnswers
  \/ \E reason \in {"deadline", "cancelled"} : BudgetAborts(reason)
  \/ Runner
  \/ MakeReport

ScanSpec == ScanInit /\ [][ScanNext]_scanVars

\* The process keeps running what it has started: files are read, git is bounded
\* by its own timeout, timers fire.  Neither the registry nor OSV ever has to
\* answer, and nobody has to cancel.
FairScanSpec ==
  /\ ScanSpec
  /\ WF_scanVars(Alone(ReadInputs))
  /\ \A l \in Lookup : WF_scanVars(Alone(LookupStep(l)))
  /\ WF_scanVars(DoctorSettles) /\ WF_scanVars(GitSettles)
  /\ WF_scanVars(Runner)
  /\ WF_scanVars(MakeReport)

-----------------------------------------------------------------------------
(* Properties *)

\* What really was analyzed, whatever the scorecard concluded; a well-formed
\* manifest counts, as it does in CoverageIsHonest.
EverythingAnalyzed ==
  /\ inputs = "read" /\ \A l \in Lookup : Seen(l)
  /\ op = "ok" /\ doctor = "complete" /\ git = "observed"
NothingAnalyzed ==
  /\ inputs # "read" \/ op # "ok" \/ \E l \in Lookup : ~Seen(l)
  /\ doctor # "complete" /\ git # "observed"

\* "Toolip never reports clean for work it did not complete ... the highest
\* applicable exit code wins" (ANALYSIS-STATUS.md:3, 23): a scan that measured
\* nothing exits 4; one that missed anything exits 3 or more unless the caller
\* tolerates it; and a finding to gate on exits 2 or more, also next to partial
\* coverage ("a completed run's findings must survive partial registry coverage",
\* security-scorecard.ts:117), except what OSV found when the dependencies could
\* not even be listed.
ExitIsHonest ==
  report # NoReport =>
    /\ NothingAnalyzed => report.exit = 4
    /\ ~EverythingAnalyzed /\ report.failOnIncomplete => report.exit >= 3
    /\ report.found # {} /\ ~(inputs # "read" /\ "osv" \in report.found) => report.exit >= 2
    /\ report.state = "complete" => EverythingAnalyzed

\* The scan reports although the registry and OSV may never answer.
ScanReports == <>(report # NoReport)

\* "Provider code takes a budget instead of inventing its own timers so nothing
\* outlives the scan" (scan-budget.ts:7-8): when the scan has reported, no
\* provider request is pending.
NothingOutlivesScan == report # NoReport => InProgress = {} /\ op # "asking"
=============================================================================
