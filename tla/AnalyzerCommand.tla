--------------------------- MODULE AnalyzerCommand ---------------------------
(***************************************************************************)
(* The commands that run one analyzer (src/src/commands/ast-scan.ts,       *)
(* docker-scan.ts, reachability.ts, install-scripts.ts, vulnerabilities.ts,*)
(* git-history.ts, dependency-confusion.ts): the analyzer counts what it   *)
(* examines, the runner settles its promise against a deadline, and the    *)
(* command turns counts and findings into an exit code.                    *)
(*                                                                         *)
(* The slot and the grace period of the runner are AnalyzerRunner's; here  *)
(* only what it returns matters.                                           *)
(***************************************************************************)
EXTENDS Integers, Sequences, FiniteSets

CONSTANTS
  Severities,  \* the severities a finding has
  Gates,       \* the words given to --fail-on
  Dependencies, \* the packages of an inventory: [development, optional, os, libc]
  MaxInputs    \* bound: inputs of a project

VARIABLES
  invocation, \* the command and its options
  machine,    \* the platform, its libc, and the evidence of it there is
  inputs,     \* what the analyzer goes through: files, packages
  position,   \* how many of them it has gone through
  tally,      \* its counters
  found,      \* its findings: [severity, development]
  examined,   \* history variable: the inputs whose contents it has seen
  analysis,   \* discovering, examining, returned, thrown
  outcome,    \* pending; ok, failed, timed_out: the status of the result
  exitCode    \* Running until the command has ended

commandVars == <<invocation, machine, inputs, position, tally, found, examined,
                 analysis, outcome, exitCode>>

Running == 99
Undefined == "undefined"
FileCommands == {"ast-scan", "docker-scan", "reachability"}

SeverityRank == [critical |-> 4, high |-> 3, medium |-> 2, low |-> 1, info |-> 0]
IsFailOn(word) == word = "none" \/ word \in DOMAIN SeverityRank

\* A constraint of the lockfile: what it names, and what it names with "!".
Only(values) == [only |-> values, never |-> {}]
Never(values) == [only |-> {}, never |-> values]
AllowedBy(constraint, current) ==
  current \notin constraint.never /\ (constraint.only = {} \/ current \in constraint.only)

\* The evidence is honest: only glibc has a version to report, and where a
\* runtime of glibc reports none, no musl loader is installed beside it.
Machines ==
  {m \in [platform : {"linux", "darwin"}, libc : {"glibc", "musl"},
          report : BOOLEAN, loader : BOOLEAN] :
     /\ m.report => m.libc = "glibc"
     /\ m.loader => m.libc = "musl" \/ m.report}

RuntimeLibcGuessed ==  \* Mutant: what is not musl is glibc.
  IF machine.platform # "linux" THEN "unknown"
  ELSE IF machine.loader THEN "musl" ELSE "glibc"
RuntimeLibc ==
  IF machine.platform # "linux" THEN "unknown"
  ELSE IF machine.report THEN "glibc"
  ELSE IF machine.loader THEN "musl" ELSE "unknown"

IsOmittedOnPlatform(package) ==
  /\ package.optional
  /\ \/ ~AllowedBy(package.os, machine.platform)
     \/ /\ machine.platform = "linux" /\ RuntimeLibc # "unknown"
        /\ ~AllowedBy(package.libc, RuntimeLibc)

-----------------------------------------------------------------------------

Invocation(command, failOns, tolerances, developments) ==
  [command : {command}, failOn : failOns, tolerant : tolerances, includeDev : developments]

CommandInit ==
  /\ invocation \in Invocation("ast-scan", Gates, BOOLEAN, {TRUE})
                    \cup Invocation("docker-scan", {Undefined}, BOOLEAN, {TRUE})
                    \cup Invocation("reachability", {Undefined}, BOOLEAN, {TRUE})
                    \cup Invocation("install-scripts", Gates, BOOLEAN, BOOLEAN)
                    \cup Invocation("vulnerabilities", Gates, BOOLEAN, BOOLEAN)
                    \cup Invocation("git-history", {Undefined}, {FALSE}, {TRUE})
                    \cup Invocation("dependency-confusion", {Undefined}, {FALSE}, {TRUE})
  /\ machine \in {m \in Machines : invocation.command # "install-scripts" =>
                                     m.platform = "linux" /\ m.report /\ ~m.loader}
  /\ inputs \in UNION {[1..n -> IF invocation.command \in FileCommands
                                THEN {"source", "declaration", "Dockerfile"} ELSE Dependencies] :
                         n \in 0..MaxInputs}
  /\ position = 0 /\ found = {} /\ examined = {}
  /\ tally = [eligible |-> 0, scanned |-> 0, skipped |-> 0, failed |-> 0, cancelled |-> FALSE]
  /\ analysis = "discovering" /\ outcome = "pending" /\ exitCode = Running

\* The word given to --fail-on is none of the known ones: handleError.
RejectOption ==
  /\ exitCode = Running /\ invocation.failOn # Undefined /\ ~IsFailOn(invocation.failOn)
  /\ exitCode' = 1
  /\ UNCHANGED <<invocation, machine, inputs, position, tally, found, examined, analysis, outcome>>

\* The files or the inventory are read, or that fails: a directory that is a
\* link, an entry that is gone, too many files, no lockfile.
Discover ==
  /\ exitCode = Running /\ analysis = "discovering"
  /\ invocation.failOn = Undefined \/ IsFailOn(invocation.failOn)
  /\ analysis' \in {"examining", "thrown"}
  /\ UNCHANGED <<invocation, machine, inputs, position, tally, found, examined, outcome, exitCode>>

Examining(commands) ==
  /\ exitCode = Running /\ analysis = "examining" /\ invocation.command \in commands

Findings(severities, package) ==
  {{}} \cup {{[severity |-> s, development |-> package]} : s \in severities}

\* reader.read: cancelled once the signal has come; the isolated analyzer is
\* not given one.
ReadStatuses(aborted) == IF aborted THEN {"cancelled"} ELSE {"ok", "skipped", "failed"}

\* A file that is not for this analyzer is passed over, the others are counted;
\* failedApart: failed reads have a counter of their own.
NextFile(command, kind, failedApart, severities) ==
  LET aborted == outcome = "timed_out" /\ command # "ast-scan"
      counted(status) ==
        [tally EXCEPT !.eligible = @ + 1,
                      !.scanned = IF status = "ok" THEN @ + 1 ELSE @,
                      !.failed = IF status = "failed" /\ failedApart THEN @ + 1 ELSE @,
                      !.skipped = IF status = "ok" \/ (status = "failed" /\ failedApart)
                                  THEN @ ELSE @ + 1,
                      !.cancelled = @ \/ status = "cancelled"] IN
  /\ Examining({command}) /\ position < Len(inputs)
  /\ position' = position + 1
  /\ IF inputs[position + 1] # kind THEN UNCHANGED <<tally, found, examined>>
     ELSE \E status \in ReadStatuses(aborted) : \E findings \in Findings(severities, FALSE) :
            /\ status # "ok" => findings = {}
            /\ tally' = counted(status) /\ found' = found \cup findings
            /\ examined' = IF status = "ok" THEN examined \cup {position + 1} ELSE examined
  /\ UNCHANGED <<invocation, machine, inputs, analysis, outcome, exitCode>>

AstFile == NextFile("ast-scan", "source", FALSE, Severities)
Dockerfile == NextFile("docker-scan", "Dockerfile", TRUE, Severities)
ReachabilityFile == NextFile("reachability", "source", FALSE, {"info"})

\* The manifest of the next package, as it is in node_modules.
InspectPackage ==
  LET package == inputs[position + 1]
      skip == tally' = [tally EXCEPT !.eligible = @ + 1, !.skipped = @ + 1]
              /\ UNCHANGED <<found, examined, analysis>>
      throw == analysis' = "thrown" /\ UNCHANGED <<tally, found, examined>> IN
  /\ Examining({"install-scripts"}) /\ position < Len(inputs)
  /\ position' = position + 1
  /\ IF outcome = "timed_out" THEN throw
     ELSE \E manifest \in {"present", "malformed", "otherVersion", "missing", "inaccessible"} :
            CASE manifest = "present" ->
                   /\ tally' = [tally EXCEPT !.eligible = @ + 1, !.scanned = @ + 1]
                   /\ examined' = examined \cup {position + 1}
                   /\ \E findings \in Findings(Severities, package.development) :
                        found' = found \cup findings
                   /\ UNCHANGED analysis
              [] manifest = "malformed" -> throw
              [] manifest = "missing" /\ IsOmittedOnPlatform(package) ->
                   UNCHANGED <<tally, found, examined, analysis>>
              [] OTHER -> skip
  /\ UNCHANGED <<invocation, machine, inputs, outcome, exitCode>>

\* All inputs at once, or none: the answers of a batch, the output of git log.
Collect(command, severities) ==
  /\ Examining({command}) /\ position < Len(inputs)
  /\ \/ /\ position' = Len(inputs) /\ examined' = DOMAIN inputs
        /\ \E severity \in [DOMAIN inputs -> severities \cup {"none"}] :
             found' = {[severity |-> severity[i], development |-> inputs[i].development] :
                         i \in {j \in DOMAIN inputs : severity[j] # "none"}}
        /\ UNCHANGED analysis
     \/ analysis' = "thrown" /\ UNCHANGED <<position, examined, found>>
  /\ UNCHANGED <<invocation, machine, inputs, tally, outcome, exitCode>>

QueryOsv == Collect("vulnerabilities", Severities)
LookupNames == Collect("dependency-confusion", {"high"})
ScanHistory == Collect("git-history", Severities)

\* The promise of the analyzer settles, the deadline passes: the first decides.
AnalysisReturns ==
  /\ exitCode = Running /\ analysis = "examining" /\ position = Len(inputs)
  /\ analysis' = "returned"
  /\ UNCHANGED <<invocation, machine, inputs, position, tally, found, examined, outcome, exitCode>>

Settle ==
  /\ outcome = "pending" /\ exitCode = Running
  /\ \/ analysis = "returned" /\ outcome' = "ok"
     \/ analysis = "thrown" /\ outcome' = "failed"
     \/ analysis \in {"discovering", "examining"} /\ outcome' = "timed_out"
        /\ (invocation.failOn = Undefined \/ IsFailOn(invocation.failOn))
  /\ UNCHANGED <<invocation, machine, inputs, position, tally, found, examined, analysis, exitCode>>

-----------------------------------------------------------------------------
(* The exit code *)

AlwaysAnswered(counts) ==  \* Mutant: nothing examined is partial like any other.
  IF counts.skipped + counts.failed > 0 \/ counts.cancelled THEN "partial" ELSE "complete"
CoverageOf(counts) ==
  IF counts.eligible > 0 /\ counts.scanned = 0 /\ counts.skipped + counts.failed > 0
  THEN "failed"
  ELSE IF counts.skipped + counts.failed > 0 \/ counts.cancelled THEN "partial" ELSE "complete"

\* An analyzer without coverage reports no warnings either: its tally is empty.
AssessExecution == IF outcome = "ok" THEN CoverageOf(tally) ELSE "failed"

\* A result that is not ok has no findings.
Reported == IF outcome = "ok" THEN found ELSE {}

GatedFindings(findings, failOn) ==
  IF failOn \in {Undefined, "none"} THEN {}
  ELSE {f \in findings : SeverityRank[f.severity] >= SeverityRank[failOn]}

DecideExit(state, gated) ==
  CASE state = "failed" -> 4
    [] state = "partial" /\ ~invocation.tolerant -> 3
    [] OTHER -> IF gated # {} THEN 2 ELSE 0

Exit(command, code) ==
  /\ invocation.command = command /\ outcome # "pending" /\ exitCode = Running
  /\ exitCode' = code
  /\ UNCHANGED <<invocation, machine, inputs, position, tally, found, examined, analysis, outcome>>

FinishAnalysis(command, findings) ==
  Exit(command, DecideExit(AssessExecution, GatedFindings(findings, invocation.failOn)))

Shown == {f \in Reported : invocation.includeDev \/ ~f.development}

AstScan == FinishAnalysis("ast-scan", Reported)
DockerScan == FinishAnalysis("docker-scan", Reported)
Reachability == FinishAnalysis("reachability", {})
InstallScripts == FinishAnalysis("install-scripts", Shown)
Vulnerabilities == FinishAnalysis("vulnerabilities", Shown)
\* These two print the result and leave the exit code alone.
GitHistoryCommand == Exit("git-history", 0)
DependencyConfusion == Exit("dependency-confusion", 0)

CommandNext ==
  \/ RejectOption \/ Discover
  \/ AstFile \/ Dockerfile \/ ReachabilityFile
  \/ InspectPackage \/ QueryOsv \/ LookupNames \/ ScanHistory
  \/ AnalysisReturns \/ Settle
  \/ AstScan \/ DockerScan \/ Reachability \/ InstallScripts \/ Vulnerabilities
  \/ GitHistoryCommand \/ DependencyConfusion

CommandSpec == CommandInit /\ [][CommandNext]_commandVars

-----------------------------------------------------------------------------
(* Properties *)

\* docs/ANALYSIS-STATUS.md:15-23, for the commands that end in finishAnalysis,
\* told from what was really seen: 0 and 2 stand for inputs that were all seen,
\* or are packages npm leaves out on this machine (or some were seen, with the
\* option), and are told apart by a finding the gate is for; 3 and 4 for inputs
\* that were not.
ExitTellsTruth ==
  LET relevant ==
        {i \in DOMAIN inputs :
           invocation.command \in FileCommands =>
             inputs[i] = IF invocation.command = "docker-scan" THEN "Dockerfile" ELSE "source"}
      leftOut ==
        {i \in relevant :
           /\ invocation.command = "install-scripts" /\ inputs[i].optional
           /\ \/ ~AllowedBy(inputs[i].os, machine.platform)
              \/ machine.platform = "linux" /\ ~AllowedBy(inputs[i].libc, machine.libc)}
      unseen == relevant \ examined
      gated == \E f \in found : /\ IsFailOn(invocation.failOn) /\ invocation.failOn # "none"
                                /\ f.development => invocation.includeDev
                                /\ SeverityRank[f.severity] >= SeverityRank[invocation.failOn] IN
  exitCode # Running /\ invocation.command \notin {"git-history", "dependency-confusion"} =>
    CASE exitCode \in {0, 2} ->
           /\ outcome = "ok"
           /\ unseen \subseteq leftOut \/ (invocation.tolerant /\ examined # {})
           /\ gated <=> exitCode = 2
      [] exitCode = 3 -> outcome = "ok" /\ unseen # {} /\ examined # {} /\ ~invocation.tolerant
      [] exitCode = 4 -> outcome # "ok" \/ (unseen # {} /\ examined = {})
      [] exitCode = 1 -> invocation.failOn # Undefined /\ ~IsFailOn(invocation.failOn)

\* "Toolip never reports "clean" for work it did not complete"
\* (docs/ANALYSIS-STATUS.md:3), and 4 is for a failed analysis (:21): a command
\* whose analyzer has failed or timed out does not end with 0.
CleanOnlyWhenRun == exitCode = 0 => outcome = "ok"
=============================================================================
