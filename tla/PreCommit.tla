------------------------------ MODULE PreCommit ------------------------------
(***************************************************************************)
(* toolip pre-commit: runPreCommit (src/src/core/pre-commit.ts) scans the  *)
(* staged blobs, or with --full the files of the worktree, with the        *)
(* security doctor's file loop (core/security-doctor.ts) next to the git   *)
(* audit, and the command (commands/pre-commit.ts) turns findings and      *)
(* coverage into the exit code that lets git commit, or does not.          *)
(*                                                                         *)
(* Staged content comes from StagedIndex, the worktree's from FileReader.  *)
(* What a detector says of a content is an attribute of the content: it    *)
(* has a finding at or above the threshold of --fail-on, or it has none.   *)
(***************************************************************************)
EXTENDS StagedIndex

CONSTANT GitIgnore  \* the path that is .gitignore

\* The doctor's read of path p is call p of its reader.
ASSUME PreCommitAssumption == Paths \subseteq Readers /\ GitIgnore \in Paths

VARIABLES
  scope,     \* "staged", or "full"
  tolerant,  \* --no-fail-on-incomplete
  kind,      \* per path: what shouldScanSecrets and the binary rule make of it
  ignored,   \* the paths .toolipignore excludes
  phase,     \* how far runPreCommit has got
  todo,      \* the eligible files the doctor has not come to
  tally,     \* the doctor's counters
  risky,     \* the files with a finding at or above the threshold
  audit,     \* runGitAudit: running, rejected, or where its finding is
  exit       \* the exit code

choiceVars == <<scope, tolerant, kind, ignored>>
verdictVars == <<phase, todo, tally, risky, audit, exit>>
preVars == <<readerVars, indexVars, choiceVars, verdictVars>>

\* other: not eligible; plain: eligible unless binary; named: eligible, a binary
\* too, for its extension or its name.
Kinds == {"other", "plain", "named"}
Undecided == 5

NoTally == [eligible |-> 0, scanned |-> {}, skipped |-> 0, failed |-> 0, cancelled |-> FALSE]

\* One input: the objects that nothing names, and the listing of a full scan,
\* make no difference.
PreInit(objectKinds) ==
  /\ ReaderInit
  /\ scope \in {"staged", "full"} /\ tolerant \in BOOLEAN
  /\ kind \in [Paths -> Kinds] /\ kind[GitIgnore] = "plain"
  /\ ignored \in SUBSET Paths
  /\ listing \in IF scope = "staged" THEN [Paths -> Change] ELSE {[p \in Paths |-> Unstaged]}
  /\ objects \in [Oids -> objectKinds]
  /\ call = IF scope = "staged" THEN "listing" ELSE "idle"
  /\ child = "none" /\ sent = 0 /\ parser = FreshParser
  /\ phase = IF scope = "staged" THEN "listing" ELSE "context"
  /\ todo = {} /\ tally = NoTally /\ risky = {}
  /\ audit = [state |-> "running", file |-> 1] /\ exit = Undecided

-----------------------------------------------------------------------------
(* From the index to the analysis *)

Eligible(files) == {p \in files : kind[p] # "other"}

\* The files the analysis is about.
Files == IF scope = "staged" THEN Entries \ ignored ELSE Paths \ ignored

Reject ==
  /\ phase' = "rejected" /\ exit' = 1
  /\ UNCHANGED <<todo, tally, risky, audit>>

\* The listing has come; the blobs the secret scan will open are asked for.
Listed ==
  /\ phase = "listing"
  /\ \/ call = "rejected" /\ Reject /\ UNCHANGED indexVars
     \/ /\ StartBlobs({listing[p].oid : p \in Eligible(Files)})
        /\ phase' = "blobs"
        /\ UNCHANGED <<todo, tally, risky, audit, exit>>
  /\ UNCHANGED <<readerVars, choiceVars>>

BlobsEnd ==
  /\ phase = "blobs"
  /\ \/ call = "rejected" /\ Reject
     \/ call = "read" /\ phase' = "profile" /\ UNCHANGED <<todo, tally, risky, audit, exit>>
  /\ UNCHANGED <<readerVars, indexVars, choiceVars>>

\* The project profile, or in a full scan the discovery and the profile: a
\* manifest or a path that cannot be read rejects.  Doctor and audit start.
StartAnalysis ==
  /\ phase \in {"profile", "context"}
  /\ \/ Reject
     \/ /\ phase' = "analyzing"
        /\ todo' = Eligible(Files)
        /\ tally' = [NoTally EXCEPT !.eligible = Cardinality(Eligible(Files))]
        /\ UNCHANGED <<risky, audit, exit>>
  /\ UNCHANGED <<readerVars, indexVars, choiceVars>>

-----------------------------------------------------------------------------
(* The doctor's loop over the eligible files *)

Current == Min(todo)

\* A binary that nobody expects to be text is not eligible after all.
Excludable(p, status) == status = "binary" /\ kind[p] = "plain"

\* The file a cancellation came to, and all after it.
LeftOver == Cardinality(todo)

\* What a read of p means for the counters.
Tallied(p, status) ==
  CASE status = "ok" -> [tally EXCEPT !.scanned = @ \cup {p}]
    [] Excludable(p, status) -> [tally EXCEPT !.eligible = @ - 1]
    [] status = "failed" -> [tally EXCEPT !.failed = @ + 1]
    [] status = "cancelled" -> [tally EXCEPT !.skipped = @ + LeftOver, !.cancelled = TRUE]
    [] OTHER -> [tally EXCEPT !.skipped = @ + 1]

DoctorTakes(p, status, finding) ==
  /\ tally' = Tallied(p, status)
  /\ todo' = IF status = "cancelled" THEN {} ELSE todo \ {p}
  /\ risky' = IF status = "ok" /\ finding THEN risky \cup {p} ELSE risky
  /\ UNCHANGED <<phase, audit, exit>>

\* The provider of staged content: no blob, no verdict.
DoctorStaged ==
  /\ scope = "staged" /\ phase = "analyzing" /\ todo # {}
  /\ LET oid == listing[Current].oid
         result == parser.results[oid] IN
     IF result.status = "none" THEN Reject
     ELSE DoctorTakes(Current, result.status, objects[oid].risky)
  /\ UNCHANGED <<readerVars, indexVars, choiceVars>>

DoctorAsks ==
  /\ scope = "full" /\ phase = "analyzing" /\ todo # {}
  /\ Begin(Current, Current, TRUE)
  /\ UNCHANGED <<indexVars, choiceVars, verdictVars>>

DoctorReads ==
  /\ scope = "full" /\ phase = "analyzing" /\ todo # {} /\ reads[Current].at = "done"
  /\ \/ reads[Current].status = "rejected" /\ Reject
     \/ /\ reads[Current].status # "rejected"
        /\ \E finding \in BOOLEAN : DoctorTakes(Current, reads[Current].status, finding)
  /\ UNCHANGED <<readerVars, indexVars, choiceVars>>

-----------------------------------------------------------------------------
(* The git audit, and the verdict *)

\* A finding on a file, or one about .gitignore as a whole, or none.
AuditEnds ==
  /\ phase = "analyzing" /\ audit.state = "running"
  /\ \/ audit' \in [state : {"rejected", "clean", "unlocated"}, file : {1}]
     \/ audit' \in [state : {"located"}, file : Paths]
  /\ UNCHANGED <<readerVars, indexVars, choiceVars, phase, todo, tally, risky, exit>>

\* Promise.all: the first rejection is the result.
AuditRejects ==
  /\ phase = "analyzing" /\ audit.state = "rejected"
  /\ Reject
  /\ UNCHANGED <<readerVars, indexVars, choiceVars>>

\* Mutant: the audit's findings are kept whatever is staged.
AnyAuditFinding == audit.state \in {"located", "unlocated"}
\* findingAppliesToStagedScope, for the audit's finding.
AuditBlocks ==
  \/ audit.state = "located" /\ (scope = "full" \/ audit.file \in Files)
  \/ audit.state = "unlocated" /\ (scope = "full" \/ GitIgnore \in Files)

Coverage(t) ==
  LET unexamined == t.skipped + t.failed IN
  IF t.eligible > 0 /\ t.scanned = {} /\ unexamined > 0 THEN "failed"
  ELSE IF unexamined > 0 \/ t.cancelled THEN "partial" ELSE "complete"

\* Mutant: staged scans may opt out too.
OptOut == ~tolerant
FailOnIncomplete == scope = "staged" \/ ~tolerant

IncompleteBlocks(state) == state = "failed" \/ (state = "partial" /\ FailOnIncomplete)

\* The command: the highest failure code wins.
ExitCode(state, blocking) ==
  IF state = "failed" THEN 4
  ELSE IF state = "partial" /\ FailOnIncomplete THEN 3
  ELSE IF blocking THEN 1 ELSE 0

Verdict ==
  /\ phase = "analyzing" /\ todo = {}
  /\ audit.state \notin {"running", "rejected"}
  /\ phase' = "done"
  /\ LET blocking == risky # {} \/ AuditBlocks
         passed == ~blocking /\ ~IncompleteBlocks(Coverage(tally)) IN
     exit' = IF passed THEN 0 ELSE ExitCode(Coverage(tally), blocking)
  /\ UNCHANGED <<readerVars, indexVars, choiceVars, todo, tally, risky, audit>>

-----------------------------------------------------------------------------
Ended == phase \in {"done", "rejected"}

\* The files are the worktree's, and the reader the full scan's.
PreDiskStep == scope = "full" /\ ~Ended /\ DiskStep /\ UNCHANGED <<indexVars, choiceVars, verdictVars>>
PreReadStep == scope = "full" /\ (\E p \in Paths : ReadStep(p)) /\ UNCHANGED <<indexVars, choiceVars, verdictVars>>

\* The caller's signal reaches the reader and readBlobs at once.
PreAbort ==
  /\ ~Ended /\ AbortReads /\ AbortBlobs
  /\ UNCHANGED <<listing, objects, child, sent, choiceVars, verdictVars>>

PreIndexStep == IndexStep /\ UNCHANGED <<readerVars, choiceVars, verdictVars>>

PreProgress ==
  \/ PreIndexStep \/ Listed \/ BlobsEnd \/ StartAnalysis
  \/ DoctorStaged \/ DoctorAsks \/ PreReadStep \/ DoctorReads
  \/ AuditEnds \/ AuditRejects \/ Verdict

PreNext == PreProgress \/ PreDiskStep \/ PreAbort

PreSpec == PreInit(Object) /\ [][PreNext]_preVars

-----------------------------------------------------------------------------
(* Properties *)

\* What really was examined, whatever the counters say.  A staged file counts as
\* examined when the content that will be committed was.  A binary that nobody
\* expects to be text is one in the index, or one that the reader found in full.
Examined(p) ==
  /\ p \in tally.scanned
  /\ scope = "staged" => parser.results[listing[p].oid].content = Body(listing[p].oid)
Benign(p) ==
  /\ kind[p] = "plain"
  /\ IF scope = "staged" THEN objects[listing[p].oid].binary
     ELSE reads[p].at = "done" /\ reads[p].status = "binary"
Unexamined == {p \in Eligible(Files) : ~Examined(p)}

\* "Any failure to read the index rejects (the hook fails closed)"
\* (pre-commit.ts:57), "A partial scan is not an all-clear" and "A scan in which
\* no eligible input could be examined (failed) always blocks"
\* (pre-commit.ts:193-204): git is told to go on only when each eligible file was
\* examined, binaries nobody expects to be text aside, and had nothing at or
\* above the threshold; only a full scan may leave files out, and not all.
VerdictHonest ==
  /\ exit = 0 =>
       /\ phase = "done" /\ risky = {}
       /\ scope = "staged" =>
            \A p \in Eligible(Files) : Benign(p) \/ (Examined(p) /\ ~objects[listing[p].oid].risky)
       /\ Unexamined # {} =>
            \/ \A p \in Unexamined : Benign(p)
            \/ scope = "full" /\ tolerant /\ tally.scanned # {}
  /\ phase = "done" /\ (\E p \in Unexamined : ~Benign(p)) =>
       /\ scope = "staged" \/ ~tolerant => exit >= 3
       /\ tally.scanned = {} => exit = 4

\* An audit finding blocks a staged commit only when the commit is about it: the
\* file it is on, or .gitignore, is staged (findingAppliesToStagedScope).
OthersFindingsDoNotBlock ==
  phase = "done" /\ scope = "staged" /\ exit = 1 =>
    \/ risky # {}
    \/ audit.state = "located" /\ audit.file \in Entries
    \/ audit.state = "unlocated" /\ GitIgnore \in Entries

\* The hook answers: whatever git, the files and the signal do.
HookAnswers == phase # "done" ~> Ended
=============================================================================
