------------------------------ MODULE GitHistory ------------------------------
(***************************************************************************)
(* streamGitLog (src/src/analyzers/git-history/analyzer.ts): git log       *)
(* prints patches, and a small line parser finds the lines each commit     *)
(* added, with their file and number, for the secret patterns.             *)
(*                                                                         *)
(* The parser sees text only: an added line can look like a header of the  *)
(* patch.  A commit is the sequence of the files it changes, each with its *)
(* hunks; CommitLines is what git prints.                                  *)
(***************************************************************************)
EXTENDS Integers, Sequences, SequencesExt

CONSTANTS
  Logs,    \* the histories: sequences of commits, in the order git prints them
  NoFile   \* undefined

VARIABLES
  log,      \* the history
  printed,  \* the lines that git prints
  line,     \* the lines consumed so far
  scanner,  \* commit, file, number and inHunk of the parser
  added,    \* the lines reported: [commit, file, number, text]
  gitLog    \* the child process, and the promise: running, killed, resolved, rejected

historyVars == <<log, printed, line, scanner, added, gitLog>>

\* A hunk removes lines from, and adds lines at a number; the file may end
\* without a line break.
Hunk(number, removed, texts, broken) ==
  [number |-> number, removed |-> removed, texts |-> texts, broken |-> broken]
\* How the name of the file appears after the change: as it is, with a TAB behind
\* it because it contains a space, quoted, or not because the file is deleted or
\* binary.
FileChange(file, name, hunks) == [file |-> file, name |-> name, hunks |-> hunks]

Hunks == [number : Nat, removed : Nat, texts : Seq(STRING), broken : BOOLEAN]
Changes == [file : STRING, name : {"plain", "spaced", "quoted", "deleted", "binary"}, hunks : Seq(Hunks)]

\* A deleted file gets no lines, and git shows none of a binary file.
ASSUME HistoryAssumption ==
  \A commits \in Logs :
    /\ commits \in Seq(Seq(Changes))
    /\ \A commit \in ToSet(commits) : \A change \in ToSet(commit) :
         /\ change.name = "binary" => change.hunks = <<>>
         /\ change.name = "deleted" => \A hunk \in ToSet(change.hunks) : hunk.texts = <<>>

\* A text that makes an added line look like the header of a file.
HeaderText == "++ b/other"

-----------------------------------------------------------------------------
(* What git prints *)

Line(kind, value) == [kind |-> kind, value |-> value]
Repeat(item, n) == [k \in 1..n |-> item]

HunkLines(hunk) ==
  <<Line("hunk", hunk.number)>>
    \o Repeat(Line("minus", "none"), hunk.removed)
    \o [k \in DOMAIN hunk.texts |-> Line("plus", hunk.texts[k])]
    \o (IF hunk.broken THEN <<Line("backslash", "none")>> ELSE <<>>)

\* The name of a file, and the TAB that git puts behind one with a space.
Tabbed(file) == file \o "_TAB"
PrintedName(change) == IF change.name = "spaced" THEN Tabbed(change.file) ELSE change.file

\* "--- a/file" starts like a removed line; a quoted name is a line of no kind.
Header(change) ==
  CASE change.name \in {"plain", "spaced"} -> <<Line("minus", "none"), Line("file", PrintedName(change))>>
    [] change.name = "quoted" -> <<Line("minus", "none"), Line("other", "quoted")>>
    [] change.name = "deleted" -> <<Line("minus", "none"), Line("null", "none")>>
    [] change.name = "binary" -> <<Line("other", "binary")>>

ChangeLines(change) ==
  <<Line("other", "diff")>> \o Header(change)
    \o FlattenSeq([k \in DOMAIN change.hunks |-> HunkLines(change.hunks[k])])

CommitLines(commit) ==
  <<Line("commit", "none")>> \o FlattenSeq([k \in DOMAIN commit |-> ChangeLines(commit[k])])
    \o <<Line("other", "none")>>

Lines(commits) == FlattenSeq([n \in DOMAIN commits |-> CommitLines(commits[n])])

HistoryInit ==
  /\ log \in Logs /\ printed = Lines(log)
  /\ line = 0
  /\ scanner = [commit |-> 0, file |-> NoFile, number |-> 0, inHunk |-> FALSE]
  /\ added = {} /\ gitLog = "running"

-----------------------------------------------------------------------------
(* The parser *)

StartsFile(l) == l.kind = "file" \/ (l.kind = "plus" /\ l.value = HeaderText)

\* Mutant: a header is one wherever it appears.
HeaderAnywhere(l) == StartsFile(l)
FileHeader(l) == ~scanner.inHunk /\ StartsFile(l)

\* What starts with a plus, in a hunk.
AddedLine(l) == l.kind \in {"plus", "file", "null"}

Report(l) ==
  added \cup {[commit |-> scanner.commit, file |-> scanner.file,
               number |-> scanner.number, text |-> l.value]}

\* consume, for the next line.
Consume ==
  LET l == printed[line + 1]
      parsed(next, reported) == scanner' = next /\ added' = reported IN
  /\ gitLog \in {"running", "killed"} /\ line < Len(printed)
  /\ line' = line + 1
  /\ CASE l.kind = "commit" ->
            parsed([scanner EXCEPT !.commit = @ + 1, !.file = NoFile, !.inHunk = FALSE], added)
       [] FileHeader(l) ->
            parsed([scanner EXCEPT !.file = IF l.kind = "file" THEN l.value ELSE "other"], added)
       [] ~scanner.inHunk /\ l.kind = "null" ->
            parsed([scanner EXCEPT !.file = NoFile], added)
       [] l.kind = "hunk" ->
            parsed([scanner EXCEPT !.number = l.value, !.inHunk = TRUE], added)
       [] scanner.inHunk /\ AddedLine(l) /\ ~FileHeader(l) ->
            parsed([scanner EXCEPT !.number = @ + 1], Report(l))
       [] l.kind \in {"minus", "backslash"} ->
            UNCHANGED <<scanner, added>>
       [] OTHER ->
            parsed([scanner EXCEPT !.inHunk = FALSE], added)
  /\ UNCHANGED <<log, printed, gitLog>>

\* The signal: git is told to end, what it has printed may still come.
KillGit ==
  /\ gitLog = "running"
  /\ gitLog' = "killed"
  /\ UNCHANGED <<log, printed, line, scanner, added>>

\* git has ended: by itself after the last line, with an error, or killed.
GitEnds ==
  /\ \/ gitLog = "running" /\ line = Len(printed) /\ gitLog' = "resolved"
     \/ gitLog \in {"running", "killed"} /\ gitLog' = "rejected"
  /\ UNCHANGED <<log, printed, line, scanner, added>>

HistoryNext == Consume \/ KillGit \/ GitEnds

HistorySpec == HistoryInit /\ [][HistoryNext]_historyVars

-----------------------------------------------------------------------------
(* Properties *)

\* The lines a change adds, with the numbers they have in the new file and its
\* name as git prints it.
AddedBy(n, change) ==
  UNION {{[commit |-> n, file |-> PrintedName(change), number |-> hunk.number + k - 1, text |-> hunk.texts[k]] :
            k \in DOMAIN hunk.texts} : hunk \in ToSet(change.hunks)}

\* "Streams added patch lines while retaining their post-change line numbers"
\* (git-history/analyzer.ts:29): a history that is reported as scanned has each
\* line its commits added, under its number, and no other, and under its file if
\* the file's name has no space and needs no quotes.  A name with a space keeps
\* the TAB git puts behind it (analyzer.ts:81), so its lines are under a name the
\* file does not have; those of a quoted name are under another file's, or none.
AddedLinesExact ==
  gitLog = "resolved" =>
    LET addedTo(names) ==
          UNION {UNION {AddedBy(n, change) : change \in {c \in ToSet(log[n]) : c.name \in names}} :
                   n \in DOMAIN log}
        unnamed(lines) == {[l EXCEPT !.file = NoFile] : l \in lines} IN
    /\ addedTo({"plain", "spaced"}) \subseteq added
    /\ unnamed(added) = unnamed(addedTo({"plain", "spaced", "quoted"}))
=============================================================================
