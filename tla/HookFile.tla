------------------------------ MODULE HookFile ------------------------------
(***************************************************************************)
(* installPreCommitHookDetailed (src/src/core/hooks.ts): the managed block *)
(* is put into Git's pre-commit hook, a file that its user edits too.  The *)
(* hook is read, and replaced later by a rename; several installs may run  *)
(* at once, and each may fail or die between any two of its accesses.      *)
(*                                                                         *)
(* A text is a sequence of "nl" (a line break), "sh" and "py" (shebang     *)
(* lines of a shell and of another interpreter), the three parts of the    *)
(* managed block, and "a", what the user wrote.                            *)
(***************************************************************************)
EXTENDS Integers, Sequences, SequencesExt

CONSTANTS
  Installs,      \* installs, each in a process of its own
  FirstTexts,    \* the hook's text before the first install; <<>>: there is no hook
  MaxHookEdits   \* bound: edits made by the user

Tokens == {"nl", "sh", "py", "start", "check", "end", "a"}

\* Of two tokens in a row one is a line break: the others are whole lines.
Lined(text) == \A n \in DOMAIN text : n > 1 => "nl" \in {text[n - 1], text[n]}

ASSUME HookAssumption == \A text \in FirstTexts : text \in Seq(Tokens) /\ Lined(text)

VARIABLES
  directory,  \* what resolveHooksDir finds
  hook,       \* the hook file; own: an install has put it there, unedited since
  temps,      \* per install, its temporary file: <<>> when there is none
  installs,   \* per install: how far it is, and the hook it has read; edited:
              \* the user has edited it since (or one that lost an edit replaced it)
  hookEdits   \* the edits made so far

hookVars == <<directory, hook, temps, installs, hookEdits>>

Directories == {"git", "husky", "husky-broken", "unknown"}
Block == <<"start", "nl", "check", "nl", "end">>

HookInit ==
  /\ directory \in Directories
  /\ \E text \in FirstTexts, exec \in BOOLEAN :
       hook = [text |-> text, exec |-> exec, own |-> FALSE]
  /\ temps = [i \in Installs |-> <<>>]
  /\ installs = [i \in Installs |-> [at |-> "resolve", text |-> <<>>, edited |-> FALSE]]
  /\ hookEdits = 0

-----------------------------------------------------------------------------
(* The text *)

Positions(text, token) == {n \in DOMAIN text : text[n] = token}

NonShell(text) == text # <<>> /\ text[1] = "py"

Corrupt(text) ==
  LET starts == Positions(text, "start")
      ends == Positions(text, "end") IN
  \/ Cardinality(starts) # Cardinality(ends)
  \/ Cardinality(starts) > 1
  \/ Cardinality(starts) = 1 /\ Min(ends) < Min(starts)

\* The tokens at these places, in their order.
TokensAt(text, places) ==
  LET upto[n \in 0..Len(text)] ==
        IF n = 0 THEN <<>>
        ELSE IF n \in places THEN Append(upto[n - 1], text[n]) ELSE upto[n - 1] IN
  upto[Len(text)]

\* Three line breaks and more become two, wherever in the text they are.
Collapsed(text) ==
  TokensAt(text, {n \in DOMAIN text : n < 3 \/ \E m \in (n - 2)..n : text[m] # "nl"})

\* Mutant: everything from the start of the block is removed.
CutFromStart(text) == SubSeq(text, 1, Min(Positions(text, "start")) - 1)
CutBlock(text) ==
  SubSeq(text, 1, Min(Positions(text, "start")) - 1)
    \o SubSeq(text, Min(Positions(text, "end")) + 1, Len(text))

WithoutBlock(text) ==
  IF Positions(text, "start") = {} THEN text ELSE Collapsed(CutBlock(text))

\* The body, without the line breaks around it.
Trimmed(text) ==
  LET kept == DOMAIN text \ Positions(text, "nl") IN
  IF kept = {} THEN <<>> ELSE SubSeq(text, Min(kept), Max(kept))

\* The length of the shebang line, 0 when there is none.
ShebangLength(text) ==
  IF text = <<>> \/ text[1] \notin {"sh", "py"} THEN 0
  ELSE Min(Positions(text, "nl") \cup {Len(text) + 1}) - 1

\* Mutant: the block goes to the end of the hook.
PlacedLast(text) ==
  LET kept == WithoutBlock(text) IN
  (IF ShebangLength(kept) = 0 THEN <<"sh", "nl">> ELSE <<>>)
    \o Trimmed(kept) \o <<"nl">> \o Block \o <<"nl">>
\* placeManagedBlock: the block comes right after the shebang.
Placed(text) ==
  LET kept == WithoutBlock(text)
      shebang == ShebangLength(kept)
      body == Trimmed(SubSeq(kept, shebang + 1, Len(kept))) IN
  (IF shebang = 0 THEN <<"sh">> ELSE SubSeq(kept, 1, shebang))
    \o <<"nl">> \o Block \o <<"nl">>
    \o (IF body = <<>> THEN <<>> ELSE <<"nl">> \o body \o <<"nl">>)

-----------------------------------------------------------------------------
(* The user *)

EditHook(text, exec) ==
  /\ hookEdits < MaxHookEdits
  /\ hook' = [text |-> text, exec |-> exec, own |-> FALSE]
  /\ installs' = [i \in Installs |-> [installs[i] EXCEPT !.edited = TRUE]]
  /\ hookEdits' = hookEdits + 1
  /\ UNCHANGED <<directory, temps>>

\* What is on a line, or an empty line, is deleted, an empty line or a line is put
\* in, the hook is removed or no longer executable.
UserEdits ==
  \/ \E n \in DOMAIN hook.text :
       /\ hook.text[n] = "nl" => n - 1 \in Positions(hook.text, "nl") \cup {0}
       /\ EditHook(RemoveAt(hook.text, n), hook.exec)
  \/ \E n \in 1..(Len(hook.text) + 1) :
       \/ EditHook(InsertAt(hook.text, n, "nl"), hook.exec)
       \/ /\ n - 1 \in Positions(hook.text, "nl") \cup {0}
          /\ EditHook(InsertAt(InsertAt(hook.text, n, "nl"), n, "a"), hook.exec)
  \/ hook.text # <<>> /\ (EditHook(<<>>, FALSE) \/ EditHook(hook.text, FALSE))

-----------------------------------------------------------------------------
(* installPreCommitHookDetailed *)

Step(i, from, to) ==
  /\ installs[i].at = from
  /\ installs' = [installs EXCEPT ![i].at = to]

\* Git names the directory; Husky's must have a dispatcher that can run.
ResolveHooksDir(i) ==
  /\ Step(i, "resolve", IF directory \in {"git", "husky"} THEN "read" ELSE "failed")
  /\ UNCHANGED <<directory, hook, temps, hookEdits>>

\* mkdir, readFile and stat, and the checks of what was read.
ReadHook(i) ==
  /\ installs[i].at = "read"
  /\ installs' = [installs EXCEPT ![i] =
       IF NonShell(hook.text) \/ Corrupt(hook.text)
       THEN [@ EXCEPT !.at = "failed"]
       ELSE [at |-> "write", text |-> hook.text, edited |-> FALSE]]
  /\ UNCHANGED <<directory, hook, temps, hookEdits>>

\* The write of the temporary file ends, or stops half-way.
WriteTemp(i) ==
  /\ \/ /\ Step(i, "write", "chmod")
        /\ temps' = [temps EXCEPT ![i] = Placed(installs[i].text)]
     \/ /\ Step(i, "write", "remove")
        /\ \E n \in {0, 2} : temps' = [temps EXCEPT ![i] = SubSeq(Placed(installs[i].text), 1, n)]
  /\ UNCHANGED <<directory, hook, hookEdits>>

Chmod(i) ==
  /\ Step(i, "chmod", "rename")
  /\ UNCHANGED <<directory, hook, temps, hookEdits>>

Mode(i) == TRUE  \* mode | 0o111

RenameTemp(i) ==
  /\ installs[i].at = "rename"
  /\ installs' = [j \in Installs |->
       IF j = i THEN [installs[i] EXCEPT !.at = "installed"]
       ELSE [installs[j] EXCEPT !.edited = @ \/ installs[i].edited]]
  /\ hook' = [text |-> temps[i], exec |-> Mode(i), own |-> TRUE]
  /\ temps' = [temps EXCEPT ![i] = <<>>]
  /\ UNCHANGED <<directory, hookEdits>>

\* An access fails; what was written is removed.
AccessFails(i) ==
  /\ \/ installs[i].at \in {"resolve", "read"} /\ Step(i, installs[i].at, "failed")
     \/ installs[i].at \in {"chmod", "rename"} /\ Step(i, installs[i].at, "remove")
  /\ UNCHANGED <<directory, hook, temps, hookEdits>>

RemoveTemp(i) ==
  /\ Step(i, "remove", "failed")
  /\ temps' = [temps EXCEPT ![i] = <<>>]
  /\ UNCHANGED <<directory, hook, hookEdits>>

Dies(i) ==
  /\ installs[i].at \notin {"installed", "failed", "dead"}
  /\ Step(i, installs[i].at, "dead")
  /\ UNCHANGED <<directory, hook, temps, hookEdits>>

InstallStep(i) ==
  \/ ResolveHooksDir(i) \/ ReadHook(i) \/ WriteTemp(i) \/ Chmod(i)
  \/ RenameTemp(i) \/ AccessFails(i) \/ RemoveTemp(i) \/ Dies(i)

HookNext == UserEdits \/ \E i \in Installs : InstallStep(i)

HookSpec == HookInit /\ [][HookNext]_hookVars

-----------------------------------------------------------------------------
(* Properties *)

LinesOf(text) == TokensAt(text, DOMAIN text \ Positions(text, "nl"))

\* The user's own part: the lines outside of the block, with the shebang.
Own(text) == LinesOf(IF Corrupt(text) THEN text ELSE WithoutBlock(text))

\* "Installs (or updates) exactly one Toolip block ... placed immediately after
\* the shebang" (hooks.ts:51): a hook that an install has put in place, and that
\* nobody has edited since, is executable and starts with a shell's shebang and
\* the whole block, whatever was edited, and failed or died, before.
InstalledHookRuns ==
  hook.own =>
    /\ hook.exec /\ directory \in {"git", "husky"}
    /\ IsPrefix(<<"sh", "nl">> \o Block, hook.text)
    /\ Cardinality(Positions(hook.text, "start")) = 1

\* "User content is preserved" (hooks.ts:57): an install that replaces the hook
\* keeps every line the user had in it, in their order, unless the hook was
\* edited between its read and its rename (that edit is lost).
UserTextKept ==
  [][\A i \in Installs :
       RenameTemp(i) /\ ~installs[i].edited =>
         LET before == Own(hook.text) IN
         Own(hook'.text) \in {before, <<"sh">> \o before}]_hookVars
=============================================================================
