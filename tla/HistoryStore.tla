--------------------------- MODULE HistoryStore ----------------------------
(***************************************************************************)
(* The history file (src/src/core/history/store.ts): appendHistory and     *)
(* clearHistory as read-modify-write transactions under LocalLock.  The    *)
(* file is replaced by renaming a finished temporary file, so its contents *)
(* change in one step; the temporary file is private to its call and never *)
(* read, and is left out.                                                  *)
(***************************************************************************)
EXTENDS LocalLock, Sequences, Integers

CONSTANTS
  Entry,      \* entry identifiers
  EntryOf,    \* per call: the entry it appends (two calls may retry one entry)
  Clearing,   \* the calls that clear instead
  Earlier,    \* the entries stored before any of these calls
  MaxEntries  \* appendHistory's maxEntries, any integer

ASSUME HistoryAssumption ==
  /\ EntryOf \in [Call -> Entry]
  /\ Clearing \subseteq Call
  /\ Earlier \in Seq(Entry)
  /\ \A i, j \in 1..Len(Earlier) : Earlier[i] = Earlier[j] => i = j
  /\ MaxEntries \in Int

VARIABLES
  history,  \* the entries stored in history.json, oldest first (<<>> if absent)
  staged,   \* per call: the entries in its temporary file
  applied   \* history variable, per call: its effect is in the file's past

storeVars == <<history, staged, applied>>
histVars == <<lockVars, storeVars>>

\* Math.max(1, Math.floor(maxEntries)): a bound below one still keeps an entry.
Kept == IF MaxEntries < 1 THEN 1 ELSE MaxEntries

\* Mutant: the bound is not raised to one, and slice(-0) keeps all.
NewestUnclamped(s) ==
  IF MaxEntries < 1 \/ Len(s) <= Kept THEN s ELSE SubSeq(s, Len(s) - Kept + 1, Len(s))

\* slice(-Kept)
Newest(s) == IF Len(s) <= Kept THEN s ELSE SubSeq(s, Len(s) - Kept + 1, Len(s))

\* Mutant: the newest entry is not compared.
StoredEarlier(e, s) == \E i \in 1..(Len(s) - 1) : s[i] = e
Stored(e, s) == \E i \in 1..Len(s) : s[i] = e

\* Mutant: a clear, too, returns early when it finds the entry.
RetryOfAnyCall(c, s) == Stored(EntryOf[c], s)
IsRetry(c, s) == c \notin Clearing /\ Stored(EntryOf[c], s)

\* What a call leaves of the entries it read: an append of a stored entry is a
\* retry and leaves them alone.
Effect(c, s) ==
  IF c \in Clearing THEN <<>>
  ELSE IF Stored(EntryOf[c], s) THEN s ELSE Newest(Append(s, EntryOf[c]))

HistInit ==
  /\ LockInit
  /\ history = Earlier
  /\ staged = [c \in Call |-> <<>>]
  /\ applied = [c \in Call |-> FALSE]

\* readHistory, then either return (a retry) or fill the temporary file and ask
\* for the commit.  An unreadable or corrupt file, or a full disk, throws.
ReadAndStage(c) ==
  \/ /\ IsRetry(c, history)
     /\ Work(c, "exit")
     /\ applied' = [applied EXCEPT ![c] = TRUE]
     /\ UNCHANGED <<history, staged>>
  \/ /\ ~IsRetry(c, history)
     /\ Work(c, "commit")
     /\ staged' = [staged EXCEPT ![c] = Effect(c, history)]
     /\ UNCHANGED <<history, applied>>
  \/ Work(c, "throw") /\ UNCHANGED storeVars

\* rename(temporary, filePath), with the checks before it and the sync after it.
Replace(c) ==
  \/ /\ \E next \in {"exit", "throw"} : Commit(c, next)
     /\ history' = staged[c]
     /\ applied' = [applied EXCEPT ![c] = TRUE]
     /\ UNCHANGED staged
  \/ Commit(c, "throw") /\ UNCHANGED storeVars

HistStep(c) == ReadAndStage(c) \/ Replace(c)

CallStep(c) == HistStep(c) \/ (Protocol(c) /\ UNCHANGED storeVars)

HistNext == (\E c \in Call : CallStep(c)) \/ (Environment /\ UNCHANGED storeVars)

HistSpec == HistInit /\ [][HistNext]_histVars

\* The event loop of a live process keeps running what it has started; that an
\* acquisition fails is nothing that has to happen.
Runs(c) == CallStep(c) /\ ~(pc[c] \in Waiting /\ AcquireFails(c))
FairHistSpec == HistSpec /\ \A c \in Call : WF_histVars(Runs(c))

-----------------------------------------------------------------------------
(* Properties *)

\* How SerialStore sees a call.
Phase(c) ==
  CASE At(c, "done") -> outcome[c] [] At(c, "dead") -> "dead" [] OTHER -> "open"

Anything(c, s) == TRUE

Serial == INSTANCE SerialStore WITH
  Initial <- Earlier, Allowed <- Anything,
  state <- history, phase <- [c \in Call |-> Phase(c)]

\* Appends and clears of all processes take effect one at a time, each at most
\* once and on the entries the previous one left (HISTORY.md:15).
AppendsAndClearsAreSerial == Serial!SerialSpec

\* A retry never duplicates an entry, even when stalled or racing owners commit
\* stale snapshots (HISTORY.md:15).
NoDuplicates ==
  \A i, j \in 1..Len(history) : history[i] = history[j] => i = j

\* Retention holds after every commit, whatever maxEntries is and whichever
\* stale snapshots are committed (HISTORY.md:15: "Retention is applied after
\* each append").
Retained == Len(history) <= Kept \/ history = Earlier

\* Every replacement of the file applies one call to the entries the file held:
\* "Serializes mutations across processes and validates the current lease
\* before commit" (local-lock.ts:22).
ReplacesCurrent ==
  [][history' # history => \E c \in Call : history' = Effect(c, history)]_histVars
=============================================================================
