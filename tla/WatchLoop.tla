----------------------------- MODULE WatchLoop -----------------------------
(***************************************************************************)
(* toolip watch: the command (src/src/commands/watch.ts) runs one pass     *)
(* over the project and then watchProject (core/watch/watch.ts), which     *)
(* debounces file system events and runs further passes, one at a time,    *)
(* until it is closed.                                                     *)
(*                                                                         *)
(* A pass reads the files one after another, in no order of its own, so a  *)
(* change during a pass may or may not be in it.  The file system reports  *)
(* a change some time after it happened, to a watcher that was there when  *)
(* it happened.  The debounce is a timer: no clock is kept, it may fire at *)
(* any moment while it is armed.                                           *)
(***************************************************************************)
EXTENDS Naturals, FiniteSets

CONSTANTS
  File,       \* the project's files
  Ignored,    \* those whose paths match an ignored pattern
  MaxChanges  \* bound: changes of one file

ASSUME WatchAssumption == Ignored \subseteq File /\ MaxChanges \in Nat

VARIABLES
  version,   \* per file: how often it has changed
  read,      \* per file: the version the latest pass that read it has seen
  events,    \* the files whose changes are reported but not delivered
  watching,  \* the watcher is registered
  timer,     \* the debounce timer is armed
  running,   \* watchProject's flag
  queued,    \* watchProject's flag
  closed,    \* watchProject's flag, or the command has failed
  passes,    \* the number of passes in progress
  toRead,    \* the files the pass in progress has still to read
  failing,   \* history variable: the last pass to end has failed
  watched    \* history variable: files that changed while the watcher was registered

flags == <<watching, timer, running, queued, closed>>
history == <<failing, watched>>
watchVars == <<version, read, events, flags, passes, toRead, history>>

WatchTypeOK ==
  /\ version \in [File -> 0..MaxChanges]
  /\ read \in [File -> 0..MaxChanges]
  /\ events \subseteq File
  /\ watching \in BOOLEAN /\ timer \in BOOLEAN /\ running \in BOOLEAN
  /\ queued \in BOOLEAN /\ closed \in BOOLEAN /\ failing \in BOOLEAN
  /\ passes \in 0..1
  /\ toRead \subseteq File
  /\ watched \subseteq File

\* The command's first pass has started.
WatchInit ==
  /\ version = [f \in File |-> 0]
  /\ read = [f \in File |-> 0]
  /\ events = {}
  /\ watching = FALSE /\ timer = FALSE /\ running = FALSE
  /\ queued = FALSE /\ closed = FALSE
  /\ passes = 1 /\ toRead = File
  /\ failing = FALSE /\ watched = {}

-----------------------------------------------------------------------------
(* The project *)

\* Somebody writes a file; the registered watcher will be told.
Change(f) ==
  /\ version[f] < MaxChanges
  /\ version' = [version EXCEPT ![f] = @ + 1]
  /\ IF watching /\ ~closed
     THEN events' = events \cup {f} /\ watched' = watched \cup {f}
     ELSE UNCHANGED <<events, watched>>
  /\ UNCHANGED <<read, flags, passes, toRead, failing>>

-----------------------------------------------------------------------------
(* The passes *)

Read(f) ==
  /\ f \in toRead
  /\ read' = [read EXCEPT ![f] = version[f]]
  /\ toRead' = toRead \ {f}
  /\ UNCHANGED <<version, events, flags, passes, history>>

\* A pass ends when everything is read, or fails on the way.
Ends(ok) ==
  /\ passes > 0
  /\ ok => toRead = {}
  /\ failing' = ~ok

\* The first pass is over: the command registers the watcher, or fails with it.
FirstPassEnds(ok) ==
  /\ ~watching /\ ~closed /\ Ends(ok)
  /\ passes' = passes - 1 /\ toRead' = {}
  /\ watching' = ok /\ closed' = ~ok
  /\ UNCHANGED <<version, read, events, timer, running, queued, watched>>

\* Mutant: the queued follow-up is never started.
NeverFollows == FALSE

\* A follow-up was queued while the pass was running.
Follows == queued /\ ~closed

\* The finally block of run: a queued follow-up starts in the same turn.
PassEnds(ok) ==
  /\ watching /\ running /\ Ends(ok)
  /\ \/ /\ Follows
        /\ queued' = FALSE /\ toRead' = File
        /\ UNCHANGED <<running, passes>>
     \/ /\ ~Follows
        /\ running' = FALSE /\ passes' = passes - 1 /\ toRead' = {}
        /\ UNCHANGED queued
  /\ UNCHANGED <<version, read, events, watching, timer, closed, watched>>

-----------------------------------------------------------------------------
(* watchProject *)

\* schedule: arms the timer anew unless the path is ignored.
Deliver(f) ==
  /\ f \in events
  /\ events' = events \ {f}
  /\ timer' = (timer \/ (~closed /\ f \notin Ignored))
  /\ UNCHANGED <<version, read, watching, running, queued, closed, passes, toRead,
                 history>>

\* Mutant: a pass starts whether or not one is running.
AlwaysIdle == TRUE
Idle == ~running

\* Mutant: a change during a pass is not queued.
Drop == UNCHANGED queued
Queue == queued' = TRUE

\* The timer fires: run starts a pass, or queues one behind the pass in progress.
\* An armed timer implies that nothing is closed, since close clears it.
TimerFires ==
  /\ timer /\ ~closed
  /\ timer' = FALSE
  /\ \/ ~Idle /\ Queue /\ UNCHANGED <<running, passes, toRead>>
     \/ /\ Idle
        /\ running' = TRUE /\ passes' = passes + 1 /\ toRead' = File
        /\ UNCHANGED queued
  /\ UNCHANGED <<version, read, events, watching, closed, history>>

\* close: the pass in progress, if any, runs on.
Close ==
  /\ watching /\ ~closed
  /\ closed' = TRUE /\ queued' = FALSE /\ timer' = FALSE
  /\ events' = {}
  /\ UNCHANGED <<version, read, watching, running, passes, toRead, history>>

-----------------------------------------------------------------------------
Loop ==
  \/ \E f \in File : Read(f) \/ Deliver(f)
  \/ FirstPassEnds(TRUE) \/ PassEnds(TRUE)
  \/ TimerFires

WatchNext ==
  \/ \E f \in File : Change(f)
  \/ Loop
  \/ FirstPassEnds(FALSE) \/ PassEnds(FALSE)
  \/ Close

WatchSpec == WatchInit /\ [][WatchNext]_watchVars

\* The event loop runs: files are read, events are delivered, and the timer fires
\* once changes pause.  That they do pause is the bound on changes: endless
\* changes postpone the debounced pass forever.
FairWatchSpec == WatchSpec /\ WF_watchVars(Loop)

-----------------------------------------------------------------------------
(* Properties *)

\* "This avoids overlapping full scans" (WATCH.md:15).
PassesDoNotOverlap == passes <= 1

\* The files whose latest change no pass has read.
Stale == {f \in File \ Ignored : read[f] # version[f]}

\* No change is forgotten: whatever interleaving of changes, events, passes and
\* failures, a stale file that changed under the watcher is still to be reported,
\* waits for the timer, for the queued pass or in the pass in progress, unless
\* the last pass has failed and none is running ("while still ensuring the latest change is
\* analyzed", WATCH.md:15).
NoChangeForgotten ==
  \A f \in Stale \cap watched :
    \/ closed \/ (failing /\ ~running)
    \/ f \in events \/ timer \/ (queued /\ running) \/ f \in toRead

\* When the changes pause, every change made under the watcher is analyzed in
\* the end, unless watching is closed or the last pass fails.
ChangesAnalyzed == <>[](closed \/ failing \/ Stale \cap watched = {})

\* "If a change arrives while analysis is already running, Toolip records a
\* queued rerun ... ensuring the latest change is analyzed" (WATCH.md:15), for the
\* first pass as for the others.
LatestChangeAnalyzed == <>[](closed \/ failing \/ Stale = {})
=============================================================================
