--------------------------- MODULE MCRunnerAndHook ---------------------------
(***************************************************************************)
(* The analyzer runner and the pre-commit command, which share no state,   *)
(* checked in one run: each initial state is one of them in its own        *)
(* initial state, with the other at rest, and each has the fairness of its *)
(* own specification.  The inputs of pre-commit are small.                 *)
(***************************************************************************)
EXTENDS AnalyzerRunner, PreCommit

VARIABLE subject

\* A clean, a risky, a binary, an oversized and a missing object.
MCObjects ==
  {[present |-> TRUE, size |-> 2, binary |-> FALSE, risky |-> FALSE],
   [present |-> TRUE, size |-> 1, binary |-> FALSE, risky |-> TRUE],
   [present |-> TRUE, size |-> 1, binary |-> TRUE, risky |-> FALSE],
   [present |-> TRUE, size |-> MaxFileBytes + 1, binary |-> FALSE, risky |-> TRUE],
   [present |-> FALSE, size |-> 0, binary |-> FALSE, risky |-> FALSE]}

\* Objects that nothing names are all alike; a file that a full scan ignores is
\* like one that is not eligible.
Named == {listing[p].oid : p \in Entries}
HookInit ==
  /\ PreInit(MCObjects)
  /\ \A oid \in Oids \ Named : ~objects[oid].present
  /\ inodes[1].size = Max(Sizes) /\ inodes[2].size = Min(Sizes)
  /\ scope = "full" => ignored = {}

\* In a full scan it does not matter which file an audit finding is on, and the
\* file that is left alone is the second one.
HookNext ==
  /\ PreNext
  /\ scope = "full" => audit'.file = 1 /\ node'[2] = 2 /\ inodes'[2] = inodes[2]

-----------------------------------------------------------------------------
\* A run that has returned.
NoRun ==
  /\ cursor = N + 1 /\ at = [l \in Loop |-> N + 1] /\ cancelled = FALSE
  /\ stage = [a \in Analyzer |-> "done"] /\ op = [a \in Analyzer |-> "ok"]
  /\ outcome = [a \in Analyzer |-> "ok"]
  /\ unresponsive = [a \in Analyzer |-> FALSE]
  /\ active = 0 /\ peak = Slots

\* A commit of nothing, let through.
NoHook ==
  /\ inodes = <<>> /\ node = <<>> /\ changes = 0 /\ aborted = FALSE
  /\ filesRead = 0 /\ filesInFlight = 0 /\ bytesRead = 0
  /\ reads = [r \in Readers |-> Unstarted]
  /\ scope = "staged" /\ tolerant = FALSE /\ kind = [p \in Paths |-> "other"] /\ ignored = {}
  /\ listing = [p \in Paths |-> Unstaged] /\ objects = <<>>
  /\ call = "idle" /\ child = "none" /\ sent = 0 /\ parser = FreshParser
  /\ phase = "done" /\ todo = {} /\ tally = NoTally /\ risky = {}
  /\ audit = [state |-> "clean", file |-> 1] /\ exit = 0

MCInit ==
  \/ subject = "runner" /\ Init /\ NoHook
  \/ subject = "hook" /\ HookInit /\ NoRun

MCNext ==
  \/ subject = "runner" /\ Next /\ UNCHANGED <<subject, preVars>>
  \/ subject = "hook" /\ HookNext /\ UNCHANGED <<subject, runnerVars>>

\* The fairness of FairSpec, and of a hook whose git answers or ends.
MCFairness ==
  /\ \A l \in Loop : WF_runnerVars(Scheduler(l))
  /\ \A a \in Analyzer : WF_runnerVars(Runner(a))
  /\ WF_preVars(PreProgress)

MCSpec == MCInit /\ [][MCNext]_<<subject, runnerVars, preVars>> /\ MCFairness
=============================================================================
