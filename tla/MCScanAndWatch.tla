--------------------------- MODULE MCScanAndWatch ---------------------------
(***************************************************************************)
(* The scan and the watch loop, which share no state, checked in one run:  *)
(* each initial state is one of them in its own initial state, with the    *)
(* other at rest, and each has the fairness of its own specification.      *)
(***************************************************************************)
EXTENDS SecurityScan, WatchLoop

VARIABLE subject

\* A scan that has failed in all its parts, and reported it.
NoScan ==
  /\ signal = "live" /\ late = FALSE /\ inputs = "rejected"
  /\ stage = [l \in Lookup |-> "queued"] /\ asked = [l \in Lookup |-> 0]
  /\ said = [l \in Lookup |-> "nothing"] /\ result = [l \in Lookup |-> "none"]
  /\ doctor = "rejected" /\ git = "rejected"
  /\ race = "done" /\ status = "failed" /\ op = "failed" /\ sent = 0
  /\ report = [state |-> "failed", found |-> {}, gated |-> {}, failOnIncomplete |-> TRUE, exit |-> 4]

\* A watch command whose first pass has failed.
NoWatch ==
  /\ version = [f \in File |-> 0] /\ read = [f \in File |-> 0] /\ events = {}
  /\ watching = FALSE /\ timer = FALSE /\ running = FALSE /\ queued = FALSE /\ closed = TRUE
  /\ passes = 0 /\ toRead = {} /\ failing = TRUE /\ watched = {}

\* Only the report reads how the doctor and the audit have settled: they settle
\* last, the doctor first.
OthersSettled == (inputs = "rejected" \/ AllDone) /\ race = "done"
MCDoctorSettles == OthersSettled /\ DoctorSettles
MCGitSettles == OthersSettled /\ doctor # "running" /\ GitSettles
MCScanNext ==
  /\ ScanNext
  /\ doctor' # doctor => OthersSettled
  /\ git' # git => OthersSettled /\ doctor # "running"

MCInit ==
  \/ subject = "scan" /\ ScanInit /\ NoWatch
  \/ subject = "watch" /\ WatchInit /\ NoScan

MCNext ==
  \/ subject = "scan" /\ MCScanNext /\ UNCHANGED <<subject, watchVars>>
  \/ subject = "watch" /\ WatchNext /\ UNCHANGED <<subject, scanVars>>

\* The fairness of FairScanSpec, for the steps as they are taken here, and of
\* FairWatchSpec.
MCFairness ==
  /\ WF_scanVars(Alone(ReadInputs))
  /\ \A l \in Lookup : WF_scanVars(Alone(LookupStep(l)))
  /\ WF_scanVars(MCDoctorSettles) /\ WF_scanVars(MCGitSettles)
  /\ WF_scanVars(Runner)
  /\ WF_scanVars(MakeReport)
  /\ WF_watchVars(Loop)

MCSpec == MCInit /\ [][MCNext]_<<subject, scanVars, watchVars>> /\ MCFairness
=============================================================================
