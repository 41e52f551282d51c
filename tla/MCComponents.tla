---------------------------- MODULE MCComponents ----------------------------
(***************************************************************************)
(* The components that meet in no state, checked in one run: each initial  *)
(* state is one of them in its own initial state, with the others idle.    *)
(***************************************************************************)
EXTENDS FileReader, HookFile, UpgradeRequest, WatchTree, DependencyGraph,
        GitHistory, MCAnalyzerCommand, TLC

VARIABLE subject

CONSTANTS q1, q2, c1, c2

-----------------------------------------------------------------------------
(* Instances *)

MCFirstTexts ==
  {<<>>, <<"a", "nl">>, <<"sh", "nl", "a", "nl", "nl", "nl", "a", "nl">>,
   <<"py", "nl", "a", "nl">>,
   <<"sh", "nl", "a", "nl">> \o Block \o <<"nl", "a", "nl">>}

\* Three directories, each in the one before, and an ignored one in the root.
MCParentDir ==
  [d \in Dirs \ {Root} |->
     IF d = "deep" THEN "nested" ELSE IF d = "nested" THEN "lib" ELSE "root"]

\* Two packages with a requirement in either direction, either of them nested or
\* not, and a workspace package "w" in directory "W", with a link or without.
Installed(needs) == Entry(TRUE, TRUE, Nowhere, needs, {})
Unversioned(needs) == Entry(FALSE, TRUE, Nowhere, needs, {})
NotThere == Unversioned({})
MCLockfiles ==
  {[path \in {p \in DOMAIN l : l[p] # NotThere} |-> l[path]] : l \in
     {(<<>> :> top) @@ (<<"a">> :> a) @@ (<<"b">> :> b) @@ (<<"a", "b">> :> ab)
        @@ (<<"W">> :> ws) @@ (<<"W", "b">> :> wb) @@ (<<"w">> :> link) :
        top \in {Entry(TRUE, TRUE, Nowhere, r, d) : r \in SUBSET {"a", "b", "w"}, d \in SUBSET {"b"}},
        a \in {Installed(r) : r \in SUBSET {"b"}},
        b \in {NotThere, Unversioned({"a"})} \cup {Installed(r) : r \in SUBSET {"a"}},
        ab \in {NotThere} \cup {Installed(r) : r \in SUBSET {"a"}},
        ws \in {Entry(TRUE, n, Nowhere, r, {"a"}) : n \in BOOLEAN, r \in SUBSET {"a", "b"}}
                 \cup {Unversioned({"b"})},
        wb \in {NotThere, Installed({"a"})},
        link \in {NotThere, Entry(FALSE, TRUE, <<"W">>, {}, {})}}}
MCWorkspaces == {<<"W">>}

MCChanges ==
  {FileChange("f", "plain", <<Hunk(1, 0, <<"text", HeaderText, "text">>, FALSE)>>),
   FileChange("g", "plain", <<Hunk(2, 2, <<"text">>, TRUE), Hunk(7, 1, <<HeaderText>>, FALSE)>>),
   FileChange("g", "plain", <<Hunk(0, 1, <<>>, FALSE)>>),
   FileChange("f", "deleted", <<Hunk(0, 1, <<>>, FALSE)>>),
   FileChange("g", "binary", <<>>),
   FileChange("s", "spaced", <<Hunk(3, 0, <<"text">>, FALSE)>>),
   FileChange("q", "quoted", <<Hunk(1, 0, <<"text">>, FALSE)>>)}
MCCommits == {<<>>} \cup {<<f>> : f \in MCChanges}
  \cup {<<f, g>> : f \in MCChanges, g \in {h \in MCChanges : h.file # "f"}}
MCLogs ==
  {<<newer, older>> : newer \in MCCommits,
     older \in {commit \in MCCommits : Len(commit) = 2 => commit[1].file # commit[2].file}}

-----------------------------------------------------------------------------
(* The sum of the components *)

\* Clones and requests are interchangeable: q1 runs in c1.
StartUpgrade ==
  /\ UpgradeInit
  /\ clone[q1] = c1 /\ lockfiles \in {{}, {"pnpm", "npm"}}

IdleReader ==
  /\ inodes = <<>> /\ node = <<>> /\ changes = 0 /\ aborted = FALSE
  /\ filesRead = 0 /\ filesInFlight = 0 /\ bytesRead = 0
  /\ reads = [r \in Readers |-> Unstarted]
IdleHook ==
  /\ directory = "git" /\ hook = [text |-> <<>>, exec |-> FALSE, own |-> FALSE]
  /\ installs = [i \in Installs |-> [at |-> "idle"]]
  /\ temps = <<>> /\ hookEdits = 0
IdleUpgrade ==
  /\ clone = <<>> /\ lockfiles = {} /\ localRefs = <<>> /\ remoteRefs = <<>>
  /\ worktrees = {} /\ pulls = {} /\ userBranches = 0
  /\ requests = [r \in Requests |-> [at |-> "idle", prCreated |-> FALSE]]
IdleTree ==
  /\ ino = <<>> /\ away = <<>> /\ moves = 0 /\ watchers = <<>> /\ treeEvents = {}
  /\ recovery = FALSE /\ treeClosed = TRUE /\ lost = FALSE /\ returned = {}
IdleHistory ==
  /\ log = <<>> /\ printed = <<>> /\ line = 0 /\ scanner = <<>>
  /\ added = {} /\ gitLog = "idle"
IdleCommand ==
  /\ invocation = <<>> /\ machine = <<>> /\ inputs = <<>> /\ position = 0
  /\ tally = <<>> /\ found = {} /\ examined = {}
  /\ analysis = "idle" /\ outcome = "pending" /\ exitCode = Running

MCInit ==
  /\ subject \in {"reader", "hook", "upgrade", "tree", "graph", "history", "command"}
  /\ IF subject = "reader" THEN ReaderInit ELSE IdleReader
  /\ IF subject = "hook" THEN HookInit ELSE IdleHook
  /\ IF subject = "upgrade" THEN StartUpgrade ELSE IdleUpgrade
  /\ IF subject = "tree" THEN TreeInit ELSE IdleTree
  /\ GraphInit
  /\ IF subject = "history" THEN HistoryInit ELSE IdleHistory
  /\ IF subject = "command" THEN CommandInit ELSE IdleCommand

\* Of the reads, the first knows its file from the discovery.
MCReaderNext ==
  \/ DiskStep \/ AbortReads
  \/ \E r \in Readers : ReadStep(r) \/ Begin(r, 1, r = 1)

MCNext ==
  /\ CASE subject = "reader" -> MCReaderNext
       [] subject = "hook" -> HookNext
       [] subject = "upgrade" -> UpgradeNext
       [] subject = "tree" -> TreeNext
       [] subject = "graph" -> GraphNext
       [] subject = "history" -> HistoryNext
       [] subject = "command" -> CommandNext
  /\ UNCHANGED subject
  /\ subject # "reader" => UNCHANGED readerVars
  /\ subject # "hook" => UNCHANGED hookVars
  /\ subject # "upgrade" => UNCHANGED upgradeVars
  /\ subject # "tree" => UNCHANGED treeVars
  /\ subject # "graph" => UNCHANGED graphVars
  /\ subject # "history" => UNCHANGED historyVars
  /\ subject # "command" => UNCHANGED commandVars

MCVars == <<subject, readerVars, hookVars, upgradeVars, treeVars, graphVars, historyVars, commandVars>>
MCSpec == MCInit /\ [][MCNext]_MCVars
=============================================================================
