# A TLA+ verification project for toolip

`toolip` is a command line security scanner for npm projects. Most of its code
is pattern matching; the part that is hard to get right is the machinery around
it: a lease that serializes several CLI processes on one state directory, a
runner that bounds analyzers which may never answer, a scan budget that ends
requests to a registry that may never answer either, a watch loop that must not
lose a change, a pre-commit hook that must not pass what it has not read, reads
of files that change meanwhile, an upgrade that must clean up after itself
wherever it fails, and exit codes that must tell an incomplete analysis from a
clean one. This project models that machinery in TLA+, checks it with
TLC on small instances and proves the central results with TLAPS for every
value of the constants. Paths below are relative to the repository's `src/`.

## The system and its parts

| Component | State it keeps | Operations | What makes it correct |
|---|---|---|---|
| local state lease, `core/local-lock.ts` | a lock directory, one owner marker per call, proper-lockfile's lease records | `withLocalStateLock`: acquire, identify, mark, sweep, restrict, guard three times, commit, release | mutual exclusion while owners keep their lease fresh; a swept owner never commits; no lease is stranded; every call ends |
| history, `core/history/store.ts` | `history.json` | append, clear (under the lease), read | each append and clear applied once to what the previous one left; retries do not duplicate; retention |
| vault, `core/vault.ts` | the encrypted vault file | init, set, delete, destroy (under the lease), unlocked readers | as for the history; init never overwrites, and no call rewrites what it cannot decrypt |
| analyzer runner, `application/analyzer-runner.ts`, `application/concurrency.ts` | slots in use, peak, per-analyzer results | `run`, in-process and isolated execution | exact slot accounting; one result per analyzer; nothing starts after a cancel; `run` returns |
| scan budget and registry lookups, `core/scan-budget.ts`, `core/npm-registry.ts`, `core/dependency-scan.ts` | the budget's abort signal and deadline, lookups in progress | `withBudget` with retries, `scanDependencies`, `coverageOf` | a failure is called what it was; incomplete is never complete; nothing is asked after the abort |
| scorecard and `toolip scan`, `application/security-scorecard.ts`, `application/analysis-status.ts`, `commands/scan.ts` | four settled parts, dimensions, state, exit code | `buildSecurityScorecard`, `decideExit` | an incomplete scan does not exit as a clean one; findings survive failures elsewhere; the scan reports |
| OSV analysis, `analyzers/vulnerability/osv-analyzer.ts`, `providers/osv/client.ts` | batches sent | `analyze`, `queryBatch` | ends with the scan |
| watch mode, `core/watch/watch.ts`, `commands/watch.ts` | debounce timer, `running`, `queued`, `closed`; a watcher per directory | `run`, `schedule`, close; `watchDirectoryTree` with reconciliation and recovery | passes do not overlap; no change is forgotten; every directory that is there is watched |
| staged index and pre-commit, `core/git/staged-index.ts`, `core/pre-commit.ts`, `core/security-doctor.ts` | a git child's stream, its parser, the doctor's counters | `listStagedEntries`, `readBlobs`, `runPreCommit`, the command's verdict | contents exact however the stream is cut; a staged file that was not examined blocks the commit; no child outlives the call |
| file reader, `core/text-file-reader.ts` | budget of files and bytes, reads in flight | `read` | the budget is kept and exact; a successful read is of one version |
| git hooks, `core/hooks.ts` | the pre-commit hook file | install | an installed hook runs; the user's text is kept |
| upgrade pull requests, `core/github/upgrade-pr.ts` | branch, worktree, pushed branch, pull request | `createUpgradePullRequest` with its cleanup | nothing stranded; a reported pull request keeps its branch |
| dependency inventory, tree, SBOM, `core/dependencies/inventory.ts`, `core/dependency-tree.ts`, `core/sbom/generate.ts` | packages, edges, directness | `readNpmDependencyGraph`, the tree, the documents | the edges are the ones Node follows; tree and SBOM agree |
| git history analyzer, `analyzers/git-history/analyzer.ts` | the patch parser's file and line number | `streamGitLog` | each added line under its file and number |
| analyzer commands, seven files of `commands/`, `application/analysis-status.ts`, the static analyzers' loops | counters, findings, an outcome | one command: options, run, coverage, gate, exit code | the exit code is true of what was examined |

Adapters, pure functions and formatting are listed in `PROJECT.json` with the
status `not_modelled`; see below.

How they interact. The stores call the lease and pass it their operation; the
operation calls back `assertOwned` before its rename. The scorecard creates one
budget, hands its signal to the lookups and the doctor and, through
`AnalyzerRunner`, to the OSV analyzer, and awaits all of them with
`Promise.allSettled`. The watch loop calls the doctor. The pre-commit command
calls the listing, feeds the doctor's file loop from `readBlobs`, or with `--full`
from the file reader, and adds the git audit. The analyzer commands call one
analyzer each through `AnalyzerRunner`. Processes share only the
files below the state directory, the hook file and the repository with its
origin, so concurrency between processes matters for the lease, the history, the
vault, the hook and the upgrades; the file system is shared with the user, who
changes what is being read or watched. Everything else is asynchronous code in
one event loop, where a step of a model is what runs between two awaits.

Hard behaviours: a process that stalls past its lease or dies between two file
system accesses; takeovers that race; inode numbers that are reused; retries of
what was already done; answers that come after a deadline, a cancellation or a
grace period; parts that fail independently; changes that arrive during a pass;
a stream that is cut anywhere; a file that is replaced between its check and its
use; a command that did its work and whose answer is lost.
`PROJECT.json` lists them as hazards, each at its line.

## Modules

| Module | Models | Notes |
|---|---|---|
| `LocalLock` | `withLocalStateLock` | one action per file system access; the environment (`Heartbeat`, `LeaseExpires`, `Crash`, `ProcessExit`) and proper-lockfile's takeover are external |
| `SerialStore` | what the documents promise of the stored state | abstract: each call takes effect at most once, between its start and its end |
| `HistoryStore`, `VaultStore` | the transactions of history and vault | extend `LocalLock`; each implements `SerialStore` |
| `AnalyzerRunner` | runner and `mapConcurrent` | loops are scheduler processes, analyzers are free |
| `RegistryLookups` | budget, retries, lookups, coverage | can be run on its own (`LookupSpec`) |
| `SecurityScan` | scorecard, OSV, exit code | extends `RegistryLookups` and composes its steps with the other parts |
| `WatchLoop` | watch command and debounce loop | |
| `WatchTree` | `watchDirectoryTree` | the directory watches used where there is no recursive watcher |
| `FileReader` | `TextFileReader.read` | several reads at a time over a file system that changes |
| `StagedIndex` | the listing and `readBlobs` | extends `FileReader`, whose budget constants and disk it shares |
| `PreCommit` | `runPreCommit`, the doctor's file loop, the audit, the verdict | extends `StagedIndex`; composes it with `FileReader` |
| `HookFile` | the installation of the hook | |
| `UpgradeRequest` | `createUpgradePullRequest` | any number of requests in any clones of one origin |
| `DependencyGraph` | inventory, tree and SBOM | a pure algorithm, against Node's resolution as the reference |
| `GitHistory` | `streamGitLog` | a parser, against the changes the patches were printed from |
| `AnalyzerCommand` | seven commands, their analyzers' loops, `analysis-status.ts` | |
| `MCHistoryStore`, `MCVaultStore`, `MCScanAndWatch`, `MCRunnerAndHook`, `MCAnalyzerCommand`, `MCComponents` | constants and reductions for TLC | `MCScanAndWatch`, `MCRunnerAndHook` and `MCComponents` are sums of components that meet in no state |
| `LocalLock_proofs`, `HistoryStore_proofs`, `VaultStore_proofs`, `AnalyzerRunner_proofs`, `SecurityScan_proofs`, `PreCommit_proofs`, `Components_proofs` | theorems | `SecurityScan_proofs` has those of the lookups too, `PreCommit_proofs` those of reader and index, `Components_proofs` those of the components that meet no other one |
| `InductionLemmas` | lemmas | induction over numbers, sizes and sequences; sums over sets and flattened sequences |

Definitions marked `Mutant:` in the modules stand next to the definition they
falsify. Each describes a plausible bug (a dropped guard, a missing reset, an
off-by-one); `PROJECT.json` pairs every property of a passing run with one that
makes the run fail, which shows that the property depends on that line.

### How state and actions correspond to the code

*LocalLock.* `lockDir` is the directory at `<resource>.lock`, with its maker and
inode; `stale` says that its mtime is older than `leaseStaleMs`; `file` is a
call's owner file under its temporary or final name; `pc` is the next file
system access of the call. `ident`, `installed` and `compromised` are the
variables `acquiredIdentity`, `markerInstalled` and `compromised`. Each access
of the code is one action, so another process, a stall or a crash can come
between any two of them. The guard `assertOwned` is three actions
(`GuardDirectory`, `GuardMarker`, `GuardLease`), run on entry, before a commit
and on exit. A heartbeat that finds its directory replaced drops the lease
record and sets `compromised`, as proper-lockfile does.

*HistoryStore, VaultStore.* `ReadAndStage` is the operation up to its commit
callback, `Replace` the rename. Reading and writing the private temporary file
are not split: nobody else sees it. `applied` is a history variable that records
when a call takes effect; `Phase` gives the end of a call as `SerialStore` sees
it.

*AnalyzerRunner.* `cursor` and `at` are `mapConcurrent`'s cursor and its worker
loops; `stage`, `op` and `outcome` separate the three things that the code's
promises separate: how far `runOne` has got, whether the analysis (or thread)
still runs, and which raced promise came first.

*RegistryLookups.* `stage` follows one call of `withBudget`: queued in
`mapConcurrent`, asking, waiting out a backoff, done. `signal` is the budget's
abort signal with its reason, `late` is `Date.now() >= budget.deadlineAt`; the
two are separate since the code reads the clock in some places and the signal in
others, and the timer may lag the clock. An abort rejects every pending request
and backoff in one step, because all listeners run in one turn. `said` is a
history variable: what the registry really answered, against which `result` is
judged. An answer may be a manifest of another package (`misnamed`): `Valid`, as
`validate` in the code, does not compare the names.

*SecurityScan.* `race`, `status` and `op` are the runner's `runOne` for the OSV
analyzer, reduced to one analyzer in one slot. The abort of the budget reaches
lookups and runner in the same step. `MakeReport` is everything after
`Promise.allSettled`: dimensions, state, findings and exit code. The doctor and
the audit are free to settle in any of the ways that the scorecard tells apart.
A run that rejects before or after that (an unreadable project, a report file
that cannot be written) exits 1 by the CLI's error handler and is left out.

*WatchLoop.* `version` counts the changes of a file and `read` what the latest
pass saw of it; a pass reads the files one at a time in any order, so a change
in its midst may or may not be in it. `timer`, `running`, `queued`, `closed` are
the code's variables. The follow-up starts in the `finally` block of the pass
before it, in the same step.

*WatchTree.* `ino[d]` is the identity of the directory at path `d`, 0 when there
is none; `watchers[d]` the identity on which a watcher was opened under that path.
A directory may be made, removed, moved away with what is below it and put back;
identities are numbers that grow, so a new directory is never taken for an old one.
The operating system reports each of these to the watcher of the upper directory,
later and in any order. `Reconcile` is `reconcileDirectory`, and `Reconciled` the
`addDirectory` and `removeWatchTree` below it, which are synchronous in the code:
one callback sees one state of the tree. The root has a retry timer
(`recovery`).

*FileReader.* A file is an inode with a stamp that grows with every write; a path
can be made to lead to another inode, to a link, or out of the root. Each await
of `read` is a stage; `got` collects the stamps under which chunks were read and
is looked at by nothing but the property. `Return` is the `finally` block with the
return before it. A stamp stands for size, change and modification time: that a
write never leaves all of them as they were is the code's own assumption.

*StagedIndex, PreCommit.* The output of `git cat-file` is a sequence of cells, a
header or a byte; a data event takes any prefix of what has been written, and the
handler consumes all it can in one step, as the code's loop does. The child can
fail to start, answer `missing`, die, or be killed, and what it wrote before still
arrives. `tally` are the doctor's counters. A finding is an attribute of a
content; the property looks at the objects, the code only at what it has read.

*HookFile.* A hook is a sequence of tokens: line breaks, a shebang, the three
parts of the managed block, and lines of the user. `Placed` is the code's string
surgery on them, the collapsing of line breaks included. Reading the hook, writing
the temporary file, its mode and the rename are separate steps, with the user and
other installs in between. What the user writes consists of whole lines
(`HookAssumption`); the user may empty or delete a line or put one in, within the
block too, remove the hook or make it not executable.

*UpgradeRequest.* `at` is the next command of a request. A branch holds whose
commit it points to. A push to a branch that origin has is refused, unless another
clone has made the very same commit: then git finds nothing to do, and the request
has `joined` the branch. A push or `gh pr create` may do its work and lose its answer.
The cleanup's commands are steps that can each fail, after which the next one is
tried, as in the code. `git branch -D` deletes whosever branch it is, unless a
worktree has it checked out.

*DependencyGraph.* Each lockfile is an initial state and each document one step,
`ReadGraph` being `readNpmDependencyGraph`. The search for an installed package
takes the first candidate of a walk up the directories, as the code's loop does; the
property compares it with the deepest visible `node_modules`. The branches of the
tree are built by their length, each one package longer than one before it, until
one closes a cycle. `GraphAssumption` says that a lockfile is a finite function on
paths, that its root is an entry, that nothing links to the root, and that no
requirement has the name of a workspace's directory (a path of the model leaves out
`node_modules`, so that the two would be one).

*GitHistory.* `CommitLines` prints a commit as git does (headers, hunks,
`--unified=0`), and the parser sees the text of the lines only. An added line may
read `++ b/name`, which git prints as `+++ b/name`. In a header, git puts a TAB
behind a name with a space and quotes one with other special characters; the parser
keeps the TAB and does not know the quoted ones. `HistoryAssumption` says what git
prints: of a deleted file no added lines, of a binary one no hunks.

*AnalyzerCommand.* The inputs of a project are a sequence; an analyzer's loop
examines, skips or fails on them one at a time, and may find something on each.
The outcome is the runner's. `AssessExecution`, `GatedFindings` and `FinishAnalysis` are `assessExecution`,
`gatedFindings` and `finishAnalysis`.

## Runs

| Run | Instance | Shows |
|---|---|---|
| `history_serial` | 2 appends of one entry and a clear, one may die, any check may fail, `maxEntries` 0 | mutual exclusion; one entry is kept; the file implements `SerialStore` |
| `history_stalls` | 2 appends of one entry, one may die, stalls, racing takeovers, one inode number (always reused) | what survives without timing: no duplicates, a swept owner never commits, every call ends |
| `history_lost_update` (violation) | 2 appends, stalls | an owner that stalls between guard and rename overwrites its successor's entry |
| `vault_serial` | one call of each kind, two passwords | the vault implements `SerialStore` and keeps its password until destroyed; no return path strands the lease |
| `runner_hook` | two components, see below | the properties of the runner and of the pre-commit command |
| `scan_watch` | two components, see below | the properties of the scan and of the watch loop |
| `scan_misnamed` (violation) | 1 dependency, the lookups alone | the manifest of another package is taken for the dependency's own |
| `scan_outlived` (violation) | 1 dependency, 1 OSV batch | an OSV request is pending after the scan has reported |
| `watch_first_pass` (violation) | 1 file, 1 change | a change during the first pass is never analyzed |
| `components` | see below | the properties of seven components that share no state |
| `upgrade_joined` (violation) | 2 requests in 2 clones, one branch name | a reported pull request loses its branch to the cleanup of a request that has pushed the same commit |
| `command_exit` (violation) | one input | a git history audit that timed out exits with 0 |

`scan_watch`, `runner_hook` and `components` check sums of specifications that share
no state (two, two and seven of them): `subject` says which one an initial state
belongs to, and the others stay idle. Each is one exploration of separate state
spaces, nothing interleaves across them, and each component has its own fairness.

| Component | Instance | Shows |
|---|---|---|
| scan (`scan_watch`) | 2 dependencies, 2 requests at once, 1 retry, 1 OSV batch | failure kinds, coverage, exit code, nothing asked after the abort; the scan reports |
| watch loop (`scan_watch`) | 2 files and an ignored one, 2 changes each | no overlap, no change forgotten, all analyzed in the end |
| runner (`runner_hook`) | 3 analyzers, one isolated, 2 slots | slot accounting, results, cancellation; an analyzer that outlives its slot is reported as unresponsive; the run returns |
| pre-commit (`runner_hook`) | 2 files, staged in every way or on the disk; clean, risky, binary, oversized and missing objects; 3 bytes and 2 files of budget; 1 change of the disk | blobs exact, no child outlives the call, the verdict is that of the content, others' findings do not block; the hook answers |
| reader (`components`, as all below) | 2 reads of one path, 2 changes, 3 bytes and 2 files of budget | the budget is kept and exact, a read is of one version, none succeeds after the abort |
| hook | 2 installs, 1 edit, five first texts (none, plain, two shebangs, an old block in the middle) | an installed hook runs, the user's text is kept |
| upgrade | 2 requests in 1 or 2 clones, 2 branch names, 1 branch of the user | nothing stranded, pull requests keep their branches, branches that two clones share aside |
| tree | the root, three directories each in the one before, and an ignored one, 4 moves | what is there is watched |
| graph | lockfiles of two packages with requirements both ways, nested copies, and a workspace with and without its link | the edges are Node's, tree and SBOM agree |
| history | two commits of at most two changes: plain, with a space in the name, deleted, binary, quoted, with header-like lines | added lines exact |
| command | 2 inputs, 2 severities, every option, an inventory of five kinds of packages | the exit code is true |

### Bounds

Two processes suffice for every interleaving of an owner and its successor;
three let a third one sweep or take over between them. Two inodes tell a new
directory from a reused number, one inode makes every number reused.
`Retries = 1` gives both the retry and the give-up (100 in the code). `Retained` is
checked at the boundary, with a `maxEntries` of 0, for which the code keeps one
entry; that it holds for any bound, and of stale snapshots too, is the theorem
`RetentionHolds`. The sweep
limit 3 exceeds the markers there can be; `ListOwners` still may see any subset
of them, since files of other names count towards the limit. Three analyzers in
two slots make one wait. Two lookups show partial coverage, one retry shows both
the retry and the exhaustion; the scan has the cap at the number of lookups. The watch loop's `MaxChanges` bounds the changes per file; two let one
change come during the pass and another during its follow-up.

For the reader, sizes 1 and 2 with three bytes of budget let two reads fit, or the
second one fail, and let a chunk end within a file; two changes suffice to replace
a file and put it back. Two requests of one upgrade meet at a branch name and have
one to evade to; the third name (50 in the code) adds nothing but another turn of
the loop. Two packages that require each other, with a copy below one of them,
make every shape of the search: found below, above, at the root, or nowhere; the
workspace adds a start outside of `node_modules`. Four moves let a tree be moved
away, replaced, removed and put back. `MaxInputs = 2` gives none, one or two
inputs of each fate, so that every counter is zero, some or all.

`MCScanAndWatch` lets the doctor and the audit settle after lookups and OSV, the
doctor first: nothing but the report, which waits for all of them, reads how they
have settled. `MCRunnerAndHook` leaves out what cannot matter: objects nothing names, which file an
audit finding is on in a full scan (the full verdict does not look), and changes
to the second file of a full scan, the first and larger one being changed.
`MCComponents` fixes the clone of the first request and lets the first read know
its file and the second not.

`CHECK_DEADLOCK FALSE` is set where the system really stops: all calls have
ended, the run has returned, the scan has reported, watching is closed or
nothing changes any more, a command has exited.

### Fairness

Liveness is checked under weak fairness of what one live event loop has to do:
the next access of a call that has not died (`history_stalls`; that an acquisition
fails is never counted on), the loops,
timers and continuations of the runner, the progress of the pre-commit command
together with its git children (`runner_hook`), reading the lockfile, taking the
next lookup, the timers and the report, and for the watch loop delivering events,
reading files and firing the debounce timer (`scan_watch`). Except for git's
children nothing is fair that depends on somebody else: no analyzer has to end, neither registry nor
OSV has to answer, nobody has to cancel, close or change a file. The doctor and
the git audit are assumed to settle: they read a finite list of files, and git
runs under a timeout. `git cat-file` has no timeout (`staged-index.ts:145`), so
`HookAnswers` assumes that git ends or closes its output. `ChangesAnalyzed` is a statement about changes that pause:
every event arms the debounce anew, so changes that never pause postpone the
pass forever; `MaxChanges` makes them pause.

## Proofs

All theorems hold for every value of the constants under the `ASSUME`s of the
modules. Most give the constants their types only; `HookAssumption`,
`TreeAssumption` (every directory is below the root), `GraphAssumption` and
`HistoryAssumption` say in addition what can be a hook, a tree, a lockfile and
a patch. The safety invariants and action properties of the passing runs are all
stated by theorems.

- `LocalLock_proofs`: `TypeCorrect`; `MutualExclusion` (`Exclusive`) and
  `NoStrandedLease` under `WellTimed` (no stalls, no racing takeovers; the latter
  also without failing checks). The invariant behind them says that a call that
  holds the lease made the lock directory, keeps a lease record while it lives,
  and that the directory goes stale only when its maker is gone.
  `SweptCallsNeverCommit` (`SweptNeverCommits`) needs no timing assumption at all:
  a marker that was swept does not come back, so the guard's second access fails.
- `HistoryStore_proofs`: `HistoryIsSerial`: under `WellTimed`, `HistSpec`
  implements `SerialStore`. The strengthening says that what a call has staged is
  its effect on the file as it is *now* (`StagedInv`), that a call takes effect
  exactly at its rename or its early return (`AppliedInv`) and that its outcome
  agrees (`OutcomeInv`); mutual exclusion makes `StagedInv` inductive.
  `HistoryImplementsLock` (every step of the store is one of the lease) carries the
  lease's theorems over (`HistoryExcludes`, `SweptNeverReplaces`). `NoEntryTwice`
  (`NoDuplicates`) and `RetentionHolds` (`Retained`) need no timing: whatever file
  a stalled call replaces, what it writes was right of some file.
- `VaultStore_proofs`: `VaultIsSerial` and `PasswordIsKept`
  (`KeepsPasswordUntilDestroyed`) with the argument of the history, under
  `WellTimed`; here `StagedInv` also carries the condition under which the call
  read the vault. `VaultStrandsNoLease` (`LeaseNotStranded`).
- `AnalyzerRunner_proofs`: `SlotsAreAccounted`, `OutlivingIsFlagged`,
  `EveryAnalyzerIsReported` and `NothingIsStartedAfterCancel`, for any number of
  analyzers and slots. `CursorInv` says that the cursor divides the analyzers that
  were taken from those that wait and that each taken one is done or on exactly one
  loop; then the count of slots is the number of analyzers on loops.
- `SecurityScan_proofs`: of the lookups, `KindsAreTrue` (`OutcomeIsTrue`),
  `HonestCoverage` (`CoverageIsHonest`) and `NothingAskedAfterAbort`, for any number
  of dependencies, any cap and any number of retries. `Pending` is the
  strengthening: a lookup that waits remembers only a transient failure and has an
  attempt left. For the last theorem, an aborted budget has nothing in progress.
  `ScanImplementsLookups`: every step of the scan is a step of the lookups or leaves
  them alone, so these hold of the whole scan. `EveryExitIsHonest` (`ExitIsHonest`):
  the report follows from the settled parts (`Verdict`), and no later step changes
  them (`SettledStaysSettled`) although OSV's late answers still arrive, because
  they find the race decided (`OsvInv`).
- `PreCommit_proofs`, the reader: `BudgetIsKept`, `UsageIsExact`, `OneVersionIsRead`
  and `AbortEndsReading`, for any number of calls and paths, any limits and any
  changes. `Counted` says that the counter of reads in flight is their number, and
  the counted bytes are the sum of what the calls hold; without it a read that
  returns could take another one's place. `Bracketed` says that the stamps of the
  chunks lie between that of the first stat and that of the inode now; the last stat
  closes the bracket.
- `PreCommit_proofs`, the parser of `git cat-file`: `BlobsAreExact` and
  `ChildEndsFirst`, for objects of any size cut at any places. Between two data
  events what is pending begins in the output where the blobs consumed so far end
  (`Aligned`, by the layout of a flattened sequence); the wanted objects before the
  index are answered rightly and the others not at all (`Answered`), the one in
  progress has kept what it was sent (`Expecting`), and the budget is charged with
  the answered contents and no others (`Charged`). One event may finish any number
  of objects: an induction over the turns of the loop.
- `PreCommit_proofs`, the command: `VerdictIsHonest`, `OwnFindingsBlock`
  (`OthersFindingsDoNotBlock`) and `CommandReads` (the whole command implements the
  reader). Each eligible file the doctor's loop has passed is scanned, excused, or
  counted among those that block (`Accounted`), an excused one stays excused
  (`BenignStays`), and what was scanned was examined whole (`BlobsScanned`).
- `Components_proofs`, watch: `WatchTypeCorrect`, `NoOverlap` and `NothingForgotten`,
  for any files; `PassInv` ties the pass in progress to the `running` flag.
  `EveryTreeIsWatched` (`NewTreesWatched`), for a tree of any depth: the watcher
  above a directory that is there and not watched has an event on its way, if it is
  itself the right one (`MissesAnnounced`), and a root without its watcher has its
  recovery armed (`RootWatched`); when nothing is on its way, the highest unwatched
  directory would contradict one of them.
- `Components_proofs`, upgrades: `PublishedBranchesStay` (`PullsKeepTheirBranches`)
  and `NothingIsStranded` (`NothingStranded`), for any number of requests, clones,
  branch names and user branches. `RemoteOK` says that a branch a request has
  pushed is its own until it deletes it, or shared; a shared branch stays so
  (`SharingStays`), and nothing is claimed of it. So no request can touch what is
  another's (`LeftAlone`), and each can be followed by itself (`Tidy`). `WorktreesOK`, that a
  worktree's branch is its request's, covers the `git branch -D` that a foreign
  worktree refuses.
- `Components_proofs`, the other components. `ExitCodesTellTruth`
  (`ExitTellsTruth`): the counters say whether every relevant input was seen
  (`Tallied`). `InstalledHooksRun` (`InstalledHookRuns`) and `UserTextIsKept`
  (`UserTextKept`), for every text made of whole lines: what `Placed` makes of a
  text that is accepted is accepted again and has its lines (lemmas about each of
  the string operations, token by token), and what an install has read agrees, but
  for line breaks, with the hook there is now, unless somebody edited it
  (`NotStale`). `EdgesFollowNode` (`EdgesAreNodes`) and `DocumentsAreOne`
  (`DocumentsAgree`), for every lockfile: the walk up the directories stops at the
  longest path that is visible; a branch without a repetition is no longer than the
  number of packages, so building branches up to that length finds all that is
  reached. `HistoryIsExact` (`AddedLinesExact`): the parser is a function `Run` of
  the lines and the state it starts in, and by induction over sequences what it
  makes of the lines of a hunk, a change, a commit and the log is what they add; the
  invariant is that the scanner is `Run` of the lines consumed.
- `InductionLemmas`: the libraries' induction theorems take a predicate as their
  parameter, which these provers cannot instantiate. The lemmas here speak of the
  set of the values for which something holds instead, and are proved from the
  library's facts on intervals and sequences; with them recursive functions and the
  folds of the community modules can be reasoned about.

Attempts that failed told of the models. In `PreCommit`, guards of a `CASE`
overlapped, so what TLC took to be the first one was no consequence of the
definition; they are disjoint now. An earlier `NewTreesWatched` excepted only the
directories that had been put back themselves; a third level of the tree shows that
what is made below one of them later may stay unwatched too, and the property and
the instance of the run now have it. The edits of the user in `HookFile` could join
two lines into one, a text the model's tokens cannot stand for; they no longer do.
`DependencyGraph`, `GitHistory` and `StagedIndex` were written with recursive
operators; as recursive functions they can be proved about.

Only model-checked: liveness under fairness (`EveryCallEnds`, `RunReturns`,
`ScanReports`, `ChangesAnalyzed`, `HookAnswers`), which is out of the prover's
reach. The properties of the six runs that find a violation are of course not
theorems.

## Findings

- `history_lost_update`: the commit trusts a guard that ran before it; nothing
  fences the rename. A stall of 30 s between the two loses an update, although
  `core/local-lock.ts:22` and `docs/HISTORY.md:15` speak of serialization.
- `scan_outlived`: `OsvClient` never reads its signal, so an abort that comes
  while the lockfile is read is missed; contrary to `core/scan-budget.ts:7`.
- `watch_first_pass`: the first pass runs before the watcher exists; contrary to
  `docs/WATCH.md:15`.
- `scan_misnamed`: `validate` never compares the name of a manifest with the one
  asked for, so another package's manifest counts as the dependency's own; contrary
  to `core/npm-registry.ts:10`. `OutcomeIsTrue` and `CoverageIsHonest` are therefore
  about well-formed manifests, of whatever name.
- `upgrade_joined`: two clones at one HEAD, with one identity, that commit in the
  same second make the same commit. git accepts the second push, as there is nothing
  to update; the request for the pull request fails, and the cleanup deletes the
  branch under the reported pull request; contrary to `docs/UPGRADE-PRS.md:44`.
  `NothingStranded` (as to origin) and `PullsKeepTheirBranches` are therefore about
  branches that no two requests have pushed to.
- `command_exit`: `toolip git-history` (and `dependency-confusion`) never assesses
  whether its analyzer ran: one that failed or timed out ends with "Findings: 0"
  and 0; contrary to `docs/ANALYSIS-STATUS.md:3` and `:21`.

Also noticed, without a run:

- Concurrency bounds slots, not operations: an in-process analyzer that ignores its
  abort runs on beside the next one, although `application/analyzer-runner.ts:39`
  and `:60` speak of operations. The comment at `:53` says so itself;
  `OutlivesOnlyFlagged` states what does hold.
- `docs/WATCH.md:41` says that macOS uses the recursive watcher, while
  `core/watch/watch.ts:83` uses it on Linux only. In the directory tree, a subtree
  that is moved away and put back may lose the watchers below its top, and a root
  that is replaced before its loss was noticed keeps the old watchers;
  `CHANGELOG.md:12` promises both. `NewTreesWatched` excepts them by name.
- Running the hook's installation again collapses three or more line breaks of the
  user's text, while `docs/GIT-SECURITY.md:29` says "byte-identical on re-run".
- When `git worktree add` fails because somebody took the branch name in between,
  the cleanup still runs `git branch -D` on it (`upgrade-pr.ts:214`) and deletes
  somebody else's branch, unless a worktree has it checked out. When a push did its
  work but its answer was lost, the branch stays at origin.
- `docs/GIT-SECURITY.md:10` says that the worktree is never opened; the
  pre-commit reads `.toolipignore`, `package.json` and `.gitignore` from it.
- `readBlobs` adds an abort listener without reading `signal.aborted`; pre-commit
  passes no signal, so nothing comes of it today. `git cat-file` has no timeout.
- Workspaces without a name in the lockfile are dropped from the graph
  (`inventory.ts`), their development dependencies are ignored, and a nested entry
  without a version is skipped for the one above it; `README.md:26` and
  `CHANGELOG.md:48` speak of workspaces without that.
- Lines added to a file whose name git quotes are reported under another file's name,
  and those of a file with a space in its name under that name with the TAB that git
  puts behind it (`analyzer.ts:81`). `AddedLinesExact` says which lines are meant.
- Findings of a completed OSV run are dropped when the dependency inputs
  themselves could not be read (`application/security-scorecard.ts:107`), which
  `ExitIsHonest` excepts.

## Plan

Done so far: the lease with both stores, runner, scan, watch mode, file reader,
staged index with pre-commit, hooks, upgrades, inventory, git history parser and
analyzer commands, with theorems for the safety properties of all of them. What is
left, in order:

1. Refinements: an abstract specification of the runner (each analyzer started at
   most once, reported once) that `AnalyzerRunner` implements, and one of the file
   reader's budget.
2. The doctor's file loop in `SecurityScan` is one step; `PreCommit` has it in
   detail. Composing the two would let the cancellation of a scan fall between two
   files.
3. The bounds of the stalls: what the history keeps when two owners overlap, as a
   theorem next to `history_lost_update`.

## Not modelled

What a detector says (syntax trees, regular expressions, rules) is a free choice in
the models; how the detectors' loops count, skip and fail is in `AnalyzerCommand`
and `PreCommit`. Not modelled are formatting, redaction and output, configuration,
the score's arithmetic, source provenance, the deps.dev client, the permission
checks of local state files, file discovery, the clone of a remote audit, the MCP
adapter, the memory cache (which nothing constructs) and the registration of
commands: pure functions or adapters without state to interleave. The unlocked
readers of history and vault change nothing. `PROJECT.json` lists every part with
its files.
