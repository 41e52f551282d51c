----------------------------- MODULE FileReader -----------------------------
(***************************************************************************)
(* TextFileReader.read (src/src/core/text-file-reader.ts): a bounded read  *)
(* of one file that other programs may be changing.  Reads of one reader   *)
(* share a budget of files and of bytes; a read reserves what it may use   *)
(* and gives it back unless it succeeds.  Every await is a step: between   *)
(* two of them the file may be written, or its path made to lead           *)
(* elsewhere, and the caller's signal may be aborted.                      *)
(*                                                                         *)
(* A file is an inode with a stamp that stands for the change and          *)
(* modification times: every write gives the inode a new one.              *)
(***************************************************************************)
EXTENDS Integers, Sequences, FiniteSets, FiniteSetsExt, Functions

CONSTANTS
  NPaths,         \* the paths are 1..NPaths; when found, path p leads to inode p
  Readers,        \* calls of read on one TextFileReader
  Sizes,          \* the sizes a file can have
  MaxFiles, MaxFileBytes, MaxTotalBytes,  \* the budget
  MaxDiskChanges  \* bound: changes made to the files

ASSUME ReaderAssumption ==
  /\ NPaths \in Nat \ {0}
  /\ IsFiniteSet(Readers)
  /\ Sizes \subseteq Nat /\ Sizes # {}
  /\ MaxFiles \in Nat /\ MaxFileBytes \in Nat /\ MaxTotalBytes \in Nat
  /\ MaxDiskChanges \in Nat

Paths == 1..NPaths

VARIABLES
  inodes,         \* the inodes, in the order of their creation
  node,           \* the inode each path leads to now
  changes,        \* the changes made to the files so far: the latest stamp
  aborted,        \* signal.aborted
  filesRead, filesInFlight, bytesRead,  \* the reader's fields
  reads           \* per call: how far it is, and what it holds

diskVars == <<inodes, node, changes>>
usageVars == <<filesRead, filesInFlight, bytesRead>>
readerVars == <<diskVars, aborted, usageVars, reads>>

Inode == [stamp : Nat, size : Sizes, kind : {"file", "link"}, inside : BOOLEAN]

\* The awaits of read, in their order.
Awaiting == {"path", "open", "stat", "chunk", "extra", "restat", "lstat", "within"}
Holding == Awaiting \ {"path", "open", "stat"}  \* the stages with a reservation
Statuses == {"ok", "oversized", "binary", "budget-exceeded", "cancelled", "changed", "failed"}

\* reserved is what the call accounts for in bytesRead, also when it has
\* succeeded; before is the stat taken after opening; got collects, for every chunk, the
\* stamp the inode had when the chunk was read.
Read == [at : Awaiting \cup {"idle", "close", "done"},
         path : Paths, known : BOOLEAN, ino : Nat,
         before : [stamp : Nat, size : Nat], offset : Nat, got : SUBSET Nat,
         grown : BOOLEAN, reserved : Nat, status : Statuses \cup {"none", "rejected"}]

Unstarted ==
  [at |-> "idle", path |-> 1, known |-> FALSE, ino |-> 1,
   before |-> [stamp |-> 0, size |-> 0], offset |-> 0, got |-> {},
   grown |-> FALSE, reserved |-> 0, status |-> "none"]

\* Types, and the counters in their ranges.
ReaderTypeOK ==
  /\ inodes \in Seq(Inode) /\ node \in [Paths -> 1..Len(inodes)]
  /\ changes \in 0..MaxDiskChanges /\ aborted \in BOOLEAN
  /\ filesRead \in Nat /\ filesInFlight \in Nat /\ bytesRead \in Int
  /\ reads \in [Readers -> Read]

ReaderInit ==
  /\ inodes \in [Paths -> [stamp : {0}, size : Sizes, kind : {"file"}, inside : {TRUE}]]
  /\ node = [p \in Paths |-> p]
  /\ changes = 0 /\ aborted = FALSE
  /\ filesRead = 0 /\ filesInFlight = 0 /\ bytesRead = 0
  /\ reads = [r \in Readers |-> Unstarted]

-----------------------------------------------------------------------------
(* The file system, and the caller's signal *)

\* The file is written in place.
Write(p) ==
  /\ changes < MaxDiskChanges
  /\ inodes[node[p]].kind = "file"
  /\ \E size \in Sizes :
       inodes' = [inodes EXCEPT ![node[p]].stamp = changes + 1, ![node[p]].size = size]
  /\ changes' = changes + 1
  /\ UNCHANGED <<node, aborted, usageVars, reads>>

\* The path leads to another file: a replacement, a link, or a file that a
\* linked directory brings in from outside the root; or to the first one again.
Repoint(p) ==
  /\ changes < MaxDiskChanges
  /\ \/ \E size \in Sizes, kind \in {"file", "link"}, inside \in BOOLEAN :
          /\ inodes' = Append(inodes, [stamp |-> changes + 1, size |-> size,
                                       kind |-> kind, inside |-> inside])
          /\ node' = [node EXCEPT ![p] = Len(inodes) + 1]
     \/ node[p] # p /\ node' = [node EXCEPT ![p] = p] /\ UNCHANGED inodes
  /\ changes' = changes + 1
  /\ UNCHANGED <<aborted, usageVars, reads>>

AbortReads ==
  /\ ~aborted
  /\ aborted' = TRUE
  /\ UNCHANGED <<diskVars, usageVars, reads>>

-----------------------------------------------------------------------------
(* read *)

\* A call that is refused never enters the try block.
Refuse(r, p, status) ==
  /\ reads' = [reads EXCEPT ![r] = [Unstarted EXCEPT !.path = p, !.at = "done", !.status = status]]
  /\ UNCHANGED usageVars

FilesTaken == filesRead + filesInFlight

\* known: the caller passes the snapshot taken when the file was discovered.
Begin(r, p, known) ==
  /\ reads[r].at = "idle"
  /\ IF aborted THEN Refuse(r, p, "cancelled")
     ELSE IF FilesTaken >= MaxFiles THEN Refuse(r, p, "budget-exceeded")
     ELSE /\ reads' = [reads EXCEPT ![r] = [Unstarted EXCEPT !.path = p, !.known = known, !.at = "path"]]
          /\ filesInFlight' = filesInFlight + 1
          /\ UNCHANGED <<filesRead, bytesRead>>
  /\ UNCHANGED <<diskVars, aborted>>

\* Mutant: the reservation of a read that fails is kept.
KeptReservation(r, status) == 0
\* The reservation to give back: all of it, unless the read succeeded.
GivenBack(r, status) == IF status = "ok" THEN 0 ELSE reads[r].reserved

\* A return and the finally block, up to the closing of the handle.
Return(r, status, next) ==
  /\ reads' = [reads EXCEPT ![r].at = next, ![r].status = status,
                            ![r].reserved = IF status = "ok" THEN @ ELSE 0]
  /\ filesInFlight' = filesInFlight - 1
  /\ filesRead' = IF status = "ok" THEN filesRead + 1 ELSE filesRead
  /\ bytesRead' = bytesRead - GivenBack(r, status)
  /\ UNCHANGED <<diskVars, aborted>>

\* Mutant: the signal is not looked at after the last await.
ResumeLate(r, stage) == reads[r].at = stage /\ (stage # "within" => ~aborted)
\* Resume(r, stage): the await of that stage has been answered, and the signal,
\* which is looked at next, is not aborted.
Resume(r, stage) == reads[r].at = stage /\ ~aborted

\* Goes on to the next await.
Advance(r, read) ==
  /\ reads' = [reads EXCEPT ![r] = read]
  /\ UNCHANGED <<diskVars, aborted, usageVars>>

LeadsToLink(r) == inodes[node[reads[r].path]].kind = "link"

\* An await is rejected.  Until the file is open there is no handle to close.
Fails(r) ==
  /\ reads[r].at \in Awaiting
  /\ Return(r, "failed", IF reads[r].at \in {"path", "open"} THEN "done" ELSE "close")

Cancelled(r) ==
  /\ reads[r].at \in Awaiting /\ aborted
  /\ reads[r].at = "open" => ~LeadsToLink(r)
  /\ Return(r, "cancelled", IF reads[r].at = "path" THEN "done" ELSE "close")

PathResolved(r) ==
  /\ Resume(r, "path")
  /\ IF inodes[node[reads[r].path]].inside
     THEN Advance(r, [reads[r] EXCEPT !.at = "open"])
     ELSE Return(r, "changed", "done")

\* O_NOFOLLOW: a link is not followed (ELOOP).
Opened(r) ==
  \/ /\ reads[r].at = "open" /\ LeadsToLink(r)
     /\ Return(r, "changed", "done")
  \/ /\ Resume(r, "open") /\ ~LeadsToLink(r)
     /\ Advance(r, [reads[r] EXCEPT !.at = "stat", !.ino = node[reads[r].path]])

AsDiscovered(r) == reads[r].known => reads[r].ino = reads[r].path /\ inodes[reads[r].ino].stamp = 0

\* Mutant: the bytes the other reads have reserved are left out.
FitsAlone(size) == size <= MaxTotalBytes
Fits(size) == bytesRead + size <= MaxTotalBytes

\* The bytes are reserved before they are read.
Stated(r) ==
  /\ Resume(r, "stat")
  /\ LET now == inodes[reads[r].ino] IN
     IF ~AsDiscovered(r) THEN Return(r, "changed", "close")
     ELSE IF now.size > MaxFileBytes THEN Return(r, "oversized", "close")
     ELSE IF ~Fits(now.size) THEN Return(r, "budget-exceeded", "close")
     ELSE /\ reads' = [reads EXCEPT ![r].at = IF now.size = 0 THEN "extra" ELSE "chunk",
                                    ![r].before = [stamp |-> now.stamp, size |-> now.size],
                                    ![r].reserved = now.size]
          /\ bytesRead' = bytesRead + now.size
          /\ UNCHANGED <<diskVars, aborted, filesRead, filesInFlight>>

\* One turn of the read loop; a file that has shrunk yields no byte.
ChunkRead(r) ==
  /\ Resume(r, "chunk")
  /\ LET now == inodes[reads[r].ino]
         left == IF now.size < reads[r].before.size
                 THEN now.size - reads[r].offset ELSE reads[r].before.size - reads[r].offset IN
     \/ left <= 0 /\ Return(r, "changed", "close")
     \/ \E n \in 1..left :
          Advance(r, [reads[r] EXCEPT
            !.offset = @ + n, !.got = @ \cup {now.stamp},
            !.at = IF reads[r].offset + n = reads[r].before.size THEN "extra" ELSE "chunk"])

\* One byte is asked for past the end.
ExtraRead(r) ==
  /\ Resume(r, "extra")
  /\ Advance(r, [reads[r] EXCEPT !.at = "restat",
                   !.grown = inodes[reads[r].ino].size > reads[r].before.size])

\* Mutant: a file of the same size is the same.
SameSize(r) == inodes[reads[r].ino].size = reads[r].before.size
SameSnapshot(r) == inodes[reads[r].ino].stamp = reads[r].before.stamp

Restated(r) ==
  /\ Resume(r, "restat")
  /\ IF ~reads[r].grown /\ SameSnapshot(r) THEN Advance(r, [reads[r] EXCEPT !.at = "lstat"])
     ELSE Return(r, "changed", "close")

\* The path still leads to the file that is open, and to this version of it.
PathStated(r) ==
  /\ Resume(r, "lstat")
  /\ IF node[reads[r].path] = reads[r].ino /\ SameSnapshot(r)
     THEN Advance(r, [reads[r] EXCEPT !.at = "within"])
     ELSE Return(r, "changed", "close")

\* The last check: containment, and a NUL byte in what was read.
Finishes(r) ==
  /\ Resume(r, "within")
  /\ IF inodes[node[reads[r].path]].inside
     THEN \E status \in {"ok", "binary"} : Return(r, status, "close")
     ELSE Return(r, "changed", "close")

\* An error of close replaces the result.
Closed(r) ==
  /\ reads[r].at = "close"
  /\ \E status \in {reads[r].status, "rejected"} :
       reads' = [reads EXCEPT ![r].at = "done", ![r].status = status]
  /\ UNCHANGED <<diskVars, aborted, usageVars>>

ReadStep(r) ==
  \/ Fails(r) \/ Cancelled(r)
  \/ PathResolved(r) \/ Opened(r) \/ Stated(r) \/ ChunkRead(r) \/ ExtraRead(r)
  \/ Restated(r) \/ PathStated(r) \/ Finishes(r) \/ Closed(r)

DiskStep == \E p \in Paths : Write(p) \/ Repoint(p)

ReaderNext ==
  \/ DiskStep \/ AbortReads
  \/ \E r \in Readers : ReadStep(r) \/ \E p \in Paths, known \in BOOLEAN : Begin(r, p, known)

ReaderSpec == ReaderInit /\ [][ReaderNext]_readerVars

-----------------------------------------------------------------------------
(* Properties *)

InFlight == {r \in Readers : reads[r].at \in Awaiting}

\* "Reads bounded text snapshots" (text-file-reader.ts:91): however many reads
\* run at once and however they end, no more files are taken and no more bytes
\* held than the budget allows.
BudgetKept ==
  /\ filesRead + filesInFlight <= MaxFiles
  /\ bytesRead <= MaxTotalBytes

\* The usage (text-file-reader.ts:125) is exact: the bytes are those of the reads
\* that succeeded and of the reservations in flight, so a read that fails,
\* whenever it does, has taken nothing from those after it.
UsageExact ==
  /\ filesInFlight = Cardinality(InFlight)
  /\ bytesRead = SumFunction([r \in Readers |-> reads[r].reserved])
  /\ \A r \in Readers :
       reads[r].reserved > 0 => r \in InFlight \/ reads[r].status \in {"ok", "rejected"}

\* "... and rejects incomplete or changed inputs" (text-file-reader.ts:91): the
\* content of a successful read is all of one version of the file, none of it
\* from before or after a change made while it was read, and of the discovered
\* version when the caller passed its snapshot.
ReadsOneVersion ==
  \A r \in Readers : reads[r].status = "ok" =>
    /\ reads[r].offset = reads[r].before.size
    /\ reads[r].got \subseteq {reads[r].before.stamp}
    /\ reads[r].known => reads[r].ino = reads[r].path /\ reads[r].before.stamp = 0

\* Once the signal is aborted no read succeeds any more, whatever it was
\* waiting for.
NoReadAfterAbort ==
  [][\A r \in Readers : aborted /\ reads'[r].status = "ok" => reads[r].status = "ok"]_readerVars
=============================================================================
