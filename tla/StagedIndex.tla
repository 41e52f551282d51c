----------------------------- MODULE StagedIndex -----------------------------
(***************************************************************************)
(* src/src/core/git/staged-index.ts: what the index would commit, listed   *)
(* by one git diff (listStagedEntries), and the staged blobs, read by      *)
(* their object IDs from the standard output of one git cat-file process   *)
(* (readBlobs).  The output comes in chunks of any length; the process can *)
(* fail to start, answer that an object is missing, die, or be killed, and *)
(* what it had written before still arrives.                               *)
(*                                                                         *)
(* The output is a sequence of cells: a header line is a cell and its      *)
(* newline, a byte of content is a cell.  One data event consumes all it   *)
(* can, so a handler is one step.                                          *)
(***************************************************************************)
EXTENDS FileReader, SequencesExt

CONSTANT Oids  \* the object IDs in the listing

\* An ID is 40 or 64 hexadecimal digits; 0 stands for none.
ASSUME IndexAssumption == 0 \notin Oids

VARIABLES
  listing,  \* per path: what git diff --cached says of it
  objects,  \* the object database
  call,     \* the call in progress, or how it has ended
  child,    \* the git cat-file process
  sent,     \* the cells of its output that have arrived
  parser    \* the variables of readBlobs' promise

indexVars == <<listing, objects, call, child, sent, parser>>

\* A change of a path; only an added or modified file has a blob to scan.
Unstaged == [change |-> "none", mode |-> "file", oid |-> 0]
Change == {Unstaged} \cup [change : {"deleted", "unmerged"}, mode : {"file"}, oid : {0}]
  \cup [change : {"added"}, mode : {"submodule", "link"}, oid : {0}]
  \cup [change : {"added"}, mode : {"file"}, oid : Oids]

\* risky: the content is one a detector reports at or above the threshold.
Object == [present : BOOLEAN, size : Nat, binary : BOOLEAN, risky : BOOLEAN]

Entries == {p \in Paths : listing[p].change = "added" /\ listing[p].mode = "file"}

NoBlob == [oid |-> 0, size |-> 0, kept |-> <<>>, got |-> 0, keep |-> FALSE]
Unread == [status |-> "none", content |-> <<>>]
FreshParser ==
  [pending |-> <<>>, index |-> 0, expect |-> NoBlob, retained |-> 0, filesRead |-> 0,
   results |-> [oid \in Oids |-> Unread], failed |-> FALSE, wanted |-> <<>>]

-----------------------------------------------------------------------------
(* What git cat-file --batch writes *)

Header(oid) ==
  <<[text |-> IF objects[oid].present THEN "blob" ELSE "missing", oid |-> oid, lf |-> FALSE],
    [text |-> "newline", oid |-> oid, lf |-> TRUE]>>

\* The first byte of a content is a line feed: content may hold any byte.
Body(oid) == [i \in 1..objects[oid].size |-> [text |-> ToString(i), oid |-> oid, lf |-> i = 1]]

Output(wanted) ==
  FlattenSeq([i \in DOMAIN wanted |->
    IF objects[wanted[i]].present
    THEN Header(wanted[i]) \o Body(wanted[i]) \o <<[text |-> "end", oid |-> wanted[i], lf |-> TRUE]>>
    ELSE Header(wanted[i])])

-----------------------------------------------------------------------------
(* The data handler *)

Keeps(s, size) ==
  /\ size <= MaxFileBytes
  /\ s.retained + size <= MaxTotalBytes
  /\ s.filesRead < MaxFiles

\* The blob announced by a header that has arrived.
Announced(s, size, rest) ==
  LET oid == s.wanted[s.index + 1]
      keep == Keeps(s, size) IN
  [s EXCEPT !.pending = rest,
            !.expect = [oid |-> oid, size |-> size, kept |-> <<>>, got |-> 0, keep |-> keep],
            !.retained = IF keep THEN @ + size ELSE @,
            !.filesRead = IF keep THEN @ + 1 ELSE @,
            !.results[oid] = IF keep THEN @
              ELSE [status |-> IF size > MaxFileBytes THEN "oversized" ELSE "budget-exceeded",
                    content |-> <<>>]]

\* The content is complete, with the newline that follows it.
Completed(s) ==
  LET body == SubSeq(s.expect.kept, 1, Min({s.expect.size, Len(s.expect.kept)})) IN
  [s EXCEPT !.expect = NoBlob, !.index = @ + 1,
            !.results[s.expect.oid] = IF ~s.expect.keep THEN @
              ELSE [status |-> IF objects[s.expect.oid].binary THEN "binary" ELSE "ok",
                    content |-> IF objects[s.expect.oid].binary THEN <<>> ELSE body]]

\* Mutant: only the last piece of a content is kept.
LastPiece(s, take) == SubSeq(s.pending, 1, take)
\* The pieces of the content so far, and the next one.
Pieces(s, take) == s.expect.kept \o SubSeq(s.pending, 1, take)

\* The header of the next blob is taken off, once it is complete; one that is not
\* the header expected fails the call.
TakeHeader(s) ==
  LET newlines == {i \in DOMAIN s.pending : s.pending[i].lf}
      expected == IF s.index < Len(s.wanted) THEN s.wanted[s.index + 1] ELSE 0
      end == Min(newlines)
      rest == SubSeq(s.pending, end + 1, Len(s.pending)) IN
  IF newlines = {} THEN s
  ELSE IF end = 2 /\ s.pending[1].text = "blob" /\ s.pending[1].oid = expected
  THEN Announced(s, objects[expected].size, rest)
  ELSE [s EXCEPT !.pending = rest, !.failed = TRUE]

\* What is there of the content, and of the newline after it, is taken off.
TakePiece(s) ==
  LET take == Min({s.expect.size + 1 - s.expect.got, Len(s.pending)})
      taken == [s EXCEPT !.expect.kept = IF s.expect.keep THEN Pieces(s, take) ELSE @,
                         !.expect.got = @ + take,
                         !.pending = SubSeq(@, take + 1, Len(@))] IN
  IF taken.expect.got < s.expect.size + 1 THEN taken ELSE Completed(taken)

\* Once the call has failed nothing more comes of its output.
Turn(s) ==
  IF s.failed THEN s ELSE IF s.expect = NoBlob THEN TakeHeader(s) ELSE TakePiece(s)

\* The for loop.  Each turn but the last takes a whole header or the rest of a
\* content, and there are no more of them than that.
Data(s, chunk) ==
  LET fed == [s EXCEPT !.pending = @ \o chunk]
      turns == 2 * Len(s.wanted) + 1
      after[n \in 0..turns] == IF n = 0 THEN fed ELSE Turn(after[n - 1]) IN
  after[turns]

-----------------------------------------------------------------------------
(* The steps *)

\* git diff --cached: it cannot run or is aborted, says there is no repository,
\* or lists the index.  Unmerged paths and lines that are not understood reject.
ListAnswers ==
  /\ call = "listing"
  /\ call' \in {"rejected",
       IF aborted \/ \E p \in Paths : listing[p].change = "unmerged" THEN "rejected" ELSE "listed"}
  /\ UNCHANGED <<listing, objects, child, sent, parser>>

\* readBlobs(wanted): distinct objects, one process.  An ID that is not one rejects.
StartBlobs(wanted) ==
  /\ call = "listed"
  /\ parser' = [FreshParser EXCEPT !.wanted = SetToSeq(wanted)]
  /\ \/ wanted = {} /\ call' = "read" /\ UNCHANGED child
     \/ wanted # {} /\ call' = "reading" /\ child' = "running"
     \/ wanted # {} /\ call' = "rejected" /\ UNCHANGED child
  /\ UNCHANGED <<listing, objects, sent>>

\* Mutant: a failure rejects although the child is running.
RejectNow == "rejected"
\* A failure kills the child, and the rejection waits until it has exited.
AfterFailure == call

\* The abort listener of readBlobs.
AbortBlobs ==
  IF child = "running"
  THEN parser' = [parser EXCEPT !.failed = TRUE] /\ call' = AfterFailure
  ELSE UNCHANGED <<parser, call>>

ChunkArrives ==
  /\ child = "running"
  /\ LET output == Output(parser.wanted) IN
     \E n \in 1..(Len(output) - sent) :
       /\ parser' = Data(parser, SubSeq(output, sent + 1, sent + n))
       /\ sent' = sent + n
  /\ call' = IF parser'.failed THEN AfterFailure ELSE call
  /\ UNCHANGED <<listing, objects, child>>

\* Mutant: the close event is waited for.
AwaitClose == call
\* git could not be started: there may be no close event to wait for.
SpawnFailure == "rejected"

ChildErrors ==
  /\ child = "running" /\ sent = 0
  /\ child' = "exited" /\ call' = SpawnFailure
  /\ parser' = [parser EXCEPT !.failed = TRUE]
  /\ UNCHANGED <<listing, objects, sent>>

StreamComplete(code) ==
  code = 0 /\ parser.index = Len(parser.wanted) /\ parser.expect = NoBlob

\* The child has exited, with all it had written delivered.
ChildCloses ==
  /\ child = "running"
  /\ child' = "exited"
  /\ \E code \in {0, 1} :
       call' = IF ~parser.failed /\ StreamComplete(code) THEN "read" ELSE "rejected"
  /\ UNCHANGED <<listing, objects, sent, parser>>

IndexStep == ListAnswers \/ ChildCloses \/ ChildErrors \/ ChunkArrives

-----------------------------------------------------------------------------
(* Properties *)

\* "Any Git failure, missing object or malformed stream rejects (fail closed)"
\* and "oversized blobs are drained without being retained, and retained bytes
\* never exceed maxTotalBytes" (staged-index.ts:118-122): however the output was
\* cut into chunks, a read that resolves has, for every object, exactly its
\* content, or says truly why it has none.
BlobsExact ==
  call = "read" =>
    /\ \A oid \in ToSet(parser.wanted) :
         LET result == parser.results[oid] IN
         CASE result.status = "ok" -> result.content = Body(oid) /\ ~objects[oid].binary
           [] result.status = "binary" -> objects[oid].present /\ objects[oid].binary
           [] result.status = "oversized" -> objects[oid].present /\ objects[oid].size > MaxFileBytes
           [] OTHER -> result.status = "budget-exceeded" /\ objects[oid].present
    /\ LET kept == {oid \in ToSet(parser.wanted) : parser.results[oid].status \in {"ok", "binary"}} IN
       /\ SumFunctionOnSet([oid \in Oids |-> objects[oid].size], kept) <= MaxTotalBytes
       /\ Cardinality(kept) <= MaxFiles

\* "Reject only after the child has exited so no git cat-file process outlives
\* the call" (staged-index.ts:152): nor does it outlive a call that resolves.
NoChildOutlives == call \in {"read", "rejected"} => child # "running"
=============================================================================
