-------------------------- MODULE PreCommit_proofs --------------------------
(***************************************************************************)
(* The pre-commit command, for any number of paths, objects, reads and     *)
(* changes of the files, and for any limits.                               *)
(*                                                                         *)
(* The reader.  filesInFlight counts the calls that await something        *)
(* (Counted), so that giving a place back never takes the place of another *)
(* call.  The stamps of an inode only grow, and those of the chunks lie    *)
(* between that of the first stat and that of now (Bracketed): when the    *)
(* last stat shows the stamp of the first, all of them are the same.       *)
(*                                                                         *)
(* The parser of git cat-file's output.  Between two data events, however  *)
(* the output was cut, pending is the part of the output that begins where *)
(* the blobs consumed so far end (Aligned), the blobs before the index are *)
(* answered and the others are not (Answered), and the budget is charged   *)
(* with the answered contents (Charged).                                   *)
(*                                                                         *)
(* The verdict.  Each eligible file the doctor's loop has passed is        *)
(* scanned, or excused, or counted among those that block (Accounted).     *)
(***************************************************************************)
EXTENDS PreCommit, InductionLemmas

InFlightIn(rs) == {r \in Readers : rs[r].at \in Awaiting}
Counted == filesInFlight = Cardinality(InFlightIn(reads))

\* What the calls account for, all together, and one call when it should not.
Held(rs) == SumFunction([r \in Readers |-> rs[r].reserved])
Reserves(rd) ==
  /\ rd.at \in {"idle", "path", "open", "stat"} => rd.reserved = 0
  /\ rd.reserved > 0 => rd.at \in Awaiting \/ rd.status \in {"ok", "rejected"}

StampsOK == \A i \in 1..Len(inodes) : inodes[i].stamp <= changes

\* A read that has not got to its first chunk has read nothing, and the inode of
\* one that has opened its file exists.
Fresh(rd) == rd.at \in {"path", "open", "stat"} => rd.offset = 0 /\ rd.got = {}
Located(rd) == rd.at \in {"stat", "chunk", "extra", "restat", "lstat", "within"} => rd.ino \in 1..Len(inodes)

\* No stamp that a chunk was read under lies outside of the first stat and now.
Bracketed(rd) ==
  rd.at \in {"chunk", "extra", "restat"} =>
    /\ rd.before.stamp <= inodes[rd.ino].stamp
    /\ \A s \in rd.got : rd.before.stamp <= s /\ s <= inodes[rd.ino].stamp

Complete(rd) == rd.at \in {"extra", "restat", "lstat", "within"} => rd.offset = rd.before.size
OneStamp(rd) == rd.at \in {"lstat", "within"} => rd.got \subseteq {rd.before.stamp}
FromSnapshot(rd) ==
  rd.at \in {"chunk", "extra", "restat", "lstat", "within"} /\ rd.known
    => rd.ino = rd.path /\ rd.before.stamp = 0
Unanswered(rd) == rd.at \in Awaiting => rd.status = "none"

\* The part of ReadsOneVersion that speaks of one read.
Sound(rd) ==
  rd.status = "ok" =>
    /\ rd.offset = rd.before.size
    /\ rd.got \subseteq {rd.before.stamp}
    /\ rd.known => rd.ino = rd.path /\ rd.before.stamp = 0

ReadOK(rd) ==
  /\ rd \in Read
  /\ Fresh(rd) /\ Located(rd) /\ Bracketed(rd) /\ Complete(rd)
  /\ OneStamp(rd) /\ FromSnapshot(rd) /\ Unanswered(rd) /\ Sound(rd) /\ Reserves(rd)

DiskOK ==
  /\ inodes \in Seq(Inode) /\ NPaths <= Len(inodes)
  /\ node \in [Paths -> 1..Len(inodes)]
  /\ changes \in 0..MaxDiskChanges
  /\ StampsOK

UsageOK ==
  /\ filesRead \in Nat /\ filesInFlight \in Nat /\ bytesRead \in Int
  /\ Counted /\ BudgetKept /\ bytesRead = Held(reads)

ReadsOK == reads \in [Readers -> Read] /\ \A r \in Readers : ReadOK(reads[r])

ReaderInv == DiskOK /\ aborted \in BOOLEAN /\ UsageOK /\ ReadsOK

USE DEF Paths

-----------------------------------------------------------------------------
(* What the steps do to one read *)

\* How many reads are in flight, when one of them changes.
LEMMA InFlightChange ==
  ASSUME reads \in [Readers -> Read], NEW r \in Readers, NEW rd \in Read
  PROVE  LET now == InFlightIn(reads)
             then == InFlightIn([reads EXCEPT ![r] = rd]) IN
         /\ IsFiniteSet(now) /\ Cardinality(now) \in Nat
         /\ rd.at \in Awaiting /\ reads[r].at \in Awaiting => Cardinality(then) = Cardinality(now)
         /\ rd.at \notin Awaiting /\ reads[r].at \notin Awaiting => Cardinality(then) = Cardinality(now)
         /\ rd.at \in Awaiting /\ reads[r].at \notin Awaiting => Cardinality(then) = Cardinality(now) + 1
         /\ rd.at \notin Awaiting /\ reads[r].at \in Awaiting
              => Cardinality(then) = Cardinality(now) - 1 /\ Cardinality(then) \in Nat
<1> DEFINE now == InFlightIn(reads)
           then == InFlightIn([reads EXCEPT ![r] = rd])
<1>1. IsFiniteSet(now) /\ Cardinality(now) \in Nat
  BY ReaderAssumption, FS_Subset, FS_CardinalityType DEF ReaderAssumption, InFlightIn
<1>2. /\ rd.at \in Awaiting => then = now \cup {r}
      /\ rd.at \notin Awaiting => then = now \ {r}
  BY DEF InFlightIn
<1>3. r \in now <=> reads[r].at \in Awaiting
  BY DEF InFlightIn
<1>4. IsFiniteSet(now \ {r}) /\ Cardinality(now \ {r}) \in Nat
  BY <1>1, FS_RemoveElement, FS_CardinalityType
<1>5. Cardinality(now \cup {r}) = IF r \in now THEN Cardinality(now) ELSE Cardinality(now) + 1
  BY <1>1, FS_AddElement
<1>6. Cardinality(now \ {r}) = IF r \in now THEN Cardinality(now) - 1 ELSE Cardinality(now)
  BY <1>1, FS_RemoveElement
<1> QED
  BY <1>1, <1>2, <1>3, <1>4, <1>5, <1>6

\* What they account for, when one of them changes.
LEMMA HeldChange ==
  ASSUME reads \in [Readers -> Read], NEW r \in Readers, NEW rd \in Read
  PROVE  /\ Held(reads) \in Int
         /\ Held([reads EXCEPT ![r] = rd]) = Held(reads) + rd.reserved - reads[r].reserved
<1> DEFINE now == [q \in Readers |-> reads[q].reserved]
           then == [q \in Readers |-> [reads EXCEPT ![r] = rd][q].reserved]
<1>1. IsFiniteSet(Readers)
  BY ReaderAssumption DEF ReaderAssumption
<1>2. /\ \A q \in Readers : now[q] \in Int /\ then[q] \in Int
      /\ \A q \in Readers \ {r} : now[q] = then[q]
      /\ now[r] = reads[r].reserved /\ then[r] = rd.reserved
  BY DEF Read
<1>3. DOMAIN now = Readers /\ DOMAIN then = Readers
  OBVIOUS
<1> HIDE DEF now, then
<1>4. /\ SumFunctionOnSet(now, Readers) \in Int /\ SumFunctionOnSet(now, Readers \ {r}) \in Int
      /\ SumFunctionOnSet(now, Readers) = now[r] + SumFunctionOnSet(now, Readers \ {r})
  BY <1>1, <1>2, SumAdd
<1>5. SumFunctionOnSet(then, Readers) = then[r] + SumFunctionOnSet(now, Readers \ {r})
  BY <1>1, <1>2, SumAdd
<1>6. Held(reads) = SumFunctionOnSet(now, Readers)
      /\ Held([reads EXCEPT ![r] = rd]) = SumFunctionOnSet(then, Readers)
  BY <1>3 DEF Held, SumFunction, now, then
<1> QED
  BY <1>2, <1>4, <1>5, <1>6

\* A call whose record is sound leaves the other calls as sound as they were.
LEMMA ReadsChange ==
  ASSUME ReadsOK, NEW r \in Readers, NEW rd, ReadOK(rd),
         reads' = [reads EXCEPT ![r] = rd], inodes' = inodes
  PROVE  ReadsOK'
<1>1. reads' \in [Readers -> Read]
  BY DEF ReadsOK, ReadOK
<1>2. \A q \in Readers : ReadOK(reads'[q])
  BY DEF ReadsOK
<1>3. \A q \in Readers : ReadOK(reads[q])'
  BY <1>2 DEF ReadOK, Fresh, Located, Bracketed, Complete, OneStamp, FromSnapshot, Unanswered, Sound, Reserves
<1> QED
  BY <1>1, <1>3 DEF ReadsOK

\* A call that goes on keeps the invariant when its new record does.
LEMMA AdvanceKeeps ==
  ASSUME ReaderInv, NEW r \in Readers, NEW rd \in Read, reads[r].at \in Awaiting,
         rd.at \in Awaiting, ReadOK(rd), rd.reserved = reads[r].reserved, Advance(r, rd)
  PROVE  ReaderInv'
<1>1. DiskOK' /\ aborted' \in BOOLEAN
  BY DEF ReaderInv, DiskOK, StampsOK, Advance, diskVars
<1>2. UsageOK'
  <2>0. reads \in [Readers -> Read] /\ reads' = [reads EXCEPT ![r] = rd] /\ UNCHANGED usageVars
        /\ reads[r].reserved \in Nat /\ UsageOK
    BY DEF ReaderInv, ReadsOK, Advance, Read
  <2>1. Cardinality(InFlightIn(reads')) = Cardinality(InFlightIn(reads))
    BY <2>0, InFlightChange
  <2>2. Held(reads') = Held(reads)
    <3>1. Held(reads) \in Int /\ Held(reads') = Held(reads) + rd.reserved - reads[r].reserved
      BY <2>0, HeldChange
    <3> DEFINE kept == reads[r].reserved
               held == Held(reads)
    <3>2. kept \in Int /\ held \in Int /\ Held(reads') = held + kept - kept
      BY <2>0, <3>1
    <3> HIDE DEF kept, held
    <3>3. Held(reads') = held
      BY <3>2
    <3> QED
      BY <3>3 DEF held
  <2> QED
    BY <2>0, <2>1, <2>2 DEF UsageOK, Counted, BudgetKept, usageVars
<1>3. ReadsOK'
  BY ReadsChange DEF ReaderInv, Advance, diskVars
<1> QED
  BY <1>1, <1>2, <1>3 DEF ReaderInv

\* A call that returns gives back its place and, unless it succeeded, its bytes;
\* it succeeds only with a whole and single version.
LEMMA ReturnKeeps ==
  ASSUME ReaderInv, NEW r \in Readers, NEW status \in Statuses, NEW next \in {"done", "close"},
         reads[r].at \in Awaiting, Return(r, status, next),
         status = "ok" => reads[r].at = "within"
  PROVE  ReaderInv'
<1> DEFINE rd == [reads[r] EXCEPT !.at = next, !.status = status,
                                  !.reserved = IF status = "ok" THEN @ ELSE 0]
<1>1. DiskOK' /\ aborted' \in BOOLEAN
  BY DEF ReaderInv, DiskOK, StampsOK, Return, diskVars
<1>2. reads[r] \in Read /\ ReadOK(reads[r]) /\ reads \in [Readers -> Read]
  BY DEF ReaderInv, ReadsOK
<1>3. reads' = [reads EXCEPT ![r] = rd]
  BY <1>2 DEF Return
<1>4. rd \in Read
  BY <1>2 DEF Read
<1>5. rd.at = next /\ rd.status = status /\ rd.offset = reads[r].offset /\ rd.before = reads[r].before
      /\ rd.got = reads[r].got /\ rd.known = reads[r].known /\ rd.ino = reads[r].ino /\ rd.path = reads[r].path
      /\ rd.reserved = IF status = "ok" THEN reads[r].reserved ELSE 0
  BY <1>2 DEF Read
<1>6. ReadOK(rd)
  <2> HIDE DEF rd
  <2>1. rd.at \notin Awaiting
    BY <1>5 DEF Awaiting
  <2>2. Sound(rd)
    BY <1>2, <1>5 DEF ReadOK, Sound, Complete, OneStamp, FromSnapshot
  <2> QED
    BY <1>4, <1>5, <2>1, <2>2
    DEF ReadOK, Fresh, Located, Bracketed, Complete, OneStamp, FromSnapshot, Unanswered, Reserves, Awaiting
<1>7. ReadsOK'
  BY <1>3, <1>6, ReadsChange DEF ReaderInv, Return, diskVars
<1>8. UsageOK'
  <2> HIDE DEF rd
  <2>1. Cardinality(InFlightIn(reads')) = filesInFlight - 1 /\ filesInFlight - 1 \in Nat
    BY <1>2, <1>3, <1>4, <1>5, InFlightChange DEF Awaiting, ReaderInv, UsageOK, Counted
  <2>2. reads[r].reserved \in Nat
    BY <1>2 DEF Read
  <2>3. Held(reads) \in Int /\ Held(reads') = Held(reads) - GivenBack(r, status)
    <3>1. Held(reads) \in Int /\ Held(reads') = Held(reads) + rd.reserved - reads[r].reserved
      BY <1>2, <1>3, <1>4, HeldChange
    <3> QED
      BY <1>5, <2>2, <3>1 DEF GivenBack
  <2>4. GivenBack(r, status) \in Nat
    BY <2>2 DEF GivenBack
  <2> QED
    BY <2>1, <2>2, <2>3, <2>4, ReaderAssumption
    DEF ReaderInv, UsageOK, Counted, BudgetKept, Return, ReaderAssumption
<1> QED
  BY <1>1, <1>7, <1>8 DEF ReaderInv

-----------------------------------------------------------------------------
(* The steps *)

\* The stamps of the inodes that exist only grow, and none disappears.
LEMMA DiskGrows ==
  ASSUME ReaderInv, NEW p \in Paths, Write(p) \/ Repoint(p)
  PROVE  /\ DiskOK'
         /\ Len(inodes) <= Len(inodes')
         /\ \A i \in 1..Len(inodes) : inodes[i].stamp <= inodes'[i].stamp
<1>0. DiskOK /\ Len(inodes) \in Nat /\ changes \in Nat /\ changes + 1 \in Nat /\ node[p] \in 1..Len(inodes)
  BY LenProperties DEF ReaderInv, DiskOK
<1>i. \A i \in 1..Len(inodes) : inodes[i] \in Inode /\ inodes[i].stamp \in Nat /\ inodes[i].stamp <= changes
  <2>1. \A i \in 1..Len(inodes) : inodes[i] \in Inode
    BY <1>0, ElementOfSeq DEF DiskOK
  <2> QED
    BY <1>0, <2>1 DEF DiskOK, StampsOK, Inode
<1>1. CASE Write(p)
  <2>1. PICK size \in Sizes :
          inodes' = [inodes EXCEPT ![node[p]].stamp = changes + 1, ![node[p]].size = size]
    BY <1>1 DEF Write
  <2> DEFINE new == [inodes[node[p]] EXCEPT !.stamp = changes + 1, !.size = size]
  <2>2. new \in Inode /\ new.stamp = changes + 1
    BY <1>0, <1>i DEF Inode
  <2>3. inodes' = [inodes EXCEPT ![node[p]] = new]
    BY <1>0, <2>1, LenProperties DEF DiskOK
  <2> HIDE DEF new
  <2>4. /\ inodes' \in Seq(Inode) /\ Len(inodes') = Len(inodes)
        /\ \A j \in 1..Len(inodes) : inodes'[j] = IF j = node[p] THEN new ELSE inodes[j]
    BY <1>0, <2>2, <2>3, ExceptSeq DEF DiskOK
  <2>5. changes' = changes + 1 /\ changes' \in 0..MaxDiskChanges /\ node' = node
    BY <1>0, <1>1, ReaderAssumption DEF Write, ReaderAssumption
  <2>6. StampsOK'
    BY <1>0, <1>i, <2>2, <2>4, <2>5 DEF StampsOK
  <2> QED
    BY <1>0, <1>i, <2>2, <2>4, <2>5, <2>6 DEF DiskOK
<1>2. CASE Repoint(p)
  <2>5. changes' = changes + 1 /\ changes' \in 0..MaxDiskChanges
    BY <1>0, <1>2, ReaderAssumption DEF Repoint, ReaderAssumption
  <2>1. CASE \E size \in Sizes, shape \in {"file", "link"}, inside \in BOOLEAN :
          /\ inodes' = Append(inodes, [stamp |-> changes + 1, size |-> size,
                                       kind |-> shape, inside |-> inside])
          /\ node' = [node EXCEPT ![p] = Len(inodes) + 1]
    <3>1. PICK new \in Inode : /\ new.stamp = changes + 1 /\ inodes' = Append(inodes, new)
                               /\ node' = [node EXCEPT ![p] = Len(inodes) + 1]
      <4>1. PICK size \in Sizes, shape \in {"file", "link"}, inside \in BOOLEAN :
              /\ inodes' = Append(inodes, [stamp |-> changes + 1, size |-> size,
                                           kind |-> shape, inside |-> inside])
              /\ node' = [node EXCEPT ![p] = Len(inodes) + 1]
        BY <2>1
      <4> DEFINE fresh == [stamp |-> changes + 1, size |-> size, kind |-> shape, inside |-> inside]
      <4>2. fresh \in Inode /\ fresh.stamp = changes + 1
        BY <1>0 DEF Inode
      <4>3. inodes' = Append(inodes, fresh)
        BY <4>1
      <4> HIDE DEF fresh
      <4> QED
        BY <4>1, <4>2, <4>3
    <3>2. /\ inodes' \in Seq(Inode) /\ Len(inodes') = Len(inodes) + 1
          /\ \A i \in 1..Len(inodes) : inodes'[i] = inodes[i]
          /\ inodes'[Len(inodes) + 1] = new
      BY <1>0, <3>1, AppendProperties DEF DiskOK
    <3>3. node' \in [1..NPaths -> 1..Len(inodes')]
      BY <1>0, <3>1, <3>2 DEF DiskOK
    <3>4. StampsOK'
      BY <1>0, <1>i, <2>5, <3>1, <3>2 DEF StampsOK
    <3>5. Len(inodes) <= Len(inodes') /\ NPaths <= Len(inodes')
      BY <1>0, <3>2, ReaderAssumption DEF DiskOK, ReaderAssumption
    <3>6. \A i \in 1..Len(inodes) : inodes[i].stamp <= inodes'[i].stamp
      BY <1>i, <3>2
    <3>7. DiskOK'
      BY <2>5, <3>2, <3>3, <3>4, <3>5 DEF DiskOK
    <3> QED
      BY <3>5, <3>6, <3>7
  <2>2. CASE node[p] # p /\ node' = [node EXCEPT ![p] = p] /\ UNCHANGED inodes
    <3>1. p \in 1..Len(inodes)
      BY <1>0, ReaderAssumption DEF DiskOK, ReaderAssumption
    <3> QED
      BY <1>0, <1>i, <2>2, <2>5, <3>1 DEF DiskOK, StampsOK
  <2> QED
    BY <1>2, <2>1, <2>2 DEF Repoint
<1> QED
  BY <1>1, <1>2

\* A change of the files, or an abort, leaves every read as sound as it was.
LEMMA EnvironmentKeeps ==
  ASSUME ReaderInv, DiskStep \/ AbortReads
  PROVE  ReaderInv'
<1>1. CASE DiskStep
  <2>1. PICK p \in Paths : Write(p) \/ Repoint(p)
    BY <1>1 DEF DiskStep
  <2>2. /\ DiskOK' /\ Len(inodes) \in Nat /\ Len(inodes') \in Nat /\ Len(inodes) <= Len(inodes')
        /\ \A i \in 1..Len(inodes) : inodes[i].stamp <= inodes'[i].stamp
        /\ \A i \in 1..Len(inodes) : inodes[i].stamp \in Nat /\ inodes'[i].stamp \in Nat
    <3>1. DiskOK' /\ Len(inodes) <= Len(inodes')
          /\ \A i \in 1..Len(inodes) : inodes[i].stamp <= inodes'[i].stamp
      BY <2>1, DiskGrows
    <3>2. inodes \in Seq(Inode) /\ inodes' \in Seq(Inode)
      BY <3>1 DEF ReaderInv, DiskOK
    <3>3. Len(inodes) \in Nat /\ Len(inodes') \in Nat
      BY <3>2, LenProperties
    <3>4. \A i \in 1..Len(inodes) : inodes[i] \in Inode /\ inodes'[i] \in Inode
      BY <3>1, <3>2, <3>3, ElementOfSeq
    <3> QED
      BY <3>1, <3>3, <3>4 DEF Inode
  <2>3. UNCHANGED <<aborted, usageVars, reads>>
    BY <2>1 DEF Write, Repoint
  <2>4. ReadsOK'
    <3>1. reads \in [Readers -> Read] /\ \A r \in Readers : ReadOK(reads[r])
      BY DEF ReaderInv, ReadsOK
    <3>2. \A r \in Readers : Located(reads[r])' /\ Bracketed(reads[r])'
      <4> SUFFICES ASSUME NEW r \in Readers
                   PROVE  Located(reads[r])' /\ Bracketed(reads[r])'
        OBVIOUS
      <4>1. /\ reads[r].ino \in Nat /\ reads[r].before.stamp \in Nat /\ reads[r].got \subseteq Nat
            /\ Located(reads[r]) /\ Bracketed(reads[r]) /\ reads'[r] = reads[r]
        BY <2>3, <3>1 DEF ReadOK, Read
      <4>2. Located(reads[r])'
        BY <2>2, <4>1 DEF Located
      <4>3. Bracketed(reads[r])'
        <5> DEFINE i == reads[r].ino
        <5> SUFFICES ASSUME reads[r].at \in {"chunk", "extra", "restat"}
                     PROVE  /\ reads[r].before.stamp <= inodes'[i].stamp
                            /\ \A s \in reads[r].got : reads[r].before.stamp <= s /\ s <= inodes'[i].stamp
          BY <4>1 DEF Bracketed
        <5>1. i \in 1..Len(inodes)
          BY <4>1 DEF Located
        <5>2. inodes[i].stamp <= inodes'[i].stamp /\ inodes[i].stamp \in Nat /\ inodes'[i].stamp \in Nat
          BY <2>2, <5>1
        <5>3. /\ reads[r].before.stamp <= inodes[i].stamp
              /\ \A s \in reads[r].got : reads[r].before.stamp <= s /\ s <= inodes[i].stamp
          BY <4>1 DEF Bracketed
        <5> HIDE DEF i
        <5> QED
          BY <4>1, <5>2, <5>3
      <4> QED
        BY <4>2, <4>3
    <3> QED
      BY <2>3, <3>1, <3>2 DEF ReadsOK, ReadOK, Fresh, Complete, OneStamp, FromSnapshot, Unanswered, Sound, Reserves
  <2> QED
    BY <2>2, <2>3, <2>4 DEF ReaderInv, UsageOK, Counted, BudgetKept, usageVars
<1>2. CASE AbortReads
  BY <1>2 DEF AbortReads, ReaderInv, DiskOK, StampsOK, UsageOK, ReadsOK, Counted, BudgetKept, ReadOK, Fresh,
     Located, Bracketed, Complete, OneStamp, FromSnapshot, Unanswered, Sound, Reserves, diskVars, usageVars
<1> QED
  BY <1>1, <1>2

\* What a call is before it has begun.
LEMMA UnstartedOK ==
  /\ Unstarted \in Read
  /\ Unstarted.at = "idle" /\ Unstarted.status = "none" /\ Unstarted.reserved = 0
  /\ Unstarted.offset = 0 /\ Unstarted.got = {}
<1>1. [stamp |-> 0, size |-> 0] \in [stamp : Nat, size : Nat] /\ {} \in SUBSET Nat /\ 1 \in 1..NPaths
  BY ReaderAssumption DEF ReaderAssumption
<1>2. 1 \in Nat /\ 0 \in Nat /\ FALSE \in BOOLEAN
  OBVIOUS
<1> QED
  BY <1>1, <1>2 DEF Unstarted, Read

\* A call takes a place only while there is one.
LEMMA BeginKeeps ==
  ASSUME ReaderInv, NEW r \in Readers, NEW p \in Paths, NEW known \in BOOLEAN, Begin(r, p, known)
  PROVE  ReaderInv'
<1>0. reads \in [Readers -> Read] /\ (\A q \in Readers : ReadOK(reads[q])) /\ reads[r].at = "idle"
      /\ UNCHANGED <<diskVars, aborted>>
  BY DEF ReaderInv, ReadsOK, Begin
<1>1. CASE \E status \in {"cancelled", "budget-exceeded"} : Refuse(r, p, status)
  <2>1. PICK status \in {"cancelled", "budget-exceeded"} : Refuse(r, p, status)
    BY <1>1
  <2> DEFINE rd == [Unstarted EXCEPT !.path = p, !.at = "done", !.status = status]
  <2>2. rd \in Read /\ rd.at = "done" /\ rd.status = status /\ rd.reserved = 0
    BY UnstartedOK DEF Read, Statuses, Awaiting
  <2>3. reads' = [reads EXCEPT ![r] = rd] /\ UNCHANGED usageVars
    BY <2>1 DEF Refuse
  <2> HIDE DEF rd
  <2>4. ReadOK(rd)
    BY <2>2 DEF ReadOK, Fresh, Located, Bracketed, Complete, OneStamp, FromSnapshot, Unanswered, Sound, Reserves, Awaiting
  <2>5. UsageOK'
    <3>1. Cardinality(InFlightIn(reads')) = Cardinality(InFlightIn(reads))
      BY <1>0, <2>2, <2>3, InFlightChange DEF Awaiting
    <3>2. Held(reads') = Held(reads)
      BY <1>0, <2>2, <2>3, HeldChange DEF ReadOK, Reserves
    <3> QED
      BY <2>3, <3>1, <3>2 DEF ReaderInv, UsageOK, Counted, BudgetKept, usageVars
  <2>6. ReadsOK'
    BY <1>0, <2>3, <2>4, ReadsChange DEF ReaderInv, diskVars
  <2> QED
    BY <1>0, <2>5, <2>6 DEF ReaderInv, DiskOK, StampsOK, diskVars
<1>2. CASE /\ FilesTaken < MaxFiles
           /\ reads' = [reads EXCEPT ![r] = [Unstarted EXCEPT !.path = p, !.known = known, !.at = "path"]]
           /\ filesInFlight' = filesInFlight + 1
           /\ UNCHANGED <<filesRead, bytesRead>>
  <2> DEFINE rd == [Unstarted EXCEPT !.path = p, !.known = known, !.at = "path"]
  <2>2. rd \in Read /\ rd.at = "path" /\ rd.status = "none" /\ rd.offset = 0 /\ rd.got = {} /\ rd.reserved = 0
    BY UnstartedOK DEF Read, Statuses, Awaiting
  <2>3. reads' = [reads EXCEPT ![r] = rd]
    BY <1>2
  <2> HIDE DEF rd
  <2>4. ReadOK(rd)
    BY <2>2 DEF ReadOK, Fresh, Located, Bracketed, Complete, OneStamp, FromSnapshot, Unanswered, Sound, Reserves, Awaiting
  <2>5. UsageOK'
    <3>1. Cardinality(InFlightIn(reads')) = Cardinality(InFlightIn(reads)) + 1
      BY <1>0, <2>2, <2>3, InFlightChange DEF Awaiting
    <3>2. Held(reads') = Held(reads)
      BY <1>0, <2>2, <2>3, HeldChange DEF ReadOK, Reserves
    <3> QED
      BY <1>2, <3>1, <3>2, ReaderAssumption DEF ReaderInv, UsageOK, Counted, BudgetKept, FilesTaken, ReaderAssumption
  <2>6. ReadsOK'
    BY <1>0, <2>3, <2>4, ReadsChange DEF ReaderInv, diskVars
  <2> QED
    BY <1>0, <2>5, <2>6 DEF ReaderInv, DiskOK, StampsOK, diskVars
<1>3. FilesTaken \in Int /\ MaxFiles \in Int
  BY ReaderAssumption DEF ReaderInv, UsageOK, FilesTaken, ReaderAssumption
<1> QED
  BY <1>1, <1>2, <1>3 DEF Begin

\* Every await of a read, answered, refused or overtaken by the signal.
LEMMA ReadStepKeeps ==
  ASSUME ReaderInv, NEW r \in Readers, ReadStep(r)
  PROVE  ReaderInv'
<1> DEFINE rd == reads[r]
<1>0. reads \in [Readers -> Read] /\ rd \in Read /\ ReadOK(rd)
  BY DEF ReaderInv, ReadsOK
<1>d. DiskOK /\ Len(inodes) \in Nat /\ node[rd.path] \in 1..Len(inodes)
  BY <1>0, LenProperties DEF ReaderInv, DiskOK, Read
<1>s. \A i \in 1..Len(inodes) : inodes[i] \in Inode /\ inodes[i].stamp \in Nat /\ inodes[i].size \in Nat
  <2>1. \A i \in 1..Len(inodes) : inodes[i] \in Inode
    BY <1>d, ElementOfSeq DEF DiskOK
  <2> QED
    BY <2>1, ReaderAssumption DEF Inode, ReaderAssumption
<1>r. ASSUME NEW status \in Statuses, NEW next \in {"done", "close"}, rd.at \in Awaiting,
             Return(r, status, next), status = "ok" => rd.at = "within"
      PROVE  ReaderInv'
  BY <1>r, ReturnKeeps
<1>v. ASSUME NEW new, new \in Read, ReadOK(new), rd.at \in Awaiting, new.at \in Awaiting,
             new.reserved = rd.reserved, Advance(r, new)
      PROVE  ReaderInv'
  BY <1>v, AdvanceKeeps
<1>1. CASE Fails(r)
  BY <1>1, <1>r DEF Fails, Statuses
<1>2. CASE Cancelled(r)
  BY <1>2, <1>r DEF Cancelled, Statuses
<1>3. CASE PathResolved(r)
  <2> DEFINE new == [rd EXCEPT !.at = "open"]
  <2>1. rd.at = "path"
    BY <1>3 DEF PathResolved, Resume
  <2>2. new \in Read /\ new.at = "open" /\ new.offset = rd.offset /\ new.got = rd.got /\ new.status = rd.status
        /\ new.reserved = rd.reserved
    BY <1>0 DEF Read, Awaiting
  <2>3. ReadOK(new)
    <3> HIDE DEF new
    <3> QED
      BY <1>0, <2>1, <2>2 DEF ReadOK, Fresh, Located, Bracketed, Complete, OneStamp, FromSnapshot, Unanswered, Sound, Reserves, Awaiting
  <2> QED
    BY <1>3, <1>r, <1>v, <2>1, <2>2, <2>3 DEF PathResolved, Statuses, Awaiting
<1>4. CASE Opened(r)
  <2> DEFINE ino == node[rd.path]
             new == [rd EXCEPT !.at = "stat", !.ino = ino]
  <2>1. rd.at = "open"
    BY <1>4 DEF Opened, Resume
  <2>2. new \in Read /\ new.at = "stat" /\ new.offset = rd.offset /\ new.got = rd.got
        /\ new.status = rd.status /\ new.ino = ino /\ new.reserved = rd.reserved
    <3>1. ino \in Nat
      BY <1>d
    <3> HIDE DEF ino
    <3> QED
      BY <1>0, <3>1 DEF Read, Awaiting
  <2>3. ReadOK(new)
    <3> HIDE DEF new
    <3> QED
      BY <1>0, <1>d, <2>1, <2>2 DEF ReadOK, Fresh, Located, Bracketed, Complete, OneStamp, FromSnapshot, Unanswered, Sound, Reserves, Awaiting
  <2> QED
    BY <1>4, <1>r, <1>v, <2>1, <2>2, <2>3 DEF Opened, Statuses, Awaiting
<1>5. CASE Stated(r)
  <2> DEFINE now == inodes[rd.ino]
             new == [rd EXCEPT !.at = IF now.size = 0 THEN "extra" ELSE "chunk",
                               !.before = [stamp |-> now.stamp, size |-> now.size],
                               !.reserved = now.size]
  <2>1. rd.at = "stat" /\ rd.ino \in 1..Len(inodes) /\ rd.offset = 0 /\ rd.got = {} /\ rd.status = "none"
    BY <1>0, <1>5 DEF Stated, Resume, ReadOK, Located, Fresh, Unanswered, Awaiting
  <2>2. CASE /\ AsDiscovered(r) /\ Fits(now.size)
             /\ reads' = [reads EXCEPT ![r] = new]
             /\ bytesRead' = bytesRead + now.size
             /\ UNCHANGED <<diskVars, aborted, filesRead, filesInFlight>>
    <3>0. now.stamp \in Nat /\ now.size \in Nat /\ [stamp |-> now.stamp, size |-> now.size] \in [stamp : Nat, size : Nat]
      BY <1>s, <2>1
    <3>1. /\ new \in Read /\ new.offset = 0 /\ new.got = {} /\ new.status = "none" /\ new.ino = rd.ino
          /\ new.before.stamp = now.stamp /\ new.before.size = now.size
          /\ new.known = rd.known /\ new.path = rd.path /\ new.reserved = now.size
          /\ new.at \in {"extra", "chunk"} /\ (new.at = "extra" => now.size = 0)
      BY <1>0, <2>1, <3>0 DEF Read, Awaiting
    <3>2. rd.known => rd.ino = rd.path /\ now.stamp = 0
      BY <2>2 DEF AsDiscovered
    <3> HIDE DEF new
    <3>3. ReadOK(new)
      BY <1>0, <2>1, <3>0, <3>1, <3>2 DEF ReadOK, Fresh, Located, Bracketed, Complete, OneStamp, FromSnapshot,
         Unanswered, Sound, Reserves, Awaiting
    <3>4. ReadsOK'
      BY <2>2, <3>3, ReadsChange DEF ReaderInv, diskVars
    <3>5. Cardinality(InFlightIn(reads')) = Cardinality(InFlightIn(reads))
      BY <1>0, <2>1, <2>2, <3>1, InFlightChange DEF Awaiting
    <3>7. Held(reads') = Held(reads) + now.size
      <4>1. rd.reserved = 0
        BY <1>0, <2>1 DEF ReadOK, Reserves
      <4>2. Held(reads) \in Int /\ Held(reads') = Held(reads) + new.reserved - rd.reserved
        BY <1>0, <2>2, <3>1, HeldChange
      <4> QED
        BY <3>0, <3>1, <4>1, <4>2
    <3>6. UsageOK'
      BY <2>2, <3>0, <3>5, <3>7 DEF ReaderInv, UsageOK, Counted, BudgetKept, Fits
    <3> QED
      BY <2>2, <3>4, <3>6 DEF ReaderInv, DiskOK, StampsOK, diskVars
  <2> QED
    BY <1>5, <1>r, <2>1, <2>2 DEF Stated, Statuses, Awaiting
<1>6. CASE ChunkRead(r)
  <2>1. rd.at = "chunk" /\ rd.ino \in 1..Len(inodes)
    BY <1>0, <1>6 DEF ChunkRead, Resume, ReadOK, Located
  <2> DEFINE now == inodes[rd.ino]
             left == IF now.size < rd.before.size THEN now.size - rd.offset ELSE rd.before.size - rd.offset
             new(n) == [rd EXCEPT !.offset = @ + n, !.got = @ \cup {now.stamp},
                                  !.at = IF rd.offset + n = rd.before.size THEN "extra" ELSE "chunk"]
  <2>2. CASE Return(r, "changed", "close")
    BY <1>r, <2>1, <2>2 DEF Statuses, Awaiting
  <2>3. CASE \E n \in 1..left : Advance(r, new(n))
    <3>1. PICK n \in 1..left : Advance(r, new(n))
      BY <2>3
    <3>2. now.stamp \in Nat /\ rd.offset \in Nat /\ rd.got \subseteq Nat /\ n \in Nat /\ rd.before.size \in Nat
      BY <1>0, <1>s, <2>1 DEF Read
    <3>3. /\ new(n) \in Read /\ new(n).offset = rd.offset + n /\ new(n).got = rd.got \cup {now.stamp}
          /\ new(n).status = rd.status /\ new(n).ino = rd.ino /\ new(n).before = rd.before
          /\ new(n).known = rd.known /\ new(n).path = rd.path /\ new(n).reserved = rd.reserved
          /\ new(n).at \in {"extra", "chunk"} /\ (new(n).at = "extra" => rd.offset + n = rd.before.size)
      <4> DEFINE offset == rd.offset + n
                 got == rd.got \cup {now.stamp}
                 at == IF rd.offset + n = rd.before.size THEN "extra" ELSE "chunk"
                 new1 == [rd EXCEPT !.offset = offset, !.got = got, !.at = at]
      <4>1. new(n) = new1
        BY <1>0 DEF Read
      <4>2. offset \in Nat /\ got \in SUBSET Nat /\ at \in {"extra", "chunk"}
        BY <3>2
      <4>3. at = "extra" => rd.offset + n = rd.before.size
        OBVIOUS
      <4>4. offset = rd.offset + n /\ got = rd.got \cup {now.stamp}
        OBVIOUS
      <4> HIDE DEF offset, got, at, now, left, new
      <4>5. /\ new1 \in Read /\ new1.offset = offset /\ new1.got = got /\ new1.at = at
            /\ new1.status = rd.status /\ new1.ino = rd.ino /\ new1.before = rd.before
            /\ new1.known = rd.known /\ new1.path = rd.path /\ new1.reserved = rd.reserved
        BY <1>0, <4>2 DEF Read, Awaiting
      <4> HIDE DEF new1
      <4> QED
        BY <4>1, <4>2, <4>3, <4>4, <4>5
    <3>4. /\ rd.before.stamp <= now.stamp
          /\ \A s \in rd.got : rd.before.stamp <= s /\ s <= now.stamp
      BY <1>0, <2>1 DEF ReadOK, Bracketed
    <3> HIDE DEF new
    <3>5. ReadOK(new(n))
      BY <1>0, <2>1, <3>2, <3>3, <3>4 DEF ReadOK, Fresh, Located, Bracketed, Complete, OneStamp, FromSnapshot,
         Unanswered, Sound, Reserves, Awaiting
    <3> QED
      BY <1>v, <2>1, <3>1, <3>3, <3>5 DEF Awaiting
  <2> QED
    BY <1>6, <2>2, <2>3 DEF ChunkRead
<1>7. CASE ExtraRead(r)
  <2>1. rd.at = "extra" /\ rd.ino \in 1..Len(inodes)
    BY <1>0, <1>7 DEF ExtraRead, Resume, ReadOK, Located
  <2> DEFINE grown == inodes[rd.ino].size > rd.before.size
             new == [rd EXCEPT !.at = "restat", !.grown = grown]
  <2>2. /\ new \in Read /\ new.at = "restat" /\ new.offset = rd.offset /\ new.got = rd.got
        /\ new.status = rd.status /\ new.ino = rd.ino /\ new.before = rd.before
        /\ new.known = rd.known /\ new.path = rd.path /\ new.reserved = rd.reserved
    <3>1. grown \in BOOLEAN
      OBVIOUS
    <3> HIDE DEF grown
    <3> QED
      BY <1>0, <3>1 DEF Read, Awaiting
  <2>3. ReadOK(new)
    <3> HIDE DEF new
    <3> QED
      BY <1>0, <2>1, <2>2 DEF ReadOK, Fresh, Located, Bracketed, Complete, OneStamp, FromSnapshot, Unanswered, Sound, Reserves, Awaiting
  <2>4. Advance(r, new)
    BY <1>7 DEF ExtraRead
  <2> QED
    BY <1>v, <2>1, <2>2, <2>3, <2>4 DEF Awaiting
<1>8. CASE Restated(r)
  <2>1. rd.at = "restat" /\ rd.ino \in 1..Len(inodes)
    BY <1>0, <1>8 DEF Restated, Resume, ReadOK, Located
  <2> DEFINE new == [rd EXCEPT !.at = "lstat"]
  <2>2. /\ new \in Read /\ new.at = "lstat" /\ new.offset = rd.offset /\ new.got = rd.got
        /\ new.status = rd.status /\ new.ino = rd.ino /\ new.before = rd.before
        /\ new.known = rd.known /\ new.path = rd.path /\ new.reserved = rd.reserved
    BY <1>0 DEF Read, Awaiting
  <2>3. CASE SameSnapshot(r) /\ Advance(r, new)
    <3>1. rd.before.stamp \in Nat /\ rd.got \subseteq Nat
      BY <1>0 DEF Read
    <3>2. \A s \in rd.got : s = rd.before.stamp
      BY <1>0, <2>1, <2>3, <3>1 DEF ReadOK, Bracketed, SameSnapshot
    <3> HIDE DEF new
    <3>3. ReadOK(new)
      BY <1>0, <2>1, <2>2, <3>2 DEF ReadOK, Fresh, Located, Bracketed, Complete, OneStamp, FromSnapshot,
         Unanswered, Sound, Reserves, Awaiting
    <3> QED
      BY <1>v, <2>1, <2>2, <2>3, <3>3 DEF Awaiting
  <2> QED
    BY <1>8, <1>r, <2>1, <2>3 DEF Restated, Statuses, Awaiting
<1>9. CASE PathStated(r)
  <2>1. rd.at = "lstat"
    BY <1>9 DEF PathStated, Resume
  <2> DEFINE new == [rd EXCEPT !.at = "within"]
  <2>2. /\ new \in Read /\ new.at = "within" /\ new.offset = rd.offset /\ new.got = rd.got
        /\ new.status = rd.status /\ new.ino = rd.ino /\ new.before = rd.before
        /\ new.known = rd.known /\ new.path = rd.path /\ new.reserved = rd.reserved
    BY <1>0 DEF Read, Awaiting
  <2>3. ReadOK(new)
    <3> HIDE DEF new
    <3> QED
      BY <1>0, <2>1, <2>2 DEF ReadOK, Fresh, Located, Bracketed, Complete, OneStamp, FromSnapshot, Unanswered, Sound, Reserves, Awaiting
  <2> QED
    BY <1>9, <1>r, <1>v, <2>1, <2>2, <2>3 DEF PathStated, Statuses, Awaiting
<1>10. CASE Finishes(r)
  <2>1. rd.at = "within"
    BY <1>10 DEF Finishes, Resume
  <2> QED
    BY <1>10, <1>r, <2>1 DEF Finishes, Statuses, Awaiting
<1>11. CASE Closed(r)
  <2>1. rd.at = "close" /\ UNCHANGED <<diskVars, aborted, usageVars>>
    BY <1>11 DEF Closed
  <2>2. PICK status \in {rd.status, "rejected"} : reads' = [reads EXCEPT ![r].at = "done", ![r].status = status]
    BY <1>11 DEF Closed
  <2> DEFINE new == [rd EXCEPT !.at = "done", !.status = status]
  <2>3. reads' = [reads EXCEPT ![r] = new]
    BY <1>0, <2>2
  <2>4. /\ new \in Read /\ new.at = "done" /\ new.offset = rd.offset /\ new.got = rd.got
        /\ new.status = status /\ new.ino = rd.ino /\ new.before = rd.before
        /\ new.known = rd.known /\ new.path = rd.path /\ new.reserved = rd.reserved
    BY <1>0 DEF Read
  <2> HIDE DEF new
  <2>5. ReadOK(new)
    BY <1>0, <2>1, <2>4 DEF ReadOK, Fresh, Located, Bracketed, Complete, OneStamp, FromSnapshot, Unanswered, Sound, Reserves, Awaiting
  <2>6. ReadsOK'
    BY <2>1, <2>3, <2>5, ReadsChange DEF ReaderInv, diskVars
  <2>7. Cardinality(InFlightIn(reads')) = Cardinality(InFlightIn(reads))
    BY <1>0, <2>1, <2>3, <2>4, InFlightChange DEF Awaiting
  <2>8. Held(reads') = Held(reads)
    <3>1. Held(reads) \in Int /\ Held(reads') = Held(reads) + new.reserved - rd.reserved
      BY <1>0, <2>3, <2>4, HeldChange
    <3> DEFINE kept == reads[r].reserved
               held == Held(reads)
    <3>2. kept \in Int /\ held \in Int /\ Held(reads') = held + kept - kept
      BY <1>0, <2>4, <3>1 DEF Read
    <3> HIDE DEF kept, held
    <3>3. Held(reads') = held
      BY <3>2
    <3> QED
      BY <3>3 DEF held
  <2>9. UsageOK'
    BY <2>1, <2>7, <2>8 DEF ReaderInv, UsageOK, Counted, BudgetKept, usageVars
  <2> QED
    BY <2>1, <2>6, <2>9 DEF ReaderInv, DiskOK, StampsOK, diskVars
<1> QED
  BY <1>1, <1>2, <1>3, <1>4, <1>5, <1>6, <1>7, <1>8, <1>9, <1>10, <1>11 DEF ReadStep

-----------------------------------------------------------------------------
(* Theorems *)

\* Every reachable state satisfies the invariant.
LEMMA ReaderInvInductive == ReaderSpec => []ReaderInv
<1>1. ReaderInit => ReaderInv
  <2> SUFFICES ASSUME ReaderInit PROVE ReaderInv
    OBVIOUS
  <2>0. NPaths \in Nat /\ inodes \in [1..NPaths -> [stamp : {0}, size : Sizes, kind : {"file"}, inside : {TRUE}]]
    BY ReaderAssumption DEF ReaderInit, ReaderAssumption
  <2>1. inodes \in Seq(Inode) /\ Len(inodes) = NPaths
    <3>1. inodes \in [1..NPaths -> Inode]
      <4> SUFFICES ASSUME NEW i \in 1..NPaths PROVE inodes[i] \in Inode
        BY <2>0
      <4>1. inodes[i] \in [stamp : {0}, size : Sizes, kind : {"file"}, inside : {TRUE}]
        BY <2>0
      <4>2. PICK size \in Sizes : inodes[i] = [stamp |-> 0, size |-> size, kind |-> "file", inside |-> TRUE]
        BY <4>1
      <4> QED
        BY <4>2 DEF Inode
    <3>2. inodes \in Seq(Inode)
      BY <2>0, <3>1, SeqDef
    <3> QED
      BY <2>0, <3>1, <3>2, LenProperties
  <2>2. DiskOK
    <3>1. StampsOK
      <4>1. \A i \in 1..NPaths : inodes[i].stamp = 0
        BY <2>0
      <4> QED
        BY <2>1, <4>1 DEF ReaderInit, StampsOK
    <3> QED
      BY <2>0, <2>1, <3>1, ReaderAssumption DEF ReaderInit, DiskOK, ReaderAssumption
  <2>3. \A r \in Readers : reads[r] = Unstarted
    BY DEF ReaderInit
  <2>4. UsageOK
    <3>1. InFlightIn(reads) = {}
      BY <2>3, UnstartedOK DEF InFlightIn, Awaiting
    <3>2. Counted
      BY <3>1, FS_EmptySet DEF ReaderInit, Counted
    <3>3. Held(reads) = 0
      <4> DEFINE zero == [r \in Readers |-> 0]
      <4>1. [r \in Readers |-> reads[r].reserved] = zero
        BY <2>3, UnstartedOK
      <4>2. SumFunctionOnSet(zero, Readers) = 0
        BY ReaderAssumption, SumZero DEF ReaderAssumption
      <4> QED
        BY <4>1, <4>2 DEF Held, SumFunction
    <3> QED
      BY <3>2, <3>3, ReaderAssumption DEF ReaderInit, UsageOK, BudgetKept, ReaderAssumption
  <2>5. ReadsOK
    <3>1. ReadOK(Unstarted)
      BY UnstartedOK DEF ReadOK, Fresh, Located, Bracketed, Complete, OneStamp, FromSnapshot, Unanswered, Sound, Reserves, Awaiting
    <3> QED
      BY <2>3, <3>1, UnstartedOK DEF ReaderInit, ReadsOK
  <2> QED
    BY <2>2, <2>4, <2>5 DEF ReaderInit, ReaderInv
<1>2. ReaderInv /\ [ReaderNext]_readerVars => ReaderInv'
  <2> SUFFICES ASSUME ReaderInv, [ReaderNext]_readerVars PROVE ReaderInv'
    OBVIOUS
  <2>1. CASE DiskStep \/ AbortReads
    BY <2>1, EnvironmentKeeps
  <2>2. CASE \E r \in Readers : ReadStep(r)
    BY <2>2, ReadStepKeeps
  <2>3. CASE \E r \in Readers, p \in Paths, known \in BOOLEAN : Begin(r, p, known)
    BY <2>3, BeginKeeps
  <2>4. CASE UNCHANGED readerVars
    BY <2>4 DEF readerVars, diskVars, usageVars, ReaderInv, DiskOK, StampsOK, UsageOK, Counted, BudgetKept, ReadsOK,
       ReadOK, Fresh, Located, Bracketed, Complete, OneStamp, FromSnapshot, Unanswered, Sound, Reserves
  <2> QED
    BY <2>1, <2>2, <2>3, <2>4 DEF ReaderNext
<1> QED
  BY <1>1, <1>2, PTL DEF ReaderSpec

\* The type invariant, for any number of calls and paths and any limits.
THEOREM ReaderTypes == ReaderSpec => []ReaderTypeOK
<1>1. ReaderInv => ReaderTypeOK
  BY DEF ReaderInv, DiskOK, UsageOK, ReadsOK, ReaderTypeOK
<1> QED
  BY <1>1, ReaderInvInductive, PTL

\* However many reads run at once and however they end, the reader takes no more
\* files and holds no more bytes than its budget (text-file-reader.ts:136, 183).
THEOREM BudgetIsKept == ReaderSpec => []BudgetKept
<1>1. ReaderInv => BudgetKept
  BY DEF ReaderInv, UsageOK
<1> QED
  BY <1>1, ReaderInvInductive, PTL

\* The usage is that of the reads that succeeded and of the reservations in
\* flight, exactly: whenever and however a read fails, it gives back what it had.
THEOREM UsageIsExact == ReaderSpec => []UsageExact
<1>1. ReaderInv => UsageExact
  BY DEF ReaderInv, UsageOK, Counted, InFlightIn, InFlight, Held, ReadsOK, ReadOK, Reserves, UsageExact
<1> QED
  BY <1>1, ReaderInvInductive, PTL

\* A read that succeeds has read one version of the file, whole, and the
\* discovered one when a snapshot was passed, whatever was written or replaced
\* while it ran.
THEOREM OneVersionIsRead == ReaderSpec => []ReadsOneVersion
<1>1. ReaderInv => ReadsOneVersion
  BY DEF ReaderInv, ReadsOK, ReadOK, Sound, ReadsOneVersion
<1> QED
  BY <1>1, ReaderInvInductive, PTL

\* No read succeeds any more once the signal is aborted.
THEOREM AbortEndsReading == ReaderSpec => NoReadAfterAbort
<1> DEFINE Kept(r) == aborted /\ reads'[r].status = "ok" => reads[r].status = "ok"
<1>1. ASSUME ReaderInv, ReaderNext PROVE \A r \in Readers : Kept(r)
  <2> SUFFICES ASSUME NEW r \in Readers, aborted, reads'[r].status = "ok", reads[r].status # "ok"
               PROVE  FALSE
    OBVIOUS
  <2>1. reads \in [Readers -> Read]
    BY <1>1 DEF ReaderInv, ReadsOK
  <2>2. CASE DiskStep \/ AbortReads
    BY <2>1, <2>2 DEF DiskStep, Write, Repoint, AbortReads
  <2>3. CASE \E q \in Readers, p \in Paths, known \in BOOLEAN : Begin(q, p, known)
    <3>1. PICK q \in Readers, p \in Paths, known \in BOOLEAN : Begin(q, p, known)
      BY <2>3
    <3>2. reads' = [reads EXCEPT ![q] = [Unstarted EXCEPT !.path = p, !.at = "done", !.status = "cancelled"]]
      BY <3>1 DEF Begin, Refuse
    <3> QED
      BY <2>1, <3>2, UnstartedOK DEF Read
  <2>4. CASE \E q \in Readers : ReadStep(q)
    <3>1. PICK q \in Readers : ReadStep(q)
      BY <2>4
    <3>2. CASE \E status \in Statuses \ {"ok"}, next \in {"done", "close"} : Return(q, status, next)
      BY <2>1, <3>2 DEF Return, Read
    <3>3. CASE Closed(q)
      BY <2>1, <3>3 DEF Closed, Read
    <3> QED
      BY <3>1, <3>2, <3>3 DEF ReadStep, Fails, Cancelled, PathResolved, Opened, Stated, ChunkRead, ExtraRead,
         Restated, PathStated, Finishes, Resume, Statuses
  <2> QED
    BY <1>1, <2>2, <2>3, <2>4 DEF ReaderNext
<1>2. ReaderInv /\ [ReaderNext]_readerVars => [\A r \in Readers : Kept(r)]_readerVars
  BY <1>1
<1> QED
  BY <1>2, ReaderInvInductive, PTL DEF ReaderSpec, NoReadAfterAbort

-----------------------------------------------------------------------------
(* The output of git cat-file *)

Cells == [text : {"blob", "missing", "newline", "end"} \cup {ToString(i) : i \in Nat},
          oid : Oids, lf : BOOLEAN]

\* What is written for each object that is wanted, and where it starts.
Part(oid) ==
  IF objects[oid].present
  THEN Header(oid) \o Body(oid) \o <<[text |-> "end", oid |-> oid, lf |-> TRUE]>>
  ELSE Header(oid)
Parts(w) == [i \in DOMAIN w |-> Part(w[i])]
StartsIn(parts, out) == CHOOSE start : Layout(start, parts, out)
Starts(w) == StartsIn(Parts(w), Output(w))

ObjectsOK == objects \in [Oids -> Object]

\* The cells of an object are as many as its size says.
LEMMA BodyOK ==
  ASSUME ObjectsOK, NEW oid \in Oids
  PROVE  /\ objects[oid].size \in Nat /\ objects[oid].present \in BOOLEAN
         /\ Body(oid) \in Seq(Cells) /\ Len(Body(oid)) = objects[oid].size
<1>1. objects[oid].size \in Nat /\ objects[oid].present \in BOOLEAN
  BY DEF ObjectsOK, Object
<1>2. \A i \in 1..objects[oid].size : [text |-> ToString(i), oid |-> oid, lf |-> i = 1] \in Cells
  BY <1>1 DEF Cells
<1>3. Body(oid) \in [1..objects[oid].size -> Cells]
  BY <1>2 DEF Body
<1> HIDE DEF Cells
<1>4. Body(oid) \in Seq(Cells)
  BY <1>1, <1>3, SeqDef
<1> QED
  BY <1>1, <1>3, <1>4, LenProperties

\* What git prints for an object: a header of two cells and, when it is there, its
\* body and one cell more.
LEMMA PartOK ==
  ASSUME ObjectsOK, NEW oid \in Oids
  PROVE  /\ Part(oid) \in Seq(Cells)
         /\ Len(Part(oid)) = IF objects[oid].present THEN objects[oid].size + 3 ELSE 2
         /\ Part(oid)[1] = Header(oid)[1] /\ Part(oid)[2] = Header(oid)[2]
         /\ objects[oid].present =>
              \A k \in 1..objects[oid].size : Part(oid)[2 + k] = Body(oid)[k]
<1>1. Header(oid) \in Seq(Cells) /\ Len(Header(oid)) = 2
  <2>1. [text |-> IF objects[oid].present THEN "blob" ELSE "missing", oid |-> oid, lf |-> FALSE] \in Cells
    BY DEF Cells
  <2>2. [text |-> "newline", oid |-> oid, lf |-> TRUE] \in Cells
    BY DEF Cells
  <2> HIDE DEF Cells
  <2> QED
    BY <2>1, <2>2 DEF Header
<1>2. <<[text |-> "end", oid |-> oid, lf |-> TRUE]>> \in Seq(Cells)
  <2>1. [text |-> "end", oid |-> oid, lf |-> TRUE] \in Cells
    BY DEF Cells
  <2> HIDE DEF Cells
  <2> QED
    BY <2>1
<1> DEFINE last == <<[text |-> "end", oid |-> oid, lf |-> TRUE]>>
<1>3. Len(last) = 1
  OBVIOUS
<1> HIDE DEF last
<1>4. last \in Seq(Cells)
  BY <1>2 DEF last
<1>5. Body(oid) \in Seq(Cells) /\ Len(Body(oid)) = objects[oid].size /\ objects[oid].size \in Nat
  BY BodyOK
<1> DEFINE header == Header(oid)
           body == Body(oid)
           size == objects[oid].size
<1>s. header \in Seq(Cells) /\ body \in Seq(Cells)
  BY <1>1, <1>5
<1>6. Len(header) = 2 /\ Len(body) = size /\ size \in Nat
  BY <1>1, <1>5
<1>7. Part(oid) = IF objects[oid].present THEN header \o body \o last ELSE header
  BY DEF Part, last
<1> HIDE DEF header, body, size
<1>8. /\ header \o body \o last \in Seq(Cells) /\ Len(header \o body \o last) = size + 3
      /\ (header \o body \o last)[1] = header[1] /\ (header \o body \o last)[2] = header[2]
      /\ \A k \in 1..size : (header \o body \o last)[2 + k] = body[k]
  <2> DEFINE two == header \o body
             all == two \o last
  <2>1. /\ two \in Seq(Cells) /\ Len(two) = Len(header) + Len(body)
        /\ \A k \in 1..Len(header) : two[k] = header[k]
        /\ \A k \in 1..Len(body) : two[Len(header) + k] = body[k]
    BY <1>s
  <2> HIDE DEF two
  <2>2. /\ all \in Seq(Cells) /\ Len(all) = Len(two) + Len(last)
        /\ \A k \in 1..Len(two) : all[k] = two[k]
    <3>1. two \in Seq(Cells)
      BY <2>1
    <3> QED
      BY <1>4, <3>1
  <2>3. 1 \in 1..2 /\ 2 \in 1..2 /\ 1 \in 1..(2 + size) /\ 2 \in 1..(2 + size)
        /\ \A k \in 1..size : 2 + k \in 1..(2 + size)
    BY <1>6
  <2> HIDE DEF all
  <2>4. all[1] = header[1] /\ all[2] = header[2] /\ \A k \in 1..size : all[2 + k] = body[k]
    BY <1>6, <2>1, <2>2, <2>3
  <2>5. Len(all) = size + 3
    BY <1>3, <1>6, <2>1, <2>2
  <2> QED
    BY <2>2, <2>4, <2>5 DEF all, two
<1>9. objects[oid].present \in BOOLEAN
  BY BodyOK
<1> QED
  BY <1>s, <1>6, <1>7, <1>8, <1>9 DEF header, body, size

\* Where the cells of each object are in the output.
LEMMA OutputLayout ==
  ASSUME ObjectsOK, NEW w \in Seq(Oids)
  PROVE  LET start == Starts(w)
             out == Output(w) IN
         /\ out \in Seq(Cells)
         /\ start \in [1..(Len(w) + 1) -> Nat] /\ start[1] = 0 /\ start[Len(w) + 1] = Len(out)
         /\ \A i \in 1..Len(w) :
              /\ start[i + 1] = start[i] + (IF objects[w[i]].present THEN objects[w[i]].size + 3 ELSE 2)
              /\ start[i + 1] <= Len(out)
              /\ out[start[i] + 1] = Header(w[i])[1] /\ out[start[i] + 2] = Header(w[i])[2]
              /\ objects[w[i]].present =>
                   \A k \in 1..objects[w[i]].size : out[start[i] + 2 + k] = Body(w[i])[k]
<1> DEFINE seqs == Parts(w)
           out == Output(w)
           start == Starts(w)
<1>1. \A i \in 1..Len(w) : w[i] \in Oids
  OBVIOUS
<1>2. seqs \in Seq(Seq(Cells)) /\ Len(seqs) = Len(w) /\ \A i \in 1..Len(w) : seqs[i] = Part(w[i])
  <2>1. seqs \in [1..Len(w) -> Seq(Cells)]
    BY <1>1, PartOK DEF Parts
  <2>2. seqs \in Seq(Seq(Cells))
    BY <2>1, SeqDef
  <2> QED
    BY <2>1, <2>2, LenProperties DEF Parts
<1>3. out = FlattenSeq(seqs)
  BY DEF Output, Parts, Part
<1> HIDE DEF seqs, out
<1>4. out \in Seq(Cells) /\ \E st : Layout(st, seqs, out)
  BY <1>2, <1>3, FlattenLayout
<1>5. Layout(start, seqs, out)
  BY <1>4 DEF Starts, StartsIn, seqs, out
<1> HIDE DEF start
<1>6. /\ start \in [1..(Len(w) + 1) -> Nat] /\ start[1] = 0 /\ start[Len(w) + 1] = Len(out)
      /\ \A i \in 1..Len(w) :
           start[i + 1] = start[i] + Len(seqs[i]) /\ PartAt(out, start[i], seqs[i])
  BY <1>2, <1>5 DEF Layout
<1>7. ASSUME NEW i \in 1..Len(w)
      PROVE  /\ start[i + 1] = start[i] + (IF objects[w[i]].present THEN objects[w[i]].size + 3 ELSE 2)
             /\ start[i + 1] <= Len(out)
             /\ out[start[i] + 1] = Header(w[i])[1] /\ out[start[i] + 2] = Header(w[i])[2]
             /\ objects[w[i]].present =>
                  \A k \in 1..objects[w[i]].size : out[start[i] + 2 + k] = Body(w[i])[k]
  <2> DEFINE oid == w[i]
             part == Part(oid)
             size == objects[oid].size
             present == objects[oid].present
  <2>1. /\ part \in Seq(Cells) /\ size \in Nat /\ present \in BOOLEAN
        /\ Len(part) = IF present THEN size + 3 ELSE 2
        /\ part[1] = Header(oid)[1] /\ part[2] = Header(oid)[2]
        /\ present => \A k \in 1..size : part[2 + k] = Body(oid)[k]
    BY <1>1, PartOK, BodyOK
  <2>2. start[i + 1] = start[i] + Len(part) /\ PartAt(out, start[i], part)
    BY <1>2, <1>6
  <2>3. start[i] \in Nat
    BY <1>6
  <2> HIDE DEF part, size, present, oid
  <2>4. start[i] + Len(part) <= Len(out) /\ \A k \in 1..Len(part) : out[start[i] + k] = part[k]
    BY <2>2 DEF PartAt
  <2>5. 1 \in 1..Len(part) /\ 2 \in 1..Len(part)
    BY <2>1
  <2>6. present => \A k \in 1..size : 2 + k \in 1..Len(part) /\ start[i] + (2 + k) = start[i] + 2 + k
    <3>1. present => Len(part) = size + 3
      BY <2>1
    <3>2. \A k \in 1..size : 2 + k \in 1..(size + 3) /\ start[i] + (2 + k) = start[i] + 2 + k
      <4>1. start[i] \in Int /\ size \in Nat
        BY <2>1, <2>3
      <4> QED
        BY <4>1
    <3> QED
      BY <3>1, <3>2
  <2>7. present => \A k \in 1..size : out[start[i] + 2 + k] = Body(oid)[k]
    BY <2>1, <2>4, <2>6
  <2>8. /\ start[i + 1] = start[i] + (IF present THEN size + 3 ELSE 2)
        /\ start[i + 1] <= Len(out)
        /\ out[start[i] + 1] = Header(oid)[1] /\ out[start[i] + 2] = Header(oid)[2]
    <3>1. start[i + 1] = start[i] + (IF present THEN size + 3 ELSE 2)
      BY <2>1, <2>2
    <3>2. start[i + 1] <= Len(out)
      BY <2>2, <2>4
    <3>3. out[start[i] + 1] = part[1] /\ out[start[i] + 2] = part[2]
      BY <2>4, <2>5
    <3> QED
      BY <2>1, <3>1, <3>2, <3>3
  <2> QED
    BY <2>7, <2>8 DEF present, size, oid
<1> QED
  BY <1>4, <1>6, <1>7 DEF out, start

-----------------------------------------------------------------------------
(* The data handler *)

Blob == [oid : Oids \cup {0}, size : Nat, kept : Seq(Cells), got : Nat, keep : BOOLEAN]
Result == [status : {"none", "ok", "binary", "oversized", "budget-exceeded"}, content : Seq(Cells)]
Parser == [pending : Seq(Cells), index : Nat, expect : Blob, retained : Nat, filesRead : Nat,
           results : [Oids -> Result], failed : BOOLEAN, wanted : Seq(Oids)]

\* How much of the output the parser has consumed.
Place(s) == Starts(s.wanted)[s.index + 1] + IF s.expect = NoBlob THEN 0 ELSE 2 + s.expect.got

\* pending is what has arrived, n cells, and has not been consumed.
Aligned(s, n) ==
  /\ s.index <= Len(s.wanted)
  /\ Place(s) + Len(s.pending) = n /\ n <= Len(Output(s.wanted))
  /\ \A k \in 1..Len(s.pending) : s.pending[k] = Output(s.wanted)[Place(s) + k]

\* A content that is being read is that of the object whose turn it is.
Expecting(s) ==
  s.expect # NoBlob =>
    LET oid == s.wanted[s.index + 1] IN
    /\ s.index < Len(s.wanted) /\ objects[oid].present
    /\ s.expect.oid = oid /\ s.expect.size = objects[oid].size
    /\ s.expect.got <= objects[oid].size
    /\ s.expect.keep =>
         /\ Len(s.expect.kept) = s.expect.got
         /\ \A k \in 1..s.expect.got : s.expect.kept[k] = Body(oid)[k]

\* A result tells of its object what BlobsExact says.
Tells(oid, result) ==
  /\ result.status # "none" /\ objects[oid].present
  /\ result.status = "ok" => result.content = Body(oid) /\ ~objects[oid].binary
  /\ result.status = "binary" => objects[oid].binary
  /\ result.status = "oversized" => objects[oid].size > MaxFileBytes

\* The objects before the index are answered, those after it are not; the one
\* whose turn it is may have been refused.
Refused(s) == s.expect # NoBlob /\ ~s.expect.keep
Answered(s) ==
  /\ \A i \in 1..Len(s.wanted) :
       LET result == s.results[s.wanted[i]] IN
       /\ i <= s.index \/ (i = s.index + 1 /\ Refused(s)) => Tells(s.wanted[i], result)
       /\ i = s.index + 1 /\ Refused(s) => result.status \notin {"ok", "binary"}
       /\ i > s.index + 1 \/ (i = s.index + 1 /\ ~Refused(s)) => result = Unread
  /\ \A oid \in Oids : oid \notin ToSet(s.wanted) => s.results[oid] = Unread

\* The budget is charged with the objects whose content is there or being kept.
Claimed(s) ==
  {oid \in ToSet(s.wanted) : s.results[oid].status \in {"ok", "binary"}}
    \cup (IF s.expect # NoBlob /\ s.expect.keep THEN {s.expect.oid} ELSE {})
ObjectSizes == [oid \in Oids |-> objects[oid].size]
Charged(s) ==
  /\ s.retained = SumFunctionOnSet(ObjectSizes, Claimed(s)) /\ s.retained <= MaxTotalBytes
  /\ s.filesRead = Cardinality(Claimed(s)) /\ s.filesRead <= MaxFiles

Distinct(w) == \A i, j \in 1..Len(w) : w[i] = w[j] => i = j

ParserOK(s, n) ==
  /\ s \in Parser
  /\ ~s.failed => Distinct(s.wanted) /\ Aligned(s, n) /\ Expecting(s) /\ Answered(s) /\ Charged(s)

\* What the layout says of the object whose turn it is.
LEMMA TurnOf ==
  ASSUME ObjectsOK, NEW n \in Nat, NEW s, ParserOK(s, n), ~s.failed, s.index < Len(s.wanted)
  PROVE  LET oid == s.wanted[s.index + 1]
             from == Starts(s.wanted)[s.index + 1]
             next == Starts(s.wanted)[(s.index + 1) + 1]
             out == Output(s.wanted) IN
         /\ s.index + 1 \in 1..Len(s.wanted) /\ oid \in Oids /\ oid \in ToSet(s.wanted)
         /\ from \in Nat /\ next \in Nat /\ next <= Len(out)
         /\ next = from + (IF objects[oid].present THEN objects[oid].size + 3 ELSE 2)
         /\ out[from + 1] = Header(oid)[1] /\ out[from + 2] = Header(oid)[2]
         /\ objects[oid].present => \A k \in 1..objects[oid].size : out[from + 2 + k] = Body(oid)[k]
<1>1. s.wanted \in Seq(Oids) /\ s.index \in Nat /\ Len(s.wanted) \in Nat
  BY LenProperties DEF ParserOK, Parser
<1>2. s.index + 1 \in 1..Len(s.wanted) /\ s.index + 1 \in 1..(Len(s.wanted) + 1)
      /\ (s.index + 1) + 1 \in 1..(Len(s.wanted) + 1)
  BY <1>1
<1>3. s.wanted[s.index + 1] \in Oids /\ s.wanted[s.index + 1] \in ToSet(s.wanted)
  BY <1>1, <1>2, ElementsFinite
<1> QED
  BY <1>1, <1>2, <1>3, OutputLayout

\* The objects the budget is charged with are wanted ones, finitely many.
LEMMA ClaimedFinite ==
  ASSUME NEW n \in Nat, NEW s, ParserOK(s, n), ~s.failed
  PROVE  IsFiniteSet(Claimed(s)) /\ Claimed(s) \subseteq ToSet(s.wanted) /\ ToSet(s.wanted) \subseteq Oids
<1>1. s.wanted \in Seq(Oids) /\ s.index \in Nat /\ Expecting(s)
  BY DEF ParserOK, Parser
<1>2. IsFiniteSet(ToSet(s.wanted)) /\ \A i \in 1..Len(s.wanted) : s.wanted[i] \in ToSet(s.wanted)
  BY <1>1, ElementsFinite
<1>3. ToSet(s.wanted) \subseteq Oids
  BY <1>1 DEF ToSet
<1>4. s.expect # NoBlob => s.expect.oid \in ToSet(s.wanted)
  BY <1>1, <1>2, LenProperties DEF Expecting
<1>5. Claimed(s) \subseteq ToSet(s.wanted)
  BY <1>4 DEF Claimed
<1> QED
  BY <1>2, <1>3, <1>5, FS_Subset

\* A header that has arrived is taken off.
LEMMA AnnouncedKeeps ==
  ASSUME ObjectsOK, NEW n \in Nat, NEW s, ParserOK(s, n), ~s.failed, s.expect = NoBlob,
         s.index < Len(s.wanted), objects[s.wanted[s.index + 1]].present, Len(s.pending) >= 2
  PROVE  ParserOK(Announced(s, objects[s.wanted[s.index + 1]].size, SubSeq(s.pending, 2 + 1, Len(s.pending))), n)
<1> DEFINE oid == s.wanted[s.index + 1]
           size == objects[oid].size
           keep == Keeps(s, size)
           rest == SubSeq(s.pending, 2 + 1, Len(s.pending))
           refusal == [status |-> IF size > MaxFileBytes THEN "oversized" ELSE "budget-exceeded", content |-> <<>>]
           t == Announced(s, size, rest)
           from == Starts(s.wanted)[s.index + 1]
           out == Output(s.wanted)
<1>1. /\ s \in Parser /\ s.pending \in Seq(Cells) /\ s.index \in Nat /\ s.wanted \in Seq(Oids)
      /\ s.retained \in Nat /\ s.filesRead \in Nat /\ s.results \in [Oids -> Result] /\ Len(s.wanted) \in Nat
      /\ Len(s.pending) \in Nat
  BY LenProperties DEF ParserOK, Parser
<1>2. Distinct(s.wanted) /\ Aligned(s, n) /\ Answered(s) /\ Charged(s)
  BY DEF ParserOK
<1>3. oid \in Oids /\ oid \in ToSet(s.wanted) /\ s.index + 1 \in 1..Len(s.wanted) /\ from \in Nat
      /\ objects[oid].present
  BY TurnOf
<1>4. size \in Nat /\ keep \in BOOLEAN /\ MaxFileBytes \in Nat /\ MaxTotalBytes \in Nat /\ MaxFiles \in Nat
  BY <1>1, <1>3, BodyOK, ReaderAssumption DEF Keeps, ReaderAssumption
<1>5. /\ rest \in Seq(Cells) /\ Len(rest) = Len(s.pending) - 2
      /\ \A k \in 1..Len(rest) : rest[k] = s.pending[2 + k]
  <2>1. \A k \in (2 + 1)..Len(s.pending) : s.pending[k] \in Cells
    BY <1>1, ElementOfSeq
  <2>2. /\ rest \in Seq(Cells)
        /\ Len(rest) = IF 2 + 1 <= Len(s.pending) THEN Len(s.pending) - (2 + 1) + 1 ELSE 0
        /\ \A k \in 1..(Len(s.pending) - (2 + 1) + 1) : rest[k] = s.pending[(2 + 1) + k - 1]
    <3>1. 2 + 1 \in Int /\ Len(s.pending) \in Int
      BY <1>1
    <3> QED
      BY <2>1, <3>1, SubSeqProperties
  <2> DEFINE l == Len(s.pending)
  <2> HIDE DEF rest, l
  <2>3. l \in Nat /\ l >= 2 /\ Len(rest) = l - 2 /\ \A k \in 1..(l - 2) : rest[k] = s.pending[(2 + 1) + k - 1]
    BY <1>1, <2>2 DEF l
  <2>4. \A k \in 1..(l - 2) : (2 + 1) + k - 1 = 2 + k
    BY <2>3
  <2>5. \A k \in 1..(l - 2) : rest[k] = s.pending[2 + k]
    BY <2>3, <2>4
  <2> QED
    BY <2>2, <2>3, <2>5 DEF l
<1>6. refusal \in Result /\ refusal.status \in {"oversized", "budget-exceeded"}
      /\ (refusal.status = "oversized" => size > MaxFileBytes)
  BY <1>4 DEF Result
<1> DEFINE expect == [oid |-> oid, size |-> size, kept |-> <<>>, got |-> 0, keep |-> keep]
<1>7. /\ expect \in Blob /\ expect.oid = oid /\ expect.size = size /\ expect.got = 0 /\ expect.keep = keep
      /\ expect.kept = <<>> /\ expect # NoBlob
  <2>1. <<>> \in Seq(Cells) /\ expect.oid # 0
    BY <1>3, IndexAssumption DEF IndexAssumption
  <2>2. expect # NoBlob
    BY <2>1 DEF NoBlob
  <2> HIDE DEF oid, size, keep
  <2> QED
    BY <1>3, <1>4, <2>1, <2>2 DEF Blob
<1> DEFINE results == [s.results EXCEPT ![oid] = IF keep THEN s.results[oid] ELSE refusal]
           retained == IF keep THEN s.retained + size ELSE s.retained
           filesRead1 == IF keep THEN s.filesRead + 1 ELSE s.filesRead
<1>8. results \in [Oids -> Result] /\ retained \in Nat /\ filesRead1 \in Nat
  BY <1>1, <1>3, <1>4, <1>6
<1>9. t = [s EXCEPT !.pending = rest, !.expect = expect, !.retained = retained, !.filesRead = filesRead1,
                    !.results = results]
  BY <1>1 DEF Announced, Parser
<1> HIDE DEF t, rest, expect, results, retained, filesRead1
<1>10. /\ t \in Parser /\ t.pending = rest /\ t.expect = expect /\ t.retained = retained
       /\ t.filesRead = filesRead1 /\ t.results = results /\ t.index = s.index /\ t.wanted = s.wanted
       /\ t.failed = s.failed
  BY <1>1, <1>5, <1>7, <1>8, <1>9 DEF Parser
<1>11. Aligned(t, n)
  <2>1. Place(s) = from /\ Place(t) = from + 2
    BY <1>3, <1>7, <1>10 DEF Place
  <2>2. \A k \in 1..Len(rest) : rest[k] = out[from + 2 + k]
    <3>1. ASSUME NEW k \in 1..Len(rest) PROVE rest[k] = out[from + 2 + k]
      <4> DEFINE l == Len(s.pending)
      <4>0. l \in Nat /\ k \in 1..(l - 2) /\ from \in Nat
        BY <1>1, <1>3, <1>5
      <4> HIDE DEF l, from
      <4>3. 2 + k \in 1..l /\ from + (2 + k) = from + 2 + k
        BY <4>0
      <4>1. 2 + k \in 1..Len(s.pending) /\ from + (2 + k) = from + 2 + k
        BY <4>3 DEF l
      <4>2. rest[k] = s.pending[2 + k] /\ s.pending[2 + k] = out[Place(s) + (2 + k)]
        BY <1>2, <1>5, <4>1 DEF Aligned
      <4> QED
        BY <2>1, <4>1, <4>2
    <3> QED
      BY <3>1
  <2>3. from + 2 + Len(rest) = n /\ n <= Len(out) /\ s.index <= Len(s.wanted)
    BY <1>1, <1>2, <1>3, <1>5, <2>1 DEF Aligned
  <2> QED
    BY <1>10, <2>1, <2>2, <2>3 DEF Aligned
<1>12. Expecting(t)
  <2>1. size >= 0 /\ Len(<<>>) = 0 /\ 1..0 = {}
    BY <1>4
  <2> QED
    BY <1>3, <1>7, <1>10, <2>1 DEF Expecting
<1>13. /\ s.results[oid] = Unread
       /\ \A i \in 1..Len(s.wanted) : i # s.index + 1 => s.wanted[i] # oid /\ results[s.wanted[i]] = s.results[s.wanted[i]]
       /\ results[oid] = IF keep THEN Unread ELSE refusal
  <2>1. s.results[oid] = Unread
    BY <1>2, <1>3 DEF Answered, Refused
  <2>2. \A i \in 1..Len(s.wanted) : i # s.index + 1 => s.wanted[i] # oid
    BY <1>2, <1>3 DEF Distinct
  <2>3. \A i \in 1..Len(s.wanted) : s.wanted[i] \in Oids
    BY <1>1
  <2> QED
    BY <1>1, <1>3, <2>1, <2>2, <2>3 DEF results
<1>14. Answered(t)
  <2> HIDE DEF oid, size, keep, refusal
  <2>1. Refused(t) <=> ~keep
    BY <1>7, <1>10 DEF Refused
  <2>2. ~Refused(s)
    BY DEF Refused
  <2>3. Tells(oid, refusal)
    BY <1>3, <1>6 DEF Tells, size
  <2>4. ASSUME NEW i \in 1..Len(s.wanted)
        PROVE  LET result == results[s.wanted[i]] IN
               /\ i <= s.index \/ (i = s.index + 1 /\ ~keep) => Tells(s.wanted[i], result)
               /\ i = s.index + 1 /\ ~keep => result.status \notin {"ok", "binary"}
               /\ i > s.index + 1 \/ (i = s.index + 1 /\ keep) => result = Unread
    <3>1. CASE i = s.index + 1
      BY <1>1, <1>6, <1>13, <2>3, <3>1 DEF oid
    <3>2. CASE i # s.index + 1
      BY <1>1, <1>2, <1>13, <2>2, <3>2 DEF Answered
    <3> QED
      BY <3>1, <3>2
  <2>5. ASSUME NEW o \in Oids, o \notin ToSet(s.wanted) PROVE results[o] = Unread
    BY <1>1, <1>2, <1>3, <2>5 DEF Answered, results
  <2> QED
    BY <1>10, <2>1, <2>4, <2>5 DEF Answered
<1>15. Charged(t)
  <2> HIDE DEF oid, size, keep, refusal
  <2>1. /\ results[oid].status \notin {"ok", "binary"} /\ s.results[oid].status \notin {"ok", "binary"}
        /\ \A o \in Oids : o # oid => results[o] = s.results[o]
    BY <1>1, <1>6, <1>13 DEF results, Unread
  <2>2. ToSet(s.wanted) \subseteq Oids /\ IsFiniteSet(Claimed(s))
    BY ClaimedFinite
  <2>3. Claimed(s) = {o \in ToSet(s.wanted) : s.results[o].status \in {"ok", "binary"}}
    BY DEF Claimed
  <2>4. Claimed(t) = Claimed(s) \cup (IF keep THEN {oid} ELSE {})
    BY <1>7, <1>10, <2>1, <2>2, <2>3 DEF Claimed
  <2>5. oid \notin Claimed(s)
    BY <2>1, <2>3
  <2>6. s.retained = SumFunctionOnSet(ObjectSizes, Claimed(s)) /\ s.filesRead = Cardinality(Claimed(s))
        /\ s.retained <= MaxTotalBytes /\ s.filesRead <= MaxFiles
    BY <1>2 DEF Charged
  <2>7. CASE ~keep
    BY <1>10, <2>4, <2>6, <2>7 DEF Charged, retained, filesRead1
  <2>8. CASE keep
    <3>1. Claimed(t) = Claimed(s) \cup {oid}
      BY <2>4, <2>8
    <3>2. Cardinality(Claimed(t)) = s.filesRead + 1
      BY <2>2, <2>5, <2>6, <3>1, FS_AddElement
    <3>3. SumFunctionOnSet(ObjectSizes, Claimed(t)) = s.retained + size
      <4>1. IsFiniteSet(Claimed(t)) /\ oid \in Claimed(t) /\ Claimed(t) \ {oid} = Claimed(s)
        BY <2>2, <2>5, <3>1, FS_AddElement
      <4>2. \A o \in Claimed(t) : ObjectSizes[o] \in Int
        <5>1. Claimed(t) \subseteq Oids
          BY <1>3, <2>2, <2>3, <3>1
        <5>2. \A o \in Oids : objects[o].size \in Nat
          BY BodyOK
        <5> QED
          BY <5>1, <5>2 DEF ObjectSizes
      <4>3. SumFunctionOnSet(ObjectSizes, Claimed(t)) = ObjectSizes[oid] + SumFunctionOnSet(ObjectSizes, Claimed(s))
        BY <2>2, <2>5, <3>1, <4>2, SumWith
      <4>4. ObjectSizes[oid] = size
        BY <1>3 DEF ObjectSizes, size
      <4>5. SumFunctionOnSet(ObjectSizes, Claimed(t)) = size + s.retained
        BY <2>6, <4>3, <4>4
      <4>6. size + s.retained = s.retained + size
        BY <1>1, <1>4
      <4> QED
        BY <4>5, <4>6
    <3>4. s.retained + size <= MaxTotalBytes /\ s.filesRead + 1 <= MaxFiles
      BY <1>1, <1>4, <2>8 DEF keep, Keeps
    <3> QED
      BY <1>10, <2>8, <3>2, <3>3, <3>4 DEF Charged, retained, filesRead1
  <2> QED
    BY <2>7, <2>8
<1>16. ParserOK(t, n)
  BY <1>2, <1>10, <1>11, <1>12, <1>14, <1>15 DEF ParserOK
<1> QED
  BY <1>16 DEF t, rest

\* A header taken keeps the parser's invariant.
LEMMA HeaderKeeps ==
  ASSUME ObjectsOK, NEW n \in Nat, NEW s, ParserOK(s, n), ~s.failed, s.expect = NoBlob
  PROVE  ParserOK(TakeHeader(s), n)
<1> DEFINE newlines == {i \in DOMAIN s.pending : s.pending[i].lf}
           oid == s.wanted[s.index + 1]
           from == Starts(s.wanted)[s.index + 1]
           out == Output(s.wanted)
           rest(end) == SubSeq(s.pending, end + 1, Len(s.pending))
           expected == IF s.index < Len(s.wanted) THEN oid ELSE 0
           end == Min(newlines)
<1>1. /\ s \in Parser /\ s.pending \in Seq(Cells) /\ s.index \in Nat /\ s.wanted \in Seq(Oids)
      /\ Len(s.wanted) \in Nat /\ Len(s.pending) \in Nat /\ DOMAIN s.pending = 1..Len(s.pending)
  BY LenProperties DEF ParserOK, Parser
<1>2. Aligned(s, n) /\ Place(s) = from + 0
  BY DEF ParserOK, Place
<1>3. CASE newlines = {}
  BY <1>3 DEF TakeHeader
<1>4. CASE newlines # {}
  <2> DEFINE l == Len(s.pending)
  <2>1. l \in Nat /\ l # 0
    BY <1>1, <1>4
  <2>2. s.index < Len(s.wanted)
    <3> SUFFICES ASSUME ~(s.index < Len(s.wanted)) PROVE FALSE
      OBVIOUS
    <3>1. s.index = Len(s.wanted)
      BY <1>1, <1>2 DEF Aligned
    <3>2. from = Len(out) /\ from \in Nat
      <4>1. Len(s.wanted) + 1 \in 1..(Len(s.wanted) + 1)
        BY <1>1
      <4> QED
        BY <1>1, <3>1, <4>1, OutputLayout
    <3>3. from + 0 + l = n /\ n <= Len(out)
      BY <1>2 DEF Aligned
    <3> HIDE DEF from, l
    <3> QED
      BY <2>1, <3>2, <3>3
  <2>3. from \in Nat /\ oid \in Oids /\ out[from + 1] = Header(oid)[1] /\ out[from + 2] = Header(oid)[2]
    BY <2>2, TurnOf
  <2>4. \A k \in 1..l : s.pending[k] = out[from + k]
    <3>1. \A k \in 1..l : from + 0 + k = from + k
      BY <2>3
    <3> QED
      BY <1>2, <3>1 DEF Aligned
  <2>5. s.pending[1] = Header(oid)[1] /\ (2 \in 1..l => s.pending[2] = Header(oid)[2])
    <3>1. 1 \in 1..l
      BY <2>1
    <3> QED
      BY <2>3, <2>4, <3>1
  <2>6. 1 \notin newlines /\ s.pending[1].oid = oid
        /\ s.pending[1].text = IF objects[oid].present THEN "blob" ELSE "missing"
    BY <2>5 DEF Header
  <2>7. 2 \in 1..l => 2 \in newlines
    BY <1>1, <2>5 DEF Header
  <2>8. 2 <= l /\ end = 2
    <3>1. newlines \in SUBSET Nat /\ newlines \subseteq 1..l
      BY <1>1
    <3>2. end \in newlines /\ \A y \in newlines : end <= y
      BY <1>4, <3>1, MinExists
    <3> HIDE DEF newlines, end, l
    <3>3. end \in 1..l /\ end # 1
      BY <2>6, <3>1, <3>2
    <3>4. 2 \in 1..l
      BY <2>1, <3>3
    <3> QED
      BY <2>1, <2>7, <3>2, <3>3, <3>4
  <2>9. CASE objects[oid].present
    <3>1. TakeHeader(s) = Announced(s, objects[expected].size, rest(end))
      <4>1. end = 2 /\ s.pending[1].text = "blob" /\ s.pending[1].oid = expected
        BY <2>2, <2>6, <2>8, <2>9
      <4> QED
        BY <1>4, <4>1 DEF TakeHeader
    <3>2. expected = oid
      BY <2>2
    <3>3. ParserOK(Announced(s, objects[oid].size, rest(2)), n)
      <4>1. Len(s.pending) >= 2
        BY <2>1, <2>8
      <4> QED
        BY <2>2, <2>9, <4>1, AnnouncedKeeps
    <3> QED
      BY <2>8, <3>1, <3>2, <3>3
  <2>10. CASE ~objects[oid].present
    <3>1. TakeHeader(s) = [s EXCEPT !.pending = rest(end), !.failed = TRUE]
      <4>1. s.pending[1].text # "blob"
        BY <2>6, <2>10
      <4> QED
        BY <1>4, <4>1 DEF TakeHeader
    <3>2. rest(end) \in Seq(Cells)
      <4>1. \A k \in (end + 1)..Len(s.pending) : s.pending[k] \in Cells
        BY <1>1, <2>8, ElementOfSeq
      <4>2. end + 1 \in Int /\ Len(s.pending) \in Int
        BY <1>1, <2>8
      <4> QED
        BY <4>1, <4>2, SubSeqProperties
    <3> HIDE DEF rest, end
    <3> QED
      BY <1>1, <3>1, <3>2 DEF ParserOK, Parser
  <2> QED
    BY <2>9, <2>10
<1> QED
  BY <1>3, <1>4

\* A piece of a content that has arrived, and what is left after it.
TakeOf(s) == Min({s.expect.size + 1 - s.expect.got, Len(s.pending)})
KeptWith(s) == IF s.expect.keep THEN Pieces(s, TakeOf(s)) ELSE s.expect.kept
Taken(s) ==
  [s EXCEPT !.expect.kept = IF s.expect.keep THEN Pieces(s, TakeOf(s)) ELSE @,
            !.expect.got = @ + TakeOf(s),
            !.pending = SubSeq(@, TakeOf(s) + 1, Len(@))]

\* What is left is what comes after the piece in the output.
Follows(s, t) ==
  \A k \in 1..Len(t.pending) : t.pending[k] = Output(s.wanted)[Place(s) + TakeOf(s) + k]

\* What taking a piece of the expected object does to the parser: how much it takes,
\* what it keeps, and where that leaves it in git's output.
LEMMA PieceTaken ==
  ASSUME ObjectsOK, NEW n \in Nat, NEW s, ParserOK(s, n), ~s.failed, s.expect # NoBlob
  PROVE  LET oid == s.wanted[s.index + 1]
             size == objects[oid].size
             take == TakeOf(s)
             kept == KeptWith(s)
             t == Taken(s) IN
         /\ s.expect.oid = oid /\ s.expect.size = size /\ size \in Nat /\ s.expect.got \in Nat
         /\ take \in Nat /\ s.expect.got + take <= size + 1
         /\ s.expect.got + take < size + 1 => take = Len(s.pending)
         /\ t = [s EXCEPT !.expect = [s.expect EXCEPT !.kept = kept, !.got = s.expect.got + take],
                          !.pending = SubSeq(s.pending, take + 1, Len(s.pending))]
         /\ t \in Parser /\ t.index = s.index /\ t.wanted = s.wanted /\ t.failed = s.failed
         /\ t.retained = s.retained /\ t.filesRead = s.filesRead /\ t.results = s.results
         /\ t.expect.oid = oid /\ t.expect.size = size /\ t.expect.keep = s.expect.keep
         /\ t.expect.got = s.expect.got + take /\ t.expect.kept = kept
         /\ Place(s) + take + Len(t.pending) = n
         /\ Follows(s, t)
         /\ s.expect.keep => /\ Len(kept) = s.expect.got + take
                             /\ \A k \in 1..Len(kept) : k <= size => kept[k] = Body(oid)[k]
<1> DEFINE oid == s.wanted[s.index + 1]
           size == objects[oid].size
           out == Output(s.wanted)
           take == TakeOf(s)
           kept == KeptWith(s)
           t == Taken(s)
           l == Len(s.pending)
           got == s.expect.got
           from == Starts(s.wanted)[s.index + 1]
           rest == SubSeq(s.pending, take + 1, Len(s.pending))
           piece == SubSeq(s.pending, 1, take)
<1>1. /\ s \in Parser /\ s.pending \in Seq(Cells) /\ s.index \in Nat /\ s.wanted \in Seq(Oids)
      /\ s.expect \in Blob /\ got \in Nat /\ l \in Nat /\ s.expect.kept \in Seq(Cells) /\ s.expect.keep \in BOOLEAN
  BY LenProperties DEF ParserOK, Parser, Blob
<1>2. Aligned(s, n) /\ Expecting(s) /\ s.index < Len(s.wanted) /\ objects[oid].present
      /\ s.expect.oid = oid /\ s.expect.size = size /\ got <= size
  BY DEF ParserOK, Expecting
<1>3. oid \in Oids /\ size \in Nat /\ from \in Nat
  BY <1>2, TurnOf, BodyOK
<1>4. \A k \in 1..size : out[from + 2 + k] = Body(oid)[k]
  BY <1>2, TurnOf
<1>5. Place(s) = from + (2 + got) /\ from + (2 + got) + l = n
      /\ \A k \in 1..l : s.pending[k] = out[from + (2 + got) + k]
  BY <1>2 DEF Place, Aligned
<1>6. take = IF size + 1 - got <= l THEN size + 1 - got ELSE l
  <2>1. size + 1 - got \in Int /\ l \in Int /\ take = Min({size + 1 - got, l})
    BY <1>1, <1>2, <1>3 DEF TakeOf
  <2> HIDE DEF size, got, l, take
  <2> QED
    BY <2>1, MinOfTwo
<1>7. take \in Nat /\ take <= l /\ got + take <= size + 1 /\ (got + take < size + 1 => take = l)
  <2>1. got \in Nat /\ size \in Nat /\ l \in Nat /\ got <= size
    BY <1>1, <1>2, <1>3
  <2> HIDE DEF size, got, l, take
  <2> QED
    BY <1>6, <2>1
<1>8. rest \in Seq(Cells) /\ Len(rest) = l - take /\ \A k \in 1..(l - take) : rest[k] = s.pending[take + k]
  <2>1. \A k \in (take + 1)..l : s.pending[k] \in Cells
    <3> HIDE DEF take
    <3>1. \A k \in (take + 1)..l : k \in 1..Len(s.pending)
      BY <1>1, <1>7
    <3> QED
      BY <1>1, <3>1, ElementOfSeq
  <2>2. take + 1 \in Int /\ l \in Int
    BY <1>1, <1>7
  <2>3. /\ rest \in Seq(Cells)
        /\ Len(rest) = IF take + 1 <= l THEN l - (take + 1) + 1 ELSE 0
        /\ \A k \in 1..(l - (take + 1) + 1) : rest[k] = s.pending[(take + 1) + k - 1]
    <3> HIDE DEF take
    <3> QED
      BY <2>1, <2>2, SubSeqProperties
  <2> HIDE DEF rest, l, take
  <2>4. l - (take + 1) + 1 = l - take /\ (~(take + 1 <= l) => l - take = 0)
        /\ \A k \in 1..(l - take) : (take + 1) + k - 1 = take + k
    BY <1>1, <1>7
  <2>5. Len(rest) = l - take
    BY <2>3, <2>4
  <2>6. \A k \in 1..(l - take) : rest[k] = s.pending[take + k]
    BY <2>3, <2>4
  <2> QED
    BY <2>3, <2>5, <2>6
<1>9. piece \in Seq(Cells) /\ Len(piece) = take /\ \A k \in 1..take : piece[k] = s.pending[k]
  <2>1. \A k \in 1..take : s.pending[k] \in Cells
    <3> HIDE DEF take
    <3>1. \A k \in 1..take : k \in 1..Len(s.pending)
      BY <1>1, <1>7
    <3> QED
      BY <1>1, <3>1, ElementOfSeq
  <2>2. 1 \in Int /\ take \in Int
    BY <1>7
  <2>3. /\ piece \in Seq(Cells)
        /\ Len(piece) = IF 1 <= take THEN take - 1 + 1 ELSE 0
        /\ \A k \in 1..(take - 1 + 1) : piece[k] = s.pending[1 + k - 1]
    <3> HIDE DEF take
    <3> QED
      BY <2>1, <2>2, SubSeqProperties
  <2> HIDE DEF piece, take
  <2>4. take - 1 + 1 = take /\ (~(1 <= take) => take = 0) /\ \A k \in 1..take : 1 + k - 1 = k
    BY <1>7
  <2>5. Len(piece) = take
    BY <2>3, <2>4
  <2>6. \A k \in 1..take : piece[k] = s.pending[k]
    BY <2>3, <2>4
  <2> QED
    BY <2>3, <2>5, <2>6
<1>10. kept \in Seq(Cells)
  <2>1. s.expect.kept \o piece \in Seq(Cells)
    <3> HIDE DEF piece
    <3>1. piece \in Seq(Cells) /\ s.expect.kept \in Seq(Cells)
      BY <1>1, <1>9
    <3> QED
      BY <3>1, ConcatProperties
  <2> QED
    BY <1>1, <2>1 DEF KeptWith, Pieces
<1>11. ASSUME s.expect.keep
       PROVE  /\ Len(kept) = got + take
              /\ \A k \in 1..Len(kept) : k <= size => kept[k] = Body(oid)[k]
  <2> DEFINE old == s.expect.kept
  <2>1. old \in Seq(Cells) /\ piece \in Seq(Cells) /\ kept = old \o piece
    BY <1>1, <1>9, <1>11 DEF KeptWith, Pieces
  <2>2. Len(old) = got /\ \A k \in 1..got : old[k] = Body(oid)[k]
    BY <1>2, <1>11 DEF Expecting
  <2> HIDE DEF kept, old, piece
  <2>3. /\ Len(kept) = Len(old) + Len(piece)
        /\ \A k \in 1..Len(old) : kept[k] = old[k]
        /\ \A k \in 1..Len(piece) : kept[Len(old) + k] = piece[k]
    <3>1. old \in Seq(Cells) /\ piece \in Seq(Cells)
      BY <2>1
    <3>2. /\ Len(old \o piece) = Len(old) + Len(piece)
          /\ \A k \in 1..Len(old) : (old \o piece)[k] = old[k]
          /\ \A k \in 1..Len(piece) : (old \o piece)[Len(old) + k] = piece[k]
      BY <3>1, JoinedPlaces
    <3> QED
      BY <2>1, <3>2
  <2>4. Len(kept) = got + take
    BY <1>9, <2>2, <2>3
  <2>5. ASSUME NEW k \in 1..(got + take), k <= size PROVE kept[k] = Body(oid)[k]
    <3> HIDE DEF got, take, size, l, oid, out, from
    <3>0. got \in Nat /\ take \in Nat /\ k \in Nat /\ size \in Nat /\ from \in Nat /\ take <= l /\ l \in Nat
      BY <1>1, <1>3, <1>7
    <3>1. CASE k <= got
      <4>1. k \in 1..got
        BY <3>0, <3>1
      <4> QED
        BY <2>2, <2>3, <4>1
    <3>2. CASE ~(k <= got)
      <4> DEFINE j == k - got
      <4>1. j \in 1..take /\ j \in 1..l /\ got + j = k /\ k \in 1..size /\ from + (2 + got) + j = from + 2 + k
        BY <2>5, <3>0, <3>2
      <4> HIDE DEF j
      <4>2. kept[got + j] = piece[j] /\ piece[j] = s.pending[j]
        BY <1>9, <2>2, <2>3, <4>1
      <4>3. s.pending[j] = out[from + (2 + got) + j]
        BY <1>5, <4>1
      <4>4. out[from + 2 + k] = Body(oid)[k]
        BY <1>4, <4>1
      <4> QED
        BY <4>1, <4>2, <4>3, <4>4
    <3> QED
      BY <3>1, <3>2
  <2> QED
    BY <2>4, <2>5
<1>12. t = [s EXCEPT !.expect = [s.expect EXCEPT !.kept = kept, !.got = got + take], !.pending = rest]
  BY <1>1 DEF Taken, KeptWith, Parser, Blob
<1> DEFINE expect == [s.expect EXCEPT !.kept = kept, !.got = got + take]
<1>13. expect \in Blob /\ expect.oid = s.expect.oid /\ expect.size = s.expect.size /\ expect.keep = s.expect.keep
       /\ expect.kept = kept /\ expect.got = got + take
  <2>1. got + take \in Nat
    BY <1>1, <1>7
  <2> HIDE DEF kept, take
  <2> QED
    BY <1>1, <1>10, <2>1 DEF Blob
<1>14. t = [s EXCEPT !.expect = expect, !.pending = rest]
  BY <1>12
<1> HIDE DEF t, expect, rest
<1>15. /\ t \in Parser /\ t.index = s.index /\ t.wanted = s.wanted /\ t.failed = s.failed
       /\ t.retained = s.retained /\ t.filesRead = s.filesRead /\ t.results = s.results
       /\ t.expect = expect /\ t.pending = rest
  BY <1>1, <1>8, <1>13, <1>14 DEF Parser
<1>16. Place(s) + take + Len(rest) = n /\ \A k \in 1..Len(rest) : rest[k] = out[Place(s) + take + k]
  <2> DEFINE place == Place(s)
  <2>1. place = from + (2 + got) /\ place \in Nat /\ place + l = n /\ l \in Nat /\ take \in Nat /\ take <= l
    BY <1>1, <1>3, <1>5, <1>7
  <2>2. \A k \in 1..l : s.pending[k] = out[place + k]
    BY <1>5, <2>1
  <2> HIDE DEF place, take, l, out
  <2>3. \A k \in 1..(l - take) : take + k \in 1..l /\ place + (take + k) = place + take + k
    BY <2>1
  <2>4. place + take + (l - take) = n
    BY <2>1
  <2>5. \A k \in 1..(l - take) : rest[k] = out[place + take + k]
    BY <1>8, <2>2, <2>3
  <2> QED
    BY <1>8, <2>4, <2>5 DEF place
<1>17. t = [s EXCEPT !.expect = [s.expect EXCEPT !.kept = kept, !.got = s.expect.got + take],
                     !.pending = SubSeq(s.pending, take + 1, Len(s.pending))]
  BY <1>12 DEF rest
<1>18. /\ t.expect.oid = oid /\ t.expect.size = size /\ t.expect.keep = s.expect.keep
       /\ t.expect.got = s.expect.got + take /\ t.expect.kept = kept
  BY <1>2, <1>13, <1>15
<1>19. Place(s) + take + Len(t.pending) = n /\ Follows(s, t)
  BY <1>15, <1>16 DEF Follows
<1>20. s.expect.keep => /\ Len(kept) = s.expect.got + take
                        /\ \A k \in 1..Len(kept) : k <= size => kept[k] = Body(oid)[k]
  BY <1>11
<1> HIDE DEF oid, size, out, take, kept, l, got
<1> QED
  BY <1>1, <1>2, <1>3, <1>7, <1>15, <1>17, <1>18, <1>19, <1>20 DEF oid, size, out, take, kept, t, l, got

\* The content is not complete yet.
LEMMA UnfinishedKeeps ==
  ASSUME ObjectsOK, NEW n \in Nat, NEW s, ParserOK(s, n), ~s.failed, s.expect # NoBlob,
         s.expect.got + TakeOf(s) < s.expect.size + 1
  PROVE  ParserOK(Taken(s), n)
<1> DEFINE oid == s.wanted[s.index + 1]
           size == objects[oid].size
           out == Output(s.wanted)
           take == TakeOf(s)
           kept == KeptWith(s)
           t == Taken(s)
           got == s.expect.got
<1>1. /\ s.index \in Nat /\ s.wanted \in Seq(Oids) /\ Distinct(s.wanted) /\ Aligned(s, n) /\ Expecting(s)
      /\ Answered(s) /\ Charged(s) /\ objects[oid].present /\ s.index < Len(s.wanted)
  BY DEF ParserOK, Parser, Expecting
<1>2. oid \in Oids
  BY <1>1, TurnOf
<1>3. /\ s.expect.oid = oid /\ s.expect.size = size /\ size \in Nat /\ got \in Nat /\ take \in Nat
      /\ t \in Parser /\ t.index = s.index /\ t.wanted = s.wanted /\ t.failed = s.failed
      /\ t.retained = s.retained /\ t.filesRead = s.filesRead /\ t.results = s.results
      /\ t.expect.oid = oid /\ t.expect.size = size /\ t.expect.keep = s.expect.keep
      /\ t.expect.got = got + take /\ t.expect.kept = kept
  BY PieceTaken
<1>4. /\ Place(s) + take + Len(t.pending) = n
      /\ \A k \in 1..Len(t.pending) : t.pending[k] = out[Place(s) + take + k]
      /\ s.expect.keep => /\ Len(kept) = got + take
                          /\ \A k \in 1..Len(kept) : k <= size => kept[k] = Body(oid)[k]
  <2>1. Place(s) + take + Len(t.pending) = n
    BY PieceTaken
  <2>2. \A k \in 1..Len(t.pending) : t.pending[k] = out[Place(s) + take + k]
    <3>1. Follows(s, t)
      BY PieceTaken
    <3> QED
      BY <3>1 DEF Follows
  <2>3. s.expect.keep => /\ Len(kept) = got + take
                         /\ \A k \in 1..Len(kept) : k <= size => kept[k] = Body(oid)[k]
    BY PieceTaken
  <2> QED
    BY <2>1, <2>2, <2>3
<1>5. got + take <= size
  <2> HIDE DEF got, take, size
  <2> QED
    BY <1>3 DEF got, take
<1>6. t.expect # NoBlob
  BY <1>2, <1>3, IndexAssumption DEF NoBlob, IndexAssumption
<1> HIDE DEF t, take, kept, out
<1>7. Place(t) = Place(s) + take
  <2>1. Starts(s.wanted)[s.index + 1] \in Nat
    BY <1>1, TurnOf
  <2>2. Place(s) = Starts(s.wanted)[s.index + 1] + (2 + got)
        /\ Place(t) = Starts(s.wanted)[s.index + 1] + (2 + (got + take))
    BY <1>3, <1>6 DEF Place
  <2> DEFINE from == Starts(s.wanted)[s.index + 1]
  <2>3. from + (2 + (got + take)) = from + (2 + got) + take
    <3> HIDE DEF got, from
    <3>1. from \in Nat
      BY <2>1 DEF from
    <3> QED
      BY <1>3, <3>1
  <2> QED
    BY <2>2, <2>3
<1>8. Aligned(t, n)
  BY <1>1, <1>3, <1>4, <1>7 DEF Aligned, out
<1>9. Expecting(t)
  <2>1. s.expect.keep => Len(kept) = got + take /\ \A k \in 1..(got + take) : kept[k] = Body(oid)[k]
    <3>1. \A k \in 1..(got + take) : k <= size
      <4> HIDE DEF got, size
      <4> QED
        BY <1>3, <1>5
    <3> QED
      BY <1>4, <3>1
  <2> QED
    BY <1>1, <1>3, <1>5, <2>1 DEF Expecting
<1>10. Answered(t)
  <2>1. Refused(t) <=> Refused(s)
    BY <1>3, <1>6 DEF Refused
  <2> QED
    BY <1>1, <1>3, <2>1 DEF Answered
<1>11. Charged(t)
  <2>1. Claimed(t) = Claimed(s)
    BY <1>3, <1>6 DEF Claimed
  <2> QED
    BY <1>1, <1>3, <2>1 DEF Charged
<1>12. ParserOK(t, n)
  BY <1>1, <1>3, <1>8, <1>9, <1>10, <1>11 DEF ParserOK
<1> QED
  BY <1>12 DEF t

\* The content is complete.
LEMMA CompletedKeeps ==
  ASSUME ObjectsOK, NEW n \in Nat, NEW s, ParserOK(s, n), ~s.failed, s.expect # NoBlob,
         ~(s.expect.got + TakeOf(s) < s.expect.size + 1)
  PROVE  ParserOK(Completed(Taken(s)), n)
<1> DEFINE oid == s.wanted[s.index + 1]
           size == objects[oid].size
           out == Output(s.wanted)
           take == TakeOf(s)
           kept == KeptWith(s)
           t == Taken(s)
           got == s.expect.got
           keep == s.expect.keep
           body == SubSeq(kept, 1, Min({size, Len(kept)}))
           told == [status |-> IF objects[oid].binary THEN "binary" ELSE "ok",
                    content |-> IF objects[oid].binary THEN <<>> ELSE body]
           u == Completed(t)
<1>1. /\ s.index \in Nat /\ s.wanted \in Seq(Oids) /\ Distinct(s.wanted) /\ Aligned(s, n) /\ Expecting(s)
      /\ Answered(s) /\ Charged(s) /\ objects[oid].present /\ s.index < Len(s.wanted) /\ keep \in BOOLEAN
      /\ s.results \in [Oids -> Result] /\ Len(s.wanted) \in Nat
  BY LenProperties DEF ParserOK, Parser, Expecting, Blob
<1>2. oid \in Oids /\ oid \in ToSet(s.wanted) /\ s.index + 1 \in 1..Len(s.wanted)
  BY <1>1, TurnOf
<1>3. /\ s.expect.oid = oid /\ s.expect.size = size /\ size \in Nat /\ got \in Nat /\ take \in Nat
      /\ got + take <= size + 1
      /\ t \in Parser /\ t.index = s.index /\ t.wanted = s.wanted /\ t.failed = s.failed
      /\ t.retained = s.retained /\ t.filesRead = s.filesRead /\ t.results = s.results
      /\ t.expect.oid = oid /\ t.expect.size = size /\ t.expect.keep = keep
      /\ t.expect.got = got + take /\ t.expect.kept = kept
  BY PieceTaken
<1>4. /\ Place(s) + take + Len(t.pending) = n
      /\ \A k \in 1..Len(t.pending) : t.pending[k] = out[Place(s) + take + k]
      /\ keep => /\ Len(kept) = got + take
                 /\ \A k \in 1..Len(kept) : k <= size => kept[k] = Body(oid)[k]
  <2>1. Place(s) + take + Len(t.pending) = n
    BY PieceTaken
  <2>2. \A k \in 1..Len(t.pending) : t.pending[k] = out[Place(s) + take + k]
    <3>1. Follows(s, t)
      BY PieceTaken
    <3> QED
      BY <3>1 DEF Follows
  <2>3. s.expect.keep => /\ Len(kept) = got + take
                         /\ \A k \in 1..Len(kept) : k <= size => kept[k] = Body(oid)[k]
    BY PieceTaken
  <2> QED
    BY <2>1, <2>2, <2>3
<1>5. got + take = size + 1
  <2> HIDE DEF got, take, size
  <2> QED
    BY <1>3 DEF got, take
<1>6. ASSUME keep
      PROVE  body = Body(oid)
  <2>1. Len(kept) = size + 1 /\ kept \in Seq(Cells) /\ \A k \in 1..size : kept[k] = Body(oid)[k]
    <3>1. kept \in Seq(Cells)
      <4>1. t.expect \in Blob
        BY <1>3 DEF Parser
      <4> QED
        BY <1>3, <4>1 DEF Blob
    <3>2. \A k \in 1..size : k \in 1..(size + 1) /\ k <= size
      <4> HIDE DEF size
      <4> QED
        BY <1>3
    <3> QED
      BY <1>4, <1>5, <1>6, <3>1, <3>2
  <2>2. Min({size, Len(kept)}) = size
    <3> DEFINE l == Len(kept)
    <3>1. l = size + 1 /\ size \in Nat
      BY <1>3, <2>1
    <3> HIDE DEF size, l
    <3> QED
      BY <3>1, MinOfTwo DEF l
  <2>3. Body(oid) \in Seq(Cells) /\ Len(Body(oid)) = size
    BY <1>2, BodyOK
  <2>4. /\ SubSeq(kept, 1, size) \in Seq(Cells)
        /\ Len(SubSeq(kept, 1, size)) = size
        /\ \A k \in 1..size : SubSeq(kept, 1, size)[k] = kept[k]
    <3> HIDE DEF size, kept
    <3>1. \A k \in 1..size : kept[k] \in Cells
      <4>1. \A k \in 1..size : k \in 1..Len(kept)
        BY <1>3, <2>1
      <4> QED
        BY <2>1, <4>1, ElementOfSeq
    <3>2. /\ SubSeq(kept, 1, size) \in Seq(Cells)
          /\ Len(SubSeq(kept, 1, size)) = IF 1 <= size THEN size - 1 + 1 ELSE 0
          /\ \A k \in 1..(size - 1 + 1) : SubSeq(kept, 1, size)[k] = kept[1 + k - 1]
      <4>1. 1 \in Int /\ size \in Int
        BY <1>3
      <4> QED
        BY <3>1, <4>1, SubSeqProperties
    <3>3. size - 1 + 1 = size /\ (~(1 <= size) => size = 0) /\ \A k \in 1..size : 1 + k - 1 = k
      BY <1>3
    <3> DEFINE sub == SubSeq(kept, 1, size)
    <3> HIDE DEF sub
    <3>4. Len(sub) = size
      BY <3>2, <3>3 DEF sub
    <3>5. \A k \in 1..size : sub[k] = kept[k]
      BY <3>2, <3>3 DEF sub
    <3> QED
      BY <3>2, <3>4, <3>5 DEF sub
  <2> DEFINE sub == SubSeq(kept, 1, size)
             whole == Body(oid)
  <2>5. sub \in Seq(Cells) /\ whole \in Seq(Cells) /\ Len(sub) = Len(whole) /\ \A k \in 1..Len(sub) : sub[k] = whole[k]
    BY <2>1, <2>3, <2>4
  <2>6. body = sub
    BY <2>2
  <2> HIDE DEF sub, whole, body
  <2>7. sub = whole
    BY <2>5, SeqEqual
  <2> QED
    BY <2>6, <2>7 DEF whole
<1>7. keep => told \in Result /\ Tells(oid, told) /\ told.status \in {"ok", "binary"}
  <2>1. Body(oid) \in Seq(Cells) /\ <<>> \in Seq(Cells) /\ objects[oid].binary \in BOOLEAN
    BY <1>2, BodyOK DEF ObjectsOK, Object
  <2> HIDE DEF body
  <2> QED
    BY <1>1, <1>6, <2>1 DEF Result, Tells
<1> DEFINE results == [s.results EXCEPT ![oid] = IF keep THEN told ELSE s.results[oid]]
<1>8. u = [t EXCEPT !.expect = NoBlob, !.index = s.index + 1, !.results = results]
  BY <1>1, <1>3 DEF Completed, Parser
<1> HIDE DEF t, told
<1>9. results \in [Oids -> Result]
  BY <1>1, <1>2, <1>7
<1> HIDE DEF u, results
<1>10. /\ u \in Parser /\ u.expect = NoBlob /\ u.index = s.index + 1 /\ u.results = results
       /\ u.pending = t.pending /\ u.wanted = s.wanted /\ u.failed = s.failed
       /\ u.retained = s.retained /\ u.filesRead = s.filesRead
  <2>1. NoBlob \in Blob /\ s.index + 1 \in Nat
    <3>1. <<>> \in Seq(Cells)
      OBVIOUS
    <3> QED
      BY <1>1, <3>1 DEF NoBlob, Blob
  <2> QED
    BY <1>3, <1>8, <1>9, <2>1 DEF Parser
<1>11. Aligned(u, n)
  <2> DEFINE from == Starts(s.wanted)[s.index + 1]
             next == Starts(s.wanted)[(s.index + 1) + 1]
  <2>1. from \in Nat /\ next = from + (size + 3)
    BY <1>1, TurnOf
  <2>2. Place(s) = from + (2 + got) /\ Place(u) = next + 0
    BY <1>10 DEF Place
  <2>3. Place(u) = Place(s) + take
    <3> HIDE DEF from, next, got, take, size
    <3> QED
      BY <1>3, <1>5, <2>1, <2>2
  <2>4. n <= Len(out) /\ s.index + 1 <= Len(s.wanted)
    BY <1>1 DEF Aligned
  <2> QED
    BY <1>4, <1>10, <2>3, <2>4 DEF Aligned
<1>12. Expecting(u)
  BY <1>10 DEF Expecting
<1>13. /\ \A i \in 1..Len(s.wanted) : i # s.index + 1 => s.wanted[i] # oid /\ results[s.wanted[i]] = s.results[s.wanted[i]]
       /\ results[oid] = IF keep THEN told ELSE s.results[oid]
  <2>1. \A i \in 1..Len(s.wanted) : i # s.index + 1 => s.wanted[i] # oid
    BY <1>1, <1>2 DEF Distinct
  <2>2. \A i \in 1..Len(s.wanted) : s.wanted[i] \in Oids
    BY <1>1
  <2> QED
    BY <1>1, <1>2, <2>1, <2>2 DEF results
<1>14. Refused(s) <=> ~keep
  BY DEF Refused
<1>15. ~keep => Tells(oid, s.results[oid]) /\ s.results[oid].status \notin {"ok", "binary"}
  BY <1>1, <1>2, <1>14 DEF Answered
<1>16. Answered(u)
  <2> HIDE DEF oid, keep
  <2>1. ~Refused(u)
    BY <1>10 DEF Refused
  <2>2. ASSUME NEW i \in 1..Len(s.wanted)
        PROVE  LET result == results[s.wanted[i]] IN
               /\ i <= s.index + 1 => Tells(s.wanted[i], result)
               /\ i > s.index + 1 => result = Unread
    <3>1. CASE i = s.index + 1
      BY <1>1, <1>7, <1>13, <1>15, <3>1 DEF oid
    <3>2. CASE i # s.index + 1
      <4>1. i \in Nat /\ (i <= s.index + 1 => i <= s.index)
        BY <1>1, <3>2
      <4> QED
        BY <1>1, <1>13, <3>2, <4>1 DEF Answered
    <3> QED
      BY <3>1, <3>2
  <2>3. ASSUME NEW o \in Oids, o \notin ToSet(s.wanted) PROVE results[o] = Unread
    BY <1>1, <1>2, <2>3 DEF Answered, results
  <2>4. \A i \in 1..Len(s.wanted) : i > (s.index + 1) + 1 \/ i = (s.index + 1) + 1 => i > s.index + 1
    BY <1>1
  <2> QED
    BY <1>10, <2>1, <2>2, <2>3, <2>4 DEF Answered
<1>17. Charged(u)
  <2>1. ToSet(s.wanted) \subseteq Oids
    BY ClaimedFinite
  <2>2. \A o \in Oids : o # oid => results[o] = s.results[o]
    BY <1>1 DEF results
  <2>3. s.results[oid] = Unread \/ ~keep
    BY <1>1, <1>2, <1>14 DEF Answered
  <2> HIDE DEF oid, keep
  <2>4. Claimed(s) = {o \in ToSet(s.wanted) : s.results[o].status \in {"ok", "binary"}} \cup (IF keep THEN {oid} ELSE {})
    BY <1>3 DEF Claimed, keep
  <2>5. Claimed(u) = {o \in ToSet(s.wanted) : results[o].status \in {"ok", "binary"}}
    BY <1>10 DEF Claimed
  <2>6. Claimed(u) = Claimed(s)
    BY <1>2, <1>7, <1>13, <1>15, <2>1, <2>2, <2>4, <2>5
  <2> QED
    BY <1>1, <1>10, <2>6 DEF Charged
<1>18. ParserOK(u, n)
  BY <1>1, <1>10, <1>11, <1>12, <1>16, <1>17 DEF ParserOK
<1> QED
  BY <1>18 DEF u, t

\* One turn of the loop.
LEMMA TurnKeeps ==
  ASSUME ObjectsOK, NEW n \in Nat, NEW s, ParserOK(s, n)
  PROVE  ParserOK(Turn(s), n)
<1>1. CASE s.failed
  BY <1>1 DEF Turn
<1>2. CASE ~s.failed /\ s.expect = NoBlob
  BY <1>2, HeaderKeeps DEF Turn
<1>3. CASE ~s.failed /\ s.expect # NoBlob
  <2>1. TakePiece(s) = IF s.expect.got + TakeOf(s) < s.expect.size + 1 THEN Taken(s) ELSE Completed(Taken(s))
    <3>1. Taken(s).expect.got = s.expect.got + TakeOf(s)
      BY <1>3, PieceTaken
    <3>2. TakePiece(s) = IF Taken(s).expect.got < s.expect.size + 1 THEN Taken(s) ELSE Completed(Taken(s))
      BY DEF TakePiece, Taken, TakeOf
    <3> QED
      BY <3>1, <3>2
  <2> QED
    BY <1>3, <2>1, UnfinishedKeeps, CompletedKeeps DEF Turn
<1> QED
  BY <1>1, <1>2, <1>3

\* The recursion of the loop has a solution.
Turns(g, fed, n) == g = [m \in 0..n |-> IF m = 0 THEN fed ELSE Turn(g[m - 1])]

\* The equations of the parser's turns have a solution.
LEMMA TurnsExist == \A fed : \A n \in Nat : \E g : Turns(g, fed, n)
<1> SUFFICES ASSUME NEW fed PROVE \A n \in Nat : \E g : Turns(g, fed, n)
  OBVIOUS
<1> DEFINE Upto == {n \in Nat : \E g : Turns(g, fed, n)}
<1>1. 0 \in Upto
  <2>1. Turns([m \in 0..0 |-> fed], fed, 0)
    BY DEF Turns
  <2> QED
    BY <2>1
<1>2. ASSUME NEW n \in Nat, n \in Upto PROVE n + 1 \in Upto
  <2>1. PICK g : Turns(g, fed, n)
    BY <1>2
  <2> DEFINE h == [m \in 0..(n + 1) |-> IF m = n + 1 THEN Turn(g[n]) ELSE g[m]]
  <2>2. \A m \in 0..n : g[m] = IF m = 0 THEN fed ELSE Turn(g[m - 1])
    BY <2>1 DEF Turns
  <2>3. h[n + 1] = Turn(g[n]) /\ \A m \in 0..n : h[m] = g[m]
    OBVIOUS
  <2>4. h = [m \in 0..(n + 1) |-> h[m]]
    OBVIOUS
  <2> HIDE DEF h
  <2>5. ASSUME NEW m \in 0..(n + 1) PROVE h[m] = IF m = 0 THEN fed ELSE Turn(h[m - 1])
    <3>1. CASE m = n + 1
      <4>1. m # 0 /\ m - 1 = n /\ n \in 0..n
        BY <3>1
      <4> QED
        BY <2>3, <3>1, <4>1
    <3>2. CASE m # n + 1
      <4>1. m \in 0..n /\ (m # 0 => m - 1 \in 0..n)
        BY <3>2
      <4> QED
        BY <2>2, <2>3, <4>1
    <3> QED
      BY <3>1, <3>2
  <2>6. Turns(h, fed, n + 1)
    BY <2>4, <2>5 DEF Turns
  <2> QED
    BY <2>6
<1>3. Nat \subseteq Upto
  <2> HIDE DEF Upto
  <2> QED
    BY <1>1, <1>2, SetInduction
<1> QED
  BY <1>3

\* A chunk of any length, that comes next in the output.
LEMMA DataKeeps ==
  ASSUME ObjectsOK, NEW n \in Nat, NEW s, ParserOK(s, n),
         NEW m \in Nat, n + m <= Len(Output(s.wanted))
  PROVE  ParserOK(Data(s, SubSeq(Output(s.wanted), n + 1, n + m)), n + m)
<1> DEFINE out == Output(s.wanted)
           chunk == SubSeq(out, n + 1, n + m)
           fed == [s EXCEPT !.pending = @ \o chunk]
           turns == 2 * Len(s.wanted) + 1
           l == Len(s.pending)
<1>1. /\ s \in Parser /\ s.pending \in Seq(Cells) /\ s.index \in Nat /\ s.wanted \in Seq(Oids)
      /\ Len(s.wanted) \in Nat /\ l \in Nat
  BY LenProperties DEF ParserOK, Parser
<1>2. out \in Seq(Cells) /\ Len(out) \in Nat
  BY <1>1, OutputLayout, LenProperties
<1>3. chunk \in Seq(Cells) /\ Len(chunk) = m /\ \A k \in 1..m : chunk[k] = out[n + k]
  <2> HIDE DEF out
  <2>1. \A k \in (n + 1)..(n + m) : out[k] \in Cells
    <3>1. \A k \in (n + 1)..(n + m) : k \in 1..Len(out)
      BY <1>2 DEF out
    <3> QED
      BY <1>2, <3>1, ElementOfSeq
  <2>2. /\ chunk \in Seq(Cells)
        /\ Len(chunk) = IF n + 1 <= n + m THEN (n + m) - (n + 1) + 1 ELSE 0
        /\ \A k \in 1..((n + m) - (n + 1) + 1) : chunk[k] = out[(n + 1) + k - 1]
    <3>1. n + 1 \in Int /\ n + m \in Int
      OBVIOUS
    <3> QED
      BY <2>1, <3>1, SubSeqProperties
  <2> HIDE DEF chunk
  <2>3. (n + m) - (n + 1) + 1 = m /\ (~(n + 1 <= n + m) => m = 0) /\ \A k \in 1..m : (n + 1) + k - 1 = n + k
    OBVIOUS
  <2>4. Len(chunk) = m
    BY <2>2, <2>3
  <2>5. \A k \in 1..m : chunk[k] = out[n + k]
    BY <2>2, <2>3
  <2> QED
    BY <2>2, <2>4, <2>5
<1>4. /\ s.pending \o chunk \in Seq(Cells) /\ Len(s.pending \o chunk) = l + m
      /\ \A k \in 1..l : (s.pending \o chunk)[k] = s.pending[k]
      /\ \A k \in 1..m : (s.pending \o chunk)[l + k] = chunk[k]
  <2> HIDE DEF chunk
  <2>1. s.pending \in Seq(Cells) /\ chunk \in Seq(Cells)
    BY <1>1, <1>3
  <2>2. /\ s.pending \o chunk \in Seq(Cells) /\ Len(s.pending \o chunk) = Len(s.pending) + Len(chunk)
        /\ \A k \in 1..Len(s.pending) : (s.pending \o chunk)[k] = s.pending[k]
        /\ \A k \in 1..Len(chunk) : (s.pending \o chunk)[Len(s.pending) + k] = chunk[k]
    BY <2>1, JoinedPlaces
  <2> QED
    BY <1>3, <2>2
<1> DEFINE pending == s.pending \o chunk
<1>5. fed = [s EXCEPT !.pending = pending]
  BY <1>1 DEF Parser
<1> HIDE DEF fed, pending
<1>6. /\ fed \in Parser /\ fed.pending = pending /\ fed.index = s.index /\ fed.expect = s.expect
      /\ fed.retained = s.retained /\ fed.filesRead = s.filesRead /\ fed.results = s.results
      /\ fed.failed = s.failed /\ fed.wanted = s.wanted
  BY <1>1, <1>4, <1>5 DEF Parser, pending
<1>7. ParserOK(fed, n + m)
  <2> SUFFICES ASSUME ~s.failed
               PROVE  Distinct(fed.wanted) /\ Aligned(fed, n + m) /\ Expecting(fed) /\ Answered(fed) /\ Charged(fed)
    BY <1>6 DEF ParserOK
  <2>1. Distinct(s.wanted) /\ Aligned(s, n) /\ Expecting(s) /\ Answered(s) /\ Charged(s)
    BY DEF ParserOK
  <2>2. Place(fed) = Place(s) /\ Claimed(fed) = Claimed(s) /\ (Refused(fed) <=> Refused(s))
    BY <1>6 DEF Place, Claimed, Refused
  <2>3. Expecting(fed) /\ Answered(fed) /\ Charged(fed)
    BY <1>6, <2>1, <2>2 DEF Expecting, Answered, Charged
  <2>4. Aligned(fed, n + m)
    <3> DEFINE place == Place(s)
    <3>0. place \in Nat
      <4>1. s.index + 1 \in 1..(Len(s.wanted) + 1)
        BY <1>1, <2>1 DEF Aligned
      <4>2. Starts(s.wanted)[s.index + 1] \in Nat
        BY <1>1, <4>1, OutputLayout
      <4>3. s.expect.got \in Nat
        BY <1>1 DEF Parser, Blob
      <4> QED
        BY <4>2, <4>3 DEF Place
    <3>1. place + l = n /\ \A k \in 1..l : s.pending[k] = out[place + k]
      BY <2>1 DEF Aligned
    <3>2. ASSUME NEW k \in 1..(l + m) PROVE pending[k] = out[place + k]
      <4> HIDE DEF out, place, l, chunk
      <4>1. CASE k <= l
        <5>1. k \in 1..l
          BY <1>1, <4>1
        <5> QED
          BY <1>4, <3>1, <5>1 DEF pending, chunk
      <4>2. CASE ~(k <= l)
        <5> DEFINE j == k - l
        <5>1. j \in 1..m /\ l + j = k /\ n + j = place + k
          BY <1>1, <3>0, <3>1, <4>2
        <5> HIDE DEF j
        <5>2. pending[l + j] = chunk[j] /\ chunk[j] = out[n + j]
          BY <1>3, <1>4, <5>1 DEF pending
        <5> QED
          BY <5>1, <5>2
      <4> QED
        BY <4>1, <4>2
    <3>3. place + (l + m) = n + m /\ Len(pending) = l + m
      <4>1. Len(pending) = l + m
        BY <1>4 DEF pending
      <4> HIDE DEF place, l
      <4> QED
        BY <1>1, <3>0, <3>1, <4>1
    <3> QED
      BY <1>6, <2>1, <2>2, <3>2, <3>3 DEF Aligned
  <2> QED
    BY <1>6, <2>1, <2>3, <2>4
<1>8. turns \in Nat
  BY <1>1
<1> DEFINE after == CHOOSE g : Turns(g, fed, turns)
<1>9. Data(s, chunk) = after[turns]
  BY DEF Data, Turns, fed
<1>10. Turns(after, fed, turns)
  BY <1>8, TurnsExist
<1> HIDE DEF after, turns
<1>11. \A k \in 0..turns : after[k] = IF k = 0 THEN fed ELSE Turn(after[k - 1])
  BY <1>10 DEF Turns
<1> DEFINE Good == {k \in Nat : k \in 0..turns => ParserOK(after[k], n + m)}
<1>12. 0 \in Good
  <2>1. 0 \in 0..turns
    BY <1>8
  <2> QED
    BY <1>7, <1>11, <2>1
<1>13. ASSUME NEW k \in Nat, k \in Good PROVE k + 1 \in Good
  <2> SUFFICES ASSUME k + 1 \in 0..turns PROVE ParserOK(after[k + 1], n + m)
    OBVIOUS
  <2>1. k \in 0..turns /\ k + 1 # 0 /\ (k + 1) - 1 = k /\ n + m \in Nat
    BY <1>8
  <2>2. after[k + 1] = Turn(after[k]) /\ ParserOK(after[k], n + m)
    BY <1>11, <1>13, <2>1
  <2> QED
    BY <2>1, <2>2, TurnKeeps
<1>14. Nat \subseteq Good
  <2> HIDE DEF Good
  <2> QED
    BY <1>12, <1>13, SetInduction
<1>15. turns \in 0..turns
  BY <1>8
<1> QED
  BY <1>8, <1>9, <1>14, <1>15

-----------------------------------------------------------------------------
(* The call, and its child *)

Called ==
  /\ child = "running" <=> call = "reading"
  /\ call \in {"idle", "listing", "listed"} => sent = 0
  /\ call = "read" => ~parser.failed /\ StreamComplete(0)

IndexInv ==
  /\ ObjectsOK /\ listing \in [Paths -> Change]
  /\ sent \in Nat /\ ParserOK(parser, sent) /\ Called

\* Before anything has arrived, whatever is wanted.
LEMMA FreshParserOK ==
  ASSUME ObjectsOK, NEW w \in Seq(Oids), Distinct(w)
  PROVE  ParserOK([FreshParser EXCEPT !.wanted = w], 0)
<1> DEFINE s == [FreshParser EXCEPT !.wanted = w]
<1>1. /\ s.pending = <<>> /\ s.index = 0 /\ s.expect = NoBlob /\ s.retained = 0 /\ s.filesRead = 0
      /\ s.results = [oid \in Oids |-> Unread] /\ s.failed = FALSE /\ s.wanted = w
  BY DEF FreshParser
<1>2. s \in Parser
  <2>1. <<>> \in Seq(Cells) /\ Len(<<>>) = 0
    OBVIOUS
  <2>2. NoBlob \in Blob /\ Unread \in Result
    BY <2>1 DEF NoBlob, Blob, Unread, Result
  <2>3. <<>> \in Seq(Oids)
    OBVIOUS
  <2> HIDE DEF NoBlob, Blob, Unread, Result
  <2>4. FreshParser \in Parser
    BY <2>1, <2>2, <2>3 DEF FreshParser, Parser
  <2> QED
    BY <2>4 DEF Parser
<1> HIDE DEF s
<1>3. Starts(w)[1] = 0 /\ Len(Output(w)) \in Nat /\ Len(w) \in Nat
  <2>1. Output(w) \in Seq(Cells) /\ Starts(w)[1] = 0
    BY OutputLayout
  <2> QED
    BY <2>1, LenProperties
<1>4. Place(s) = 0
  BY <1>1, <1>3 DEF Place
<1>5. Aligned(s, 0)
  BY <1>1, <1>3, <1>4 DEF Aligned
<1>6. Expecting(s) /\ ~Refused(s)
  BY <1>1 DEF Expecting, Refused
<1>7. Answered(s)
  <2>1. \A i \in 1..Len(w) : w[i] \in Oids /\ i > s.index
    BY <1>1
  <2>2. \A i \in 1..Len(w) : s.results[w[i]] = Unread /\ ~(i <= s.index)
    BY <1>1, <2>1
  <2> QED
    BY <1>1, <1>6, <2>2 DEF Answered
<1>8. Charged(s)
  <2>1. ToSet(w) \subseteq Oids
    BY DEF ToSet
  <2>2. Claimed(s) = {}
    BY <1>1, <2>1 DEF Claimed, Unread
  <2> QED
    BY <1>1, <2>2, SumEmpty, FS_EmptySet, ReaderAssumption DEF Charged, ReaderAssumption
<1> QED
  BY <1>1, <1>2, <1>5, <1>6, <1>7, <1>8 DEF ParserOK, s

\* The order the objects are asked for in: any, each once.
LEMMA WantedOrder ==
  ASSUME listing \in [Paths -> Change], NEW chosen \in SUBSET Entries
  PROVE  LET w == SetToSeq({listing[p].oid : p \in chosen}) IN
         w \in Seq(Oids) /\ Distinct(w)
<1> DEFINE W == {listing[p].oid : p \in chosen}
           w == SetToSeq(W)
<1>1. \A p \in chosen : p \in Paths /\ listing[p].oid \in Oids
  <2>1. \A p \in chosen : p \in Paths /\ listing[p] \in Change /\ listing[p].change = "added" /\ listing[p].mode = "file"
    BY DEF Entries
  <2> QED
    BY <2>1 DEF Change, Unstaged
<1>2. IsFiniteSet(chosen)
  <2>1. IsFiniteSet(1..NPaths)
    BY FS_Interval, ReaderAssumption DEF ReaderAssumption
  <2> QED
    BY <1>1, <2>1, FS_Subset DEF Paths
<1>3. IsFiniteSet(W)
  <2> DEFINE f == [p \in chosen |-> listing[p].oid]
  <2>1. f \in Surjection(chosen, W)
    BY DEF Surjection
  <2> QED
    BY <1>2, <2>1, FS_Surjection
<1>4. W \subseteq Oids
  BY <1>1
<1> HIDE DEF W
<1>5. Cardinality(W) \in Nat
  BY <1>3, FS_CardinalityType
<1>6. w \in [1..Cardinality(W) -> W] /\ \A i, j \in 1..Cardinality(W) : w[i] = w[j] => i = j
  BY <1>3, InSomeOrder
<1> HIDE DEF w
<1>7. w \in [1..Cardinality(W) -> Oids]
  BY <1>4, <1>6
<1>8. w \in Seq(Oids) /\ Len(w) = Cardinality(W)
  BY <1>5, <1>7, SeqDef, LenProperties
<1> QED
  BY <1>6, <1>8 DEF Distinct, w, W

\* A step that leaves the objects alone leaves what is said of a parser alone.
LEMMA SameObjects ==
  ASSUME objects' = objects, ParserOK(parser', sent')
  PROVE  ParserOK(parser, sent)'
<1>1. /\ \A oid : Header(oid)' = Header(oid)
      /\ \A oid : Body(oid)' = Body(oid)
  BY DEF Header, Body
<1> HIDE DEF Header, Body
<1>2. \A oid : Part(oid)' = Part(oid)
  BY <1>1 DEF Part
<1>3. \A w : Parts(w)' = Parts(w)
  BY <1>2 DEF Parts
<1>4. \A w : Output(w) = FlattenSeq(Parts(w)) /\ Output(w)' = FlattenSeq(Parts(w)')
  BY DEF Output, Parts, Part
<1>5. \A w : Output(w)' = Output(w)
  BY <1>3, <1>4
<1>6. \A w : Starts(w)' = Starts(w)
  BY <1>3, <1>5 DEF Starts
<1> DEFINE s == parser'
           n == sent'
<1>7. Place(parser)' = Place(s)
  BY <1>6 DEF Place
<1>8. Aligned(s, n) => Aligned(parser, sent)'
  BY <1>5, <1>7 DEF Aligned
<1>9. Expecting(s) => Expecting(parser)'
  BY <1>1 DEF Expecting
<1>10. \A oid, result : Tells(oid, result)' <=> Tells(oid, result)
  BY <1>1 DEF Tells
<1>11. Answered(s) => Answered(parser)'
  BY <1>10 DEF Answered, Refused
<1>12. ObjectSizes' = ObjectSizes
  BY DEF ObjectSizes
<1>13. Claimed(parser)' = Claimed(s)
  BY DEF Claimed
<1>14. Charged(s) => Charged(parser)'
  BY <1>12, <1>13 DEF Charged
<1> QED
  BY <1>8, <1>9, <1>11, <1>14 DEF ParserOK, Distinct

\* The steps of the call itself.
LEMMA IndexStepKeeps ==
  ASSUME IndexInv, IndexStep
  PROVE  IndexInv'
<1>0. ObjectsOK /\ listing \in [Paths -> Change] /\ sent \in Nat /\ ParserOK(parser, sent) /\ Called
  BY DEF IndexInv
<1>u. UNCHANGED <<listing, objects>>
  BY DEF IndexStep, ListAnswers, ChildCloses, ChildErrors, ChunkArrives
<1>1. ObjectsOK' /\ listing' \in [Paths -> Change]
  BY <1>0, <1>u DEF ObjectsOK
<1>2. SUFFICES sent' \in Nat /\ ParserOK(parser', sent') /\ Called'
  BY <1>u, <1>1, SameObjects DEF IndexInv
<1>p. parser \in Parser
  BY <1>0 DEF ParserOK
<1>3. CASE ListAnswers
  BY <1>0, <1>3 DEF ListAnswers, Called, StreamComplete
<1>4. CASE ChildCloses
  BY <1>0, <1>4 DEF ChildCloses, Called, StreamComplete
<1>5. CASE ChildErrors
  <2>1. parser' \in Parser /\ parser'.failed
    BY <1>p, <1>5 DEF ChildErrors, Parser
  <2>2. sent' \in Nat /\ Called'
    BY <1>0, <1>5 DEF ChildErrors, Called, SpawnFailure
  <2> QED
    BY <2>1, <2>2 DEF ParserOK
<1>6. CASE ChunkArrives
  <2> DEFINE out == Output(parser.wanted)
  <2>1. PICK m \in 1..(Len(out) - sent) :
          parser' = Data(parser, SubSeq(out, sent + 1, sent + m)) /\ sent' = sent + m
    BY <1>6 DEF ChunkArrives
  <2>2. Len(out) \in Nat
    <3>1. parser.wanted \in Seq(Oids)
      BY <1>p DEF Parser
    <3> QED
      BY <1>0, <3>1, OutputLayout, LenProperties
  <2> HIDE DEF out
  <2>3. m \in Nat /\ sent + m <= Len(out) /\ sent + m \in Nat
    BY <1>0, <2>2
  <2>4. ParserOK(parser', sent')
    BY <1>0, <2>1, <2>3, DataKeeps DEF out
  <2>5. Called'
    BY <1>0, <1>6 DEF ChunkArrives, Called, AfterFailure
  <2> QED
    BY <2>1, <2>3, <2>4, <2>5
<1> QED
  BY <1>3, <1>4, <1>5, <1>6 DEF IndexStep

\* The blobs of some of the entries are asked for.
LEMMA StartBlobsKeeps ==
  ASSUME IndexInv, NEW chosen \in SUBSET Entries, StartBlobs({listing[p].oid : p \in chosen})
  PROVE  IndexInv'
<1> DEFINE w == SetToSeq({listing[p].oid : p \in chosen})
<1>0. ObjectsOK /\ listing \in [Paths -> Change] /\ sent \in Nat /\ ParserOK(parser, sent) /\ Called
  BY DEF IndexInv
<1>1. w \in Seq(Oids) /\ Distinct(w)
  BY <1>0, WantedOrder
<1>2. parser' = [FreshParser EXCEPT !.wanted = w] /\ call = "listed" /\ UNCHANGED <<listing, objects, sent>>
  BY DEF StartBlobs
<1>3. (call' = "read" /\ UNCHANGED child /\ {listing[p].oid : p \in chosen} = {})
      \/ (call' = "reading" /\ child' = "running") \/ (call' = "rejected" /\ UNCHANGED child)
  BY DEF StartBlobs
<1>e. {listing[p].oid : p \in chosen} = {} => Len(w) = 0
  <2> SUFFICES ASSUME {listing[p].oid : p \in chosen} = {} PROVE Len(w) = 0
    OBVIOUS
  <2>1. w \in [1..0 -> {}]
    BY FS_EmptySet, InSomeOrder
  <2> HIDE DEF w
  <2> QED
    BY <2>1, LenProperties, <1>1
<1> HIDE DEF w
<1>4. sent = 0
  BY <1>0, <1>2 DEF Called
<1>5. ParserOK(parser', sent')
  BY <1>0, <1>1, <1>2, <1>4, FreshParserOK
<1>6. parser'.failed = FALSE /\ parser'.wanted = w /\ parser'.index = 0 /\ parser'.expect = NoBlob
  BY <1>2 DEF FreshParser
<1>7. Called'
  BY <1>0, <1>2, <1>3, <1>e, <1>6 DEF Called, StreamComplete
<1>8. ObjectsOK'
  BY <1>0, <1>2 DEF ObjectsOK
<1> QED
  BY <1>0, <1>2, <1>5, <1>7, <1>8, SameObjects DEF IndexInv

\* The signal.
LEMMA AbortBlobsKeeps ==
  ASSUME IndexInv, AbortBlobs, UNCHANGED <<listing, objects, child, sent>>
  PROVE  IndexInv'
<1>0. ObjectsOK /\ listing \in [Paths -> Change] /\ sent \in Nat /\ ParserOK(parser, sent) /\ Called
  BY DEF IndexInv
<1>1. ParserOK(parser', sent')
  <2>1. CASE child = "running"
    <3>1. parser' = [parser EXCEPT !.failed = TRUE] /\ parser \in Parser
      BY <1>0, <2>1 DEF AbortBlobs, ParserOK
    <3>2. parser' \in Parser /\ parser'.failed
      BY <3>1 DEF Parser
    <3> QED
      BY <3>2 DEF ParserOK
  <2>2. CASE child # "running"
    BY <1>0, <2>2 DEF AbortBlobs
  <2> QED
    BY <2>1, <2>2
<1>2. Called'
  BY <1>0 DEF AbortBlobs, Called, AfterFailure, StreamComplete
<1>3. ObjectsOK'
  BY <1>0 DEF ObjectsOK
<1> QED
  BY <1>0, <1>1, <1>2, <1>3, SameObjects DEF IndexInv

-----------------------------------------------------------------------------
(* The doctor's loop and the verdict *)

Wanted == Eligible(Files)

\* Where the run is, by what it scans.
Flow ==
  /\ scope \in {"staged", "full"}
  /\ phase = "listing" \/ phase = "blobs" => scope = "staged"
  /\ phase = "context" => scope = "full"
  /\ scope = "staged" /\ phase \in {"profile", "analyzing", "done"} => call = "read"

Tally == [eligible : Int, scanned : SUBSET Paths, skipped : Nat, failed : Nat, cancelled : BOOLEAN]

\* An eligible file the loop has come to was scanned, or is counted as not
\* examined, or is a binary nobody expects to be text.
Accounted ==
  /\ todo \subseteq Wanted /\ tally.scanned \subseteq Wanted \ todo
  /\ tally.eligible = Cardinality(todo) + Cardinality(tally.scanned) + tally.skipped + tally.failed
  /\ (\E p \in Wanted \ (todo \cup tally.scanned) : ~Benign(p)) => tally.skipped + tally.failed > 0

\* What was scanned of a staged file is its blob, and its findings are kept.
BlobScanned(p) ==
  /\ parser.results[listing[p].oid].status = "ok"
  /\ objects[listing[p].oid].risky => p \in risky
BlobsScanned == scope = "staged" => \A p \in tally.scanned : BlobScanned(p)

\* The exit code the command would end with now.
Code ==
  LET blocking == risky # {} \/ AuditBlocks
      passed == ~blocking /\ ~IncompleteBlocks(Coverage(tally)) IN
  IF passed THEN 0 ELSE ExitCode(Coverage(tally), blocking)

Decided ==
  /\ phase = "done" => todo = {} /\ exit = Code
  /\ phase # "done" => exit \in {1, Undecided}

DoctorInv ==
  /\ Flow /\ tally \in Tally /\ Decided
  /\ phase \in {"analyzing", "done"} => Accounted /\ BlobsScanned

\* The calls of the reader: each has a record.
ReadsOfAll == reads = [r \in Readers |-> reads[r]]

PreInv == IndexInv /\ DoctorInv /\ ReadsOfAll

\* The wanted paths are finitely many, and so are any of them.
LEMMA WantedFinite ==
  /\ Wanted \in SUBSET Paths /\ IsFiniteSet(Wanted) /\ Paths \in SUBSET Nat
  /\ \A s \in SUBSET Wanted : IsFiniteSet(s) /\ Cardinality(s) \in Nat
<1>1. IsFiniteSet(Paths) /\ Paths \subseteq Nat
  BY FS_Interval, ReaderAssumption DEF Paths, ReaderAssumption
<1>2. Wanted \subseteq Paths
  BY DEF Wanted, Eligible, Files, Entries
<1> QED
  BY <1>1, <1>2, FS_Subset, FS_CardinalityType

\* The file the loop is at.
LEMMA CurrentOK ==
  ASSUME todo \subseteq Wanted, todo # {}
  PROVE  Current \in todo
  BY WantedFinite, MinExists DEF Current

\* One file's result is counted.
LEMMA TakesKeeps ==
  ASSUME DoctorInv, phase = "analyzing", todo # {}, NEW status, NEW finding,
         DoctorTakes(Current, status, finding),
         UNCHANGED <<readerVars, indexVars, choiceVars>>,
         scope = "staged" /\ status = "ok" =>
           /\ parser.results[listing[Current].oid].status = "ok"
           /\ objects[listing[Current].oid].risky => finding,
         scope = "staged" /\ status = "binary" => objects[listing[Current].oid].binary,
         scope = "full" => reads[Current].at = "done" /\ reads[Current].status = status
  PROVE  DoctorInv'
<1> DEFINE p == Current
           T == todo \ {p}
<1>0. Flow /\ tally \in Tally /\ Accounted /\ BlobsScanned
  BY DEF DoctorInv
<1>1. p \in todo /\ p \in Wanted /\ p \in Paths /\ p \notin tally.scanned
  BY <1>0, CurrentOK, WantedFinite DEF Accounted
<1> HIDE DEF p
<1>2. /\ tally' = Tallied(p, status) /\ todo' = IF status = "cancelled" THEN {} ELSE T
      /\ risky' = (IF status = "ok" /\ finding THEN risky \cup {p} ELSE risky)
      /\ UNCHANGED <<phase, audit, exit>>
  BY DEF DoctorTakes, p
<1>3. Flow' /\ Decided' /\ phase' = "analyzing"
  BY <1>0, <1>2 DEF Flow, Decided, DoctorInv, indexVars, choiceVars
<1>4. Wanted' = Wanted /\ \A q : Benign(q)' <=> Benign(q)
  BY DEF Wanted, Eligible, Files, Entries, Benign, readerVars, indexVars, choiceVars
<1> DEFINE scanned == tally.scanned
<1>5. /\ IsFiniteSet(todo) /\ Cardinality(todo) \in Nat /\ IsFiniteSet(T) /\ Cardinality(T) = Cardinality(todo) - 1
      /\ Cardinality(todo) > 0
      /\ IsFiniteSet(scanned) /\ Cardinality(scanned) \in Nat /\ Cardinality(scanned \cup {p}) = Cardinality(scanned) + 1
  <2>1. /\ IsFiniteSet(todo) /\ Cardinality(todo) \in Nat
        /\ IsFiniteSet(scanned) /\ Cardinality(scanned) \in Nat
    BY <1>0, WantedFinite DEF Accounted
  <2>2. IsFiniteSet(T) /\ Cardinality(T) = Cardinality(todo) - 1
    BY <1>1, <2>1, FS_RemoveElement
  <2>3. Cardinality(scanned \cup {p}) = Cardinality(scanned) + 1
    BY <1>1, <2>1, FS_AddElement
  <2>4. Cardinality(todo) > 0
    BY <1>1, <2>1, FS_EmptySet
  <2> QED
    BY <2>1, <2>2, <2>3, <2>4
<1>6. /\ tally.eligible \in Int /\ tally.skipped \in Nat /\ tally.failed \in Nat
      /\ scanned \in SUBSET Paths /\ tally.cancelled \in BOOLEAN
      /\ tally = [eligible |-> tally.eligible, scanned |-> scanned, skipped |-> tally.skipped,
                  failed |-> tally.failed, cancelled |-> tally.cancelled]
  BY <1>0 DEF Tally
<1>7. /\ todo \subseteq Wanted /\ scanned \subseteq Wanted \ todo
      /\ tally.eligible = Cardinality(todo) + Cardinality(scanned) + tally.skipped + tally.failed
      /\ (\E q \in Wanted \ (todo \cup scanned) : ~Benign(q)) => tally.skipped + tally.failed > 0
  BY <1>0 DEF Accounted
<1>8. BlobsScanned' <=> (scope = "staged" => \A q \in tally'.scanned :
                          /\ parser.results[listing[q].oid].status = "ok"
                          /\ objects[listing[q].oid].risky => q \in risky')
  BY DEF BlobsScanned, BlobScanned, indexVars, choiceVars
<1>9. scope = "staged" => \A q \in scanned :
                          /\ parser.results[listing[q].oid].status = "ok"
                          /\ objects[listing[q].oid].risky => q \in risky
  BY <1>0 DEF BlobsScanned, BlobScanned
<1>10. SUFFICES tally' \in Tally /\ Accounted' /\ BlobsScanned'
  BY <1>3 DEF DoctorInv
<1>11. Accounted' <=>
         /\ todo' \subseteq Wanted /\ tally'.scanned \subseteq Wanted \ todo'
         /\ tally'.eligible = Cardinality(todo') + Cardinality(tally'.scanned) + tally'.skipped + tally'.failed
         /\ (\E q \in Wanted \ (todo' \cup tally'.scanned) : ~Benign(q)) => tally'.skipped + tally'.failed > 0
  BY <1>4 DEF Accounted
<1> DEFINE all == Cardinality(todo)
           rest == Cardinality(T)
           done == Cardinality(scanned)
           e == tally.eligible
           k == tally.skipped
           f == tally.failed
<1>12. CASE status = "ok"
  <2>1. /\ tally' = [tally EXCEPT !.scanned = @ \cup {p}] /\ todo' = T
        /\ risky \subseteq risky' /\ (finding => p \in risky')
    <3>1. tally' = [tally EXCEPT !.scanned = @ \cup {p}]
      BY <1>2, <1>12 DEF Tallied, Excludable
    <3>2. todo' = T /\ risky' = (IF finding THEN risky \cup {p} ELSE risky)
      BY <1>2, <1>12
    <3> QED
      BY <3>1, <3>2
  <2>2. tally'.scanned = scanned \cup {p} /\ tally'.eligible = e /\ tally'.skipped = k /\ tally'.failed = f
    BY <1>6, <2>1
  <2>3. tally' \in Tally
    BY <1>0, <1>1, <2>1 DEF Tally
  <2>4. e = rest + (done + 1) + k + f
    BY <1>5, <1>6, <1>7
  <2>5. Accounted'
    <3>1. T \subseteq Wanted /\ scanned \cup {p} \subseteq Wanted \ T
      BY <1>1, <1>7
    <3>2. T \cup (scanned \cup {p}) = todo \cup scanned
      BY <1>1
    <3>3. todo' \cup tally'.scanned = todo \cup scanned
      BY <2>1, <2>2, <3>2
    <3>4. tally'.eligible = Cardinality(todo') + Cardinality(tally'.scanned) + tally'.skipped + tally'.failed
      BY <1>5, <2>1, <2>2, <2>4
    <3>5. todo' \subseteq Wanted /\ tally'.scanned \subseteq Wanted \ todo'
      BY <2>1, <2>2, <3>1
    <3> HIDE DEF scanned, e, k, f
    <3>6. (\E q \in Wanted \ (todo' \cup tally'.scanned) : ~Benign(q)) => tally'.skipped + tally'.failed > 0
      BY <1>7, <2>2, <3>3 DEF scanned, k, f
    <3> QED
      BY <1>11, <3>4, <3>5, <3>6
  <2>6. BlobsScanned'
    BY <1>8, <1>9, <1>12, <2>1, <2>2 DEF p
  <2> QED
    BY <2>3, <2>5, <2>6
<1>13. CASE status # "ok" /\ Excludable(p, status)
  <2>1. tally' = [tally EXCEPT !.eligible = @ - 1] /\ todo' = T /\ risky' = risky
    BY <1>2, <1>13 DEF Tallied, Excludable
  <2>2. tally'.scanned = scanned /\ tally'.eligible = e - 1 /\ tally'.skipped = k /\ tally'.failed = f
    BY <1>6, <2>1
  <2>3. tally' \in Tally
    BY <1>0, <1>6, <2>1 DEF Tally
  <2>4. e - 1 = rest + done + k + f
    BY <1>5, <1>6, <1>7
  <2>5. Benign(p)
    BY <1>0, <1>13 DEF Excludable, Benign, Flow, p
  <2>6. Accounted'
    <3>1. T \subseteq Wanted /\ scanned \subseteq Wanted \ T
      BY <1>1, <1>7
    <3>2. (\E q \in Wanted \ (T \cup scanned) : ~Benign(q)) => \E q \in Wanted \ (todo \cup scanned) : ~Benign(q)
      BY <2>5
    <3> QED
      BY <1>7, <1>11, <2>1, <2>2, <2>4, <3>1, <3>2
  <2>7. BlobsScanned'
    BY <1>8, <1>9, <2>1, <2>2
  <2> QED
    BY <2>3, <2>6, <2>7
<1>14. CASE status = "failed" /\ ~Excludable(p, status)
  <2>1. tally' = [tally EXCEPT !.failed = @ + 1] /\ todo' = T /\ risky' = risky
    BY <1>2, <1>14 DEF Tallied
  <2>2. tally'.scanned = scanned /\ tally'.eligible = e /\ tally'.skipped = k /\ tally'.failed = f + 1
    BY <1>6, <2>1
  <2>3. tally' \in Tally
    BY <1>0, <1>6, <2>1 DEF Tally
  <2>4. e = rest + done + k + (f + 1) /\ k + (f + 1) > 0
    BY <1>5, <1>6, <1>7
  <2>5. T \subseteq Wanted /\ scanned \subseteq Wanted \ T
    BY <1>1, <1>7
  <2>6. Accounted'
    BY <1>11, <2>1, <2>2, <2>4, <2>5
  <2>7. BlobsScanned'
    BY <1>8, <1>9, <2>1, <2>2
  <2> QED
    BY <2>3, <2>6, <2>7
<1>15. CASE status = "cancelled" /\ ~Excludable(p, status)
  <2>1. tally' = [tally EXCEPT !.skipped = @ + all, !.cancelled = TRUE] /\ todo' = {} /\ risky' = risky
    BY <1>2, <1>15 DEF Tallied, LeftOver
  <2>2. tally'.scanned = scanned /\ tally'.eligible = e /\ tally'.skipped = k + all /\ tally'.failed = f
    BY <1>6, <2>1
  <2>3. tally' \in Tally
    <3>1. tally.skipped + all \in Nat
      BY <1>5, <1>6
    <3> HIDE DEF all
    <3> QED
      BY <1>0, <2>1, <3>1 DEF Tally
  <2>4. e = 0 + done + (k + all) + f /\ (k + all) + f > 0 /\ Cardinality({}) = 0
    BY <1>5, <1>6, <1>7, FS_EmptySet
  <2>5. {} \subseteq Wanted /\ scanned \subseteq Wanted \ {}
    BY <1>7
  <2>6. Accounted'
    BY <1>11, <2>1, <2>2, <2>4, <2>5
  <2>7. BlobsScanned'
    BY <1>8, <1>9, <2>1, <2>2
  <2> QED
    BY <2>3, <2>6, <2>7
<1>16. CASE status \notin {"ok", "failed", "cancelled"} /\ ~Excludable(p, status)
  <2>1. tally' = [tally EXCEPT !.skipped = @ + 1] /\ todo' = T /\ risky' = risky
    BY <1>2, <1>16 DEF Tallied
  <2>2. tally'.scanned = scanned /\ tally'.eligible = e /\ tally'.skipped = k + 1 /\ tally'.failed = f
    BY <1>6, <2>1
  <2>3. tally' \in Tally
    BY <1>0, <1>6, <2>1 DEF Tally
  <2>4. e = rest + done + (k + 1) + f /\ (k + 1) + f > 0
    BY <1>5, <1>6, <1>7
  <2>5. T \subseteq Wanted /\ scanned \subseteq Wanted \ T
    BY <1>1, <1>7
  <2>6. Accounted'
    BY <1>11, <2>1, <2>2, <2>4, <2>5
  <2>7. BlobsScanned'
    BY <1>8, <1>9, <2>1, <2>2
  <2> QED
    BY <2>3, <2>6, <2>7
<1> QED
  BY <1>12, <1>13, <1>14, <1>15, <1>16

-----------------------------------------------------------------------------
(* The steps of the command *)

\* A step that leaves the reader alone keeps its invariant.
LEMMA IndexUnchanged ==
  ASSUME IndexInv, UNCHANGED indexVars
  PROVE  IndexInv'
<1>1. ObjectsOK' /\ Called' /\ ParserOK(parser', sent')
  BY DEF IndexInv, ObjectsOK, Called, StreamComplete, indexVars
<1> QED
  BY <1>1, SameObjects DEF IndexInv, indexVars

\* A step that leaves the doctor alone keeps its invariant.
LEMMA DoctorUnchanged ==
  ASSUME DoctorInv, UNCHANGED <<indexVars, choiceVars, verdictVars>>,
         \A p \in Paths : Benign(p) => Benign(p)'
  PROVE  DoctorInv'
<1>1. Wanted' = Wanted /\ Wanted \subseteq Paths /\ Code' = Code
  BY WantedFinite
     DEF Wanted, Eligible, Files, Entries, Code, AuditBlocks, IncompleteBlocks, FailOnIncomplete,
         Coverage, ExitCode, indexVars, choiceVars, verdictVars
<1>2. Flow' /\ (tally \in Tally)' /\ Decided'
  BY <1>1 DEF DoctorInv, Flow, Decided, indexVars, choiceVars, verdictVars
<1>3. phase \in {"analyzing", "done"} => Accounted' /\ BlobsScanned'
  BY <1>1 DEF DoctorInv, Accounted, BlobsScanned, BlobScanned, indexVars, choiceVars, verdictVars
<1> QED
  BY <1>2, <1>3 DEF DoctorInv, verdictVars

\* A rejection keeps the doctor's invariant.
LEMMA RejectKeeps ==
  ASSUME DoctorInv, Reject, UNCHANGED choiceVars
  PROVE  DoctorInv'
  BY DEF DoctorInv, Reject, Flow, Decided, choiceVars

\* A result that is there tells of its object.
LEMMA BlobTells ==
  ASSUME IndexInv, call = "read", NEW p \in Entries, parser.results[listing[p].oid].status # "none"
  PROVE  Tells(listing[p].oid, parser.results[listing[p].oid])
<1> DEFINE oid == listing[p].oid
<1>1. parser \in Parser /\ parser.wanted \in Seq(Oids) /\ Answered(parser) /\ parser.index = Len(parser.wanted)
  BY DEF IndexInv, Called, StreamComplete, ParserOK, Parser
<1>2. oid \in Oids
  <2>1. p \in Paths /\ listing[p] \in Change /\ listing[p].change = "added" /\ listing[p].mode = "file"
    BY DEF IndexInv, Entries
  <2> QED
    BY <2>1 DEF Change, Unstaged
<1>3. oid \in ToSet(parser.wanted)
  BY <1>1, <1>2 DEF Answered, Unread
<1>4. PICK i \in 1..Len(parser.wanted) : parser.wanted[i] = oid
  BY <1>1, <1>3 DEF ToSet
<1> QED
  BY <1>1, <1>4 DEF Answered

\* In staged scope the wanted paths are entries of the listing.
LEMMA WantedEntries == scope = "staged" => Wanted \subseteq Entries
  BY DEF Wanted, Eligible, Files

\* The doctor taking one staged blob keeps its invariant.
LEMMA DoctorStagedKeeps ==
  ASSUME PreInv, DoctorStaged
  PROVE  DoctorInv'
<1> DEFINE p == Current
           oid == listing[p].oid
           result == parser.results[oid]
<1>1. /\ scope = "staged" /\ phase = "analyzing" /\ todo # {} /\ UNCHANGED <<readerVars, indexVars, choiceVars>>
      /\ IF result.status = "none" THEN Reject ELSE DoctorTakes(p, result.status, objects[oid].risky)
  BY DEF DoctorStaged
<1>2. IndexInv /\ DoctorInv /\ Accounted /\ call = "read"
  BY <1>1 DEF PreInv, DoctorInv, Flow
<1>3. p \in Entries
  BY <1>1, <1>2, CurrentOK, WantedEntries DEF Accounted
<1> HIDE DEF p
<1>4. CASE result.status = "none"
  BY <1>1, <1>2, <1>4, RejectKeeps
<1>5. CASE result.status # "none"
  <2>1. Tells(oid, result)
    BY <1>2, <1>3, <1>5, BlobTells
  <2>2. result.status = "binary" => objects[oid].binary
    BY <2>1 DEF Tells
  <2> HIDE DEF result
  <2>3. DoctorTakes(Current, result.status, objects[oid].risky)
    BY <1>1, <1>5 DEF p, result
  <2> QED
    BY <1>1, <1>2, <2>2, <2>3, TakesKeeps DEF p, result
<1> QED
  BY <1>4, <1>5

\* The doctor taking one file that was read keeps its invariant.
LEMMA DoctorReadsKeeps ==
  ASSUME PreInv, DoctorReads
  PROVE  DoctorInv'
<1>1. /\ scope = "full" /\ phase = "analyzing" /\ todo # {} /\ UNCHANGED <<readerVars, indexVars, choiceVars>>
      /\ reads[Current].at = "done"
      /\ Reject \/ \E finding \in BOOLEAN : DoctorTakes(Current, reads[Current].status, finding)
  BY DEF DoctorReads
<1>2. DoctorInv
  BY DEF PreInv
<1>3. CASE Reject
  BY <1>1, <1>2, <1>3, RejectKeeps
<1>4. CASE \E finding \in BOOLEAN : DoctorTakes(Current, reads[Current].status, finding)
  <2>1. PICK finding \in BOOLEAN : DoctorTakes(Current, reads[Current].status, finding)
    BY <1>4
  <2>2. ~(scope = "staged")
    BY <1>1
  <2> QED
    BY <1>1, <1>2, <2>1, <2>2, TakesKeeps
<1> QED
  BY <1>1, <1>3, <1>4

\* The start of the analysis keeps the doctor's invariant.
LEMMA StartAnalysisKeeps ==
  ASSUME PreInv, StartAnalysis
  PROVE  DoctorInv'
<1>1. DoctorInv /\ phase \in {"profile", "context"} /\ UNCHANGED <<indexVars, choiceVars>>
  BY DEF PreInv, StartAnalysis
<1>2. CASE Reject
  BY <1>1, <1>2, RejectKeeps
<1>3. CASE ~Reject
  <2>1. /\ phase' = "analyzing" /\ todo' = Wanted
        /\ tally' = [NoTally EXCEPT !.eligible = Cardinality(Wanted)]
        /\ UNCHANGED <<risky, audit, exit>>
    BY <1>3 DEF StartAnalysis, Wanted
  <2>2. Wanted' = Wanted
    BY <1>1 DEF Wanted, Eligible, Files, Entries, indexVars, choiceVars
  <2>3. Cardinality(Wanted) \in Nat /\ Cardinality({}) = 0
    BY WantedFinite, FS_EmptySet
  <2> DEFINE all == Cardinality(Wanted)
  <2> HIDE DEF all
  <2>4. tally' = [eligible |-> all, scanned |-> {}, skipped |-> 0, failed |-> 0, cancelled |-> FALSE]
    BY <2>1 DEF NoTally, all
  <2>5. tally' \in Tally
    BY <2>3, <2>4 DEF Tally, all
  <2>6. Accounted'
    BY <2>1, <2>2, <2>3, <2>4 DEF Accounted, all
  <2>7. BlobsScanned'
    BY <2>4 DEF BlobsScanned
  <2>8. Flow' /\ Decided'
    BY <1>1, <2>1 DEF DoctorInv, Flow, Decided, indexVars, choiceVars
  <2> QED
    BY <2>5, <2>6, <2>7, <2>8 DEF DoctorInv
<1> QED
  BY <1>2, <1>3

\* The verdict keeps the doctor's invariant.
LEMMA VerdictKeeps ==
  ASSUME PreInv, Verdict
  PROVE  DoctorInv'
<1>1. /\ DoctorInv /\ phase = "analyzing" /\ todo = {} /\ phase' = "done" /\ exit' = Code
      /\ UNCHANGED <<readerVars, indexVars, choiceVars, todo, tally, risky, audit>>
  BY DEF PreInv, Verdict, Code
<1>2. Wanted' = Wanted /\ Code' = Code /\ \A p : Benign(p)' <=> Benign(p)
  BY <1>1 DEF Wanted, Eligible, Files, Entries, Benign, Code, AuditBlocks, IncompleteBlocks, FailOnIncomplete,
         Coverage, ExitCode, readerVars, indexVars, choiceVars
<1>3. Flow' /\ (tally \in Tally)' /\ Decided'
  BY <1>1, <1>2 DEF DoctorInv, Flow, Decided, indexVars, choiceVars
<1>4. Accounted' /\ BlobsScanned'
  BY <1>1, <1>2 DEF DoctorInv, Accounted, BlobsScanned, BlobScanned, indexVars, choiceVars
<1> QED
  BY <1>3, <1>4 DEF DoctorInv

\* A step of the call, or the signal, while nothing depends on the call.
LEMMA CallMoves ==
  ASSUME PreInv, UNCHANGED <<reads, listing, objects, choiceVars, verdictVars>>,
         call = "read" => UNCHANGED <<call, parser>>
  PROVE  DoctorInv'
<1>1. DoctorInv
  BY DEF PreInv
<1>2. Wanted' = Wanted /\ Code' = Code /\ \A p : Benign(p)' <=> Benign(p)
  BY DEF Wanted, Eligible, Files, Entries, Benign, Code, AuditBlocks, IncompleteBlocks, FailOnIncomplete,
         Coverage, ExitCode, choiceVars, verdictVars
<1>3. Flow' /\ (tally \in Tally)' /\ Decided'
  BY <1>1, <1>2 DEF DoctorInv, Flow, Decided, choiceVars, verdictVars
<1>4. phase \in {"analyzing", "done"} => Accounted' /\ BlobsScanned'
  BY <1>1, <1>2 DEF DoctorInv, Flow, Accounted, BlobsScanned, BlobScanned, choiceVars, verdictVars
<1> QED
  BY <1>3, <1>4 DEF DoctorInv, verdictVars

\* A call of the reader that has returned is left alone by the others' steps.
LEMMA ReadsStay ==
  ASSUME ReadsOfAll, [PreNext]_preVars
  PROVE  ReadsOfAll' /\ \A r \in Readers : reads[r].at = "done" => reads'[r] = reads[r]
<1> DEFINE Others(r) == ReadsOfAll' /\ \A q \in Readers \ {r} : reads'[q] = reads[q]
<1>1. ASSUME NEW r \in Readers, NEW status, NEW next, Return(r, status, next) PROVE Others(r)
  BY <1>1 DEF Return, ReadsOfAll
<1>2. ASSUME NEW r \in Readers, NEW read, Advance(r, read) PROVE Others(r)
  BY <1>2 DEF Advance, ReadsOfAll
<1>3. ASSUME NEW r \in Readers, ReadStep(r) PROVE Others(r) /\ reads[r].at # "done"
  <2>1. CASE Stated(r)
    <3> DEFINE size == inodes[reads[r].ino].size
               next == IF size = 0 THEN "extra" ELSE "chunk"
               before == [stamp |-> inodes[reads[r].ino].stamp, size |-> size]
    <3>1. \/ \E status \in {"changed", "oversized", "budget-exceeded"} : Return(r, status, "close")
          \/ reads' = [reads EXCEPT ![r].at = next, ![r].before = before, ![r].reserved = size]
      BY <2>1 DEF Stated
    <3>2. reads[r].at # "done"
      BY <2>1 DEF Stated, Resume
    <3>3. CASE \E status \in {"changed", "oversized", "budget-exceeded"} : Return(r, status, "close")
      BY <1>1, <3>2, <3>3
    <3> HIDE DEF size, next, before
    <3>4. CASE reads' = [reads EXCEPT ![r].at = next, ![r].before = before, ![r].reserved = size]
      BY <3>2, <3>4 DEF ReadsOfAll
    <3> QED
      BY <3>1, <3>2, <3>3, <3>4
  <2>2. CASE Closed(r)
    BY <2>2 DEF Closed, ReadsOfAll
  <2>3. CASE Fails(r) \/ Cancelled(r) \/ Finishes(r)
    BY <1>1, <2>3 DEF Fails, Cancelled, Finishes, Resume, Awaiting
  <2>4. CASE PathResolved(r) \/ Opened(r) \/ ChunkRead(r)
    BY <1>1, <1>2, <2>4 DEF PathResolved, Opened, ChunkRead, Resume
  <2>5. CASE ExtraRead(r) \/ Restated(r) \/ PathStated(r)
    BY <1>1, <1>2, <2>5 DEF ExtraRead, Restated, PathStated, Resume
  <2> QED
    BY <1>3, <2>1, <2>2, <2>3, <2>4, <2>5 DEF ReadStep
<1>4. CASE UNCHANGED reads
  BY <1>4 DEF ReadsOfAll
<1>5. CASE PreReadStep
  <2>1. PICK r \in Readers : ReadStep(r)
    BY <1>5, PreCommitAssumption DEF PreReadStep, PreCommitAssumption
  <2>2. Others(r) /\ reads[r].at # "done"
    BY <1>3, <2>1
  <2> QED
    BY <2>2
<1>6. CASE DoctorAsks
  <2> DEFINE r == Current
  <2>1. reads[r].at = "idle" /\ \E read : reads' = [reads EXCEPT ![r] = read]
    BY <1>6 DEF DoctorAsks, Begin, Refuse
  <2> HIDE DEF r
  <2> QED
    BY <2>1 DEF ReadsOfAll
<1>7. CASE ~(PreReadStep \/ DoctorAsks)
  <2>1. UNCHANGED reads
    BY <1>7 DEF PreNext, PreProgress, PreDiskStep, DiskStep, Write, Repoint, PreAbort, AbortReads, PreIndexStep,
                Listed, BlobsEnd, StartAnalysis, DoctorStaged, DoctorReads, AuditEnds, AuditRejects, Verdict,
                preVars, readerVars
  <2> QED
    BY <1>4, <2>1
<1> QED
  BY <1>5, <1>6, <1>7

\* What the run is about does not change.
LEMMA ChoicesStay ==
  ASSUME [PreNext]_preVars
  PROVE  UNCHANGED <<listing, objects, choiceVars>>
  BY DEF PreNext, PreProgress, PreDiskStep, PreAbort, PreReadStep, PreIndexStep, IndexStep, ListAnswers,
         ChildCloses, ChildErrors, ChunkArrives, Listed, StartBlobs, BlobsEnd, StartAnalysis, DoctorStaged,
         DoctorAsks, DoctorReads, AuditEnds, AuditRejects, Verdict, preVars, indexVars

\* A binary that was excused stays one.
LEMMA BenignStays ==
  ASSUME ReadsOfAll, [PreNext]_preVars, NEW p \in Paths, Benign(p)
  PROVE  Benign(p)'
<1>1. UNCHANGED <<listing, objects, choiceVars>>
  BY ChoicesStay
<1>2. p \in Readers
  BY PreCommitAssumption DEF PreCommitAssumption
<1>3. reads[p].at = "done" => reads'[p] = reads[p]
  BY <1>2, ReadsStay
<1> QED
  BY <1>1, <1>3 DEF Benign, choiceVars

\* Every step of the pre-commit command keeps the invariant.
LEMMA PreStepKeeps ==
  ASSUME PreInv, [PreNext]_preVars
  PROVE  PreInv'
<1>0. IndexInv /\ DoctorInv /\ ReadsOfAll
  BY DEF PreInv
<1>r. ReadsOfAll'
  BY <1>0, ReadsStay
<1> SUFFICES IndexInv' /\ DoctorInv'
  BY <1>r DEF PreInv
<1>c. (call = "read" => child # "running") /\ (child = "running" => call = "reading")
  BY DEF PreInv, IndexInv, Called
<1>1. CASE UNCHANGED <<indexVars, choiceVars, verdictVars>>
  BY <1>0, <1>1, IndexUnchanged, DoctorUnchanged, BenignStays
<1>2. CASE PreIndexStep
  <2>1. IndexStep /\ UNCHANGED <<reads, listing, objects, choiceVars, verdictVars>>
    BY <1>2 DEF PreIndexStep, readerVars, IndexStep, ListAnswers, ChildCloses, ChildErrors, ChunkArrives
  <2>2. call # "read"
    BY <1>c, <2>1 DEF IndexStep, ListAnswers, ChildCloses, ChildErrors, ChunkArrives
  <2> QED
    BY <1>0, <2>1, <2>2, IndexStepKeeps, CallMoves DEF PreInv
<1>3. CASE PreAbort
  <2>1. AbortBlobs /\ UNCHANGED <<listing, objects, child, sent>> /\ UNCHANGED <<choiceVars, verdictVars>>
    BY <1>3 DEF PreAbort
  <2>r. UNCHANGED reads
    BY <1>3 DEF PreAbort, AbortReads
  <2>2. call = "read" => UNCHANGED <<call, parser>>
    BY <1>c, <2>1 DEF AbortBlobs
  <2> QED
    BY <1>0, <2>1, <2>r, <2>2, AbortBlobsKeeps, CallMoves DEF PreInv
<1>4. CASE Listed
  <2>1. phase = "listing" /\ UNCHANGED choiceVars /\ scope = "staged"
    BY <1>0, <1>4 DEF Listed, DoctorInv, Flow
  <2>2. CASE Reject /\ UNCHANGED indexVars
    BY <1>0, <2>1, <2>2, RejectKeeps, IndexUnchanged DEF PreInv
  <2>3. CASE /\ StartBlobs({listing[p].oid : p \in Eligible(Files)})
             /\ phase' = "blobs" /\ UNCHANGED <<todo, tally, risky, audit, exit>>
    <3>1. Eligible(Files) \in SUBSET Entries
      BY <2>1, WantedEntries DEF Wanted
    <3>2. IndexInv'
      BY <1>0, <2>3, <3>1, StartBlobsKeeps
    <3>3. DoctorInv'
      BY <1>0, <2>1, <2>3 DEF DoctorInv, Flow, Decided, choiceVars
    <3> QED
      BY <3>2, <3>3 DEF PreInv
  <2> QED
    BY <1>4, <2>2, <2>3 DEF Listed
<1>5. CASE BlobsEnd
  <2>1. phase = "blobs" /\ UNCHANGED <<indexVars, choiceVars>>
    BY <1>5 DEF BlobsEnd
  <2>2. DoctorInv'
    <3>1. CASE Reject
      BY <1>0, <2>1, <3>1, RejectKeeps
    <3>2. CASE call = "read" /\ phase' = "profile" /\ UNCHANGED <<todo, tally, risky, audit, exit>>
      BY <1>0, <2>1, <3>2 DEF DoctorInv, Flow, Decided, choiceVars, indexVars
    <3> QED
      BY <1>5, <3>1, <3>2 DEF BlobsEnd
  <2> QED
    BY <1>0, <2>1, <2>2, IndexUnchanged DEF PreInv
<1>6. CASE StartAnalysis
  BY <1>0, <1>6, StartAnalysisKeeps, IndexUnchanged DEF PreInv, StartAnalysis
<1>7. CASE DoctorStaged
  BY <1>0, <1>7, DoctorStagedKeeps, IndexUnchanged DEF PreInv, DoctorStaged
<1>8. CASE DoctorReads
  BY <1>0, <1>8, DoctorReadsKeeps, IndexUnchanged DEF PreInv, DoctorReads
<1>9. CASE AuditEnds
  <2>1. phase = "analyzing" /\ UNCHANGED <<readerVars, indexVars, choiceVars, phase, todo, tally, risky, exit>>
    BY <1>9 DEF AuditEnds
  <2>2. Wanted' = Wanted /\ \A p : Benign(p)' <=> Benign(p)
    BY <2>1 DEF Wanted, Eligible, Files, Entries, Benign, readerVars, indexVars, choiceVars
  <2>3. Flow' /\ (tally \in Tally)' /\ Decided'
    BY <1>0, <2>1 DEF DoctorInv, Flow, Decided, indexVars, choiceVars
  <2>4. Accounted' /\ BlobsScanned'
    BY <1>0, <2>1, <2>2 DEF DoctorInv, Accounted, BlobsScanned, BlobScanned, indexVars, choiceVars
  <2> QED
    BY <1>0, <2>1, <2>3, <2>4, IndexUnchanged DEF PreInv, DoctorInv
<1>10. CASE AuditRejects
  BY <1>0, <1>10, RejectKeeps, IndexUnchanged DEF PreInv, AuditRejects
<1>11. CASE Verdict
  BY <1>0, <1>11, VerdictKeeps, IndexUnchanged DEF PreInv, Verdict
<1>12. CASE PreReadStep \/ PreDiskStep \/ DoctorAsks
  BY <1>1, <1>12 DEF PreReadStep, PreDiskStep, DoctorAsks
<1>13. CASE UNCHANGED preVars
  BY <1>1, <1>13 DEF preVars
<1> QED
  BY <1>2, <1>3, <1>4, <1>5, <1>6, <1>7, <1>8, <1>9, <1>10, <1>11, <1>12, <1>13 DEF PreNext, PreProgress

\* The invariant of the pre-commit command holds in every reachable state.
LEMMA PreInvInductive == PreSpec => []PreInv
<1>1. PreInit(Object) => PreInv
  <2> SUFFICES ASSUME PreInit(Object) PROVE PreInv
    OBVIOUS
  <2>1. ObjectsOK /\ sent = 0 /\ child = "none" /\ parser = FreshParser /\ call \in {"idle", "listing"}
    BY DEF PreInit, ObjectsOK
  <2>2. listing \in [Paths -> Change]
    <3>1. Unstaged \in Change
      BY DEF Change
    <3> QED
      BY <3>1 DEF PreInit
  <2>3. ParserOK(parser, sent)
    <3> DEFINE none == <<>>
    <3>1. none \in Seq(Oids) /\ Distinct(none)
      BY DEF Distinct
    <3>2. [FreshParser EXCEPT !.wanted = none] = FreshParser
      <4>1. FreshParser \in [{"pending", "index", "expect", "retained", "filesRead", "results", "failed", "wanted"} -> {FreshParser[x] : x \in DOMAIN FreshParser}]
        BY DEF FreshParser
      <4>2. FreshParser.wanted = none
        BY DEF FreshParser
      <4> HIDE DEF none
      <4> QED
        BY <4>1, <4>2
    <3> QED
      BY <2>1, <3>1, <3>2, FreshParserOK
  <2>4. IndexInv
    BY <2>1, <2>2, <2>3 DEF IndexInv, Called
  <2>5. Flow /\ Decided /\ phase \notin {"analyzing", "done"}
    BY DEF PreInit, Flow, Decided
  <2>7. ReadsOfAll
    BY DEF PreInit, ReaderInit, ReadsOfAll
  <2>6. tally \in Tally
    BY DEF PreInit, NoTally, Tally
  <2> QED
    BY <2>4, <2>5, <2>6, <2>7 DEF PreInv, DoctorInv
<1> QED
  BY <1>1, PreStepKeeps, PTL DEF PreSpec

-----------------------------------------------------------------------------
(* What follows *)

\* A blob read that resolves, however its output was cut into chunks, has for
\* each object its content, or says truly why it has none, within the budget
\* (readBlobs, staged-index.ts:118).
THEOREM BlobsAreExact == PreSpec => []BlobsExact
<1>1. PreInv => BlobsExact
  <2> SUFFICES ASSUME PreInv, call = "read" PROVE BlobsExact
    BY DEF BlobsExact
  <2>1. /\ parser \in Parser /\ Answered(parser) /\ Charged(parser)
        /\ parser.index = Len(parser.wanted) /\ parser.expect = NoBlob
    BY DEF PreInv, IndexInv, Called, StreamComplete, ParserOK
  <2>2. parser.wanted \in Seq(Oids) /\ Len(parser.wanted) \in Nat
    BY <2>1 DEF Parser
  <2>3. ASSUME NEW oid \in ToSet(parser.wanted)
        PROVE  oid \in Oids /\ Tells(oid, parser.results[oid]) /\ parser.results[oid] \in Result
    <3>1. PICK i \in 1..Len(parser.wanted) : parser.wanted[i] = oid
      BY <2>2 DEF ToSet
    <3>2. oid \in Oids
      BY <2>2, <3>1
    <3> QED
      BY <2>1, <2>2, <3>1, <3>2 DEF Answered, Parser
  <2>4. Claimed(parser) = {oid \in ToSet(parser.wanted) : parser.results[oid].status \in {"ok", "binary"}}
    BY <2>1 DEF Claimed
  <2> DEFINE kept == {oid \in ToSet(parser.wanted) : parser.results[oid].status \in {"ok", "binary"}}
             Right(oid) == LET result == parser.results[oid] IN
               CASE result.status = "ok" -> result.content = Body(oid) /\ ~objects[oid].binary
                 [] result.status = "binary" -> objects[oid].present /\ objects[oid].binary
                 [] result.status = "oversized" -> objects[oid].present /\ objects[oid].size > MaxFileBytes
                 [] OTHER -> result.status = "budget-exceeded" /\ objects[oid].present
  <2>5. ASSUME NEW oid \in ToSet(parser.wanted) PROVE Right(oid)
    <3>1. parser.results[oid].status \in {"ok", "binary", "oversized", "budget-exceeded"}
      BY <2>3 DEF Tells, Result
    <3> QED
      BY <2>3, <3>1 DEF Tells
  <2>6. /\ SumFunctionOnSet([oid \in Oids |-> objects[oid].size], kept) <= MaxTotalBytes
        /\ Cardinality(kept) <= MaxFiles
    <3> HIDE DEF kept
    <3>1. Claimed(parser) = kept
      BY <2>4 DEF kept
    <3> QED
      BY <2>1, <3>1 DEF Charged, ObjectSizes
  <2> HIDE DEF kept
  <2> QED
    BY <2>5, <2>6 DEF BlobsExact, kept
<1> QED
  BY <1>1, PreInvInductive, PTL

\* No git cat-file process outlives the call that started it (staged-index.ts:152).
THEOREM ChildEndsFirst == PreSpec => []NoChildOutlives
<1>1. PreInv => NoChildOutlives
  BY DEF PreInv, IndexInv, Called, NoChildOutlives
<1> QED
  BY <1>1, PreInvInductive, PTL

\* The command's verdict as its exit code (commands/pre-commit.ts).
LEMMA VerdictOf ==
  ASSUME PreInv, phase = "done"
  PROVE  /\ tally \in Tally /\ todo = {} /\ exit = Code /\ Accounted /\ BlobsScanned
         /\ scope \in {"staged", "full"} /\ (scope = "staged" => call = "read")
  BY DEF PreInv, DoctorInv, Decided, Flow

\* A verdict counts as unexamined the wanted paths it did not scan; the staged ones
\* it did scan were examined, and the risky of them found.
LEMMA UnexaminedOnes ==
  ASSUME PreInv, phase = "done"
  PROVE  /\ Unexamined = Wanted \ tally.scanned
         /\ scope = "staged" => \A p \in tally.scanned :
              Examined(p) /\ (objects[listing[p].oid].risky => p \in risky)
<1>1. Accounted /\ BlobsScanned /\ (scope = "staged" => call = "read") /\ IndexInv
  BY VerdictOf DEF PreInv
<1>2. scope = "staged" => \A p \in tally.scanned :
              Examined(p) /\ (objects[listing[p].oid].risky => p \in risky)
  <2> SUFFICES ASSUME scope = "staged", NEW p \in tally.scanned
               PROVE  Examined(p) /\ (objects[listing[p].oid].risky => p \in risky)
    OBVIOUS
  <2>1. parser.results[listing[p].oid].status = "ok" /\ (objects[listing[p].oid].risky => p \in risky)
    BY <1>1 DEF BlobsScanned, BlobScanned
  <2>2. p \in Entries
    BY <1>1, WantedEntries DEF Accounted
  <2>3. Tells(listing[p].oid, parser.results[listing[p].oid])
    BY <1>1, <2>1, <2>2, BlobTells
  <2> QED
    BY <2>1, <2>3 DEF Tells, Examined
<1>3. Unexamined = Wanted \ tally.scanned
  BY <1>2 DEF Unexamined, Examined, Wanted
<1> QED
  BY <1>2, <1>3

\* What the coverage of the tally says of the files (security-doctor.ts).
LEMMA CoverageTells ==
  ASSUME PreInv, phase = "done"
  PROVE  /\ Coverage(tally) \in {"failed", "partial", "complete"}
         /\ (\E p \in Unexamined : ~Benign(p)) =>
              /\ Coverage(tally) \in {"failed", "partial"}
              /\ tally.scanned = {} => Coverage(tally) = "failed"
<1>1. /\ tally \in Tally /\ todo = {} /\ Accounted /\ Unexamined = Wanted \ tally.scanned
  BY VerdictOf, UnexaminedOnes
<1>2. tally.skipped \in Nat /\ tally.failed \in Nat /\ tally.eligible \in Int
  BY <1>1 DEF Tally
<1>3. tally.eligible = Cardinality({}) + Cardinality(tally.scanned) + tally.skipped + tally.failed
  BY <1>1 DEF Accounted
<1>4. (\E p \in Unexamined : ~Benign(p)) => tally.skipped + tally.failed > 0
  BY <1>1 DEF Accounted
<1>5. Cardinality({}) = 0
  BY FS_EmptySet
<1>6. tally.skipped + tally.failed > 0 /\ tally.scanned = {} => tally.eligible > 0
  BY <1>2, <1>3, <1>5
<1> DEFINE u == tally.skipped + tally.failed
           none == tally.eligible > 0 /\ tally.scanned = {} /\ u > 0
           some == u > 0 \/ tally.cancelled
<1>7. Coverage(tally) = IF none THEN "failed" ELSE IF some THEN "partial" ELSE "complete"
  BY DEF Coverage
<1>8. u > 0 => some /\ (tally.scanned = {} => none)
  BY <1>6
<1> HIDE DEF u, none, some
<1>9. (\E p \in Unexamined : ~Benign(p)) => u > 0
  BY <1>4 DEF u
<1> QED
  BY <1>7, <1>8, <1>9

\* Git is told to go on only when each eligible file was examined and had nothing
\* at or above the threshold; a scan that left a file out says so (the verdict of
\* pre-commit.ts:193-204).
THEOREM VerdictIsHonest == PreSpec => []VerdictHonest
<1>1. PreInv => VerdictHonest
  <2> SUFFICES ASSUME PreInv PROVE VerdictHonest
    OBVIOUS
  <2>0. phase # "done" => exit \in {1, Undecided}
    BY DEF PreInv, DoctorInv, Decided
  <2> DEFINE Missed == \E p \in Unexamined : ~Benign(p)
             state == Coverage(tally)
             blocking == risky # {} \/ AuditBlocks
  <2>1. ASSUME phase = "done"
        PROVE  /\ exit = Code /\ scope \in {"staged", "full"} /\ state \in {"failed", "partial", "complete"}
               /\ Missed => state \in {"failed", "partial"} /\ (tally.scanned = {} => state = "failed")
    BY <2>1, VerdictOf, CoverageTells
  <2> HIDE DEF Missed, state, blocking
  <2>2. Code = IF ~blocking /\ ~IncompleteBlocks(state) THEN 0 ELSE ExitCode(state, blocking)
    BY DEF Code, state, blocking
  <2>3. ASSUME exit = 0
        PROVE  /\ phase = "done" /\ risky = {} /\ state # "failed"
               /\ state = "partial" => ~FailOnIncomplete
    <3>1. phase = "done"
      BY <2>0, <2>3 DEF Undecided
    <3>2. ~blocking /\ ~IncompleteBlocks(state)
      BY <2>1, <2>2, <2>3, <3>1 DEF ExitCode, IncompleteBlocks
    <3> QED
      BY <3>1, <3>2 DEF IncompleteBlocks, blocking
  <2>4. ASSUME exit = 0, Missed PROVE scope = "full" /\ tolerant /\ tally.scanned # {}
    BY <2>1, <2>3, <2>4 DEF FailOnIncomplete
  <2>5. ASSUME exit = 0, scope = "staged", NEW p \in Eligible(Files)
        PROVE  Benign(p) \/ (Examined(p) /\ ~objects[listing[p].oid].risky)
    <3>1. phase = "done" /\ risky = {}
      BY <2>3, <2>5
    <3>2. CASE p \in tally.scanned
      BY <2>5, <3>1, <3>2, UnexaminedOnes
    <3>3. CASE p \notin tally.scanned
      <4>1. p \in Unexamined
        BY <3>1, <3>3, UnexaminedOnes DEF Wanted
      <4> QED
        BY <2>4, <2>5, <4>1 DEF Missed
    <3> QED
      BY <3>2, <3>3
  <2>6. ASSUME phase = "done", Missed
        PROVE  /\ scope = "staged" \/ ~tolerant => exit >= 3
               /\ tally.scanned = {} => exit = 4
    <3>1. state = "failed" => Code = 4
      <4> SUFFICES ASSUME state = "failed" PROVE Code = 4
        OBVIOUS
      <4>1. IncompleteBlocks(state)
        BY DEF IncompleteBlocks
      <4>2. ExitCode(state, blocking) = 4
        BY DEF ExitCode
      <4> QED
        BY <2>2, <4>1, <4>2
    <3>2. state = "partial" /\ (scope = "staged" \/ ~tolerant) => Code = 3
      <4> SUFFICES ASSUME state = "partial", scope = "staged" \/ ~tolerant PROVE Code = 3
        OBVIOUS
      <4>1. FailOnIncomplete
        BY DEF FailOnIncomplete
      <4>2. IncompleteBlocks(state)
        BY <4>1 DEF IncompleteBlocks
      <4>3. ExitCode(state, blocking) = 3
        BY <4>1 DEF ExitCode
      <4> QED
        BY <2>2, <4>2, <4>3
    <3> QED
      BY <2>1, <2>6, <3>1, <3>2
  <2> QED
    BY <2>3, <2>4, <2>5, <2>6 DEF VerdictHonest, Missed
<1> QED
  BY <1>1, PreInvInductive, PTL

\* An audit finding blocks a staged commit only when the commit is about it
\* (findingAppliesToStagedScope, pre-commit.ts).
THEOREM OwnFindingsBlock == PreSpec => []OthersFindingsDoNotBlock
<1>1. PreInv => OthersFindingsDoNotBlock
  <2> SUFFICES ASSUME PreInv, phase = "done", scope = "staged", exit = 1
               PROVE  \/ risky # {}
                      \/ audit.state = "located" /\ audit.file \in Entries
                      \/ audit.state = "unlocated" /\ GitIgnore \in Entries
    BY DEF OthersFindingsDoNotBlock
  <2>1. exit = Code
    BY VerdictOf
  <2>2. risky # {} \/ AuditBlocks
    BY <2>1 DEF Code, ExitCode
  <2> QED
    BY <2>2 DEF AuditBlocks, Files
<1> QED
  BY <1>1, PreInvInductive, PTL

\* The command uses the reader as its callers may: what is proved of the reader
\* holds of the doctor's reads (security-doctor.ts).
THEOREM CommandReads == PreSpec => ReaderSpec
<1>1. PreInit(Object) => ReaderInit
  BY DEF PreInit
<1>2. ASSUME PreInv, [PreNext]_preVars PROVE [ReaderNext]_readerVars
  <2>1. CASE UNCHANGED readerVars
    BY <2>1
  <2>2. CASE PreDiskStep
    BY <2>2 DEF PreDiskStep, ReaderNext
  <2>3. CASE PreReadStep
    BY <2>3, PreCommitAssumption DEF PreReadStep, ReaderNext, PreCommitAssumption
  <2>4. CASE PreAbort
    BY <2>4 DEF PreAbort, ReaderNext
  <2>5. CASE DoctorAsks
    <3>1. todo \subseteq Wanted /\ todo # {} /\ Begin(Current, Current, TRUE)
      BY <1>2, <2>5 DEF DoctorAsks, PreInv, DoctorInv, Accounted
    <3>2. Current \in Paths
      BY <3>1, CurrentOK, WantedFinite
    <3>3. Current \in Readers
      BY <3>2, PreCommitAssumption DEF PreCommitAssumption
    <3> HIDE DEF Current
    <3> QED
      BY <3>1, <3>2, <3>3 DEF ReaderNext
  <2>6. CASE PreIndexStep \/ Listed \/ BlobsEnd \/ StartAnalysis \/ DoctorStaged \/ DoctorReads
             \/ AuditEnds \/ AuditRejects \/ Verdict \/ UNCHANGED preVars
    <3>1. UNCHANGED readerVars
      BY <2>6 DEF PreIndexStep, Listed, BlobsEnd, StartAnalysis, DoctorStaged, DoctorReads, AuditEnds,
                  AuditRejects, Verdict, preVars
    <3> QED
      BY <3>1
  <2> QED
    BY <1>2, <2>2, <2>3, <2>4, <2>5, <2>6 DEF PreNext, PreProgress
<1> QED
  BY <1>1, <1>2, PreInvInductive, PTL DEF PreSpec, ReaderSpec
=============================================================================
