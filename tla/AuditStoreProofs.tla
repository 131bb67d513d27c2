-------------------------- MODULE AuditStoreProofs --------------------------
(***************************************************************************)
(* The proof that an acknowledged record of AuditLog is in the retained    *)
(* files.  AckedIsStored is not inductive: a caller is acknowledged by the *)
(* job that took its line, or by a later one that found the buffer empty,  *)
(* so the invariant follows each line from the buffer through the payload  *)
(* of a job to the files, and says why neither an append nor a rename      *)
(* loses a line that is already there.  The second part proves that a      *)
(* rotation drops the oldest lines only: the ids grow along the files, and *)
(* the one gap between the segments is where the rotation is at.  The      *)
(* third part is about AuditHistory, the log with a reader beside it.      *)
(***************************************************************************)
EXTENDS AuditLogProofs, AuditHistory

Kept == StoredIds \cup pruned

\* The ids of the lines that the running job is about to append.
AppendedNext == IF job.phase = "append" THEN Ids(job.payload) ELSE {}

EndsIn(file, ends) == file = <<>> \/ file[Len(file)].end \in ends

\* The target of the next rename is free.
RenameTargetFree ==
    /\ job.phase = "shift" => job.index >= 1 /\ disk[job.index + 1] = <<>>
    /\ job.phase = "seal" => disk[1] = <<>>

AckedKept == \A n \in Entries : status[n] = "acked" => n \in Kept

\* What a job that succeeds acknowledges: its owner, and later the owners of
\* jobs that find nothing left to write.
OwnersOnTheWay ==
    startupError = "none" =>
        /\ EndsIn(disk[0], {"ok"})
        /\ \A k \in DOMAIN tail : tail[k] \in Kept \cup AppendedNext \cup Ids(writeBuffer)
        /\ job.phase # "idle" => job.owner \in Kept \cup AppendedNext

StoreInv ==
    /\ Whole(writeBuffer) /\ Whole(job.payload)
    /\ RenameTargetFree
    /\ "bare" \notin damage =>
           /\ EndsIn(disk[0], {"ok", "torn"})
           /\ AckedKept
           /\ OwnersOnTheWay
-----------------------------------------------------------------------------
(* Appending. *)

LEMMA IdsOfConcat ==
    ASSUME NEW file \in Seq(Line), NEW payload \in Seq(Line)
    PROVE  Ids(file \o payload) = Ids(file) \cup Ids(payload)
<1> DEFINE whole == file \o payload
<1>1. /\ DOMAIN whole = 1..(Len(file) + Len(payload))
      /\ DOMAIN file = 1..Len(file) /\ DOMAIN payload = 1..Len(payload)
      /\ Len(file) \in Nat /\ Len(payload) \in Nat
    OBVIOUS
<1>2. \A n \in DOMAIN file : n \in DOMAIN whole /\ whole[n] = file[n]
    BY <1>1
<1>3. \A n \in DOMAIN payload :
          Len(file) + n \in DOMAIN whole /\ whole[Len(file) + n] = payload[n]
    BY <1>1
<1>4. \A n \in DOMAIN whole :
          n \notin DOMAIN file =>
             /\ n - Len(file) \in DOMAIN payload
             /\ whole[n] = payload[n - Len(file)]
    BY <1>1
<1>5. Ids(file) \subseteq Ids(whole)
    BY <1>2 DEF Ids
<1>6. Ids(payload) \subseteq Ids(whole)
    BY <1>3 DEF Ids
<1>7. Ids(whole) \subseteq Ids(file) \cup Ids(payload)
    BY <1>2, <1>4 DEF Ids
<1> QED BY <1>5, <1>6, <1>7

\* What an append does to a file that ends in no bare line.
LEMMA ExtendKeeps ==
    ASSUME NEW file \in Seq(Line), NEW payload \in Seq(Line), EndsIn(file, {"ok", "torn"})
    PROVE  /\ Ids(file) \subseteq Ids(Extend(file, payload))
           /\ EndsIn(file, {"ok"}) => Ids(payload) \subseteq Ids(Extend(file, payload))
<1>1. CASE file = <<>> \/ payload = <<>> \/ file[Len(file)].end = "ok"
    BY <1>1, IdsOfConcat DEF Extend
<1>2. CASE ~(file = <<>> \/ payload = <<>> \/ file[Len(file)].end = "ok")
    <2>1. file[Len(file)].end = "torn" /\ ~EndsIn(file, {"ok"})
        BY <1>2 DEF EndsIn
    <2> DEFINE marked == [file EXCEPT ![Len(file)].end = "torn"]
    <2>2. Len(file) \in DOMAIN file /\ file[Len(file)] \in Line
        BY <1>2
    <2>3. marked = file
        <3>1. \A line \in Line : line.end = "torn" => [line EXCEPT !.end = "torn"] = line
            BY DEF Line
        <3>2. [file[Len(file)] EXCEPT !.end = "torn"] = file[Len(file)]
            BY <2>1, <2>2, <3>1
        <3> QED BY <2>2, <3>2
    <2>4. Extend(file, payload) = file \o Tail(payload) /\ Tail(payload) \in Seq(Line)
        BY <1>2, <2>3 DEF Extend
    <2>5. Ids(file \o Tail(payload)) = Ids(file) \cup Ids(Tail(payload))
        BY <2>4, IdsOfConcat
    <2>6. Ids(file) \subseteq Ids(Extend(file, payload))
        BY <2>4, <2>5
    <2> QED BY <2>1, <2>6
<1> QED BY <1>1, <1>2

\* An append of whole lines leaves no bare line at the end, and no torn one
\* either when there was none.
LEMMA ExtendEnds ==
    ASSUME NEW file \in Seq(Line), NEW payload \in Seq(Line), Whole(payload)
    PROVE  /\ EndsIn(file, {"ok", "torn"}) => EndsIn(Extend(file, payload), {"ok", "torn"})
           /\ EndsIn(file, {"ok"}) => EndsIn(Extend(file, payload), {"ok"})
<1>1. CASE payload = <<>>
    BY <1>1 DEF Extend, EndsIn
<1>2. CASE payload # <<>>
    <2>1. /\ Len(payload) \in DOMAIN payload /\ payload[Len(payload)].end = "ok"
          /\ Len(payload) \in Nat \ {0} /\ Len(file) \in Nat
        BY <1>2 DEF Whole
    <2>2. CASE EndsIn(file, {"ok"})
        <3>1. Extend(file, payload) = file \o payload
            BY <2>2 DEF Extend, EndsIn
        <3>2. /\ Len(file \o payload) = Len(file) + Len(payload)
              /\ (file \o payload)[Len(file) + Len(payload)] = payload[Len(payload)]
            BY <2>1
        <3> QED BY <2>1, <3>1, <3>2 DEF EndsIn
    <2>3. CASE ~EndsIn(file, {"ok"}) /\ EndsIn(file, {"ok", "torn"})
        <3> DEFINE marked == [file EXCEPT ![Len(file)].end = "torn"]
                   rest == Tail(payload)
        <3>1. Extend(file, payload) = marked \o rest /\ file # <<>>
            BY <1>2, <2>3 DEF Extend, EndsIn
        <3>2. /\ marked \in Seq(Line) /\ Len(marked) = Len(file) /\ Len(file) \in 1..Len(file)
              /\ marked[Len(file)].end = "torn"
            <4>1. Len(file) \in DOMAIN file /\ file[Len(file)] \in Line
                BY <3>1
            <4>2. [file[Len(file)] EXCEPT !.end = "torn"] \in Line
                BY <4>1 DEF Line, Ends
            <4> QED BY <4>1, <4>2 DEF Line
        <3>3. rest \in Seq(Line) /\ Len(rest) = Len(payload) - 1
            BY <1>2
        <3> HIDE DEF marked
        <3>4. CASE Len(payload) = 1
            <4>1. rest = <<>> /\ marked \o rest = marked
                <5>1. Len(rest) = 0
                    BY <3>3, <3>4
                <5> HIDE DEF rest
                <5>2. rest = <<>>
                    BY <3>3, <5>1
                <5> QED BY <3>2, <5>2
            <4> QED BY <2>3, <3>1, <3>2, <4>1 DEF EndsIn
        <3>5. CASE Len(payload) # 1
            <4>1. Len(rest) \in 1..Len(rest) /\ rest[Len(rest)] = payload[Len(payload)]
                BY <1>2, <2>1, <3>3, <3>5
            <4> HIDE DEF rest
            <4>2. /\ Len(marked \o rest) = Len(marked) + Len(rest)
                  /\ (marked \o rest)[Len(marked) + Len(rest)] = rest[Len(rest)]
                BY <3>2, <3>3, <4>1
            <4> QED BY <2>1, <2>3, <3>1, <4>1, <4>2 DEF EndsIn
        <3> QED BY <3>4, <3>5
    <2> QED BY <2>2, <2>3 DEF EndsIn
<1> QED BY <1>1, <1>2
-----------------------------------------------------------------------------
(* What is kept. *)

LEMMA StoredNext == StoredIds' = UNION {Ids(disk'[i]) : i \in Segments}
BY DEF StoredIds, Ids, Segments

\* A change of the active segment that keeps its lines keeps all lines.
LEMMA ActiveGrows ==
    ASSUME TypeOK, NEW file \in Seq(Line), disk' = [disk EXCEPT ![0] = file],
           Ids(disk[0]) \subseteq Ids(file), UNCHANGED pruned
    PROVE  /\ StoredIds \subseteq StoredIds'
           /\ Kept \subseteq Kept' /\ Ids(file) \subseteq Kept'
<1>1. 0 \in Segments /\ disk'[0] = file /\ \A i \in Segments \ {0} : disk'[i] = disk[i]
    BY ActiveSegment DEF TypeOK
<1>2. \A i \in Segments : Ids(disk[i]) \subseteq Ids(disk'[i])
    BY <1>1
<1>3. StoredIds \subseteq StoredIds'
    BY <1>2, StoredNext DEF StoredIds
<1>4. Ids(file) \subseteq StoredIds'
    BY <1>1, StoredNext
<1> QED BY <1>3, <1>4 DEF Kept

\* A rename to a free target keeps all lines.
LEMMA RenameKeeps ==
    ASSUME TypeOK, NEW from \in Segments, NEW to \in Segments, from # to,
           disk[to] = <<>>, disk' = Rename(disk, from, to), UNCHANGED pruned
    PROVE  /\ StoredIds \subseteq StoredIds'
           /\ Kept \subseteq Kept' /\ disk'[from] = <<>>
<1>1. CASE disk[from] = <<>>
    BY <1>1 DEF Rename, Kept, StoredIds, Ids, Segments
<1>2. CASE disk[from] # <<>>
    <2>1. /\ disk'[from] = <<>> /\ disk'[to] = disk[from]
          /\ \A i \in Segments \ {from, to} : disk'[i] = disk[i]
        BY <1>2 DEF Rename, TypeOK
    <2>2. Ids(disk[to]) = {}
        BY DEF Ids
    <2>3. \A i \in Segments : \E j \in Segments : Ids(disk[i]) \subseteq Ids(disk'[j])
        BY <2>1, <2>2
    <2>4. StoredIds \subseteq StoredIds'
        BY <2>3, StoredNext DEF StoredIds
    <2> QED BY <2>1, <2>4 DEF Kept
<1> QED BY <1>1, <1>2

\* Pruning moves the lines of the oldest segment to `pruned`.
LEMMA PruneKeeps ==
    ASSUME TypeOK, PruneOldest
    PROVE  Kept \subseteq Kept'
<1>1. PrunedSegment \in Segments
    BY AuditAssumption DEF PrunedSegment, Segments
<1>2. \A i \in Segments \ {PrunedSegment} : disk'[i] = disk[i]
    BY DEF PruneOldest, TypeOK
<1>3. \A i \in Segments : Ids(disk[i]) \subseteq Kept'
    <2>1. ASSUME NEW i \in Segments, i # PrunedSegment PROVE Ids(disk[i]) \subseteq StoredIds'
        <3>1. disk'[i] = disk[i]
            BY <1>2, <2>1
        <3> QED BY <3>1, StoredNext
    <2>2. Ids(disk[PrunedSegment]) \subseteq pruned'
        BY DEF PruneOldest
    <2> QED BY <2>1, <2>2 DEF Kept
<1>4. pruned \subseteq pruned'
    BY DEF PruneOldest
<1> QED BY <1>3, <1>4 DEF Kept, StoredIds

\* Settling a caller whose line is kept, if it is told so.
LEMMA SettleKeepsAcked ==
    ASSUME TypeOK, AckedKept, Kept \subseteq Kept', NEW n, NEW error, Settle(n, error),
           error = "none" => n \in Kept'
    PROVE  AckedKept'
<1>1. \A m \in Entries : status'[m] = "acked" => status[m] = "acked" \/ (m = n /\ error = "none")
    BY DEF TypeOK, Settle, Outcome
<1>2. Entries' = Entries
    BY DEF Entries
<1> QED BY <1>1, <1>2 DEF AckedKept
-----------------------------------------------------------------------------
(* The steps. *)

LEMMA RecordKeepsStore ==
    ASSUME TypeOK, StoreInv, Record
    PROVE  StoreInv'
<1> DEFINE line == NewLine(<<>>)
<1>1. line \in Line /\ line.id = nextId /\ line.end = "ok" /\ nextId \in Entries
    <2>1. line \in Line
        BY EmptyType, NewLineType
    <2> QED BY <2>1 DEF NewLine, Record
<1>2. /\ writeBuffer' = Append(writeBuffer, line) /\ tail' = Append(tail, line.id)
      /\ status' = [status EXCEPT ![nextId] = "waiting"]
      /\ UNCHANGED <<startupError, job, disk, pruned, damage>>
    BY DEF Record
<1> HIDE DEF line
<1>3. writeBuffer' = writeBuffer \o <<line>> /\ <<line>> \in Seq(Line)
    BY <1>1, <1>2 DEF TypeOK
<1>4. Ids(<<line>>) = {nextId}
    BY <1>1 DEF Ids
<1>5. Ids(writeBuffer') = Ids(writeBuffer) \cup {nextId}
    BY <1>3, <1>4, IdsOfConcat DEF TypeOK
<1>6. Whole(writeBuffer)'
    BY <1>1, <1>2 DEF StoreInv, Whole, TypeOK
<1>7. Kept' = Kept
    BY <1>2 DEF Kept, StoredIds, Ids
<1>8. Whole(job.payload)' /\ RenameTargetFree'
    BY <1>2 DEF StoreInv, RenameTargetFree, Whole
<1>9. AckedKept => AckedKept'
    BY <1>1, <1>2, <1>7 DEF AckedKept, Entries, TypeOK, Status
<1>10. AppendedNext' = AppendedNext
    BY <1>2 DEF AppendedNext, Ids
<1>11. OwnersOnTheWay => OwnersOnTheWay'
    <2>1. \A k \in DOMAIN tail' : tail'[k] = nextId \/ (k \in DOMAIN tail /\ tail'[k] = tail[k])
        BY <1>1, <1>2 DEF TypeOK
    <2>2. Ids(writeBuffer)' = Ids(writeBuffer')
        BY DEF Ids
    <2> QED BY <1>2, <1>5, <1>7, <1>10, <2>1, <2>2 DEF OwnersOnTheWay, EndsIn
<1> QED BY <1>2, <1>6, <1>8, <1>9, <1>11 DEF StoreInv, EndsIn

LEMMA RunEmptyKeepsStore ==
    ASSUME TypeOK, StoreInv, RunEmpty
    PROVE  StoreInv'
<1>1. /\ job.phase = "idle" /\ tail # <<>> /\ writeBuffer = <<>> /\ tail' = Tail(tail)
      /\ Settle(Head(tail), startupError)
      /\ UNCHANGED <<startupError, writeBuffer, job, disk, pruned, damage>>
    BY DEF RunEmpty, MayRun
<1>2. Kept' = Kept /\ AppendedNext = {} /\ AppendedNext' = {} /\ Ids(writeBuffer) = {}
    BY <1>1 DEF Kept, StoredIds, Ids, AppendedNext
<1>3. Whole(writeBuffer)' /\ Whole(job.payload)' /\ RenameTargetFree'
    BY <1>1 DEF StoreInv, RenameTargetFree, Whole
<1>4. \A k \in DOMAIN Tail(tail) : k + 1 \in DOMAIN tail /\ Tail(tail)[k] = tail[k + 1]
    BY <1>1 DEF TypeOK
<1>5. 1 \in DOMAIN tail /\ Head(tail) = tail[1]
    BY <1>1 DEF TypeOK
<1>6. OwnersOnTheWay => OwnersOnTheWay'
    BY <1>1, <1>2, <1>4 DEF OwnersOnTheWay, EndsIn
<1>7. OwnersOnTheWay /\ AckedKept => AckedKept'
    <2>1. OwnersOnTheWay /\ startupError = "none" => Head(tail) \in Kept'
        BY <1>2, <1>5 DEF OwnersOnTheWay
    <2> QED BY <1>1, <1>2, <2>1, SettleKeepsAcked
<1> QED BY <1>1, <1>3, <1>6, <1>7 DEF StoreInv, EndsIn

LEMMA TakeBufferKeepsStore ==
    ASSUME TypeOK, StoreInv, TakeBuffer
    PROVE  StoreInv'
<1>1. /\ job.phase = "idle" /\ tail # <<>> /\ tail' = Tail(tail) /\ writeBuffer' = <<>>
      /\ job'.phase = "append" /\ job'.owner = Head(tail) /\ job'.payload = writeBuffer
      /\ UNCHANGED <<startupError, disk, status, pruned, damage>>
    BY DEF TakeBuffer, MayRun, Idle
<1>2. Kept' = Kept /\ AckedKept' = AckedKept
    BY <1>1 DEF Kept, StoredIds, Ids, AckedKept
<1>3. AppendedNext = {} /\ AppendedNext' = Ids(writeBuffer)
    BY <1>1 DEF AppendedNext, Ids
<1>4. Whole(writeBuffer)' /\ Whole(job.payload)' /\ RenameTargetFree'
    BY <1>1 DEF StoreInv, RenameTargetFree, Whole
<1>5. \A k \in DOMAIN Tail(tail) : k + 1 \in DOMAIN tail /\ Tail(tail)[k] = tail[k + 1]
    BY <1>1 DEF TypeOK
<1>6. 1 \in DOMAIN tail /\ Head(tail) = tail[1]
    BY <1>1 DEF TypeOK
<1>7. OwnersOnTheWay => OwnersOnTheWay'
    BY <1>1, <1>2, <1>3, <1>5, <1>6 DEF OwnersOnTheWay, EndsIn
<1> QED BY <1>1, <1>2, <1>4, <1>7 DEF StoreInv, EndsIn

\* The payload is stored whole, so its owner may be told.
LEMMA AppendPayloadKeepsStore ==
    ASSUME TypeOK, StoreInv, AppendPayload
    PROVE  StoreInv'
<1> DEFINE file == Extend(disk[0], job.payload)
<1>1. /\ job.phase = "append"
      /\ disk' = [disk EXCEPT ![0] = file]
      /\ UNCHANGED <<writeBuffer, tail, pruned, damage>>
    BY DEF AppendPayload
<1>2. job.payload \in Seq(Line) /\ disk[0] \in Seq(Line) /\ Whole(job.payload)
    BY ActiveSegment DEF TypeOK, WriteJob, StoreInv
<1>3. file \in Seq(Line)
    BY <1>2, ExtendType
<1>4. disk'[0] = file
    BY <1>1, ActiveSegment DEF TypeOK
<1>5. \/ \E error \in {"write_failed", startupError} : JobDone(error)
      \/ /\ job' = [job EXCEPT !.phase = "prune"]
         /\ UNCHANGED <<startupError, status>>
    BY DEF AppendPayload
<1>6. job'.phase \in {"idle", "prune"} /\ (job'.phase = "prune" => job'.owner = job.owner)
    BY <1>5 DEF JobDone, Idle, TypeOK, WriteJob
<1>7. Whole(writeBuffer)' /\ Whole(job.payload)' /\ RenameTargetFree'
    <2>1. job'.payload = job.payload \/ job'.payload = <<>>
        BY <1>5 DEF JobDone, Idle, TypeOK, WriteJob
    <2>2. Whole(job.payload)'
        BY <1>2, <2>1 DEF Whole
    <2>3. Whole(writeBuffer)'
        BY <1>1 DEF StoreInv, Whole
    <2> QED BY <1>6, <2>2, <2>3 DEF RenameTargetFree
<1> HIDE DEF file
<1>8. ASSUME "bare" \notin damage'
      PROVE  EndsIn(disk[0], {"ok", "torn"})' /\ AckedKept' /\ OwnersOnTheWay'
    <2>1. EndsIn(disk[0], {"ok", "torn"}) /\ AckedKept /\ OwnersOnTheWay
        BY <1>1, <1>8 DEF StoreInv
    <2>2. /\ Ids(disk[0]) \subseteq Ids(file)
          /\ EndsIn(disk[0], {"ok"}) => Ids(job.payload) \subseteq Ids(file)
        BY <1>2, <2>1, ExtendKeeps DEF file
    <2>3. /\ EndsIn(file, {"ok", "torn"})
          /\ EndsIn(disk[0], {"ok"}) => EndsIn(file, {"ok"})
        BY <1>2, <2>1, ExtendEnds DEF file
    <2>4. Kept \subseteq Kept' /\ Ids(file) \subseteq Kept'
        BY <1>1, <1>3, <2>2, ActiveGrows
    <2>5. startupError = "none" => Kept \cup AppendedNext \subseteq Kept'
        BY <1>1, <2>1, <2>2, <2>4 DEF OwnersOnTheWay, AppendedNext
    <2>6. startupError = "none" => job.owner \in Kept'
        BY <1>1, <2>1, <2>5 DEF OwnersOnTheWay
    <2>7. AckedKept'
        <3>1. ASSUME NEW error \in {"write_failed", startupError}, JobDone(error)
              PROVE  AckedKept'
            <4>1. Settle(job.owner, error)
                BY <3>1 DEF JobDone
            <4> QED BY <2>1, <2>4, <2>6, <3>1, <4>1, SettleKeepsAcked
        <3>2. CASE UNCHANGED status
            BY <2>1, <2>4, <3>2 DEF AckedKept, Entries
        <3> QED BY <1>5, <3>1, <3>2
    <2>8. startupError' = "none" => startupError = "none"
        BY <1>5 DEF JobDone
    <2>9. Ids(writeBuffer)' = Ids(writeBuffer)
        BY <1>1 DEF Ids
    <2>10. OwnersOnTheWay'
        <3> SUFFICES ASSUME startupError' = "none"
                     PROVE  /\ EndsIn(disk'[0], {"ok"})
                            /\ \A k \in DOMAIN tail' : tail'[k] \in Kept' \cup Ids(writeBuffer)'
                            /\ job'.phase # "idle" => job'.owner \in Kept'
            BY DEF OwnersOnTheWay, EndsIn
        <3>1. EndsIn(disk'[0], {"ok"})
            BY <1>4, <2>1, <2>3, <2>8 DEF OwnersOnTheWay
        <3>2. \A k \in DOMAIN tail' : tail'[k] \in Kept' \cup Ids(writeBuffer)'
            BY <1>1, <2>1, <2>5, <2>8, <2>9 DEF OwnersOnTheWay
        <3> QED BY <1>6, <2>6, <2>8, <3>1, <3>2
    <2> QED BY <1>4, <2>3, <2>7, <2>10 DEF EndsIn
<1> QED BY <1>7, <1>8 DEF StoreInv

\* A step of a rotation that keeps what is stored keeps the invariant.
LEMMA RotationKeepsStore ==
    ASSUME TypeOK, StoreInv, Kept \subseteq Kept', RenameTargetFree', Whole(job.payload)',
           job.phase \notin {"idle", "append"}, job'.phase \notin {"idle", "append"},
           job'.owner = job.owner,
           disk'[0] = disk[0] \/ disk'[0] = <<>>,
           UNCHANGED <<startupError, writeBuffer, tail, status>>,
           "bare" \in damage => "bare" \in damage'
    PROVE  StoreInv'
<1>1. Whole(writeBuffer)'
    BY DEF StoreInv, Whole
<1>2. AppendedNext = {} /\ Ids(writeBuffer)' = Ids(writeBuffer)
    BY DEF AppendedNext, Ids
<1>3. AckedKept => AckedKept'
    BY DEF AckedKept, Entries
<1>4. OwnersOnTheWay => OwnersOnTheWay'
    BY <1>2 DEF OwnersOnTheWay, EndsIn
<1>5. EndsIn(disk[0], {"ok", "torn"}) => EndsIn(disk[0], {"ok", "torn"})'
    BY DEF EndsIn
<1> QED BY <1>1, <1>3, <1>4, <1>5 DEF StoreInv

LEMMA ShiftFromFree ==
    ASSUME TypeOK, NEW index \in Nat, NEW d, d[index + 1] = <<>>
    PROVE  LET to == ShiftFrom(index)
           IN  /\ to.phase \in {"shift", "seal"} /\ to.owner = job.owner
               /\ to.payload = job.payload
               /\ to.phase = "shift" => to.index >= 1 /\ d[to.index + 1] = <<>>
               /\ to.phase = "seal" => d[1] = <<>>
<1>1. CASE index >= 1
    BY <1>1 DEF ShiftFrom, TypeOK, WriteJob
<1>2. CASE index = 0
    BY <1>2 DEF ShiftFrom, TypeOK, WriteJob
<1> QED BY <1>1, <1>2

LEMMA PruneOldestKeepsStore ==
    ASSUME TypeOK, StoreInv, PruneOldest
    PROVE  StoreInv'
<1>1. /\ job.phase = "prune" /\ job' = ShiftFrom(HighestShift)
      /\ disk' = [disk EXCEPT ![PrunedSegment] = <<>>]
      /\ UNCHANGED <<startupError, writeBuffer, tail, status, damage>>
    BY DEF PruneOldest
<1>2. /\ HighestShift \in Nat /\ HighestShift + 1 = PrunedSegment
      /\ PrunedSegment \in Segments /\ PrunedSegment # 0
    BY AuditAssumption DEF HighestShift, PrunedSegment, Segments
<1>3. disk'[PrunedSegment] = <<>> /\ disk'[0] = disk[0]
    BY <1>1, <1>2, ActiveSegment DEF TypeOK
<1>4. /\ job'.phase \in {"shift", "seal"} /\ job'.owner = job.owner
      /\ job'.payload = job.payload
      /\ job'.phase = "shift" => job'.index >= 1 /\ disk'[job'.index + 1] = <<>>
      /\ job'.phase = "seal" => disk'[1] = <<>>
    BY <1>1, <1>2, <1>3, ShiftFromFree
<1>5. RenameTargetFree' /\ Whole(job.payload)'
    BY <1>4 DEF RenameTargetFree, Whole, StoreInv
<1>6. Kept \subseteq Kept'
    BY PruneKeeps
<1> QED BY <1>1, <1>3, <1>4, <1>5, <1>6, RotationKeepsStore

LEMMA ShiftSegmentKeepsStore ==
    ASSUME TypeOK, StoreInv, ShiftSegment
    PROVE  StoreInv'
<1>1. /\ job.phase = "shift" /\ job' = ShiftFrom(job.index - 1)
      /\ disk' = Rename(disk, job.index, job.index + 1)
      /\ UNCHANGED <<startupError, writeBuffer, tail, status, pruned, damage>>
    BY DEF ShiftSegment
<1>2. /\ job.index >= 1 /\ disk[job.index + 1] = <<>>
      /\ job.index \in 0..(MaxRotatedFiles - 1)
    BY <1>1 DEF StoreInv, RenameTargetFree, TypeOK, WriteJob
<1>3. job.index \in Segments /\ job.index + 1 \in Segments /\ job.index - 1 \in Nat
    BY <1>2, AuditAssumption DEF Segments
<1>4. Kept \subseteq Kept' /\ disk'[job.index] = <<>>
    BY <1>1, <1>2, <1>3, RenameKeeps
<1>5. disk'[0] = disk[0]
    BY <1>1, <1>2, <1>3, ActiveSegment DEF Rename, TypeOK
<1>6. /\ job'.phase \in {"shift", "seal"} /\ job'.owner = job.owner
      /\ job'.payload = job.payload
      /\ job'.phase = "shift" => job'.index >= 1 /\ disk'[job'.index + 1] = <<>>
      /\ job'.phase = "seal" => disk'[1] = <<>>
    <2>1. (job.index - 1) + 1 = job.index
        BY <1>2
    <2>2. disk'[(job.index - 1) + 1] = <<>>
        BY <1>4, <2>1
    <2> QED BY <1>1, <1>3, <2>2, ShiftFromFree
<1>7. RenameTargetFree' /\ Whole(job.payload)'
    BY <1>6 DEF RenameTargetFree, Whole, StoreInv
<1> QED BY <1>1, <1>4, <1>5, <1>6, <1>7, RotationKeepsStore

LEMMA SealSegmentKeepsStore ==
    ASSUME TypeOK, StoreInv, SealSegment
    PROVE  StoreInv'
<1> DEFINE line == NewLine(hashed)
<1>1. /\ job.phase = "seal" /\ disk' = Rename(disk, 0, 1)
      /\ job' = [job EXCEPT !.phase = "anchor", !.payload = <<line>>]
      /\ UNCHANGED <<startupError, writeBuffer, tail, status, pruned>>
      /\ damage \subseteq damage'
    BY DEF SealSegment
<1>2. line.end = "ok"
    BY DEF NewLine
<1> HIDE DEF line
<1>3. job'.phase = "anchor" /\ job'.owner = job.owner /\ job'.payload = <<line>>
    BY <1>1 DEF TypeOK, WriteJob
<1>4. RenameTargetFree' /\ Whole(job.payload)'
    BY <1>2, <1>3 DEF RenameTargetFree, Whole
<1>5. 0 \in Segments /\ 1 \in Segments /\ disk[1] = <<>>
    BY <1>1, AuditAssumption DEF Segments, StoreInv, RenameTargetFree
<1>6. Kept \subseteq Kept' /\ disk'[0] = <<>>
    BY <1>1, <1>5, RenameKeeps
<1> QED BY <1>1, <1>3, <1>4, <1>6, RotationKeepsStore

LEMMA AppendAnchorKeepsStore ==
    ASSUME TypeOK, StoreInv, AppendAnchor
    PROVE  StoreInv'
<1> DEFINE file == Extend(disk[0], job.payload)
<1>1. /\ job.phase = "anchor" /\ disk' = [disk EXCEPT ![0] = file]
      /\ job' = Idle /\ Settle(job.owner, startupError)
      /\ UNCHANGED <<startupError, writeBuffer, tail, pruned, damage>>
    BY DEF AppendAnchor, JobDone
<1>2. job.payload \in Seq(Line) /\ disk[0] \in Seq(Line) /\ Whole(job.payload)
    BY ActiveSegment DEF TypeOK, WriteJob, StoreInv
<1>3. file \in Seq(Line)
    BY <1>2, ExtendType
<1>4. disk'[0] = file
    BY <1>1, ActiveSegment DEF TypeOK
<1>5. job'.phase = "idle" /\ job'.payload = <<>>
    BY <1>1 DEF Idle
<1>6. Whole(writeBuffer)' /\ Whole(job.payload)' /\ RenameTargetFree'
    BY <1>1, <1>5 DEF StoreInv, RenameTargetFree, Whole
<1> HIDE DEF file
<1>7. ASSUME "bare" \notin damage'
      PROVE  EndsIn(disk[0], {"ok", "torn"})' /\ AckedKept' /\ OwnersOnTheWay'
    <2>1. EndsIn(disk[0], {"ok", "torn"}) /\ AckedKept /\ OwnersOnTheWay
        BY <1>1, <1>7 DEF StoreInv
    <2>2. Ids(disk[0]) \subseteq Ids(file)
        BY <1>2, <2>1, ExtendKeeps DEF file
    <2>3. /\ EndsIn(file, {"ok", "torn"})
          /\ EndsIn(disk[0], {"ok"}) => EndsIn(file, {"ok"})
        BY <1>2, <2>1, ExtendEnds DEF file
    <2>4. Kept \subseteq Kept'
        BY <1>1, <1>3, <2>2, ActiveGrows
    <2>5. AppendedNext = {} /\ Ids(writeBuffer)' = Ids(writeBuffer)
        BY <1>1 DEF AppendedNext, Ids
    <2>6. startupError = "none" => job.owner \in Kept'
        BY <1>1, <2>1, <2>4, <2>5 DEF OwnersOnTheWay
    <2>7. AckedKept'
        BY <1>1, <2>1, <2>4, <2>6, SettleKeepsAcked
    <2>8. OwnersOnTheWay'
        BY <1>1, <1>4, <1>5, <2>1, <2>3, <2>4, <2>5 DEF OwnersOnTheWay, EndsIn
    <2> QED BY <1>4, <2>3, <2>7, <2>8 DEF EndsIn
<1> QED BY <1>6, <1>7 DEF StoreInv

\* An append that stops anywhere keeps what was there, or leaves a bare line.
LEMMA PartialKeeps ==
    ASSUME TypeOK, EndsIn(disk[0], {"ok", "torn"}),
           NEW file \in {disk[0]} \cup PartialAppends(disk[0], job.payload)
    PROVE  file \in Seq(Line) /\ Ids(disk[0]) \subseteq Ids(file)
<1>1. disk[0] \in Seq(Line) /\ job.payload \in Seq(Line)
    BY ActiveSegment DEF TypeOK, WriteJob
<1>2. CASE file = disk[0]
    BY <1>1, <1>2
<1>3. CASE file \in PartialAppends(disk[0], job.payload)
    <2>1. PICK part \in PartialPayloads(job.payload) : file = Extend(disk[0], part)
        BY <1>3 DEF PartialAppends
    <2>2. part \in Seq(Line)
        BY <1>1, PartialPayloadType
    <2> QED BY <1>1, <2>1, <2>2, ExtendKeeps, ExtendType
<1> QED BY <1>2, <1>3

LEMMA NotCutShort ==
    ASSUME NEW file \in Seq(Line), "bare" \notin CutShort(file)
    PROVE  EndsIn(file, {"ok", "torn"})
<1>1. file # <<>> => file[Len(file)] \in Line
    OBVIOUS
<1> QED BY <1>1 DEF EndsIn, CutShort, Line, Ends

LEMMA FileOperationFailsKeepsStore ==
    ASSUME TypeOK, TypeOK', StoreInv, FileOperationFails
    PROVE  StoreInv'
<1>1. /\ job' = Idle /\ startupError' = "write_failed" /\ Settle(job.owner, "write_failed")
      /\ damage' = damage \cup {"io_error"} \cup CutShort(disk'[0])
      /\ UNCHANGED <<writeBuffer, tail, pruned>>
    BY DEF FileOperationFails, JobDone
<1>2. PICK file \in {disk[0]} \cup PartialAppends(disk[0], job.payload) :
          disk' = [disk EXCEPT ![0] = file]
    BY DEF FileOperationFails, TypeOK
<1>3. Whole(writeBuffer)' /\ Whole(job.payload)' /\ RenameTargetFree'
    BY <1>1 DEF StoreInv, RenameTargetFree, Whole, Idle
<1>4. OwnersOnTheWay'
    BY <1>1 DEF OwnersOnTheWay
<1>5. ASSUME "bare" \notin damage'
      PROVE  EndsIn(disk[0], {"ok", "torn"})' /\ AckedKept'
    <2>1. EndsIn(disk[0], {"ok", "torn"}) /\ AckedKept
        BY <1>1, <1>5 DEF StoreInv
    <2>2. file \in Seq(Line) /\ Ids(disk[0]) \subseteq Ids(file)
        BY <2>1, PartialKeeps
    <2>3. Kept \subseteq Kept'
        BY <1>1, <1>2, <2>2, ActiveGrows
    <2>4. AckedKept'
        BY <1>1, <2>1, <2>3, SettleKeepsAcked
    <2>5. disk'[0] = file /\ "bare" \notin CutShort(disk'[0])
        BY <1>1, <1>2, <1>5, ActiveSegment DEF TypeOK
    <2>6. EndsIn(file, {"ok", "torn"})
        BY <2>2, <2>5, NotCutShort
    <2> QED BY <2>4, <2>5, <2>6 DEF EndsIn
<1> QED BY <1>3, <1>4, <1>5 DEF StoreInv

\* A restarted process acknowledges nothing that an earlier one did not store.
LEMMA CrashKeepsStore ==
    ASSUME TypeOK, StoreInv, CrashAndRestart
    PROVE  StoreInv'
<1>1. PICK file \in {disk[0]} \cup PartialAppends(disk[0], job.payload) :
          /\ disk' = [disk EXCEPT ![0] = file]
          /\ damage \cup CutShort(file) \subseteq damage'
    BY DEF CrashAndRestart
<1>2. /\ writeBuffer' = <<>> /\ tail' = <<>> /\ job' = Idle /\ UNCHANGED pruned
      /\ startupError' = IF Verifies(disk') THEN "none" ELSE "corrupt"
      /\ \A n \in Entries : status'[n] = "acked" => status[n] = "acked"
    BY DEF CrashAndRestart, Recover
<1>3. Whole(writeBuffer)' /\ Whole(job.payload)' /\ RenameTargetFree'
    BY <1>2 DEF RenameTargetFree, Whole, Idle
<1>4. disk'[0] = file /\ 0 \in Segments
    BY <1>1, ActiveSegment DEF TypeOK
<1>5. ASSUME "bare" \notin damage'
      PROVE  EndsIn(disk[0], {"ok", "torn"})' /\ AckedKept' /\ OwnersOnTheWay'
    <2>1. EndsIn(disk[0], {"ok", "torn"}) /\ AckedKept
        BY <1>1, <1>5 DEF StoreInv
    <2>2. file \in Seq(Line) /\ Ids(disk[0]) \subseteq Ids(file)
        BY <2>1, PartialKeeps
    <2>3. Kept \subseteq Kept'
        BY <1>1, <1>2, <2>2, ActiveGrows
    <2>4. AckedKept'
        BY <1>2, <2>1, <2>3 DEF AckedKept, Entries
    <2>5. EndsIn(file, {"ok", "torn"})
        BY <1>1, <1>5, <2>2, NotCutShort
    <2>6. Verifies(disk') => EndsIn(file, {"ok"})
        <3> SUFFICES ASSUME Verifies(disk'), file # <<>>
                     PROVE  file[Len(file)].end = "ok"
            BY DEF EndsIn
        <3>1. SegmentVerifies(file)
            BY <1>4 DEF Verifies
        <3>2. Len(file) \in DOMAIN file
            BY <2>2
        <3>3. file[Len(file)].end # "torn"
            BY <3>1, <3>2 DEF SegmentVerifies
        <3> QED BY <2>5, <3>3 DEF EndsIn
    <2>7. startupError' = "none" => EndsIn(disk'[0], {"ok"})
        BY <1>2, <1>4, <2>6
    <2>8. OwnersOnTheWay'
        BY <1>2, <2>7 DEF OwnersOnTheWay, EndsIn, Idle
    <2> QED BY <1>4, <2>4, <2>5, <2>8 DEF EndsIn
<1> QED BY <1>3, <1>5 DEF StoreInv
-----------------------------------------------------------------------------
LEMMA StoreInvInit == Init => StoreInv
<1> SUFFICES ASSUME Init PROVE StoreInv
    OBVIOUS
<1>1. disk[0] = <<>>
    BY AuditAssumption DEF Init, Segments
<1>2. Whole(writeBuffer) /\ Whole(job.payload) /\ RenameTargetFree
    BY DEF Init, Whole, RenameTargetFree, Idle
<1>3. AckedKept
    BY DEF Init, AckedKept
<1>4. OwnersOnTheWay
    BY <1>1 DEF Init, OwnersOnTheWay, EndsIn, Idle
<1> QED BY <1>1, <1>2, <1>3, <1>4 DEF StoreInv, EndsIn

LEMMA StoreInvStep == TypeOK /\ TypeOK' /\ StoreInv /\ [Next]_vars => StoreInv'
<1> SUFFICES ASSUME TypeOK, TypeOK', StoreInv, [Next]_vars PROVE StoreInv'
    OBVIOUS
<1>1. CASE UNCHANGED vars
    <2>1. Kept' = Kept /\ AppendedNext' = AppendedNext /\ Ids(writeBuffer)' = Ids(writeBuffer)
        BY <1>1 DEF vars, procVars, Kept, StoredIds, AppendedNext, Ids
    <2>2. AckedKept => AckedKept'
        BY <1>1, <2>1 DEF vars, AckedKept, Entries
    <2>3. OwnersOnTheWay => OwnersOnTheWay'
        BY <1>1, <2>1 DEF vars, procVars, OwnersOnTheWay, EndsIn
    <2>4. Whole(writeBuffer)' /\ Whole(job.payload)' /\ RenameTargetFree'
        BY <1>1 DEF vars, procVars, StoreInv, Whole, RenameTargetFree
    <2> QED BY <1>1, <2>2, <2>3, <2>4 DEF vars, StoreInv, EndsIn
<1> QED
    BY <1>1, RecordKeepsStore, RunEmptyKeepsStore, TakeBufferKeepsStore,
       AppendPayloadKeepsStore, PruneOldestKeepsStore, ShiftSegmentKeepsStore,
       SealSegmentKeepsStore, AppendAnchorKeepsStore, FileOperationFailsKeepsStore,
       CrashKeepsStore DEF Next, JobStep

\* A recordCritical call that returned has its line in the files, or rotation
\* removed it with the oldest segment: for every size of the segments and every
\* number of failures and crashes.
THEOREM AckedStored == Spec => []AckedIsStored
<1>1. StoreInv => AckedIsStored
    BY DEF StoreInv, AckedKept, AckedIsStored, Kept
<1> QED BY <1>1, StoreInvInit, StoreInvStep, TypeCorrect, PTL DEF Spec
-----------------------------------------------------------------------------
(* Where rotation leaves a line out.  The segments are in the order of their *)
(* age, the lines on their way to the files are newer than the rotated ones, *)
(* and there is at most one gap: the free target of the next rename, or of   *)
(* the rename at which a rotation stopped.                                   *)

Older(A, B) == \A a \in A : \A b \in B : a < b

Payload == Ids(job.payload)

IdsOrdered ==
    /\ \A i, j \in Segments : i < j => Older(Ids(disk[j]), Ids(disk[i]))
    /\ \A i \in Segments : Older(Ids(disk[i]), {nextId})
    /\ Older(Ids(writeBuffer) \cup Payload, {nextId})
    /\ \A i \in Segments \ {0} : Older(Ids(disk[i]), Ids(writeBuffer) \cup Payload)
    /\ job.phase \in {"append", "prune", "shift", "seal"} =>
           Older(Ids(disk[0]) \cup Payload, Ids(writeBuffer))

\* No segment is missing but h.
NoGapBut(h, d) ==
    /\ d[h] = <<>>
    /\ \A i, j \in Segments \ {0, h} : i < j /\ d[j] # <<>> => d[i] # <<>>

NoGap(d) == \A i, j \in Segments \ {0} : i < j /\ d[j] # <<>> => d[i] # <<>>

OneGap ==
    /\ NoGap(disk) \/ \E h \in Segments \ {0} : NoGapBut(h, disk)
    /\ job.phase = "shift" => NoGapBut(job.index + 1, disk)
    /\ job.phase = "seal" => NoGapBut(1, disk)
    /\ job.phase \in {"prune", "shift", "seal"} => disk[0] # <<>>
    /\ job.phase \in {"prune", "shift", "seal", "anchor"} => digested
    /\ job.phase = "append" => job.payload # <<>>
    /\ \/ job.phase \in {"prune", "anchor"}
       \/ job.phase \in {"append", "idle"} /\ ~digested /\ startupError # "corrupt"
       => NoGap(disk)

LEMMA IdsOfExtend ==
    ASSUME NEW file \in Seq(Line), NEW payload \in Seq(Line)
    PROVE  Ids(Extend(file, payload)) \subseteq Ids(file) \cup Ids(payload)
<1>1. CASE file = <<>> \/ payload = <<>> \/ file[Len(file)].end = "ok"
    BY <1>1, IdsOfConcat DEF Extend
<1>2. CASE ~(file = <<>> \/ payload = <<>> \/ file[Len(file)].end = "ok")
    <2> DEFINE l == file[Len(file)]
               m == [l EXCEPT !.end = "torn"]
               marked == [file EXCEPT ![Len(file)] = m]
    <2>1. Len(file) \in 1..Len(file) /\ l \in Line
        BY <1>2
    <2>2. m \in Line /\ m.end = "torn"
        BY <2>1 DEF Line, Ends
    <2>3. Extend(file, payload) = marked \o Tail(payload)
        BY <1>2 DEF Extend
    <2>4. marked \in Seq(Line) /\ Tail(payload) \in Seq(Line)
        BY <1>2, <2>1, <2>2
    <2>5. Ids(marked) \subseteq Ids(file)
        <3>1. DOMAIN marked = DOMAIN file
              /\ \A n \in DOMAIN file : n # Len(file) => marked[n] = file[n]
            OBVIOUS
        <3>2. marked[Len(file)].end = "torn"
            BY <2>1, <2>2
        <3> HIDE DEF marked
        <3> QED BY <3>1, <3>2 DEF Ids
    <2>6. Ids(Tail(payload)) \subseteq Ids(payload)
        <3>1. DOMAIN Tail(payload) = 1..(Len(payload) - 1)
              /\ \A n \in 1..(Len(payload) - 1) :
                     Tail(payload)[n] = payload[n + 1] /\ n + 1 \in DOMAIN payload
            BY <1>2
        <3> QED BY <3>1 DEF Ids
    <2> HIDE DEF marked
    <2> QED BY <2>3, <2>4, <2>5, <2>6, IdsOfConcat
<1> QED BY <1>1, <1>2

LEMMA IdsOfPart ==
    ASSUME NEW payload \in Seq(Line), Whole(payload), NEW part \in PartialPayloads(payload)
    PROVE  Ids(part) \subseteq Ids(payload)
<1>1. ASSUME NEW n \in 0..Len(payload) PROVE Ids(SubSeq(payload, 1, n)) \subseteq Ids(payload)
    <2>1. DOMAIN SubSeq(payload, 1, n) = 1..n
          /\ \A k \in 1..n : SubSeq(payload, 1, n)[k] = payload[k] /\ k \in DOMAIN payload
        OBVIOUS
    <2> QED BY <2>1 DEF Ids
<1>2. ASSUME NEW n \in DOMAIN payload PROVE Ids(WithCutLine(payload, n, "torn")) \subseteq Ids(payload)
    <2> DEFINE l == [payload[n] EXCEPT !.end = "torn"]
               cut == Append(SubSeq(payload, 1, n - 1), l)
    <2>1. n \in 1..Len(payload) /\ payload[n] \in Line
        OBVIOUS
    <2>2. l \in Line /\ l.end = "torn"
        BY <2>1 DEF Line, Ends
    <2>3. DOMAIN cut = 1..n /\ cut[n] = l
          /\ \A k \in 1..n : k # n => cut[k] = payload[k] /\ k \in DOMAIN payload
        BY <2>1
    <2> HIDE DEF l, cut
    <2>4. Ids(cut) \subseteq Ids(payload)
        BY <2>2, <2>3 DEF Ids
    <2> QED BY <2>4 DEF WithCutLine, cut, l
<1>3. ASSUME NEW n \in DOMAIN payload PROVE Ids(WithCutLine(payload, n, "bare")) \subseteq Ids(payload)
    <2> DEFINE l == [payload[n] EXCEPT !.end = "bare"]
               cut == Append(SubSeq(payload, 1, n - 1), l)
    <2>1. n \in 1..Len(payload) /\ payload[n] \in Line
        OBVIOUS
    <2>2. l \in Line /\ l.id = payload[n].id
        BY <2>1 DEF Line, Ends
    <2>3. DOMAIN cut = 1..n /\ cut[n] = l
          /\ \A k \in 1..n : k # n => cut[k] = payload[k] /\ k \in DOMAIN payload
        BY <2>1
    <2> HIDE DEF l, cut
    <2>4. Ids(cut) \subseteq Ids(payload)
        BY <2>1, <2>2, <2>3 DEF Ids, Whole
    <2> QED BY <2>4 DEF WithCutLine, cut, l
<1> QED BY <1>1, <1>2, <1>3 DEF PartialPayloads

\* A new active segment of lines that were in it or were on their way to it, as an
\* append that ends or stops anywhere leaves one.
LEMMA ActiveKeepsOrder ==
    ASSUME TypeOK, StoreInv,
           NEW file \in {disk[0]} \cup PartialAppends(disk[0], job.payload)
    PROVE  file \in Seq(Line) /\ Ids(file) \subseteq Ids(disk[0]) \cup Payload
<1>1. disk[0] \in Seq(Line) /\ job.payload \in Seq(Line) /\ Whole(job.payload)
    BY ActiveSegment DEF TypeOK, WriteJob, StoreInv
<1>2. CASE file = disk[0]
    BY <1>1, <1>2
<1>3. CASE file \in PartialAppends(disk[0], job.payload)
    <2>1. PICK part \in PartialPayloads(job.payload) : file = Extend(disk[0], part)
        BY <1>3 DEF PartialAppends
    <2>2. part \in Seq(Line) /\ Ids(part) \subseteq Payload
        BY <1>1, PartialPayloadType, IdsOfPart DEF Payload
    <2> QED BY <1>1, <2>1, <2>2, IdsOfExtend, ExtendType
<1> QED BY <1>2, <1>3

\* The active segment takes lines of the payload, and the job may be over.
LEMMA AppendKeepsOrder ==
    ASSUME TypeOK, IdsOrdered, NEW file, disk' = [disk EXCEPT ![0] = file],
           Ids(file) \subseteq Ids(disk[0]) \cup Payload,
           Payload' \subseteq Payload, Ids(writeBuffer)' \subseteq Ids(writeBuffer),
           job'.phase \in {"append", "prune", "shift", "seal"} => job.phase = "append",
           nextId' = nextId
    PROVE  IdsOrdered'
<1>1. 0 \in Segments /\ disk'[0] = file /\ \A i \in Segments \ {0} : disk'[i] = disk[i]
    BY ActiveSegment DEF TypeOK
<1>2. Segments' = Segments /\ \A i \in Segments : i # 0 => 0 < i
    BY AuditAssumption DEF Segments
<1>3. \A i, j \in Segments : i < j => Older(Ids(disk'[j]), Ids(disk'[i]))
    <2> SUFFICES ASSUME NEW i \in Segments, NEW j \in Segments, i < j
                 PROVE  Older(Ids(disk'[j]), Ids(disk'[i]))
        OBVIOUS
    <2>1. j # 0 /\ disk'[j] = disk[j]
        BY <1>1, <1>2 DEF Segments
    <2>2. CASE i = 0
        BY <1>1, <2>1, <2>2 DEF IdsOrdered, Older
    <2>3. CASE i # 0
        BY <1>1, <2>1, <2>3 DEF IdsOrdered
    <2> QED BY <2>2, <2>3
<1>4. \A i \in Segments : Older(Ids(disk'[i]), {nextId})
    BY <1>1 DEF IdsOrdered, Older
<1>5. Older(Ids(writeBuffer)' \cup Payload', {nextId})
    BY DEF IdsOrdered, Older
<1>6. \A i \in Segments \ {0} : Older(Ids(disk'[i]), Ids(writeBuffer)' \cup Payload')
    BY <1>1 DEF IdsOrdered, Older
<1>7. job'.phase \in {"append", "prune", "shift", "seal"} =>
          Older(Ids(disk'[0]) \cup Payload', Ids(writeBuffer)')
    BY <1>1 DEF IdsOrdered, Older
<1>8. \A i \in Segments : Ids(disk[i])' = Ids(disk'[i])
    BY DEF Ids
<1> QED BY <1>1, <1>2, <1>3, <1>4, <1>5, <1>6, <1>7, <1>8 DEF IdsOrdered

LEMMA RecordKeepsOrder ==
    ASSUME TypeOK, IdsOrdered, Record
    PROVE  IdsOrdered'
<1> DEFINE line == NewLine(<<>>)
<1>1. line \in Line /\ line.id = nextId /\ line.end = "ok"
    <2>1. line \in Line
        BY EmptyType, NewLineType
    <2> QED BY <2>1 DEF NewLine
<1>2. /\ writeBuffer' = Append(writeBuffer, line) /\ nextId' = nextId + 1
      /\ UNCHANGED <<job, disk>>
    BY DEF Record
<1> HIDE DEF line
<1>3. writeBuffer' = writeBuffer \o <<line>> /\ <<line>> \in Seq(Line) /\ writeBuffer \in Seq(Line)
    BY <1>1, <1>2 DEF TypeOK
<1>4. Ids(<<line>>) = {nextId}
    BY <1>1 DEF Ids
<1>5. Ids(writeBuffer') = Ids(writeBuffer) \cup {nextId}
    BY <1>3, <1>4, IdsOfConcat
<1>6. /\ Ids(writeBuffer)' = Ids(writeBuffer) \cup {nextId}
      /\ Payload' = Payload /\ \A i \in Segments : Ids(disk[i])' = Ids(disk[i])
      /\ Segments' = Segments
    BY <1>2, <1>5 DEF Ids, Payload, Segments
<1>7. nextId \in Nat /\ Ids(writeBuffer) \subseteq Nat /\ Payload \subseteq Nat
      /\ \A i \in Segments : Ids(disk[i]) \subseteq Nat
    <2>1. job.payload \in Seq(Line) /\ \A i \in Segments : disk[i] \in Seq(Line)
        BY DEF TypeOK, WriteJob
    <2> QED BY <1>3, <2>1, IdsType DEF TypeOK, Payload
<1>9. /\ \A i \in Segments : Older(Ids(disk[i]), {nextId'})
      /\ Older(Ids(writeBuffer)' \cup Payload', {nextId'})
    <2>1. nextId' \in Nat /\ \A a \in Nat : a < nextId => a < nextId'
        BY <1>2, <1>7
    <2>2. nextId < nextId'
        BY <1>2, <1>7
    <2>3. \A i \in Segments : Older(Ids(disk[i]), {nextId'})
        BY <1>7, <2>1 DEF IdsOrdered, Older
    <2>4. Older(Ids(writeBuffer) \cup Payload, {nextId'})
        BY <1>7, <2>1 DEF IdsOrdered, Older
    <2> QED BY <1>6, <2>2, <2>3, <2>4 DEF Older
<1>10. \A i \in Segments \ {0} : Older(Ids(disk[i]), Ids(writeBuffer)' \cup Payload')
    BY <1>6 DEF IdsOrdered, Older
<1>11. job.phase \in {"append", "prune", "shift", "seal"} =>
           Older(Ids(disk[0]) \cup Payload, Ids(writeBuffer)')
    BY <1>6, ActiveSegment DEF IdsOrdered, Older
<1>12. \A i, j \in Segments : i < j => Older(Ids(disk[j]), Ids(disk[i]))
    BY DEF IdsOrdered
<1> QED BY <1>2, <1>6, <1>9, <1>10, <1>11, <1>12, ActiveSegment DEF IdsOrdered

LEMMA TakeBufferKeepsOrder ==
    ASSUME TypeOK, IdsOrdered, TakeBuffer
    PROVE  IdsOrdered'
<1>1. /\ job'.phase = "append" /\ job'.payload = writeBuffer /\ writeBuffer' = <<>>
      /\ UNCHANGED <<disk, nextId>>
    BY DEF TakeBuffer, Idle
<1>2. /\ Payload' = Ids(writeBuffer) /\ Ids(writeBuffer)' = {} /\ Segments' = Segments
      /\ \A i \in Segments : Ids(disk[i])' = Ids(disk[i])
    BY <1>1 DEF Payload, Ids, Segments
<1>3. Ids(disk[0])' = Ids(disk[0])
    BY <1>1 DEF Ids
<1> QED BY <1>1, <1>2, <1>3 DEF IdsOrdered, Older

\* A rename to a free target.
LEMMA RenameKeepsOrder ==
    ASSUME TypeOK, IdsOrdered, NEW from \in Segments, from + 1 \in Segments,
           disk[from + 1] = <<>>, disk' = Rename(disk, from, from + 1)
    PROVE  /\ \A i, j \in Segments : i < j => Older(Ids(disk'[j]), Ids(disk'[i]))
           /\ \A i \in Segments : \E j \in Segments :
                  /\ Ids(disk'[i]) \subseteq Ids(disk[j])
                  /\ i # 0 => j # 0 \/ (from = 0 /\ i = 1)
<1>1. CASE disk[from] = <<>>
    BY <1>1 DEF Rename, IdsOrdered
<1>2. CASE disk[from] # <<>>
    <2>1. /\ disk'[from] = <<>> /\ disk'[from + 1] = disk[from] /\ from \in Int
          /\ \A i \in Segments \ {from, from + 1} : disk'[i] = disk[i]
        BY <1>2 DEF Rename, TypeOK, Segments
    <2>2. Ids(<<>>) = {}
        BY DEF Ids
    <2>3. ASSUME NEW i \in Segments, NEW j \in Segments, i < j
          PROVE  Older(Ids(disk'[j]), Ids(disk'[i]))
        <3>1. i \in Int /\ j \in Int
            BY DEF Segments
        <3>2. CASE i = from \/ j = from
            BY <2>1, <2>2, <3>2 DEF Older
        <3>3. CASE i = from + 1
            <4>1. from < j /\ j \notin {from, from + 1}
                BY <2>1, <2>3, <3>1, <3>3
            <4> QED BY <2>1, <3>3, <4>1 DEF IdsOrdered
        <3>4. CASE j = from + 1 /\ i # from
            <4>1. i < from /\ i \notin {from, from + 1}
                BY <2>1, <2>3, <3>1, <3>4
            <4> QED BY <2>1, <3>4, <4>1 DEF IdsOrdered
        <3>5. CASE i \notin {from, from + 1} /\ j \notin {from, from + 1}
            BY <2>1, <2>3, <3>5 DEF IdsOrdered
        <3> QED BY <3>2, <3>3, <3>4, <3>5
    <2>4. ASSUME NEW i \in Segments
          PROVE  \E j \in Segments : /\ Ids(disk'[i]) \subseteq Ids(disk[j])
                                     /\ i # 0 => j # 0 \/ (from = 0 /\ i = 1)
        <3>1. CASE i = from + 1
            BY <2>1, <3>1
        <3>2. CASE i # from + 1
            BY <2>1, <2>2, <3>2
        <3> QED BY <3>1, <3>2
    <2> QED BY <2>3, <2>4
<1> QED BY <1>1, <1>2

LEMMA PruneKeepsOrder ==
    ASSUME TypeOK, IdsOrdered, PruneOldest
    PROVE  IdsOrdered'
<1>1. /\ job.phase = "prune" /\ disk' = [disk EXCEPT ![PrunedSegment] = <<>>]
      /\ job' = ShiftFrom(HighestShift) /\ UNCHANGED <<writeBuffer, nextId>>
    BY DEF PruneOldest
<1>2. job'.payload = job.payload
    BY <1>1 DEF ShiftFrom, TypeOK, WriteJob
<1>3. \A i \in Segments : Ids(disk'[i]) \subseteq Ids(disk[i])
    <2>1. \A i \in Segments : disk'[i] = disk[i] \/ disk'[i] = <<>>
        BY <1>1 DEF TypeOK
    <2> QED BY <2>1 DEF Ids
<1>4. /\ Payload' = Payload /\ Ids(writeBuffer)' = Ids(writeBuffer)
      /\ \A i \in Segments : Ids(disk[i])' = Ids(disk'[i])
      /\ Segments' = Segments /\ 0 \in Segments
    BY <1>1, <1>2, ActiveSegment DEF Payload, Ids, Segments
<1>5. \A i, j \in Segments : i < j => Older(Ids(disk'[j]), Ids(disk'[i]))
    BY <1>3 DEF IdsOrdered, Older
<1> QED BY <1>1, <1>3, <1>4, <1>5 DEF IdsOrdered, Older

LEMMA ShiftKeepsOrder ==
    ASSUME TypeOK, StoreInv, IdsOrdered, ShiftSegment
    PROVE  IdsOrdered'
<1>1. /\ job.phase = "shift" /\ disk' = Rename(disk, job.index, job.index + 1)
      /\ job' = ShiftFrom(job.index - 1) /\ UNCHANGED <<writeBuffer, nextId>>
    BY DEF ShiftSegment
<1>2. job'.payload = job.payload
    BY <1>1 DEF ShiftFrom, TypeOK, WriteJob
<1>3. /\ job.index \in Segments /\ job.index + 1 \in Segments /\ disk[job.index + 1] = <<>>
      /\ job.index >= 1
    BY <1>1, AuditAssumption DEF StoreInv, RenameTargetFree, TypeOK, WriteJob, Segments
<1>4. /\ \A i, j \in Segments : i < j => Older(Ids(disk'[j]), Ids(disk'[i]))
      /\ \A i \in Segments : \E j \in Segments :
             Ids(disk'[i]) \subseteq Ids(disk[j]) /\ (i # 0 => j # 0)
    <2>1. PICK from \in Segments : from = job.index /\ from # 0 /\ from + 1 \in Segments
        BY <1>3 DEF Segments
    <2>2. disk[from + 1] = <<>> /\ disk' = Rename(disk, from, from + 1)
        BY <1>1, <1>3, <2>1
    <2>3. /\ \A i, j \in Segments : i < j => Older(Ids(disk'[j]), Ids(disk'[i]))
          /\ \A i \in Segments : \E j \in Segments :
                 /\ Ids(disk'[i]) \subseteq Ids(disk[j])
                 /\ i # 0 => j # 0 \/ (from = 0 /\ i = 1)
        BY <2>1, <2>2, RenameKeepsOrder
    <2> QED BY <2>1, <2>3
<1>5. /\ Payload' = Payload /\ Ids(writeBuffer)' = Ids(writeBuffer)
      /\ \A i \in Segments : Ids(disk[i])' = Ids(disk'[i])
      /\ Segments' = Segments /\ 0 \in Segments
    BY <1>1, <1>2, ActiveSegment DEF Payload, Ids, Segments
<1>6. disk'[0] = disk[0]
    <2>1. job.index # 0 /\ job.index + 1 # 0
        BY <1>3 DEF Segments
    <2> QED BY <1>1, <1>3, <2>1, ActiveSegment DEF Rename, TypeOK
<1>7. \A i \in Segments : Older(Ids(disk'[i]), {nextId})
    BY <1>4 DEF IdsOrdered, Older
<1>8. \A i \in Segments \ {0} : Older(Ids(disk'[i]), Ids(writeBuffer) \cup Payload)
    BY <1>4 DEF IdsOrdered, Older
<1> QED BY <1>1, <1>4, <1>5, <1>6, <1>7, <1>8 DEF IdsOrdered

LEMMA SealKeepsOrder ==
    ASSUME TypeOK, StoreInv, IdsOrdered, SealSegment
    PROVE  IdsOrdered'
<1> DEFINE line == NewLine(hashed)
<1>1. /\ job.phase = "seal" /\ disk' = Rename(disk, 0, 1)
      /\ job' = [job EXCEPT !.phase = "anchor", !.payload = <<line>>]
      /\ writeBuffer' = writeBuffer /\ nextId' = nextId + 1
    BY DEF SealSegment
<1>2. line \in Line /\ line.id = nextId /\ line.end = "ok"
    <2>1. line \in Line
        BY NewLineType DEF TypeOK
    <2> QED BY <2>1 DEF NewLine
<1> HIDE DEF line
<1>3. job'.phase = "anchor" /\ job'.payload = <<line>>
    BY <1>1 DEF TypeOK, WriteJob
<1>4. /\ Payload' = {nextId} /\ Ids(writeBuffer)' = Ids(writeBuffer)
      /\ \A i \in Segments : Ids(disk[i])' = Ids(disk'[i])
      /\ Segments' = Segments
    BY <1>1, <1>2, <1>3 DEF Payload, Ids, Segments
<1>5. 0 \in Segments /\ 0 + 1 \in Segments /\ disk[0 + 1] = <<>> /\ disk' = Rename(disk, 0, 0 + 1)
    BY <1>1, AuditAssumption DEF StoreInv, RenameTargetFree, Segments
<1>6. /\ \A i, j \in Segments : i < j => Older(Ids(disk'[j]), Ids(disk'[i]))
      /\ \A i \in Segments : \E j \in Segments : Ids(disk'[i]) \subseteq Ids(disk[j])
    BY <1>5, RenameKeepsOrder
<1>7. \A i \in Segments : Older(Ids(disk[i]), Ids(writeBuffer))
    BY <1>1, AuditAssumption DEF IdsOrdered, Older
<1>8. nextId \in Nat /\ Ids(writeBuffer) \subseteq Nat /\ \A i \in Segments : Ids(disk[i]) \subseteq Nat
    <2>1. writeBuffer \in Seq(Line) /\ \A i \in Segments : disk[i] \in Seq(Line)
        BY DEF TypeOK
    <2> QED BY <2>1, IdsType DEF TypeOK
<1>9. \A i \in Segments : Older(Ids(disk'[i]), {nextId}) /\ Older(Ids(disk'[i]), Ids(writeBuffer))
    BY <1>6, <1>7 DEF IdsOrdered, Older
<1>10. \A i \in Segments : Older(Ids(disk'[i]), {nextId'})
    <2>1. \A a \in Nat : a < nextId => a < nextId'
        BY <1>1, <1>8
    <2>2. \A i \in Segments : Ids(disk'[i]) \subseteq Nat
        BY <1>6, <1>8
    <2> QED BY <1>9, <2>1, <2>2 DEF Older
<1>11. Older(Ids(writeBuffer) \cup {nextId}, {nextId'})
    <2>1. \A a \in Nat : a < nextId => a < nextId'
        BY <1>1, <1>8
    <2>2. nextId < nextId'
        BY <1>1, <1>8
    <2> QED BY <1>8, <2>1, <2>2 DEF IdsOrdered, Older
<1>12. \A i \in Segments \ {0} : Older(Ids(disk'[i]), Ids(writeBuffer) \cup {nextId})
    BY <1>9 DEF Older
<1> QED BY <1>3, <1>4, <1>6, <1>10, <1>11, <1>12 DEF IdsOrdered

\* What an append leaves in the active segment, whether it ends or stops.
LEMMA WholeAppendIsPartial ==
    ASSUME NEW file, NEW payload \in Seq(Line)
    PROVE  Extend(file, payload) \in PartialAppends(file, payload)
<1>1. SubSeq(payload, 1, Len(payload)) = payload /\ Len(payload) \in 0..Len(payload)
    OBVIOUS
<1>2. payload \in PartialPayloads(payload)
    BY <1>1 DEF PartialPayloads
<1> QED BY <1>2 DEF PartialAppends

LEMMA AppendSteps ==
    ASSUME TypeOK, AppendPayload \/ AppendAnchor \/ FileOperationFails \/ CrashAndRestart
    PROVE  \E file \in {disk[0]} \cup PartialAppends(disk[0], job.payload) :
               disk' = [disk EXCEPT ![0] = file]
<1>1. CASE AppendPayload \/ AppendAnchor
    <2>1. disk' = [disk EXCEPT ![0] = Extend(disk[0], job.payload)]
        BY <1>1 DEF AppendPayload, AppendAnchor
    <2>2. job.payload \in Seq(Line)
        BY DEF TypeOK, WriteJob
    <2> QED BY <2>1, <2>2, WholeAppendIsPartial
<1>2. CASE FileOperationFails
    <2>1. CASE job.phase \in {"append", "anchor"}
        BY <1>2, <2>1 DEF FileOperationFails
    <2>2. CASE job.phase \notin {"append", "anchor"}
        <3>1. disk' = [disk EXCEPT ![0] = disk[0]]
            BY <1>2, <2>2 DEF FileOperationFails, TypeOK
        <3> QED BY <3>1
    <2> QED BY <2>1, <2>2
<1>3. CASE CrashAndRestart
    BY <1>3 DEF CrashAndRestart
<1> QED BY <1>1, <1>2, <1>3

LEMMA AppendStepsKeepOrder ==
    ASSUME TypeOK, StoreInv, IdsOrdered,
           AppendPayload \/ AppendAnchor \/ FileOperationFails \/ CrashAndRestart
    PROVE  IdsOrdered'
<1>1. PICK file \in {disk[0]} \cup PartialAppends(disk[0], job.payload) :
          disk' = [disk EXCEPT ![0] = file]
    BY AppendSteps
<1>2. Ids(file) \subseteq Ids(disk[0]) \cup Payload
    BY ActiveKeepsOrder
<1>3. job'.payload = job.payload \/ job'.payload = <<>>
    BY DEF AppendPayload, AppendAnchor, FileOperationFails, CrashAndRestart, JobDone, Idle, TypeOK, WriteJob
<1>4. Payload' \subseteq Payload
    BY <1>3 DEF Payload, Ids
<1>5. nextId' = nextId /\ (writeBuffer' = writeBuffer \/ writeBuffer' = <<>>)
    BY DEF AppendPayload, AppendAnchor, FileOperationFails, CrashAndRestart
<1>6. Ids(writeBuffer)' \subseteq Ids(writeBuffer)
    BY <1>5 DEF Ids
<1>7. job'.phase \in {"append", "prune", "shift", "seal"} => job.phase = "append"
    BY DEF AppendPayload, AppendAnchor, FileOperationFails, CrashAndRestart, JobDone, Idle
<1> QED BY <1>1, <1>2, <1>4, <1>5, <1>6, <1>7, AppendKeepsOrder

LEMMA IdsOrderedInit == Init => IdsOrdered
<1>1. Init => \A i \in Segments : disk[i] = <<>>
    BY DEF Init
<1>2. Ids(<<>>) = {} /\ Idle.payload = <<>> /\ Idle.phase = "idle"
    BY DEF Ids, Idle
<1> QED BY <1>1, <1>2 DEF Init, IdsOrdered, Older, Payload

LEMMA IdsOrderedStep == TypeOK /\ StoreInv /\ IdsOrdered /\ [Next]_vars => IdsOrdered'
<1> SUFFICES ASSUME TypeOK, StoreInv, IdsOrdered, [Next]_vars PROVE IdsOrdered'
    OBVIOUS
<1>1. CASE RunEmpty \/ UNCHANGED vars
    <2>1. UNCHANGED <<disk, writeBuffer, job, nextId>>
        BY <1>1 DEF RunEmpty, vars, procVars
    <2> QED BY <2>1 DEF IdsOrdered, Payload, Ids, Segments
<1> QED BY <1>1, RecordKeepsOrder, TakeBufferKeepsOrder, PruneKeepsOrder, ShiftKeepsOrder,
           SealKeepsOrder, AppendStepsKeepOrder DEF Next, JobStep
-----------------------------------------------------------------------------
\* A log that verifies has no gap.
LEMMA VerifiedHasNoGap ==
    ASSUME NEW d, Verifies(d), NEW h \in Segments \ {0}, NoGapBut(h, d)
    PROVE  NoGap(d)
<1>1. MaxRotatedFiles \in Nat /\ Segments \ {0} = 1..MaxRotatedFiles
    BY AuditAssumption DEF Segments
<1>2. \A i \in Segments \ {0} : d[i] # <<>> => d[i - 1] # <<>>
    BY DEF Verifies
<1>3. ASSUME NEW i \in Segments \ {0}, NEW j \in Segments \ {0}, i < j, d[j] # <<>>
      PROVE  d[i] # <<>>
    <2>1. j # h
        BY <1>3 DEF NoGapBut
    <2>2. CASE i # h
        BY <1>3, <2>1, <2>2 DEF NoGapBut
    <2>3. CASE i = h
        <3> h \in 1..MaxRotatedFiles /\ j \in 1..MaxRotatedFiles /\ h < j
            BY <1>1, <1>3, <2>3
        <3>1. PICK k \in Segments \ {0} : k = h + 1
            BY <1>1
        <3>2. k - 1 = h /\ k # h /\ (k < j \/ k = j)
            BY <1>1, <3>1
        <3>3. d[k] = <<>>
            BY <1>2, <3>1, <3>2 DEF NoGapBut
        <3>4. k \in Segments \ {0, h} /\ j \in Segments \ {0, h} /\ k < j
            BY <1>3, <2>1, <3>1, <3>2, <3>3
        <3> QED BY <1>3, <3>3, <3>4 DEF NoGapBut
    <2> QED BY <2>2, <2>3
<1> QED BY <1>3 DEF NoGap

\* The gaps are not a matter of the active segment.
LEMMA GapsAreRotated ==
    ASSUME TypeOK, NEW file, disk' = [disk EXCEPT ![0] = file]
    PROVE  /\ NoGap(disk') <=> NoGap(disk)
           /\ \A h \in Segments \ {0} : NoGapBut(h, disk') <=> NoGapBut(h, disk)
<1>1. \A i \in Segments \ {0} : disk'[i] = disk[i]
    BY DEF TypeOK
<1> QED BY <1>1 DEF NoGap, NoGapBut

LEMMA SomeGapStays ==
    ASSUME TypeOK, NEW file, disk' = [disk EXCEPT ![0] = file],
           NoGap(disk) \/ \E h \in Segments \ {0} : NoGapBut(h, disk)
    PROVE  NoGap(disk') \/ \E h \in Segments \ {0} : NoGapBut(h, disk')
BY GapsAreRotated

LEMMA ExtendNotEmpty ==
    ASSUME NEW file \in Seq(Line), NEW payload \in Seq(Line), payload # <<>>
    PROVE  Extend(file, payload) # <<>>
<1>1. CASE file = <<>> \/ payload = <<>> \/ file[Len(file)].end = "ok"
    <2>1. Extend(file, payload) = file \o payload
        BY <1>1 DEF Extend
    <2> QED BY <2>1
<1>2. CASE ~(file = <<>> \/ payload = <<>> \/ file[Len(file)].end = "ok")
    <2> DEFINE marked == [file EXCEPT ![Len(file)].end = "torn"]
    <2>1. Extend(file, payload) = marked \o Tail(payload) /\ file # <<>>
        BY <1>2 DEF Extend
    <2>2. Len(file) \in DOMAIN file /\ [file[Len(file)] EXCEPT !.end = "torn"] \in Line
        <3>1. Len(file) \in DOMAIN file /\ file[Len(file)] \in Line
            BY <2>1
        <3> QED BY <3>1 DEF Line, Ends
    <2>3. marked \in Seq(Line) /\ Len(marked) = Len(file) /\ marked # <<>>
        BY <2>1, <2>2
    <2>4. Tail(payload) \in Seq(Line)
        OBVIOUS
    <2> HIDE DEF marked
    <2> QED BY <2>1, <2>3, <2>4
<1> QED BY <1>1, <1>2

LEMMA AppendKeepsGap ==
    ASSUME TypeOK, NothingToWrite, OneGap, AppendPayload
    PROVE  OneGap'
<1>1. /\ job.phase = "append" /\ disk' = [disk EXCEPT ![0] = Extend(disk[0], job.payload)]
      /\ job.payload # <<>> /\ job.payload \in Seq(Line) /\ disk[0] \in Seq(Line)
      /\ 0 \in Segments
    BY ActiveSegment DEF AppendPayload, OneGap, TypeOK, WriteJob
<1>2. disk'[0] # <<>>
    <2>1. disk'[0] = Extend(disk[0], job.payload)
        BY <1>1 DEF TypeOK
    <2> QED BY <1>1, <2>1, ExtendNotEmpty
<1>3. startupError # "corrupt"
    BY <1>1 DEF NothingToWrite
<1>4. ~digested => NoGap(disk')
    BY <1>1, <1>3, GapsAreRotated DEF OneGap
<1>5. \/ job'.phase = "idle" /\ digested' = digested
      \/ job'.phase = "prune" /\ ~digested /\ digested'
    BY <1>1 DEF AppendPayload, JobDone, Idle, TypeOK, WriteJob
<1>6. NoGap(disk') \/ \E h \in Segments \ {0} : NoGapBut(h, disk')
    BY <1>1, SomeGapStays DEF OneGap
<1> QED BY <1>2, <1>4, <1>5, <1>6 DEF OneGap, NoGap, NoGapBut, Segments

LEMMA AnchorKeepsGap ==
    ASSUME TypeOK, OneGap, AppendAnchor
    PROVE  OneGap'
<1>1. /\ job.phase = "anchor" /\ job'.phase = "idle"
      /\ disk' = [disk EXCEPT ![0] = Extend(disk[0], job.payload)]
    BY DEF AppendAnchor, JobDone, Idle
<1>2. NoGap(disk')
    BY <1>1, GapsAreRotated DEF OneGap
<1> QED BY <1>1, <1>2 DEF OneGap, NoGap, NoGapBut, Segments

LEMMA FailureKeepsGap ==
    ASSUME TypeOK, NothingToWrite, OneGap, FileOperationFails
    PROVE  OneGap'
<1>1. /\ job.phase # "idle" /\ job'.phase = "idle" /\ digested' = digested
    BY DEF FileOperationFails, JobDone, Idle
<1>2. PICK file : disk' = [disk EXCEPT ![0] = file]
    BY AppendSteps
<1>3. NoGap(disk') \/ \E h \in Segments \ {0} : NoGapBut(h, disk')
    BY <1>2, SomeGapStays DEF OneGap
<1>4. ~digested => NoGap(disk')
    <2>1. job.phase \in Phases
        BY DEF TypeOK, WriteJob
    <2> QED BY <1>1, <1>2, <2>1, GapsAreRotated DEF OneGap, Phases, NothingToWrite
<1> QED BY <1>1, <1>3, <1>4 DEF OneGap, NoGap, NoGapBut, Segments

\* The queue takes a job, or a job finds nothing to write.
LEMMA QueueKeepsGap ==
    ASSUME TypeOK, OneGap, Record \/ RunEmpty \/ TakeBuffer \/ UNCHANGED vars
    PROVE  OneGap'
<1>1. UNCHANGED <<disk, digested, startupError>>
    BY DEF Record, RunEmpty, TakeBuffer, vars, procVars
<1>2. \/ job' = job
      \/ job.phase = "idle" /\ job'.phase = "append" /\ job'.payload # <<>>
    BY DEF Record, RunEmpty, TakeBuffer, MayRun, vars, procVars, Idle
<1>3. NoGap(disk)' = NoGap(disk) /\ \A h \in Segments \ {0} : NoGapBut(h, disk)' = NoGapBut(h, disk)
    BY <1>1 DEF NoGap, NoGapBut, Segments
<1>4. Segments' = Segments /\ (job.phase = "shift" => job.index + 1 \in Segments \ {0}) /\ 1 \in Segments
    BY AuditAssumption DEF Segments, TypeOK, WriteJob
<1>5. CASE job' = job
    BY <1>1, <1>3, <1>4, <1>5 DEF OneGap
<1>6. CASE job.phase = "idle" /\ job'.phase = "append" /\ job'.payload # <<>>
    BY <1>1, <1>3, <1>4, <1>6 DEF OneGap
<1> QED BY <1>2, <1>5, <1>6

\* Pruning leaves the last segment as the target of the first rename.
LEMMA PruneKeepsGap ==
    ASSUME TypeOK, OneGap, PruneOldest
    PROVE  OneGap'
<1>1. /\ job.phase = "prune" /\ disk' = [disk EXCEPT ![PrunedSegment] = <<>>]
      /\ job' = ShiftFrom(HighestShift) /\ digested' = digested
    BY DEF PruneOldest
<1>2. /\ MaxRotatedFiles \in Nat \ {0} /\ PrunedSegment = MaxRotatedFiles
      /\ HighestShift = MaxRotatedFiles - 1 /\ Segments = 0..MaxRotatedFiles
    BY AuditAssumption DEF PrunedSegment, HighestShift, Segments
<1>3. disk'[PrunedSegment] = <<>> /\ \A i \in Segments : i # PrunedSegment => disk'[i] = disk[i]
    BY <1>1, <1>2 DEF TypeOK
<1>4. NoGapBut(PrunedSegment, disk')
    BY <1>1, <1>3 DEF OneGap, NoGap, NoGapBut
<1>5. \/ job'.phase = "shift" /\ job'.index + 1 = PrunedSegment
      \/ job'.phase = "seal" /\ PrunedSegment = 1
    BY <1>1, <1>2 DEF ShiftFrom, TypeOK, WriteJob
<1>6. disk'[0] # <<>> /\ PrunedSegment \in Segments \ {0} /\ digested
    BY <1>1, <1>2, <1>3 DEF OneGap
<1>7. NoGapBut(PrunedSegment, disk)' /\ Segments' = Segments
    BY <1>4 DEF NoGapBut, Segments, PrunedSegment
<1> HIDE DEF PrunedSegment
<1> QED BY <1>1, <1>4, <1>5, <1>6, <1>7 DEF OneGap, NoGapBut, Segments

\* A rename moves the gap down by one.
LEMMA RenameMovesGap ==
    ASSUME TypeOK, NEW from \in Segments \ {0}, from + 1 \in Segments, NoGapBut(from + 1, disk),
           disk' = Rename(disk, from, from + 1)
    PROVE  NoGapBut(from, disk') /\ disk'[0] = disk[0]
<1>1. from \in Nat \ {0} /\ Segments = 0..MaxRotatedFiles /\ MaxRotatedFiles \in Nat
    BY AuditAssumption DEF Segments
<1>2. PICK to \in Segments : to = from + 1 /\ to # 0 /\ to # from
    BY <1>1
<1>3. CASE disk[from] = <<>>
    <2>1. disk' = disk
        BY <1>3 DEF Rename
    <2>2. ASSUME NEW i \in Segments \ {0, from}, NEW j \in Segments \ {0, from}, i < j, disk[j] # <<>>
          PROVE  disk[i] # <<>>
        <3>1. j # to
            BY <1>2, <2>2 DEF NoGapBut
        <3>2. CASE i # to
            BY <1>2, <2>2, <3>1, <3>2 DEF NoGapBut
        <3>3. CASE i = to
            <4>1. from < j /\ from \in Segments \ {0, to} /\ j \in Segments \ {0, to}
                BY <1>1, <1>2, <2>2, <3>1, <3>3
            <4>2. disk[from] # <<>>
                BY <1>2, <2>2, <4>1 DEF NoGapBut
            <4> QED BY <1>3, <4>2
        <3> QED BY <3>2, <3>3
    <2> QED BY <1>3, <2>1, <2>2 DEF NoGapBut
<1>4. CASE disk[from] # <<>>
    <2>1. disk' = [disk EXCEPT ![to] = disk[from], ![from] = <<>>]
        BY <1>2, <1>4 DEF Rename
    <2>2. /\ disk'[from] = <<>> /\ disk'[to] = disk[from]
          /\ \A i \in Segments \ {from, to} : disk'[i] = disk[i]
        BY <1>2, <2>1 DEF TypeOK
    <2>3. ASSUME NEW i \in Segments \ {0, from}, NEW j \in Segments \ {0, from}, i < j, disk'[j] # <<>>
          PROVE  disk'[i] # <<>>
        <3>1. CASE i = to
            BY <1>4, <2>2, <3>1
        <3>2. CASE j = to
            <4>1. i < from /\ i \in Segments \ {0, to} /\ from \in Segments \ {0, to}
                BY <1>1, <1>2, <2>3, <3>2
            <4>2. disk[i] # <<>>
                BY <1>2, <1>4, <4>1 DEF NoGapBut
            <4> QED BY <2>2, <2>3, <4>1, <4>2
        <3>3. CASE i # to /\ j # to
            <4>1. disk'[i] = disk[i] /\ disk'[j] = disk[j]
                BY <2>2, <2>3, <3>3
            <4> QED BY <1>2, <2>3, <3>3, <4>1 DEF NoGapBut
        <3> QED BY <3>1, <3>2, <3>3
    <2>4. disk'[0] = disk[0]
        BY <1>1, <1>2, <2>2
    <2> QED BY <2>2, <2>3, <2>4 DEF NoGapBut
<1> QED BY <1>3, <1>4

LEMMA ShiftKeepsGap ==
    ASSUME TypeOK, StoreInv, OneGap, ShiftSegment
    PROVE  OneGap'
<1>1. /\ job.phase = "shift" /\ disk' = Rename(disk, job.index, job.index + 1)
      /\ job' = ShiftFrom(job.index - 1) /\ digested' = digested
    BY DEF ShiftSegment
<1>2. /\ job.index \in Segments \ {0} /\ job.index + 1 \in Segments
      /\ job.index \in Nat /\ job.index >= 1
    BY <1>1, AuditAssumption DEF StoreInv, RenameTargetFree, TypeOK, WriteJob, Segments
<1>3. PICK from \in Segments \ {0} : from = job.index
    BY <1>2
<1>4. NoGapBut(from, disk') /\ disk'[0] = disk[0]
    <2>1. NoGapBut(from + 1, disk)
        BY <1>1, <1>3 DEF OneGap
    <2> QED BY <1>1, <1>2, <1>3, <2>1, RenameMovesGap
<1>5. \/ job'.phase = "shift" /\ job'.index + 1 = from
      \/ job'.phase = "seal" /\ from = 1
    BY <1>1, <1>2, <1>3 DEF ShiftFrom, TypeOK, WriteJob
<1>6. disk[0] # <<>> /\ digested
    BY <1>1 DEF OneGap
<1>7. NoGapBut(from, disk)' /\ Segments' = Segments
    BY <1>4 DEF NoGapBut, Segments
<1> QED BY <1>1, <1>3, <1>4, <1>5, <1>6, <1>7 DEF OneGap, NoGapBut, Segments

\* The active segment fills the gap.
LEMMA SealKeepsGap ==
    ASSUME TypeOK, OneGap, SealSegment
    PROVE  OneGap'
<1>1. /\ job.phase = "seal" /\ job'.phase = "anchor" /\ disk' = Rename(disk, 0, 1)
      /\ digested' = digested
    BY DEF SealSegment, TypeOK, WriteJob
<1>2. disk[0] # <<>> /\ NoGapBut(1, disk) /\ digested
    BY <1>1 DEF OneGap
<1>3. MaxRotatedFiles \in Nat \ {0} /\ Segments = 0..MaxRotatedFiles
    BY AuditAssumption DEF Segments
<1>4. disk'[1] # <<>> /\ \A i \in Segments \ {0, 1} : disk'[i] = disk[i]
    BY <1>1, <1>2, <1>3 DEF Rename, TypeOK
<1>5. NoGap(disk')
    <2> SUFFICES ASSUME NEW i \in Segments \ {0}, NEW j \in Segments \ {0}, i < j, disk'[j] # <<>>
                 PROVE  disk'[i] # <<>>
        BY DEF NoGap
    <2>1. j \notin {0, 1}
        BY <1>3
    <2> QED BY <1>2, <1>4, <2>1 DEF NoGapBut
<1> QED BY <1>1, <1>2, <1>5 DEF OneGap, NoGap, Segments

\* A restarted process goes on only with files that verify.
LEMMA CrashKeepsGap ==
    ASSUME TypeOK, OneGap, CrashAndRestart
    PROVE  OneGap'
<1>1. PICK file : disk' = [disk EXCEPT ![0] = file]
    BY AppendSteps
<1>2. NoGap(disk') \/ \E h \in Segments \ {0} : NoGapBut(h, disk')
    BY <1>1, SomeGapStays DEF OneGap
<1>3. job'.phase = "idle" /\ (startupError' = IF Verifies(disk') THEN "none" ELSE "corrupt")
    BY DEF CrashAndRestart, Recover, Idle
<1>4. startupError' # "corrupt" => NoGap(disk')
    BY <1>2, <1>3, VerifiedHasNoGap
<1> QED BY <1>2, <1>3, <1>4 DEF OneGap, NoGap, NoGapBut, Segments

LEMMA OneGapInit == Init => OneGap
<1> SUFFICES ASSUME Init PROVE OneGap
    OBVIOUS
<1>1. NoGap(disk)
    BY DEF Init, NoGap
<1> QED BY <1>1 DEF Init, Idle, OneGap

LEMMA OneGapStep == TypeOK /\ StoreInv /\ NothingToWrite /\ OneGap /\ [Next]_vars => OneGap'
BY QueueKeepsGap, AppendKeepsGap, PruneKeepsGap, ShiftKeepsGap, SealKeepsGap, AnchorKeepsGap,
   FailureKeepsGap, CrashKeepsGap DEF Next, JobStep

\* Only pruning removes a line.
LEMMA OnlyPruningDrops ==
    ASSUME TypeOK, StoreInv, [Next]_vars, ~PruneOldest, "bare" \notin damage
    PROVE  StoredIds \subseteq StoredIds'
<1>1. CASE AppendPayload \/ AppendAnchor \/ FileOperationFails \/ CrashAndRestart
    <2>1. PICK file \in {disk[0]} \cup PartialAppends(disk[0], job.payload) :
              disk' = [disk EXCEPT ![0] = file]
        BY <1>1, AppendSteps
    <2>2. file \in Seq(Line) /\ Ids(disk[0]) \subseteq Ids(file)
        BY PartialKeeps DEF StoreInv
    <2>3. UNCHANGED pruned
        BY <1>1 DEF AppendPayload, AppendAnchor, FileOperationFails, CrashAndRestart
    <2> QED BY <2>1, <2>2, <2>3, ActiveGrows
<1>2. CASE ShiftSegment
    <2>1. /\ job.index \in Segments /\ job.index + 1 \in Segments /\ job.index # job.index + 1
          /\ disk[job.index + 1] = <<>> /\ disk' = Rename(disk, job.index, job.index + 1)
          /\ UNCHANGED pruned
        BY <1>2, AuditAssumption DEF ShiftSegment, StoreInv, RenameTargetFree, TypeOK, WriteJob, Segments
    <2> QED BY <2>1, RenameKeeps
<1>3. CASE SealSegment
    <2>1. /\ 0 \in Segments /\ 1 \in Segments /\ disk[1] = <<>> /\ disk' = Rename(disk, 0, 1)
          /\ UNCHANGED pruned
        BY <1>3, AuditAssumption DEF SealSegment, StoreInv, RenameTargetFree, Segments
    <2> QED BY <2>1, RenameKeeps
<1>4. CASE Record \/ RunEmpty \/ TakeBuffer \/ UNCHANGED vars
    <2>1. disk' = disk
        BY <1>4 DEF Record, RunEmpty, TakeBuffer, vars
    <2> QED BY <2>1 DEF StoredIds, Ids, Segments
<1> QED BY <1>1, <1>2, <1>3, <1>4 DEF Next, JobStep

\* What pruning removes is older than all that stays.
LEMMA PruningDropsOldest ==
    ASSUME TypeOK, IdsOrdered, OneGap, PruneOldest,
           NEW id \in StoredIds \ StoredIds'
    PROVE  /\ \A kept \in StoredIds' : id < kept
           /\ \A i \in Segments \ {0} : disk[i] # <<>>
<1>1. PrunedSegment \in Segments \ {0} /\ \A i \in Segments \ {PrunedSegment} : i < PrunedSegment
    BY AuditAssumption DEF PrunedSegment, Segments
<1>2. /\ disk'[PrunedSegment] = <<>>
      /\ \A i \in Segments \ {PrunedSegment} : disk'[i] = disk[i]
    BY <1>1 DEF PruneOldest, TypeOK
<1>3. id \in Ids(disk[PrunedSegment])
    <2>1. PICK i \in Segments : id \in Ids(disk[i])
        BY DEF StoredIds
    <2>2. id \notin Ids(disk'[i])
        BY StoredNext
    <2> QED BY <1>2, <2>1, <2>2
<1>4. ASSUME NEW kept \in StoredIds' PROVE id < kept
    <2>1. PICK i \in Segments : kept \in Ids(disk'[i])
        BY <1>4, StoredNext
    <2>2. i # PrunedSegment
        BY <1>2, <2>1 DEF Ids
    <2>3. kept \in Ids(disk[i])
        BY <1>2, <2>1, <2>2
    <2> QED BY <1>1, <1>3, <2>2, <2>3 DEF IdsOrdered, Older
<1>5. disk[PrunedSegment] # <<>>
    BY <1>3 DEF Ids
<1>6. NoGap(disk)
    BY DEF OneGap, PruneOldest
<1>7. \A i \in Segments \ {0} : disk[i] # <<>>
    BY <1>1, <1>5, <1>6 DEF NoGap
<1> QED BY <1>4, <1>7

\* A line leaves the files only with the oldest segment and only when no segment is
\* free, and every line that stays is newer: in whatever state the crashes and the
\* failures of earlier rotations left the files.
THEOREM RotationDropsOldest == Spec => RotationDropsOnlyOldest
<1>1. TypeOK /\ StoreInv /\ IdsOrdered /\ OneGap /\ [Next]_vars =>
          [\A id \in StoredIds \ StoredIds' :
              "bare" \notin damage =>
                  /\ \A kept \in StoredIds' : id < kept
                  /\ \A i \in Segments \ {0} : disk[i] # <<>>]_vars
    BY OnlyPruningDrops, PruningDropsOldest
<1> QED
    BY <1>1, TypeCorrect, StoreInvInit, StoreInvStep, NothingToWriteInit, NothingToWriteStep,
       IdsOrderedInit, IdsOrderedStep, OneGapInit, OneGapStep, PTL DEF Spec, RotationDropsOnlyOldest
-----------------------------------------------------------------------------
(* The reader of the history.  The files move under it, but lines only move  *)
(* up, ahead of a reader that goes from the active segment to the oldest,    *)
(* and what is appended behind it is not yet acknowledged.                   *)

Acked == {n \in Entries : status[n] = "acked"}

\* The ids of the lines on their way to the files.
Pending ==
    Ids(writeBuffer) \cup (IF job.phase \in {"append", "anchor"} THEN Payload ELSE {})

PendingIsNew ==
    /\ Acked \cap Pending = {}
    /\ job.phase # "idle" => job.owner \notin Ids(writeBuffer)
    /\ job.phase = "idle" => job.owner = 0

Readers == [phase : {"none", "flush", "scan", "done", "rejected"}, awaited : 0..LastEntry,
            at : Segments, acked : SUBSET Entries, found : SUBSET Nat,
            integrity : {"verified", "failed"}]

\* The reader has found what is stored in the segments it has read.
ReaderIsComplete ==
    /\ reader \in Readers /\ reader.acked \subseteq Acked
    /\ reader.phase \in {"none", "flush", "scan"} => reader.integrity = "verified"
    /\ reader.phase = "scan" =>
           \A i \in Segments : i < reader.at => Ids(disk[i]) \cap reader.acked \subseteq reader.found
    /\ (reader.phase = "done" /\ reader.integrity = "verified") =>
           reader.acked \cap StoredIds \subseteq reader.found

\* flush() returns to the reader before the next write job begins.
FlushedIsIdle == FlushSettled => job.phase = "idle"

LEMMA HistoryStepIsLogStep == HistoryNext \/ UNCHANGED allVars => [Next]_vars
BY DEF HistoryNext, allVars, LogStep, CrashWithReader, CallHistory, Resume, ReadSegment, Next

LEMMA AckedStays == TypeOK /\ OwnersWait /\ [Next]_vars => Acked \subseteq Acked'
<1> SUFFICES ASSUME TypeOK, OwnersWait, [Next]_vars, NEW n \in Entries, status[n] = "acked"
             PROVE  status'[n] = "acked"
    BY DEF Acked
<1>1. CASE Record
    <2>1. status[nextId] = "none" /\ status' = [status EXCEPT ![nextId] = "waiting"]
        BY <1>1 DEF Record, OwnersWait, Entries
    <2> QED BY <2>1 DEF TypeOK
<1>2. ASSUME NEW m, NEW error, Settle(m, error) PROVE status'[n] = "acked"
    BY <1>2 DEF Settle, TypeOK
<1>3. CASE status' = status
    BY <1>3
<1>4. CASE CrashAndRestart
    BY <1>4 DEF CrashAndRestart
<1> QED
    BY <1>1, <1>2, <1>3, <1>4
       DEF Next, JobStep, RunEmpty, TakeBuffer, AppendPayload, PruneOldest, ShiftSegment,
           SealSegment, AppendAnchor, FileOperationFails, JobDone, vars

\* A job that is over leaves only the buffer, which does not hold its owner.
LEMMA JobDoneKeepsPending ==
    ASSUME TypeOK, PendingIsNew, job.phase # "idle", NEW error, JobDone(error),
           UNCHANGED writeBuffer
    PROVE  PendingIsNew'
<1>1. job' = Idle /\ Pending' = Ids(writeBuffer)
    BY DEF JobDone, Pending, Idle, Ids
<1>2. Acked' \subseteq Acked \cup {job.owner}
    BY DEF JobDone, Settle, TypeOK, Acked, Entries
<1> QED BY <1>1, <1>2 DEF PendingIsNew, Pending, Idle

LEMMA PendingIsNewStep ==
    TypeOK /\ OwnersWait /\ PendingIsNew /\ [Next]_vars => PendingIsNew'
<1> SUFFICES ASSUME TypeOK, OwnersWait, PendingIsNew, [Next]_vars PROVE PendingIsNew'
    OBVIOUS
<1>1. CASE Record
    <2>1. PICK line \in {NewLine(<<>>)} : writeBuffer' = Append(writeBuffer, line)
        BY <1>1 DEF Record
    <2>2. line \in Line /\ line.id = nextId
        BY <2>1, NewLineType, EmptyType DEF NewLine
    <2>3. Ids(writeBuffer)' \subseteq Ids(writeBuffer) \cup {nextId}
        BY <2>1, <2>2 DEF Ids, TypeOK
    <2>4. job' = job /\ status[nextId] = "none" /\ status' = [status EXCEPT ![nextId] = "waiting"]
        BY <1>1 DEF Record, OwnersWait, Entries
    <2>5. Acked' \subseteq Acked /\ nextId \notin Acked'
        BY <2>4 DEF Acked, TypeOK, Entries
    <2>6. Pending' \subseteq Pending \cup {nextId}
        BY <2>3, <2>4 DEF Pending, Payload, Ids
    <2>7. job.phase # "idle" => job.owner # nextId
        BY <2>4 DEF OwnersWait
    <2> QED BY <2>3, <2>4, <2>5, <2>6, <2>7 DEF PendingIsNew
<1>2. CASE RunEmpty
    <2>1. writeBuffer' = <<>> /\ job' = job /\ job.phase = "idle"
        BY <1>2 DEF RunEmpty, MayRun
    <2>2. Pending' = {} /\ Ids(writeBuffer)' = {}
        BY <2>1 DEF Pending, Ids
    <2> QED BY <2>1, <2>2 DEF PendingIsNew
<1>3. CASE TakeBuffer
    <2>1. /\ writeBuffer' = <<>> /\ status' = status
          /\ job'.phase = "append" /\ job'.payload = writeBuffer
        BY <1>3 DEF TakeBuffer, Idle
    <2>2. Ids(writeBuffer)' = {} /\ Pending' = Ids(writeBuffer)
        BY <2>1 DEF Pending, Payload, Ids
    <2>3. Acked' = Acked
        BY <2>1 DEF Acked, Entries
    <2> QED BY <2>1, <2>2, <2>3 DEF PendingIsNew, Pending
<1>4. CASE AppendPayload
    <2>1. CASE \E error : JobDone(error)
        BY <1>4, <2>1, JobDoneKeepsPending DEF AppendPayload
    <2>2. CASE job' = [job EXCEPT !.phase = "prune"] /\ UNCHANGED status
        <3>1. /\ job'.phase = "prune" /\ job'.owner = job.owner /\ writeBuffer' = writeBuffer
              /\ job.phase = "append"
            BY <1>4, <2>2 DEF AppendPayload, TypeOK, WriteJob
        <3>2. Pending' = Ids(writeBuffer) /\ Acked' = Acked
            BY <2>2, <3>1 DEF Pending, Acked, Ids, Entries
        <3>3. Ids(writeBuffer)' = Ids(writeBuffer)
            BY <3>1 DEF Ids
        <3> QED BY <3>1, <3>2, <3>3 DEF PendingIsNew, Pending
    <2> QED BY <1>4, <2>1, <2>2 DEF AppendPayload
<1>5. CASE PruneOldest \/ ShiftSegment
    <2>1. /\ UNCHANGED <<writeBuffer, status>> /\ job'.owner = job.owner
          /\ job'.phase \in {"shift", "seal"} /\ job.phase # "idle"
        BY <1>5 DEF PruneOldest, ShiftSegment, ShiftFrom, TypeOK, WriteJob
    <2>2. Pending' = Ids(writeBuffer) /\ Acked' = Acked /\ Ids(writeBuffer)' = Ids(writeBuffer)
        BY <2>1 DEF Pending, Acked, Ids, Entries
    <2> QED BY <2>1, <2>2 DEF PendingIsNew, Pending
<1>6. CASE SealSegment
    <2>1. PICK line \in {NewLine(hashed)} : job' = [job EXCEPT !.phase = "anchor", !.payload = <<line>>]
        BY <1>6 DEF SealSegment
    <2>2. /\ job'.phase = "anchor" /\ job'.owner = job.owner /\ job'.payload = <<line>>
          /\ job.phase = "seal" /\ UNCHANGED <<writeBuffer, status>>
        BY <1>6, <2>1 DEF SealSegment, TypeOK, WriteJob
    <2>3. line.id = nextId
        BY <2>1 DEF NewLine
    <2>4. Ids(<<line>>) \subseteq {nextId} /\ Ids(writeBuffer)' = Ids(writeBuffer)
        BY <2>2, <2>3 DEF Ids
    <2>5. Payload' \subseteq {nextId}
        BY <2>2, <2>4 DEF Payload, Ids
    <2>6. nextId \notin Acked /\ Acked' = Acked
        BY <2>2 DEF OwnersWait, Acked, TypeOK, Entries
    <2> QED BY <2>2, <2>4, <2>5, <2>6 DEF PendingIsNew, Pending
<1>7. CASE AppendAnchor
    BY <1>7, JobDoneKeepsPending DEF AppendAnchor
<1>8. CASE FileOperationFails
    BY <1>8, JobDoneKeepsPending DEF FileOperationFails
<1>9. CASE CrashAndRestart
    <2>1. writeBuffer' = <<>> /\ job' = Idle
        BY <1>9 DEF CrashAndRestart
    <2>2. Pending' = {}
        BY <2>1 DEF Pending, Ids, Idle
    <2> QED BY <2>1, <2>2 DEF PendingIsNew, Idle
<1>10. CASE UNCHANGED vars
    BY <1>10 DEF vars, procVars, PendingIsNew, Pending, Payload, Acked, Entries, Ids
<1> QED BY <1>1, <1>2, <1>3, <1>4, <1>5, <1>6, <1>7, <1>8, <1>9, <1>10 DEF Next, JobStep


\* A step of the log moves a line up, or appends one that was on its way.
LEMMA LinesMoveUp ==
    ASSUME TypeOK, StoreInv, [Next]_vars, NEW i \in Segments, NEW id \in Ids(disk'[i])
    PROVE  id \in Pending \/ \E j \in Segments : j <= i /\ id \in Ids(disk[j])
<1> USE DEF Segments
<1>1. CASE disk'[i] = disk[i]
    BY <1>1
<1>2. ASSUME NEW from \in Segments, from + 1 \in Segments, disk[from + 1] = <<>>,
             disk' = Rename(disk, from, from + 1)
      PROVE  \E j \in Segments : j <= i /\ id \in Ids(disk[j])
    <2>1. PICK to \in Segments : to = from + 1
        BY <1>2
    <2>2. /\ disk'[from] = <<>> /\ disk'[to] = disk[from]
          /\ \A k \in Segments \ {from, to} : disk'[k] = disk[k]
        BY <1>2, <2>1, RenameToFree
    <2>3. id \notin Ids(<<>>)
        BY DEF Ids
    <2> QED BY <2>1, <2>2, <2>3
<1>3. CASE AppendPayload \/ AppendAnchor \/ FileOperationFails \/ CrashAndRestart
    <2>1. PICK file \in {disk[0]} \cup PartialAppends(disk[0], job.payload) :
              disk' = [disk EXCEPT ![0] = file]
        BY <1>3, AppendSteps
    <2>2. CASE job.phase \in {"append", "anchor"}
        <3>1. Ids(file) \subseteq Ids(disk[0]) \cup Payload
            BY <2>1, ActiveKeepsOrder
        <3> QED BY <2>1, <2>2, <3>1 DEF Pending, TypeOK
    <2>3. CASE job.phase \notin {"append", "anchor"}
        <3>1. disk'[i] = disk[i]
            BY <1>3, <2>3 DEF AppendPayload, AppendAnchor, FileOperationFails, CrashAndRestart, TypeOK
        <3> QED BY <1>1, <3>1
    <2> QED BY <2>2, <2>3
<1>4. CASE PruneOldest
    <2>1. disk'[i] = disk[i] \/ disk'[i] = <<>>
        BY <1>4 DEF PruneOldest, TypeOK
    <2>2. id \notin Ids(<<>>)
        BY DEF Ids
    <2> QED BY <1>1, <2>1, <2>2
<1>5. CASE ShiftSegment
    <2>1. /\ disk[job.index + 1] = <<>> /\ disk' = Rename(disk, job.index, job.index + 1)
          /\ job.index \in Segments /\ job.index + 1 \in Segments
        BY <1>5, AuditAssumption DEF ShiftSegment, StoreInv, RenameTargetFree, TypeOK, WriteJob
    <2> QED BY <1>2, <2>1
<1>6. CASE SealSegment
    <2>1. disk[0 + 1] = <<>> /\ disk' = Rename(disk, 0, 0 + 1) /\ 0 \in Segments /\ 0 + 1 \in Segments
        BY <1>6, AuditAssumption DEF SealSegment, StoreInv, RenameTargetFree
    <2> QED BY <1>2, <2>1
<1>7. CASE Record \/ RunEmpty \/ TakeBuffer \/ UNCHANGED vars
    BY <1>1, <1>7 DEF Record, RunEmpty, TakeBuffer, vars
<1> QED BY <1>3, <1>4, <1>5, <1>6, <1>7 DEF Next, JobStep

\* A step of the log under a reader that goes on, is over or dies with the process.
LEMMA LogStepKeepsReader ==
    ASSUME TypeOK, StoreInv, OwnersWait, PendingIsNew, ReaderIsComplete, [Next]_vars,
           reader' = reader \/ reader' = [reader EXCEPT !.phase = "rejected"]
    PROVE  ReaderIsComplete'
<1>1. /\ reader'.at = reader.at /\ reader'.acked = reader.acked
      /\ reader'.found = reader.found /\ reader'.integrity = reader.integrity
      /\ reader'.phase \in {reader.phase, "rejected"}
    BY DEF ReaderIsComplete, Readers
<1>2. reader.acked \subseteq Acked'
    BY AckedStays DEF ReaderIsComplete
<1>3. ASSUME NEW i \in Segments, NEW id \in Ids(disk'[i]), id \in reader.acked
      PROVE  \E j \in Segments : j <= i /\ id \in Ids(disk[j])
    BY <1>3, LinesMoveUp DEF ReaderIsComplete, PendingIsNew
<1>4. ASSUME reader.phase = "scan", NEW i \in Segments, i < reader.at,
             NEW id \in Ids(disk'[i]) \cap reader.acked
      PROVE  id \in reader.found
    <2>1. PICK j \in Segments : j <= i /\ id \in Ids(disk[j])
        BY <1>3, <1>4
    <2>2. j < reader.at
        BY <1>4, <2>1 DEF ReaderIsComplete, Readers, Segments
    <2> QED BY <1>4, <2>1, <2>2 DEF ReaderIsComplete
<1>5. reader.acked \cap StoredIds' \subseteq StoredIds
    BY <1>3, StoredNext DEF StoredIds
<1>6. reader' \in Readers
    BY DEF ReaderIsComplete, Readers
<1> QED BY <1>1, <1>2, <1>4, <1>5, <1>6 DEF ReaderIsComplete

LEMMA LastQueuedType == ASSUME TypeOK PROVE LastQueued \in 0..LastEntry
<1>1. tail # <<>> => tail[Len(tail)] \in Entries
    BY DEF TypeOK
<1> QED BY <1>1 DEF LastQueued, TypeOK, WriteJob, Entries

\* The reader's own steps.
LEMMA ReadingKeepsReader ==
    ASSUME TypeOK, ReaderIsComplete, CallHistory \/ Resume \/ ReadSegment
    PROVE  ReaderIsComplete'
<1>1. UNCHANGED vars
    BY DEF CallHistory, Resume, ReadSegment
<1>2. Acked' = Acked /\ StoredIds' = StoredIds /\ \A i \in Segments : Ids(disk'[i]) = Ids(disk[i])
    BY <1>1 DEF vars, procVars, Acked, StoredIds, Entries, Ids
<1>3. CASE CallHistory
    <2>1. PICK last \in 0..LastEntry : last = LastQueued
        BY LastQueuedType
    <2>2. /\ reader' = [reader EXCEPT !.phase = "flush", !.awaited = last, !.acked = Acked]
          /\ reader.phase = "none" /\ Acked \in SUBSET Entries
        BY <1>3, <2>1 DEF CallHistory, Acked
    <2>3. /\ reader' \in Readers
          /\ reader'.acked = Acked /\ reader'.phase = "flush" /\ reader'.integrity = "verified"
        BY <2>2 DEF ReaderIsComplete, Readers
    <2> QED BY <1>2, <2>3 DEF ReaderIsComplete
<1>4. CASE Resume
    <2>1. 0 \in Segments
        BY ActiveSegment
    <2>2. /\ reader' \in Readers /\ reader'.acked = reader.acked
          /\ reader'.phase = "scan" => reader'.at = 0 /\ reader'.integrity = "verified"
          /\ reader'.phase = "done" => reader'.integrity = "failed"
          /\ reader'.phase \in {"scan", "done", "rejected"}
        BY <1>4, <2>1 DEF Resume, FlushSettled, Finished, ScanFrom, ReaderIsComplete, Readers
    <2>3. \A i \in Segments : ~(i < 0)
        BY DEF Segments
    <2> QED BY <1>2, <2>2, <2>3 DEF ReaderIsComplete
<1>5. CASE ReadSegment
    <2>1. reader.phase = "scan" /\ reader.at \in Segments
        BY <1>5 DEF ReadSegment, ReaderIsComplete, Readers
    <2>2. CASE reader' = [Finished EXCEPT !.integrity = "failed"]
        <3>1. /\ reader' \in Readers /\ reader'.acked = reader.acked
              /\ reader'.phase = "done" /\ reader'.integrity = "failed"
            BY <2>2 DEF ReaderIsComplete, Readers, Finished
        <3> QED BY <1>2, <3>1 DEF ReaderIsComplete
    <2> DEFINE found == reader.found \cup Ids(disk[reader.at])
    <2>3. found \in SUBSET Nat
        BY <2>1, IdsType DEF ReaderIsComplete, Readers, TypeOK
    <2> HIDE DEF found
    <2>4. \A i \in Segments : i <= reader.at => Ids(disk[i]) \cap reader.acked \subseteq found
        BY <2>1 DEF ReaderIsComplete, Segments, found
    <2>5. CASE reader' = [reader EXCEPT !.found = found, !.phase = "done"] /\ reader.at = MaxRotatedFiles
        <3>1. /\ reader' \in Readers /\ reader'.acked = reader.acked /\ reader'.found = found
              /\ reader'.phase = "done"
            BY <2>5, <2>3 DEF ReaderIsComplete, Readers
        <3>2. \A i \in Segments : Ids(disk[i]) \cap reader.acked \subseteq found
            BY <2>5, <2>4, AuditAssumption DEF Segments
        <3>3. reader.acked \cap StoredIds \subseteq found
            BY <3>2 DEF StoredIds
        <3> QED BY <1>2, <3>1, <3>3 DEF ReaderIsComplete
    <2>6. CASE reader' = [reader EXCEPT !.found = found, !.at = @ + 1] /\ reader.at # MaxRotatedFiles
        <3>1. reader.at + 1 \in Segments
            BY <2>1, <2>6, AuditAssumption DEF Segments
        <3>2. /\ reader' \in Readers /\ reader'.acked = reader.acked /\ reader'.found = found
              /\ reader'.phase = "scan" /\ reader'.at = reader.at + 1
              /\ reader'.integrity = "verified"
            BY <2>1, <2>6, <2>3, <3>1 DEF ReaderIsComplete, Readers
        <3>3. \A i \in Segments : i < reader.at + 1 => Ids(disk[i]) \cap reader.acked \subseteq found
            BY <2>1, <2>4 DEF Segments
        <3> QED BY <1>2, <3>2, <3>3 DEF ReaderIsComplete
    <2> QED BY <1>5, <2>2, <2>5, <2>6 DEF ReadSegment, SegmentRead, found
<1> QED BY <1>3, <1>4, <1>5

LEMMA FlushedIsIdleStep ==
    /\ TypeOK /\ OwnersWait /\ PendingIsNew /\ ReaderIsComplete /\ FlushedIsIdle
    /\ HistoryNext \/ UNCHANGED allVars
    => FlushedIsIdle'
<1> SUFFICES ASSUME TypeOK, OwnersWait, PendingIsNew, ReaderIsComplete, FlushedIsIdle,
                    HistoryNext \/ UNCHANGED allVars, FlushSettled'
             PROVE  job'.phase = "idle"
    BY DEF FlushedIsIdle
<1>1. CASE LogStep(Record) \/ LogStep(JobStep)
    <2>1. ~FlushSettled /\ reader' = reader /\ (Record \/ JobStep)
        BY <1>1 DEF LogStep
    <2>2. /\ reader.phase = "flush"
          /\ reader.awaited \notin {tail'[n] : n \in DOMAIN tail'}
          /\ reader.awaited = 0 \/ reader.awaited # job'.owner
        BY <2>1 DEF FlushSettled
    <2>3. \/ \E n \in DOMAIN tail : tail[n] = reader.awaited
          \/ reader.awaited # 0 /\ reader.awaited = job.owner
        BY <2>1, <2>2 DEF FlushSettled
    <2>4. CASE Record
        <3>1. PICK id : tail' = Append(tail, id)
            BY <2>4 DEF Record
        <3>2. \A n \in DOMAIN tail : n \in DOMAIN tail' /\ tail'[n] = tail[n]
            BY <3>1 DEF TypeOK
        <3>3. job' = job
            BY <2>4 DEF Record
        <3> QED BY <2>2, <2>3, <3>2, <3>3
    <2>5. CASE RunEmpty
        BY <2>5 DEF RunEmpty, MayRun
    <2>6. CASE TakeBuffer
        <3>1. job.phase = "idle" /\ tail # <<>> /\ tail' = Tail(tail) /\ job'.owner = tail[1]
            BY <2>6 DEF TakeBuffer, MayRun, Idle
        <3>2. PICK n \in DOMAIN tail : tail[n] = reader.awaited
            BY <2>3, <3>1 DEF PendingIsNew
        <3>3. n # 1
            <4>1. tail[1] \in Entries
                BY <3>1 DEF TypeOK
            <4>2. tail[1] # 0
                BY <4>1 DEF Entries
            <4> QED BY <2>2, <3>1, <3>2, <4>2
        <3>4. n - 1 \in DOMAIN tail' /\ tail'[n - 1] = tail[n]
            BY <3>1, <3>2, <3>3 DEF TypeOK
        <3> QED BY <2>2, <3>2, <3>4
    <2>7. CASE job'.phase = "idle"
        BY <2>7
    <2>8. CASE tail' = tail /\ job'.owner = job.owner
        BY <2>2, <2>3, <2>8
    <2>9. ASSUME NEW error, JobDone(error) PROVE job'.phase = "idle"
        BY <2>9 DEF JobDone, Idle
    <2>10. CASE AppendPayload
        BY <2>7, <2>8, <2>9, <2>10 DEF AppendPayload, TypeOK, WriteJob
    <2>11. CASE PruneOldest \/ ShiftSegment \/ SealSegment
        <3>1. tail' = tail /\ job'.owner = job.owner
            BY <2>11 DEF PruneOldest, ShiftSegment, SealSegment, ShiftFrom, TypeOK, WriteJob
        <3> QED BY <2>8, <3>1
    <2>12. CASE AppendAnchor \/ FileOperationFails
        BY <2>9, <2>12 DEF AppendAnchor, FileOperationFails
    <2> QED BY <2>1, <2>4, <2>5, <2>6, <2>10, <2>11, <2>12 DEF JobStep
<1>2. CASE CrashWithReader
    BY <1>2 DEF CrashWithReader, CrashAndRestart, Idle
<1>3. CASE CallHistory
    <2>1. reader'.awaited = LastQueued /\ UNCHANGED <<tail, job>>
        BY <1>3 DEF CallHistory, vars, procVars, NoReader
    <2>2. tail = <<>>
        <3>1. SUFFICES ASSUME tail # <<>> PROVE FALSE
            OBVIOUS
        <3>2. Len(tail) \in DOMAIN tail /\ LastQueued = tail[Len(tail)]
            BY <3>1 DEF LastQueued, TypeOK
        <3> QED BY <2>1, <3>2 DEF FlushSettled
    <2>3. LastQueued = job.owner
        BY <2>2 DEF LastQueued
    <2>4. job.owner = 0
        BY <2>1, <2>3 DEF FlushSettled
    <2>5. 0 \notin Entries
        BY DEF Entries
    <2> QED BY <2>1, <2>4, <2>5 DEF OwnersWait
<1>4. CASE Resume \/ ReadSegment
    <2>1. reader'.phase # "flush"
        BY <1>4 DEF Resume, ReadSegment, FlushSettled, Finished, ReaderIsComplete, Readers
    <2> QED BY <2>1 DEF FlushSettled
<1>5. CASE UNCHANGED allVars
    BY <1>5 DEF allVars, vars, procVars, FlushedIsIdle, FlushSettled
<1> QED BY <1>1, <1>2, <1>3, <1>4, <1>5 DEF HistoryNext

LEMMA AlarmIsRealStep ==
    /\ TypeOK /\ ChainInv /\ UndamagedLogVerifies /\ ReaderIsComplete /\ FlushedIsIdle
    /\ HistoryAlarmIsReal /\ (HistoryNext \/ UNCHANGED allVars)
    => HistoryAlarmIsReal'
<1> SUFFICES ASSUME TypeOK, ChainInv, UndamagedLogVerifies, ReaderIsComplete, FlushedIsIdle,
                    HistoryAlarmIsReal, HistoryNext \/ UNCHANGED allVars,
                    reader'.phase = "done", reader'.integrity = "failed"
             PROVE  damage' # {}
    BY DEF HistoryAlarmIsReal
<1>1. damage \subseteq damage'
    BY HistoryStepIsLogStep
       DEF Next, JobStep, Record, RunEmpty, TakeBuffer, AppendPayload, PruneOldest, ShiftSegment,
           SealSegment, AppendAnchor, FileOperationFails, CrashAndRestart, vars
<1>2. CASE reader.phase = "done" /\ reader.integrity = "failed"
    BY <1>1, <1>2 DEF HistoryAlarmIsReal
<1>3. CASE Resume
    <2>1. ~Verifies(disk) /\ FlushSettled
        BY <1>3 DEF Resume, Finished, ReaderIsComplete, Readers
    <2>2. job.phase = "idle"
        BY <2>1 DEF FlushedIsIdle
    <2> QED BY <1>1, <2>1, <2>2 DEF UndamagedLogVerifies
<1>4. CASE ReadSegment
    <2>1. CASE \E n \in DOMAIN disk[reader.at] : disk[reader.at][n].end = "torn"
        <3>1. ~Whole(disk[reader.at]) /\ reader.at \in Segments
            BY <2>1 DEF Whole, ReaderIsComplete, Readers
        <3>2. ~Linked(disk[reader.at])
            BY <3>1 DEF Linked
        <3>3. ASSUME damage = {} PROVE FALSE
            <4>1. Linked(disk[0])
                BY <3>3, ActiveParts DEF ChainInv, MemoryAgrees
            <4>2. \A i \in Rotated : Linked(disk[i])
                BY <3>3 DEF ChainInv, FilesChained
            <4> QED BY <3>1, <3>2, <4>1, <4>2 DEF Rotated
        <3> QED BY <1>1, <3>3
    <2>2. CASE ~ \E n \in DOMAIN disk[reader.at] : disk[reader.at][n].end = "torn"
        <3>1. reader.phase = "scan" /\ reader'.integrity = reader.integrity
            BY <1>4, <2>2 DEF ReadSegment, SegmentRead
        <3> QED BY <1>1, <3>1 DEF ReaderIsComplete
    <2> QED BY <2>1, <2>2
<1>5. CASE LogStep(Record) \/ LogStep(JobStep) \/ CrashWithReader \/ CallHistory \/ UNCHANGED allVars
    <2>1. reader'.phase = "done" => reader' = reader
        BY <1>5 DEF LogStep, CrashWithReader, CallHistory, allVars, ReaderIsComplete, Readers
    <2> QED BY <1>2, <2>1
<1> QED BY <1>3, <1>4, <1>5 DEF HistoryNext

\* getRecentEntries changes nothing in the log: what is proved of the log holds of it
\* beside a reader too.
THEOREM HistoryIsLog == HistorySpec => Spec
<1>1. HistoryInit => Init
    BY DEF HistoryInit
<1> QED BY <1>1, HistoryStepIsLogStep, PTL DEF HistorySpec, Spec

LEMMA LogInvHolds ==
    Spec => [](TypeOK /\ StoreInv /\ OwnersWait /\ ChainInv /\ UndamagedLogVerifies)
BY TypeCorrect, StoreInvInit, StoreInvStep, WaitersInit, WaitersStep, ChainInvInit, ChainInvStep,
   UndamagedVerifies, PTL DEF Spec

LEMMA HistoryInvInit ==
    HistoryInit => PendingIsNew /\ ReaderIsComplete /\ FlushedIsIdle /\ HistoryAlarmIsReal
<1> SUFFICES ASSUME HistoryInit
             PROVE  PendingIsNew /\ ReaderIsComplete /\ FlushedIsIdle /\ HistoryAlarmIsReal
    OBVIOUS
<1>1. reader = NoReader /\ job = Idle /\ Acked = {} /\ 0 \in Segments
    BY AuditAssumption DEF HistoryInit, Init, Acked, Segments
<1>2. PendingIsNew
    BY <1>1 DEF PendingIsNew, Idle
<1>3. reader \in Readers
    BY <1>1, AuditAssumption DEF NoReader, Readers
<1> QED
    BY <1>1, <1>2, <1>3
       DEF NoReader, ReaderIsComplete, FlushedIsIdle, FlushSettled, HistoryAlarmIsReal

LEMMA ReaderIsCompleteStep ==
    /\ TypeOK /\ StoreInv /\ OwnersWait /\ PendingIsNew /\ ReaderIsComplete
    /\ HistoryNext \/ UNCHANGED allVars
    => ReaderIsComplete'
<1> SUFFICES ASSUME TypeOK, StoreInv, OwnersWait, PendingIsNew, ReaderIsComplete,
                    HistoryNext \/ UNCHANGED allVars
             PROVE  ReaderIsComplete'
    OBVIOUS
<1>1. CASE CallHistory \/ Resume \/ ReadSegment
    BY <1>1, ReadingKeepsReader
<1>2. CASE LogStep(Record) \/ LogStep(JobStep) \/ CrashWithReader \/ UNCHANGED allVars
    <2>1. [Next]_vars
        BY HistoryStepIsLogStep
    <2>2. reader' = reader \/ reader' = [reader EXCEPT !.phase = "rejected"]
        BY <1>2 DEF LogStep, CrashWithReader, allVars
    <2> QED BY <2>1, <2>2, LogStepKeepsReader
<1> QED BY <1>1, <1>2 DEF HistoryNext

LEMMA ReaderInvHolds ==
    HistorySpec => [](PendingIsNew /\ ReaderIsComplete /\ FlushedIsIdle /\ HistoryAlarmIsReal)
<1>1. /\ TypeOK /\ StoreInv /\ OwnersWait /\ ChainInv /\ UndamagedLogVerifies
      /\ PendingIsNew /\ ReaderIsComplete /\ FlushedIsIdle /\ HistoryAlarmIsReal
      /\ [HistoryNext]_allVars
      => PendingIsNew' /\ ReaderIsComplete' /\ FlushedIsIdle' /\ HistoryAlarmIsReal'
    BY HistoryStepIsLogStep, PendingIsNewStep, ReaderIsCompleteStep, FlushedIsIdleStep, AlarmIsRealStep
<1> QED BY <1>1, HistoryInvInit, HistoryIsLog, LogInvHolds, PTL DEF HistorySpec

\* A history that get_audit_history returns as verified holds every record that was
\* acknowledged before the call and is still in the files, whatever is written and
\* renamed under getRecentEntries, and whatever the number and size of the segments.
THEOREM HistoryComplete == HistorySpec => []HistoryMissesNothing
<1>1. ReaderIsComplete => HistoryMissesNothing
    BY DEF ReaderIsComplete, HistoryMissesNothing
<1> QED BY <1>1, ReaderInvHolds, PTL

\* getRecentEntries reports a broken chain only when something broke it: it verifies the
\* files after flush(), when no write job is running, and meets no torn line later.
THEOREM HistoryAlarmsAreReal == HistorySpec => []HistoryAlarmIsReal
<1> QED BY ReaderInvHolds, PTL
=============================================================================
