--------------------------- MODULE AuditLogProofs ---------------------------
(***************************************************************************)
(* Proofs about AuditLog for every size of the log, of its segments and of *)
(* the fault bounds.  First the types of the helpers, then one lemma for   *)
(* each action that does more than move a value, then the invariant.       *)
(***************************************************************************)
EXTENDS AuditLog, SequenceTheorems, TLAPS

LEMMA EmptyType == <<>> \in Seq(Line) /\ <<>> \in FileHash /\ <<>> \in Seq(Entries)
<1>1. <<>> \in Seq(Line)
    OBVIOUS
<1>2. <<>> \in Seq(Nat \X Ends)
    OBVIOUS
<1>3. <<>> \in Seq(Entries)
    OBVIOUS
<1> QED BY <1>1, <1>2, <1>3 DEF FileHash

LEMMA ShaType == ASSUME NEW file \in Seq(Line) PROVE Sha256(file) \in FileHash
<1>1. DOMAIN file = 1..Len(file) /\ Len(file) \in Nat
    OBVIOUS
<1>2. \A n \in 1..Len(file) : file[n] \in Line
    OBVIOUS
<1>3. \A n \in 1..Len(file) : <<file[n].id, file[n].end>> \in Nat \X Ends
    BY <1>2 DEF Line
<1> QED BY <1>1, <1>3 DEF Sha256, FileHash

LEMMA ExtendType ==
    ASSUME NEW file \in Seq(Line), NEW payload \in Seq(Line)
    PROVE  Extend(file, payload) \in Seq(Line)
<1>1. CASE file = <<>> \/ payload = <<>> \/ file[Len(file)].end = "ok"
    BY <1>1 DEF Extend
<1>2. CASE ~(file = <<>> \/ payload = <<>> \/ file[Len(file)].end = "ok")
    <2> DEFINE l == file[Len(file)]
               m == [l EXCEPT !.end = "torn"]
    <2>1. Len(file) \in 1..Len(file) /\ l \in Line
        BY <1>2
    <2>2. m \in Line
        BY <2>1 DEF Line, Ends
    <2>3. [file EXCEPT ![Len(file)].end = "torn"] = [file EXCEPT ![Len(file)] = m]
        OBVIOUS
    <2>4. [file EXCEPT ![Len(file)] = m] \in Seq(Line)
        BY <2>1, <2>2
    <2>5. Tail(payload) \in Seq(Line)
        BY <1>2
    <2> QED BY <1>2, <2>3, <2>4, <2>5 DEF Extend
<1> QED BY <1>1, <1>2

LEMMA PartialPayloadType ==
    ASSUME NEW payload \in Seq(Line), NEW part \in PartialPayloads(payload)
    PROVE  part \in Seq(Line)
<1>1. ASSUME NEW n \in 0..Len(payload) PROVE SubSeq(payload, 1, n) \in Seq(Line)
    OBVIOUS
<1>2. ASSUME NEW n \in DOMAIN payload, NEW e \in {"bare", "torn"}
      PROVE  WithCutLine(payload, n, e) \in Seq(Line)
    <2>1. n \in 1..Len(payload) /\ payload[n] \in Line
        OBVIOUS
    <2>2. [payload[n] EXCEPT !.end = e] \in Line
        BY <2>1 DEF Line, Ends
    <2>3. SubSeq(payload, 1, n - 1) \in Seq(Line)
        BY <2>1
    <2> QED BY <2>2, <2>3 DEF WithCutLine
<1> QED BY <1>1, <1>2 DEF PartialPayloads

LEMMA PartialType ==
    ASSUME NEW file \in Seq(Line), NEW payload \in Seq(Line),
           NEW f \in PartialAppends(file, payload)
    PROVE  f \in Seq(Line)
BY PartialPayloadType, ExtendType DEF PartialAppends

LEMMA TipType == ASSUME NEW lines \in Seq(Line) PROVE Tip(lines) \in ChainState
<1>1. CASE lines = <<>>
    BY <1>1 DEF Tip, Genesis, ChainState
<1>2. CASE lines # <<>>
    <2>1. lines[Len(lines)] \in Line
        BY <1>2
    <2> QED BY <1>2, <2>1 DEF Tip, Line, ChainState
<1> QED BY <1>1, <1>2

LEMMA CutShortType ==
    ASSUME NEW file \in Seq(Line)
    PROVE  CutShort(file) \subseteq {"bare", "torn"}
<1>1. file # <<>> => file[Len(file)] \in Line
    OBVIOUS
<1> QED BY <1>1 DEF CutShort, Line, Ends

LEMMA IdsType == ASSUME NEW file \in Seq(Line) PROVE Ids(file) \subseteq Nat
<1>1. \A n \in DOMAIN file : file[n] \in Line
    OBVIOUS
<1> QED BY <1>1 DEF Ids, Line

LEMMA NewLineType ==
    ASSUME TypeOK, NEW anchor \in FileHash
    PROVE  NewLine(anchor) \in Line
BY DEF TypeOK, NewLine, Line, ChainState, Ends

LEMMA SettleType ==
    ASSUME NEW n, NEW error, TypeOK, Settle(n, error)
    PROVE  status' \in [Entries -> Status]
BY DEF TypeOK, Settle, Outcome, Status

LEMMA IdleType == Idle \in WriteJob
BY AuditAssumption DEF Idle, Phases, WriteJob

LEMMA ShiftFromType ==
    ASSUME TypeOK, NEW index \in Int, index < MaxRotatedFiles
    PROVE  ShiftFrom(index) \in WriteJob
<1>1. CASE index >= 1
    <2>1. index \in 0..(MaxRotatedFiles - 1)
        BY <1>1, AuditAssumption
    <2> QED BY <1>1, <2>1 DEF TypeOK, ShiftFrom, Phases, WriteJob
<1>2. CASE ~(index >= 1)
    <2>1. 0 \in 0..(MaxRotatedFiles - 1)
        BY AuditAssumption
    <2> QED BY <1>2, <2>1 DEF TypeOK, ShiftFrom, Phases, WriteJob
<1> QED BY <1>1, <1>2

LEMMA RenameType ==
    ASSUME NEW d \in [Segments -> Seq(Line)], NEW from \in Segments, NEW to \in Segments
    PROVE  Rename(d, from, to) \in [Segments -> Seq(Line)]
BY DEF Rename

LEMMA ActiveSegment == ASSUME TypeOK PROVE 0 \in Segments /\ disk[0] \in Seq(Line)
BY AuditAssumption DEF TypeOK, Segments
-----------------------------------------------------------------------------
(* Every variable keeps its type: no rename leaves the range of segments,   *)
(* and a failed or torn append still leaves a sequence of lines.            *)
THEOREM TypeCorrect == Spec => []TypeOK
<1>1. Init => TypeOK
    <2> SUFFICES ASSUME Init PROVE TypeOK
        OBVIOUS
    <2>1. chain \in ChainState
        BY EmptyType, TipType DEF Init
    <2>2. disk \in [Segments -> Seq(Line)]
        BY EmptyType DEF Init
    <2>3. status \in [Entries -> Status]
        BY DEF Init, Status
    <2>4. faults \in 0..MaxFaults /\ crashes \in 0..MaxCrashes
        BY AuditAssumption DEF Init
    <2>5. writeBuffer \in Seq(Line) /\ tail \in Seq(Entries) /\ hashed \in FileHash
        BY EmptyType DEF Init
    <2>6. job \in WriteJob
        BY IdleType DEF Init
    <2>7. /\ startupError \in {"none", "corrupt", "write_failed"}
          /\ digested \in BOOLEAN
          /\ nextId \in Nat \ {0}
          /\ pruned \subseteq Nat
          /\ damage \subseteq {"raced", "io_error", "bare", "torn", "half_rotated"}
        <3>1. digested \in BOOLEAN
            BY Zenon DEF Init
        <3>2. startupError = "none" /\ nextId = 1 /\ pruned = {} /\ damage = {}
            BY Zenon DEF Init
        <3> QED BY <3>1, <3>2
    <2> QED BY <2>1, <2>2, <2>3, <2>4, <2>5, <2>6, <2>7 DEF TypeOK
<1>2. TypeOK /\ [Next]_vars => TypeOK'
    <2> SUFFICES ASSUME TypeOK, [Next]_vars PROVE TypeOK'
        OBVIOUS
    <2> USE AuditAssumption
    <2>1. ASSUME Record PROVE TypeOK'
        <3> DEFINE line == NewLine(<<>>)
        <3>6. <<>> \in FileHash
            BY EmptyType
        <3>7. line \in Line
            BY <3>6, NewLineType
        <3>8. line.id = nextId
            BY DEF NewLine
        <3>1. line \in Line /\ line.id = nextId
            BY <3>7, <3>8
        <3>2. <<line>> \in Seq(Line)
            BY <3>1
        <3>3. Tip(<<line>>) \in ChainState
            BY <3>2, TipType
        <3>4. Append(writeBuffer, line) \in Seq(Line)
            BY <3>1 DEF TypeOK
        <3>5. Append(tail, line.id) \in Seq(Entries)
            BY <2>1, <3>1 DEF TypeOK, Record
        <3> HIDE DEF line
        <3> QED BY <2>1, <3>3, <3>4, <3>5 DEF Record, TypeOK, Status, line
    <2>2. ASSUME RunEmpty PROVE TypeOK'
        <3>1. status' \in [Entries -> Status]
            BY <2>2, SettleType DEF RunEmpty
        <3> QED BY <2>2, <3>1 DEF RunEmpty, MayRun, TypeOK
    <2>3. ASSUME TakeBuffer PROVE TypeOK'
        <3>1. Head(tail) \in 0..LastEntry /\ Tail(tail) \in Seq(Entries)
            BY <2>3 DEF TakeBuffer, MayRun, TypeOK, Entries
        <3>2. /\ job'.phase = "append" /\ job'.owner = Head(tail)
              /\ job'.payload = writeBuffer /\ job'.index = 0
              /\ job' = [phase |-> job'.phase, owner |-> job'.owner,
                         payload |-> job'.payload, index |-> job'.index]
            BY <2>3 DEF TakeBuffer, Idle
        <3>6. 0 \in 0..(MaxRotatedFiles - 1) /\ writeBuffer \in Seq(Line)
            BY DEF TypeOK
        <3>7. job' \in WriteJob
            BY <3>1, <3>2, <3>6 DEF Phases, WriteJob
        <3>8. writeBuffer' \in Seq(Line)
            BY <2>3, EmptyType DEF TakeBuffer
        <3> QED BY <2>3, <3>1, <3>7, <3>8 DEF TakeBuffer, TypeOK
    <2>4. ASSUME AppendPayload PROVE TypeOK'
        <3>1. job.payload \in Seq(Line)
            BY DEF TypeOK, WriteJob
        <3>2. disk' \in [Segments -> Seq(Line)]
            BY <2>4, <3>1, ExtendType, ActiveSegment DEF AppendPayload, TypeOK
        <3>3. hashed' \in FileHash
            BY <2>4, <3>1, ShaType DEF AppendPayload, TypeOK, FileHash
        <3>4. status' \in [Entries -> Status]
            BY <2>4, SettleType DEF AppendPayload, JobDone, TypeOK
        <3>5. job' \in WriteJob
            BY <2>4, IdleType DEF AppendPayload, JobDone, TypeOK, Phases, WriteJob
        <3> QED BY <2>4, <3>2, <3>3, <3>4, <3>5 DEF AppendPayload, JobDone, TypeOK
    <2>5. ASSUME PruneOldest PROVE TypeOK'
        <3>1. /\ HighestShift \in Int /\ HighestShift < MaxRotatedFiles
              /\ PrunedSegment \in Segments
            BY DEF HighestShift, PrunedSegment, Segments
        <3>2. disk[PrunedSegment] \in Seq(Line)
            BY <3>1 DEF TypeOK
        <3>3. Ids(disk[PrunedSegment]) \subseteq Nat
            BY <3>2, IdsType
        <3>4. job' \in WriteJob
            BY <2>5, <3>1, ShiftFromType DEF PruneOldest
        <3>5. disk' \in [Segments -> Seq(Line)]
            BY <2>5, <3>1, EmptyType DEF PruneOldest, TypeOK
        <3> QED BY <2>5, <3>3, <3>4, <3>5 DEF PruneOldest, TypeOK
    <2>6. ASSUME ShiftSegment PROVE TypeOK'
        <3>1. job.index \in 0..(MaxRotatedFiles - 1)
            BY DEF TypeOK, WriteJob
        <3>2. job.index - 1 \in Int /\ job.index - 1 < MaxRotatedFiles
            BY <3>1
        <3>3. job' \in WriteJob
            BY <2>6, <3>2, ShiftFromType DEF ShiftSegment
        <3>4. job.index \in Segments /\ job.index + 1 \in Segments
            BY <3>1 DEF Segments
        <3>5. disk' \in [Segments -> Seq(Line)]
            BY <2>6, <3>4, RenameType DEF ShiftSegment, TypeOK
        <3> QED BY <2>6, <3>3, <3>5 DEF ShiftSegment, TypeOK
    <2>7. ASSUME SealSegment PROVE TypeOK'
        <3> DEFINE line == NewLine(hashed)
        <3>1. line \in Line
            BY NewLineType DEF TypeOK
        <3>2. <<line>> \in Seq(Line)
            BY <3>1
        <3>3. Tip(<<line>>) \in ChainState
            BY <3>2, TipType
        <3> HIDE DEF line
        <3>4. job' = [job EXCEPT !.phase = "anchor", !.payload = <<line>>]
            BY <2>7 DEF SealSegment, line
        <3>5. job' \in WriteJob
            BY <3>2, <3>4 DEF TypeOK, Phases, WriteJob
        <3>6. 1 \in Segments
            BY DEF Segments
        <3>7. disk' \in [Segments -> Seq(Line)]
            BY <2>7, <3>6, RenameType, ActiveSegment DEF SealSegment, TypeOK
        <3> QED BY <2>7, <3>3, <3>5, <3>7 DEF SealSegment, TypeOK, line
    <2>8. ASSUME AppendAnchor PROVE TypeOK'
        <3>1. job.payload \in Seq(Line)
            BY DEF TypeOK, WriteJob
        <3>2. HashOfNewSegment(job.payload) \in FileHash
            BY <3>1, ShaType DEF HashOfNewSegment
        <3>3. disk' \in [Segments -> Seq(Line)]
            BY <2>8, <3>1, ExtendType, ActiveSegment DEF AppendAnchor, TypeOK
        <3>4. status' \in [Entries -> Status]
            BY <2>8, SettleType DEF AppendAnchor, JobDone
        <3> QED BY <2>8, <3>2, <3>3, <3>4, IdleType DEF AppendAnchor, JobDone, TypeOK
    <2>9. ASSUME FileOperationFails PROVE TypeOK'
        <3>1. job.payload \in Seq(Line)
            BY DEF TypeOK, WriteJob
        <3>2. disk' \in [Segments -> Seq(Line)]
            <4>1. CASE job.phase \in {"append", "anchor"}
                <5>1. PICK file \in PartialAppends(disk[0], job.payload) :
                          disk' = [disk EXCEPT ![0] = file]
                    BY <2>9, <4>1 DEF FileOperationFails
                <5>2. file \in Seq(Line)
                    BY <3>1, <5>1, PartialType, ActiveSegment
                <5> QED BY <5>1, <5>2 DEF TypeOK
            <4>2. CASE job.phase \notin {"append", "anchor"}
                BY <2>9, <4>2 DEF FileOperationFails, TypeOK
            <4> QED BY <4>1, <4>2
        <3>3. CutShort(disk'[0]) \subseteq {"bare", "torn"}
            BY <3>2, CutShortType, ActiveSegment
        <3>4. status' \in [Entries -> Status]
            BY <2>9, SettleType DEF FileOperationFails, JobDone
        <3>5. damage' \subseteq {"raced", "io_error", "bare", "torn", "half_rotated"}
            BY <2>9, <3>3 DEF FileOperationFails, TypeOK
        <3>6. faults' \in 0..MaxFaults
            BY <2>9 DEF FileOperationFails, TypeOK
        <3>7. job' = Idle /\ startupError' = "write_failed"
            BY <2>9 DEF FileOperationFails, JobDone
        <3> QED BY <2>9, <3>2, <3>4, <3>5, <3>6, <3>7, IdleType DEF FileOperationFails, TypeOK
    <2>10. ASSUME CrashAndRestart PROVE TypeOK'
        <3>1. PICK file \in IF job.phase \in {"append", "anchor"}
                            THEN PartialAppends(disk[0], job.payload)
                            ELSE {disk[0]} :
                  /\ disk' = [disk EXCEPT ![0] = file]
                  /\ damage' = damage
                        \cup CutShort(file)
                        \cup (IF job.phase \in {"shift", "seal", "anchor"} THEN {"half_rotated"} ELSE {})
            BY <2>10 DEF CrashAndRestart
        <3>2. job.payload \in Seq(Line)
            BY DEF TypeOK, WriteJob
        <3>3. file \in Seq(Line)
            BY <3>1, <3>2, PartialType, ActiveSegment
        <3>4. disk' \in [Segments -> Seq(Line)] /\ disk'[0] = file
            BY <3>1, <3>3, ActiveSegment DEF TypeOK
        <3>5. damage' \subseteq {"raced", "io_error", "bare", "torn", "half_rotated"}
            BY <3>1, <3>3, CutShortType DEF TypeOK
        <3>6. /\ startupError' \in {"none", "corrupt", "write_failed"}
              /\ chain' \in ChainState
              /\ hashed' \in FileHash
            <4>1. Tip(disk'[0]) \in ChainState /\ Tip(<<>>) \in ChainState
                BY <3>3, <3>4, TipType, EmptyType
            <4>2. Sha256(disk'[0]) \in FileHash /\ <<>> \in FileHash
                BY <3>3, <3>4, ShaType, EmptyType
            <4> QED BY <2>10, <4>1, <4>2 DEF CrashAndRestart, Recover
        <3>7. status' \in [Entries -> Status]
            BY <2>10 DEF CrashAndRestart, TypeOK, Status
        <3>8. writeBuffer' \in Seq(Line) /\ tail' \in Seq(Entries)
            BY <2>10, EmptyType DEF CrashAndRestart
        <3>9. crashes' \in 0..MaxCrashes
            BY <2>10 DEF CrashAndRestart, TypeOK
        <3>10. job' \in WriteJob /\ digested' \in BOOLEAN
            BY <2>10, IdleType DEF CrashAndRestart
        <3> QED BY <2>10, <3>4, <3>5, <3>6, <3>7, <3>8, <3>9, <3>10 DEF CrashAndRestart, TypeOK
    <2>11. CASE UNCHANGED vars
        BY <2>11 DEF vars, procVars, TypeOK
    <2> QED
        BY <2>1, <2>2, <2>3, <2>4, <2>5, <2>6, <2>7, <2>8, <2>9, <2>10, <2>11 DEF Next, JobStep
<1> QED BY <1>1, <1>2, PTL DEF Spec
-----------------------------------------------------------------------------
\* A process that found the files corrupt has nothing to write.
NothingToWrite ==
    startupError = "corrupt" => job.phase = "idle" /\ tail = <<>> /\ writeBuffer = <<>>

LEMMA NothingToWriteInit == Init => NothingToWrite
BY DEF Init, NothingToWrite

LEMMA NothingToWriteStep == TypeOK /\ NothingToWrite /\ [Next]_vars => NothingToWrite'
<1> SUFFICES ASSUME TypeOK, NothingToWrite, [Next]_vars PROVE NothingToWrite'
    OBVIOUS
<1>1. CASE Record
    BY <1>1 DEF Record, RecordAllowed, NothingToWrite
<1>2. CASE RunEmpty \/ TakeBuffer
    BY <1>2 DEF RunEmpty, TakeBuffer, MayRun, NothingToWrite
<1>3. CASE AppendPayload \/ PruneOldest \/ ShiftSegment \/ SealSegment \/ AppendAnchor \/ FileOperationFails
    <2>1. startupError # "corrupt"
        BY <1>3 DEF AppendPayload, PruneOldest, ShiftSegment, SealSegment, AppendAnchor,
                    FileOperationFails, NothingToWrite
    <2>2. startupError' \in {startupError, "write_failed"}
        BY <1>3 DEF AppendPayload, PruneOldest, ShiftSegment, SealSegment, AppendAnchor,
                    FileOperationFails, JobDone
    <2> QED BY <2>1, <2>2 DEF NothingToWrite
<1>4. CASE CrashAndRestart
    BY <1>4 DEF CrashAndRestart, NothingToWrite, Idle
<1>5. CASE UNCHANGED vars
    BY <1>5 DEF vars, procVars, NothingToWrite
<1> QED BY <1>1, <1>2, <1>3, <1>4, <1>5 DEF Next, JobStep

\* The files of a log that was found corrupt stay as they were found (the `corrupt` of
\* src/src/audit/audit-log.ts): record() refuses, no write job is left from before, and
\* a restart finds them corrupt again or leaves them alone as well.
THEOREM CorruptLogFrozen == Spec => CorruptLogIsFrozen
<1>1. TypeOK /\ NothingToWrite /\ [Next]_vars => [startupError = "corrupt" => disk' = disk]_vars
    <2> SUFFICES ASSUME TypeOK, NothingToWrite, [Next]_vars, startupError = "corrupt"
                 PROVE  disk' = disk
        OBVIOUS
    <2>1. job.phase = "idle" /\ tail = <<>>
        BY DEF NothingToWrite
    <2>2. CASE CrashAndRestart
        <3>1. disk' = [disk EXCEPT ![0] = disk[0]]
            BY <2>1, <2>2 DEF CrashAndRestart
        <3> QED BY <3>1 DEF TypeOK
    <2>3. CASE UNCHANGED vars
        BY <2>3 DEF vars
    <2>4. CASE Record \/ JobStep
        BY <2>1, <2>4 DEF Record, JobStep, RunEmpty, TakeBuffer, AppendPayload, PruneOldest,
                          ShiftSegment, SealSegment, AppendAnchor, FileOperationFails, MayRun
    <2> QED BY <2>2, <2>3, <2>4 DEF Next
<1> QED BY <1>1, TypeCorrect, NothingToWriteInit, NothingToWriteStep, PTL DEF Spec, CorruptLogIsFrozen
-----------------------------------------------------------------------------
(* recordCritical and its promise: the owners of the write jobs are callers *)
(* that wait, each of one job.                                              *)

OwnersWait ==
    /\ \A k \in DOMAIN tail : status[tail[k]] = "waiting"
    /\ \A k, l \in DOMAIN tail : tail[k] = tail[l] => k = l
    /\ job.phase # "idle" =>
           /\ job.owner \in Entries /\ status[job.owner] = "waiting"
           /\ \A k \in DOMAIN tail : tail[k] # job.owner
    /\ \A n \in Entries : n >= nextId => status[n] = "none"

\* The callers whose record is not settled, as the refinement mapping has them.
Waiters == (IF job.phase = "idle" THEN <<>> ELSE <<job.owner>>) \o tail

\* The owner of the running job is settled, and the job is over.
LEMMA JobDoneSettlesOldest ==
    ASSUME TypeOK, OwnersWait, job.phase # "idle", NEW error, JobDone(error),
           error \in {startupError, "write_failed"}, UNCHANGED <<tail, nextId>>
    PROVE  OwnersWait' /\ Promise!SettleOldest
<1>1. /\ job' = Idle /\ startupError' = error
      /\ status' = [status EXCEPT ![job.owner] = Outcome(error)]
      /\ job.owner \in Entries /\ status[job.owner] = "waiting"
    BY DEF JobDone, Settle, OwnersWait
<1>2. OwnersWait'
    <2>1. \A k \in DOMAIN tail' : status'[tail'[k]] = "waiting"
        BY <1>1 DEF OwnersWait, TypeOK
    <2>2. \A n \in Entries : n >= nextId' => status'[n] = "none"
        BY <1>1 DEF OwnersWait, TypeOK
    <2>3. Entries' = Entries /\ job'.phase = "idle"
        BY <1>1 DEF Entries, Idle
    <2> QED BY <2>1, <2>2, <2>3 DEF OwnersWait
<1>3. Promise!SettleOldest
    <2>1. Waiters = <<job.owner>> \o tail /\ Waiters' = <<>> \o tail
        BY <1>1 DEF Waiters, Idle
    <2>2. Waiters # <<>> /\ Head(Waiters) = job.owner /\ Waiters' = Tail(Waiters)
        <3>1. tail \in Seq(Entries) /\ job.owner \in Entries
            BY <1>1 DEF TypeOK
        <3> QED BY <2>1, <3>1
    <2>3. Outcome(error) = IF startupError' # "none" THEN "failed" ELSE "acked"
        BY <1>1 DEF Outcome
    <2>4. (startupError # "none")' \in {startupError # "none", TRUE}
        BY <1>1
    <2> QED BY <1>1, <2>2, <2>3, <2>4 DEF Promise!SettleOldest, Waiters
<1> QED BY <1>2, <1>3

LEMMA RecordIsRequest ==
    ASSUME TypeOK, OwnersWait, Record
    PROVE  OwnersWait' /\ Promise!Request(nextId)
<1>1. /\ nextId \in Entries /\ startupError = "none" /\ startupError' = "none"
      /\ tail' = Append(tail, nextId)
      /\ status' = [status EXCEPT ![nextId] = "waiting"]
      /\ nextId' = nextId + 1 /\ job' = job
    BY DEF Record, RecordAllowed, NewLine
<1>2. status[nextId] = "none" /\ nextId \in Nat
    BY <1>1 DEF OwnersWait, TypeOK
<1>3. /\ tail \in Seq(Entries) /\ status \in [Entries -> Status]
      /\ \A k \in DOMAIN tail : tail[k] # nextId
    BY <1>2 DEF OwnersWait, TypeOK
<1>4. \A k \in DOMAIN tail' : (k \in DOMAIN tail /\ tail'[k] = tail[k])
                              \/ (k = Len(tail) + 1 /\ tail'[k] = nextId)
    BY <1>1, <1>3
<1>5. OwnersWait'
    <2>1. \A k \in DOMAIN tail' : status'[tail'[k]] = "waiting"
        BY <1>1, <1>3, <1>4 DEF OwnersWait
    <2>2. \A k, l \in DOMAIN tail' : tail'[k] = tail'[l] => k = l
        BY <1>3, <1>4 DEF OwnersWait
    <2>3. job'.phase # "idle" =>
              /\ job'.owner \in Entries /\ status'[job'.owner] = "waiting"
              /\ \A k \in DOMAIN tail' : tail'[k] # job'.owner
        BY <1>1, <1>2, <1>3, <1>4 DEF OwnersWait
    <2>4. \A n \in Entries : n >= nextId' => status'[n] = "none"
        BY <1>1, <1>2, <1>3 DEF OwnersWait, Entries
    <2> QED BY <2>1, <2>2, <2>3, <2>4 DEF OwnersWait, Entries
<1>6. Promise!Request(nextId)
    <2>1. Waiters' = Append(Waiters, nextId)
        <3>1. CASE job.phase = "idle"
            BY <1>1, <1>3, <3>1 DEF Waiters
        <3>2. CASE job.phase # "idle"
            <4>1. job.owner \in Entries
                BY <3>2 DEF OwnersWait
            <4>2. <<job.owner>> \o Append(tail, nextId) = Append(<<job.owner>> \o tail, nextId)
                BY <1>1, <1>3, <4>1
            <4> QED BY <1>1, <3>2, <4>2 DEF Waiters
        <3> QED BY <3>1, <3>2
    <2> QED BY <1>1, <1>2, <2>1 DEF Promise!Request, Waiters
<1> QED BY <1>5, <1>6

LEMMA RunEmptySettlesOldest ==
    ASSUME TypeOK, OwnersWait, RunEmpty
    PROVE  OwnersWait' /\ Promise!SettleOldest
<1>1. /\ job.phase = "idle" /\ tail # <<>> /\ tail' = Tail(tail)
      /\ Settle(Head(tail), startupError)
      /\ UNCHANGED <<startupError, job, nextId>>
    BY DEF RunEmpty, MayRun
<1>2. /\ tail \in Seq(Entries) /\ status \in [Entries -> Status]
      /\ Head(tail) = tail[1] /\ 1 \in DOMAIN tail /\ tail[1] \in Entries
      /\ \A k \in DOMAIN tail' : k + 1 \in DOMAIN tail /\ tail'[k] = tail[k + 1] /\ k + 1 # 1 /\ k \in Nat
    BY <1>1 DEF TypeOK
<1>3. status' = [status EXCEPT ![Head(tail)] = Outcome(startupError)]
    BY <1>1, <1>2 DEF Settle, OwnersWait
<1>4. OwnersWait'
    <2>1. \A k \in DOMAIN tail' : status'[tail'[k]] = "waiting"
        <3> SUFFICES ASSUME NEW k \in DOMAIN tail' PROVE status'[tail'[k]] = "waiting"
            OBVIOUS
        <3>1. tail[k + 1] # tail[1] /\ status[tail[k + 1]] = "waiting" /\ tail[k + 1] \in Entries
            BY <1>2 DEF OwnersWait
        <3> QED BY <1>2, <1>3, <3>1
    <2>2. \A k, l \in DOMAIN tail' : tail'[k] = tail'[l] => k = l
        <3> SUFFICES ASSUME NEW k \in DOMAIN tail', NEW l \in DOMAIN tail', tail'[k] = tail'[l]
                     PROVE  k = l
            OBVIOUS
        <3>1. k + 1 = l + 1
            BY <1>2 DEF OwnersWait
        <3> QED BY <1>2, <3>1
    <2>3. \A n \in Entries : n >= nextId' => status'[n] = "none"
        BY <1>1, <1>2, <1>3 DEF OwnersWait
    <2> QED BY <1>1, <2>1, <2>2, <2>3 DEF OwnersWait, Entries
<1>5. Promise!SettleOldest
    <2>1. Waiters = tail /\ Waiters' = tail'
        BY <1>1, <1>2 DEF Waiters
    <2> QED BY <1>1, <1>3, <2>1 DEF Promise!SettleOldest, Waiters, Outcome
<1> QED BY <1>4, <1>5

LEMMA TakeBufferKeepsWaiters ==
    ASSUME TypeOK, OwnersWait, TakeBuffer
    PROVE  OwnersWait' /\ UNCHANGED Promise!auditVars
<1>1. /\ job.phase = "idle" /\ tail # <<>> /\ tail' = Tail(tail)
      /\ job'.phase = "append" /\ job'.owner = Head(tail)
      /\ UNCHANGED <<startupError, status, nextId>>
    BY DEF TakeBuffer, MayRun, Idle
<1>2. /\ tail \in Seq(Entries)
      /\ Head(tail) = tail[1] /\ 1 \in DOMAIN tail /\ tail[1] \in Entries
      /\ \A k \in DOMAIN tail' : k + 1 \in DOMAIN tail /\ tail'[k] = tail[k + 1] /\ k + 1 # 1 /\ k \in Nat
    BY <1>1 DEF TypeOK
<1>3. OwnersWait'
    <2>1. \A k \in DOMAIN tail' : status'[tail'[k]] = "waiting" /\ tail'[k] # job'.owner
        BY <1>1, <1>2 DEF OwnersWait
    <2>2. \A k, l \in DOMAIN tail' : tail'[k] = tail'[l] => k = l
        <3> SUFFICES ASSUME NEW k \in DOMAIN tail', NEW l \in DOMAIN tail', tail'[k] = tail'[l]
                     PROVE  k = l
            OBVIOUS
        <3>1. k + 1 = l + 1
            BY <1>2 DEF OwnersWait
        <3> QED BY <1>2, <3>1
    <2>3. job'.owner \in Entries /\ status'[job'.owner] = "waiting"
        BY <1>1, <1>2 DEF OwnersWait
    <2> QED BY <1>1, <2>1, <2>2, <2>3 DEF OwnersWait, Entries
<1>4. Waiters' = Waiters
    <2>1. Waiters = tail /\ Waiters' = <<Head(tail)>> \o Tail(tail)
        BY <1>1, <1>2 DEF Waiters
    <2> QED BY <1>1, <1>2, <2>1
<1> QED BY <1>1, <1>3, <1>4 DEF Promise!auditVars, Waiters

\* The steps of a rotation.
LEMMA RotationKeepsWaiters ==
    ASSUME TypeOK, OwnersWait, job.phase # "idle", job'.phase # "idle", job'.owner = job.owner,
           UNCHANGED <<startupError, tail, status>>, nextId' \in {nextId, nextId + 1}
    PROVE  OwnersWait' /\ UNCHANGED Promise!auditVars
<1>1. OwnersWait'
    BY DEF OwnersWait, Entries, TypeOK
<1> QED BY <1>1 DEF Promise!auditVars

LEMMA AppendPayloadKeepsPromise ==
    ASSUME TypeOK, OwnersWait, AppendPayload
    PROVE  OwnersWait' /\ (Promise!SettleOldest \/ UNCHANGED Promise!auditVars)
<1>1. job.phase = "append" /\ UNCHANGED <<tail, nextId>>
    BY DEF AppendPayload
<1>2. \/ \E error \in {startupError, "write_failed"} : JobDone(error)
      \/ job' = [job EXCEPT !.phase = "prune"] /\ UNCHANGED <<startupError, status>>
    BY DEF AppendPayload
<1>3. ASSUME NEW error \in {startupError, "write_failed"}, JobDone(error)
      PROVE  OwnersWait' /\ Promise!SettleOldest
    BY <1>1, <1>3, JobDoneSettlesOldest
<1>4. ASSUME job' = [job EXCEPT !.phase = "prune"], UNCHANGED <<startupError, status>>
      PROVE  OwnersWait' /\ UNCHANGED Promise!auditVars
    <2>1. job'.phase = "prune" /\ job'.owner = job.owner
        BY <1>4 DEF TypeOK, WriteJob
    <2> QED BY <1>1, <1>4, <2>1, RotationKeepsWaiters
<1> QED BY <1>2, <1>3, <1>4

LEMMA CrashIsCrashAudit ==
    ASSUME TypeOK, OwnersWait, CrashAndRestart
    PROVE  OwnersWait' /\ Promise!CrashAudit
<1>1. /\ tail' = <<>> /\ job'.phase = "idle" /\ nextId' = nextId
      /\ status' = [n \in Entries |-> IF status[n] = "waiting" THEN "crashed" ELSE status[n]]
    BY DEF CrashAndRestart, Idle
<1>2. OwnersWait'
    BY <1>1 DEF OwnersWait, Entries
<1>3. Waiters' = <<>>
    BY <1>1 DEF Waiters
<1> QED BY <1>1, <1>2, <1>3 DEF Promise!CrashAudit, Waiters

LEMMA RotationStepKeepsPromise ==
    ASSUME TypeOK, OwnersWait, PruneOldest \/ ShiftSegment \/ SealSegment
    PROVE  OwnersWait' /\ UNCHANGED Promise!auditVars
<1>1. job \in WriteJob
    BY DEF TypeOK
<1>2. /\ job.phase # "idle"
      /\ UNCHANGED <<startupError, tail, status>> /\ nextId' \in {nextId, nextId + 1}
    BY DEF PruneOldest, ShiftSegment, SealSegment
<1>3. job'.phase # "idle" /\ job'.owner = job.owner
    <2>1. \A index : ShiftFrom(index).phase # "idle" /\ ShiftFrom(index).owner = job.owner
        BY <1>1 DEF ShiftFrom, WriteJob
    <2>2. CASE PruneOldest \/ ShiftSegment
        BY <2>1, <2>2 DEF PruneOldest, ShiftSegment
    <2>3. CASE SealSegment
        BY <1>1, <2>3 DEF SealSegment, WriteJob
    <2> QED BY <2>2, <2>3
<1> QED BY <1>2, <1>3, RotationKeepsWaiters

LEMMA WaitersInit == Init => OwnersWait /\ Promise!AuditInit
<1> SUFFICES ASSUME Init PROVE OwnersWait /\ Promise!AuditInit
    OBVIOUS
<1>1. /\ tail = <<>> /\ job.phase = "idle" /\ startupError = "none"
      /\ status = [n \in Entries |-> "none"]
    BY DEF Init, Idle
<1>2. OwnersWait
    BY <1>1 DEF OwnersWait
<1>3. Waiters = <<>>
    BY <1>1 DEF Waiters
<1> QED BY <1>1, <1>2, <1>3 DEF Promise!AuditInit, Waiters

LEMMA WaitersStep ==
    TypeOK /\ OwnersWait /\ [Next]_vars => OwnersWait' /\ [Promise!AuditNext]_(Promise!auditVars)
<1> SUFFICES ASSUME TypeOK, OwnersWait, [Next]_vars
             PROVE  OwnersWait' /\ [Promise!AuditNext]_(Promise!auditVars)
    OBVIOUS
<1>1. CASE Record
    <2>1. OwnersWait' /\ Promise!Request(nextId) /\ nextId \in Entries
        BY <1>1, RecordIsRequest DEF Record
    <2> QED BY <2>1 DEF Promise!AuditNext
<1>2. CASE RunEmpty
    BY <1>2, RunEmptySettlesOldest DEF Promise!AuditNext, Promise!AuditStep
<1>3. CASE TakeBuffer
    BY <1>3, TakeBufferKeepsWaiters
<1>4. CASE AppendPayload
    BY <1>4, AppendPayloadKeepsPromise DEF Promise!AuditNext, Promise!AuditStep
<1>5. CASE PruneOldest \/ ShiftSegment \/ SealSegment
    BY <1>5, RotationStepKeepsPromise
<1>6. CASE AppendAnchor
    <2>1. /\ job.phase # "idle" /\ JobDone(startupError) /\ UNCHANGED <<tail, nextId>>
        BY <1>6 DEF AppendAnchor
    <2>2. OwnersWait' /\ Promise!SettleOldest
        BY <2>1, JobDoneSettlesOldest
    <2> QED BY <2>2 DEF Promise!AuditNext, Promise!AuditStep
<1>7. CASE FileOperationFails
    <2>1. /\ job.phase # "idle" /\ JobDone("write_failed") /\ UNCHANGED <<tail, nextId>>
        BY <1>7 DEF FileOperationFails
    <2>2. OwnersWait' /\ Promise!SettleOldest
        BY <2>1, JobDoneSettlesOldest
    <2> QED BY <2>2 DEF Promise!AuditNext, Promise!AuditStep
<1>8. CASE CrashAndRestart
    BY <1>8, CrashIsCrashAudit DEF Promise!AuditNext
<1>9. CASE UNCHANGED vars
    BY <1>9 DEF vars, procVars, OwnersWait, Entries, Promise!auditVars
<1> QED BY <1>1, <1>2, <1>3, <1>4, <1>5, <1>6, <1>7, <1>8, <1>9 DEF Next, JobStep

\* The log implements the promise of recordCritical: its callers are settled in the
\* order of their records, and once one was told that a write failed none is told that
\* a record was kept, for every number of failures and crashes.
THEOREM AuditImplementsPromise == Spec => KeepsItsPromise
<1> QED BY TypeCorrect, WaitersInit, WaitersStep, PTL DEF Spec, KeepsItsPromise, Promise!AuditSpec
-----------------------------------------------------------------------------
(* The chain.  The lines of the active segment, of the job that appends to  *)
(* it and of the buffer are one chain whose tip is in memory, and each      *)
(* rotated segment is followed by the next newer one that is not missing.   *)

Whole(lines) == \A n \in DOMAIN lines : lines[n].end = "ok"

Linked(lines) ==
    /\ Whole(lines)
    /\ \A m, n \in DOMAIN lines : n = m + 1 => LinkedTo(Tip(<<lines[m]>>), lines[n])

OnTheWay == IF job.phase \in {"append", "anchor"} THEN job.payload ELSE <<>>

ActiveLines == (disk[0] \o OnTheWay) \o writeBuffer

Rotated == Segments \ {0}

Follows(newer, older) ==
    /\ newer # <<>>
    /\ LinkedTo(Tip(older), newer[1])
    /\ newer[1].previousFileSha256 = Sha256(older)

\* The segment behind path.i, when the one with the number `hole` is free.
Behind(i, hole) == IF i = hole + 1 THEN hole - 1 ELSE i - 1

Chained(hole, d) == \A i \in Rotated : i # hole /\ d[i] # <<>> => Follows(d[Behind(i, hole)], d[i])

NoHole == MaxRotatedFiles + 1

\* A log without a rotated segment begins at genesis.
FromGenesis(older, lines) == older = <<>> /\ lines # <<>> => LinkedTo(Tip(<<>>), lines[1])

FilesChained ==
    /\ \A i \in Rotated : Linked(disk[i])
    /\ job.phase \in {"shift", "seal"} =>
           /\ disk[job.index + 1] = <<>> /\ Chained(job.index + 1, disk)
           /\ job.phase = "shift" <=> job.index >= 1
    /\ job.phase \in {"idle", "append", "prune"} =>
           Chained(NoHole, disk) /\ FromGenesis(disk[1], ActiveLines)
    /\ job.phase = "anchor" =>
           /\ disk[0] = <<>> /\ disk[1] # <<>>
           /\ Chained(NoHole, [disk EXCEPT ![0] = job.payload])

MemoryAgrees ==
    /\ startupError = "none"
    /\ Linked(ActiveLines) /\ chain = Tip(ActiveLines)
    /\ job.phase # "anchor" => hashed = Sha256(disk[0])
    /\ job.phase \in {"prune", "shift", "seal"} => disk[0] # <<>>
    /\ digested <=> job.phase \in {"prune", "shift", "seal", "anchor"}

ChainInv == damage = {} => MemoryAgrees /\ FilesChained

LEMMA LinkedConcat ==
    ASSUME NEW A \in Seq(Line), NEW B \in Seq(Line)
    PROVE  Linked(A \o B) <=> /\ Linked(A) /\ Linked(B)
                              /\ A # <<>> /\ B # <<>> => LinkedTo(Tip(A), B[1])
<1> DEFINE C == A \o B
<1>1. /\ DOMAIN C = 1..(Len(A) + Len(B)) /\ Len(A) \in Nat /\ Len(B) \in Nat
      /\ DOMAIN A = 1..Len(A) /\ DOMAIN B = 1..Len(B)
      /\ A # <<>> <=> Len(A) # 0
      /\ B # <<>> <=> Len(B) # 0
    OBVIOUS
<1>2. /\ \A n \in DOMAIN A : n \in DOMAIN C /\ C[n] = A[n]
      /\ \A n \in DOMAIN B : Len(A) + n \in DOMAIN C /\ C[Len(A) + n] = B[n]
      /\ \A n \in DOMAIN C : n \in DOMAIN A \/ \E k \in DOMAIN B : n = Len(A) + k
    <2>1. \A n \in DOMAIN C : n \notin DOMAIN A => n - Len(A) \in DOMAIN B /\ n = Len(A) + (n - Len(A))
        BY <1>1
    <2> QED BY <1>1, <2>1
<1>3. A # <<>> => Tip(A) = Tip(<<A[Len(A)]>>)
    BY DEF Tip
<1> HIDE DEF C
<1>4. Whole(C) <=> Whole(A) /\ Whole(B)
    BY <1>2 DEF Whole
<1>5. ASSUME Linked(C) PROVE Linked(A)
    BY <1>2, <1>4, <1>5 DEF Linked
<1>6. ASSUME Linked(C) PROVE Linked(B)
    <2> SUFFICES ASSUME NEW m \in DOMAIN B, NEW n \in DOMAIN B, n = m + 1
                 PROVE  LinkedTo(Tip(<<B[m]>>), B[n])
        BY <1>4, <1>6 DEF Linked
    <2>1. PICK p \in DOMAIN C : p = Len(A) + m /\ C[p] = B[m]
        BY <1>2
    <2>2. PICK q \in DOMAIN C : q = Len(A) + n /\ C[q] = B[n]
        BY <1>2
    <2>3. q = p + 1
        BY <1>1, <2>1, <2>2
    <2> QED BY <1>6, <2>1, <2>2, <2>3 DEF Linked
<1>7. ASSUME Linked(C), A # <<>>, B # <<>> PROVE LinkedTo(Tip(A), B[1])
    <2>1. PICK p \in DOMAIN C : p = Len(A) /\ C[p] = A[Len(A)]
        BY <1>1, <1>2, <1>7
    <2>2. PICK q \in DOMAIN C : q = Len(A) + 1 /\ C[q] = B[1]
        BY <1>1, <1>2, <1>7
    <2> QED BY <1>3, <1>7, <2>1, <2>2 DEF Linked
<1>8. ASSUME Linked(A), Linked(B), A # <<>> /\ B # <<>> => LinkedTo(Tip(A), B[1])
      PROVE  Linked(C)
    <2> SUFFICES ASSUME NEW m \in DOMAIN C, NEW n \in DOMAIN C, n = m + 1
                 PROVE  LinkedTo(Tip(<<C[m]>>), C[n])
        BY <1>4, <1>8 DEF Linked
    <2>1. CASE n \in DOMAIN A
        <3>1. m \in DOMAIN A
            BY <1>1, <2>1
        <3> QED BY <1>2, <1>8, <2>1, <3>1 DEF Linked
    <2>2. CASE n = Len(A) + 1 /\ n \notin DOMAIN A
        <3>1. 1 \in DOMAIN B /\ C[n] = B[1] /\ B # <<>>
            BY <1>1, <1>2, <2>2
        <3>2. m = Len(A) /\ m \in DOMAIN A /\ C[m] = A[Len(A)] /\ A # <<>>
            BY <1>1, <1>2, <2>2
        <3> QED BY <1>3, <1>8, <3>1, <3>2
    <2>3. CASE n # Len(A) + 1 /\ n \notin DOMAIN A
        <3>1. PICK k \in DOMAIN B : n = Len(A) + k
            BY <1>2, <2>3
        <3>2. PICK l \in DOMAIN B : l + 1 = k
            <4>1. k \in 1..Len(B) /\ k # 1
                BY <1>1, <2>3, <3>1
            <4>2. k - 1 \in 1..Len(B) /\ (k - 1) + 1 = k
                BY <1>1, <4>1
            <4> QED BY <1>1, <4>2
        <3>3. m = Len(A) + l
            BY <1>1, <3>1, <3>2
        <3>4. C[m] = B[l] /\ C[n] = B[k]
            BY <1>2, <3>1, <3>3
        <3> QED BY <1>8, <3>2, <3>4 DEF Linked
    <2> QED BY <2>1, <2>2, <2>3
<1> QED BY <1>5, <1>6, <1>7, <1>8 DEF C

LEMMA TipConcat ==
    ASSUME NEW A \in Seq(Line), NEW B \in Seq(Line)
    PROVE  Tip(A \o B) = IF B = <<>> THEN Tip(A) ELSE Tip(B)
<1>1. CASE B = <<>>
    <2>1. A \o B = A
        BY <1>1
    <2> QED BY <1>1, <2>1
<1>2. CASE B # <<>>
    <2>1. Len(B) \in DOMAIN B /\ Len(A \o B) = Len(A) + Len(B)
        BY <1>2
    <2>2. (A \o B)[Len(A) + Len(B)] = B[Len(B)] /\ A \o B # <<>>
        BY <1>2, <2>1
    <2> QED BY <1>2, <2>1, <2>2 DEF Tip
<1> QED BY <1>1, <1>2

LEMMA FirstOfConcat ==
    ASSUME NEW A \in Seq(Line), NEW B \in Seq(Line)
    PROVE  /\ A # <<>> => A \o B # <<>> /\ (A \o B)[1] = A[1]
           /\ A \o B = <<>> <=> A = <<>> /\ B = <<>>
           /\ A \o B \in Seq(Line)
           /\ A \o <<>> = A /\ <<>> \o A = A
OBVIOUS

LEMMA ShaConcat ==
    ASSUME NEW A \in Seq(Line), NEW B \in Seq(Line)
    PROVE  Sha256(A \o B) = Sha256(A) \o Sha256(B)
<1>1. Sha256(A) \in FileHash /\ Sha256(B) \in FileHash /\ Sha256(A \o B) \in FileHash
    BY ShaType, FirstOfConcat
<1>2. Len(Sha256(A)) = Len(A) /\ Len(Sha256(B)) = Len(B) /\ Len(Sha256(A \o B)) = Len(A) + Len(B)
    BY DEF Sha256
<1> DEFINE hash(lines, n) == <<lines[n].id, lines[n].end>>
<1>3. \A n \in 1..(Len(A) + Len(B)) : Sha256(A \o B)[n] = (Sha256(A) \o Sha256(B))[n]
    <2> TAKE n \in 1..(Len(A) + Len(B))
    <2>1. Sha256(A \o B)[n] = hash(A \o B, n)
        BY DEF Sha256
    <2>2. CASE n \in 1..Len(A)
        <3>1. (A \o B)[n] = A[n] /\ (Sha256(A) \o Sha256(B))[n] = Sha256(A)[n]
            BY <1>1, <1>2, <2>2 DEF FileHash
        <3>2. Sha256(A)[n] = hash(A, n)
            BY <2>2 DEF Sha256
        <3> QED BY <2>1, <3>1, <3>2
    <2>3. CASE n \notin 1..Len(A)
        <3>1. PICK k \in 1..Len(B) : n = Len(A) + k
            <4>1. n - Len(A) \in 1..Len(B) /\ n = Len(A) + (n - Len(A))
                BY <2>3
            <4> QED BY <4>1
        <3>2. (A \o B)[n] = B[k] /\ (Sha256(A) \o Sha256(B))[n] = Sha256(B)[k]
            BY <1>1, <1>2, <3>1 DEF FileHash
        <3>3. Sha256(B)[k] = hash(B, k)
            BY DEF Sha256
        <3> QED BY <2>1, <3>2, <3>3
    <2> QED BY <2>2, <2>3
<1> HIDE DEF hash
<1>4. /\ Sha256(A \o B) \in Seq(Nat \X Ends) /\ Sha256(A) \o Sha256(B) \in Seq(Nat \X Ends)
      /\ Len(Sha256(A) \o Sha256(B)) = Len(A) + Len(B)
    <2>1. ASSUME NEW H, NEW s \in Seq(H), NEW t \in Seq(H)
          PROVE  s \o t \in Seq(H) /\ Len(s \o t) = Len(s) + Len(t)
        OBVIOUS
    <2> HIDE DEF Sha256
    <2> QED BY <1>1, <1>2, <2>1 DEF FileHash
<1> QED BY <1>2, <1>3, <1>4, SeqEqual

\* A file of whole lines takes more lines at its end.
LEMMA ExtendWhole ==
    ASSUME NEW file \in Seq(Line), NEW payload, Whole(file)
    PROVE  Extend(file, payload) = file \o payload
<1>1. file # <<>> => Len(file) \in DOMAIN file
    OBVIOUS
<1> QED BY <1>1 DEF Extend, Whole

\* One more line at the end of a chain.
LEMMA ChainGrows ==
    ASSUME NEW lines \in Seq(Line), NEW line \in Line, Linked(lines), line.end = "ok",
           LinkedTo(Tip(lines), line), NEW older, FromGenesis(older, lines)
    PROVE  /\ Linked(lines \o <<line>>) /\ Tip(lines \o <<line>>) = Tip(<<line>>)
           /\ FromGenesis(older, lines \o <<line>>)
<1>1. <<line>> \in Seq(Line) /\ <<line>>[1] = line /\ DOMAIN <<line>> = {1} /\ <<line>> # <<>>
    OBVIOUS
<1>2. Linked(<<line>>)
    BY <1>1 DEF Linked, Whole
<1>3. PICK one \in Seq(Line) : one = <<line>>
    BY <1>1
<1>4. Linked(lines \o one) /\ Tip(lines \o one) = Tip(one)
    BY <1>1, <1>2, <1>3, LinkedConcat, TipConcat
<1>5. (lines \o one)[1] = IF lines = <<>> THEN line ELSE lines[1]
    BY <1>1, <1>3, FirstOfConcat
<1> QED BY <1>3, <1>4, <1>5 DEF FromGenesis

LEMMA ActiveParts ==
    ASSUME TypeOK
    PROVE  /\ disk[0] \in Seq(Line) /\ OnTheWay \in Seq(Line) /\ writeBuffer \in Seq(Line)
           /\ disk[0] \o OnTheWay \in Seq(Line) /\ ActiveLines \in Seq(Line)
           /\ Linked(ActiveLines) =>
                  /\ Linked(disk[0]) /\ Linked(OnTheWay) /\ Linked(writeBuffer)
                  /\ Linked(disk[0] \o OnTheWay)
<1>1. disk[0] \in Seq(Line) /\ OnTheWay \in Seq(Line) /\ writeBuffer \in Seq(Line)
    BY ActiveSegment, EmptyType DEF TypeOK, WriteJob, OnTheWay
<1>2. disk[0] \o OnTheWay \in Seq(Line)
    BY <1>1, FirstOfConcat
<1>3. ActiveLines \in Seq(Line)
    BY <1>1, <1>2, FirstOfConcat DEF ActiveLines
<1>4. Linked(ActiveLines) => Linked(disk[0] \o OnTheWay) /\ Linked(writeBuffer)
    BY <1>1, <1>2, LinkedConcat DEF ActiveLines
<1>5. Linked(disk[0] \o OnTheWay) => Linked(disk[0]) /\ Linked(OnTheWay)
    BY <1>1, LinkedConcat
<1> QED BY <1>1, <1>2, <1>3, <1>4, <1>5

LEMMA RecordKeepsChain ==
    ASSUME TypeOK, MemoryAgrees, FilesChained, Record
    PROVE  MemoryAgrees' /\ FilesChained'
<1> DEFINE line == NewLine(<<>>)
<1>1. line \in Line /\ line.end = "ok" /\ LinkedTo(chain, line)
    <2>1. line \in Line
        BY EmptyType, NewLineType
    <2> QED BY <2>1 DEF NewLine, LinkedTo
<1>2. /\ writeBuffer' = Append(writeBuffer, line) /\ chain' = Tip(<<line>>)
      /\ UNCHANGED <<startupError, job, disk, hashed, digested>>
    BY DEF Record
<1> HIDE DEF line
<1>3. ActiveLines' = ActiveLines \o <<line>>
    <2>1. OnTheWay' = OnTheWay
        BY <1>2 DEF OnTheWay
    <2>2. <<line>> \in Seq(Line) /\ writeBuffer \in Seq(Line)
        BY <1>1, ActiveParts
    <2>3. writeBuffer' = writeBuffer \o <<line>>
        BY <1>1, <1>2, <2>2
    <2>4. PICK one \in Seq(Line) : one = <<line>>
        BY <2>2
    <2>5. PICK base \in Seq(Line) : base = disk[0] \o OnTheWay
        BY ActiveParts
    <2>6. base \o (writeBuffer \o one) = (base \o writeBuffer) \o one
        BY <2>2, ConcatAssociative
    <2> QED BY <1>2, <2>1, <2>3, <2>4, <2>5, <2>6 DEF ActiveLines
<1>4. PICK lines \in Seq(Line) : lines = ActiveLines
    BY ActiveParts
<1>5. Linked(ActiveLines') /\ Tip(ActiveLines') = chain'
    <2>1. FromGenesis(lines, lines)
        BY DEF FromGenesis
    <2> QED BY <1>1, <1>2, <1>3, <1>4, <2>1, ChainGrows DEF MemoryAgrees
<1>6. FromGenesis(disk[1], ActiveLines) => FromGenesis(disk[1], ActiveLines')
    BY <1>1, <1>3, <1>4, ChainGrows DEF MemoryAgrees
<1>7. /\ Linked(ActiveLines)' = Linked(ActiveLines') /\ Tip(ActiveLines)' = Tip(ActiveLines')
      /\ FromGenesis(disk[1], ActiveLines)' = FromGenesis(disk[1], ActiveLines')
    BY <1>2 DEF FromGenesis
<1>8. MemoryAgrees'
    BY <1>2, <1>5, <1>7 DEF MemoryAgrees
<1>9. FilesChained'
    BY <1>2, <1>6, <1>7 DEF FilesChained, Chained, Rotated, NoHole, Segments
<1> QED BY <1>8, <1>9

\* The buffer becomes the payload, or there is none to take.
LEMMA TakeKeepsChain ==
    ASSUME TypeOK, MemoryAgrees, FilesChained, RunEmpty \/ TakeBuffer \/ UNCHANGED vars
    PROVE  MemoryAgrees' /\ FilesChained'
<1>1. UNCHANGED <<startupError, chain, disk, hashed, digested>>
    BY DEF RunEmpty, TakeBuffer, vars, procVars
<1>2. \/ UNCHANGED <<job, writeBuffer>>
      \/ /\ job.phase = "idle" /\ job'.phase = "append"
         /\ job'.payload = writeBuffer /\ writeBuffer' = <<>>
    BY DEF RunEmpty, TakeBuffer, MayRun, Idle, vars, procVars
<1>3. ActiveLines' = ActiveLines
    <2>1. CASE UNCHANGED <<job, writeBuffer>>
        BY <1>1, <2>1 DEF ActiveLines, OnTheWay
    <2>2. CASE /\ job.phase = "idle" /\ job'.phase = "append"
               /\ job'.payload = writeBuffer /\ writeBuffer' = <<>>
        <3>1. OnTheWay = <<>> /\ OnTheWay' = writeBuffer
            BY <2>2 DEF OnTheWay
        <3>2. disk[0] \in Seq(Line) /\ writeBuffer \in Seq(Line) /\ disk[0] \o writeBuffer \in Seq(Line)
            BY ActiveParts, FirstOfConcat
        <3>3. ActiveLines = disk[0] \o writeBuffer
            BY <3>1, <3>2, FirstOfConcat DEF ActiveLines
        <3>4. ActiveLines' = (disk[0] \o writeBuffer) \o <<>>
            BY <1>1, <2>2, <3>1 DEF ActiveLines
        <3> QED BY <3>2, <3>3, <3>4, FirstOfConcat
    <2> QED BY <1>2, <2>1, <2>2
<1>4. job' = job \/ (job.phase = "idle" /\ job'.phase = "append")
    BY <1>2
<1>5. MemoryAgrees'
    BY <1>1, <1>3, <1>4 DEF MemoryAgrees, Linked, Whole, Tip, Sha256
<1>6. FilesChained'
    <2>1. \A i \in Rotated : Linked(disk[i])' = Linked(disk[i])
        BY <1>1 DEF Linked, Whole
    <2>2. FromGenesis(disk[1], ActiveLines)' = FromGenesis(disk[1], ActiveLines)
        BY <1>1, <1>3 DEF FromGenesis
    <2> QED BY <1>1, <1>4, <2>1, <2>2 DEF FilesChained, Chained, Rotated, NoHole, Segments
<1> QED BY <1>5, <1>6

\* The active segment is still the one its predecessor names.
LEMMA ActiveKeepsChained ==
    ASSUME TypeOK, NEW file, disk' = [disk EXCEPT ![0] = file], Chained(NoHole, disk),
           disk[0] # <<>> => file # <<>> /\ file[1] = disk[0][1]
    PROVE  Chained(NoHole, disk') /\ disk'[0] = file /\ \A i \in Rotated : disk'[i] = disk[i]
<1>1. Segments = 0..MaxRotatedFiles /\ MaxRotatedFiles \in Nat
    BY AuditAssumption DEF Segments
<1>2. disk'[0] = file /\ \A i \in Rotated : disk'[i] = disk[i]
    BY <1>1 DEF TypeOK, Rotated
<1>3. \A i \in Rotated : Behind(i, NoHole) = i - 1 /\ i # NoHole /\ i - 1 \in Rotated \cup {0}
    BY <1>1 DEF Behind, NoHole, Rotated
<1>4. ASSUME NEW i \in Rotated, disk'[i] # <<>> PROVE Follows(disk'[i - 1], disk'[i])
    <2>1. Follows(disk[i - 1], disk[i]) /\ disk'[i] = disk[i]
        BY <1>2, <1>3, <1>4 DEF Chained
    <2>2. CASE i - 1 = 0
        BY <1>2, <2>1, <2>2 DEF Follows
    <2>3. CASE i - 1 \in Rotated
        BY <1>2, <2>1, <2>3
    <2> QED BY <1>3, <2>2, <2>3
<1> QED BY <1>2, <1>3, <1>4 DEF Chained

LEMMA AppendPayloadKeepsChain ==
    ASSUME TypeOK, MemoryAgrees, FilesChained, AppendPayload
    PROVE  MemoryAgrees' /\ FilesChained'
<1>1. /\ job.phase = "append" /\ ~digested
      /\ disk' = [disk EXCEPT ![0] = Extend(disk[0], job.payload)]
      /\ hashed' = hashed \o Sha256(job.payload)
      /\ UNCHANGED <<chain, writeBuffer>>
    BY DEF AppendPayload, MemoryAgrees
<1>2. /\ startupError' = startupError
      /\ \/ job'.phase = "idle" /\ ~digested'
         \/ job'.phase = "prune" /\ digested' /\ Len(hashed') >= MaxFileBytes
    BY <1>1 DEF AppendPayload, JobDone, Idle, TypeOK, WriteJob
<1>3. /\ OnTheWay = job.payload /\ OnTheWay' = <<>>
      /\ disk[0] \in Seq(Line) /\ job.payload \in Seq(Line) /\ writeBuffer \in Seq(Line)
      /\ Linked(disk[0])
    BY <1>1, <1>2, ActiveParts DEF OnTheWay, MemoryAgrees
<1>4. PICK file \in Seq(Line) : file = disk[0] \o job.payload
    BY <1>3, FirstOfConcat
<1>5. disk' = [disk EXCEPT ![0] = file]
    BY <1>1, <1>3, <1>4, ExtendWhole DEF Linked
<1>6. Chained(NoHole, disk') /\ disk'[0] = file /\ \A i \in Rotated : disk'[i] = disk[i]
    <2>1. disk[0] # <<>> => file # <<>> /\ file[1] = disk[0][1]
        BY <1>3, <1>4, FirstOfConcat
    <2>2. Chained(NoHole, disk)
        BY <1>1 DEF FilesChained
    <2> QED BY <1>5, <2>1, <2>2, ActiveKeepsChained
<1>7. ActiveLines' = ActiveLines
    <2>1. ActiveLines' = (file \o <<>>) \o writeBuffer
        BY <1>1, <1>3, <1>6 DEF ActiveLines
    <2> QED BY <1>3, <1>4, <2>1, FirstOfConcat DEF ActiveLines
<1>8. hashed' = Sha256(file)
    <2>1. hashed = Sha256(disk[0])
        BY <1>1 DEF MemoryAgrees
    <2> QED BY <1>1, <1>3, <1>4, <2>1, ShaConcat
<1>9. job'.phase = "prune" => file # <<>>
    <2>1. file = <<>> => Len(Sha256(file)) = 0
        BY DEF Sha256
    <2> QED BY <1>2, <1>8, <2>1, AuditAssumption
<1>10. MemoryAgrees'
    <2>1. Linked(ActiveLines)' /\ (chain = Tip(ActiveLines))'
        BY <1>1, <1>7 DEF MemoryAgrees, Linked, Whole, Tip
    <2>2. Sha256(disk[0])' = Sha256(file)
        BY <1>6 DEF Sha256
    <2> QED BY <1>2, <1>6, <1>8, <1>9, <2>1, <2>2 DEF MemoryAgrees
<1>11. FilesChained'
    <2>1. \A i \in Rotated : Linked(disk[i])' = Linked(disk[i])
        BY <1>6 DEF Linked, Whole
    <2>2. 1 \in Rotated
        BY AuditAssumption DEF Rotated, Segments
    <2>3. FromGenesis(disk[1], ActiveLines)' = FromGenesis(disk[1], ActiveLines)
        BY <1>6, <1>7, <2>2 DEF FromGenesis
    <2>4. Chained(NoHole, disk)' = Chained(NoHole, disk') /\ Rotated' = Rotated
        BY DEF Chained, NoHole, Rotated, Segments
    <2> QED BY <1>1, <1>2, <1>6, <2>1, <2>3, <2>4 DEF FilesChained
<1> QED BY <1>10, <1>11

\* A rotation leaves the active lines alone until it seals them.
LEMMA RotationKeepsMemory ==
    ASSUME MemoryAgrees, job.phase \in {"prune", "shift"}, job'.phase \in {"shift", "seal"},
           disk'[0] = disk[0], UNCHANGED <<startupError, chain, writeBuffer, hashed, digested>>
    PROVE  MemoryAgrees'
<1>1. ActiveLines' = ActiveLines
    BY DEF ActiveLines, OnTheWay
<1>2. Linked(ActiveLines)' /\ (chain = Tip(ActiveLines))'
    BY <1>1 DEF MemoryAgrees, Linked, Whole, Tip
<1>3. Sha256(disk[0])' = Sha256(disk[0])
    BY DEF Sha256
<1> QED BY <1>2, <1>3 DEF MemoryAgrees

LEMMA PruneKeepsChain ==
    ASSUME TypeOK, MemoryAgrees, FilesChained, PruneOldest
    PROVE  MemoryAgrees' /\ FilesChained'
<1>1. /\ job.phase = "prune" /\ disk' = [disk EXCEPT ![PrunedSegment] = <<>>]
      /\ job' = ShiftFrom(HighestShift)
      /\ UNCHANGED <<startupError, chain, writeBuffer, hashed, digested>>
    BY DEF PruneOldest
<1>2. /\ MaxRotatedFiles \in Nat \ {0} /\ PrunedSegment = MaxRotatedFiles
      /\ HighestShift = MaxRotatedFiles - 1 /\ Segments = 0..MaxRotatedFiles
    BY AuditAssumption DEF PrunedSegment, HighestShift, Segments
<1>3. /\ disk'[MaxRotatedFiles] = <<>> /\ MaxRotatedFiles \in Rotated
      /\ \A i \in Segments : i # MaxRotatedFiles => disk'[i] = disk[i]
    BY <1>1, <1>2 DEF TypeOK, Rotated
<1>4. /\ job'.phase \in {"shift", "seal"} /\ job'.index + 1 = MaxRotatedFiles
      /\ job'.phase = "shift" <=> job'.index >= 1
    BY <1>1, <1>2 DEF ShiftFrom, TypeOK, WriteJob
<1>5. MemoryAgrees'
    BY <1>1, <1>2, <1>3, <1>4, RotationKeepsMemory
<1>6. Chained(MaxRotatedFiles, disk')
    <2> SUFFICES ASSUME NEW i \in Rotated, i # MaxRotatedFiles, disk'[i] # <<>>
                 PROVE  Follows(disk'[i - 1], disk'[i])
        BY <1>2 DEF Chained, Behind, Rotated
    <2>1. /\ i \in Segments /\ i - 1 \in Segments /\ i - 1 # MaxRotatedFiles
          /\ i # NoHole /\ Behind(i, NoHole) = i - 1
        BY <1>2 DEF Rotated, NoHole, Behind
    <2>2. Chained(NoHole, disk)
        BY <1>1 DEF FilesChained
    <2> QED BY <1>3, <2>1, <2>2 DEF Chained
<1>7. \A i \in Rotated : Linked(disk'[i])
    <2>1. Linked(<<>>)
        BY DEF Linked, Whole
    <2> QED BY <1>3, <2>1 DEF FilesChained, Rotated
<1>8. FilesChained'
    <2>1. /\ Chained(job.index + 1, disk)' /\ (disk[job.index + 1] = <<>>)'
          /\ \A i \in Rotated : Linked(disk[i])'
        BY <1>3, <1>4, <1>6, <1>7 DEF Chained, Linked, Whole, Rotated, Segments
    <2> QED BY <1>4, <2>1 DEF FilesChained, Rotated, Segments
<1> QED BY <1>5, <1>8

\* A rename to a free target.
LEMMA RenameToFree ==
    ASSUME TypeOK, NEW from \in Segments, NEW to \in Segments, from # to,
           disk[to] = <<>>, disk' = Rename(disk, from, to)
    PROVE  /\ disk'[from] = <<>> /\ disk'[to] = disk[from]
           /\ \A i \in Segments \ {from, to} : disk'[i] = disk[i]
BY DEF TypeOK, Rename

LEMMA ShiftKeepsChain ==
    ASSUME TypeOK, MemoryAgrees, FilesChained, ShiftSegment
    PROVE  MemoryAgrees' /\ FilesChained'
<1>1. /\ job.phase = "shift" /\ disk' = Rename(disk, job.index, job.index + 1)
      /\ job' = ShiftFrom(job.index - 1)
      /\ UNCHANGED <<startupError, chain, writeBuffer, hashed, digested>>
    BY DEF ShiftSegment
<1>2. /\ MaxRotatedFiles \in Nat \ {0} /\ Segments = 0..MaxRotatedFiles
      /\ job.index \in 1..(MaxRotatedFiles - 1)
    BY <1>1, AuditAssumption DEF Segments, TypeOK, WriteJob, FilesChained
<1>3. PICK from \in Rotated : from = job.index
    BY <1>2 DEF Rotated
<1>4. PICK to \in Rotated : to = from + 1
    BY <1>2, <1>3 DEF Rotated
<1>5. /\ from \in 1..MaxRotatedFiles /\ disk[to] = <<>> /\ Chained(to, disk)
      /\ disk' = Rename(disk, from, to)
    BY <1>1, <1>2, <1>3, <1>4 DEF FilesChained
<1>6. /\ disk'[from] = <<>> /\ disk'[to] = disk[from]
      /\ \A i \in Segments \ {from, to} : disk'[i] = disk[i]
    <2>1. from \in Segments /\ to \in Segments /\ from # to
        BY <1>4, <1>5 DEF Rotated
    <2> QED BY <1>5, <2>1, RenameToFree
<1>7. /\ job'.phase \in {"shift", "seal"} /\ job'.index + 1 = from
      /\ job'.phase = "shift" <=> job'.index >= 1
    BY <1>1, <1>2, <1>3 DEF ShiftFrom, TypeOK, WriteJob
<1>8. MemoryAgrees'
    <2>1. disk'[0] = disk[0]
        BY <1>2, <1>4, <1>5, <1>6 DEF Rotated
    <2> QED BY <1>1, <1>7, <2>1, RotationKeepsMemory
<1>9. Chained(from, disk')
    <2> SUFFICES ASSUME NEW i \in Rotated, i # from, disk'[i] # <<>>
                 PROVE  Follows(disk'[Behind(i, from)], disk'[i])
        BY DEF Chained
    <2>1. i \in 1..MaxRotatedFiles
        BY <1>2 DEF Rotated
    <2>2. CASE i = to
        <3>1. Behind(i, from) = from - 1 /\ Behind(from, to) = from - 1
            BY <1>4, <1>5, <2>2 DEF Behind
        <3>2. Follows(disk[from - 1], disk[from])
            BY <1>4, <1>5, <1>6, <2>2, <3>1 DEF Chained
        <3>3. from - 1 \in Segments \ {from, to}
            BY <1>2, <1>4, <1>5
        <3> QED BY <1>6, <2>2, <3>1, <3>2, <3>3
    <2>3. CASE i = to + 1
        <3>1. Behind(i, from) = to /\ Behind(i, to) = from /\ i \notin {from, to}
            BY <1>4, <1>5, <2>1, <2>3 DEF Behind
        <3>2. disk'[i] = disk[i]
            BY <1>6, <3>1 DEF Rotated
        <3>3. Follows(disk[from], disk[i])
            BY <1>5, <2>3, <3>1, <3>2 DEF Chained
        <3> QED BY <1>6, <3>1, <3>2, <3>3
    <2>4. CASE i # to /\ i # to + 1
        <3>1. Behind(i, from) = i - 1 /\ Behind(i, to) = i - 1
              /\ i - 1 \in Segments \ {from, to} /\ i \in Segments \ {from, to}
            BY <1>2, <1>4, <1>5, <2>1, <2>4 DEF Behind
        <3>2. Follows(disk[i - 1], disk[i])
            BY <1>5, <1>6, <2>4, <3>1 DEF Chained
        <3> QED BY <1>6, <3>1, <3>2
    <2> QED BY <2>2, <2>3, <2>4
<1>10. \A i \in Rotated : Linked(disk'[i])
    <2>1. Linked(<<>>)
        BY DEF Linked, Whole
    <2> QED BY <1>6, <2>1 DEF FilesChained, Rotated
<1>11. FilesChained'
    <2>1. /\ Chained(job.index + 1, disk)' /\ (disk[job.index + 1] = <<>>)'
          /\ \A i \in Rotated : Linked(disk[i])'
        BY <1>6, <1>7, <1>9, <1>10 DEF Chained, Linked, Whole, Rotated, Segments
    <2> QED BY <1>7, <2>1 DEF FilesChained, Rotated, Segments
<1> QED BY <1>8, <1>11

\* The rotation line continues the sealed segment: nothing was recorded in between.
LEMMA SealKeepsChain ==
    ASSUME TypeOK, MemoryAgrees, FilesChained, SealSegment, writeBuffer = <<>>
    PROVE  MemoryAgrees' /\ FilesChained'
<1> DEFINE line == NewLine(hashed)
<1>1. line \in Line /\ line.end = "ok" /\ LinkedTo(chain, line) /\ line.previousFileSha256 = hashed
    <2>1. line \in Line
        BY NewLineType DEF TypeOK
    <2> QED BY <2>1 DEF NewLine, LinkedTo
<1>2. /\ job.phase = "seal" /\ disk' = Rename(disk, 0, 1)
      /\ chain' = Tip(<<line>>)
      /\ job'.phase = "anchor" /\ job'.payload = <<line>>
      /\ UNCHANGED <<startupError, writeBuffer, hashed, digested>>
    BY DEF SealSegment, TypeOK, WriteJob
<1> HIDE DEF line
<1>3. /\ MaxRotatedFiles \in Nat \ {0} /\ Segments = 0..MaxRotatedFiles
      /\ 0 \in Segments /\ 1 \in Segments /\ Rotated = 1..MaxRotatedFiles
    BY AuditAssumption DEF Segments, Rotated
<1>4. disk[1] = <<>> /\ Chained(1, disk) /\ disk[0] # <<>> /\ hashed = Sha256(disk[0]) /\ digested
    <2>1. job.index = 0
        BY <1>2, AuditAssumption DEF FilesChained, TypeOK, WriteJob
    <2> QED BY <1>2, <2>1 DEF FilesChained, MemoryAgrees
<1>5. /\ disk'[0] = <<>> /\ disk'[1] = disk[0]
      /\ \A i \in Segments \ {0, 1} : disk'[i] = disk[i]
    BY <1>2, <1>3, <1>4, RenameToFree
<1>6. disk[0] \in Seq(Line) /\ Linked(disk[0]) /\ chain = Tip(disk[0])
    <2>1. OnTheWay = <<>> /\ disk[0] \in Seq(Line) /\ Linked(disk[0])
        BY <1>2, ActiveParts DEF OnTheWay, MemoryAgrees
    <2>2. ActiveLines = disk[0]
        BY <2>1, FirstOfConcat DEF ActiveLines
    <2> QED BY <2>1, <2>2 DEF MemoryAgrees
<1>7. PICK one \in Seq(Line) : one = <<line>>
    <2>1. <<line>> \in Seq(Line)
        BY <1>1
    <2> QED BY <2>1
<1>8. one # <<>> /\ one[1] = line /\ Linked(one)
    BY <1>1, <1>7 DEF Linked, Whole
<1>9. Follows(one, disk[0])
    BY <1>1, <1>4, <1>6, <1>8 DEF Follows
<1>10. MemoryAgrees'
    <2>1. ActiveLines' = one
        <3>1. ActiveLines' = (<<>> \o one) \o <<>>
            BY <1>2, <1>5, <1>7 DEF ActiveLines, OnTheWay
        <3> QED BY <3>1, FirstOfConcat
    <2>2. Linked(ActiveLines)' /\ (chain = Tip(ActiveLines))'
        BY <1>2, <1>7, <1>8, <2>1 DEF Linked, Whole, Tip
    <2> QED BY <1>2, <1>4, <2>2 DEF MemoryAgrees
<1>11. Chained(NoHole, [disk' EXCEPT ![0] = one])
    <2> DEFINE d == [disk' EXCEPT ![0] = one]
    <2>1. DOMAIN disk' = Segments
        BY <1>2 DEF Rename, TypeOK
    <2>2. d[0] = one /\ \A i \in Rotated : d[i] = disk'[i]
        BY <1>3, <2>1
    <2> HIDE DEF d
    <2>3. ASSUME NEW i \in Rotated, d[i] # <<>> PROVE Follows(d[i - 1], d[i])
        <3>1. CASE i = 1
            BY <1>3, <1>5, <1>9, <2>2, <3>1
        <3>2. CASE i # 1
            <4>1. i \in Segments \ {0, 1} /\ i - 1 \in Rotated
                BY <1>3, <3>2
            <4>2. d[i] = disk[i] /\ Follows(disk[Behind(i, 1)], disk[i])
                BY <1>4, <1>5, <2>2, <2>3, <3>2, <4>1 DEF Chained
            <4>3. d[i - 1] = disk[Behind(i, 1)]
                <5>1. CASE i = 2
                    BY <1>3, <1>5, <2>2, <5>1 DEF Behind
                <5>2. CASE i # 2
                    BY <1>3, <1>5, <2>2, <3>2, <5>2 DEF Behind
                <5> QED BY <5>1, <5>2
            <4> QED BY <4>2, <4>3
        <3> QED BY <3>1, <3>2
    <2>4. \A i \in Rotated : Behind(i, NoHole) = i - 1
        BY <1>3 DEF Behind, NoHole
    <2>5. Chained(NoHole, d)
        BY <2>3, <2>4 DEF Chained
    <2> QED BY <2>5 DEF d
<1>12. FilesChained'
    <2>1. \A i \in Rotated : Linked(disk'[i])
        BY <1>3, <1>5, <1>6 DEF FilesChained
    <2>2. /\ Chained(NoHole, [disk EXCEPT ![0] = job.payload])'
          /\ \A i \in Rotated : Linked(disk[i])'
        BY <1>2, <1>7, <1>11, <2>1 DEF Chained, NoHole, Linked, Whole, Rotated, Segments
    <2> QED BY <1>2, <1>4, <1>5, <2>2 DEF FilesChained, Rotated, Segments
<1> QED BY <1>10, <1>12

LEMMA AnchorKeepsChain ==
    ASSUME TypeOK, MemoryAgrees, FilesChained, AppendAnchor
    PROVE  MemoryAgrees' /\ FilesChained'
<1>1. /\ job.phase = "anchor" /\ job' = Idle /\ startupError' = startupError
      /\ disk' = [disk EXCEPT ![0] = Extend(disk[0], job.payload)]
      /\ hashed' = Sha256(job.payload) /\ digested' = FALSE
      /\ UNCHANGED <<chain, writeBuffer>>
    BY DEF AppendAnchor, JobDone, HashOfNewSegment
<1>2. /\ disk[0] = <<>> /\ disk[1] # <<>> /\ Chained(NoHole, [disk EXCEPT ![0] = job.payload])
    BY <1>1 DEF FilesChained
<1>3. job.payload \in Seq(Line) /\ writeBuffer \in Seq(Line) /\ OnTheWay = job.payload /\ OnTheWay' = <<>>
    BY <1>1, ActiveParts DEF OnTheWay, Idle
<1>4. disk' = [disk EXCEPT ![0] = job.payload]
    BY <1>1, <1>2, <1>3, FirstOfConcat DEF Extend
<1>5. disk'[0] = job.payload /\ \A i \in Rotated : disk'[i] = disk[i]
    BY <1>4, ActiveSegment DEF TypeOK, Rotated
<1>6. ActiveLines' = ActiveLines
    <2>1. ActiveLines = (<<>> \o job.payload) \o writeBuffer
        BY <1>2, <1>3 DEF ActiveLines
    <2>2. ActiveLines' = (job.payload \o <<>>) \o writeBuffer
        BY <1>1, <1>3, <1>5 DEF ActiveLines
    <2>3. <<>> \o job.payload = job.payload /\ job.payload \o <<>> = job.payload
        BY <1>3, FirstOfConcat
    <2> QED BY <2>1, <2>2, <2>3
<1>7. MemoryAgrees'
    <2>1. Linked(ActiveLines)' /\ (chain = Tip(ActiveLines))'
        BY <1>1, <1>6 DEF MemoryAgrees, Linked, Whole, Tip
    <2>2. Sha256(disk[0])' = Sha256(job.payload)
        BY <1>5 DEF Sha256
    <2> QED BY <1>1, <2>1, <2>2 DEF MemoryAgrees, Idle
<1>8. FilesChained'
    <2>1. Chained(NoHole, disk)' /\ \A i \in Rotated : Linked(disk[i])'
        BY <1>2, <1>4, <1>5 DEF FilesChained, Chained, NoHole, Linked, Whole, Rotated, Segments
    <2>2. 1 \in Rotated
        BY AuditAssumption DEF Rotated, Segments
    <2>3. FromGenesis(disk[1], ActiveLines)'
        BY <1>2, <1>5, <2>2 DEF FromGenesis
    <2> QED BY <1>1, <2>1, <2>3 DEF FilesChained, Idle, Rotated, Segments
<1> QED BY <1>7, <1>8

\* A file that verifies as a segment: a chain without a torn line.
LEMMA LinkedVerifies ==
    ASSUME NEW file \in Seq(Line), Linked(file)
    PROVE  SegmentVerifies(file)
<1>1. \A n \in 2..Len(file) : n - 1 \in DOMAIN file /\ n \in DOMAIN file /\ n = (n - 1) + 1
    OBVIOUS
<1> QED BY <1>1 DEF SegmentVerifies, Linked, Whole

LEMMA ChainedVerifies ==
    ASSUME NEW d, \A i \in Segments : d[i] \in Seq(Line) /\ Linked(d[i]),
           Chained(NoHole, d), FromGenesis(d[1], d[0])
    PROVE  Verifies(d)
<1>1. \A i \in Rotated : Behind(i, NoHole) = i - 1 /\ i # NoHole
    BY AuditAssumption DEF Behind, NoHole, Rotated, Segments
<1>2. \A i \in Segments : SegmentVerifies(d[i])
    BY LinkedVerifies
<1>3. \A i \in Rotated : d[i] # <<>> => Follows(d[i - 1], d[i])
    BY <1>1 DEF Chained
<1> QED BY <1>2, <1>3 DEF Verifies, Rotated, Follows, FromGenesis

LEMMA SplitAt ==
    ASSUME NEW lines \in Seq(Line), NEW n \in 0..Len(lines)
    PROVE  \E some, rest \in Seq(Line) : some = SubSeq(lines, 1, n) /\ some \o rest = lines
<1> DEFINE some == SubSeq(lines, 1, n)
           rest == SubSeq(lines, n + 1, Len(lines))
<1>1. some \in Seq(Line) /\ rest \in Seq(Line)
    OBVIOUS
<1>2. some \o rest = lines
    <2>1. PICK m \in 1..(Len(lines) + 1) : m = 1
        OBVIOUS
    <2>2. PICK l \in n..Len(lines) : l = Len(lines)
        OBVIOUS
    <2>3. n \in (m - 1)..Len(lines)
        BY <2>1
    <2>4. SubSeq(lines, m, n) \o SubSeq(lines, n + 1, l) = SubSeq(lines, m, l)
        BY <2>3, ConcatAdjacentSubSeq
    <2> QED BY <2>1, <2>2, <2>4, SubSeqFull
<1> QED BY <1>1, <1>2

\* What an append that stops leaves, unless a line was cut.
LEMMA UncutPart ==
    ASSUME NEW file \in Seq(Line), Whole(file), NEW payload \in Seq(Line),
           NEW new \in PartialAppends(file, payload), CutShort(new) = {}
    PROVE  \E n \in 0..Len(payload) : new = file \o SubSeq(payload, 1, n)
<1>1. PICK part \in PartialPayloads(payload) : new = Extend(file, part)
    BY DEF PartialAppends
<1>2. part \in Seq(Line) /\ new = file \o part
    BY <1>1, PartialPayloadType, ExtendWhole
<1>3. ASSUME NEW n \in DOMAIN payload, NEW cut \in {"bare", "torn"}, part = WithCutLine(payload, n, cut)
      PROVE  FALSE
    <2> DEFINE l == [payload[n] EXCEPT !.end = cut]
    <2>1. payload[n] \in Line /\ n \in 1..Len(payload)
        OBVIOUS
    <2>2. l.end = cut /\ l \in Line
        BY <2>1 DEF Line, Ends
    <2>3. part = Append(SubSeq(payload, 1, n - 1), l)
        BY <1>3 DEF WithCutLine
    <2>4. SubSeq(payload, 1, n - 1) \in Seq(Line)
        BY <2>1
    <2> HIDE DEF l
    <2>5. part # <<>> /\ part[Len(part)] = l /\ Len(part) \in DOMAIN part
        <3>1. \A some \in Seq(Line) : \A line \in Line :
                  /\ Append(some, line) # <<>> /\ Append(some, line)[Len(Append(some, line))] = line
                  /\ Len(Append(some, line)) \in DOMAIN Append(some, line)
            OBVIOUS
        <3> QED BY <2>2, <2>3, <2>4, <3>1
    <2>6. new # <<>> /\ new[Len(new)] = l
        BY <1>2, <2>5
    <2> QED BY <2>2, <2>6 DEF CutShort
<1> QED BY <1>1, <1>2, <1>3 DEF PartialPayloads

LEMMA CrashKeepsChain ==
    ASSUME TypeOK, MemoryAgrees, FilesChained, CrashAndRestart, damage' = {}
    PROVE  MemoryAgrees' /\ FilesChained'
<1>1. PICK file \in IF job.phase \in {"append", "anchor"}
                    THEN PartialAppends(disk[0], job.payload) ELSE {disk[0]} :
          /\ disk' = [disk EXCEPT ![0] = file]
          /\ CutShort(file) = {} /\ job.phase \notin {"shift", "seal", "anchor"}
    BY DEF CrashAndRestart
<1>2. /\ startupError' = IF Verifies(disk') THEN "none" ELSE "corrupt"
      /\ chain' = IF Verifies(disk') THEN Tip(disk'[0]) ELSE Tip(<<>>)
      /\ hashed' = IF Verifies(disk') THEN Sha256(disk'[0]) ELSE <<>>
      /\ writeBuffer' = <<>> /\ job' = Idle /\ digested' = FALSE
    BY DEF CrashAndRestart, Recover
<1>3. /\ job.phase \in {"idle", "append", "prune"}
      /\ Chained(NoHole, disk) /\ FromGenesis(disk[1], ActiveLines)
      /\ \A i \in Rotated : Linked(disk[i])
    BY <1>1 DEF FilesChained, TypeOK, WriteJob, Phases
<1>4. /\ disk[0] \in Seq(Line) /\ job.payload \in Seq(Line) /\ OnTheWay \in Seq(Line)
      /\ writeBuffer \in Seq(Line) /\ disk[0] \o OnTheWay \in Seq(Line)
      /\ Linked(disk[0]) /\ Linked(disk[0] \o OnTheWay)
    BY ActiveParts DEF MemoryAgrees, TypeOK, WriteJob
<1>5. \E rest \in Seq(Line) : file \in Seq(Line) /\ disk[0] \o OnTheWay = file \o rest
    <2>1. CASE job.phase = "append"
        <3>1. PICK n \in 0..Len(job.payload) : file = disk[0] \o SubSeq(job.payload, 1, n)
            BY <1>1, <1>4, <2>1, UncutPart DEF Linked
        <3>2. PICK some \in Seq(Line), rest \in Seq(Line) :
                  some = SubSeq(job.payload, 1, n) /\ some \o rest = job.payload
            BY <1>4, SplitAt
        <3>3. PICK active \in Seq(Line) : active = disk[0]
            BY <1>4
        <3>5. active \o (some \o rest) = (active \o some) \o rest
            BY ConcatAssociative
        <3>6. OnTheWay = job.payload
            BY <2>1 DEF OnTheWay
        <3>7. active \o some \in Seq(Line)
            BY FirstOfConcat
        <3> QED BY <3>1, <3>2, <3>3, <3>5, <3>6, <3>7
    <2>2. CASE job.phase # "append"
        <3>1. file = disk[0] /\ OnTheWay = <<>>
            BY <1>1, <1>3, <2>2 DEF OnTheWay
        <3> QED BY <1>4, <3>1
    <2> QED BY <2>1, <2>2
<1>6. PICK rest \in Seq(Line) : file \in Seq(Line) /\ disk[0] \o OnTheWay = file \o rest
    BY <1>5
<1>7. Linked(file)
    BY <1>4, <1>6, LinkedConcat
<1>8. disk[0] # <<>> => file # <<>> /\ file[1] = disk[0][1]
    <2>1. CASE job.phase = "append"
        <3>1. PICK n \in 0..Len(job.payload) : file = disk[0] \o SubSeq(job.payload, 1, n)
            BY <1>1, <1>4, <2>1, UncutPart DEF Linked
        <3>2. SubSeq(job.payload, 1, n) \in Seq(Line)
            BY <1>4
        <3> QED BY <1>4, <3>1, <3>2, FirstOfConcat
    <2>2. CASE job.phase # "append"
        BY <1>1, <1>3, <2>2
    <2> QED BY <2>1, <2>2
<1>9. Chained(NoHole, disk') /\ disk'[0] = file /\ \A i \in Rotated : disk'[i] = disk[i]
    BY <1>1, <1>3, <1>8, ActiveKeepsChained
<1>10. 1 \in Rotated /\ Segments = Rotated \cup {0}
    BY AuditAssumption DEF Rotated, Segments
<1>11. FromGenesis(disk'[1], file)
    <2>1. ASSUME file # <<>> PROVE ActiveLines # <<>> /\ ActiveLines[1] = file[1]
        <3>1. disk[0] \o OnTheWay # <<>> /\ (disk[0] \o OnTheWay)[1] = file[1]
            BY <1>6, <2>1, FirstOfConcat
        <3> QED BY <1>4, <3>1, FirstOfConcat DEF ActiveLines
    <2> QED BY <1>3, <1>9, <1>10, <2>1 DEF FromGenesis
<1>12. \A i \in Segments : disk'[i] \in Seq(Line) /\ Linked(disk'[i])
    BY <1>3, <1>6, <1>7, <1>9, <1>10 DEF TypeOK
<1>13. Verifies(disk')
    BY <1>9, <1>11, <1>12, ChainedVerifies
<1>14. ActiveLines' = file
    <2>1. ActiveLines' = (file \o <<>>) \o <<>>
        BY <1>2, <1>9 DEF ActiveLines, OnTheWay, Idle
    <2> QED BY <1>6, <2>1, FirstOfConcat
<1>15. MemoryAgrees'
    <2>1. Linked(ActiveLines)' /\ (chain = Tip(ActiveLines))'
        BY <1>2, <1>7, <1>9, <1>13, <1>14 DEF Linked, Whole, Tip
    <2>2. (hashed = Sha256(disk[0]))'
        BY <1>2, <1>13 DEF Sha256
    <2> QED BY <1>2, <1>13, <2>1, <2>2 DEF MemoryAgrees, Idle
<1>16. FilesChained'
    <2>1. FromGenesis(disk[1], ActiveLines)' /\ Chained(NoHole, disk)'
        BY <1>9, <1>11, <1>14 DEF FromGenesis, Chained, NoHole, Rotated, Segments
    <2>2. \A i \in Rotated : Linked(disk[i])'
        BY <1>10, <1>12 DEF Linked, Whole
    <2> QED BY <1>2, <2>1, <2>2 DEF FilesChained, Idle, Rotated, Segments
<1> QED BY <1>15, <1>16

LEMMA ChainInvInit == Init => ChainInv
<1> SUFFICES ASSUME Init PROVE MemoryAgrees /\ FilesChained
    BY DEF ChainInv
<1>1. 0 \in Segments /\ 1 \in Rotated /\ \A i \in Segments : disk[i] = <<>>
    BY AuditAssumption DEF Init, Segments, Rotated
<1>2. Linked(<<>>) /\ Sha256(<<>>) = <<>>
    BY DEF Linked, Whole, Sha256
<1>3. ActiveLines = <<>>
    <2>1. ActiveLines = (<<>> \o <<>>) \o <<>>
        BY <1>1 DEF Init, ActiveLines, OnTheWay, Idle
    <2> QED BY <2>1, EmptyType, FirstOfConcat
<1>4. MemoryAgrees
    BY <1>1, <1>2, <1>3 DEF Init, MemoryAgrees, Idle
<1>5. FilesChained
    BY <1>1, <1>2, <1>3 DEF Init, FilesChained, Idle, Chained, FromGenesis, Rotated
<1> QED BY <1>4, <1>5

LEMMA ChainInvStep == TypeOK /\ ChainInv /\ [Next]_vars => ChainInv'
<1> SUFFICES ASSUME TypeOK, ChainInv, [Next]_vars, damage' = {} PROVE MemoryAgrees' /\ FilesChained'
    BY DEF ChainInv
<1>1. damage = {} /\ ~FileOperationFails
    BY DEF Next, JobStep, Record, RunEmpty, TakeBuffer, AppendPayload, PruneOldest, ShiftSegment,
           SealSegment, AppendAnchor, FileOperationFails, CrashAndRestart, vars
<1>2. MemoryAgrees /\ FilesChained
    BY <1>1 DEF ChainInv
<1>3. SealSegment => writeBuffer = <<>>
    BY DEF SealSegment
<1> QED
    BY <1>1, <1>2, <1>3, RecordKeepsChain, TakeKeepsChain, AppendPayloadKeepsChain, PruneKeepsChain,
       ShiftKeepsChain, SealKeepsChain, AnchorKeepsChain, CrashKeepsChain DEF Next, JobStep

\* Unless a file operation failed, an append was cut, a crash fell into a rotation or a
\* line was recorded during one, recoverChain accepts the files and the chain in memory
\* continues them: whatever the size of the segments and the number of crashes.
THEOREM UndamagedVerifies == Spec => []UndamagedLogVerifies
<1>1. TypeOK /\ ChainInv => UndamagedLogVerifies
    <2> SUFFICES ASSUME TypeOK, ChainInv, damage = {}, job.phase \in {"idle", "append", "prune"}
                 PROVE  /\ Verifies(disk)
                        /\ chain = Tip(disk[0]
                                       \o (IF job.phase = "append" THEN job.payload ELSE <<>>)
                                       \o writeBuffer)
        BY DEF UndamagedLogVerifies
    <2>1. MemoryAgrees /\ FilesChained
        BY DEF ChainInv
    <2>2. chain = Tip(ActiveLines)
        BY <2>1 DEF MemoryAgrees
    <2>3. OnTheWay = IF job.phase = "append" THEN job.payload ELSE <<>>
        BY DEF OnTheWay
    <2>4. Verifies(disk)
        <3>1. /\ Linked(disk[0]) /\ disk[0] \in Seq(Line) /\ OnTheWay \in Seq(Line)
              /\ writeBuffer \in Seq(Line) /\ disk[0] \o OnTheWay \in Seq(Line)
            BY <2>1, ActiveParts DEF MemoryAgrees
        <3>2. \A i \in Segments : disk[i] \in Seq(Line) /\ Linked(disk[i])
            BY <2>1, <3>1 DEF FilesChained, Rotated, TypeOK
        <3>3. FromGenesis(disk[1], ActiveLines) /\ Chained(NoHole, disk)
            BY <2>1 DEF FilesChained
        <3>4. disk[0] # <<>> => ActiveLines # <<>> /\ ActiveLines[1] = disk[0][1]
            <4>1. disk[0] # <<>> =>
                      disk[0] \o OnTheWay # <<>> /\ (disk[0] \o OnTheWay)[1] = disk[0][1]
                BY <3>1, FirstOfConcat
            <4> QED BY <3>1, <4>1, FirstOfConcat DEF ActiveLines
        <3>5. FromGenesis(disk[1], disk[0])
            BY <3>3, <3>4 DEF FromGenesis
        <3> QED BY <3>2, <3>3, <3>5, ChainedVerifies
    <2> QED BY <2>2, <2>3, <2>4 DEF ActiveLines
<1> QED BY <1>1, TypeCorrect, ChainInvInit, ChainInvStep, PTL DEF Spec
=============================================================================
