------------------------------ MODULE AuditLog ------------------------------
(***************************************************************************)
(* The hash-chained audit log of src/src/audit/audit-log.ts: record and    *)
(* recordCritical, the batched writer behind `tail`, rotation, and what a  *)
(* restarted process recovers from the files.                              *)
(*                                                                         *)
(* Simplifications.                                                        *)
(*  - A line is identified by `id`, fresh for every line; it stands for    *)
(*    the line's entryHash (hashes do not collide) and ids grow in the     *)
(*    order in which the lines are made.  The entry's content is dropped.  *)
(*  - File sizes are counted in lines.                                     *)
(*  - An absent file and an empty one are both <<>>: recoverChain gives    *)
(*    the same verdict on either.                                          *)
(*  - Crash and restart are one step: nothing else happens in between.     *)
(*  - `pruned` and `damage` are history variables; `faults` and `crashes`  *)
(*    only bound the model.                                                *)
(***************************************************************************)
EXTENDS Integers, Sequences

CONSTANTS
    LastEntry,        \* the last id given to a recorded entry (bounds the model)
    MaxRotatedFiles,  \* rotated segments kept beside the active one
    MaxFileBytes,     \* the active segment rotates at this size, in lines
    MaxFaults,        \* how many file operations may fail (bounds the model)
    MaxCrashes        \* how often the process may crash (bounds the model)

ASSUME AuditAssumption ==
    /\ LastEntry \in Nat
    /\ MaxRotatedFiles \in Nat \ {0}
    /\ MaxFileBytes \in Nat \ {0}
    /\ MaxFaults \in Nat
    /\ MaxCrashes \in Nat

VARIABLES
    chain,         \* the last line made: [sequence, previousEntryHash]
    startupError,  \* "none", "corrupt" (found at startup) or "write_failed"
    writeBuffer,   \* lines recorded and not yet taken by a write job
    tail,          \* owners of the write jobs queued on the promise `tail`
    job,           \* the write job that is running
    hashed,        \* the lines fed to currentFileHash; its length is currentFileBytes
    digested,      \* currentFileHash has been finalised by digest()
    disk,          \* disk[0] is the active segment, disk[i] the rotated one path.i
    status,        \* what became of the caller of each recorded entry
    nextId,        \* the id of the next line
    pruned,        \* ids that rotation removed with the oldest segment
    damage,        \* events after which the files need not verify
    faults, crashes

procVars == <<chain, startupError, writeBuffer, tail, job, hashed, digested>>
vars == <<procVars, disk, status, nextId, pruned, damage, faults, crashes>>

Entries == 1..LastEntry
Segments == 0..MaxRotatedFiles
Genesis == 0

Status == {"none", "waiting", "acked", "failed", "crashed"}
Phases == {"idle", "append", "prune", "shift", "seal", "anchor"}
Idle == [phase |-> "idle", owner |-> 0, payload |-> <<>>, index |-> 0]

\* How a line ends: "ok" with its newline, "bare" without it, "torn" before it.
Ends == {"ok", "bare", "torn"}
FileHash == Seq(Nat \X Ends)
Line == [id : Nat, sequence : Nat, previousEntryHash : Nat,
         previousFileSha256 : FileHash, end : Ends]

ChainState == [sequence : Nat, previousEntryHash : Nat]
WriteJob == [phase : Phases, owner : 0..LastEntry, payload : Seq(Line),
             index : 0..(MaxRotatedFiles - 1)]
-----------------------------------------------------------------------------
(* The files, and what recoverChain makes of them. *)

\* The hash of a file is one with its lines.
Sha256(file) == [n \in DOMAIN file |-> <<file[n].id, file[n].end>>]

\* appendFile: text after a line without its newline runs into that line.
Extend(file, payload) ==
    IF file = <<>> \/ payload = <<>> \/ file[Len(file)].end = "ok"
    THEN file \o payload
    ELSE [file EXCEPT ![Len(file)].end = "torn"] \o Tail(payload)

\* How the last line of a file falls short of a whole one, if it does.
CutShort(file) ==
    IF file = <<>> THEN {} ELSE {file[Len(file)].end} \ {"ok"}

\* What of `payload` is written by an append that stops anywhere on the way:
\* some whole lines, and perhaps a part of the next one.
WithCutLine(payload, n, cut) ==
    Append(SubSeq(payload, 1, n - 1), [payload[n] EXCEPT !.end = cut])

PartialPayloads(payload) ==
    {SubSeq(payload, 1, n) : n \in 0..Len(payload)}
    \cup {WithCutLine(payload, n, "bare") : n \in DOMAIN payload}
    \cup {WithCutLine(payload, n, "torn") : n \in DOMAIN payload}

PartialAppends(file, payload) == {Extend(file, part) : part \in PartialPayloads(payload)}

\* The state of the chain after these lines.
Tip(lines) ==
    IF lines = <<>>
    THEN [sequence |-> 0, previousEntryHash |-> Genesis]
    ELSE [sequence |-> lines[Len(lines)].sequence,
          previousEntryHash |-> lines[Len(lines)].id]

LinkedTo(tip, line) ==
    /\ line.previousEntryHash = tip.previousEntryHash
    /\ line.sequence = tip.sequence + 1

\* verifySegmentText: every line parses and is linked to the one before it.
SegmentVerifies(file) ==
    /\ \A n \in DOMAIN file : file[n].end # "torn"
    /\ \A n \in 2..Len(file) : LinkedTo(Tip(<<file[n - 1]>>), file[n])

\* recoverChain accepts the files: each segment verifies, none is missing, the
\* next newer one is linked to it and opens with its anchor, and a log that has
\* no rotated segment begins at genesis.
Verifies(d) ==
    /\ \A i \in Segments : SegmentVerifies(d[i])
    /\ \A i \in Segments \ {0} : d[i] # <<>> =>
           /\ d[i - 1] # <<>>
           /\ LinkedTo(Tip(d[i]), d[i - 1][1])
           /\ d[i - 1][1].previousFileSha256 = Sha256(d[i])
    /\ (d[0] # <<>> /\ d[1] = <<>>) => LinkedTo(Tip(<<>>), d[0][1])
-----------------------------------------------------------------------------
(* Making lines, and settling the caller that waits for one. *)

NewLine(anchor) ==
    [id |-> nextId, sequence |-> chain.sequence + 1,
     previousEntryHash |-> chain.previousEntryHash,
     previousFileSha256 |-> anchor, end |-> "ok"]

\* flush() rethrows startupError once the awaited write has run.
OutcomeIgnoringErrors(error) == "acked" \* mutant: flush() does not rethrow
Outcome(error) == IF error = "none" THEN "acked" ELSE "failed"

Settle(n, error) ==
    status' = IF status[n] = "waiting"
              THEN [status EXCEPT ![n] = Outcome(error)]
              ELSE status

JobDone(error) ==
    /\ job' = Idle
    /\ startupError' = error
    /\ Settle(job.owner, error)

\* record() throws while startupError is set.
RecordAlwaysAllowed == TRUE \* mutant: record() does not look at startupError
RecordAllowed == startupError = "none"

\* recordCritical(): record(), and a wait for the write job it queued.  A caller
\* of record() alone is one that does not look at the outcome.
Record ==
    /\ RecordAllowed
    /\ nextId \in Entries
    /\ LET line == NewLine(<<>>)
       IN /\ chain' = Tip(<<line>>)
          /\ writeBuffer' = Append(writeBuffer, line)
          /\ tail' = Append(tail, line.id)
    /\ status' = [status EXCEPT ![nextId] = "waiting"]
    /\ nextId' = nextId + 1
    /\ UNCHANGED <<startupError, job, hashed, digested, disk, pruned, damage, faults, crashes>>
-----------------------------------------------------------------------------
(* The write job: one link of the promise chain `tail`. *)

MayRunUnlessFailed == job.phase = "idle" /\ tail # <<>> /\ startupError = "none" \* mutant: no catch
MayRun == job.phase = "idle" /\ tail # <<>>

\* An earlier job took this one's line with its own payload.
RunEmpty ==
    /\ MayRun
    /\ writeBuffer = <<>>
    /\ tail' = Tail(tail)
    /\ Settle(Head(tail), startupError)
    /\ UNCHANGED <<chain, startupError, writeBuffer, job, hashed, digested,
                   disk, nextId, pruned, damage, faults, crashes>>

TakeBuffer ==
    /\ MayRun
    /\ writeBuffer # <<>>
    /\ tail' = Tail(tail)
    /\ job' = [Idle EXCEPT !.phase = "append", !.owner = Head(tail), !.payload = writeBuffer]
    /\ writeBuffer' = <<>>
    /\ UNCHANGED <<chain, startupError, hashed, digested, disk, status,
                   nextId, pruned, damage, faults, crashes>>

\* The append succeeds, then: update() throws on a hash already finalised, the
\* job ends, or rotation begins with the digest of the full segment.
AppendPayload ==
    /\ job.phase = "append"
    /\ disk' = [disk EXCEPT ![0] = Extend(@, job.payload)]
    /\ hashed' = hashed \o Sha256(job.payload)
    /\ \/ /\ digested
          /\ JobDone("write_failed")
          /\ UNCHANGED digested
       \/ /\ ~digested
          /\ Len(hashed') < MaxFileBytes
          /\ JobDone(startupError)
          /\ UNCHANGED digested
       \/ /\ ~digested
          /\ Len(hashed') >= MaxFileBytes
          /\ digested' = TRUE
          /\ job' = [job EXCEPT !.phase = "prune"]
          /\ UNCHANGED <<startupError, status>>
    /\ UNCHANGED <<chain, writeBuffer, tail, nextId, pruned, damage, faults, crashes>>

Ids(file) == {file[n].id : n \in {m \in DOMAIN file : file[m].end # "torn"}}

\* After the renames down to index 1 the active segment itself is renamed.
ShiftFrom(index) ==
    IF index >= 1
    THEN [job EXCEPT !.phase = "shift", !.index = index]
    ELSE [job EXCEPT !.phase = "seal", !.index = 0]

HighestShiftOffByOne == MaxRotatedFiles \* mutant: the loop starts at maxRotatedFiles
HighestShift == MaxRotatedFiles - 1

PrunedSegmentNewest == 1 \* mutant: removes path.1
PrunedSegment == MaxRotatedFiles

PruneOldest ==
    /\ job.phase = "prune"
    /\ disk' = [disk EXCEPT ![PrunedSegment] = <<>>]
    /\ pruned' = pruned \cup Ids(disk[PrunedSegment])
    /\ job' = ShiftFrom(HighestShift)
    /\ UNCHANGED <<chain, startupError, writeBuffer, tail, hashed, digested,
                   status, nextId, damage, faults, crashes>>

Rename(d, from, to) ==
    IF d[from] = <<>> THEN d ELSE [d EXCEPT ![to] = d[from], ![from] = <<>>]

ShiftSegment ==
    /\ job.phase = "shift"
    /\ disk' = Rename(disk, job.index, job.index + 1)
    /\ job' = ShiftFrom(job.index - 1)
    /\ UNCHANGED <<chain, startupError, writeBuffer, tail, hashed, digested,
                   status, nextId, pruned, damage, faults, crashes>>

\* The active segment becomes path.1 and the rotation line is made from the
\* chain as it is now, whether or not writeBuffer holds lines made before it.
SealSegment ==
    /\ job.phase = "seal"
    /\ disk' = Rename(disk, 0, 1)
    /\ LET line == NewLine(hashed)
       IN /\ chain' = Tip(<<line>>)
          /\ job' = [job EXCEPT !.phase = "anchor", !.payload = <<line>>]
    /\ nextId' = nextId + 1
    /\ damage' = IF writeBuffer = <<>> THEN damage ELSE damage \cup {"raced"}
    /\ UNCHANGED <<startupError, writeBuffer, tail, hashed, digested,
                   status, pruned, faults, crashes>>

HashWithoutRotationLine(lines) == <<>> \* mutant: update(rotationLine) is missing
HashOfNewSegment(lines) == Sha256(lines)

AppendAnchor ==
    /\ job.phase = "anchor"
    /\ disk' = [disk EXCEPT ![0] = Extend(@, job.payload)]
    /\ hashed' = HashOfNewSegment(job.payload)
    /\ digested' = FALSE
    /\ JobDone(startupError)
    /\ UNCHANGED <<chain, writeBuffer, tail, nextId, pruned, damage, faults, crashes>>

\* The file operation the job waits for fails; a failed append may have written
\* a part of its payload.
FileOperationFails ==
    /\ job.phase # "idle"
    /\ faults < MaxFaults
    /\ faults' = faults + 1
    /\ IF job.phase \in {"append", "anchor"}
       THEN \E file \in PartialAppends(disk[0], job.payload) :
                disk' = [disk EXCEPT ![0] = file]
       ELSE UNCHANGED disk
    /\ JobDone("write_failed")
    /\ damage' = damage \cup {"io_error"} \cup CutShort(disk'[0])
    /\ UNCHANGED <<chain, writeBuffer, tail, hashed, digested, nextId, pruned, crashes>>
-----------------------------------------------------------------------------
\* The constructor: the state of a process that starts on the files d.
Recover(d) ==
    LET ok == Verifies(d)
    IN  /\ startupError' = IF ok THEN "none" ELSE "corrupt"
        /\ chain' = IF ok THEN Tip(d[0]) ELSE Tip(<<>>)
        /\ hashed' = IF ok THEN Sha256(d[0]) ELSE <<>>

\* The process dies, perhaps in the middle of an append, and a new one starts.
CrashAndRestart ==
    /\ crashes < MaxCrashes
    /\ crashes' = crashes + 1
    /\ \E file \in IF job.phase \in {"append", "anchor"}
                   THEN PartialAppends(disk[0], job.payload)
                   ELSE {disk[0]} :
          /\ disk' = [disk EXCEPT ![0] = file]
          /\ damage' = damage \cup CutShort(file)
                \cup (IF job.phase \in {"shift", "seal", "anchor"} THEN {"half_rotated"} ELSE {})
    /\ Recover(disk')
    /\ writeBuffer' = <<>>
    /\ tail' = <<>>
    /\ job' = Idle
    /\ digested' = FALSE
    /\ status' = [n \in Entries |-> IF status[n] = "waiting" THEN "crashed" ELSE status[n]]
    /\ UNCHANGED <<nextId, pruned, faults>>
-----------------------------------------------------------------------------
\* A first start, with no file of an earlier process.
Init ==
    /\ chain = Tip(<<>>)
    /\ startupError = "none"
    /\ writeBuffer = <<>>
    /\ tail = <<>>
    /\ job = Idle
    /\ hashed = <<>>
    /\ digested = FALSE
    /\ disk = [i \in Segments |-> <<>>]
    /\ status = [n \in Entries |-> "none"]
    /\ nextId = 1
    /\ pruned = {}
    /\ damage = {}
    /\ faults = 0
    /\ crashes = 0

\* A file operation that was begun returns, and the promise chain goes on.
JobStep ==
    \/ RunEmpty
    \/ TakeBuffer
    \/ AppendPayload
    \/ PruneOldest
    \/ ShiftSegment
    \/ SealSegment
    \/ AppendAnchor
    \/ FileOperationFails

Next ==
    \/ Record
    \/ JobStep
    \/ CrashAndRestart

Spec == Init /\ [][Next]_vars
FairSpec == Spec /\ WF_vars(JobStep)
-----------------------------------------------------------------------------
TypeOK ==
    /\ chain \in ChainState
    /\ startupError \in {"none", "corrupt", "write_failed"}
    /\ writeBuffer \in Seq(Line)
    /\ tail \in Seq(Entries)
    /\ job \in WriteJob
    /\ hashed \in FileHash
    /\ digested \in BOOLEAN
    /\ disk \in [Segments -> Seq(Line)]
    /\ status \in [Entries -> Status]
    /\ nextId \in Nat \ {0}
    /\ pruned \subseteq Nat
    /\ damage \subseteq {"raced", "io_error", "bare", "torn", "half_rotated"}
    /\ faults \in 0..MaxFaults
    /\ crashes \in 0..MaxCrashes

StoredIds == UNION {Ids(disk[i]) : i \in Segments}

\* A recordCritical call that returned has its line in the retained files, or
\* rotation has since removed it with the oldest segment: through batching, a
\* failed write, a rotation in progress, a crash.  The exception is a log that an
\* append once left without its final newline: it verifies at startup, and the
\* next line runs into the one before it.
AckedIsStored ==
    "bare" \notin damage =>
        \A n \in Entries : status[n] = "acked" => n \in StoredIds \cup pruned

\* A line leaves the files only with the oldest segment, when every rotated
\* segment is taken, and every line that stays is newer: no rename overwrites a
\* segment, in whatever state an earlier rotation or a crash left the files.
RotationDropsOnlyOldest ==
    [][\A id \in StoredIds \ StoredIds' :
          "bare" \notin damage =>
              /\ \A kept \in StoredIds' : id < kept
              /\ \A i \in Segments \ {0} : disk[i] # <<>>]_vars

\* Unless a file operation failed, an append was torn, a crash fell into a
\* rotation or a line was recorded during one, a process that starts now accepts
\* the files, and the chain in memory continues what they and the lines on
\* their way to them hold.
UndamagedLogVerifies ==
    (damage = {} /\ job.phase \in {"idle", "append", "prune"}) =>
        /\ Verifies(disk)
        /\ chain = Tip(disk[0]
                       \o (IF job.phase = "append" THEN job.payload ELSE <<>>)
                       \o writeBuffer)

\* A process that found the files corrupt never writes to them again.
CorruptLogIsFrozen ==
    [][startupError = "corrupt" => disk' = disk]_vars

\* Every recordCritical call returns or throws, unless the process dies first.
CriticalRecordSettles ==
    \A n \in Entries : status[n] = "waiting" ~> status[n] \in {"acked", "failed", "crashed"}

\* recordCritical settles its callers in the order of their records, and tells
\* none that its record was kept after one was told that a write had failed.
Promise == INSTANCE CriticalAudit WITH
    Callers <- Entries,
    waiting <- (IF job.phase = "idle" THEN <<>> ELSE <<job.owner>>) \o tail,
    failed <- startupError # "none",
    outcome <- status
KeepsItsPromise == Promise!AuditSpec

\* test/safety.test.ts, "AuditLog rotation preserves an anchored hash chain": with
\* no failure and no crash, the files verify whenever no write job is running.
RotationPreservesChain ==
    (faults = 0 /\ crashes = 0 /\ job.phase = "idle") => Verifies(disk)
=============================================================================
