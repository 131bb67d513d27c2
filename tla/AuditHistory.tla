---------------------------- MODULE AuditHistory ----------------------------
(***************************************************************************)
(* AuditLog together with a reader of it: getRecentEntries, behind the     *)
(* tool get_audit_history, waits for the writes queued when it is called,  *)
(* verifies the files synchronously and then reads them one at a time,     *)
(* while records, write jobs and rotations go on.  The entry limit is left *)
(* out: the reader always reads every segment.                             *)
(***************************************************************************)
EXTENDS AuditLog

VARIABLE reader  \* the one call of getRecentEntries

allVars == <<vars, reader>>

NoReader ==
    [phase |-> "none", awaited |-> 0, at |-> 0,
     acked |-> {}, found |-> {}, integrity |-> "verified"]

\* flush() awaits the job queued last, or the one that runs, or nothing.
LastQueuedSkipped == 0 \* mutant: getRecentEntries does not flush
LastQueued == IF tail # <<>> THEN tail[Len(tail)] ELSE job.owner

CallHistory ==
    /\ reader.phase = "none"
    /\ reader' = [reader EXCEPT !.phase = "flush", !.awaited = LastQueued,
                                !.acked = {n \in Entries : status[n] = "acked"}]
    /\ UNCHANGED vars

\* The awaited job has settled; the microtask that resumes the reader runs
\* before any further file operation returns.
FlushSettled ==
    /\ reader.phase = "flush"
    /\ reader.awaited \notin {tail[n] : n \in DOMAIN tail}
    /\ reader.awaited = 0 \/ reader.awaited # job.owner

ScanFrom == 0
Finished == [reader EXCEPT !.phase = "done"]

\* flush() rethrows; otherwise recoverChain verifies the files in the same step.
Resume ==
    /\ FlushSettled
    /\ reader' =
          IF startupError # "none" THEN [reader EXCEPT !.phase = "rejected"]
          ELSE IF Verifies(disk) THEN [reader EXCEPT !.phase = "scan", !.at = ScanFrom]
          ELSE [Finished EXCEPT !.integrity = "failed"]
    /\ UNCHANGED vars

SegmentReadOldestFirst == MaxRotatedFiles - reader.at \* mutant: path.N down to path
SegmentRead == reader.at

\* readFile of the next segment, from the active one to the oldest.
ReadSegment ==
    /\ reader.phase = "scan"
    /\ LET file == disk[SegmentRead]
           more == [reader EXCEPT !.found = @ \cup Ids(file)]
       IN  reader' =
              IF \E n \in DOMAIN file : file[n].end = "torn"
              THEN [Finished EXCEPT !.integrity = "failed"]
              ELSE IF reader.at = MaxRotatedFiles
                   THEN [more EXCEPT !.phase = "done"]
                   ELSE [more EXCEPT !.at = @ + 1]
    /\ UNCHANGED vars

\* The reader dies with the process.
CrashWithReader ==
    /\ CrashAndRestart
    /\ reader' = IF reader.phase \in {"flush", "scan"}
                 THEN [reader EXCEPT !.phase = "rejected"]
                 ELSE reader

HistoryInit == Init /\ reader = NoReader

LogStep(A) == ~FlushSettled /\ A /\ UNCHANGED reader

HistoryNext ==
    \/ LogStep(Record)
    \/ LogStep(JobStep)
    \/ CrashWithReader
    \/ CallHistory
    \/ Resume
    \/ ReadSegment

HistorySpec ==
    /\ HistoryInit
    /\ [][HistoryNext]_allVars
    /\ WF_allVars(LogStep(JobStep))
    /\ WF_allVars(Resume)
-----------------------------------------------------------------------------
\* A history reported as verified holds every entry that was acknowledged before
\* the call and is still retained, though segments were renamed under the reader.
HistoryMissesNothing ==
    (reader.phase = "done" /\ reader.integrity = "verified") =>
        reader.acked \cap StoredIds \subseteq reader.found

\* The tool reports a broken log only after an event that can break it, never
\* because it looked while the writer was half way through a rotation.
HistoryAlarmIsReal ==
    (reader.phase = "done" /\ reader.integrity = "failed") => damage # {}
=============================================================================
