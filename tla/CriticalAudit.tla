--------------------------- MODULE CriticalAudit ---------------------------
(***************************************************************************)
(* What AuditLog.recordCritical promises its callers: each waits in the    *)
(* order of its record, and after the first failure nobody is told that a  *)
(* record was kept.  AuditLog implements it; the mutations build on it.    *)
(***************************************************************************)
EXTENDS Integers, Sequences

CONSTANT Callers

VARIABLES
    waiting,  \* callers whose record is not settled, in the order of the records
    failed,   \* a write has failed (startupError is set)
    outcome   \* what became of the last record of each caller

auditVars == <<waiting, failed, outcome>>

Outcomes == {"none", "waiting", "acked", "failed", "crashed"}

AuditInit ==
    /\ waiting = <<>>
    /\ failed = FALSE
    /\ outcome = [c \in Callers |-> "none"]

\* record() throws once a write has failed.
Request(c) ==
    /\ outcome[c] # "waiting"
    /\ outcome' = [outcome EXCEPT ![c] = IF failed THEN "failed" ELSE "waiting"]
    /\ waiting' = IF failed THEN waiting ELSE Append(waiting, c)
    /\ UNCHANGED failed

\* The oldest record is settled; its own write may be the first one to fail.
SettleEachAlone == \* mutant: a failed write fails its own caller only
    /\ waiting # <<>>
    /\ \E o \in {"acked", "failed"} : outcome' = [outcome EXCEPT ![Head(waiting)] = o]
    /\ waiting' = Tail(waiting)
    /\ UNCHANGED failed
SettleOldest ==
    /\ waiting # <<>>
    /\ failed' \in {failed, TRUE}
    /\ outcome' = [outcome EXCEPT ![Head(waiting)] = IF failed' THEN "failed" ELSE "acked"]
    /\ waiting' = Tail(waiting)

\* The write of a record that nobody waits for fails.
OtherWriteFails ==
    /\ ~failed
    /\ failed' = TRUE
    /\ UNCHANGED <<waiting, outcome>>

\* The process dies with its callers; what it left behind decides `failed`.
CrashAudit ==
    /\ failed' \in BOOLEAN
    /\ waiting' = <<>>
    /\ outcome' = [c \in Callers |-> IF outcome[c] = "waiting" THEN "crashed" ELSE outcome[c]]

AuditStep ==
    \/ SettleOldest
    \/ OtherWriteFails

AuditNext ==
    \/ \E c \in Callers : Request(c)
    \/ AuditStep
    \/ CrashAudit

AuditSpec == AuditInit /\ [][AuditNext]_auditVars
=============================================================================
