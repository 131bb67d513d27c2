--------------------------- MODULE ApprovalLedger ---------------------------
(***************************************************************************)
(* The ledger of previews, applied transactions, rollback receipts and     *)
(* idempotency keys of src/src/safety/approval.ts.                         *)
(*                                                                         *)
(* Simplifications.                                                        *)
(*  - A map is a set of records; `stamp` tells their order of insertion,   *)
(*    which trimOldest goes by, and `expiresAt` when evict drops them.     *)
(*  - An applied transaction and its receipt have ids of their own in the  *)
(*    code; here both go by the token that was applied, which is used once *)
(*    and of which createRollback makes one receipt.                       *)
(*  - `used` is left out: the code sets it on records that it has deleted  *)
(*    or deletes at once.                                                  *)
(*  - Every operation evicts before it looks, at the same instant, so the  *)
(*    expiry checks that follow a lookup never find anything.              *)
(***************************************************************************)
EXTENDS Integers, FiniteSetsExt, PartDocument

CONSTANTS
    Tokens,     \* approval tokens
    Keys,       \* idempotency keys
    NoKey,      \* a call without an idempotency key
    MaxLedger,  \* the capacity of each map
    Ttl,        \* how long a record lives
    MaxTime     \* the clock stops here (bounds the model)

ASSUME LedgerAssumption ==
    /\ NoKey \notin Keys
    /\ MaxLedger \in Nat \ {0}
    /\ Ttl \in Nat
    /\ MaxTime \in Nat

VARIABLES now, previews, applied, rollbacks, idempotency

ledger == <<previews, applied, rollbacks, idempotency>>

Actions == {"apply", "rollback"}
Times == 0..(MaxTime + Ttl)
PreviewRecord == [token : Tokens, op : Operations, changes : Changes,
                  documentRevision : Documents, fingerprint : [Fields -> Values],
                  expiresAt : Times, stamp : Nat]
ApplyRecord == [token : Tokens, op : Operations, before : Changes, after : Changes,
                expiresAt : Times, stamp : Nat]
RollbackRecord == [token : Tokens, op : Operations, restored : Changes,
                   restoredSource : Changes, expiresAt : Times, stamp : Nat]
IdempotencyRecord == [key : Keys, action : Actions, token : Tokens,
                      expiresAt : Times, stamp : Nat]
-----------------------------------------------------------------------------
\* evict: what is left of a map at this time.
Live(map) == {r \in map : r.expiresAt >= now}

Newer(map, r) == {s \in map : s.stamp > r.stamp}

\* trimOldest.
Trimmed(map) == {r \in map : Cardinality(Newer(map, r)) < MaxLedger}

\* Map.set with a new key, and trimOldest.
NextStamp(map) == 1 + Max({r.stamp : r \in map} \cup {0})
Put(map, r) == Trimmed(map \cup {[r EXCEPT !.stamp = NextStamp(map)]})

Of(map, token) == {r \in map : r.token = token}
Expiry == now + Ttl

Evict ==
    /\ previews' = Live(previews)
    /\ applied' = Live(applied)
    /\ rollbacks' = Live(rollbacks)
    /\ idempotency' = Live(idempotency)

\* createPreview.
CreatePreview(token, op, changes, document, revision) ==
    /\ previews' = Put(Live(previews),
           [token |-> token, op |-> op, changes |-> changes,
            documentRevision |-> revision, fingerprint |-> document[op],
            expiresAt |-> Expiry, stamp |-> 0])
    /\ applied' = Live(applied)
    /\ rollbacks' = Live(rollbacks)
    /\ idempotency' = Live(idempotency)

\* peekPreview.
Peek(token) == Of(Live(previews), token)

\* consumePreview refuses a preview of another state of the operation or document.
NeverStale(p, document, revision) == FALSE \* mutant: the comparisons are missing
Stale(p, document, revision) ==
    \/ p.fingerprint # document[p.op]
    \/ p.documentRevision # revision

\* consumePreview deletes the preview before it compares.
PreviewsWithout(token) == Live(previews) \ Peek(token)

ConsumeStale(token) ==
    /\ previews' = PreviewsWithout(token)
    /\ applied' = Live(applied)
    /\ rollbacks' = Live(rollbacks)
    /\ idempotency' = Live(idempotency)

\* consumePreview, recordApply and createRollback.
RecordApply(p) ==
    LET before == Before([op \in {p.op} |-> p.fingerprint], p.op, p.changes)
    IN  /\ previews' = PreviewsWithout(p.token)
        /\ applied' = Put(Live(applied),
               [token |-> p.token, op |-> p.op, before |-> before, after |-> p.changes,
                expiresAt |-> Expiry, stamp |-> 0])
        /\ rollbacks' = Put(Live(rollbacks),
               [token |-> p.token, op |-> p.op, restored |-> before,
                restoredSource |-> p.changes, expiresAt |-> Expiry, stamp |-> 0])
        /\ idempotency' = Live(idempotency)

\* discardApplied does not evict.
DiscardApplied(token) ==
    /\ applied' = applied \ Of(applied, token)
    /\ rollbacks' = rollbacks \ Of(rollbacks, token)
    /\ UNCHANGED <<previews, idempotency>>

\* peekApplied and peekRollback.
PeekApplied(token) == Of(Live(applied), token)
PeekRollback(token) == Of(Live(rollbacks), token)

\* idempotencyKeySeen: what the key was used for.
Seen(key) == {i \in Live(idempotency) : i.key = key}

\* What rememberIdempotency makes of the idempotency map.
Remembered(key, action, token) ==
    IF key = NoKey
    THEN idempotency
    ELSE Put(Live(idempotency) \ Seen(key),
             [key |-> key, action |-> action, token |-> token,
              expiresAt |-> Expiry, stamp |-> 0])

LedgerTypeOK ==
    /\ now \in 0..MaxTime
    /\ previews \subseteq PreviewRecord
    /\ applied \subseteq ApplyRecord
    /\ rollbacks \subseteq RollbackRecord
    /\ idempotency \subseteq IdempotencyRecord
=============================================================================
