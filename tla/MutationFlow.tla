---------------------------- MODULE MutationFlow ----------------------------
(***************************************************************************)
(* How a parameter change gets into the document: the approval gate of the *)
(* MCP server (src/src/mcp/create-server.ts) in front of the mutations of  *)
(* MockBackend (src/src/backend.ts), on the ledger of ApprovalLedger and   *)
(* the audit log's promise of CriticalAudit.                               *)
(*                                                                         *)
(* Simplifications.                                                        *)
(*  - The scheduler's mutation lane is a queue whose head runs: every      *)
(*    mutation has the same priority and the same document key.            *)
(*  - A signed request state names the preview it was minted for; it       *)
(*    matches that preview and no other.                                   *)
(*  - Of verify_change, the calls that name a transaction are kept, with   *)
(*    what they read of its operation; what they expect, and so whether    *)
(*    they pass, is left out.                                              *)
(*  - `offers`, `stage` and `asked` are history variables.                  *)
(***************************************************************************)
EXTENDS ApprovalLedger, Sequences, CriticalAudit

CONSTANTS
    Fixture,         \* the document that the backend starts with
    Mutator,         \* the caller that stands for the mutation lane
    MaxQueueDepth    \* mutations that may wait behind the running one

ASSUME FlowAssumption ==
    /\ Fixture \in Documents
    /\ Mutator \in Callers
    /\ MaxQueueDepth \in Nat \ {0}

VARIABLES
    doc,       \* the operations
    revision,  \* documentRevision of the operations, one with what it hashes
    pending,   \* pendingMutationPreviews of the server
    minted,    \* tokens for which a request state was minted
    lane,      \* the mutations scheduled; the head is running
    running,   \* "queued", or "audit" while the head waits for its audit record
    receipt,   \* what the running mutation holds on to during that wait
    verify,    \* the verify_change calls that wait for their audit record
    offers, stage, asked

flowVars == <<doc, revision, pending, minted, lane, running, receipt, verify, offers, stage, asked>>
vars == <<now, ledger, auditVars, flowVars>>

Verifiers == Callers \ {Mutator}
History == INSTANCE ApprovedChange

Mutations == [kind : Actions, token : Tokens, key : Keys \cup {NoKey}]
Move(t, to) == stage' = [stage EXCEPT ![t] = to]
-----------------------------------------------------------------------------
(* The tools that look: preview_operation_parameters and verify_change. *)

\* rememberMutationPreview.
Unexpired(map) == {p \in map : p.expiresAt > now}
RememberPreview(p) == pending' = IF p.expiresAt > now THEN Put(Unexpired(pending), p) ELSE pending

\* previewOperation: the preview is in the ledger even when its audit record
\* cannot be made and the call fails.
PreviewOperation(token, op, changes) ==
    /\ stage[token] = "none"
    /\ \A t \in Tokens : t < token => stage[t] # "none"
    /\ CreatePreview(token, op, changes, doc, revision)
    /\ IF failed
       THEN UNCHANGED pending
       ELSE RememberPreview(CHOOSE p \in previews' : p.token = token)
    /\ offers' = offers \cup {[token |-> token, op |-> op, changes |-> changes, on |-> doc]}
    /\ Move(token, "offered")
    /\ UNCHANGED <<now, auditVars, doc, revision, minted, lane, running, receipt, verify, asked>>

\* verify_change of transaction t, up to its audit record.
BeginVerify(caller, t) ==
    /\ \A v \in verify : v.caller # caller
    /\ \E r \in PeekApplied(t) :
           verify' = verify \cup {[caller |-> caller, token |-> t, op |-> r.op, read |-> doc[r.op]]}
    /\ Evict
    /\ Request(caller)
    /\ UNCHANGED <<now, doc, revision, pending, minted, lane, running, receipt, offers, stage, asked>>

\* The result of verify_change is returned, or its audit record failed.
EndVerify(v) ==
    /\ outcome[v.caller] # "waiting"
    /\ verify' = verify \ {v}
    /\ outcome' = [outcome EXCEPT ![v.caller] = "none"]
    /\ UNCHANGED <<now, ledger, waiting, failed, doc, revision, pending, minted, lane,
                   running, receipt, offers, stage, asked>>
-----------------------------------------------------------------------------
(* The approval gate of apply_operation_parameter_preview. *)

Shown(token) == Of(Unexpired(pending), token)

\* The pending preview is deleted, and a state minted for it is of no more use.
Forget(token) ==
    /\ pending' = pending \ Of(pending, token)
    /\ minted' = minted \ {token}

GateOnly == UNCHANGED <<now, ledger, auditVars, doc, revision, running, receipt, verify, offers>>

\* No preview to approve: none pending, or one that has expired.
NothingToApprove(token) ==
    /\ Shown(token) = {}
    /\ Forget(token)
    /\ UNCHANGED <<lane, stage, asked>>
    /\ GateOnly

\* The client has not brought an answer: it is asked for one.
AskOperator(token) ==
    /\ Shown(token) # {}
    /\ minted' = minted \cup {token}
    /\ UNCHANGED <<pending, lane, stage, asked>>
    /\ GateOnly

\* The client brings the state of another preview, an answer without a state,
\* or anything but an explicit yes.
RefuseApproval(token) ==
    /\ Shown(token) # {}
    /\ Forget(token)
    /\ UNCHANGED <<lane, stage, asked>>
    /\ GateOnly

\* scheduleMutation rejects a mutation when the queue is full.
LaneTakesMore == TRUE \* mutant: the depth of the queue is not checked
LaneTakes == Len(lane) <= MaxQueueDepth
Schedule(mutation) == lane' = IF LaneTakes THEN Append(lane, mutation) ELSE lane

\* The operator's yes comes back with the state minted for this preview.
Approve(token, key) ==
    /\ Shown(token) # {}
    /\ token \in minted
    /\ Forget(token)
    /\ Schedule([kind |-> "apply", token |-> token, key |-> key])
    /\ asked' = asked \cup {[kind |-> "apply", token |-> token]}
    /\ Move(token, "accepted")
    /\ GateOnly

\* rollback_change goes to the backend without asking the operator.  A client
\* knows the transactions that it has been told of.
RequestRollback(token, key) ==
    /\ stage[token] \in {"changed", "reverting", "reverted"}
    /\ Schedule([kind |-> "rollback", token |-> token, key |-> key])
    /\ UNCHANGED <<pending, minted, stage, asked>>
    /\ GateOnly
-----------------------------------------------------------------------------
(* The mutation lane: applyPreview and rollback. *)

Running(kind) == lane # <<>> /\ running = "queued" /\ Head(lane).kind = kind
Token == Head(lane).token
Key == Head(lane).key

KeyNeverUsed(key) == FALSE \* mutant: idempotencyKeySeen is not called
KeyUsed(key) == Seen(key) # {}

\* The mutation leaves the lane without having touched the document.
Refused ==
    /\ lane' = Tail(lane)
    /\ UNCHANGED <<now, auditVars, doc, revision, pending, minted, running, receipt,
                   verify, offers, stage, asked>>

\* The key was used, for this mutation or another, or there is no such preview,
\* or it is of another state of the document.
RefuseApply ==
    /\ Running("apply")
    /\ IF \E p \in Peek(Token) : ~KeyUsed(Key)
       THEN /\ \E p \in Peek(Token) : Stale(p, doc, revision)
            /\ ConsumeStale(Token)
       ELSE Evict
    /\ Refused

\* The document is changed, and the critical audit record is begun.
Mutate(to, held) ==
    /\ doc' = to
    /\ revision' = doc'
    /\ receipt' = {held}
    /\ running' = "audit"
    /\ Request(Mutator)
    /\ UNCHANGED <<now, pending, minted, lane, verify, offers, asked>>

ApplyPreview ==
    /\ Running("apply")
    /\ ~KeyUsed(Key)
    /\ \E p \in Peek(Token) :
          /\ ~Stale(p, doc, revision)
          /\ RecordApply(p)
          /\ Mutate(With(doc, p.op, p.changes),
                    [op |-> p.op, before |-> Before(doc, p.op, p.changes), after |-> p.changes])
    /\ Move(Token, "changing")

\* The receipt is gone, or the operation no longer is what the change made of it.
RefuseRollback ==
    /\ Running("rollback")
    /\ \/ KeyUsed(Key)
       \/ \A r \in PeekRollback(Token) : ~Holds(doc, r.op, r.restoredSource)
    /\ Evict
    /\ Refused

Rollback ==
    /\ Running("rollback")
    /\ ~KeyUsed(Key)
    /\ \E r \in PeekRollback(Token) :
          /\ Holds(doc, r.op, r.restoredSource)
          /\ Evict
          /\ Mutate(With(doc, r.op, r.restored),
                    [op |-> r.op, before |-> r.restoredSource, after |-> r.restored])
    /\ Move(Token, "reverting")

\* The audit record is settled and the mutation returns or throws.
SettledWell == outcome[Mutator] = "acked" \* mutant: no catch around recordCritical
Settled == outcome[Mutator] \in {"acked", "failed"}
Kept == outcome[Mutator] = "acked"

Finishing(kind) == running = "audit" /\ Head(lane).kind = kind /\ Settled
Finish ==
    /\ lane' = Tail(lane)
    /\ running' = "queued"
    /\ receipt' = {}
    /\ outcome' = [outcome EXCEPT ![Mutator] = "none"]
    /\ UNCHANGED <<now, waiting, failed, pending, minted, verify, offers, asked>>

\* rememberIdempotency, when there is a key.
Remember(kind) ==
    IF Key = NoKey
    THEN UNCHANGED <<previews, applied, idempotency>>
    ELSE /\ previews' = Live(previews)
         /\ applied' = Live(applied)
         /\ idempotency' = Remembered(Key, kind, Token)

FinishApply ==
    /\ Finishing("apply")
    /\ Kept
    /\ Remember("apply")
    /\ rollbacks' = IF Key = NoKey THEN rollbacks ELSE Live(rollbacks)
    /\ Move(Token, "changed")
    /\ UNCHANGED <<doc, revision>>
    /\ Finish

\* The change that could not be audited is undone.
Compensate ==
    /\ \E held \in receipt : doc' = With(doc, held.op, held.before)
    /\ revision' = doc'

FailApply ==
    /\ Finishing("apply")
    /\ ~Kept
    /\ Compensate
    /\ DiscardApplied(Token)
    /\ Move(Token, "failed")
    /\ Finish

\* commitRollback throws when the receipt was evicted during the wait; the
\* document stays as it is then, too.
FinishRollback ==
    /\ Finishing("rollback")
    /\ Kept
    /\ LET held == Of(rollbacks, Token)
       IN IF held = {}
          THEN UNCHANGED ledger
          ELSE /\ Remember("rollback")
               /\ rollbacks' = (IF Key = NoKey THEN rollbacks ELSE Live(rollbacks)) \ held
    /\ Move(Token, "reverted")
    /\ UNCHANGED <<doc, revision>>
    /\ Finish

FailRollback ==
    /\ Finishing("rollback")
    /\ ~Kept
    /\ Compensate
    /\ Move(Token, "changed")
    /\ UNCHANGED ledger
    /\ Finish
-----------------------------------------------------------------------------
AuditWrite ==
    /\ AuditStep
    /\ UNCHANGED <<now, ledger, flowVars>>

Tick ==
    /\ now < MaxTime
    /\ now' = now + 1
    /\ UNCHANGED <<ledger, auditVars, flowVars>>

Init ==
    /\ now = 0
    /\ previews = {} /\ applied = {} /\ rollbacks = {} /\ idempotency = {}
    /\ AuditInit
    /\ doc = Fixture
    /\ revision = doc
    /\ pending = {} /\ minted = {}
    /\ lane = <<>> /\ running = "queued" /\ receipt = {}
    /\ verify = {}
    /\ offers = {}
    /\ stage = [t \in Tokens |-> "none"]
    /\ asked = {}

ClientStep ==
    \/ \E token \in Tokens, op \in Operations, changes \in Changes : PreviewOperation(token, op, changes)
    \/ \E caller \in Verifiers, token \in Tokens : BeginVerify(caller, token)
    \/ \E token \in Tokens :
          NothingToApprove(token) \/ AskOperator(token) \/ RefuseApproval(token)
    \/ \E token \in Tokens, key \in Keys \cup {NoKey} :
          Approve(token, key) \/ RequestRollback(token, key)

LaneStep ==
    \/ RefuseApply \/ ApplyPreview \/ FinishApply \/ FailApply
    \/ RefuseRollback \/ Rollback \/ FinishRollback \/ FailRollback

Next ==
    \/ ClientStep
    \/ \E v \in verify : EndVerify(v)
    \/ LaneStep
    \/ AuditWrite
    \/ Tick

Spec == Init /\ [][Next]_vars

\* Promise continuations run, and a write that was begun returns.
FairSpec ==
    /\ Spec
    /\ WF_vars(LaneStep)
    /\ WF_vars(SettleOldest /\ UNCHANGED <<now, ledger, flowVars>>)
-----------------------------------------------------------------------------
FlowTypeOK ==
    /\ LedgerTypeOK
    /\ doc \in Documents /\ revision \in Documents
    /\ pending \subseteq PreviewRecord /\ minted \subseteq Tokens
    /\ lane \in Seq(Mutations) /\ Len(lane) <= MaxQueueDepth + 1
    /\ running \in {"queued", "audit"}
    /\ waiting \in Seq(Callers) /\ failed \in BOOLEAN /\ outcome \in [Callers -> Outcomes]
    /\ stage \in [Tokens -> History!Stages]
    /\ \A map \in {previews, applied, rollbacks, idempotency, pending} :
           Cardinality(map) <= MaxLedger

\* Whatever reads, previews and approvals come in between: the document changes
\* only as ApprovedChange says, on the exact document that was previewed, after
\* the operator's yes, once; what the audit log could not keep is undone.
ChangesAsApproved == History!ChangeSpec

\* A verify_change that passes for a transaction is never of an apply that is
\* later undone because its audit record failed, although it reads the document
\* during that wait.
VerifiedChangeStands ==
    \A v \in verify :
        outcome[v.caller] = "acked" =>
            \/ stage[v.token] \in {"changed", "reverting", "reverted"}
            \/ stage[v.token] = "changing" /\ outcome[Mutator] = "acked"

\* While an idempotency record is alive, its key is not taken over by another
\* mutation: not by one that was scheduled before the record was made.
KeyKeepsItsMeaning ==
    [][\A i \in Live(idempotency), j \in idempotency' :
          i.key = j.key => i.action = j.action /\ i.token = j.token]_vars

\* A document that a mutation has changed does not stay unaudited: the mutation
\* returns, or throws and undoes the change.
MutationSettles ==
    \A t \in Tokens :
        /\ stage[t] = "changing" ~> stage[t] # "changing"
        /\ stage[t] = "reverting" ~> stage[t] # "reverting"

\* docs/CAPABILITIES.md: rollback_change requires the operator's approval, as
\* apply_operation_parameter_preview does.
OperatorApprovesMutations ==
    \A n \in DOMAIN lane : [kind |-> lane[n].kind, token |-> lane[n].token] \in asked

\* docs/WORKFLOWS.md: verify_change rereads the operation and compares it with
\* the expected values; the revision that its result names has what was reread.
VerifiedRevisionHolds ==
    \A v \in verify : outcome[v.caller] = "acked" => revision[v.op] = v.read
=============================================================================
