--------------------------- MODULE RequestRouter ---------------------------
(***************************************************************************)
(* The native side of the bridge: the request router                       *)
(* (native/MastercamMcp.Core/Router.cs) and the pipe listener that feeds   *)
(* it (native/MastercamMcp.Addin.2027/EntryPoint.cs).  Three kinds of      *)
(* threads meet: the connection's read loop, the worker that alone calls   *)
(* Mastercam, and the pool threads that deliver responses and deadlines.   *)
(*                                                                         *)
(* Simplifications.                                                        *)
(*  - A request stands for its command and for its idempotency record.     *)
(*    Each is sent once; a retry is another request with the same key.     *)
(*  - Frames that Handle refuses for their form or tool change nothing and *)
(*    are left out, and so is what a response says.                        *)
(*  - A record has no age: any completed one may have expired, and any of  *)
(*    the completed ones may be the oldest.                                *)
(*  - A deadline may pass at any moment.                                   *)
(*  - The listener is never stopped (nothing calls BridgeHost.Stop), so    *)
(*    Dispose is left out.                                                 *)
(*  - `dropped` is a history variable.                                     *)
(***************************************************************************)
EXTENDS Integers, FiniteSets, Sequences

CONSTANTS
    Requests,
    Reads,                  \* requests for a tool of risk class Read
    Deadlined,              \* requests that carry a deadline
    RequestId, Key, Action, \* of each request: its id, idempotency key, action identity
    NoKey,
    MaxQueuedCommands,
    MaxIdempotencyEntries,
    MaxSent                 \* bound: how many of the requests are sent in a behaviour

ASSUME RouterAssumption ==
    /\ Reads \subseteq Requests /\ Deadlined \subseteq Requests
    /\ MaxQueuedCommands \in Nat \ {0}
    /\ MaxIdempotencyEntries \in Nat
    /\ MaxIdempotencyEntries >= MaxQueuedCommands + 2

VARIABLES
    connection,   \* "listening", "open", or "closing" while responses are awaited
    queue,
    inFlight,     \* commands, each under its request's id
    idempotency,  \* the records, each under its request's key
    stage,        \* how far each request has come
    original,     \* for a replay, the request whose completion it awaits
    cancelled,    \* commands whose token is cancelled
    dropped       \* requests whose record was pruned

vars == <<connection, queue, inFlight, idempotency, stage, original, cancelled, dropped>>

Working == {"admitted", "queued", "taken", "invoking"}
Outstanding == Working \cup {"completed", "replaying"}
Stages == Outstanding \cup {"unsent", "refused", "answered", "replayed"}

In(stages) == {r \in Requests : stage[r] \in stages}
Becomes(r, s) == stage' = [stage EXCEPT ![r] = s]

Completed == In({"completed", "answered"})
Accepted == In({"queued", "taken", "invoking", "completed", "answered"})
Handling == In({"admitted"})                    \* Handle is between admission and queue
ResponseTasks == In(Outstanding \ {"admitted"})

Keyed(r) == r \notin Reads /\ Key[r] # NoKey
SameId(r) == {s \in inFlight : RequestId[s] = RequestId[r]}
RecordsOf(map, key) == {s \in map : Key[s] = key}
-----------------------------------------------------------------------------
(* Handle, on the thread of the read loop. *)

Reading == connection = "open" /\ Handling = {}

Receives(r) ==
    /\ Reading
    /\ stage[r] = "unsent"
    /\ Cardinality(Requests \ In({"unsent"})) < MaxSent

IdFreeAlways(r) == TRUE \* mutant: inFlight.ContainsKey is not asked
IdFree(r) == SameId(r) = {}

\* The deadline has passed, or the request's id is in flight.
RefuseAtDoor(r) ==
    /\ Receives(r)
    /\ r \in Deadlined \/ ~IdFree(r)
    /\ Becomes(r, "refused")
    /\ UNCHANGED <<connection, queue, inFlight, idempotency, original, cancelled, dropped>>

\* PruneIdempotency: completed records that have expired go, and when the map
\* is full the oldest completed ones.
PrunableAnyway(map) == map \* mutant: IsCompleted is not asked
Prunable(map) == map \cap Completed

FullTooLate(map) == Cardinality(map) > MaxIdempotencyEntries \* mutant: > instead of >=
Full(map) == Cardinality(map) >= MaxIdempotencyEntries

Least(m, n) == IF m <= n THEN m ELSE n
Surplus(map) ==
    Least(Cardinality(map) - MaxIdempotencyEntries + 1, Cardinality(Prunable(map)))

Overflows(map) ==
    IF Full(map)
    THEN {oldest \in SUBSET Prunable(map) : Cardinality(oldest) = Surplus(map)}
    ELSE {{}}

PrunesTo(left) ==
    \E expired \in SUBSET Prunable(idempotency) :
        \E oldest \in Overflows(idempotency \ expired) :
            left = (idempotency \ expired) \ oldest

Prune(left) == PrunesTo(left) /\ dropped' = dropped \cup (idempotency \ left)

\* The key has a record of another action.
RefuseConflict(r) ==
    /\ Receives(r) /\ IdFree(r) /\ Keyed(r)
    /\ idempotency' \in SUBSET idempotency /\ Prune(idempotency')
    /\ \E s \in RecordsOf(idempotency', Key[r]) : Action[s] # Action[r]
    /\ Becomes(r, "refused")
    /\ UNCHANGED <<connection, queue, inFlight, original, cancelled>>

\* The key has a record of this action: its completion is this one's, too.
StartReplay(r) ==
    /\ Receives(r) /\ IdFree(r) /\ Keyed(r)
    /\ idempotency' \in SUBSET idempotency /\ Prune(idempotency')
    /\ \E s \in RecordsOf(idempotency', Key[r]) :
          /\ Action[s] = Action[r]
          /\ original' = [original EXCEPT ![r] = s]
    /\ Becomes(r, "replaying")
    /\ UNCHANGED <<connection, queue, inFlight, cancelled>>

\* The command is in flight, under its key if it has one, and not yet queued.
Admit(r) ==
    /\ Receives(r) /\ IdFree(r)
    /\ IF Keyed(r)
       THEN \E left \in SUBSET idempotency :
                /\ Prune(left)
                /\ RecordsOf(left, Key[r]) = {}
                /\ idempotency' = left \cup {r}
       ELSE UNCHANGED <<idempotency, dropped>>
    /\ inFlight' = (inFlight \ SameId(r)) \cup {r}
    /\ Becomes(r, "admitted")
    /\ UNCHANGED <<connection, queue, original, cancelled>>

Enqueue(r) ==
    /\ stage[r] = "admitted"
    /\ Len(queue) < MaxQueuedCommands
    /\ queue' = Append(queue, r)
    /\ Becomes(r, "queued")
    /\ UNCHANGED <<connection, inFlight, idempotency, original, cancelled, dropped>>

WithoutNone(r) == idempotency \* mutant: the record of a refused command stays
Without(r) == IF Keyed(r) THEN idempotency \ RecordsOf(idempotency, Key[r]) ELSE idempotency

\* The queue is full: the admission is taken back, and the token disposed of.
RefuseForLoad(r) ==
    /\ stage[r] = "admitted"
    /\ Len(queue) >= MaxQueuedCommands
    /\ inFlight' = inFlight \ SameId(r)
    /\ idempotency' = Without(r)
    /\ cancelled' = cancelled \ {r}
    /\ Becomes(r, "refused")
    /\ UNCHANGED <<connection, queue, original, dropped>>

\* A cancel frame.
Cancel(r) ==
    /\ Reading
    /\ ~(SameId(r) \subseteq cancelled)
    /\ cancelled' = cancelled \cup SameId(r)
    /\ UNCHANGED <<connection, queue, inFlight, idempotency, stage, original, dropped>>
-----------------------------------------------------------------------------
(* The listener: one connection at a time. *)

Connect ==
    /\ connection = "listening"
    /\ connection' = "open"
    /\ UNCHANGED <<queue, inFlight, idempotency, stage, original, cancelled, dropped>>

\* The read loop ends; its `finally` cancels whatever is in flight.
Disconnect ==
    /\ Reading
    /\ connection' = "closing"
    /\ cancelled' = cancelled \cup inFlight
    /\ UNCHANGED <<queue, inFlight, idempotency, stage, original, dropped>>

ResponsesNotAwaited == TRUE \* mutant: no Task.WhenAll in the finally
ResponsesDone == ResponseTasks = {}

\* The responses are awaited, and Listen cancels and waits for the next client.
ListenAgain ==
    /\ connection = "closing"
    /\ ResponsesDone
    /\ connection' = "listening"
    /\ cancelled' = cancelled \cup inFlight
    /\ UNCHANGED <<queue, inFlight, idempotency, stage, original, dropped>>
-----------------------------------------------------------------------------
(* The worker thread: it changes the queue and the stage of its command. *)

WorkerOnly == UNCHANGED <<connection, inFlight, idempotency, original, cancelled, dropped>>

Take ==
    /\ In({"taken", "invoking"}) = {}
    /\ queue # <<>>
    /\ queue' = Tail(queue)
    /\ Becomes(Head(queue), "taken")
    /\ WorkerOnly

\* The token is asked before the adapter is called.
BeginsUnasked(r) == TRUE \* mutant: no ThrowIfCancellationRequested before Invoke
MayBegin(r) == r \notin cancelled

AbortBeforeInvoke(r) ==
    /\ stage[r] = "taken" /\ ~MayBegin(r)
    /\ Becomes(r, "completed")
    /\ UNCHANGED queue /\ WorkerOnly

\* From the check on the command counts as begun: Execute asks once before it calls the
\* adapter, so a cancel between the check and the call finds it begun.
Invoke(r) ==
    /\ stage[r] = "taken" /\ MayBegin(r)
    /\ Becomes(r, "invoking")
    /\ UNCHANGED queue /\ WorkerOnly

\* The adapter returns or throws, and the completion is set to what came of it.
Return(r) ==
    /\ stage[r] = "invoking"
    /\ Becomes(r, "completed")
    /\ UNCHANGED queue /\ WorkerOnly
-----------------------------------------------------------------------------
(* Pool threads. *)

\* AwaitCompletion goes on: the command leaves inFlight, by its request's id,
\* and the source of its token is disposed of.
Respond(r) ==
    /\ stage[r] = "completed"
    /\ Becomes(r, "answered")
    /\ inFlight' = inFlight \ SameId(r)
    /\ cancelled' = cancelled \ {r}
    /\ UNCHANGED <<connection, queue, idempotency, original, dropped>>

\* Replay goes on when the original is completed.
Replay(r) ==
    /\ stage[r] = "replaying"
    /\ original[r] \in Completed
    /\ Becomes(r, "replayed")
    /\ original' = [original EXCEPT ![r] = r]
    /\ UNCHANGED <<connection, queue, inFlight, idempotency, cancelled, dropped>>

\* CancelAfter.
DeadlinePasses(r) ==
    /\ r \in Deadlined \ cancelled
    /\ stage[r] \in Working
    /\ cancelled' = cancelled \cup {r}
    /\ UNCHANGED <<connection, queue, inFlight, idempotency, stage, original, dropped>>
-----------------------------------------------------------------------------
Init ==
    /\ connection = "listening"
    /\ queue = <<>> /\ inFlight = {} /\ idempotency = {}
    /\ stage = [r \in Requests |-> "unsent"]
    /\ original = [r \in Requests |-> r]
    /\ cancelled = {} /\ dropped = {}

HandleStep(r) ==
    \/ RefuseAtDoor(r) \/ RefuseConflict(r) \/ StartReplay(r) \/ Admit(r)
    \/ Enqueue(r) \/ RefuseForLoad(r)
    \/ Cancel(r)

WorkerStep == Take \/ \E r \in Requests : AbortBeforeInvoke(r) \/ Invoke(r) \/ Return(r)

PoolStep == \E r \in Requests : Respond(r) \/ Replay(r)

Next ==
    \/ \E r \in Requests : HandleStep(r)
    \/ Connect \/ Disconnect \/ ListenAgain
    \/ WorkerStep
    \/ PoolStep
    \/ \E r \in Requests : DeadlinePasses(r)

Spec == Init /\ [][Next]_vars

\* Threads run, and the adapter returns from every call.
FairSpec ==
    /\ Spec
    /\ WF_vars(WorkerStep)
    /\ WF_vars(\E r \in Requests : Enqueue(r) \/ RefuseForLoad(r))
    /\ WF_vars(ListenAgain)
    /\ WF_vars(PoolStep)
-----------------------------------------------------------------------------
\* The type invariant; the queue and the idempotency map stay within their
\* bounds, although a record whose mutation is not completed cannot be pruned.
RouterTypeOK ==
    /\ connection \in {"listening", "open", "closing"}
    /\ queue \in Seq(Requests) /\ Len(queue) <= MaxQueuedCommands
    /\ inFlight \subseteq Requests
    /\ idempotency \subseteq Requests /\ Cardinality(idempotency) <= MaxIdempotencyEntries
    /\ stage \in [Requests -> Stages]
    /\ original \in [Requests -> Requests]
    /\ cancelled \subseteq Requests /\ dropped \subseteq Requests

\* A cancel frame, or the cancelling of everything when the client is gone,
\* reaches each command that has not completed: no other request takes its
\* place in inFlight, and none takes it out.
CancelReachesIt ==
    \A r \in Requests : stage[r] \in Working => SameId(r) = {r}

\* A mutation is queued again under a key only when an earlier one has completed
\* and its record was pruned: until then every retry, on this connection or the
\* next, is answered by that one.
KeyRunsOnce ==
    \A r, s \in Accepted :
        (r # s /\ Keyed(r) /\ Keyed(s) /\ Key[r] = Key[s]) =>
            dropped \cap {r, s} \cap Completed # {}

\* No work of a client goes on when the next one is served.
ClientEndsItsWork ==
    connection = "listening" =>
        queue = <<>> /\ inFlight = {} /\ In(Working) = {} /\ In({"replaying"}) = {}

\* Once the client is gone nothing more of what it asked for begins in Mastercam:
\* of the commands that were admitted only the one the adapter is at goes on.
NothingBeginsForTheGone ==
    [][connection = "closing" => In({"invoking"})' \subseteq In({"invoking"})]_vars

\* Whatever is cancelled, refused or replayed: when MaxSent requests were sent at
\* most, a time comes when each that the router has taken on is answered, and a
\* listener that lost its client listens again.
EveryRequestAnswered ==
    /\ In(Outstanding) # {} ~> In(Outstanding) = {}
    /\ connection = "closing" ~> connection = "listening"
=============================================================================
