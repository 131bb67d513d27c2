------------------------ MODULE RequestRouterProofs ------------------------
(***************************************************************************)
(* Proofs about RequestRouter for any requests, ids, keys and limits.  The *)
(* invariant has a part for the queue and the threads, one for inFlight,   *)
(* one for the idempotency records and one for the connection; each is     *)
(* shown to be kept by every step under the assumption of all.             *)
(***************************************************************************)
EXTENDS RequestRouter, FiniteSetTheorems, TLAPS

ShapesInv ==
    /\ connection \in {"listening", "open", "closing"}
    /\ stage \in [Requests -> Stages]
    /\ original \in [Requests -> Requests]
    /\ cancelled \subseteq Requests

\* The queue holds what is queued, once each; one command is being handled and
\* one executed at a time.
ThreadsInv ==
    /\ queue \in Seq(Requests) /\ Len(queue) <= MaxQueuedCommands
    /\ \A i \in 1..Len(queue) : stage[queue[i]] = "queued"
    /\ \A r \in In({"queued"}) : \E i \in 1..Len(queue) : queue[i] = r
    /\ \A i, j \in 1..Len(queue) : queue[i] = queue[j] => i = j
    /\ \A r, s \in In({"taken", "invoking"}) : r = s
    /\ \A r, s \in Handling : r = s

FlightInv ==
    /\ inFlight = In(Working \cup {"completed"})
    /\ \A r, s \in inFlight : RequestId[r] = RequestId[s] => r = s

\* A mutation that was admitted under a key has its record or was completed
\* before the record was dropped.
RecordsInv ==
    /\ idempotency \subseteq Accepted \cup Handling
    /\ \A r \in idempotency : Keyed(r)
    /\ \A r, s \in idempotency : Key[r] = Key[s] => r = s
    /\ \A r \in Accepted \cup Handling : Keyed(r) => r \in idempotency \cup dropped
    /\ dropped \subseteq Completed

ConnectionInv ==
    /\ Handling # {} => connection = "open"
    /\ connection = "listening" => In(Outstanding) = {}
    /\ connection = "closing" => In({"queued", "taken"}) \subseteq cancelled

BoundInv ==
    /\ IsFiniteSet(idempotency)
    /\ Cardinality(idempotency) <= MaxIdempotencyEntries

RouterInv == ShapesInv /\ ThreadsInv /\ FlightInv /\ RecordsInv /\ ConnectionInv /\ BoundInv
-----------------------------------------------------------------------------
LEMMA InitHolds == Init => RouterInv
<1> SUFFICES ASSUME Init PROVE RouterInv
    OBVIOUS
<1> USE RouterAssumption DEF Init, RouterAssumption
<1>1. ShapesInv
    BY DEF ShapesInv, Stages
<1>2. ThreadsInv
    BY DEF ThreadsInv, In, Handling
<1>3. FlightInv
    BY DEF FlightInv, In, Working
<1>4. RecordsInv
    BY DEF RecordsInv, In, Accepted, Handling
<1>5. ConnectionInv
    BY DEF ConnectionInv, In, Outstanding, Working, Handling
<1>6. BoundInv
    BY FS_EmptySet DEF BoundInv
<1> QED BY <1>1, <1>2, <1>3, <1>4, <1>5, <1>6 DEF RouterInv

LEMMA StageChanges ==
    ASSUME ShapesInv, NEW r \in Requests, NEW s \in Stages, Becomes(r, s)
    PROVE  /\ stage' \in [Requests -> Stages]
           /\ stage'[r] = s
           /\ \A u \in Requests : u # r => stage'[u] = stage[u]
BY DEF ShapesInv, Becomes

\* What pruning takes away was completed.
LEMMA PruningSpares ==
    ASSUME NEW left, Prune(left)
    PROVE  /\ left \subseteq idempotency
           /\ idempotency \ left \subseteq Completed
           /\ dropped' = dropped \cup (idempotency \ left)
<1>1. PICK expired \in SUBSET Prunable(idempotency) :
        \E oldest \in Overflows(idempotency \ expired) :
            left = (idempotency \ expired) \ oldest
    BY DEF Prune, PrunesTo
<1>2. PICK oldest \in Overflows(idempotency \ expired) :
        left = (idempotency \ expired) \ oldest
    BY <1>1
<1>3. oldest \subseteq Completed
    BY <1>2 DEF Overflows, Prunable
<1> QED BY <1>1, <1>2, <1>3 DEF Prune, Prunable
-----------------------------------------------------------------------------
LEMMA ShapesKept ==
    ASSUME RouterInv, Next
    PROVE  ShapesInv'
<1> USE DEF RouterInv, Stages, Outstanding, Working
<1>1. ASSUME NEW r \in Requests, HandleStep(r) PROVE ShapesInv'
    <2>1. CASE RefuseAtDoor(r)
        BY <2>1, StageChanges DEF RefuseAtDoor, ShapesInv
    <2>2. CASE RefuseConflict(r)
        BY <2>2, StageChanges DEF RefuseConflict, ShapesInv
    <2>3. CASE StartReplay(r)
        <3>1. PICK s \in idempotency' : original' = [original EXCEPT ![r] = s]
            BY <2>3 DEF StartReplay, RecordsOf
        <3>2. s \in Requests
            BY <2>3 DEF StartReplay, RecordsInv, Accepted, Handling, In
        <3> QED BY <2>3, <3>1, <3>2, StageChanges DEF StartReplay, ShapesInv
    <2>4. CASE Admit(r)
        BY <2>4, StageChanges DEF Admit, ShapesInv
    <2>5. CASE Enqueue(r)
        BY <2>5, StageChanges DEF Enqueue, ShapesInv
    <2>6. CASE RefuseForLoad(r)
        BY <2>6, StageChanges DEF RefuseForLoad, ShapesInv
    <2>7. CASE Cancel(r)
        BY <2>7 DEF Cancel, ShapesInv, SameId, FlightInv, In
    <2> QED BY <1>1, <2>1, <2>2, <2>3, <2>4, <2>5, <2>6, <2>7 DEF HandleStep
<1>2. CASE Connect
    BY <1>2 DEF Connect, ShapesInv
<1>3. CASE Disconnect \/ ListenAgain
    BY <1>3 DEF Disconnect, ListenAgain, ShapesInv, FlightInv, In
<1>4. CASE WorkerStep
    <2>1. CASE Take
        <3>1. Head(queue) \in Requests
            BY <2>1 DEF Take, ThreadsInv
        <3> QED BY <2>1, <3>1, StageChanges DEF Take, WorkerOnly, ShapesInv
    <2>2. ASSUME NEW r \in Requests, AbortBeforeInvoke(r) \/ Invoke(r) \/ Return(r)
          PROVE  ShapesInv'
        BY <2>2, StageChanges DEF AbortBeforeInvoke, Invoke, Return, WorkerOnly, ShapesInv
    <2> QED BY <1>4, <2>1, <2>2 DEF WorkerStep
<1>5. CASE PoolStep
    <2>1. ASSUME NEW r \in Requests, Respond(r) PROVE ShapesInv'
        BY <2>1, StageChanges DEF Respond, ShapesInv
    <2>2. ASSUME NEW r \in Requests, Replay(r) PROVE ShapesInv'
        BY <2>2, StageChanges DEF Replay, ShapesInv
    <2> QED BY <1>5, <2>1, <2>2 DEF PoolStep
<1>6. ASSUME NEW r \in Requests, DeadlinePasses(r) PROVE ShapesInv'
    BY <1>6 DEF DeadlinePasses, ShapesInv
<1> QED BY <1>1, <1>2, <1>3, <1>4, <1>5, <1>6 DEF Next
-----------------------------------------------------------------------------
\* A step that leaves the queue and moves no request into or out of these stages.
LEMMA ThreadsUnmoved ==
    ASSUME ThreadsInv, UNCHANGED queue,
           \A u \in Requests :
              /\ (stage[u] = "queued") = (stage'[u] = "queued")
              /\ stage'[u] \in {"taken", "invoking"} => stage[u] \in {"taken", "invoking"}
              /\ stage'[u] = "admitted" => stage[u] = "admitted"
    PROVE  ThreadsInv'
BY DEF ThreadsInv, In, Handling

LEMMA AdmitKeepsThreads ==
    ASSUME RouterInv, NEW r \in Requests, Admit(r)
    PROVE  ThreadsInv'
<1> USE DEF RouterInv
<1>1. /\ stage'[r] = "admitted" /\ stage[r] = "unsent"
      /\ \A u \in Requests : u # r => stage'[u] = stage[u]
      /\ queue' = queue /\ Handling = {}
    BY StageChanges DEF Admit, Receives, Reading, Stages, Outstanding, Working
<1> QED BY <1>1 DEF ThreadsInv, In, Handling

LEMMA EnqueueKeepsThreads ==
    ASSUME RouterInv, NEW r \in Requests, Enqueue(r)
    PROVE  ThreadsInv'
<1> USE DEF RouterInv
<1>1. /\ stage'[r] = "queued" /\ stage[r] = "admitted"
      /\ \A u \in Requests : u # r => stage'[u] = stage[u]
    BY StageChanges DEF Enqueue, Stages, Outstanding, Working
<1>2. /\ queue' \in Seq(Requests) /\ Len(queue') = Len(queue) + 1
      /\ \A i \in 1..Len(queue) : queue'[i] = queue[i] /\ queue[i] # r
      /\ queue'[Len(queue) + 1] = r
      /\ Len(queue') <= MaxQueuedCommands
    BY <1>1, RouterAssumption DEF RouterAssumption, Enqueue, ThreadsInv
<1>3. \A i \in 1..Len(queue') : i \in 1..Len(queue) \/ i = Len(queue) + 1
    BY <1>2
<1>4. \A i \in 1..Len(queue') : stage'[queue'[i]] = "queued"
    BY <1>1, <1>2, <1>3 DEF ThreadsInv
<1>5. \A i, j \in 1..Len(queue') : queue'[i] = queue'[j] => i = j
    BY <1>2, <1>3 DEF ThreadsInv
<1>6. \A u \in In({"queued"})' : \E i \in 1..Len(queue') : queue'[i] = u
    <2> TAKE u \in In({"queued"})'
    <2>1. CASE u = r
        BY <2>1, <1>2 DEF ThreadsInv
    <2>2. CASE u # r
        <3>1. PICK i \in 1..Len(queue) : queue[i] = u
            BY <2>2, <1>1 DEF ThreadsInv, In
        <3> QED BY <3>1, <1>2
    <2> QED BY <2>1, <2>2
<1>7. /\ \A u, v \in In({"taken", "invoking"})' : u = v
      /\ \A u, v \in Handling' : u = v
    BY <1>1 DEF ThreadsInv, In, Handling
<1> QED BY <1>2, <1>4, <1>5, <1>6, <1>7 DEF ThreadsInv

LEMMA TakeKeepsThreads ==
    ASSUME RouterInv, Take
    PROVE  ThreadsInv'
<1> USE DEF RouterInv
<1> DEFINE r == Head(queue)
<1>1. r \in Requests /\ r = queue[1] /\ Len(queue) \in Nat \ {0}
    BY DEF Take, ThreadsInv
<1>2. /\ stage'[r] = "taken" /\ stage[r] = "queued"
      /\ \A u \in Requests : u # r => stage'[u] = stage[u]
    BY <1>1, StageChanges DEF Take, Stages, Outstanding, Working, ThreadsInv
<1>3. /\ queue' \in Seq(Requests) /\ Len(queue') = Len(queue) - 1
      /\ \A i \in 1..Len(queue') : queue'[i] = queue[i + 1] /\ i + 1 \in 1..Len(queue)
    BY <1>1 DEF Take, ThreadsInv
<1>4. \A i \in 1..Len(queue') : queue'[i] # r /\ queue'[i] \in Requests
    BY <1>1, <1>3 DEF ThreadsInv
<1>5. \A i \in 1..Len(queue') : stage'[queue'[i]] = "queued"
    BY <1>2, <1>3, <1>4 DEF ThreadsInv
<1>6. \A i, j \in 1..Len(queue') : queue'[i] = queue'[j] => i = j
    <2> TAKE i, j \in 1..Len(queue')
    <2> HAVE queue'[i] = queue'[j]
    <2>1. i + 1 = j + 1
        BY <1>3 DEF ThreadsInv
    <2> QED BY <2>1
<1>7. \A u \in In({"queued"})' : \E i \in 1..Len(queue') : queue'[i] = u
    <2> TAKE u \in In({"queued"})'
    <2>1. u # r /\ u \in In({"queued"})
        BY <1>2 DEF In
    <2>2. PICK i \in 1..Len(queue) : queue[i] = u
        BY <2>1 DEF ThreadsInv
    <2>3. i # 1 /\ i - 1 \in 1..Len(queue') /\ (i - 1) + 1 = i
        BY <2>1, <2>2, <1>1, <1>3
    <2> QED BY <2>2, <2>3, <1>3
<1>8. /\ \A u, v \in In({"taken", "invoking"})' : u = v
      /\ \A u, v \in Handling' : u = v
    BY <1>2 DEF Take, ThreadsInv, In, Handling
<1>9. Len(queue') <= MaxQueuedCommands
    BY <1>1, <1>3, RouterAssumption DEF RouterAssumption, ThreadsInv
<1> QED BY <1>3, <1>5, <1>6, <1>7, <1>8, <1>9 DEF ThreadsInv

LEMMA ThreadsKept ==
    ASSUME RouterInv, Next
    PROVE  ThreadsInv'
<1> USE DEF RouterInv, Stages, Outstanding, Working
<1>1. ASSUME NEW r \in Requests, HandleStep(r) PROVE ThreadsInv'
    <2>1. CASE RefuseAtDoor(r) \/ RefuseConflict(r) \/ StartReplay(r)
        BY <2>1, StageChanges, ThreadsUnmoved
           DEF RefuseAtDoor, RefuseConflict, StartReplay, Receives
    <2>2. CASE Admit(r)
        BY <2>2, AdmitKeepsThreads
    <2>3. CASE Enqueue(r)
        BY <2>3, EnqueueKeepsThreads
    <2>4. CASE RefuseForLoad(r)
        BY <2>4, StageChanges, ThreadsUnmoved DEF RefuseForLoad
    <2>5. CASE Cancel(r)
        BY <2>5, ThreadsUnmoved DEF Cancel
    <2> QED BY <1>1, <2>1, <2>2, <2>3, <2>4, <2>5 DEF HandleStep
<1>2. CASE Connect \/ Disconnect \/ ListenAgain
    BY <1>2, ThreadsUnmoved DEF Connect, Disconnect, ListenAgain
<1>3. CASE WorkerStep
    <2>1. ASSUME NEW r \in Requests, AbortBeforeInvoke(r) \/ Invoke(r) \/ Return(r)
          PROVE  ThreadsInv'
        BY <2>1, StageChanges, ThreadsUnmoved DEF AbortBeforeInvoke, Invoke, Return
    <2> QED BY <1>3, <2>1, TakeKeepsThreads DEF WorkerStep
<1>4. CASE PoolStep
    BY <1>4, StageChanges, ThreadsUnmoved DEF PoolStep, Respond, Replay
<1>5. ASSUME NEW r \in Requests, DeadlinePasses(r) PROVE ThreadsInv'
    BY <1>5, ThreadsUnmoved DEF DeadlinePasses
<1> QED BY <1>1, <1>2, <1>3, <1>4, <1>5 DEF Next
-----------------------------------------------------------------------------
LEMMA FlightKept ==
    ASSUME RouterInv, Next
    PROVE  FlightInv'
<1> USE DEF RouterInv, Stages, Outstanding, Working
<1>1. ASSUME NEW r \in Requests, HandleStep(r) PROVE FlightInv'
    <2>1. CASE RefuseAtDoor(r) \/ RefuseConflict(r) \/ StartReplay(r)
        BY <2>1, StageChanges
           DEF RefuseAtDoor, RefuseConflict, StartReplay, Receives, FlightInv, In
    <2>2. CASE Admit(r)
        <3>1. inFlight' = inFlight \cup {r} /\ SameId(r) = {}
            BY <2>2 DEF Admit, IdFree
        <3>2. inFlight' = In(Working \cup {"completed"})'
            BY <2>2, <3>1, StageChanges DEF Admit, FlightInv, In
        <3> QED BY <3>1, <3>2 DEF FlightInv, SameId
    <2>3. CASE Enqueue(r)
        BY <2>3, StageChanges DEF Enqueue, FlightInv, In
    <2>4. CASE RefuseForLoad(r)
        <3>1. SameId(r) = {r}
            BY <2>4 DEF RefuseForLoad, FlightInv, SameId, In
        <3> QED BY <2>4, <3>1, StageChanges DEF RefuseForLoad, FlightInv, In
    <2>5. CASE Cancel(r)
        BY <2>5 DEF Cancel, FlightInv, In
    <2> QED BY <1>1, <2>1, <2>2, <2>3, <2>4, <2>5 DEF HandleStep
<1>2. CASE Connect \/ Disconnect \/ ListenAgain
    BY <1>2 DEF Connect, Disconnect, ListenAgain, FlightInv, In
<1>3. CASE WorkerStep
    <2>1. CASE Take
        <3>1. Head(queue) \in Requests /\ stage[Head(queue)] = "queued"
            BY <2>1 DEF Take, ThreadsInv
        <3> QED BY <2>1, <3>1, StageChanges DEF Take, WorkerOnly, FlightInv, In
    <2>2. ASSUME NEW r \in Requests, AbortBeforeInvoke(r) \/ Invoke(r) \/ Return(r)
          PROVE  FlightInv'
        BY <2>2, StageChanges DEF AbortBeforeInvoke, Invoke, Return, WorkerOnly, FlightInv, In
    <2> QED BY <1>3, <2>1, <2>2 DEF WorkerStep
<1>4. ASSUME NEW r \in Requests, Respond(r) PROVE FlightInv'
    <2>1. SameId(r) = {r}
        BY <1>4 DEF Respond, FlightInv, SameId, In
    <2> QED BY <1>4, <2>1, StageChanges DEF Respond, FlightInv, In
<1>5. ASSUME NEW r \in Requests, Replay(r) PROVE FlightInv'
    BY <1>5, StageChanges DEF Replay, FlightInv, In
<1>6. ASSUME NEW r \in Requests, DeadlinePasses(r) PROVE FlightInv'
    BY <1>6 DEF DeadlinePasses, FlightInv, In
<1> QED BY <1>1, <1>2, <1>3, <1>4, <1>5, <1>6 DEF Next, PoolStep
-----------------------------------------------------------------------------
\* A step that moves no request back and admits none, with the records as they are.
LEMMA RecordsUnmoved ==
    ASSUME RecordsInv, UNCHANGED <<idempotency, dropped>>,
           \A u \in Requests :
              /\ (u \in Accepted \cup Handling) = (u \in (Accepted \cup Handling)')
              /\ u \in Completed => u \in Completed'
    PROVE  RecordsInv'
BY DEF RecordsInv, Accepted, Handling, Completed, In

\* Pruning alone keeps the records right.
LEMMA PruningKeepsRecords ==
    ASSUME RecordsInv, Prune(idempotency'),
           \A u \in Requests :
              /\ (u \in Accepted \cup Handling) = (u \in (Accepted \cup Handling)')
              /\ u \in Completed => u \in Completed'
    PROVE  RecordsInv'
<1>1. /\ idempotency' \subseteq idempotency
      /\ idempotency \ idempotency' \subseteq Completed
      /\ dropped' = dropped \cup (idempotency \ idempotency')
    BY PruningSpares
<1>2. Accepted \cup Handling = (Accepted \cup Handling)' /\ Completed \subseteq Completed'
    BY DEF Accepted, Handling, Completed, In
<1> QED BY <1>1, <1>2 DEF RecordsInv

LEMMA AdmitKeepsRecords ==
    ASSUME RouterInv, NEW r \in Requests, Admit(r)
    PROVE  RecordsInv'
<1> USE DEF RouterInv
<1>1. /\ stage'[r] = "admitted" /\ stage[r] = "unsent"
      /\ \A u \in Requests : u # r => stage'[u] = stage[u]
    BY StageChanges DEF Admit, Receives, Stages, Outstanding, Working
<1>2. Accepted' = Accepted /\ Handling' = Handling \cup {r} /\ Completed' = Completed
    BY <1>1 DEF Accepted, Handling, Completed, In
<1>3. CASE Keyed(r)
    <2>1. PICK left \in SUBSET idempotency :
            Prune(left) /\ RecordsOf(left, Key[r]) = {} /\ idempotency' = left \cup {r}
        BY <1>3 DEF Admit
    <2>2. /\ idempotency \ left \subseteq Completed
          /\ dropped' = dropped \cup (idempotency \ left)
        BY <2>1, PruningSpares
    <2> QED BY <1>2, <1>3, <2>1, <2>2 DEF RecordsInv, RecordsOf, Keyed
<1>4. CASE ~Keyed(r)
    <2>1. UNCHANGED <<idempotency, dropped>>
        BY <1>4 DEF Admit
    <2> QED BY <1>2, <1>4, <2>1 DEF RecordsInv, Keyed
<1> QED BY <1>3, <1>4

LEMMA RefusalKeepsRecords ==
    ASSUME RouterInv, NEW r \in Requests, RefuseForLoad(r)
    PROVE  RecordsInv'
<1> USE DEF RouterInv
<1>1. /\ stage'[r] = "refused" /\ stage[r] = "admitted"
      /\ \A u \in Requests : u # r => stage'[u] = stage[u]
    BY StageChanges DEF RefuseForLoad, Stages, Outstanding, Working
<1>2. Accepted' = Accepted /\ Handling' = Handling \ {r} /\ Completed' = Completed
    BY <1>1 DEF Accepted, Handling, Completed, In
<1>3. r \in Handling /\ r \notin Accepted /\ r \notin Completed
    BY <1>1 DEF Accepted, Handling, Completed, In
<1>4. idempotency' = idempotency \ {r}
    BY <1>3 DEF RefuseForLoad, Without, RecordsOf, RecordsInv
<1> QED BY <1>2, <1>3, <1>4 DEF RefuseForLoad, RecordsInv, Keyed

LEMMA RecordsKept ==
    ASSUME RouterInv, Next
    PROVE  RecordsInv'
<1> USE DEF RouterInv, Stages, Outstanding, Working
<1>1. ASSUME NEW r \in Requests, HandleStep(r) PROVE RecordsInv'
    <2>1. CASE RefuseAtDoor(r)
        BY <2>1, StageChanges, RecordsUnmoved
           DEF RefuseAtDoor, Receives, Accepted, Handling, Completed, In
    <2>2. CASE RefuseConflict(r) \/ StartReplay(r)
        BY <2>2, StageChanges, PruningKeepsRecords
           DEF RefuseConflict, StartReplay, Receives, Accepted, Handling, Completed, In
    <2>3. CASE Admit(r)
        BY <2>3, AdmitKeepsRecords
    <2>4. CASE Enqueue(r)
        BY <2>4, StageChanges, RecordsUnmoved DEF Enqueue, Accepted, Handling, Completed, In
    <2>5. CASE RefuseForLoad(r)
        BY <2>5, RefusalKeepsRecords
    <2>6. CASE Cancel(r)
        BY <2>6, RecordsUnmoved DEF Cancel, Accepted, Handling, Completed, In
    <2> QED BY <1>1, <2>1, <2>2, <2>3, <2>4, <2>5, <2>6 DEF HandleStep
<1>2. CASE Connect \/ Disconnect \/ ListenAgain
    BY <1>2, RecordsUnmoved
       DEF Connect, Disconnect, ListenAgain, Accepted, Handling, Completed, In
<1>3. CASE WorkerStep
    <2>1. CASE Take
        <3>1. Head(queue) \in Requests /\ stage[Head(queue)] = "queued"
            BY <2>1 DEF Take, ThreadsInv
        <3> QED BY <2>1, <3>1, StageChanges, RecordsUnmoved
                DEF Take, WorkerOnly, Accepted, Handling, Completed, In
    <2>2. ASSUME NEW r \in Requests, AbortBeforeInvoke(r) \/ Invoke(r) \/ Return(r)
          PROVE  RecordsInv'
        BY <2>2, StageChanges, RecordsUnmoved
           DEF AbortBeforeInvoke, Invoke, Return, WorkerOnly, Accepted, Handling, Completed, In
    <2> QED BY <1>3, <2>1, <2>2 DEF WorkerStep
<1>4. ASSUME NEW r \in Requests, Respond(r) \/ Replay(r) PROVE RecordsInv'
    BY <1>4, StageChanges, RecordsUnmoved
       DEF Respond, Replay, Accepted, Handling, Completed, In
<1>5. ASSUME NEW r \in Requests, DeadlinePasses(r) PROVE RecordsInv'
    BY <1>5, RecordsUnmoved DEF DeadlinePasses, Accepted, Handling, Completed, In
<1> QED BY <1>1, <1>2, <1>3, <1>4, <1>5 DEF Next, PoolStep
-----------------------------------------------------------------------------
LEMMA ConnectionKept ==
    ASSUME RouterInv, Next
    PROVE  ConnectionInv'
<1> USE DEF RouterInv, Stages, Outstanding, Working
<1>1. ASSUME NEW r \in Requests, HandleStep(r) PROVE ConnectionInv'
    <2>1. connection = "open" /\ connection' = "open"
        BY <1>1 DEF HandleStep, RefuseAtDoor, RefuseConflict, StartReplay, Admit, Enqueue,
                    RefuseForLoad, Cancel, Receives, Reading, ConnectionInv, Handling, In
    <2> QED BY <2>1 DEF ConnectionInv
<1>2. CASE Connect
    BY <1>2 DEF Connect, ConnectionInv, In, Handling
<1>3. CASE Disconnect
    BY <1>3 DEF Disconnect, Reading, ConnectionInv, FlightInv, In, Handling
<1>4. CASE ListenAgain
    BY <1>4 DEF ListenAgain, ResponsesDone, ResponseTasks, ConnectionInv, In, Handling
<1>5. CASE WorkerStep
    <2>1. CASE Take
        <3>1. Head(queue) \in Requests /\ stage[Head(queue)] = "queued"
            BY <2>1 DEF Take, ThreadsInv
        <3> QED BY <2>1, <3>1, StageChanges DEF Take, WorkerOnly, ConnectionInv, In, Handling
    <2>2. ASSUME NEW r \in Requests, AbortBeforeInvoke(r) \/ Invoke(r) \/ Return(r)
          PROVE  ConnectionInv'
        BY <2>2, StageChanges
           DEF AbortBeforeInvoke, Invoke, Return, WorkerOnly, ConnectionInv, In, Handling
    <2> QED BY <1>5, <2>1, <2>2 DEF WorkerStep
<1>6. ASSUME NEW r \in Requests, Respond(r) \/ Replay(r) PROVE ConnectionInv'
    BY <1>6, StageChanges DEF Respond, Replay, ConnectionInv, In, Handling
<1>7. ASSUME NEW r \in Requests, DeadlinePasses(r) PROVE ConnectionInv'
    BY <1>7 DEF DeadlinePasses, ConnectionInv, In, Handling
<1> QED BY <1>1, <1>2, <1>3, <1>4, <1>5, <1>6, <1>7 DEF Next, PoolStep
-----------------------------------------------------------------------------
LEMMA IntervalCounts ==
    ASSUME NEW n \in Nat
    PROVE  IsFiniteSet(1..n) /\ Cardinality(1..n) = n
BY FS_Interval

LEMMA UnionAtMost ==
    ASSUME NEW S, NEW T, IsFiniteSet(S), IsFiniteSet(T),
           NEW m \in Nat, NEW n \in Nat, Cardinality(S) <= m, Cardinality(T) <= n
    PROVE  IsFiniteSet(S \cup T) /\ Cardinality(S \cup T) <= m + n
<1>1. /\ Cardinality(S) \in Nat /\ Cardinality(T) \in Nat
      /\ Cardinality(S \cap T) \in Nat
    BY FS_CardinalityType, FS_Intersection
<1>2. /\ IsFiniteSet(S \cup T)
      /\ Cardinality(S \cup T) = Cardinality(S) + Cardinality(T) - Cardinality(S \cap T)
    BY FS_Union
<1> QED BY <1>1, <1>2

\* Between two frames a record that cannot be pruned is of a command that is in
\* the queue, or of the one the worker is at.
LEMMA FewUncompleted ==
    ASSUME RouterInv, Handling = {}, NEW map \in SUBSET idempotency
    PROVE  /\ IsFiniteSet(map \ Completed)
           /\ Cardinality(map \ Completed) <= MaxQueuedCommands + 1
<1> USE RouterAssumption DEF RouterAssumption, RouterInv
<1> DEFINE queued == In({"queued"})
           executed == In({"taken", "invoking"})
<1>1. IsFiniteSet(queued) /\ Cardinality(queued) <= MaxQueuedCommands
    <2>1. Len(queue) \in Nat /\ Len(queue) <= MaxQueuedCommands
        BY DEF ThreadsInv
    <2>2. IsFiniteSet(1..Len(queue)) /\ Cardinality(1..Len(queue)) = Len(queue)
        BY <2>1, IntervalCounts
    <2>3. queue \in Surjection(1..Len(queue), queued)
        BY DEF ThreadsInv, Surjection, In
    <2>4. IsFiniteSet(queued) /\ Cardinality(queued) <= Cardinality(1..Len(queue))
        BY <2>2, <2>3, FS_Surjection DEF ExistsSurjection
    <2>5. Cardinality(queued) \in Nat
        BY <2>4, FS_CardinalityType
    <2> HIDE DEF queued
    <2> QED BY <2>1, <2>2, <2>4, <2>5
<1>2. IsFiniteSet(executed) /\ Cardinality(executed) <= 1
    <2>1. CASE executed = {}
        BY <2>1, FS_EmptySet
    <2>2. CASE executed # {}
        <3>1. PICK r \in executed : executed = {r}
            BY <2>2 DEF ThreadsInv
        <3>2. IsFiniteSet({r}) /\ Cardinality({r}) = 1
            BY FS_Singleton
        <3> HIDE DEF executed
        <3> QED BY <3>1, <3>2
    <2> QED BY <2>1, <2>2
<1>3. map \ Completed \subseteq queued \cup executed
    BY DEF RecordsInv, Accepted, Completed, In
<1> HIDE DEF queued, executed
<1>4. /\ IsFiniteSet(queued \cup executed)
      /\ Cardinality(queued \cup executed) <= MaxQueuedCommands + 1
    BY <1>1, <1>2, UnionAtMost
<1>5. /\ IsFiniteSet(map \ Completed)
      /\ Cardinality(map \ Completed) <= Cardinality(queued \cup executed)
    BY <1>3, <1>4, FS_Subset
<1> QED BY <1>4, <1>5, FS_CardinalityType

\* Pruning always makes room for one record more.
LEMMA PruningMakesRoom ==
    ASSUME RouterInv, Handling = {}, NEW left, Prune(left)
    PROVE  IsFiniteSet(left) /\ Cardinality(left) < MaxIdempotencyEntries
<1> USE RouterAssumption DEF RouterAssumption, RouterInv
<1>1. PICK expired \in SUBSET Prunable(idempotency) :
        \E oldest \in Overflows(idempotency \ expired) :
            left = (idempotency \ expired) \ oldest
    BY DEF Prune, PrunesTo
<1> DEFINE young == idempotency \ expired
<1>2. PICK oldest \in Overflows(young) : left = young \ oldest
    BY <1>1
<1>3. /\ IsFiniteSet(young) /\ Cardinality(young) \in Nat
      /\ Cardinality(young) <= MaxIdempotencyEntries
    BY FS_Subset, FS_CardinalityType DEF BoundInv
<1>4. CASE ~Full(young)
    <2>1. left = young
        BY <1>2, <1>4 DEF Overflows
    <2> QED BY <1>3, <1>4, <2>1 DEF Full
<1>5. CASE Full(young)
    <2>1. /\ oldest \subseteq Prunable(young)
          /\ Cardinality(oldest) = Surplus(young)
        BY <1>2, <1>5 DEF Overflows
    <2> DEFINE prunable == Prunable(young)
    <2>2. young \ prunable = young \ Completed /\ prunable \subseteq young
        BY DEF Prunable
    <2>3. /\ Cardinality(young \ Completed) <= MaxQueuedCommands + 1
          /\ Cardinality(young \ Completed) \in Nat
        BY FewUncompleted, FS_CardinalityType
    <2> HIDE DEF young, prunable
    <2>4. IsFiniteSet(prunable) /\ Cardinality(prunable) \in Nat
        BY <1>3, <2>2, FS_Subset, FS_CardinalityType
    <2>5. Cardinality(young \ prunable) = Cardinality(young) - Cardinality(prunable)
        BY <1>3, <2>2, FS_Difference, young \cap prunable = prunable
    <2>6. Cardinality(prunable) >= 1
        BY RouterAssumption, <1>3, <1>5, <2>2, <2>3, <2>4, <2>5 DEF Full
    <2>7. Cardinality(oldest) = 1
        BY <1>3, <1>5, <2>1, <2>4, <2>6 DEF Full, Surplus, Least, prunable
    <2>8. /\ IsFiniteSet(left)
          /\ Cardinality(left) = Cardinality(young) - Cardinality(young \cap oldest)
        BY <1>2, <1>3, FS_Difference
    <2>9. young \cap oldest = oldest
        BY <2>1, <2>2 DEF prunable
    <2>10. Cardinality(left) = Cardinality(young) - 1
        BY <2>7, <2>8, <2>9
    <2> QED BY <1>3, <2>8, <2>10
<1> QED BY <1>4, <1>5

LEMMA BoundKept ==
    ASSUME RouterInv, Next
    PROVE  BoundInv'
<1> USE RouterAssumption DEF RouterAssumption, RouterInv
<1>1. ASSUME idempotency' \subseteq idempotency PROVE BoundInv'
    BY <1>1, FS_Subset, FS_CardinalityType DEF BoundInv
<1>2. ASSUME NEW r \in Requests, HandleStep(r) PROVE BoundInv'
    <2>1. CASE Admit(r) /\ Keyed(r)
        <3>1. PICK left \in SUBSET idempotency : Prune(left) /\ idempotency' = left \cup {r}
            BY <2>1 DEF Admit
        <3>2. IsFiniteSet(left) /\ Cardinality(left) < MaxIdempotencyEntries
            BY <2>1, <3>1, PruningMakesRoom DEF Admit, Receives, Reading
        <3>3. Cardinality(left) \in Nat
            BY <3>2, FS_CardinalityType
        <3>4. /\ IsFiniteSet(left \cup {r})
              /\ Cardinality(left \cup {r}) \in {Cardinality(left), Cardinality(left) + 1}
            BY <3>2, FS_AddElement
        <3> QED BY <3>1, <3>2, <3>3, <3>4 DEF BoundInv
    <2>2. CASE Admit(r) /\ ~Keyed(r)
        BY <2>2, <1>1 DEF Admit
    <2>3. CASE ~Admit(r)
        BY <1>2, <2>3, <1>1
           DEF HandleStep, RefuseAtDoor, RefuseConflict, StartReplay, Enqueue,
               RefuseForLoad, Without, Cancel
    <2> QED BY <2>1, <2>2, <2>3
<1>3. CASE Connect \/ Disconnect \/ ListenAgain
    BY <1>3, <1>1 DEF Connect, Disconnect, ListenAgain
<1>4. CASE WorkerStep
    BY <1>4, <1>1 DEF WorkerStep, Take, AbortBeforeInvoke, Invoke, Return, WorkerOnly
<1>5. CASE PoolStep
    BY <1>5, <1>1 DEF PoolStep, Respond, Replay
<1>6. ASSUME NEW r \in Requests, DeadlinePasses(r) PROVE BoundInv'
    BY <1>6, <1>1 DEF DeadlinePasses
<1> QED BY <1>2, <1>3, <1>4, <1>5, <1>6 DEF Next
-----------------------------------------------------------------------------
\* The parts of the invariant hold together in every reachable state; each needs the others.
THEOREM RouterInvariant == Spec => []RouterInv
<1>1. RouterInv /\ [Next]_vars => RouterInv'
    <2> SUFFICES ASSUME RouterInv, [Next]_vars PROVE RouterInv'
        OBVIOUS
    <2>1. CASE Next
        BY <2>1, ShapesKept, ThreadsKept, FlightKept, RecordsKept, ConnectionKept, BoundKept
           DEF RouterInv
    <2>2. CASE UNCHANGED vars
        BY <2>2 DEF vars, RouterInv, ShapesInv, ThreadsInv, FlightInv, RecordsInv,
                    ConnectionInv, BoundInv, In, Handling, Accepted, Completed
    <2> QED BY <2>1, <2>2
<1> QED BY <1>1, InitHolds, PTL DEF Spec

\* The types of Handle's and Execute's state; the queue and the idempotency map
\* of Router.cs stay within MaxQueuedCommands and MaxIdempotencyEntries.
THEOREM RouterTypeCorrect == Spec => []RouterTypeOK
<1>1. RouterInv => RouterTypeOK
    BY DEF RouterInv, ShapesInv, ThreadsInv, FlightInv, RecordsInv, BoundInv, RouterTypeOK,
           In, Accepted, Handling, Completed
<1> QED BY <1>1, RouterInvariant, PTL

\* Cancel and CancelAll of Router.cs find every command that has not completed.
THEOREM CancelsReach == Spec => []CancelReachesIt
<1>1. RouterInv => CancelReachesIt
    BY DEF RouterInv, FlightInv, CancelReachesIt, SameId, In
<1> QED BY <1>1, RouterInvariant, PTL

\* Of two commands that Handle queued under one key, one completed and lost its
\* record to PruneIdempotency.
THEOREM KeysRunOnce == Spec => []KeyRunsOnce
<1>1. RouterInv => KeyRunsOnce
    BY DEF RouterInv, RecordsInv, KeyRunsOnce
<1> QED BY <1>1, RouterInvariant, PTL

\* HandleConnectionAsync returns to Listen with nothing of its client under way.
THEOREM ClientsEndTheirWork == Spec => []ClientEndsItsWork
<1>1. ASSUME RouterInv, connection = "listening"
      PROVE  queue = <<>> /\ inFlight = {} /\ In(Working) = {} /\ In({"replaying"}) = {}
    <2>1. In(Outstanding) = {}
        BY <1>1 DEF RouterInv, ConnectionInv
    <2>2. inFlight = {} /\ In(Working) = {} /\ In({"replaying"}) = {}
        BY <1>1, <2>1 DEF RouterInv, FlightInv, In, Outstanding, Working
    <2>3. queue = <<>>
        <3>1. SUFFICES ASSUME queue # <<>> PROVE FALSE
            OBVIOUS
        <3>2. 1 \in 1..Len(queue) /\ queue[1] \in Requests
            BY <1>1, <3>1 DEF RouterInv, ThreadsInv
        <3>3. queue[1] \in In(Working)
            BY <1>1, <3>2 DEF RouterInv, ThreadsInv, In, Working
        <3> QED BY <2>2, <3>3
    <2> QED BY <2>2, <2>3
<1>2. RouterInv => ClientEndsItsWork
    BY <1>1 DEF ClientEndsItsWork
<1> QED BY <1>2, RouterInvariant, PTL

\* After the `finally` of HandleConnectionAsync has cancelled what is in flight
\* no command passes the token check of Execute.
THEOREM NothingBegins == Spec => NothingBeginsForTheGone
<1>1. ASSUME RouterInv, [Next]_vars, connection = "closing"
      PROVE  In({"invoking"})' \subseteq In({"invoking"})
    <2> USE <1>1 DEF RouterInv
    <2>1. CASE UNCHANGED stage
        BY <2>1 DEF In
    <2>2. ASSUME NEW r \in Requests, NEW s \in Stages, s # "invoking", Becomes(r, s)
          PROVE  In({"invoking"})' \subseteq In({"invoking"})
        BY <2>2, StageChanges DEF In
    <2>3. \A r \in Requests : ~HandleStep(r)
        BY DEF HandleStep, RefuseAtDoor, RefuseConflict, StartReplay, Admit, Enqueue,
               RefuseForLoad, Cancel, Receives, Reading, ConnectionInv, Handling, In
    <2>4. CASE Take
        BY <2>4, <2>2 DEF Take, ThreadsInv, Stages, Outstanding, Working
    <2>5. ASSUME NEW r \in Requests PROVE ~Invoke(r)
        BY DEF Invoke, MayBegin, ConnectionInv, In
    <2>6. ASSUME NEW r \in Requests, AbortBeforeInvoke(r) \/ Return(r) \/ Respond(r) \/ Replay(r)
          PROVE  In({"invoking"})' \subseteq In({"invoking"})
        BY <2>6, <2>2
           DEF AbortBeforeInvoke, Return, Respond, Replay, Stages, Outstanding, Working
    <2> QED BY <2>1, <2>3, <2>4, <2>5, <2>6
            DEF Next, WorkerStep, PoolStep, Connect, Disconnect, ListenAgain, DeadlinePasses, vars
<1>2. RouterInv /\ [Next]_vars
        => [connection = "closing" => In({"invoking"})' \subseteq In({"invoking"})]_vars
    BY <1>1
<1> QED BY <1>2, RouterInvariant, PTL DEF Spec, NothingBeginsForTheGone
=============================================================================
