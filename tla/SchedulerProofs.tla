-------------------------- MODULE SchedulerProofs --------------------------
(***************************************************************************)
(* Proofs about Scheduler for every set of tasks, every priority and every *)
(* limit.  The two lanes share only `sequence` and `status`, each on tasks *)
(* of its own, so the invariant is one of the reads and one of the         *)
(* mutations, and a step of one lane leaves the other's alone.             *)
(***************************************************************************)
EXTENDS Scheduler, FiniteSetTheorems, TLAPS

SharedInv ==
    /\ sequence \in Nat
    /\ status \in [Tasks -> Statuses]

ReadWaitersInv ==
    /\ readQueue \subseteq ReadWaiter
    /\ IsFiniteSet(readQueue)
    /\ Cardinality(readQueue) <= MaxQueueDepth
    /\ \A w \in readQueue : status[w.task] = "queued"
    /\ \A w, other \in readQueue : w.task = other.task => w = other

ReadsInv ==
    /\ readDrainScheduled \in BOOLEAN
    /\ ReadWaitersInv
    /\ IsFiniteSet(RunningReads)
    /\ readsInFlight = Cardinality(RunningReads)
    /\ readsInFlight <= MaxConcurrentReads
    /\ readQueue # {} /\ readsInFlight < MaxConcurrentReads => readDrainScheduled

NoLocks == [key \in DocumentKeys |-> <<>>]

\* No drain loop: the lane is at rest.
LaneRests ==
    /\ task = {} /\ mutationQueue = {}
    /\ ~drainingMutations /\ ~mutationActive
    /\ docLocks = NoLocks

\* One drain loop, awaiting one mutation that runs or is over.
LoopAwaits(w) ==
    /\ task = {w}
    /\ drainingMutations
    /\ \/ /\ status[w.task] = "started"
          /\ mutationActive
          /\ docLocks = [NoLocks EXCEPT ![w.key] = <<w.task>>]
       \/ /\ status[w.task] = "over"
          /\ ~mutationActive
          /\ docLocks = NoLocks

WaitersDiffer == \A w, other \in mutationQueue : w.task = other.task => w = other

MutationsInv ==
    /\ {drainingMutations, mutationActive} \subseteq BOOLEAN
    /\ mutationQueue \subseteq MutationWaiter
    /\ IsFiniteSet(mutationQueue)
    /\ Cardinality(mutationQueue) <= MaxQueueDepth
    /\ \A w \in mutationQueue : status[w.task] = "queued"
    /\ WaitersDiffer
    /\ LaneRests \/ \E w \in MutationWaiter : LoopAwaits(w)

LanesInv == SharedInv /\ ReadsInv /\ MutationsInv
-----------------------------------------------------------------------------
LEMMA ReadLaneUnmoved ==
    ASSUME ReadsInv, UNCHANGED readVars, \A t \in Reads : status'[t] = status[t]
    PROVE  ReadsInv'
<1>1. RunningReads' = RunningReads
    BY DEF RunningReads
<1>2. ReadWaitersInv'
    BY DEF ReadsInv, ReadWaitersInv, readVars, ReadWaiter
<1> QED BY <1>1, <1>2 DEF ReadsInv, readVars

LEMMA MutationLaneUnmoved ==
    ASSUME MutationsInv, UNCHANGED mutationVars, \A t \in Mutations : status'[t] = status[t]
    PROVE  MutationsInv'
<1>1. LaneRests => LaneRests'
    BY DEF LaneRests, mutationVars
<1>2. \A w \in MutationWaiter : LoopAwaits(w) => LoopAwaits(w)'
    BY DEF LoopAwaits, mutationVars, MutationWaiter
<1>3. \A w \in mutationQueue' : status'[w.task] = "queued"
    BY DEF MutationsInv, mutationVars, MutationWaiter
<1> QED BY <1>1, <1>2, <1>3 DEF MutationsInv, mutationVars, WaitersDiffer

\* A task that is rejected was in no queue and did not run.
LEMMA RejectKeepsLanes ==
    ASSUME LanesInv, NEW t \in Tasks, status[t] = "none", Reject(t)
    PROVE  LanesInv'
<1> USE DEF LanesInv, SharedInv, Reject
<1>1. status' \in [Tasks -> Statuses] /\ \A u \in Tasks : u # t => status'[u] = status[u]
    BY DEF Statuses
<1>2. status'[t] = "rejected"
    OBVIOUS
<1>3. RunningReads' = RunningReads
    BY <1>1, <1>2 DEF RunningReads, Tasks
<1>4. ReadWaitersInv'
    BY <1>1 DEF ReadsInv, ReadWaitersInv, readVars, ReadWaiter, Tasks
<1>5. ReadsInv'
    BY <1>3, <1>4 DEF ReadsInv, readVars
<1>6. LaneRests => LaneRests'
    BY DEF LaneRests, mutationVars
<1>7. \A w \in MutationWaiter : LoopAwaits(w) => LoopAwaits(w)'
    BY <1>1 DEF LoopAwaits, mutationVars, MutationWaiter, Tasks
<1>8. \A w \in mutationQueue' : status'[w.task] = "queued"
    BY <1>1 DEF MutationsInv, mutationVars, MutationWaiter, Tasks
<1>9. MutationsInv'
    BY <1>6, <1>7, <1>8 DEF MutationsInv, mutationVars, WaitersDiffer
<1> QED BY <1>1, <1>5, <1>9
-----------------------------------------------------------------------------
\* A queue that is not full has room for one more.
LEMMA OneMore ==
    ASSUME NEW queue, NEW w, IsFiniteSet(queue), Cardinality(queue) \in Nat,
           ~(Cardinality(queue) >= MaxQueueDepth)
    PROVE  IsFiniteSet(queue \cup {w}) /\ Cardinality(queue \cup {w}) <= MaxQueueDepth
BY SchedulerAssumption, FS_AddElement DEF SchedulerAssumption

LEMMA ScheduleReadKeepsLanes ==
    ASSUME LanesInv, NEW t \in Reads, ScheduleRead(t), ~Full(readQueue)
    PROVE  LanesInv'
<1> USE SchedulerAssumption DEF LanesInv, SharedInv, ScheduleRead
<1> DEFINE waiter == [task |-> t, priority |-> Priority[t], sequence |-> sequence]
<1>1. readQueue' = readQueue \cup {waiter} /\ waiter \in ReadWaiter
    BY DEF ReadWaiter
<1>2. status' = [status EXCEPT ![t] = "queued"] /\ t \in Tasks /\ status[t] = "none"
    BY DEF Tasks
<1>3. SharedInv'
    BY <1>2 DEF Statuses
<1>4. \A w \in readQueue : w.task \in Tasks /\ w.task # t
    BY DEF ReadsInv, ReadWaitersInv, ReadWaiter, Tasks
<1>5. ReadWaitersInv'
    <2>1. IsFiniteSet(readQueue) /\ Cardinality(readQueue) \in Nat
        BY FS_CardinalityType DEF ReadsInv, ReadWaitersInv
    <2>2. IsFiniteSet(readQueue') /\ Cardinality(readQueue') <= MaxQueueDepth
        BY <2>1, <1>1, OneMore DEF Full
    <2>3. \A w \in readQueue' : status'[w.task] = "queued"
        BY <1>1, <1>2, <1>4 DEF ReadsInv, ReadWaitersInv
    <2>4. \A w, other \in readQueue' : w.task = other.task => w = other
        BY <1>1, <1>4 DEF ReadsInv, ReadWaitersInv
    <2> QED BY <1>1, <2>2, <2>3, <2>4 DEF ReadsInv, ReadWaitersInv
<1>6. RunningReads' = RunningReads
    BY <1>2 DEF RunningReads, Tasks
<1>7. ReadsInv'
    BY <1>5, <1>6 DEF ReadsInv
<1>8. MutationsInv'
    BY <1>2, MutationLaneUnmoved DEF Tasks
<1> QED BY <1>3, <1>7, <1>8

\* The tasks of a set of waiters are as many as the waiters.
LEMMA TasksOfWaiters ==
    ASSUME ReadWaitersInv, NEW taken \in SUBSET readQueue
    PROVE  /\ IsFiniteSet(TasksOf(taken))
           /\ Cardinality(TasksOf(taken)) = Cardinality(taken)
<1> DEFINE f == [w \in taken |-> w.task]
<1>1. IsFiniteSet(taken)
    BY FS_Subset DEF ReadWaitersInv
<1>2. f \in Bijection(taken, TasksOf(taken))
    BY DEF Bijection, Injection, Surjection, IsInjective, TasksOf, ReadWaitersInv
<1> QED BY <1>1, <1>2, FS_Bijection DEF ExistsBijection

\* What is taken fills the slots or empties the queue.
LEMMA DrainReadsKeepsLanes ==
    ASSUME LanesInv, DrainReads
    PROVE  LanesInv'
<1> USE SchedulerAssumption DEF LanesInv, SharedInv, DrainReads
<1>1. PICK taken \in SUBSET readQueue :
        /\ Takes(taken)
        /\ readQueue' = readQueue \ taken
        /\ readsInFlight' = readsInFlight + Cardinality(taken)
        /\ status' = [t \in Tasks |-> IF t \in TasksOf(taken) THEN "started" ELSE status[t]]
    OBVIOUS
<1> DEFINE started == TasksOf(taken)
<1>2. started \subseteq Reads /\ \A t \in started : status[t] = "queued"
    BY DEF TasksOf, ReadsInv, ReadWaitersInv, ReadWaiter
<1>3. SharedInv'
    BY <1>1 DEF Statuses
<1>4. RunningReads' = RunningReads \cup started
    BY <1>1, <1>2 DEF RunningReads, Tasks
<1>5. RunningReads \cap started = {}
    BY <1>2 DEF RunningReads
<1>6. IsFiniteSet(started) /\ Cardinality(started) = Cardinality(taken)
    BY TasksOfWaiters DEF ReadsInv
<1>7. /\ Cardinality(RunningReads) \in Nat
      /\ Cardinality(readQueue) \in Nat
      /\ Cardinality(taken) \in Nat /\ IsFiniteSet(taken)
    BY <1>6, FS_CardinalityType, FS_Subset DEF ReadsInv, ReadWaitersInv
<1>8. /\ IsFiniteSet(RunningReads')
      /\ readsInFlight' = Cardinality(RunningReads')
    <2>1. /\ IsFiniteSet(RunningReads')
          /\ Cardinality(RunningReads') =
                Cardinality(RunningReads) + Cardinality(started)
                  - Cardinality(RunningReads \cap started)
        BY <1>4, <1>6, FS_Union DEF ReadsInv
    <2>2. Cardinality(RunningReads \cap started) = 0
        BY <1>5, FS_EmptySet
    <2> QED BY <1>1, <1>6, <1>7, <2>1, <2>2 DEF ReadsInv
<1>9. /\ readsInFlight' <= MaxConcurrentReads
      /\ readsInFlight' < MaxConcurrentReads => Cardinality(taken) = Cardinality(readQueue)
    BY <1>1, <1>7 DEF Takes, Least, FreeSlots, ReadsInv
<1>10. readsInFlight' < MaxConcurrentReads => readQueue' = {}
    BY <1>1, <1>9, FS_Subset DEF ReadsInv, ReadWaitersInv
<1>11. ReadWaitersInv'
    <2>1. IsFiniteSet(readQueue') /\ Cardinality(readQueue') <= Cardinality(readQueue)
        BY <1>1, FS_Subset DEF ReadsInv, ReadWaitersInv
    <2>2. Cardinality(readQueue') <= MaxQueueDepth
        BY <1>1, <1>7, <2>1, FS_CardinalityType DEF ReadsInv, ReadWaitersInv
    <2>3. \A w \in readQueue' : w.task \notin started /\ w.task \in Tasks
        BY <1>1 DEF TasksOf, ReadsInv, ReadWaitersInv, ReadWaiter, Tasks
    <2>4. \A w \in readQueue' : status'[w.task] = "queued"
        BY <1>1, <2>3 DEF ReadsInv, ReadWaitersInv
    <2> QED BY <1>1, <2>1, <2>2, <2>4 DEF ReadsInv, ReadWaitersInv
<1>12. ReadsInv'
    <2>1. readDrainScheduled' \in BOOLEAN
        BY Zenon
    <2> QED BY <2>1, <1>8, <1>9, <1>10, <1>11 DEF ReadsInv
<1>13. \A t \in Mutations : status'[t] = status[t]
    BY <1>1, <1>2 DEF Tasks
<1>14. MutationsInv'
    BY <1>13, MutationLaneUnmoved
<1> QED BY <1>3, <1>12, <1>14

LEMMA FinishReadKeepsLanes ==
    ASSUME LanesInv, NEW t \in Reads, FinishRead(t)
    PROVE  LanesInv'
<1> USE SchedulerAssumption DEF LanesInv, SharedInv, FinishRead
<1>1. t \in Tasks /\ status[t] = "started" /\ t \in RunningReads
    BY DEF Tasks, RunningReads
<1>2. SharedInv'
    BY DEF Statuses
<1>3. RunningReads' = RunningReads \ {t}
    BY <1>1 DEF RunningReads, Tasks
<1>4. Cardinality(RunningReads) \in Nat
    BY FS_CardinalityType DEF ReadsInv
<1>5. /\ IsFiniteSet(RunningReads')
      /\ readsInFlight' = Cardinality(RunningReads')
    BY <1>1, <1>3, FS_RemoveElement DEF ReadsInv
<1>6. readsInFlight' <= MaxConcurrentReads
    BY <1>4 DEF ReadsInv
<1>7. ReadWaitersInv'
    BY <1>1 DEF ReadsInv, ReadWaitersInv, ReadWaiter, Tasks
<1>8. ReadsInv'
    <2>1. readDrainScheduled' \in BOOLEAN /\ readDrainScheduled'
        BY Zenon DEF DrainScheduled
    <2> QED BY <2>1, <1>5, <1>6, <1>7 DEF ReadsInv
<1>9. MutationsInv'
    BY <1>1, MutationLaneUnmoved DEF Tasks
<1> QED BY <1>2, <1>8, <1>9
-----------------------------------------------------------------------------
\* A loop that shifts a waiter while no lock is held awaits that waiter, which runs.
LEMMA ShiftAwaits ==
    ASSUME NEW queue \in SUBSET MutationWaiter, NEW done \in [Tasks -> Statuses],
           docLocks = NoLocks, drainingMutations', Shift(queue, {}, done)
    PROVE  \E w \in queue :
              /\ LoopAwaits(w)'
              /\ mutationQueue' = queue \ {w}
              /\ status' = [done EXCEPT ![w.task] = "started"]
              /\ mutationActive'
<1>1. PICK w \in queue :
        /\ mutationQueue' = queue \ {w}
        /\ task' = {} \cup {w}
        /\ mutationActive' = TRUE
        /\ docLocks' = [docLocks EXCEPT ![w.key] = Append(@, w.task)]
        /\ status' = [done EXCEPT ![w.task] = "started"]
    BY Zenon DEF Shift
<1>2. w.key \in DocumentKeys /\ w.task \in Tasks
    BY DEF MutationWaiter, Tasks
<1>3. docLocks' = [NoLocks EXCEPT ![w.key] = <<w.task>>]
    <2>1. NoLocks[w.key] = <<>> /\ Append(<<>>, w.task) = <<w.task>>
        BY <1>2 DEF NoLocks
    <2>2. docLocks' = [NoLocks EXCEPT ![w.key] = Append(NoLocks[w.key], w.task)]
        BY <1>1
    <2> QED BY <2>1, <2>2
<1>4. status'[w.task] = "started" /\ task' = {w}
    BY <1>1, <1>2
<1>5. LoopAwaits(w)'
    BY <1>1, <1>3, <1>4, Zenon DEF LoopAwaits, NoLocks
<1> QED BY <1>1, <1>5, Zenon

LEMMA ScheduleMutationKeepsLanes ==
    ASSUME LanesInv, NEW t \in Mutations, ScheduleMutation(t), ~Full(mutationQueue)
    PROVE  LanesInv'
<1> USE SchedulerAssumption DEF LanesInv, SharedInv
<1> DEFINE waiter == [task |-> t, key |-> Key[t], priority |-> Priority[t],
                      sequence |-> sequence]
           queue == mutationQueue \cup {waiter}
<1>1. waiter \in MutationWaiter /\ waiter.task = t /\ t \in Tasks /\ t \notin Reads
    BY DEF MutationWaiter, Tasks
<1>2. /\ status[t] = "none" /\ sequence' = sequence + 1 /\ UNCHANGED readVars
      /\ drainingMutations' = TRUE
      /\ IF LoopMayStart
         THEN Shift(queue, task, status)
         ELSE /\ mutationQueue' = queue
              /\ status' = [status EXCEPT ![t] = "queued"]
              /\ UNCHANGED <<mutationActive, task, docLocks>>
    BY Zenon DEF ScheduleMutation
<1>3. queue \in SUBSET MutationWaiter
    BY <1>1 DEF MutationsInv
<1>4. CASE LoopMayStart
    <2>1. LaneRests
        BY <1>4 DEF LoopMayStart, MutationsInv, LoopAwaits
    <2>2. queue = {waiter} /\ task = {} /\ docLocks = NoLocks
        BY <2>1 DEF LaneRests
    <2> HIDE DEF queue, waiter
    <2>3. PICK w \in queue :
              /\ LoopAwaits(w)'
              /\ mutationQueue' = queue \ {w}
              /\ status' = [status EXCEPT ![w.task] = "started"]
              /\ mutationActive'
        BY <1>2, <1>3, <1>4, <2>2, ShiftAwaits
    <2>4. w = waiter /\ mutationQueue' = {}
        BY <2>2, <2>3
    <2>5. SharedInv'
        BY <1>1, <1>2, <2>3, <2>4 DEF Statuses
    <2>6. ReadsInv'
        BY <1>1, <1>2, <2>3, <2>4, ReadLaneUnmoved DEF Tasks
    <2>7. drainingMutations' \in BOOLEAN /\ mutationActive' \in BOOLEAN
        BY <1>2, <1>4, Zenon DEF Shift
    <2>8. IsFiniteSet(mutationQueue') /\ Cardinality(mutationQueue') <= MaxQueueDepth
        BY <2>4, FS_EmptySet
    <2>9. MutationsInv'
        BY <1>1, <2>3, <2>4, <2>7, <2>8 DEF MutationsInv, WaitersDiffer
    <2> QED BY <2>5, <2>6, <2>9
<1>5. CASE ~LoopMayStart
    <2>1. PICK w \in MutationWaiter : LoopAwaits(w)
        BY <1>5 DEF LoopMayStart, MutationsInv, LaneRests
    <2>2. /\ mutationQueue' = queue
          /\ status' = [status EXCEPT ![t] = "queued"]
          /\ UNCHANGED <<mutationActive, task, docLocks>>
        BY <1>2, <1>5
    <2>3. SharedInv'
        BY <1>1, <1>2, <2>2 DEF Statuses
    <2>4. ReadsInv'
        BY <1>1, <1>2, <2>2, ReadLaneUnmoved DEF Tasks
    <2>5. LoopAwaits(w)'
        BY <1>1, <1>2, <2>1, <2>2 DEF LoopAwaits, MutationWaiter, Tasks
    <2>6. \A other \in mutationQueue' : status'[other.task] = "queued"
        BY <1>1, <2>2 DEF MutationsInv, MutationWaiter, Tasks
    <2>7. IsFiniteSet(mutationQueue) /\ Cardinality(mutationQueue) \in Nat
        BY FS_CardinalityType DEF MutationsInv
    <2> HIDE DEF waiter
    <2>8. IsFiniteSet(mutationQueue') /\ Cardinality(mutationQueue') <= MaxQueueDepth
        BY <2>2, <2>7, OneMore DEF Full
    <2>9. drainingMutations' \in BOOLEAN /\ mutationActive' \in BOOLEAN
        BY <1>2, <2>2 DEF MutationsInv
    <2>10. WaitersDiffer'
        BY <1>1, <1>2, <2>2 DEF MutationsInv, WaitersDiffer
    <2>11. MutationsInv'
        BY <1>3, <2>2, <2>5, <2>6, <2>8, <2>9, <2>10 DEF MutationsInv
    <2> QED BY <2>3, <2>4, <2>11
<1> QED BY <1>4, <1>5

LEMMA EndMutationKeepsLanes ==
    ASSUME LanesInv, NEW w \in task, EndMutation(w)
    PROVE  LanesInv'
<1> USE SchedulerAssumption DEF LanesInv, SharedInv, EndMutation
<1>1. /\ w \in MutationWaiter /\ task = {w} /\ drainingMutations
      /\ docLocks = [NoLocks EXCEPT ![w.key] = <<w.task>>]
      /\ status[w.task] = "started"
    BY DEF RunningMutations, MutationsInv, LaneRests, LoopAwaits
<1>2. w.key \in DocumentKeys /\ w.task \in Mutations /\ w.task \in Tasks /\ w.task \notin Reads
    BY <1>1 DEF MutationWaiter, Tasks
<1>3. docLocks' = NoLocks
    BY <1>1, <1>2 DEF NoLocks
<1>4. status'[w.task] = "over" /\ SharedInv'
    BY <1>2 DEF Statuses
<1>5. LoopAwaits(w)'
    <2>1. ~mutationActive' /\ drainingMutations' /\ task' = {w}
        BY <1>1, Zenon
    <2> QED BY <2>1, <1>3, <1>4 DEF LoopAwaits, NoLocks
<1>6. \A other \in mutationQueue' : status'[other.task] = "queued"
    BY <1>1, <1>2 DEF MutationsInv, MutationWaiter, Tasks
<1>7. drainingMutations' \in BOOLEAN /\ mutationActive' \in BOOLEAN
    BY <1>1, Zenon DEF MutationsInv
<1>8. MutationsInv'
    BY <1>1, <1>5, <1>6, <1>7 DEF MutationsInv, WaitersDiffer
<1>9. ReadsInv'
    BY <1>2, ReadLaneUnmoved DEF Tasks
<1> QED BY <1>4, <1>8, <1>9

LEMMA ContinueDrainKeepsLanes ==
    ASSUME LanesInv, NEW w \in task, ContinueDrain(w)
    PROVE  LanesInv'
<1> USE SchedulerAssumption DEF LanesInv, SharedInv
<1> DEFINE done == [status EXCEPT ![w.task] = "settled"]
<1>1. /\ w \in MutationWaiter /\ task = {w} /\ drainingMutations
      /\ ~mutationActive /\ docLocks = NoLocks
      /\ status[w.task] = "over"
    BY DEF ContinueDrain, MutationsInv, LaneRests, LoopAwaits
<1>2. w.task \in Mutations /\ w.task \in Tasks /\ w.task \notin Reads
    BY <1>1 DEF MutationWaiter, Tasks
<1>3. done \in [Tasks -> Statuses] /\ task \ {w} = {}
    BY <1>1, <1>2 DEF Statuses
<1>4. UNCHANGED <<sequence, readVars>>
    BY DEF ContinueDrain
<1>5. \A other \in mutationQueue : other.task # w.task /\ done[other.task] = "queued"
    BY <1>1, <1>2 DEF MutationsInv, MutationWaiter, Tasks
<1>6. CASE mutationQueue = {}
    <2>1. /\ drainingMutations' = FALSE /\ task' = {} /\ status' = done
          /\ UNCHANGED <<mutationQueue, mutationActive, docLocks>>
        BY <1>3, <1>6 DEF ContinueDrain, LoopEnds
    <2>2. SharedInv'
        BY <1>3, <1>4, <2>1
    <2>3. ReadsInv'
        BY <1>2, <1>4, <2>1, ReadLaneUnmoved DEF Tasks
    <2>4. LaneRests'
        <3>1. ~drainingMutations' /\ ~mutationActive'
            BY <1>1, <2>1, Zenon
        <3> QED BY <1>1, <1>6, <2>1, <3>1 DEF LaneRests, NoLocks
    <2>5. drainingMutations' \in BOOLEAN /\ mutationActive' \in BOOLEAN
        BY <2>1, Zenon DEF MutationsInv
    <2>6. MutationsInv'
        BY <1>6, <2>1, <2>4, <2>5 DEF MutationsInv, WaitersDiffer
    <2> QED BY <2>2, <2>3, <2>6
<1>7. CASE mutationQueue # {}
    <2>1. Shift(mutationQueue, {}, done) /\ UNCHANGED drainingMutations
        BY <1>3, <1>7 DEF ContinueDrain
    <2> HIDE DEF done
    <2>2. drainingMutations'
        BY <1>1, <2>1
    <2>3. PICK next \in mutationQueue :
              /\ LoopAwaits(next)'
              /\ mutationQueue' = mutationQueue \ {next}
              /\ status' = [done EXCEPT ![next.task] = "started"]
              /\ mutationActive'
        BY <1>1, <1>3, <2>1, <2>2, ShiftAwaits DEF MutationsInv
    <2>4. next \in MutationWaiter /\ next.task \in Tasks /\ next.task \notin Reads
        BY DEF MutationsInv, MutationWaiter, Tasks
    <2>5. SharedInv'
        BY <1>3, <1>4, <2>3, <2>4 DEF Statuses
    <2>6. \A t \in Reads : status'[t] = status[t]
        BY <1>2, <1>3, <2>3, <2>4 DEF done, Tasks
    <2>7. ReadsInv'
        BY <1>4, <2>6, ReadLaneUnmoved
    <2>8. \A other \in mutationQueue' : status'[other.task] = "queued"
        <3> SUFFICES ASSUME NEW other \in mutationQueue' PROVE status'[other.task] = "queued"
            OBVIOUS
        <3>1. other \in mutationQueue /\ other # next
            BY <2>3
        <3>2. other.task # next.task
            BY <3>1 DEF MutationsInv, WaitersDiffer
        <3> QED BY <1>3, <1>5, <2>3, <2>4, <3>1, <3>2 DEF MutationWaiter, Tasks
    <2>9. IsFiniteSet(mutationQueue') /\ Cardinality(mutationQueue') <= MaxQueueDepth
        <3>1. IsFiniteSet(mutationQueue) /\ Cardinality(mutationQueue) \in Nat
            BY FS_CardinalityType DEF MutationsInv
        <3>2. /\ IsFiniteSet(mutationQueue \ {next})
              /\ Cardinality(mutationQueue \ {next}) = Cardinality(mutationQueue) - 1
            BY <3>1, FS_RemoveElement
        <3> QED BY <2>3, <3>1, <3>2 DEF MutationsInv
    <2>10. drainingMutations' \in BOOLEAN /\ mutationActive' \in BOOLEAN
        BY <2>2, <2>1, Zenon DEF Shift
    <2>11. MutationsInv'
        BY <2>3, <2>4, <2>8, <2>9, <2>10 DEF MutationsInv, WaitersDiffer
    <2> QED BY <2>5, <2>7, <2>11
<1> QED BY <1>6, <1>7
-----------------------------------------------------------------------------
LEMMA LanesStart == Init => LanesInv
<1> SUFFICES ASSUME Init PROVE LanesInv
    OBVIOUS
<1> USE SchedulerAssumption DEF Init
<1>1. SharedInv
    BY DEF SharedInv, Statuses
<1>2. ReadsInv
    <2>1. RunningReads = {}
        BY DEF RunningReads, Tasks
    <2>2. readDrainScheduled \in BOOLEAN
        BY Zenon
    <2>3. ReadWaitersInv
        BY FS_EmptySet DEF ReadWaitersInv
    <2> QED BY <2>1, <2>2, <2>3, FS_EmptySet DEF ReadsInv
<1>3. MutationsInv
    <2>1. drainingMutations \in BOOLEAN /\ mutationActive \in BOOLEAN
        BY Zenon
    <2>2. LaneRests
        BY Zenon DEF LaneRests, NoLocks
    <2>3. mutationQueue = {}
        OBVIOUS
    <2> QED BY <2>1, <2>2, <2>3, FS_EmptySet DEF MutationsInv, WaitersDiffer
<1> QED BY <1>1, <1>2, <1>3 DEF LanesInv

LEMMA LanesStep == LanesInv /\ [Next]_vars => LanesInv'
<1> SUFFICES ASSUME LanesInv, [Next]_vars PROVE LanesInv'
    OBVIOUS
<1>1. ASSUME NEW t \in Reads, ScheduleRead(t) PROVE LanesInv'
    <2>1. CASE Full(readQueue)
        BY <1>1, <2>1, RejectKeepsLanes DEF ScheduleRead, Tasks
    <2> QED BY <1>1, <2>1, ScheduleReadKeepsLanes
<1>2. ASSUME NEW t \in Mutations, ScheduleMutation(t) PROVE LanesInv'
    <2>1. CASE Full(mutationQueue)
        BY <1>2, <2>1, RejectKeepsLanes DEF ScheduleMutation, Tasks
    <2> QED BY <1>2, <2>1, ScheduleMutationKeepsLanes
<1>3. CASE UNCHANGED vars
    <2>1. SharedInv'
        BY <1>3 DEF vars, LanesInv, SharedInv
    <2>2. ReadsInv' /\ MutationsInv'
        BY <1>3, ReadLaneUnmoved, MutationLaneUnmoved DEF vars, LanesInv
    <2> QED BY <2>1, <2>2 DEF LanesInv
<1> QED BY <1>1, <1>2, <1>3, DrainReadsKeepsLanes, FinishReadKeepsLanes,
          EndMutationKeepsLanes, ContinueDrainKeepsLanes DEF Next

\* The type invariant, with the bound on each queue.
THEOREM SchedulerTypeCorrect == Spec => []SchedulerTypeOK
<1>1. LanesInv => SchedulerTypeOK
    <2> SUFFICES ASSUME LanesInv PROVE SchedulerTypeOK
        OBVIOUS
    <2> USE SchedulerAssumption DEF LanesInv
    <2>1. /\ sequence \in Nat /\ status \in [Tasks -> Statuses]
          /\ readQueue \subseteq ReadWaiter /\ Cardinality(readQueue) <= MaxQueueDepth
          /\ mutationQueue \subseteq MutationWaiter
          /\ Cardinality(mutationQueue) <= MaxQueueDepth
        BY DEF SharedInv, ReadsInv, ReadWaitersInv, MutationsInv
    <2>2. readsInFlight \in 0 .. MaxConcurrentReads
        BY FS_CardinalityType DEF ReadsInv
    <2>3. task \subseteq MutationWaiter
        BY DEF MutationsInv, LaneRests, LoopAwaits
    <2>4. NoLocks \in [DocumentKeys -> Seq(Mutations)]
        <3>1. <<>> \in Seq(Mutations)
            OBVIOUS
        <3> QED BY <3>1 DEF NoLocks
    <2>5. \A w \in MutationWaiter :
             [NoLocks EXCEPT ![w.key] = <<w.task>>] \in [DocumentKeys -> Seq(Mutations)]
        <3>1. \A w \in MutationWaiter : <<w.task>> \in Seq(Mutations)
            BY DEF MutationWaiter
        <3> QED BY <2>4, <3>1
    <2>6. docLocks \in [DocumentKeys -> Seq(Mutations)]
        BY <2>4, <2>5 DEF MutationsInv, LaneRests, LoopAwaits
    <2>7. {readDrainScheduled, drainingMutations, mutationActive} \subseteq BOOLEAN
        BY DEF ReadsInv, MutationsInv
    <2> QED BY <2>1, <2>2, <2>3, <2>6, <2>7 DEF SchedulerTypeOK
<1> QED BY <1>1, LanesStart, LanesStep, PTL DEF Spec

\* Mutations are serialized over all documents, reads stay within their limit,
\* and the counters are those of the tasks that run.
THEOREM LanesCounted == Spec => []LanesAreCounted
<1>1. LanesInv => LanesAreCounted
    <2> SUFFICES ASSUME LanesInv PROVE LanesAreCounted
        OBVIOUS
    <2>1. readsInFlight = Cardinality(RunningReads)
        BY DEF LanesInv, ReadsInv
    <2>2. CASE LaneRests
        <3>1. RunningMutations = {} /\ ~mutationActive
            BY <2>2 DEF LaneRests, RunningMutations
        <3> QED BY <2>1, <3>1, FS_EmptySet DEF LanesAreCounted
    <2>3. CASE \E w \in MutationWaiter : LoopAwaits(w)
        <3>1. PICK w \in MutationWaiter : LoopAwaits(w)
            BY <2>3
        <3>2. CASE status[w.task] = "started"
            <4>1. mutationActive /\ docLocks[w.key] = <<w.task>>
                BY <3>1, <3>2 DEF LoopAwaits, NoLocks, MutationWaiter
            <4>2. RunningMutations = {w}
                BY <3>1, <3>2, <4>1 DEF RunningMutations, Holds, LoopAwaits
            <4> QED BY <2>1, <4>1, <4>2, FS_Singleton DEF LanesAreCounted
        <3>3. CASE status[w.task] = "over"
            <4>1. ~mutationActive /\ RunningMutations = {}
                BY <3>1, <3>3 DEF RunningMutations, LoopAwaits
            <4> QED BY <2>1, <4>1, FS_EmptySet DEF LanesAreCounted
        <3> QED BY <3>1, <3>2, <3>3 DEF LoopAwaits
    <2> QED BY <2>2, <2>3 DEF LanesInv, MutationsInv
<1> QED BY <1>1, LanesStart, LanesStep, PTL DEF Spec

\* No waiter is forgotten: a free slot has a drain scheduled, a waiting mutation
\* a loop that comes to it.
THEOREM LanesGoOn == Spec => []LanesNeverStall
<1>1. LanesInv => LanesNeverStall
    <2> SUFFICES ASSUME LanesInv PROVE LanesNeverStall
        OBVIOUS
    <2>1. readQueue # {} /\ readsInFlight < MaxConcurrentReads => readDrainScheduled
        BY DEF LanesInv, ReadsInv
    <2>2. drainingMutations <=> task # {}
        BY DEF LanesInv, MutationsInv, LaneRests, LoopAwaits
    <2>3. mutationQueue # {} => drainingMutations
        BY DEF LanesInv, MutationsInv, LaneRests, LoopAwaits
    <2> QED BY <2>1, <2>2, <2>3 DEF LanesNeverStall
<1> QED BY <1>1, LanesStart, LanesStep, PTL DEF Spec
=============================================================================
