----------------------------- MODULE Scheduler -----------------------------
(***************************************************************************)
(* The request scheduler of src/src/scheduler/request-scheduler.ts: reads  *)
(* run side by side up to a limit, mutations one after another, each lane  *)
(* from a bounded queue in the order of priority and arrival.              *)
(*                                                                         *)
(* Simplifications.                                                        *)
(*  - A queue is a set of waiters: sortQueue's order is total, so the set  *)
(*    has one first waiter.                                                *)
(*  - A task is scheduled once; the number of tasks bounds the model.      *)
(*  - A task's function may return or throw; either way the task is over.  *)
(*  - `status` joins what the caller of schedule() sees (none, queued,     *)
(*    rejected, settled) and how far run() is (started, over).             *)
(***************************************************************************)
EXTENDS Integers, FiniteSets, Sequences

CONSTANTS
    Reads, Mutations,     \* the tasks of each lane
    DocumentKeys,
    Priority,             \* of each task, a number
    Key,                  \* of each mutation, its documentKey
    MaxConcurrentReads,
    MaxQueueDepth

ASSUME SchedulerAssumption ==
    /\ Reads \cap Mutations = {}
    /\ Priority \in [Reads \cup Mutations -> Int]
    /\ Key \in [Mutations -> DocumentKeys]
    /\ MaxConcurrentReads \in Nat \ {0}
    /\ MaxQueueDepth \in Nat \ {0}

VARIABLES
    sequence,
    readQueue, readsInFlight, readDrainScheduled,
    mutationQueue, drainingMutations, mutationActive,
    task,        \* the waiters that a drain loop has shifted and awaits
    docLocks,    \* for each key, its lock's holder and those in line for it
    status

readVars == <<readQueue, readsInFlight, readDrainScheduled>>
mutationVars == <<mutationQueue, drainingMutations, mutationActive, task, docLocks>>
vars == <<sequence, readVars, mutationVars, status>>

Tasks == Reads \cup Mutations
Statuses == {"none", "queued", "started", "over", "settled", "rejected"}
ReadWaiter == [task : Reads, priority : Int, sequence : Nat]
MutationWaiter == [task : Mutations, key : DocumentKeys, priority : Int, sequence : Nat]

RunningReads == {t \in Reads : status[t] = "started"}
-----------------------------------------------------------------------------
\* The order of sortQueue.
Before(left, right) ==
    \/ left.priority > right.priority
    \/ left.priority = right.priority /\ left.sequence < right.sequence

First(queue, w) == w \in queue /\ \A other \in queue \ {w} : Before(w, other)

Least(m, n) == IF m <= n THEN m ELSE n
FreeSlots == MaxConcurrentReads - readsInFlight

\* What drainReads takes: from the front of the queue, while there is a slot.
TakesPastLimit(taken) == \* mutant: <= instead of <
    /\ Cardinality(taken) = Least(Cardinality(readQueue), FreeSlots + 1)
    /\ \A w \in taken, other \in readQueue \ taken : Before(w, other)
Takes(taken) ==
    /\ Cardinality(taken) = Least(Cardinality(readQueue), FreeSlots)
    /\ \A w \in taken, other \in readQueue \ taken : Before(w, other)

TasksOf(waiters) == {w.task : w \in waiters}
Full(queue) == Cardinality(queue) >= MaxQueueDepth

Reject(t) ==
    /\ status' = [status EXCEPT ![t] = "rejected"]
    /\ UNCHANGED <<sequence, readVars, mutationVars>>

ScheduleRead(t) ==
    /\ status[t] = "none"
    /\ IF Full(readQueue)
       THEN Reject(t)
       ELSE /\ readQueue' = readQueue \cup
                  {[task |-> t, priority |-> Priority[t], sequence |-> sequence]}
            /\ sequence' = sequence + 1
            /\ readDrainScheduled' = TRUE
            /\ status' = [status EXCEPT ![t] = "queued"]
            /\ UNCHANGED <<readsInFlight, mutationVars>>

\* The microtask of scheduleReadDrain.
DrainReads ==
    /\ readDrainScheduled
    /\ readDrainScheduled' = FALSE
    /\ \E taken \in SUBSET readQueue :
          /\ Takes(taken)
          /\ readQueue' = readQueue \ taken
          /\ readsInFlight' = readsInFlight + Cardinality(taken)
          /\ status' = [t \in Tasks |-> IF t \in TasksOf(taken) THEN "started" ELSE status[t]]
    /\ UNCHANGED <<sequence, mutationVars>>

DrainNotScheduled == readDrainScheduled \* mutant: runRead does not schedule a drain
DrainScheduled == TRUE

\* The `finally` of runRead, once the caller's promise is settled.
FinishRead(t) ==
    /\ t \in RunningReads
    /\ status' = [status EXCEPT ![t] = "settled"]
    /\ readsInFlight' = readsInFlight - 1
    /\ readDrainScheduled' = DrainScheduled
    /\ UNCHANGED <<sequence, readQueue, mutationVars>>
-----------------------------------------------------------------------------
\* The drain loop shifts the first waiter and calls its run(), which sets
\* mutationActive and asks for the document lock. `done` is how statuses are then.
Shift(queue, loops, done) ==
    \E w \in queue :
        /\ First(queue, w)
        /\ mutationQueue' = queue \ {w}
        /\ task' = loops \cup {w}
        /\ mutationActive' = TRUE
        /\ docLocks' = [docLocks EXCEPT ![w.key] = Append(@, w.task)]
        /\ status' = [done EXCEPT ![w.task] = "started"]

LoopMayStartAlways == TRUE \* mutant: drainingMutations is not looked at
LoopMayStart == ~drainingMutations

\* drainMutations() runs up to its first await within schedule().
ScheduleMutation(t) ==
    /\ status[t] = "none"
    /\ IF Full(mutationQueue)
       THEN Reject(t)
       ELSE LET waiter == [task |-> t, key |-> Key[t], priority |-> Priority[t],
                           sequence |-> sequence]
                queue == mutationQueue \cup {waiter}
            IN  /\ sequence' = sequence + 1
                /\ drainingMutations' = TRUE
                /\ IF LoopMayStart
                   THEN Shift(queue, task, status)
                   ELSE /\ mutationQueue' = queue
                        /\ status' = [status EXCEPT ![t] = "queued"]
                        /\ UNCHANGED <<mutationActive, task, docLocks>>
                /\ UNCHANGED readVars

\* Mutations whose function runs: they hold their document's lock.
Holds(w) == docLocks[w.key] # <<>> /\ Head(docLocks[w.key]) = w.task
RunningMutations == {w \in task : status[w.task] = "started" /\ Holds(w)}

\* The task's function ends: its lock passes on and mutationActive is cleared.
EndMutation(w) ==
    /\ w \in RunningMutations
    /\ status' = [status EXCEPT ![w.task] = "over"]
    /\ docLocks' = [docLocks EXCEPT ![w.key] = Tail(@)]
    /\ mutationActive' = FALSE
    /\ UNCHANGED <<sequence, readVars, mutationQueue, drainingMutations, task>>

LoopEndsSilently == UNCHANGED drainingMutations \* mutant: the flag stays set
LoopEnds == drainingMutations' = FALSE

\* The loop goes on: the caller is settled, then the next waiter is shifted.
ContinueDrain(w) ==
    /\ w \in task
    /\ status[w.task] = "over"
    /\ LET done == [status EXCEPT ![w.task] = "settled"] IN
       IF mutationQueue = {}
       THEN /\ LoopEnds
            /\ task' = task \ {w}
            /\ status' = done
            /\ UNCHANGED <<mutationQueue, mutationActive, docLocks>>
       ELSE /\ Shift(mutationQueue, task \ {w}, done)
            /\ UNCHANGED drainingMutations
    /\ UNCHANGED <<sequence, readVars>>
-----------------------------------------------------------------------------
Init ==
    /\ sequence = 0
    /\ readQueue = {} /\ readsInFlight = 0 /\ readDrainScheduled = FALSE
    /\ mutationQueue = {} /\ drainingMutations = FALSE /\ mutationActive = FALSE
    /\ task = {}
    /\ docLocks = [key \in DocumentKeys |-> <<>>]
    /\ status = [t \in Tasks |-> "none"]

Next ==
    \/ \E t \in Reads : ScheduleRead(t)
    \/ DrainReads
    \/ \E t \in Reads : FinishRead(t)
    \/ \E t \in Mutations : ScheduleMutation(t)
    \/ \E w \in task : EndMutation(w)
    \/ \E w \in task : ContinueDrain(w)

Spec == Init /\ [][Next]_vars

\* Microtasks run (DrainReads, ContinueDrain), and no task's function runs for
\* ever: every backend call has a deadline.
FairSpec ==
    /\ Spec
    /\ WF_vars(DrainReads)
    /\ \A t \in Reads : WF_vars(FinishRead(t))
    /\ WF_vars(\E w \in task : EndMutation(w))
    /\ WF_vars(\E w \in task : ContinueDrain(w))
-----------------------------------------------------------------------------
\* The type invariant, with the bound on each queue.
SchedulerTypeOK ==
    /\ sequence \in Nat
    /\ readQueue \subseteq ReadWaiter /\ Cardinality(readQueue) <= MaxQueueDepth
    /\ readsInFlight \in 0 .. MaxConcurrentReads
    /\ mutationQueue \subseteq MutationWaiter /\ Cardinality(mutationQueue) <= MaxQueueDepth
    /\ task \subseteq MutationWaiter
    /\ docLocks \in [DocumentKeys -> Seq(Mutations)]
    /\ {readDrainScheduled, drainingMutations, mutationActive} \subseteq BOOLEAN
    /\ status \in [Tasks -> Statuses]

\* "Mutations remain globally serialized" (request-scheduler.ts:160), whatever
\* their documents, and the counters that stats reports are those of the tasks
\* that run: readsInFlight, and mutationActive, which every run() of a mutation
\* clears, its own or not.
LanesAreCounted ==
    /\ readsInFlight = Cardinality(RunningReads)
    /\ Cardinality(RunningMutations) <= 1
    /\ mutationActive <=> RunningMutations # {}

\* No waiter is forgotten: while a read waits and a slot is free a drain is
\* scheduled, and while a mutation waits a loop is there that will come to it.
LanesNeverStall ==
    /\ readQueue # {} /\ readsInFlight < MaxConcurrentReads => readDrainScheduled
    /\ drainingMutations <=> task # {}
    /\ mutationQueue # {} => drainingMutations

\* Every task that is scheduled and not rejected settles, those of low priority
\* too, once no more tasks come.
EveryTaskSettles ==
    \A t \in Tasks : status[t] = "queued" ~> status[t] = "settled"
=============================================================================
