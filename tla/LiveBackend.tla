---------------------------- MODULE LiveBackend ----------------------------
(***************************************************************************)
(* The live backend (src/src/live-backend.ts): reads of one key share a    *)
(* bridge call with retries (src/src/transport/reconnect.ts) and a short   *)
(* lived cache, mutations go alone and clear the cache when they succeed.  *)
(*                                                                         *)
(* The scheduler is taken at its word (module Scheduler): it may refuse,   *)
(* runs queued reads in ReadSlots slots and mutations one by one.  So is   *)
(* the bridge client (BridgeClient): an attempt returns, fails, or is      *)
(* cancelled.  All reads have the same key.  Times are counted in ticks;   *)
(* `doc` numbers the states of the document in Mastercam.                  *)
(*                                                                         *)
(* The process is taken to outlive unhandled rejections (Node's option     *)
(* --unhandled-rejections=warn): by default it ends when a read that was   *)
(* aborted in the queue begins a flight, whose promise nobody handles.     *)
(***************************************************************************)
EXTENDS Integers, FiniteSets

CONSTANTS
    Requests, Mutations,
    ReadSlots,      \* maxConcurrentReads
    MaxAttempts,    \* of an idempotent read
    Deadline,       \* of a read, with all its attempts
    Ttl             \* of a cache entry

ASSUME LiveAssumption ==
    /\ IsFiniteSet(Requests) /\ Mutations \subseteq Requests
    /\ {ReadSlots, MaxAttempts, Deadline, Ttl} \subseteq Nat \ {0}

VARIABLES
    call,         \* where each request is in call()
    answer,       \* what it got: "data" of the document, "done" or an error
    seen,         \* the state of the document in that data
    aborted,      \* the requests whose signal was aborted
    flight,       \* the shared read in inFlightReads
    cache,        \* the entry of readCache and what is left of its life
    atMastercam,  \* mutations sent and not yet applied or refused
    applied,
    doc,
    sinceChange,  \* ticks since doc changed, up to Settled
    floor,        \* the state a read must not be older than
    late          \* reads that joined a flight whose callers had all left

backend == <<call, answer, seen, aborted, flight, cache, atMastercam, applied, doc,
             sinceChange, floor, late>>

Reads == Requests \ Mutations
Errors == {"CANCELLED", "failed"}
Docs == 0..Cardinality(Mutations)
Settled == Deadline + Ttl  \* after so long every read sees the document as it is
NoFlight == [phase |-> "none", value |-> 0, attempt |-> 1, age |-> 0, cancelled |-> FALSE]
NewFlight == [NoFlight EXCEPT !.phase = "out"]
NoEntry == [value |-> -1, left |-> 0]
Waiters == {r \in Reads : call[r] = "waiting"}

LiveInit ==
    /\ call = [r \in Requests |-> "none"]
    /\ answer = [r \in Requests |-> "none"] /\ seen = [r \in Requests |-> 0]
    /\ aborted = {} /\ late = {} /\ atMastercam = {} /\ applied = {}
    /\ flight = NoFlight /\ cache = NoEntry
    /\ doc = 0 /\ sinceChange = Settled /\ floor = [r \in Requests |-> 0]

\* The calls of the requests R return v; with data, of the state d.
GiveOf(R, v, d) ==
    /\ call' = [r \in Requests |-> IF r \in R THEN "answered" ELSE call[r]]
    /\ answer' = [r \in Requests |-> IF r \in R THEN v ELSE answer[r]]
    /\ seen' = [r \in Requests |-> IF r \in R THEN d ELSE seen[r]]

Give(R, v) == GiveOf(R, v, 0)

\* r is over: its call keeps nothing but what it did in Mastercam.
Forget(r) ==
    /\ call' = [call EXCEPT ![r] = "none"] /\ answer' = [answer EXCEPT ![r] = "none"]
    /\ seen' = [seen EXCEPT ![r] = 0] /\ floor' = [floor EXCEPT ![r] = 0]
    /\ aborted' = aborted \ {r} /\ late' = late \ {r}
    /\ UNCHANGED <<flight, cache, atMastercam, applied, doc, sinceChange>>
-----------------------------------------------------------------------------
\* schedule(): queued, or RATE_LIMITED.
Schedule(r) ==
    /\ call[r] = "none"
    /\ \/ call' = [call EXCEPT ![r] = "queued"] /\ UNCHANGED <<answer, seen>>
       \/ Give({r}, "failed")
    /\ UNCHANGED <<aborted, flight, cache, atMastercam, applied, doc, sinceChange, floor, late>>

HitWhatever == cache # NoEntry \* mutant: expiresAt is not compared
Hit == cache.left > 0

\* waitForFlight: a caller that was aborted leaves at once, and the last one to
\* leave aborts the flight, which stays in the map until its promise settles.
EveryLeaverCancels(f, others) == [f EXCEPT !.cancelled = TRUE] \* mutant: waiters not looked at
WhenLeft(f, others) == IF others = {} THEN [f EXCEPT !.cancelled = TRUE] ELSE f

Wait(r, f) ==
    /\ late' = IF f.cancelled THEN late \cup {r} ELSE late
    /\ IF r \in aborted
       THEN Give({r}, "CANCELLED") /\ flight' = WhenLeft(f, Waiters)
       ELSE call' = [call EXCEPT ![r] = "waiting"] /\ flight' = f /\ UNCHANGED <<answer, seen>>

\* callBridge of a read.
RunRead(r) ==
    /\ r \in Reads /\ call[r] = "queued"
    /\ Cardinality(Waiters) < ReadSlots
    /\ floor' = [floor EXCEPT ![r] = IF sinceChange = Settled THEN doc ELSE 0]
    /\ IF Hit
       THEN /\ IF r \in aborted THEN Give({r}, "CANCELLED") ELSE GiveOf({r}, "data", cache.value)
            /\ UNCHANGED <<flight, cache, late>>
       ELSE /\ cache' = NoEntry
            /\ Wait(r, IF flight = NoFlight THEN NewFlight ELSE flight)
    /\ UNCHANGED <<aborted, atMastercam, applied, doc, sinceChange>>

\* Mastercam executes the read.
HostReads ==
    /\ flight.phase = "out"
    /\ flight' = [flight EXCEPT !.phase = "read", !.value = doc]
    /\ UNCHANGED <<call, answer, seen, aborted, cache, atMastercam, applied, doc, sinceChange, floor, late>>

\* The flight's promise settles for all its waiters.
Land(v) ==
    /\ GiveOf(Waiters, v, IF v = "data" THEN flight.value ELSE 0)
    /\ flight' = NoFlight
    /\ UNCHANGED <<aborted, atMastercam, applied, doc, sinceChange, floor, late>>

\* cacheSuccessfulRead keeps answers that have a documentRevision.
ReadReturns ==
    /\ flight.phase = "read" /\ ~flight.cancelled
    /\ cache' \in {[value |-> flight.value, left |-> Ttl], cache}
    /\ Land("data")

\* withRetry gives up: attempts used up, error not retryable, or no time left.
ReadFails ==
    /\ flight.phase \in {"out", "read"} /\ ~flight.cancelled
    /\ Land("failed")
    /\ UNCHANGED cache

\* A retryable failure with time left for the delay.
RetryLater ==
    /\ flight.phase \in {"out", "read"} /\ ~flight.cancelled
    /\ flight.attempt < MaxAttempts /\ flight.age < Deadline
    /\ flight' = [flight EXCEPT !.phase = "sleep", !.attempt = @ + 1]
    /\ UNCHANGED <<call, answer, seen, aborted, cache, atMastercam, applied, doc, sinceChange, floor, late>>

\* The delay does not hear the abort; the next attempt does.
Retry ==
    /\ flight.phase = "sleep"
    /\ flight' = [flight EXCEPT !.phase = "out"]
    /\ UNCHANGED <<call, answer, seen, aborted, cache, atMastercam, applied, doc, sinceChange, floor, late>>

\* An event of the bridge may mean any change and clears the cache.
BridgeEvent ==
    /\ cache # NoEntry
    /\ cache' = NoEntry
    /\ UNCHANGED <<call, answer, seen, aborted, flight, atMastercam, applied, doc, sinceChange, floor, late>>

CancelledFlightEnds ==
    /\ flight.phase \in {"out", "read"} /\ flight.cancelled
    /\ Land("CANCELLED")
    /\ UNCHANGED cache
-----------------------------------------------------------------------------
\* callBridge of a mutation: exactly one attempt; with an aborted signal the
\* bridge client sends no request.
RunMutation(r) ==
    /\ r \in Mutations /\ call[r] = "queued"
    /\ \A m \in Mutations : call[m] # "calling"
    /\ IF r \in aborted
       THEN Give({r}, "CANCELLED") /\ UNCHANGED atMastercam
       ELSE /\ call' = [call EXCEPT ![r] = "calling"]
            /\ atMastercam' = atMastercam \cup {r}
            /\ UNCHANGED <<answer, seen>>
    /\ UNCHANGED <<aborted, flight, cache, applied, doc, sinceChange, floor, late>>

\* Mastercam applies it, also when its caller has gone, or refuses it.
Apply(r) ==
    /\ r \in atMastercam
    /\ atMastercam' = atMastercam \ {r}
    /\ \/ doc' = doc + 1 /\ sinceChange' = 0 /\ applied' = applied \cup {r}
       \/ UNCHANGED <<doc, sinceChange, applied>>
    /\ UNCHANGED <<call, answer, seen, aborted, flight, cache, floor, late>>

MutationReturns(r) ==
    /\ call[r] = "calling" /\ r \in applied
    /\ cache' = NoEntry
    /\ Give({r}, "done")
    /\ UNCHANGED <<aborted, flight, atMastercam, applied, doc, sinceChange, floor, late>>

\* Refused, timed out or cut off: the cache is left as it is.
MutationFails(r) ==
    /\ call[r] = "calling"
    /\ Give({r}, "failed")
    /\ UNCHANGED <<aborted, flight, cache, atMastercam, applied, doc, sinceChange, floor, late>>

AbortUnheard(r) == FALSE \* mutant: no abort listener
Hears(r) == call[r] \in {"waiting", "calling"}

\* The signal of r is aborted; a queued call hears of it when it runs.
CanAbort(r) == call[r] \in {"queued", "waiting", "calling"} /\ r \notin aborted

Abort(r) ==
    /\ CanAbort(r)
    /\ aborted' = aborted \cup {r}
    /\ IF Hears(r) THEN Give({r}, "CANCELLED") ELSE UNCHANGED <<call, answer, seen>>
    /\ flight' = IF Hears(r) /\ r \in Waiters THEN WhenLeft(flight, Waiters \ {r}) ELSE flight
    /\ UNCHANGED <<cache, atMastercam, applied, doc, sinceChange, floor, late>>

\* Timers come first: no attempt outlives the deadline, and a delay is only begun
\* when it ends before it.
TimersDone ==
    /\ flight # NoFlight => flight.age < Deadline
    /\ flight.phase = "sleep" => flight.age + 1 < Deadline

ClockTick ==
    /\ TimersDone
    /\ cache' = [cache EXCEPT !.left = IF @ > 0 THEN @ - 1 ELSE 0]
    /\ flight' = IF flight = NoFlight THEN flight ELSE [flight EXCEPT !.age = @ + 1]
    /\ sinceChange' = IF sinceChange < Settled THEN sinceChange + 1 ELSE Settled
    /\ UNCHANGED <<call, answer, seen, aborted, atMastercam, applied, doc, floor, late>>

FlightStep ==
    HostReads \/ ReadReturns \/ ReadFails \/ RetryLater \/ Retry \/ CancelledFlightEnds \/ BridgeEvent
MutationStep(r) == Apply(r) \/ MutationReturns(r) \/ MutationFails(r)
-----------------------------------------------------------------------------
LiveTypeOK ==
    /\ call \in [Requests -> {"none", "queued", "waiting", "calling", "answered"}]
    /\ answer \in [Requests -> {"none", "data", "done"} \cup Errors]
    /\ seen \in [Requests -> Docs]
    /\ \A r \in Requests : call[r] = "answered" <=> answer[r] # "none"
    /\ flight \in [phase : {"none", "out", "read", "sleep"}, value : Docs, attempt : 1..MaxAttempts,
                   age : 0..Deadline, cancelled : BOOLEAN]
    /\ cache \in [value : Docs \cup {-1}, left : 0..Ttl]
    /\ aborted \subseteq Requests /\ late \subseteq Reads
    /\ atMastercam \cup applied \subseteq Mutations
    /\ doc = Cardinality(applied)
    /\ sinceChange \in 0..Settled
    /\ Waiters # {} => flight # NoFlight

\* A read that was in flight when a mutation went through fills the cache, after
\* the mutation has cleared it, with the state before; but a read that starts
\* Deadline + Ttl after the last change never gets an older one.
StaleReadsExpire ==
    \A r \in Reads : answer[r] = "data" => seen[r] >= floor[r]

\* Callers that share a read leave without harm to those who stay: who gets
\* CANCELLED without having asked joined a flight that all its callers had left.
LeaversDoNoHarm ==
    \A r \in Reads : (answer[r] = "CANCELLED" /\ r \notin aborted) => r \in late
=============================================================================
