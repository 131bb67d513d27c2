--------------------------- MODULE HttpHostProofs ---------------------------
(***************************************************************************)
(* Proofs about HttpHost and the live backend it is composed with, for any *)
(* finite set of requests and all limits.  LiveInv is the invariant of the *)
(* backend, kept by each of its actions whoever takes it; HostInv adds     *)
(* what the host knows of the stages its requests are in.                  *)
(***************************************************************************)
EXTENDS HttpHost, FiniteSetTheorems, TLAPS

LiveTyped ==
    /\ LiveTypeOK
    /\ floor \in [Requests -> Nat]

\* A mutation that waits for its lane has not reached Mastercam.
SentOnce ==
    /\ atMastercam \cap applied = {}
    /\ \A m \in Mutations : call[m] = "queued" => m \notin atMastercam \cup applied

\* Whoever still waits for a flight that was cancelled came after the cancel.
FlightInv ==
    /\ flight.phase = "none" => flight = NoFlight
    /\ flight.cancelled => Waiters \subseteq late

\* What a flight has read is the document, or the document changed while it was
\* out; what the cache holds is the document, or it expires in time.
FreshInv ==
    /\ flight.phase = "read" => flight.value = doc \/ sinceChange <= flight.age
    /\ cache.left > 0 =>
          cache.value \in Nat /\ (cache.value = doc \/ sinceChange + cache.left <= Settled)

\* No waiter gets less than its floor.
FloorInv ==
    \A r \in Waiters : floor[r] <= doc /\ (flight.phase = "read" => floor[r] <= flight.value)

LiveInv ==
    /\ LiveTyped /\ SentOnce /\ FlightInv /\ FreshInv /\ FloorInv
    /\ StaleReadsExpire /\ LeaversDoNoHarm

\* The stages of a request against what the backend keeps for it.
StagesInv ==
    \A r \in Requests :
        /\ call[r] # "none" => stage[r] \in {"call", "write", "drain"}
        /\ r \in atMastercam \cup applied => stage[r] \notin {"none", "body"}

HostInv == LiveInv /\ HttpTypeOK /\ StagesInv
-----------------------------------------------------------------------------
LEMMA Constants ==
    /\ Mutations \subseteq Requests /\ Reads \subseteq Requests
    /\ IsFiniteSet(Requests) /\ IsFiniteSet(Mutations)
    /\ Cardinality(Mutations) \in Nat
    /\ MaxAttempts \in Nat \ {0} /\ Deadline \in Nat \ {0} /\ Ttl \in Nat \ {0}
    /\ Settled \in Nat /\ Settled = Deadline + Ttl
BY LiveAssumption, FS_Subset, FS_CardinalityType DEF Settled, Reads

LEMMA DocsAreNaturals == Docs \subseteq Nat /\ 0 \in Docs /\ -1 \notin Docs
BY Constants DEF Docs

\* As many changes as mutations were applied.
LEMMA DocIsInRange ==
    ASSUME NEW A \in SUBSET Mutations
    PROVE  IsFiniteSet(A) /\ Cardinality(A) \in Docs
BY Constants, FS_Subset, FS_CardinalityType DEF Docs

\* The answers of the requests R leave the others' alone.
LEMMA GivesAnswers ==
    ASSUME LiveTyped, NEW R \in SUBSET Requests, NEW v \in {"data", "done"} \cup Errors,
           NEW d \in Docs, GiveOf(R, v, d)
    PROVE  /\ call' \in [Requests -> {"none", "queued", "waiting", "calling", "answered"}]
           /\ answer' \in [Requests -> {"none", "data", "done"} \cup Errors]
           /\ seen' \in [Requests -> Docs]
           /\ \A r \in Requests : call'[r] = "answered" <=> answer'[r] # "none"
           /\ \A r \in R : call'[r] = "answered" /\ answer'[r] = v /\ seen'[r] = d
           /\ \A r \in Requests \ R :
                 call'[r] = call[r] /\ answer'[r] = answer[r] /\ seen'[r] = seen[r]
           /\ Waiters' = Waiters \ R
<1> USE DEF LiveTyped, LiveTypeOK, GiveOf, Errors
<1>1. /\ call' \in [Requests -> {"none", "queued", "waiting", "calling", "answered"}]
      /\ answer' \in [Requests -> {"none", "data", "done"} \cup Errors]
      /\ seen' \in [Requests -> Docs]
    OBVIOUS
<1>2. /\ \A r \in R : call'[r] = "answered" /\ answer'[r] = v /\ seen'[r] = d
      /\ \A r \in Requests \ R :
            call'[r] = call[r] /\ answer'[r] = answer[r] /\ seen'[r] = seen[r]
    OBVIOUS
<1>3. \A r \in Requests : call'[r] = "answered" <=> answer'[r] # "none"
    BY <1>2
<1>4. Waiters' = Waiters \ R
    BY <1>2 DEF Waiters, Reads
<1> QED BY <1>1, <1>2, <1>3, <1>4

LEMMA GivesOne ==
    ASSUME LiveTyped, NEW r \in Requests, NEW v \in {"data", "done"} \cup Errors,
           NEW d \in Docs, GiveOf({r}, v, d)
    PROVE  /\ call' \in [Requests -> {"none", "queued", "waiting", "calling", "answered"}]
           /\ answer' \in [Requests -> {"none", "data", "done"} \cup Errors]
           /\ seen' \in [Requests -> Docs]
           /\ \A q \in Requests : call'[q] = "answered" <=> answer'[q] # "none"
           /\ call'[r] = "answered" /\ answer'[r] = v /\ seen'[r] = d
           /\ \A q \in Requests \ {r} :
                 call'[q] = call[q] /\ answer'[q] = answer[q] /\ seen'[q] = seen[q]
           /\ Waiters' = Waiters \ {r}
<1> USE DEF LiveTyped, LiveTypeOK, GiveOf, Errors
<1>1. /\ call' \in [Requests -> {"none", "queued", "waiting", "calling", "answered"}]
      /\ answer' \in [Requests -> {"none", "data", "done"} \cup Errors]
      /\ seen' \in [Requests -> Docs]
    OBVIOUS
<1>2. /\ call'[r] = "answered" /\ answer'[r] = v /\ seen'[r] = d
      /\ \A q \in Requests \ {r} :
            call'[q] = call[q] /\ answer'[q] = answer[q] /\ seen'[q] = seen[q]
    OBVIOUS
<1>3. \A q \in Requests : call'[q] = "answered" <=> answer'[q] # "none"
    BY <1>2
<1>4. Waiters' = Waiters \ {r}
    BY <1>2 DEF Waiters, Reads
<1> QED BY <1>1, <1>2, <1>3, <1>4

\* The call of r goes on.
LEMMA GoesOn ==
    ASSUME LiveTyped, NEW r \in Requests, call[r] # "answered",
           NEW c \in {"queued", "waiting", "calling"},
           call' = [call EXCEPT ![r] = c], UNCHANGED <<answer, seen>>
    PROVE  /\ call' \in [Requests -> {"none", "queued", "waiting", "calling", "answered"}]
           /\ \A q \in Requests : call'[q] = "answered" <=> answer'[q] # "none"
           /\ call'[r] = c
           /\ \A q \in Requests \ {r} : call'[q] = call[q]
           /\ Waiters' = IF c = "waiting" /\ r \in Reads THEN Waiters \cup {r} ELSE Waiters \ {r}
BY DEF LiveTyped, LiveTypeOK, Waiters, Reads
-----------------------------------------------------------------------------
LEMMA LiveInvInit == LiveInit => LiveInv
<1> SUFFICES ASSUME LiveInit PROVE LiveInv
    OBVIOUS
<1> USE Constants, DocsAreNaturals DEF LiveInit
<1>1. LiveTyped
    BY FS_EmptySet DEF LiveTyped, LiveTypeOK, NoFlight, NoEntry, Waiters, Errors, Reads
<1>2. SentOnce
    BY DEF SentOnce
<1>3. FlightInv /\ FreshInv
    BY DEF FlightInv, FreshInv, NoFlight, NoEntry, Waiters
<1>4. FloorInv
    BY DEF FloorInv, Waiters, Reads
<1>5. StaleReadsExpire /\ LeaversDoNoHarm
    BY DEF StaleReadsExpire, LeaversDoNoHarm, Reads
<1> QED BY <1>1, <1>2, <1>3, <1>4, <1>5 DEF LiveInv

\* A request that did not reach Mastercam is queued or refused.
LEMMA ScheduleKeepsInv ==
    ASSUME LiveInv, NEW r \in Requests, r \notin atMastercam \cup applied, Schedule(r)
    PROVE  LiveInv'
<1> USE DEF LiveInv
<1>1. /\ call' \in [Requests -> {"none", "queued", "waiting", "calling", "answered"}]
      /\ answer' \in [Requests -> {"none", "data", "done"} \cup Errors]
      /\ seen' \in [Requests -> Docs]
      /\ \A q \in Requests : call'[q] = "answered" <=> answer'[q] # "none"
      /\ \A q \in Requests \ {r} :
            call'[q] = call[q] /\ answer'[q] = answer[q] /\ seen'[q] = seen[q]
      /\ answer'[r] \in {"none", "failed"}
      /\ Waiters' = Waiters \ {r}
    <2>1. CASE call' = [call EXCEPT ![r] = "queued"] /\ UNCHANGED <<answer, seen>>
        BY <2>1, GoesOn DEF Schedule, LiveTyped, LiveTypeOK
    <2>2. CASE Give({r}, "failed")
        BY <2>2, GivesOne, DocsAreNaturals DEF Give, Errors
    <2> QED BY <2>1, <2>2 DEF Schedule
<1>2. Waiters' = Waiters
    BY <1>1 DEF Schedule, Waiters
<1>3. LiveTyped'
    BY <1>1, <1>2 DEF Schedule, LiveTyped, LiveTypeOK
<1>4. SentOnce'
    BY <1>1, Constants DEF Schedule, SentOnce
<1>5. FlightInv' /\ FreshInv' /\ FloorInv'
    BY <1>2 DEF Schedule, FlightInv, FreshInv, FloorInv
<1>6. StaleReadsExpire' /\ LeaversDoNoHarm'
    BY <1>1, Constants DEF Schedule, StaleReadsExpire, LeaversDoNoHarm
<1> QED BY <1>3, <1>4, <1>5, <1>6
-----------------------------------------------------------------------------
\* What has been read is of the document as it is.
LEMMA HostReadsKeepsInv ==
    ASSUME LiveInv, HostReads
    PROVE  LiveInv'
<1> USE DEF LiveInv, HostReads
<1>1. doc \in Docs /\ doc \in Nat
    BY DocIsInRange, DocsAreNaturals DEF LiveTyped, LiveTypeOK
<1>2. Waiters' = Waiters
    BY DEF Waiters
<1>3. flight'.phase = "read" /\ flight'.value = doc /\ flight'.cancelled = flight.cancelled
    BY DEF LiveTyped, LiveTypeOK
<1>4. LiveTyped'
    BY <1>1, <1>2, <1>3 DEF LiveTyped, LiveTypeOK, NoFlight
<1>5. SentOnce' /\ FlightInv' /\ FreshInv' /\ FloorInv'
    BY <1>2, <1>3 DEF SentOnce, FlightInv, FreshInv, FloorInv
<1>6. StaleReadsExpire' /\ LeaversDoNoHarm'
    BY DEF StaleReadsExpire, LeaversDoNoHarm
<1> QED BY <1>4, <1>5, <1>6

\* A flight lands with what its waiters may have.
LEMMA LandKeepsInv ==
    ASSUME LiveInv, NEW v \in {"data"} \cup Errors, Land(v),
           v = "data" => flight.phase = "read",
           v = "CANCELLED" => flight.cancelled,
           cache' \in [value : Docs \cup {-1}, left : 0..Ttl],
           cache'.left > 0 => cache'.value \in Nat
                              /\ (cache'.value = doc \/ sinceChange + cache'.left <= Settled)
    PROVE  LiveInv'
<1> USE DEF LiveInv, Land
<1> DEFINE d == IF v = "data" THEN flight.value ELSE 0
<1>1. d \in Docs /\ Waiters \in SUBSET Requests
    BY DocsAreNaturals DEF LiveTyped, LiveTypeOK, Waiters, Reads
<1>2. GiveOf(Waiters, v, d)
    OBVIOUS
<1> HIDE DEF d
<1>3. /\ call' \in [Requests -> {"none", "queued", "waiting", "calling", "answered"}]
      /\ answer' \in [Requests -> {"none", "data", "done"} \cup Errors]
      /\ seen' \in [Requests -> Docs]
      /\ \A r \in Requests : call'[r] = "answered" <=> answer'[r] # "none"
      /\ \A r \in Waiters : call'[r] = "answered" /\ answer'[r] = v /\ seen'[r] = d
      /\ \A r \in Requests \ Waiters :
            call'[r] = call[r] /\ answer'[r] = answer[r] /\ seen'[r] = seen[r]
      /\ Waiters' = {}
    BY <1>1, <1>2, GivesAnswers
<1>4. LiveTyped'
    BY <1>3, Constants, DocsAreNaturals DEF LiveTyped, LiveTypeOK, NoFlight
<1>5. SentOnce'
    BY <1>3, Constants DEF SentOnce
<1>6. FlightInv' /\ FloorInv'
    BY <1>3 DEF FlightInv, FloorInv, NoFlight
<1>7. FreshInv'
    BY DEF FreshInv, NoFlight
<1>8. StaleReadsExpire'
    <2> SUFFICES ASSUME NEW r \in Reads, answer'[r] = "data"
                 PROVE  seen'[r] >= floor'[r]
        BY DEF StaleReadsExpire
    <2>1. CASE r \in Waiters
        <3>1. v = "data" /\ seen'[r] = flight.value /\ floor[r] <= flight.value
            BY <2>1, <1>3 DEF d, FloorInv
        <3> QED BY <3>1, Constants, DocsAreNaturals DEF LiveTyped, LiveTypeOK
    <2> QED BY <2>1, <1>3, Constants DEF StaleReadsExpire
<1>9. LeaversDoNoHarm'
    BY <1>3, Constants DEF LeaversDoNoHarm, FlightInv
<1> QED BY <1>4, <1>5, <1>6, <1>7, <1>8, <1>9

LEMMA ReadReturnsKeepsInv ==
    ASSUME LiveInv, ReadReturns
    PROVE  LiveInv'
<1> USE DEF LiveInv, ReadReturns
<1>1. cache \in [value : Docs \cup {-1}, left : 0..Ttl] /\ flight.value \in Docs
      /\ flight.age \in 0..Deadline /\ sinceChange \in 0..Settled
    BY DEF LiveTyped, LiveTypeOK
<1>2. cache' \in [value : Docs \cup {-1}, left : 0..Ttl]
    BY <1>1, Constants
<1>3. cache'.left > 0 => cache'.value \in Nat
                         /\ (cache'.value = doc \/ sinceChange + cache'.left <= Settled)
    <2>1. CASE cache' = cache
        BY <2>1 DEF FreshInv
    <2>2. CASE cache' = [value |-> flight.value, left |-> Ttl]
        <3>1. cache'.value = flight.value /\ cache'.left = Ttl
            BY <2>2
        <3>2. flight.value = doc \/ sinceChange <= flight.age
            BY DEF FreshInv
        <3>3. flight.value \in Nat
            BY <1>1, DocsAreNaturals
        <3>4. sinceChange <= flight.age => sinceChange + Ttl <= Settled
            <4>1. flight.age \in Nat /\ flight.age <= Deadline /\ sinceChange \in Nat
                BY <1>1, Constants
            <4> QED BY <4>1, Constants
        <3> QED BY <3>1, <3>2, <3>3, <3>4
    <2> QED BY <2>1, <2>2
<1> QED BY <1>2, <1>3, LandKeepsInv

\* The flight gives up, or was cancelled.
LEMMA FlightEndsKeepsInv ==
    ASSUME LiveInv, ReadFails \/ CancelledFlightEnds
    PROVE  LiveInv'
<1>1. cache' = cache
    BY DEF ReadFails, CancelledFlightEnds
<1>2. /\ cache' \in [value : Docs \cup {-1}, left : 0..Ttl]
      /\ cache'.left > 0 => cache'.value \in Nat
                            /\ (cache'.value = doc \/ sinceChange + cache'.left <= Settled)
    BY <1>1 DEF LiveInv, LiveTyped, LiveTypeOK, FreshInv
<1>3. CASE ReadFails
    BY <1>2, <1>3, LandKeepsInv DEF ReadFails, Errors
<1>4. CASE CancelledFlightEnds
    BY <1>2, <1>4, LandKeepsInv DEF CancelledFlightEnds, Errors
<1> QED BY <1>3, <1>4

\* The flight sleeps, and is sent again.
LEMMA RetryKeepsInv ==
    ASSUME LiveInv, RetryLater \/ Retry
    PROVE  LiveInv'
<1> USE DEF LiveInv
<1>1. Waiters' = Waiters
    BY DEF RetryLater, Retry, Waiters
<1>2. /\ flight'.phase \in {"sleep", "out"} /\ flight'.cancelled = flight.cancelled
      /\ flight' \in [phase : {"none", "out", "read", "sleep"}, value : Docs,
                      attempt : 1..MaxAttempts, age : 0..Deadline, cancelled : BOOLEAN]
    <2>1. flight \in [phase : {"none", "out", "read", "sleep"}, value : Docs,
                      attempt : 1..MaxAttempts, age : 0..Deadline, cancelled : BOOLEAN]
        BY DEF LiveTyped, LiveTypeOK
    <2>2. CASE RetryLater
        <3>1. flight.attempt + 1 \in 1..MaxAttempts
            BY <2>1, <2>2, Constants DEF RetryLater
        <3>2. flight' = [flight EXCEPT !.phase = "sleep", !.attempt = flight.attempt + 1]
            BY <2>2 DEF RetryLater
        <3> QED BY <2>1, <3>1, <3>2
    <2>3. CASE Retry
        BY <2>1, <2>3 DEF Retry
    <2> QED BY <2>2, <2>3
<1>3. LiveTyped'
    BY <1>1, <1>2 DEF RetryLater, Retry, LiveTyped, LiveTypeOK, NoFlight
<1>4. SentOnce' /\ FlightInv' /\ FreshInv' /\ FloorInv'
    BY <1>1, <1>2 DEF RetryLater, Retry, SentOnce, FlightInv, FreshInv, FloorInv
<1>5. StaleReadsExpire' /\ LeaversDoNoHarm'
    BY DEF RetryLater, Retry, StaleReadsExpire, LeaversDoNoHarm
<1> QED BY <1>3, <1>4, <1>5

LEMMA BridgeEventKeepsInv ==
    ASSUME LiveInv, BridgeEvent
    PROVE  LiveInv'
<1> USE DEF LiveInv, BridgeEvent
<1>1. Waiters' = Waiters
    BY DEF Waiters
<1>2. LiveTyped'
    BY <1>1, Constants DEF LiveTyped, LiveTypeOK, NoEntry
<1>3. SentOnce' /\ FlightInv' /\ FreshInv' /\ FloorInv'
    BY <1>1 DEF SentOnce, FlightInv, FreshInv, FloorInv, NoEntry
<1>4. StaleReadsExpire' /\ LeaversDoNoHarm'
    BY DEF StaleReadsExpire, LeaversDoNoHarm
<1> QED BY <1>2, <1>3, <1>4
-----------------------------------------------------------------------------
\* The floor of a read that runs.
LEMMA FloorWhenRun ==
    ASSUME LiveInv, NEW r \in Requests,
           floor' = [floor EXCEPT ![r] = IF sinceChange = Settled THEN doc ELSE 0]
    PROVE  /\ floor' \in [Requests -> Nat]
           /\ \A q \in Requests \ {r} : floor'[q] = floor[q]
           /\ floor'[r] <= doc
           /\ flight.phase = "read" => floor'[r] <= flight.value
           /\ Hit => cache.value \in Docs /\ floor'[r] <= cache.value
<1> USE DEF LiveInv
<1>1. /\ doc \in Nat /\ flight.value \in Nat /\ flight.age \in Nat /\ flight.age <= Deadline
      /\ cache.left \in Nat /\ cache.value \in Docs \cup {-1} /\ sinceChange \in Nat
    <2>1. /\ applied \subseteq Mutations /\ doc = Cardinality(applied)
          /\ flight.value \in Docs /\ flight.age \in 0..Deadline
          /\ cache.value \in Docs \cup {-1} /\ cache.left \in 0..Ttl /\ sinceChange \in 0..Settled
        BY DEF LiveTyped, LiveTypeOK
    <2>2. doc \in Nat /\ flight.value \in Nat
        BY <2>1, DocIsInRange, DocsAreNaturals
    <2> QED BY <2>1, <2>2, Constants
<1>2. floor' \in [Requests -> Nat] /\ \A q \in Requests \ {r} : floor'[q] = floor[q]
    BY <1>1 DEF LiveTyped
<1>3. floor'[r] = IF sinceChange = Settled THEN doc ELSE 0
    BY DEF LiveTyped
<1>4. flight.phase = "read" => floor'[r] <= flight.value
    <2>1. sinceChange = Settled => ~(sinceChange <= flight.age)
        BY <1>1, Constants
    <2> QED BY <1>1, <1>3, <2>1 DEF FreshInv
<1>5. Hit => cache.value \in Docs /\ floor'[r] <= cache.value
    <2>1. sinceChange = Settled /\ cache.left > 0 => ~(sinceChange + cache.left <= Settled)
        BY <1>1, Constants
    <2> QED BY <1>1, <1>3, <2>1, DocsAreNaturals DEF FreshInv, Hit
<1> QED BY <1>1, <1>2, <1>3, <1>4, <1>5

LEMMA HitKeepsInv ==
    ASSUME LiveInv, NEW r \in Requests, RunRead(r), Hit
    PROVE  LiveInv'
<1> USE DEF LiveInv
<1>1. r \in Reads /\ call[r] = "queued" /\ answer[r] = "none"
    BY DEF RunRead, LiveTyped, LiveTypeOK
<1>2. /\ floor' \in [Requests -> Nat]
      /\ \A q \in Requests \ {r} : floor'[q] = floor[q]
      /\ cache.value \in Docs /\ floor'[r] <= cache.value
    BY FloorWhenRun DEF RunRead
<1>3. /\ call' \in [Requests -> {"none", "queued", "waiting", "calling", "answered"}]
      /\ answer' \in [Requests -> {"none", "data", "done"} \cup Errors]
      /\ seen' \in [Requests -> Docs]
      /\ \A q \in Requests : call'[q] = "answered" <=> answer'[q] # "none"
      /\ call'[r] = "answered"
      /\ \A q \in Requests \ {r} :
            call'[q] = call[q] /\ answer'[q] = answer[q] /\ seen'[q] = seen[q]
      /\ answer'[r] = "data" => seen'[r] = cache.value
      /\ answer'[r] = "CANCELLED" => r \in aborted
      /\ Waiters' = Waiters \ {r}
    <2>1. CASE r \in aborted
        <3>1. GiveOf({r}, "CANCELLED", 0)
            BY <2>1 DEF Give, RunRead
        <3>2. /\ call' \in [Requests -> {"none", "queued", "waiting", "calling", "answered"}]
              /\ answer' \in [Requests -> {"none", "data", "done"} \cup Errors]
              /\ seen' \in [Requests -> Docs]
              /\ \A q \in Requests : call'[q] = "answered" <=> answer'[q] # "none"
              /\ call'[r] = "answered" /\ answer'[r] = "CANCELLED" /\ seen'[r] = 0
              /\ \A q \in Requests \ {r} :
                    call'[q] = call[q] /\ answer'[q] = answer[q] /\ seen'[q] = seen[q]
              /\ Waiters' = Waiters \ {r}
            BY <3>1, GivesOne, DocsAreNaturals DEF Errors
        <3> QED BY <2>1, <3>2
    <2>2. CASE r \notin aborted
        <3>1. GiveOf({r}, "data", cache.value)
            BY <2>2 DEF RunRead
        <3>2. /\ call' \in [Requests -> {"none", "queued", "waiting", "calling", "answered"}]
              /\ answer' \in [Requests -> {"none", "data", "done"} \cup Errors]
              /\ seen' \in [Requests -> Docs]
              /\ \A q \in Requests : call'[q] = "answered" <=> answer'[q] # "none"
              /\ call'[r] = "answered" /\ answer'[r] = "data" /\ seen'[r] = cache.value
              /\ \A q \in Requests \ {r} :
                    call'[q] = call[q] /\ answer'[q] = answer[q] /\ seen'[q] = seen[q]
              /\ Waiters' = Waiters \ {r}
            BY <1>2, <3>1, GivesOne
        <3> QED BY <2>2, <3>2
    <2> QED BY <2>1, <2>2
<1>4. Waiters' = Waiters
    BY <1>1, <1>3 DEF Waiters
<1>5. LiveTyped'
    BY <1>2, <1>3, <1>4 DEF RunRead, LiveTyped, LiveTypeOK
<1>6. SentOnce'
    BY <1>3, Constants DEF RunRead, SentOnce
<1>7. FlightInv' /\ FreshInv'
    BY <1>4 DEF RunRead, FlightInv, FreshInv
<1>8. FloorInv'
    BY <1>1, <1>2, <1>4 DEF RunRead, FloorInv, Waiters, Reads
<1>9. StaleReadsExpire'
    <2> SUFFICES ASSUME NEW q \in Reads, answer'[q] = "data"
                 PROVE  seen'[q] >= floor'[q]
        BY DEF StaleReadsExpire
    <2>1. CASE q = r
        BY <2>1, <1>2, <1>3, DocsAreNaturals
    <2> QED BY <2>1, <1>2, <1>3, Constants DEF StaleReadsExpire
<1>10. LeaversDoNoHarm'
    BY <1>3, Constants DEF RunRead, LeaversDoNoHarm
<1> QED BY <1>5, <1>6, <1>7, <1>8, <1>9, <1>10

\* A read that joins a flight, or begins one.
LEMMA WaitKeepsInv ==
    ASSUME LiveInv, NEW r \in Requests, RunRead(r), ~Hit
    PROVE  LiveInv'
<1> USE DEF LiveInv
<1> DEFINE f == IF flight = NoFlight THEN NewFlight ELSE flight
<1>1. /\ r \in Reads /\ call[r] = "queued" /\ answer[r] = "none" /\ r \notin Waiters
      /\ cache' = NoEntry /\ Wait(r, f)
    BY DEF RunRead, LiveTyped, LiveTypeOK, Waiters
<1>2. /\ f \in [phase : {"none", "out", "read", "sleep"}, value : Docs,
                attempt : 1..MaxAttempts, age : 0..Deadline, cancelled : BOOLEAN]
      /\ f.phase # "none" /\ f # NoFlight
      /\ f.cancelled => Waiters \subseteq late
      /\ f = flight \/ (f.phase = "out" /\ Waiters = {})
    BY Constants, DocsAreNaturals DEF LiveTyped, LiveTypeOK, FlightInv, NewFlight, NoFlight
<1> HIDE DEF f
<1>3. /\ floor' \in [Requests -> Nat]
      /\ \A q \in Requests \ {r} : floor'[q] = floor[q]
      /\ floor'[r] <= doc
      /\ flight.phase = "read" => floor'[r] <= flight.value
    BY FloorWhenRun DEF RunRead
<1>4. /\ call' \in [Requests -> {"none", "queued", "waiting", "calling", "answered"}]
      /\ answer' \in [Requests -> {"none", "data", "done"} \cup Errors]
      /\ seen' \in [Requests -> Docs]
      /\ \A q \in Requests : call'[q] = "answered" <=> answer'[q] # "none"
      /\ call'[r] \in {"waiting", "answered"}
      /\ \A q \in Requests \ {r} :
            call'[q] = call[q] /\ answer'[q] = answer[q] /\ seen'[q] = seen[q]
      /\ answer'[r] # "data"
      /\ answer'[r] = "CANCELLED" => r \in aborted
      /\ Waiters' = IF r \in aborted THEN Waiters ELSE Waiters \cup {r}
    <2>1. CASE r \in aborted
        <3>1. GiveOf({r}, "CANCELLED", 0)
            BY <1>1, <2>1 DEF Give, Wait
        <3>2. /\ call' \in [Requests -> {"none", "queued", "waiting", "calling", "answered"}]
              /\ answer' \in [Requests -> {"none", "data", "done"} \cup Errors]
              /\ seen' \in [Requests -> Docs]
              /\ \A q \in Requests : call'[q] = "answered" <=> answer'[q] # "none"
              /\ call'[r] = "answered" /\ answer'[r] = "CANCELLED" /\ seen'[r] = 0
              /\ \A q \in Requests \ {r} :
                    call'[q] = call[q] /\ answer'[q] = answer[q] /\ seen'[q] = seen[q]
              /\ Waiters' = Waiters \ {r}
            BY <3>1, GivesOne, DocsAreNaturals DEF Errors
        <3> QED BY <1>1, <2>1, <3>2
    <2>2. CASE r \notin aborted
        <3>1. call' = [call EXCEPT ![r] = "waiting"] /\ UNCHANGED <<answer, seen>>
            BY <1>1, <2>2 DEF Wait
        <3> QED BY <1>1, <2>2, <3>1, GoesOn DEF LiveTyped, LiveTypeOK
    <2> QED BY <2>1, <2>2
<1>5. /\ flight' \in [phase : {"none", "out", "read", "sleep"}, value : Docs,
                      attempt : 1..MaxAttempts, age : 0..Deadline, cancelled : BOOLEAN]
      /\ flight'.phase # "none" /\ flight' # NoFlight
      /\ flight'.phase = f.phase /\ flight'.value = f.value /\ flight'.age = f.age
      /\ flight'.cancelled => f.cancelled \/ Waiters' = {}
    <2>1. CASE r \in aborted
        <3>1. flight' = WhenLeft(f, Waiters) /\ Waiters' = Waiters
            BY <1>1, <1>4, <2>1 DEF Wait
        <3>2. flight' = f \/ (flight' = [f EXCEPT !.cancelled = TRUE] /\ Waiters' = {})
            BY <3>1 DEF WhenLeft
        <3>3. CASE flight' = f
            BY <1>2, <3>3
        <3>4. CASE flight' = [f EXCEPT !.cancelled = TRUE] /\ Waiters' = {}
            <4>1. flight'.phase = f.phase /\ flight'.phase # NoFlight.phase
                BY <1>2, <3>4 DEF NoFlight
            <4> QED BY <1>2, <3>4, <4>1
        <3> QED BY <3>2, <3>3, <3>4
    <2>2. CASE r \notin aborted
        <3>1. flight' = f
            BY <1>1, <2>2 DEF Wait
        <3> QED BY <1>2, <3>1
    <2> QED BY <2>1, <2>2
<1>6. late' \subseteq Reads /\ late \subseteq late'
      /\ (f.cancelled /\ r \notin aborted => r \in late')
    BY <1>1 DEF Wait, LiveTyped, LiveTypeOK
<1>7. LiveTyped'
    BY <1>1, <1>3, <1>4, <1>5, <1>6, Constants DEF RunRead, LiveTyped, LiveTypeOK, NoEntry
<1>8. SentOnce'
    BY <1>4, Constants DEF RunRead, SentOnce
<1>9. FlightInv'
    BY <1>2, <1>4, <1>5, <1>6 DEF FlightInv
<1>10. FreshInv'
    BY <1>1, <1>2, <1>5 DEF RunRead, FreshInv, NoEntry
<1>11. FloorInv'
    BY <1>1, <1>2, <1>3, <1>4, <1>5 DEF RunRead, FloorInv, Waiters, Reads
<1>12. StaleReadsExpire' /\ LeaversDoNoHarm'
    BY <1>3, <1>4, <1>6, Constants DEF RunRead, StaleReadsExpire, LeaversDoNoHarm
<1> QED BY <1>7, <1>8, <1>9, <1>10, <1>11, <1>12
-----------------------------------------------------------------------------
\* A mutation that is sent, or was aborted before.
LEMMA RunMutationKeepsInv ==
    ASSUME LiveInv, NEW r \in Requests, RunMutation(r)
    PROVE  LiveInv'
<1> USE DEF LiveInv
<1>1. /\ r \in Mutations /\ r \notin Reads /\ call[r] = "queued" /\ r \notin Waiters
      /\ r \notin atMastercam \cup applied
    BY DEF RunMutation, SentOnce, Reads, Waiters
<1>2. /\ call' \in [Requests -> {"none", "queued", "waiting", "calling", "answered"}]
      /\ answer' \in [Requests -> {"none", "data", "done"} \cup Errors]
      /\ seen' \in [Requests -> Docs]
      /\ \A q \in Requests : call'[q] = "answered" <=> answer'[q] # "none"
      /\ call'[r] # "queued"
      /\ \A q \in Requests \ {r} :
            call'[q] = call[q] /\ answer'[q] = answer[q] /\ seen'[q] = seen[q]
      /\ Waiters' = Waiters \ {r}
      /\ atMastercam' \subseteq atMastercam \cup {r}
    <2>1. CASE r \in aborted
        <3>1. GiveOf({r}, "CANCELLED", 0) /\ UNCHANGED atMastercam
            BY <2>1 DEF Give, RunMutation
        <3>2. /\ call' \in [Requests -> {"none", "queued", "waiting", "calling", "answered"}]
              /\ answer' \in [Requests -> {"none", "data", "done"} \cup Errors]
              /\ seen' \in [Requests -> Docs]
              /\ \A q \in Requests : call'[q] = "answered" <=> answer'[q] # "none"
              /\ call'[r] = "answered"
              /\ \A q \in Requests \ {r} :
                    call'[q] = call[q] /\ answer'[q] = answer[q] /\ seen'[q] = seen[q]
              /\ Waiters' = Waiters \ {r}
            BY <3>1, GivesOne, DocsAreNaturals DEF Errors
        <3> QED BY <3>1, <3>2
    <2>2. CASE r \notin aborted
        <3>1. call' = [call EXCEPT ![r] = "calling"] /\ UNCHANGED <<answer, seen>>
              /\ atMastercam' = atMastercam \cup {r}
            BY <2>2 DEF RunMutation
        <3> QED BY <1>1, <3>1, GoesOn DEF LiveTyped, LiveTypeOK
    <2> QED BY <2>1, <2>2
<1>3. Waiters' = Waiters
    BY <1>1, <1>2
<1>4. LiveTyped'
    BY <1>1, <1>2, <1>3 DEF RunMutation, LiveTyped, LiveTypeOK
<1>5. SentOnce'
    BY <1>1, <1>2, Constants DEF RunMutation, SentOnce
<1>6. FlightInv' /\ FreshInv' /\ FloorInv'
    BY <1>3 DEF RunMutation, FlightInv, FreshInv, FloorInv
<1>7. StaleReadsExpire' /\ LeaversDoNoHarm'
    BY <1>1, <1>2, Constants DEF RunMutation, StaleReadsExpire, LeaversDoNoHarm
<1> QED BY <1>4, <1>5, <1>6, <1>7

\* Mastercam changes the document: what was read before is from now on old, but
\* no older than the time since the change.
LEMMA ApplyKeepsInv ==
    ASSUME LiveInv, NEW r \in Requests, Apply(r)
    PROVE  LiveInv'
<1> USE DEF LiveInv
<1>1. /\ r \in atMastercam /\ r \in Mutations /\ r \notin applied
      /\ applied \subseteq Mutations /\ doc = Cardinality(applied)
      /\ flight.age \in 0..Deadline /\ cache.left \in 0..Ttl
    BY DEF Apply, SentOnce, LiveTyped, LiveTypeOK
<1>2. /\ atMastercam' = atMastercam \ {r} /\ applied' \subseteq applied \cup {r}
      /\ applied' \subseteq Mutations
      /\ Waiters' = Waiters
    BY <1>1 DEF Apply, Waiters
<1>3. doc' = Cardinality(applied') /\ doc \in Nat /\ doc <= doc'
    <2>1. IsFiniteSet(applied) /\ doc \in Nat
        BY <1>1, DocIsInRange, DocsAreNaturals
    <2>2. CASE applied' = applied /\ doc' = doc
        BY <2>1, <2>2, <1>1
    <2>3. CASE applied' = applied \cup {r} /\ doc' = doc + 1
        <3>1. Cardinality(applied \cup {r}) = Cardinality(applied) + 1
            BY <2>1, <1>1, FS_AddElement
        <3>2. doc <= doc + 1
            BY <2>1
        <3> QED BY <2>1, <2>3, <1>1, <3>1, <3>2
    <2>4. \/ applied' = applied /\ doc' = doc
          \/ applied' = applied \cup {r} /\ doc' = doc + 1
        BY DEF Apply
    <2> QED BY <2>2, <2>3, <2>4
<1>4. \/ doc' = doc /\ sinceChange' = sinceChange
      \/ sinceChange' = 0
    BY DEF Apply
<1>5. sinceChange' \in 0..Settled
    BY <1>4, Constants DEF LiveTyped, LiveTypeOK
<1>6. LiveTyped'
    BY <1>1, <1>2, <1>3, <1>5 DEF Apply, LiveTyped, LiveTypeOK
<1>7. SentOnce'
    BY <1>1, <1>2 DEF Apply, SentOnce
<1>8. FlightInv'
    BY <1>2 DEF Apply, FlightInv
<1>9. FreshInv'
    <2>1. flight' = flight /\ cache' = cache
        BY DEF Apply
    <2>2. CASE doc' = doc /\ sinceChange' = sinceChange
        BY <2>1, <2>2 DEF FreshInv
    <2>3. CASE sinceChange' = 0
        <3>1. 0 <= flight.age /\ (cache.left > 0 => 0 + cache.left <= Settled)
            BY <1>1, Constants
        <3> QED BY <2>1, <2>3, <3>1 DEF FreshInv
    <2> QED BY <1>4, <2>2, <2>3
<1>10. FloorInv'
    <2>1. \A q \in Waiters : floor[q] \in Nat
        BY DEF LiveTyped, Waiters, Reads
    <2>2. doc' \in Nat
        BY <1>3, <1>4, DocIsInRange, DocsAreNaturals, <1>2
    <2> QED BY <1>2, <1>3, <2>1, <2>2 DEF Apply, FloorInv
<1>11. StaleReadsExpire' /\ LeaversDoNoHarm'
    BY DEF Apply, StaleReadsExpire, LeaversDoNoHarm
<1> QED BY <1>6, <1>7, <1>8, <1>9, <1>10, <1>11

LEMMA MutationAnswersKeepInv ==
    ASSUME LiveInv, NEW r \in Requests, MutationReturns(r) \/ MutationFails(r)
    PROVE  LiveInv'
<1> USE DEF LiveInv
<1>1. call[r] = "calling" /\ r \notin Waiters
    BY DEF MutationReturns, MutationFails, Waiters
<1>2. PICK v \in {"done", "failed"} : GiveOf({r}, v, 0)
    BY DEF MutationReturns, MutationFails, Give
<1>3. /\ call' \in [Requests -> {"none", "queued", "waiting", "calling", "answered"}]
      /\ answer' \in [Requests -> {"none", "data", "done"} \cup Errors]
      /\ seen' \in [Requests -> Docs]
      /\ \A q \in Requests : call'[q] = "answered" <=> answer'[q] # "none"
      /\ call'[r] = "answered" /\ answer'[r] = v
      /\ \A q \in Requests \ {r} :
            call'[q] = call[q] /\ answer'[q] = answer[q] /\ seen'[q] = seen[q]
      /\ Waiters' = Waiters \ {r}
    BY <1>2, GivesOne, DocsAreNaturals DEF Errors
<1>4. Waiters' = Waiters
    BY <1>1, <1>3
<1>5. /\ cache' \in {cache, NoEntry}
      /\ UNCHANGED <<aborted, flight, atMastercam, applied, doc, sinceChange, floor, late>>
    BY DEF MutationReturns, MutationFails
<1>6. LiveTyped'
    BY <1>3, <1>4, <1>5, Constants DEF LiveTyped, LiveTypeOK, NoEntry
<1>7. SentOnce'
    BY <1>3, <1>5, Constants DEF SentOnce
<1>8. FlightInv' /\ FreshInv' /\ FloorInv'
    BY <1>4, <1>5 DEF FlightInv, FreshInv, FloorInv, NoEntry
<1>9. StaleReadsExpire' /\ LeaversDoNoHarm'
    BY <1>3, <1>5, Constants DEF StaleReadsExpire, LeaversDoNoHarm
<1> QED BY <1>6, <1>7, <1>8, <1>9

\* A caller leaves; only the last one to leave cancels the flight.
LEMMA AbortKeepsInv ==
    ASSUME LiveInv, NEW r \in Requests, Abort(r)
    PROVE  LiveInv'
<1> USE DEF LiveInv
<1>1. /\ r \notin aborted /\ aborted' = aborted \cup {r}
      /\ call[r] # "answered" /\ answer[r] = "none"
      /\ UNCHANGED <<cache, atMastercam, applied, doc, sinceChange, floor, late>>
    BY DEF Abort, CanAbort, LiveTyped, LiveTypeOK
<1>2. /\ call' \in [Requests -> {"none", "queued", "waiting", "calling", "answered"}]
      /\ answer' \in [Requests -> {"none", "data", "done"} \cup Errors]
      /\ seen' \in [Requests -> Docs]
      /\ \A q \in Requests : call'[q] = "answered" <=> answer'[q] # "none"
      /\ call'[r] = "queued" => call[r] = "queued"
      /\ answer'[r] # "data"
      /\ \A q \in Requests \ {r} :
            call'[q] = call[q] /\ answer'[q] = answer[q] /\ seen'[q] = seen[q]
      /\ Waiters' = Waiters \ {r}
    <2>1. CASE Hears(r)
        <3>1. GiveOf({r}, "CANCELLED", 0)
            BY <2>1 DEF Abort, Give
        <3>2. /\ call' \in [Requests -> {"none", "queued", "waiting", "calling", "answered"}]
              /\ answer' \in [Requests -> {"none", "data", "done"} \cup Errors]
              /\ seen' \in [Requests -> Docs]
              /\ \A q \in Requests : call'[q] = "answered" <=> answer'[q] # "none"
              /\ call'[r] = "answered" /\ answer'[r] = "CANCELLED"
              /\ \A q \in Requests \ {r} :
                    call'[q] = call[q] /\ answer'[q] = answer[q] /\ seen'[q] = seen[q]
              /\ Waiters' = Waiters \ {r}
            BY <3>1, GivesOne, DocsAreNaturals DEF Errors
        <3> QED BY <3>2
    <2>2. CASE ~Hears(r)
        <3>1. UNCHANGED <<call, answer, seen>> /\ r \notin Waiters
            BY <2>2 DEF Abort, Hears, Waiters
        <3> QED BY <1>1, <3>1 DEF LiveTyped, LiveTypeOK, Waiters
    <2> QED BY <2>1, <2>2
<1>3. flight' = flight \/ (flight' = [flight EXCEPT !.cancelled = TRUE] /\ Waiters' = {} /\ r \in Waiters)
    BY <1>2 DEF Abort, WhenLeft
<1>4. r \in Waiters => flight.phase # "none"
    BY DEF LiveTyped, LiveTypeOK, FlightInv
<1>5. /\ flight' \in [phase : {"none", "out", "read", "sleep"}, value : Docs,
                      attempt : 1..MaxAttempts, age : 0..Deadline, cancelled : BOOLEAN]
      /\ flight'.phase = flight.phase /\ flight'.value = flight.value /\ flight'.age = flight.age
      /\ flight'.cancelled => flight.cancelled \/ Waiters' = {}
      /\ flight' = flight \/ flight'.phase # "none"
    <2>1. flight \in [phase : {"none", "out", "read", "sleep"}, value : Docs,
                      attempt : 1..MaxAttempts, age : 0..Deadline, cancelled : BOOLEAN]
        BY DEF LiveTyped, LiveTypeOK
    <2>2. CASE flight' = flight
        BY <2>1, <2>2
    <2>3. CASE flight' = [flight EXCEPT !.cancelled = TRUE] /\ Waiters' = {} /\ r \in Waiters
        BY <1>4, <2>1, <2>3
    <2> QED BY <1>3, <2>2, <2>3
<1>6. LiveTyped'
    <2>1. Waiters' # {} => flight' # NoFlight
        <3>1. flight'.phase # "none" => flight' # NoFlight
            BY DEF NoFlight
        <3> QED BY <1>2, <1>5, <3>1 DEF LiveTyped, LiveTypeOK
    <2> QED BY <1>1, <1>2, <1>5, <2>1 DEF LiveTyped, LiveTypeOK
<1>7. SentOnce'
    BY <1>1, <1>2, Constants DEF SentOnce
<1>8. FlightInv'
    BY <1>1, <1>2, <1>5 DEF FlightInv
<1>9. FreshInv' /\ FloorInv'
    BY <1>1, <1>2, <1>5 DEF FreshInv, FloorInv
<1>10. StaleReadsExpire' /\ LeaversDoNoHarm'
    BY <1>1, <1>2, Constants DEF StaleReadsExpire, LeaversDoNoHarm
<1> QED BY <1>6, <1>7, <1>8, <1>9, <1>10

\* Time passes for the flight, the cache and the last change alike.
LEMMA ClockTickKeepsInv ==
    ASSUME LiveInv, ClockTick
    PROVE  LiveInv'
<1> USE DEF LiveInv
<1>1. /\ flight \in [phase : {"none", "out", "read", "sleep"}, value : Docs,
                     attempt : 1..MaxAttempts, age : 0..Deadline, cancelled : BOOLEAN]
      /\ cache \in [value : Docs \cup {-1}, left : 0..Ttl] /\ sinceChange \in 0..Settled
      /\ flight # NoFlight => flight.age < Deadline
      /\ UNCHANGED <<call, answer, seen, aborted, atMastercam, applied, doc, floor, late>>
    BY DEF ClockTick, TimersDone, LiveTyped, LiveTypeOK
<1>2. Waiters' = Waiters
    BY <1>1 DEF Waiters
<1>3. /\ cache' \in [value : Docs \cup {-1}, left : 0..Ttl] /\ cache'.value = cache.value
      /\ cache'.left > 0 => cache.left > 0 /\ cache'.left = cache.left - 1
    BY <1>1, Constants DEF ClockTick
<1>4. /\ flight' \in [phase : {"none", "out", "read", "sleep"}, value : Docs,
                      attempt : 1..MaxAttempts, age : 0..Deadline, cancelled : BOOLEAN]
      /\ flight'.phase = flight.phase /\ flight'.value = flight.value
      /\ flight'.cancelled = flight.cancelled
      /\ flight = NoFlight <=> flight' = NoFlight
      /\ flight # NoFlight => flight'.age = flight.age + 1
    <2>1. CASE flight = NoFlight
        BY <1>1, <2>1 DEF ClockTick
    <2>2. CASE flight # NoFlight
        <3>1. flight' = [flight EXCEPT !.age = flight.age + 1]
            BY <2>2 DEF ClockTick
        <3>2. flight.age + 1 \in 0..Deadline /\ flight.age + 1 # 0
            BY <1>1, <2>2, Constants
        <3> QED BY <1>1, <2>2, <3>1, <3>2 DEF NoFlight
    <2> QED BY <2>1, <2>2
<1>5. /\ sinceChange' \in 0..Settled
      /\ sinceChange' <= sinceChange + 1
    BY <1>1, Constants DEF ClockTick
<1>6. LiveTyped'
    BY <1>1, <1>2, <1>3, <1>4, <1>5 DEF LiveTyped, LiveTypeOK
<1>7. SentOnce' /\ FlightInv' /\ FloorInv'
    BY <1>1, <1>2, <1>4 DEF SentOnce, FlightInv, FloorInv
<1>8. FreshInv'
    <2>1. flight'.phase = "read" => flight'.value = doc' \/ sinceChange' <= flight'.age
        <3>1. flight.phase = "read" => flight # NoFlight
            BY DEF NoFlight
        <3>2. sinceChange <= flight.age => sinceChange' <= flight.age + 1
            BY <1>1, <1>5, Constants
        <3> QED BY <1>1, <1>4, <3>1, <3>2 DEF FreshInv
    <2>2. cache'.left > 0 => /\ cache'.value \in Nat
                             /\ cache'.value = doc' \/ sinceChange' + cache'.left <= Settled
        <3>1. ASSUME cache'.left > 0, sinceChange + cache.left <= Settled
              PROVE  sinceChange' + cache'.left <= Settled
            <4>1. cache.left \in Nat /\ sinceChange \in Nat /\ sinceChange' \in Nat /\ Settled \in Nat
                BY <1>1, <1>5, Constants
            <4> QED BY <3>1, <4>1, <1>3, <1>5
        <3> QED BY <1>1, <1>3, <3>1 DEF FreshInv
    <2> QED BY <2>1, <2>2 DEF FreshInv
<1>9. StaleReadsExpire' /\ LeaversDoNoHarm'
    BY <1>1 DEF StaleReadsExpire, LeaversDoNoHarm
<1> QED BY <1>6, <1>7, <1>8, <1>9

LEMMA ForgetKeepsInv ==
    ASSUME LiveInv, NEW r \in Requests, Forget(r)
    PROVE  LiveInv'
<1> USE DEF LiveInv, Forget
<1>1. /\ call' \in [Requests -> {"none", "queued", "waiting", "calling", "answered"}]
      /\ call'[r] = "none" /\ answer'[r] = "none"
      /\ \A q \in Requests \ {r} :
            call'[q] = call[q] /\ answer'[q] = answer[q] /\ seen'[q] = seen[q] /\ floor'[q] = floor[q]
    BY DEF LiveTyped, LiveTypeOK
<1>2. Waiters' = Waiters \ {r}
    BY <1>1 DEF Waiters, Reads
<1>3. LiveTyped'
    BY <1>1, <1>2, DocsAreNaturals DEF LiveTyped, LiveTypeOK
<1>4. SentOnce'
    BY <1>1, Constants DEF SentOnce
<1>5. FlightInv' /\ FreshInv'
    BY <1>2 DEF FlightInv, FreshInv
<1>6. FloorInv'
    BY <1>1, <1>2, Constants DEF FloorInv, Waiters
<1>7. StaleReadsExpire' /\ LeaversDoNoHarm'
    BY <1>1, Constants DEF StaleReadsExpire, LeaversDoNoHarm
<1> QED BY <1>3, <1>4, <1>5, <1>6, <1>7
-----------------------------------------------------------------------------
BackendStep(r) == RunRead(r) \/ RunMutation(r) \/ MutationStep(r) \/ Abort(r)

LEMMA BackendStepKeepsInv ==
    ASSUME LiveInv, NEW r \in Requests, BackendStep(r)
    PROVE  LiveInv'
BY HitKeepsInv, WaitKeepsInv, RunMutationKeepsInv, ApplyKeepsInv, MutationAnswersKeepInv,
   AbortKeepsInv DEF BackendStep, MutationStep

LEMMA FlightStepKeepsInv ==
    ASSUME LiveInv, FlightStep
    PROVE  LiveInv'
BY HostReadsKeepsInv, ReadReturnsKeepsInv, FlightEndsKeepsInv, RetryKeepsInv, BridgeEventKeepsInv
   DEF FlightStep

\* The backend begins no call of its own, and sends only what was called.
NothingBegins ==
    \A q \in Requests :
        /\ call'[q] # "none" => call[q] # "none"
        /\ q \in atMastercam' \cup applied' => q \in atMastercam \cup applied \/ call[q] # "none"

LEMMA BackendStepBeginsNothing ==
    ASSUME LiveInv, NEW r \in Requests, BackendStep(r)
    PROVE  NothingBegins
<1> USE DEF LiveInv, LiveTyped, LiveTypeOK, NothingBegins, Give, GiveOf
<1>1. CASE RunRead(r)
    BY <1>1 DEF RunRead, Wait
<1>2. CASE RunMutation(r)
    BY <1>2 DEF RunMutation
<1>3. CASE MutationStep(r)
    BY <1>3 DEF MutationStep, Apply, MutationReturns, MutationFails
<1>4. CASE Abort(r)
    BY <1>4 DEF Abort, CanAbort
<1> QED BY <1>1, <1>2, <1>3, <1>4 DEF BackendStep

LEMMA FlightStepBeginsNothing ==
    ASSUME LiveInv, FlightStep
    PROVE  NothingBegins
BY DEF LiveInv, LiveTyped, LiveTypeOK, NothingBegins, FlightStep, HostReads, ReadReturns, ReadFails,
       RetryLater, Retry, CancelledFlightEnds, BridgeEvent, Land, GiveOf, Waiters

LEMMA BackendUnmoved ==
    ASSUME LiveInv, UNCHANGED backend
    PROVE  LiveInv'
<1>1. Waiters' = Waiters
    BY DEF Waiters, backend
<1> QED BY <1>1 DEF backend, LiveInv, LiveTyped, LiveTypeOK, SentOnce, FlightInv, FreshInv, FloorInv,
                    StaleReadsExpire, LeaversDoNoHarm

\* What the host's invariant asks beyond the backend's.
StageInv ==
    /\ stage \in [Requests -> {"none", "body", "call", "write", "drain", "done"}]
    /\ gone \subseteq Requests
    /\ activeRequests = Cardinality(Held)
    /\ activeRequests <= MaxConcurrency

LEMMA HostInvParts ==
    /\ HostInv <=> LiveInv /\ StageInv /\ StagesInv
    /\ LiveInv' /\ StageInv' /\ StagesInv' => HostInv'
BY DEF HostInv, HttpTypeOK, StageInv, LiveInv, LiveTyped

LEMMA HeldIsFinite == IsFiniteSet(Held) /\ Cardinality(Held) \in Nat
BY Constants, FS_Subset, FS_CardinalityType DEF Held

LEMMA HostInvInit == HttpInit => HostInv
<1> SUFFICES ASSUME HttpInit PROVE HostInv
    OBVIOUS
<1>1. LiveInv
    BY LiveInvInit DEF HttpInit
<1>2. Held = {}
    BY DEF HttpInit, Held
<1>3. StageInv
    BY <1>2, FS_EmptySet, HttpAssumption DEF HttpInit, StageInv
<1>4. StagesInv
    BY DEF StagesInv, HttpInit, LiveInit
<1> QED BY <1>1, <1>3, <1>4, HostInvParts

\* A step of the backend for one request, or of a flight, that the host does not see.
LEMMA BackendKeepsHostInv ==
    ASSUME HostInv, LiveInv', NothingBegins, UNCHANGED <<stage, activeRequests>>,
           gone' \subseteq Requests
    PROVE  HostInv'
<1>1. LiveInv /\ StageInv /\ StagesInv
    BY HostInvParts
<1>2. Held' = Held
    BY DEF Held
<1>3. StageInv'
    BY <1>1, <1>2 DEF StageInv
<1>4. StagesInv'
    BY <1>1 DEF StagesInv, NothingBegins
<1> QED BY <1>3, <1>4, HostInvParts

\* A request goes on to another stage that holds a slot.
LEMMA StageKeepsHostInv ==
    ASSUME HostInv, NEW r \in Held, NEW next \in {"call", "write", "drain"},
           stage' = [stage EXCEPT ![r] = next], UNCHANGED <<activeRequests, gone>>,
           UNCHANGED backend
    PROVE  HostInv'
<1>1. LiveInv /\ StageInv /\ StagesInv
    BY HostInvParts
<1>2. r \in Requests /\ stage'[r] = next /\ \A q \in Requests \ {r} : stage'[q] = stage[q]
    BY <1>1 DEF Held, StageInv
<1>3. Held' = Held
    BY <1>2 DEF Held
<1>4. StageInv'
    BY <1>1, <1>3 DEF StageInv
<1>5. StagesInv'
    BY <1>1, <1>2 DEF StagesInv, backend
<1>6. LiveInv'
    BY <1>1, BackendUnmoved
<1> QED BY <1>4, <1>5, <1>6, HostInvParts

\* The finally block: a request that ends gives back the slot it held.
LEMMA EndKeepsHostInv ==
    ASSUME HostInv, NEW r \in Held, End(r)
    PROVE  HostInv'
<1>1. LiveInv /\ StageInv /\ StagesInv
    BY HostInvParts
<1>2. r \in Requests /\ stage'[r] = "done" /\ \A q \in Requests \ {r} : stage'[q] = stage[q]
    BY <1>1 DEF Held, StageInv, End
<1>3. Held' = Held \ {r}
    BY <1>2 DEF Held
<1>4. Cardinality(Held') = Cardinality(Held) - 1
    BY <1>3, HeldIsFinite, FS_RemoveElement
<1>5. StageInv'
    <2>1. activeRequests' = Cardinality(Held') /\ activeRequests' <= MaxConcurrency
        BY <1>1, <1>4, HeldIsFinite, HttpAssumption DEF StageInv, End, FreeSlot
    <2> QED BY <1>1, <2>1 DEF StageInv, End
<1>6. StagesInv'
    <2>1. call'[r] = "none" /\ \A q \in Requests \ {r} : call'[q] = call[q]
        BY <1>1, <1>2 DEF End, Forget, LiveInv, LiveTyped, LiveTypeOK
    <2> QED BY <1>1, <1>2, <2>1 DEF StagesInv, End, Forget
<1>7. LiveInv'
    BY <1>1, <1>2, ForgetKeepsInv DEF End
<1> QED BY <1>5, <1>6, <1>7, HostInvParts

LEMMA RefuseKeepsHostInv ==
    ASSUME HostInv, NEW r \in Requests, Refuse(r)
    PROVE  HostInv'
<1>1. LiveInv /\ StageInv /\ StagesInv
    BY HostInvParts
<1>2. stage[r] = "none" /\ stage'[r] = "done" /\ \A q \in Requests \ {r} : stage'[q] = stage[q]
    BY <1>1 DEF StageInv, Refuse
<1>3. Held' = Held
    BY <1>2 DEF Held
<1>4. StageInv'
    BY <1>1, <1>3 DEF StageInv, Refuse
<1>5. StagesInv'
    BY <1>1, <1>2 DEF StagesInv, Refuse, backend
<1>6. LiveInv'
    BY <1>1, BackendUnmoved DEF Refuse
<1> QED BY <1>4, <1>5, <1>6, HostInvParts

LEMMA ArriveKeepsHostInv ==
    ASSUME HostInv, NEW r \in Requests, Arrive(r)
    PROVE  HostInv'
<1>1. LiveInv /\ StageInv /\ StagesInv
    BY HostInvParts
<1>2. stage[r] = "none" /\ stage'[r] = "body" /\ \A q \in Requests \ {r} : stage'[q] = stage[q]
    BY <1>1 DEF StageInv, Arrive
<1>3. Held' = Held \cup {r} /\ r \notin Held
    BY <1>2 DEF Held
<1>4. Cardinality(Held') = Cardinality(Held) + 1
    BY <1>3, HeldIsFinite, FS_AddElement
<1>5. StageInv'
    <2>1. activeRequests' <= MaxConcurrency
        BY <1>1, HeldIsFinite, HttpAssumption DEF StageInv, Arrive
    <2> QED BY <1>1, <1>4, <2>1 DEF StageInv, Arrive
<1>6. StagesInv'
    BY <1>1, <1>2 DEF StagesInv, Arrive, backend
<1>7. LiveInv'
    BY <1>1, BackendUnmoved DEF Arrive
<1> QED BY <1>5, <1>6, <1>7, HostInvParts

\* The body is read: the call is made, once.
LEMMA BodyReadKeepsHostInv ==
    ASSUME HostInv, NEW r \in Requests, BodyRead(r)
    PROVE  HostInv'
<1>1. LiveInv /\ StageInv /\ StagesInv
    BY HostInvParts
<1>2. stage[r] = "body" /\ stage'[r] = "call" /\ \A q \in Requests \ {r} : stage'[q] = stage[q]
    BY <1>1 DEF StageInv, BodyRead
<1>3. Held' = Held
    BY <1>2 DEF Held
<1>4. StageInv'
    BY <1>1, <1>3 DEF StageInv, BodyRead
<1>5. \A q \in Requests \ {r} : call'[q] = call[q]
    BY <1>1 DEF BodyRead, Schedule, Give, GiveOf, LiveInv, LiveTyped, LiveTypeOK
<1>6. StagesInv'
    BY <1>1, <1>2, <1>5 DEF StagesInv, BodyRead, Schedule
<1>7. LiveInv'
    BY <1>1, <1>2, ScheduleKeepsInv DEF BodyRead, StagesInv
<1> QED BY <1>4, <1>6, <1>7, HostInvParts

LEMMA ClientGoesKeepsHostInv ==
    ASSUME HostInv, NEW r \in Requests, ClientGoes(r)
    PROVE  HostInv'
<1>1. LiveInv /\ StageInv /\ StagesInv
    BY HostInvParts
<1>2. UNCHANGED <<stage, activeRequests>> /\ gone' \subseteq Requests
    BY <1>1 DEF ClientGoes, StageInv
<1>3. CASE Abort(r)
    BY <1>1, <1>2, <1>3, BackendStepKeepsInv, BackendStepBeginsNothing, BackendKeepsHostInv
       DEF BackendStep
<1>4. CASE UNCHANGED backend
    <2>1. NothingBegins
        BY <1>4 DEF NothingBegins, backend
    <2> QED BY <1>1, <1>2, <1>4, <2>1, BackendUnmoved, BackendKeepsHostInv
<1> QED BY <1>3, <1>4 DEF ClientGoes

LEMMA HostInvStep == HostInv /\ [HttpNext]_all => HostInv'
<1> SUFFICES ASSUME HostInv, [HttpNext]_all PROVE HostInv'
    OBVIOUS
<1>1. LiveInv /\ StageInv
    BY HostInvParts
<1>2. ASSUME NEW r \in Requests, HandleStep(r)
      PROVE  HostInv'
    <2>1. CASE BodyFails(r) \/ WriteEnds(r) \/ Abandon(r)
        BY <2>1, EndKeepsHostInv DEF BodyFails, WriteEnds, Abandon, Held
    <2>2. CASE BodyRead(r)
        BY <2>2, BodyReadKeepsHostInv
    <2>3. CASE Respond(r)
        BY <2>3, StageKeepsHostInv DEF Respond, Held
    <2> QED BY <1>2, <2>1, <2>2, <2>3 DEF HandleStep
<1>3. ASSUME NEW r \in Requests, WriteWaits(r) \/ Drained(r)
      PROVE  HostInv'
    BY <1>3, StageKeepsHostInv DEF WriteWaits, Drained, Held
<1>4. ASSUME NEW r \in Requests, BackendStep(r), UNCHANGED http
      PROVE  HostInv'
    BY <1>1, <1>4, BackendStepKeepsInv, BackendStepBeginsNothing, BackendKeepsHostInv
       DEF http, StageInv
<1>5. ASSUME FlightStep, UNCHANGED http
      PROVE  HostInv'
    BY <1>1, <1>5, FlightStepKeepsInv, FlightStepBeginsNothing, BackendKeepsHostInv
       DEF http, StageInv
<1>6. ASSUME ClockTick, UNCHANGED http
      PROVE  HostInv'
    <2>1. NothingBegins
        BY <1>6 DEF NothingBegins, ClockTick
    <2> QED BY <1>1, <1>6, <2>1, ClockTickKeepsInv, BackendKeepsHostInv DEF http, StageInv
<1>7. CASE UNCHANGED all
    <2>1. NothingBegins
        BY <1>7 DEF NothingBegins, all, backend
    <2> QED BY <1>1, <1>7, <2>1, BackendUnmoved, BackendKeepsHostInv DEF all, http, StageInv
<1>8. ASSUME NEW r \in Requests,
             Refuse(r) \/ Arrive(r) \/ DeadlinePasses(r) \/ ClientGoes(r) \/ RunStep(r)
      PROVE  HostInv'
    BY <1>4, <1>8, RefuseKeepsHostInv, ArriveKeepsHostInv, ClientGoesKeepsHostInv
       DEF DeadlinePasses, RunStep, BackendStep
<1> QED BY <1>2, <1>3, <1>4, <1>5, <1>6, <1>7, <1>8 DEF HttpNext, BackendStep

\* Whatever the clients, the scheduler and the bridge do, the backend keeps its
\* types and activeRequests is the number of requests that are being handled,
\* never above the limit.
THEOREM HttpTypesCorrect == HttpSpec => []HttpTypeOK
<1>1. HostInv => HttpTypeOK
    BY DEF HostInv
<1> QED BY <1>1, HostInvInit, HostInvStep, PTL DEF HttpSpec

\* A read that starts Deadline + Ttl after the last change of the document gets
\* it as it is, out of the cache, a flight or Mastercam.
THEOREM StaleReadsExpireCorrect == HttpSpec => []StaleReadsExpire
<1>1. HostInv => StaleReadsExpire
    BY DEF HostInv, LiveInv
<1> QED BY <1>1, HostInvInit, HostInvStep, PTL DEF HttpSpec

\* Nobody is cancelled because of the others who shared a read and left.
THEOREM LeaversDoNoHarmCorrect == HttpSpec => []LeaversDoNoHarm
<1>1. HostInv => LeaversDoNoHarm
    BY DEF HostInv, LiveInv
<1> QED BY <1>1, HostInvInit, HostInvStep, PTL DEF HttpSpec
=============================================================================
