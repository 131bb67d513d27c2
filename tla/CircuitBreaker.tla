--------------------------- MODULE CircuitBreaker ---------------------------
(***************************************************************************)
(* The circuit breaker around every bridge call                            *)
(* (src/src/transport/circuit-breaker.ts).  Calls overlap, so a call that  *)
(* was let in while the breaker was closed may return in any later state.  *)
(*                                                                         *)
(* The time since the breaker opened is kept as what is left of the        *)
(* cooldown.  `streak` and `healthy` are not in the code: the transport    *)
(* failures since the last success, capped at the threshold, and whether   *)
(* the transport has stopped failing for good.                             *)
(***************************************************************************)
EXTENDS Integers, FiniteSets

CONSTANTS
    Calls,                      \* callers, each with at most one call at a time
    FailureThreshold,           \* transport failures in a row that trip the breaker
    Cooldown,                   \* how long it then stays open
    RequiredHalfOpenSuccesses   \* successes that close it again

ASSUME BreakerAssumption ==
    /\ FailureThreshold \in Nat \ {0}
    /\ Cooldown \in Nat
    /\ RequiredHalfOpenSuccesses \in Nat \ {0}

VARIABLES
    state, failures, halfOpenSuccesses, halfOpenProbeInFlight,
    cooling,   \* what is left of the cooldown
    normal,    \* calls in flight that were let in while the breaker was closed
    probes,    \* calls in flight that were let in as probes
    streak, healthy

vars == <<state, failures, halfOpenSuccesses, halfOpenProbeInFlight, cooling,
          normal, probes, streak, healthy>>

BreakerStates == {"CLOSED", "OPEN", "HALF_OPEN"}
InFlight == normal \cup probes
-----------------------------------------------------------------------------
Init ==
    /\ state = "CLOSED"
    /\ failures = 0
    /\ halfOpenSuccesses = 0
    /\ halfOpenProbeInFlight = FALSE
    /\ cooling = 0
    /\ normal = {} /\ probes = {}
    /\ streak = 0
    /\ healthy = FALSE

\* A call that comes after the cooldown finds the breaker half open.
HalfOpensNow == state = "OPEN" /\ cooling = 0
HalfOpen ==
    /\ state' = IF HalfOpensNow THEN "HALF_OPEN" ELSE state
    /\ halfOpenSuccesses' = IF HalfOpensNow THEN 0 ELSE halfOpenSuccesses

\* execute() of call c, up to attempt(): refused, a probe, or let in.
Refuse(c) ==
    /\ c \notin InFlight
    /\ HalfOpensNow /\ halfOpenProbeInFlight
    /\ HalfOpen
    /\ UNCHANGED <<failures, halfOpenProbeInFlight, cooling, normal, probes, streak, healthy>>

MayProbeAnyway == TRUE \* mutant: the probe in flight is not looked at
MayProbe == ~halfOpenProbeInFlight

Probe(c) ==
    /\ c \notin InFlight
    /\ HalfOpensNow \/ state = "HALF_OPEN"
    /\ MayProbe
    /\ HalfOpen
    /\ halfOpenProbeInFlight' = TRUE
    /\ probes' = probes \cup {c}
    /\ UNCHANGED <<failures, cooling, normal, streak, healthy>>

LetIn(c) ==
    /\ c \notin InFlight
    /\ state = "CLOSED"
    /\ normal' = normal \cup {c}
    /\ UNCHANGED <<state, failures, halfOpenSuccesses, halfOpenProbeInFlight,
                   cooling, probes, streak, healthy>>

\* The `finally` of execute().
ProbeEndsNever(c) == halfOpenProbeInFlight \* mutant: there is no finally
ProbeEnds(c) == halfOpenProbeInFlight /\ c \notin probes

Leave(c) ==
    /\ c \in InFlight
    /\ normal' = normal \ {c}
    /\ probes' = probes \ {c}
    /\ halfOpenProbeInFlight' = ProbeEnds(c)
    /\ UNCHANGED healthy

Close ==
    /\ state' = "CLOSED"
    /\ failures' = 0

EnoughSuccesses(n) == n >= RequiredHalfOpenSuccesses

\* onSuccess(): outside HALF_OPEN a success closes the breaker whatever it is.
Succeed(c) ==
    /\ Leave(c)
    /\ streak' = 0
    /\ IF state = "HALF_OPEN"
       THEN /\ halfOpenSuccesses' = halfOpenSuccesses + 1
            /\ IF EnoughSuccesses(halfOpenSuccesses')
               THEN Close
               ELSE UNCHANGED <<state, failures>>
       ELSE Close /\ UNCHANGED halfOpenSuccesses
    /\ UNCHANGED cooling

TripKeepingCount == \* mutant: trip() leaves the count alone
    /\ state' = "OPEN"
    /\ cooling' = Cooldown
    /\ UNCHANGED failures
    /\ halfOpenSuccesses' = 0
Trip ==
    /\ state' = "OPEN"
    /\ cooling' = Cooldown
    /\ failures' = FailureThreshold
    /\ halfOpenSuccesses' = 0

\* onFailure(), for the errors that isTransportError knows.
FailTransport(c) ==
    /\ ~healthy
    /\ Leave(c)
    /\ streak' = IF streak < FailureThreshold THEN streak + 1 ELSE streak
    /\ IF state = "HALF_OPEN" \/ failures + 1 >= FailureThreshold
       THEN Trip
       ELSE /\ failures' = failures + 1
            /\ UNCHANGED <<state, halfOpenSuccesses, cooling>>

\* Any other error says nothing about the transport.
FailOtherwise(c) ==
    /\ ~healthy
    /\ Leave(c)
    /\ UNCHANGED <<state, failures, halfOpenSuccesses, cooling, streak>>

Tick ==
    /\ cooling > 0
    /\ cooling' = cooling - 1
    /\ UNCHANGED <<state, failures, halfOpenSuccesses, halfOpenProbeInFlight,
                   normal, probes, streak, healthy>>

Heal ==
    /\ ~healthy
    /\ healthy' = TRUE
    /\ UNCHANGED <<state, failures, halfOpenSuccesses, halfOpenProbeInFlight,
                   cooling, normal, probes, streak>>

Return(c) == Succeed(c) \/ FailTransport(c) \/ FailOtherwise(c)

Next ==
    \/ \E c \in Calls : Refuse(c) \/ Probe(c) \/ LetIn(c) \/ Return(c)
    \/ Tick
    \/ Heal

Spec == Init /\ [][Next]_vars

\* The clock runs, every attempt returns (each has a deadline), and there is
\* always somebody who calls again.
FairSpec ==
    /\ Spec
    /\ WF_vars(Tick)
    /\ \A c \in Calls : WF_vars(Return(c)) /\ WF_vars(Probe(c))
-----------------------------------------------------------------------------
BreakerTypeOK ==
    /\ state \in BreakerStates
    /\ failures \in 0..FailureThreshold
    /\ halfOpenSuccesses \in 0..RequiredHalfOpenSuccesses
    /\ halfOpenProbeInFlight \in BOOLEAN
    /\ cooling \in 0..Cooldown
    /\ normal \subseteq Calls /\ probes \subseteq Calls
    /\ streak \in 0..FailureThreshold
    /\ healthy \in BOOLEAN

\* test/transport.test.ts, "admits only one half-open transport probe at a time":
\* also when the breaker has closed and opened again under a probe in flight.
OneProbe ==
    \A c, d \in probes : c = d

\* Calls that overlap, late returns included, never let the failure count and
\* the state drift apart: the breaker is closed exactly while fewer transport
\* failures than the threshold have followed the last success it counted.
CountTellsState ==
    /\ state = "CLOSED" <=> failures < FailureThreshold
    /\ state = "CLOSED" => failures = streak

\* A transport that works again closes the breaker for good, whatever calls were
\* in flight when it broke.
RecoversWhenHealthy == healthy ~> [](state = "CLOSED")
=============================================================================
