------------------------- MODULE BridgeClientProofs -------------------------
(***************************************************************************)
(* Proofs about CircuitBreaker and BridgeClient for every finite set of    *)
(* callers, every length of the write chain and every threshold.           *)
(*                                                                         *)
(* A request is in one place: behind the write that waits, or at the host. *)
(* So a given up request is counted once, among the strays at the host or  *)
(* as a stray frame, and its one cancel frame is still to be written: the  *)
(* two numbers are the same, and in every tail of the chain the cancels    *)
(* are enough.                                                             *)
(***************************************************************************)
EXTENDS BridgeClient, FiniteSetTheorems, FunctionTheorems, TLAPS

(* The breaker, whoever calls it.  Its parts need each other: a probe is let *)
(* in only when the flag is down, and the flag is down only when there is no *)
(* probe.                                                                    *)

\* The flag is set as long as there is a probe that will clear it, and no longer.
ProbeFlagIsOwned == halfOpenProbeInFlight <=> probes # {}

\* A half-open breaker still misses a success.
HalfOpenWaits == state = "HALF_OPEN" => halfOpenSuccesses < RequiredHalfOpenSuccesses

BreakerInv ==
    /\ BreakerTypeOK
    /\ ProbeFlagIsOwned
    /\ OneProbe
    /\ HalfOpenWaits
    /\ CountTellsState

\* A call that returns leaves the flag right, and at most the other probes.
LEMMA LeaveKeepsProbes ==
    ASSUME BreakerInv, NEW c \in Calls, Leave(c)
    PROVE  /\ normal' \subseteq Calls /\ probes' \subseteq Calls
           /\ halfOpenProbeInFlight' \in BOOLEAN
           /\ ProbeFlagIsOwned'
           /\ OneProbe'
           /\ healthy' \in BOOLEAN
<1> USE DEF BreakerInv, Leave
<1>1. normal' \subseteq Calls /\ probes' \subseteq Calls
    BY DEF BreakerTypeOK
<1>2. OneProbe'
    BY DEF OneProbe
<1>3. halfOpenProbeInFlight' <=> (halfOpenProbeInFlight /\ c \notin probes)
    BY Zenon DEF ProbeEnds
<1>4. (probes # {} /\ c \notin probes) <=> probes \ {c} # {}
    BY DEF OneProbe
<1>5. ProbeFlagIsOwned'
    BY <1>3, <1>4 DEF ProbeFlagIsOwned
<1>6. halfOpenProbeInFlight' \in BOOLEAN
    BY Zenon DEF ProbeEnds
<1>7. healthy' \in BOOLEAN
    BY DEF BreakerTypeOK
<1> QED BY <1>1, <1>2, <1>5, <1>6, <1>7

LEMMA BreakerInvInit == Init => BreakerInv
<1> USE BreakerAssumption
<1> SUFFICES ASSUME Init PROVE BreakerInv
    OBVIOUS
<1>1. halfOpenProbeInFlight \in BOOLEAN /\ healthy \in BOOLEAN /\ ProbeFlagIsOwned
    BY Zenon DEF Init, ProbeFlagIsOwned
<1>2. /\ state \in BreakerStates
      /\ failures \in 0..FailureThreshold
      /\ halfOpenSuccesses \in 0..RequiredHalfOpenSuccesses
      /\ cooling \in 0..Cooldown
      /\ normal \subseteq Calls /\ probes \subseteq Calls
      /\ streak \in 0..FailureThreshold
    BY DEF Init, BreakerStates
<1>3. OneProbe /\ HalfOpenWaits /\ CountTellsState
    BY DEF Init, OneProbe, HalfOpenWaits, CountTellsState
<1> QED BY <1>1, <1>2, <1>3 DEF BreakerInv, BreakerTypeOK

\* One lemma for both specifications that take these steps: the breaker's own
\* and the bridge client's.
LEMMA BreakerInvStep == BreakerInv /\ [Next]_vars => BreakerInv'
<1> USE BreakerAssumption
<1> SUFFICES ASSUME BreakerInv, [Next]_vars PROVE BreakerInv'
    OBVIOUS
<1>1. ASSUME NEW c \in Calls, Refuse(c) PROVE BreakerInv'
    BY <1>1 DEF Refuse, HalfOpensNow, HalfOpen, BreakerInv, BreakerTypeOK, BreakerStates,
                ProbeFlagIsOwned, OneProbe, HalfOpenWaits, CountTellsState
<1>2. ASSUME NEW c \in Calls, Probe(c) PROVE BreakerInv'
    <2>1. probes = {}
        BY <1>2 DEF Probe, MayProbe, BreakerInv, ProbeFlagIsOwned
    <2>2. OneProbe' /\ ProbeFlagIsOwned' /\ probes' \subseteq Calls
        BY <1>2, <2>1 DEF Probe, OneProbe, ProbeFlagIsOwned
    <2>3. HalfOpenWaits' /\ CountTellsState'
        BY <1>2 DEF Probe, HalfOpen, HalfOpensNow, BreakerInv, HalfOpenWaits, CountTellsState
    <2>4. BreakerTypeOK'
        BY <1>2, <2>2 DEF Probe, HalfOpen, HalfOpensNow, BreakerInv, BreakerTypeOK, BreakerStates
    <2> QED BY <2>2, <2>3, <2>4 DEF BreakerInv
<1>3. ASSUME NEW c \in Calls, LetIn(c) PROVE BreakerInv'
    BY <1>3 DEF LetIn, BreakerInv, BreakerTypeOK, ProbeFlagIsOwned, OneProbe,
                HalfOpenWaits, CountTellsState
<1>4. ASSUME NEW c \in Calls, Succeed(c) PROVE BreakerInv'
    <2>1. Leave(c)
        BY <1>4 DEF Succeed
    <2>2. BreakerTypeOK'
        BY <1>4, <2>1, LeaveKeepsProbes
        DEF Succeed, Close, EnoughSuccesses, BreakerInv, BreakerTypeOK, BreakerStates, HalfOpenWaits
    <2>3. HalfOpenWaits' /\ CountTellsState'
        BY <1>4 DEF Succeed, Close, EnoughSuccesses, BreakerInv, BreakerTypeOK, HalfOpenWaits, CountTellsState
    <2> QED BY <2>1, <2>2, <2>3, LeaveKeepsProbes DEF BreakerInv
<1>5. ASSUME NEW c \in Calls, FailTransport(c) PROVE BreakerInv'
    <2>1. Leave(c)
        BY <1>5 DEF FailTransport
    <2>2. BreakerTypeOK'
        BY <1>5, <2>1, LeaveKeepsProbes
        DEF FailTransport, Trip, BreakerInv, BreakerTypeOK, BreakerStates
    <2>3. HalfOpenWaits' /\ CountTellsState'
        BY <1>5 DEF FailTransport, Trip, BreakerInv, BreakerTypeOK, BreakerStates, HalfOpenWaits, CountTellsState
    <2> QED BY <2>1, <2>2, <2>3, LeaveKeepsProbes DEF BreakerInv
<1>6. ASSUME NEW c \in Calls, FailOtherwise(c) PROVE BreakerInv'
    <2>1. Leave(c)
        BY <1>6 DEF FailOtherwise
    <2>2. BreakerTypeOK'
        BY <1>6, <2>1, LeaveKeepsProbes DEF FailOtherwise, BreakerInv, BreakerTypeOK
    <2>3. HalfOpenWaits' /\ CountTellsState'
        BY <1>6 DEF FailOtherwise, BreakerInv, HalfOpenWaits, CountTellsState
    <2> QED BY <2>1, <2>2, <2>3, LeaveKeepsProbes DEF BreakerInv
<1>7. ASSUME Tick PROVE BreakerInv'
    BY <1>7 DEF Tick, BreakerInv, BreakerTypeOK, ProbeFlagIsOwned, OneProbe, HalfOpenWaits, CountTellsState
<1>8. ASSUME Heal PROVE BreakerInv'
    BY <1>8 DEF Heal, BreakerInv, BreakerTypeOK, ProbeFlagIsOwned, OneProbe, HalfOpenWaits, CountTellsState
<1>9. CASE UNCHANGED vars
    BY <1>9 DEF vars, BreakerInv, BreakerTypeOK, ProbeFlagIsOwned, OneProbe, HalfOpenWaits, CountTellsState
<1> QED BY <1>1, <1>2, <1>3, <1>4, <1>5, <1>6, <1>7, <1>8, <1>9 DEF Next, Return

\* The counters of src/src/transport/circuit-breaker.ts stay within their thresholds,
\* also when calls return in a state later than the one they were let in.
THEOREM BreakerTypesCorrect == Spec => []BreakerTypeOK
<1>1. BreakerInv => BreakerTypeOK
    BY DEF BreakerInv
<1> QED BY <1>1, BreakerInvInit, BreakerInvStep, PTL DEF Spec

\* Whatever calls overlap, execute() lets in one probe at a time, also when the
\* breaker has closed and opened again under a probe in flight.
THEOREM OneProbeCorrect == Spec => []OneProbe
<1>1. BreakerInv => OneProbe
    BY DEF BreakerInv
<1> QED BY <1>1, BreakerInvInit, BreakerInvStep, PTL DEF Spec

\* The breaker is closed exactly while fewer failures than the threshold followed
\* the last success that onSuccess() counted.
THEOREM CountTellsStateCorrect == Spec => []CountTellsState
<1>1. BreakerInv => CountTellsState
    BY DEF BreakerInv
<1> QED BY <1>1, BreakerInvInit, BreakerInvStep, PTL DEF Spec
-----------------------------------------------------------------------------
(* The client. *)

Frames == Calls \cup {"stray", "cancel"}

\* Where the frame f is in q, from position i on.
At(f, q, i) == {j \in i..Len(q) : q[j] = f}

\* The frames in q, behind what the host has: one request of each call, which the
\* host does not have, and a cancel for each stray.
QueueOK(q, host, given) ==
    /\ q \in Seq(Frames)
    /\ \A i, j \in 1..Len(q) : q[i] \in Calls => q[i] \notin host /\ (q[i] = q[j] => i = j)
    /\ given \in Int
    /\ given + Cardinality(At("stray", q, 1)) = Cardinality(At("cancel", q, 1))
    /\ \A i \in 1..Len(q) : Cardinality(At("stray", q, i)) <= Cardinality(At("cancel", q, i))

Places ==
    /\ \A c \in Calls : outcome[c] # "none" => c \in InFlight
    /\ socket # "live" => jam # "drain" /\ atHost = {}
    /\ socket = "none" => pending = {}
    /\ jam = "stuck" => atHost = {}
    /\ socket = "live" /\ jam # "stuck" => pending \subseteq atHost \cup ToSet(chain)

BridgeInv ==
    /\ BreakerInv
    /\ BridgeTypeOK
    /\ QueueOK(chain, atHost, strays)
    /\ Places
-----------------------------------------------------------------------------
LEMMA FrameConstants == "stray" \notin Calls /\ "cancel" \notin Calls /\ IsFiniteSet(Calls)
BY BridgeAssumption

LEMMA AtIsFinite ==
    ASSUME NEW S, NEW q \in Seq(S), NEW i \in Nat, NEW f
    PROVE  IsFiniteSet(At(f, q, i)) /\ Cardinality(At(f, q, i)) \in Nat
<1>1. Len(q) \in Int /\ i \in Int
    OBVIOUS
<1>2. IsFiniteSet(i..Len(q))
    BY <1>1, FS_Interval
<1>3. At(f, q, i) \in SUBSET (i..Len(q))
    BY DEF At
<1> QED BY <1>2, <1>3, FS_Subset, FS_CardinalityType

LEMMA CountIsAt ==
    ASSUME NEW S, NEW q \in Seq(S), NEW f
    PROVE  Count(f, q) = Cardinality(At(f, q, 1))
<1>1. {i \in DOMAIN q : q[i] = f} = At(f, q, 1)
    BY DEF At
<1> QED BY <1>1 DEF Count

\* Without its first n frames q has what it had from n + 1 on.
LEMMA TailShifts ==
    ASSUME NEW S, NEW q \in Seq(S), NEW n \in 0..Len(q), NEW i \in Nat \ {0}, NEW f
    PROVE  Cardinality(At(f, SubSeq(q, n + 1, Len(q)), i)) = Cardinality(At(f, q, n + i))
<1> DEFINE rest == SubSeq(q, n + 1, Len(q))
           From == At(f, rest, i)
           To == At(f, q, n + i)
           move == [j \in From |-> n + j]
<1>1. rest \in Seq(S) /\ Len(rest) = Len(q) - n
    OBVIOUS
<1>2. \A j \in 1..Len(rest) : rest[j] = q[n + j]
    OBVIOUS
<1>3. move \in [From -> To]
    BY <1>1, <1>2 DEF At
<1>4. \A j, k \in From : move[j] = move[k] => j = k
    BY <1>1 DEF At
<1>5. \A k \in To : \E j \in From : move[j] = k
    <2> SUFFICES ASSUME NEW k \in To PROVE \E j \in From : move[j] = k
        OBVIOUS
    <2>1. k \in Nat /\ n + i <= k /\ k <= Len(q) /\ q[k] = f
        BY DEF At
    <2>2. k - n \in i..Len(rest) /\ rest[k - n] = f
        BY <2>1, <1>1, <1>2
    <2>3. k - n \in From /\ move[k - n] = k
        BY <2>1, <2>2 DEF At
    <2> QED BY <2>3
<1>6. move \in Bijection(From, To)
    BY <1>3, <1>4, <1>5, Fun_IsBij
<1>7. ExistsBijection(From, To)
    BY <1>6, Fun_ExistsBij
<1>8. IsFiniteSet(From)
    BY <1>1, AtIsFinite
<1> QED BY <1>7, <1>8, FS_Bijection

LEMMA DisjointUnion ==
    ASSUME NEW S, NEW T, IsFiniteSet(S), IsFiniteSet(T), S \cap T = {}
    PROVE  Cardinality(S \cup T) = Cardinality(S) + Cardinality(T)
<1>1. Cardinality(S \cup T) = Cardinality(S) + Cardinality(T) - 0
    BY FS_Union, FS_EmptySet
<1> QED BY <1>1, FS_CardinalityType

\* The first n frames of q and the others are all its frames.
LEMMA CountSplits ==
    ASSUME NEW S, NEW q \in Seq(S), NEW n \in 0..Len(q), NEW f
    PROVE  /\ Cardinality(At(f, q, 1)) = Count(f, SubSeq(q, 1, n)) + Cardinality(At(f, q, n + 1))
           /\ Count(f, SubSeq(q, 1, n)) \in Nat
<1> DEFINE out == SubSeq(q, 1, n)
           Ahead == {j \in 1..n : q[j] = f}
<1>1. DOMAIN out = 1..n /\ \A j \in 1..n : out[j] = q[j]
    OBVIOUS
<1>2. Count(f, out) = Cardinality(Ahead)
    BY <1>1 DEF Count
<1>3. At(f, q, 1) = Ahead \cup At(f, q, n + 1) /\ Ahead \cap At(f, q, n + 1) = {}
    BY DEF At
<1>4. IsFiniteSet(Ahead) /\ Cardinality(Ahead) \in Nat
    <2>1. IsFiniteSet(1..n)
        BY FS_Interval
    <2> QED BY <2>1, FS_Subset, FS_CardinalityType
<1>5. IsFiniteSet(At(f, q, n + 1)) /\ Cardinality(At(f, q, n + 1)) \in Nat
    BY AtIsFinite
<1>6. Cardinality(At(f, q, 1)) = Cardinality(Ahead) + Cardinality(At(f, q, n + 1))
    BY <1>3, <1>4, <1>5, DisjointUnion
<1> QED BY <1>2, <1>4, <1>6
-----------------------------------------------------------------------------
\* socket.write() moves frames to the host and loses none.
LEMMA WriteKeepsQueue ==
    ASSUME NEW q, NEW host, NEW given, QueueOK(q, host, given), Write(q, host, given)
    PROVE  /\ QueueOK(chain', atHost', strays') /\ strays' \in Nat
           /\ host \subseteq atHost' /\ atHost' \subseteq host \cup (ToSet(q) \cap Calls)
           /\ ToSet(chain') \subseteq ToSet(q)
           /\ ToSet(q) \cap Calls \subseteq atHost' \cup ToSet(chain')
           /\ jam' \in {"none", "drain"} /\ (jam' # "drain" => chain' = <<>>)
<1>1. PICK n \in 0..Len(q) :
          /\ \/ n = Len(q) /\ jam' = "none"
             \/ n > 0 /\ ~healthy /\ jam' = "drain"
          /\ chain' = SubSeq(q, n + 1, Len(q))
          /\ atHost' = host \cup (ToSet(SubSeq(q, 1, n)) \cap Calls)
          /\ strays' = given + Count("stray", SubSeq(q, 1, n)) - Count("cancel", SubSeq(q, 1, n))
    BY DEF Write
<1> DEFINE out == SubSeq(q, 1, n)
<1>2. q \in Seq(Frames) /\ Len(q) \in Nat
    BY DEF QueueOK
<1>3. /\ chain' \in Seq(Frames) /\ Len(chain') = Len(q) - n
      /\ \A j \in 1..Len(chain') : n + j \in 1..Len(q) /\ chain'[j] = q[n + j]
    BY <1>1, <1>2
<1>4. DOMAIN out = 1..n /\ \A j \in 1..n : out[j] = q[j]
    BY <1>2
<1>5. /\ \A c \in ToSet(out) : \E j \in 1..n : c = q[j]
      /\ \A j \in 1..n : q[j] \in ToSet(out)
    BY <1>4 DEF ToSet
<1>6. \A i, j \in 1..Len(chain') :
          chain'[i] \in Calls => chain'[i] \notin atHost' /\ (chain'[i] = chain'[j] => i = j)
    <2> SUFFICES ASSUME NEW i \in 1..Len(chain'), NEW j \in 1..Len(chain'), chain'[i] \in Calls
                 PROVE  chain'[i] \notin atHost' /\ (chain'[i] = chain'[j] => i = j)
        OBVIOUS
    <2>1. /\ n + i \in 1..Len(q) /\ n + j \in 1..Len(q) /\ chain'[i] = q[n + i] /\ chain'[j] = q[n + j]
          /\ i \in Nat /\ j \in Nat /\ i > 0 /\ n \in Nat
        BY <1>2, <1>3
    <2>2. chain'[i] \notin host /\ (q[n + i] = q[n + j] => n + i = n + j)
        BY <2>1 DEF QueueOK
    <2>3. chain'[i] \notin ToSet(out)
        <3>1. ASSUME NEW k \in 1..n, q[n + i] = q[k] PROVE FALSE
            <4>1. k \in 1..Len(q)
                BY <1>2
            <4>2. n + i = k
                BY <3>1, <4>1, <2>1 DEF QueueOK
            <4> QED BY <4>2, <2>1
        <3> QED BY <3>1, <2>1, <1>5
    <2> QED BY <1>1, <2>1, <2>2, <2>3
<1>7. \A f : \A i \in Nat \ {0} : Cardinality(At(f, chain', i)) = Cardinality(At(f, q, n + i))
    BY <1>1, <1>2, TailShifts
<1>8. \A f : /\ Cardinality(At(f, q, 1)) = Count(f, out) + Cardinality(At(f, q, n + 1))
             /\ Count(f, out) \in Nat /\ Cardinality(At(f, q, n + 1)) \in Nat
    BY <1>2, CountSplits, AtIsFinite
<1>9. /\ strays' \in Int
      /\ strays' + Cardinality(At("stray", q, n + 1)) = Cardinality(At("cancel", q, n + 1))
    <2>1. /\ Cardinality(At("stray", q, 1)) = Count("stray", out) + Cardinality(At("stray", q, n + 1))
          /\ Count("stray", out) \in Nat /\ Cardinality(At("stray", q, n + 1)) \in Nat
        BY <1>8
    <2>2. /\ Cardinality(At("cancel", q, 1)) = Count("cancel", out) + Cardinality(At("cancel", q, n + 1))
          /\ Count("cancel", out) \in Nat /\ Cardinality(At("cancel", q, n + 1)) \in Nat
        BY <1>8
    <2>3. given \in Int /\ given + Cardinality(At("stray", q, 1)) = Cardinality(At("cancel", q, 1))
        BY DEF QueueOK
    <2>4. strays' = given + Count("stray", out) - Count("cancel", out)
        BY <1>1
    <2> HIDE DEF out
    <2> QED BY <2>1, <2>2, <2>3, <2>4
<1>10. strays' + Cardinality(At("stray", chain', 1)) = Cardinality(At("cancel", chain', 1))
    BY <1>7, <1>9
<1>11. \A i \in 1..Len(chain') :
          Cardinality(At("stray", chain', i)) <= Cardinality(At("cancel", chain', i))
    BY <1>2, <1>3, <1>7 DEF QueueOK
<1>12. strays' \in Nat
    <2>1. CASE n < Len(q)
        BY <2>1, <1>2, <1>8, <1>9 DEF QueueOK
    <2>2. CASE n = Len(q)
        <3>1. \A f : At(f, q, n + 1) = {}
            BY <2>2, <1>2 DEF At
        <3> QED BY <3>1, <1>9, FS_EmptySet
    <2> QED BY <2>1, <2>2, <1>2
<1>13. QueueOK(chain', atHost', strays')
    BY <1>3, <1>6, <1>9, <1>10, <1>11 DEF QueueOK
<1>14. ToSet(chain') \subseteq ToSet(q) /\ ToSet(out) \subseteq ToSet(q)
       /\ ToSet(q) \subseteq ToSet(out) \cup ToSet(chain')
    <2>1. /\ \A c \in ToSet(chain') : \E j \in 1..Len(chain') : c = chain'[j]
          /\ \A j \in 1..Len(chain') : chain'[j] \in ToSet(chain')
        BY <1>3 DEF ToSet
    <2>2. /\ \A c \in ToSet(q) : \E j \in 1..Len(q) : c = q[j]
          /\ \A j \in 1..Len(q) : q[j] \in ToSet(q)
        BY <1>2 DEF ToSet
    <2>3. \A j \in 1..Len(q) : j \in 1..n \/ (j - n \in 1..Len(chain') /\ chain'[j - n] = q[j])
        BY <1>2, <1>3
    <2>4. 1..n \subseteq 1..Len(q)
        BY <1>2
    <2>5. ToSet(chain') \subseteq ToSet(q)
        BY <2>1, <2>2, <1>3
    <2>6. ToSet(out) \subseteq ToSet(q)
        BY <2>2, <2>4, <1>5
    <2>7. ToSet(q) \subseteq ToSet(out) \cup ToSet(chain')
        <3> SUFFICES ASSUME NEW j \in 1..Len(q) PROVE q[j] \in ToSet(out) \cup ToSet(chain')
            BY <2>2
        <3> QED BY <2>1, <2>3, <1>5
    <2> QED BY <2>5, <2>6, <2>7
<1>15. n = Len(q) => chain' = <<>>
    BY <1>3
<1> QED BY <1>1, <1>12, <1>13, <1>14, <1>15

LEMMA EmptyQueue ==
    ASSUME NEW host
    PROVE  QueueOK(<<>>, host, 0)
<1>1. \A f : At(f, <<>>, 1) = {}
    BY DEF At
<1>2. \A f : Cardinality(At(f, <<>>, 1)) = 0
    BY <1>1, FS_EmptySet
<1>3. 0 + Cardinality(At("stray", <<>>, 1)) = Cardinality(At("cancel", <<>>, 1))
    BY <1>2
<1>4. <<>> \in Seq(Frames) /\ 1..Len(<<>>) = {}
    OBVIOUS
<1> QED BY <1>3, <1>4 DEF QueueOK

Writes == jam = "drain" \/ (jam = "none" /\ socket' = "live")

\* enqueueWrite: the frames of q and behind them the new ones are at the host or in the
\* chain, or the frames come to nothing, which is right when the host has nothing.
LEMMA EnqueueKeepsQueue ==
    ASSUME NEW q \in Seq(Frames), NEW frames \in Seq(Frames), NEW host, NEW given \in Nat,
           Enqueue(q, frames, host, given),
           jam \in {"none", "drain", "stuck"},
           jam # "drain" => q = <<>> /\ chain = <<>>,
           Writes => QueueOK(q \o frames, host, given),
           ~Writes => given = 0
    PROVE  /\ QueueOK(chain', atHost', strays') /\ strays' \in Nat
           /\ host \subseteq atHost' /\ atHost' \subseteq host \cup (ToSet(q \o frames) \cap Calls)
           /\ ToSet(chain') \subseteq ToSet(q \o frames)
           /\ Writes => ToSet(q \o frames) \cap Calls \subseteq atHost' \cup ToSet(chain')
           /\ ~Writes => atHost' = host
           /\ jam' \in {"none", "drain", "stuck"} /\ (jam' # "drain" => chain' = <<>>)
           /\ jam' = "stuck" <=> jam = "stuck"
           /\ jam' = "drain" => jam = "drain" \/ socket' = "live"
<1>1. CASE jam = "drain"
    <2>1. chain' = q \o frames /\ atHost' = host /\ strays' = given /\ jam' = jam
        BY <1>1 DEF Enqueue
    <2>2. QueueOK(chain', atHost', strays')
        BY <1>1, <2>1 DEF Writes
    <2> QED BY <1>1, <2>1, <2>2
<1>2. CASE jam = "none" /\ socket' = "live"
    <2>1. Write(frames, host, given) /\ q \o frames = frames
        BY <1>2 DEF Enqueue
    <2>2. QueueOK(frames, host, given)
        BY <1>2, <2>1 DEF Writes
    <2> QED BY <1>2, <2>1, <2>2, WriteKeepsQueue DEF Writes
<1>3. CASE ~Writes
    <2>1. chain' = <<>> /\ atHost' = host /\ strays' = 0 /\ jam' = jam /\ jam # "drain"
        BY <1>3 DEF Enqueue, Writes
    <2>2. QueueOK(<<>>, host, 0)
        BY EmptyQueue
    <2>3. ToSet(<<>>) = {}
        BY DEF ToSet
    <2> QED BY <1>3, <2>1, <2>2, <2>3
<1> QED BY <1>1, <1>2, <1>3 DEF Writes

\* Requests go behind what is there.
LEMMA RequestsBehind ==
    ASSUME NEW q, NEW host, NEW given, QueueOK(q, host, given), NEW r \in Seq(Calls),
           \A i, j \in 1..Len(r) : r[i] = r[j] => i = j,
           \A i \in 1..Len(r) : r[i] \notin host /\ r[i] \notin ToSet(q)
    PROVE  /\ q \o r \in Seq(Frames) /\ QueueOK(q \o r, host, given)
           /\ ToSet(q \o r) = ToSet(q) \cup ToSet(r)
<1> DEFINE all2 == q \o r
<1>1. q \in Seq(Frames) /\ Len(q) \in Nat /\ r \in Seq(Frames) /\ Len(r) \in Nat
    BY DEF QueueOK, Frames
<1>2. /\ all2 \in Seq(Frames) /\ Len(all2) = Len(q) + Len(r)
      /\ \A j \in 1..Len(q) : j \in 1..Len(all2) /\ all2[j] = q[j]
      /\ \A j \in 1..Len(r) : Len(q) + j \in 1..Len(all2) /\ all2[Len(q) + j] = r[j]
      /\ \A j \in 1..Len(all2) : j \in 1..Len(q) \/ j - Len(q) \in 1..Len(r)
    BY <1>1
<1> HIDE DEF all2
<1>3. ToSet(all2) = ToSet(q) \cup ToSet(r)
    <2>1. DOMAIN all2 = 1..Len(all2) /\ DOMAIN q = 1..Len(q) /\ DOMAIN r = 1..Len(r)
        BY <1>1, <1>2
    <2>2. ToSet(all2) \subseteq ToSet(q) \cup ToSet(r)
        <3> SUFFICES ASSUME NEW j \in 1..Len(all2) PROVE all2[j] \in ToSet(q) \cup ToSet(r)
            BY <2>1 DEF ToSet
        <3>1. CASE j \in 1..Len(q)
            BY <3>1, <2>1, <1>2 DEF ToSet
        <3>2. CASE j - Len(q) \in 1..Len(r)
            <4>1. j = Len(q) + (j - Len(q))
                BY <1>1
            <4>2. all2[j] = r[j - Len(q)]
                BY <3>2, <4>1, <1>2
            <4> QED BY <3>2, <4>2, <2>1 DEF ToSet
        <3> QED BY <3>1, <3>2, <1>2
    <2>3. ToSet(q) \cup ToSet(r) \subseteq ToSet(all2)
        BY <2>1, <1>2 DEF ToSet
    <2> QED BY <2>2, <2>3
<1>4. \A i \in 1..Len(q) : q[i] \in ToSet(q)
    BY <1>1 DEF ToSet
<1>5. ASSUME NEW i \in 1..Len(all2), NEW j \in 1..Len(all2), all2[i] \in Calls
      PROVE  all2[i] \notin host /\ (all2[i] = all2[j] => i = j)
    <2>1. i \in Nat /\ j \in Nat
        OBVIOUS
    <2>2. i \in 1..Len(q) => all2[i] = q[i]
        BY <1>2
    <2>3. j \in 1..Len(q) => all2[j] = q[j]
        BY <1>2
    <2>4. i - Len(q) \in 1..Len(r) => all2[i] = r[i - Len(q)]
        <3>1. i = Len(q) + (i - Len(q))
            BY <1>1, <2>1
        <3> QED BY <3>1, <1>2
    <2>5. j - Len(q) \in 1..Len(r) => all2[j] = r[j - Len(q)]
        <3>1. j = Len(q) + (j - Len(q))
            BY <1>1, <2>1
        <3> QED BY <3>1, <1>2
    <2>6. CASE i \in 1..Len(q) /\ j \in 1..Len(q)
        BY <2>2, <2>3, <2>6, <1>5 DEF QueueOK
    <2>7. CASE i \in 1..Len(q) /\ j - Len(q) \in 1..Len(r)
        BY <2>2, <2>5, <2>7, <1>4, <1>5 DEF QueueOK
    <2>8. CASE i - Len(q) \in 1..Len(r) /\ j \in 1..Len(q)
        BY <2>4, <2>3, <2>8, <1>4
    <2>9. CASE i - Len(q) \in 1..Len(r) /\ j - Len(q) \in 1..Len(r)
        <3>1. all2[i] = all2[j] => i - Len(q) = j - Len(q)
            BY <2>4, <2>5, <2>9
        <3> QED BY <2>1, <2>4, <2>9, <3>1, <1>1
    <2> QED BY <2>6, <2>7, <2>8, <2>9, <1>2
<1>6. \A f \in {"stray", "cancel"} : \A i \in Nat \ {0} : At(f, all2, i) = At(f, q, i)
    <2> SUFFICES ASSUME NEW f \in {"stray", "cancel"}, NEW i \in Nat \ {0}
                 PROVE  At(f, all2, i) = At(f, q, i)
        OBVIOUS
    <2>1. ASSUME NEW j \in 1..Len(all2), all2[j] = f PROVE j \in 1..Len(q)
        <3>1. ASSUME j - Len(q) \in 1..Len(r) PROVE FALSE
            <4>1. j = Len(q) + (j - Len(q))
                BY <1>1
            <4>2. all2[j] = r[j - Len(q)]
                BY <3>1, <4>1, <1>2
            <4> QED BY <2>1, <3>1, <4>2, FrameConstants
        <3> QED BY <3>1, <1>2
    <2>2. \A j \in i..Len(all2) : j \in 1..Len(all2)
        BY <1>2, <1>1
    <2>3. \A j \in i..Len(q) : j \in 1..Len(q) /\ j \in i..Len(all2)
        BY <1>2, <1>1
    <2>4. At(f, all2, i) \subseteq At(f, q, i)
        <3> SUFFICES ASSUME NEW j \in i..Len(all2), all2[j] = f PROVE j \in i..Len(q) /\ q[j] = f
            BY DEF At
        <3>1. j \in 1..Len(q)
            BY <2>1, <2>2
        <3> QED BY <3>1, <1>1, <1>2
    <2>5. At(f, q, i) \subseteq At(f, all2, i)
        BY <2>3, <1>2 DEF At
    <2> QED BY <2>4, <2>5
<1>7. \A i \in 1..Len(all2) : Cardinality(At("stray", all2, i)) <= Cardinality(At("cancel", all2, i))
    <2> SUFFICES ASSUME NEW i \in 1..Len(all2)
                 PROVE  Cardinality(At("stray", q, i)) <= Cardinality(At("cancel", q, i))
        BY <1>6
    <2>1. CASE i \in 1..Len(q)
        BY <2>1 DEF QueueOK
    <2>2. CASE i \notin 1..Len(q)
        <3>1. \A f : At(f, q, i) = {}
            BY <2>2, <1>1 DEF At
        <3>2. \A f : Cardinality(At(f, q, i)) = 0
            BY <3>1, FS_EmptySet
        <3> QED BY <3>2
    <2> QED BY <2>1, <2>2
<1>8. QueueOK(all2, host, given)
    BY <1>2, <1>5, <1>6, <1>7 DEF QueueOK
<1> QED BY <1>2, <1>3, <1>8 DEF all2

\* The frames after the calls of C are given up: their requests in the queue are
\* strays, and the cancels are behind.
Marked(after, q, C, k) ==
    /\ after \in Seq(Frames)
    /\ Len(after) = Len(q) + k
    /\ \A j \in 1..Len(q) : after[j] = IF q[j] \in C THEN "stray" ELSE q[j]
    /\ \A j \in (Len(q) + 1)..(Len(q) + k) : after[j] = "cancel"

LEMMA MarkedFrames ==
    ASSUME NEW q \in Seq(Frames), NEW C \in SUBSET Calls,
           NEW marked, marked = [i \in DOMAIN q |-> IF q[i] \in C THEN "stray" ELSE q[i]],
           NEW k \in Nat
    PROVE  Marked(marked \o CancelFrames(k), q, C, k)
<1> DEFINE cancels == CancelFrames(k)
<1>1. Len(q) \in Nat /\ DOMAIN q = 1..Len(q)
    OBVIOUS
<1>2. marked \in Seq(Frames) /\ Len(marked) = Len(q)
      /\ \A j \in 1..Len(q) : marked[j] = IF q[j] \in C THEN "stray" ELSE q[j]
    BY <1>1 DEF Frames
<1>3. cancels \in Seq(Frames) /\ Len(cancels) = k /\ \A j \in 1..k : cancels[j] = "cancel"
    BY DEF CancelFrames, Frames
<1> HIDE DEF cancels
<1>4. marked \o cancels \in Seq(Frames) /\ Len(marked \o cancels) = Len(q) + k
    BY <1>1, <1>2, <1>3
<1>5. \A j \in 1..Len(q) : (marked \o cancels)[j] = marked[j]
    BY <1>1, <1>2, <1>3
<1>6. \A j \in (Len(q) + 1)..(Len(q) + k) :
          j - Len(q) \in 1..k /\ (marked \o cancels)[j] = cancels[j - Len(q)]
    BY <1>1, <1>2, <1>3
<1> QED BY <1>2, <1>3, <1>4, <1>5, <1>6 DEF cancels, Marked

\* A call that is given up is not in the chain any more, the others are where they were.
LEMMA MarkedCallsAreGone ==
    ASSUME NEW q \in Seq(Frames), NEW C \in SUBSET Calls,
           NEW marked, marked = [i \in DOMAIN q |-> IF q[i] \in C THEN "stray" ELSE q[i]],
           NEW k \in Nat
    PROVE  \A c \in Calls : c \in ToSet(marked \o CancelFrames(k)) <=> c \in ToSet(q) \ C
<1> DEFINE after == marked \o CancelFrames(k)
<1>1. Len(q) \in Nat /\ DOMAIN q = 1..Len(q)
    OBVIOUS
<1>2. /\ after \in Seq(Frames) /\ Len(after) = Len(q) + k
      /\ \A j \in 1..Len(q) : after[j] = IF q[j] \in C THEN "stray" ELSE q[j]
      /\ \A j \in (Len(q) + 1)..(Len(q) + k) : after[j] = "cancel"
    <2>1. Marked(marked \o CancelFrames(k), q, C, k)
        BY MarkedFrames
    <2> QED BY <2>1 DEF Marked
<1> HIDE DEF after
<1>3. \A j \in 1..Len(after) : j \in 1..Len(q) \/ j \in (Len(q) + 1)..(Len(q) + k)
    BY <1>1, <1>2
<1>4. DOMAIN after = 1..Len(after)
    BY <1>2
<1>5. ASSUME NEW c \in Calls, c \in ToSet(after) PROVE c \in ToSet(q) \ C
    <2>1. PICK l \in 1..Len(after) : c = after[l]
        BY <1>4, <1>5 DEF ToSet
    <2>2. l \in 1..Len(q) /\ after[l] = q[l] /\ q[l] \notin C
        BY <2>1, <1>2, <1>3, FrameConstants
    <2> QED BY <2>1, <2>2, <1>1 DEF ToSet
<1>6. ASSUME NEW c \in Calls, c \in ToSet(q) \ C PROVE c \in ToSet(after)
    <2>1. PICK l \in 1..Len(q) : c = q[l]
        BY <1>1, <1>6 DEF ToSet
    <2>2. after[l] = c /\ l \in 1..Len(after)
        BY <1>6, <2>1, <1>1, <1>2
    <2> QED BY <1>4, <2>2 DEF ToSet
<1> QED BY <1>5, <1>6 DEF after

\* Each stray has its cancel: a given up request at the host is a stray there, one in
\* the queue a stray frame.
LEMMA CancelsBehind ==
    ASSUME NEW q, NEW host, NEW given, QueueOK(q, host, given),
           NEW C \in SUBSET Calls, C \subseteq host \cup ToSet(q),
           NEW marked, marked = [i \in DOMAIN q |-> IF q[i] \in C THEN "stray" ELSE q[i]],
           NEW k, k = Cardinality(C), NEW cancels, cancels = CancelFrames(k),
           NEW others, others = host \ C, NEW sent, sent = C \cap host
    PROVE  QueueOK(marked \o cancels, others, given + Cardinality(sent))
<1> DEFINE after == marked \o cancels
           Marks(i) == {j \in i..Len(q) : q[j] \in C}
<1>1. q \in Seq(Frames) /\ Len(q) \in Nat /\ DOMAIN q = 1..Len(q) /\ given \in Int
    BY DEF QueueOK
<1>2. IsFiniteSet(C) /\ k \in Nat
    BY FrameConstants, FS_Subset, FS_CardinalityType
<1>5. /\ after \in Seq(Frames) /\ Len(after) = Len(q) + k
      /\ \A j \in 1..Len(q) : after[j] = IF q[j] \in C THEN "stray" ELSE q[j]
      /\ \A j \in (Len(q) + 1)..(Len(q) + k) : after[j] = "cancel"
    <2>1. Marked(marked \o cancels, q, C, k)
        BY <1>1, <1>2, MarkedFrames
    <2> QED BY <2>1 DEF Marked
<1> HIDE DEF after
<1>6. \A j \in 1..Len(after) : j \in 1..Len(q) \/ j \in (Len(q) + 1)..(Len(q) + k)
    BY <1>1, <1>2, <1>5
\* Where the strays and the cancels are now.
<1>7. ASSUME NEW i \in 1..(Len(q) + 1)
      PROVE  /\ At("stray", after, i) = At("stray", q, i) \cup Marks(i)
             /\ At("stray", q, i) \cap Marks(i) = {}
             /\ At("cancel", after, i) = At("cancel", q, i) \cup ((Len(q) + 1)..(Len(q) + k))
             /\ At("cancel", q, i) \cap ((Len(q) + 1)..(Len(q) + k)) = {}
    <2>1. \A j : j \in i..Len(after) <=> j \in i..Len(q) \/ j \in (Len(q) + 1)..(Len(q) + k)
        BY <1>1, <1>2, <1>5
    <2>2. \A j \in i..Len(q) : j \in 1..Len(q)
        BY <1>1
    <2>3. At("stray", after, i) = At("stray", q, i) \cup Marks(i)
        BY <2>1, <2>2, <1>5 DEF At
    <2>4. At("stray", q, i) \cap Marks(i) = {}
        BY FrameConstants DEF At
    <2>5. At("cancel", after, i) = At("cancel", q, i) \cup ((Len(q) + 1)..(Len(q) + k))
        BY <2>1, <2>2, <1>5, FrameConstants DEF At
    <2>6. At("cancel", q, i) \cap ((Len(q) + 1)..(Len(q) + k)) = {}
        BY <1>1, <1>2 DEF At
    <2> QED BY <2>3, <2>4, <2>5, <2>6
\* As many marks as requests of C that the host does not have.
<1>8. Cardinality(Marks(1)) = Cardinality(C \ host) /\ IsFiniteSet(Marks(1))
    <2> DEFINE M == Marks(1)
               of == [j \in M |-> q[j]]
    <2>1. of \in [M -> C \ host]
        BY <1>1 DEF QueueOK
    <2>2. \A a, b \in M : of[a] = of[b] => a = b
        BY <1>1 DEF QueueOK
    <2>3. \A c \in C \ host : \E j \in M : of[j] = c
        <3> SUFFICES ASSUME NEW c \in C \ host PROVE \E j \in M : of[j] = c
            OBVIOUS
        <3>1. PICK j \in 1..Len(q) : q[j] = c
            BY <1>1 DEF ToSet
        <3>2. j \in M /\ of[j] = c
            BY <3>1
        <3> QED BY <3>2
    <2>4. of \in Bijection(M, C \ host)
        BY <2>1, <2>2, <2>3, Fun_IsBij
    <2>5. IsFiniteSet(M)
        <3>1. IsFiniteSet(1..Len(q))
            BY <1>1, FS_Interval
        <3> QED BY <3>1, FS_Subset
    <2> QED BY <2>4, <2>5, Fun_ExistsBij, FS_Bijection
<1>9. /\ Cardinality(Marks(1)) + Cardinality(C \cap host) = k
      /\ Cardinality(Marks(1)) \in Nat /\ Cardinality(C \cap host) \in Nat
    <2>1. Cardinality(C \ host) = k - Cardinality(C \cap host)
        BY <1>2, FS_Difference
    <2>2. IsFiniteSet(C \cap host) /\ Cardinality(C \cap host) \in Nat
        BY <1>2, FS_Intersection, FS_CardinalityType
    <2>3. Cardinality(Marks(1)) \in Nat
        BY <1>8, FS_CardinalityType
    <2> HIDE DEF Marks
    <2> QED BY <1>2, <1>8, <2>1, <2>2, <2>3
<1>10. Cardinality((Len(q) + 1)..(Len(q) + k)) = k /\ IsFiniteSet((Len(q) + 1)..(Len(q) + k))
    <2>1. PICK a \in Int, b \in Int : a = Len(q) + 1 /\ b = Len(q) + k
        BY <1>1, <1>2
    <2>2. IsFiniteSet(a..b) /\ Cardinality(a..b) = IF a > b THEN 0 ELSE b - a + 1
        BY FS_Interval
    <2>3. (IF a > b THEN 0 ELSE b - a + 1) = k
        BY <2>1, <1>1, <1>2
    <2> QED BY <2>1, <2>2, <2>3
<1>11. ASSUME NEW i \in 1..(Len(q) + 1)
       PROVE  /\ Cardinality(At("stray", after, i)) = Cardinality(At("stray", q, i)) + Cardinality(Marks(i))
              /\ Cardinality(At("cancel", after, i)) = Cardinality(At("cancel", q, i)) + k
              /\ Cardinality(Marks(i)) \in Nat /\ Cardinality(Marks(i)) <= Cardinality(Marks(1))
              /\ Cardinality(At("stray", q, i)) \in Nat /\ Cardinality(At("cancel", q, i)) \in Nat
    <2>1. i \in Nat
        BY <1>1
    <2>2. \A f : IsFiniteSet(At(f, q, i)) /\ Cardinality(At(f, q, i)) \in Nat
        BY <1>1, <2>1, AtIsFinite
    <2>3. Marks(i) \in SUBSET Marks(1)
        BY <1>1
    <2>4. /\ IsFiniteSet(Marks(i)) /\ Cardinality(Marks(i)) \in Nat
          /\ Cardinality(Marks(i)) <= Cardinality(Marks(1))
        BY <1>8, <2>3, FS_Subset, FS_CardinalityType
    <2> HIDE DEF Marks
    <2>5. Cardinality(At("stray", after, i)) = Cardinality(At("stray", q, i)) + Cardinality(Marks(i))
        BY <1>7, <2>2, <2>4, DisjointUnion
    <2>6. Cardinality(At("cancel", after, i)) = Cardinality(At("cancel", q, i)) + k
        <3> DEFINE New == (Len(q) + 1)..(Len(q) + k)
        <3>1. /\ IsFiniteSet(New) /\ Cardinality(New) = k
              /\ At("cancel", after, i) = At("cancel", q, i) \cup New
              /\ At("cancel", q, i) \cap New = {}
            BY <1>7, <1>10
        <3> HIDE DEF New
        <3> QED BY <2>2, <3>1, DisjointUnion
    <2> QED BY <2>2, <2>4, <2>5, <2>6
<1>12. /\ given + Cardinality(C \cap host) \in Int
       /\ given + Cardinality(C \cap host) + Cardinality(At("stray", after, 1))
             = Cardinality(At("cancel", after, 1))
    <2>1. 1 \in 1..(Len(q) + 1)
        BY <1>1
    <2>2. given + Cardinality(At("stray", q, 1)) = Cardinality(At("cancel", q, 1))
        BY DEF QueueOK
    <2> HIDE DEF Marks
    <2>3. /\ Cardinality(At("stray", after, 1)) = Cardinality(At("stray", q, 1)) + Cardinality(Marks(1))
          /\ Cardinality(At("cancel", after, 1)) = Cardinality(At("cancel", q, 1)) + k
          /\ Cardinality(At("stray", q, 1)) \in Nat /\ Cardinality(At("cancel", q, 1)) \in Nat
        BY <2>1, <1>11
    <2> QED BY <2>2, <2>3, <1>1, <1>2, <1>9
<1>13. ASSUME NEW i \in 1..Len(after)
       PROVE  Cardinality(At("stray", after, i)) <= Cardinality(At("cancel", after, i))
    <2>1. CASE i \in 1..Len(q)
        <3>1. i \in 1..(Len(q) + 1)
            BY <2>1, <1>1
        <3>2. Cardinality(At("stray", q, i)) <= Cardinality(At("cancel", q, i))
            BY <2>1 DEF QueueOK
        <3> HIDE DEF Marks
        <3>3. /\ Cardinality(At("stray", after, i)) = Cardinality(At("stray", q, i)) + Cardinality(Marks(i))
              /\ Cardinality(At("cancel", after, i)) = Cardinality(At("cancel", q, i)) + k
              /\ Cardinality(Marks(i)) \in Nat /\ Cardinality(Marks(i)) <= Cardinality(Marks(1))
              /\ Cardinality(At("stray", q, i)) \in Nat /\ Cardinality(At("cancel", q, i)) \in Nat
            BY <3>1, <1>11
        <3> QED BY <3>2, <3>3, <1>2, <1>9
    <2>2. CASE i \in (Len(q) + 1)..(Len(q) + k)
        <3>1. i \in Nat
            BY <1>1, <1>2, <2>2
        <3>2. At("stray", after, i) = {}
            <4>1. \A j \in i..Len(after) : j \in (Len(q) + 1)..(Len(q) + k)
                BY <1>1, <1>2, <1>5, <2>2, <3>1
            <4> QED BY <4>1, <1>5 DEF At
        <3>3. Cardinality(At("stray", after, i)) = 0
            BY <3>2, FS_EmptySet
        <3>4. Cardinality(At("cancel", after, i)) \in Nat
            BY <3>1, <1>5, AtIsFinite
        <3> QED BY <3>3, <3>4
    <2> QED BY <2>1, <2>2, <1>6
<1>14. ASSUME NEW i \in 1..Len(after), NEW j \in 1..Len(after), after[i] \in Calls
       PROVE  after[i] \notin host \ C /\ (after[i] = after[j] => i = j)
    <2>1. \A l \in 1..Len(after) : after[l] \in Calls => l \in 1..Len(q) /\ after[l] = q[l] /\ q[l] \notin C
        BY <1>5, <1>6, FrameConstants
    <2> QED BY <2>1, <1>14 DEF QueueOK
<1>15. QueueOK(after, host \ C, given + Cardinality(C \cap host))
    BY <1>5, <1>12, <1>13, <1>14 DEF QueueOK
<1> QED BY <1>15 DEF after

LEMMA SetToSeqLists ==
    ASSUME NEW S, IsFiniteSet(S)
    PROVE  /\ SetToSeq(S) \in Seq(S) /\ ToSet(SetToSeq(S)) = S
           /\ \A i, j \in 1..Len(SetToSeq(S)) : SetToSeq(S)[i] = SetToSeq(S)[j] => i = j
<1> DEFINE n == Cardinality(S)
           s == SetToSeq(S)
<1>1. n \in Nat /\ ExistsBijection(1..n, S)
    BY FS_CardinalityType
<1>2. PICK f \in Bijection(1..n, S) : TRUE
    BY <1>1, Fun_ExistsBij
<1>3. f \in [1..n -> S] /\ IsInjective(f)
    <2>1. f \in [1..n -> S] /\ \A a, b \in 1..n : f[a] = f[b] => a = b
        BY Fun_BijectionProperties
    <2>2. DOMAIN f = 1..n
        BY <2>1
    <2> QED BY <2>1, <2>2 DEF IsInjective
<1>4. s \in [1..n -> S] /\ IsInjective(s)
    BY <1>3 DEF SetToSeq
<1> HIDE DEF s
<1>5. \A i, j \in 1..n : s[i] = s[j] => i = j
    BY <1>4 DEF IsInjective
<1>6. s \in Injection(1..n, S)
    BY <1>4, <1>5, Fun_IsInj
<1>7. Cardinality(1..n) = Cardinality(S)
    BY <1>1, FS_Interval
<1>8. s \in Surjection(1..n, S)
    BY <1>6, <1>7, FS_Injection
<1>9. \A c \in S : \E i \in 1..n : s[i] = c
    BY <1>8 DEF Surjection
<1>10. s \in Seq(S) /\ Len(s) = n /\ DOMAIN s = 1..n
    BY <1>1, <1>4
<1>11. ToSet(s) = S
    BY <1>4, <1>9, <1>10 DEF ToSet
<1> QED BY <1>5, <1>10, <1>11 DEF s
-----------------------------------------------------------------------------
\* What a step does to the breaker is a step of the breaker.
LEMMA BridgeStepIsBreakerStep == [BridgeNext]_allVars => [Next]_vars
<1> SUFFICES ASSUME [BridgeNext]_allVars PROVE [Next]_vars
    OBVIOUS
<1>1. ASSUME NEW c \in Calls,
             CallAsProbe(c) \/ CallLetIn(c) \/ CallRefused(c) \/ Answer(c) \/ GiveUp(c) \/ Settle(c)
      PROVE  [Next]_vars
    BY <1>1 DEF CallAsProbe, CallLetIn, CallRefused, Answer, GiveUp, Settle, Next, Return
<1>2. CASE \/ Connected \/ ConnectFails
           \/ Drain \/ ConnectionError \/ PeerCloses \/ BadFrame \/ Reap \/ CloseEvent
           \/ CloseClient \/ CloseSocket
    BY <1>2 DEF Connected, ConnectFails, Drain, ConnectionError, PeerCloses, BadFrame, Reap,
                CloseEvent, CloseClient, CloseSocket
<1>3. CASE CooldownTick \/ Mend
    BY <1>3 DEF CooldownTick, Mend, Next
<1>4. CASE UNCHANGED allVars
    BY <1>4 DEF allVars
<1> QED BY <1>1, <1>2, <1>3, <1>4 DEF BridgeNext

LEMMA ChainFacts ==
    ASSUME BridgeInv
    PROVE  /\ chain \in Seq(Frames) /\ strays \in Nat /\ atHost \subseteq pending
           /\ pending \subseteq Calls /\ InFlight \subseteq Calls
           /\ jam # "drain" => chain = <<>> /\ strays = 0
           /\ \A c \in Calls : c \in ToSet(chain) => c \in pending /\ c \notin atHost
<1>1. /\ chain \in Seq(Frames) /\ strays \in Nat /\ atHost \subseteq pending
      /\ pending \subseteq InFlight /\ InFlight \subseteq Calls
      /\ ToSet(chain) \subseteq pending \cup {"stray", "cancel"}
      /\ jam # "drain" => chain = <<>>
    BY DEF BridgeInv, BridgeTypeOK, BreakerInv, BreakerTypeOK, QueueOK, InFlight
<1>2. chain = <<>> => strays = 0
    <2>1. \A f : At(f, <<>>, 1) = {}
        BY DEF At
    <2>2. \A f : Cardinality(At(f, <<>>, 1)) = 0
        BY <2>1, FS_EmptySet
    <2>3. chain = <<>> => strays + 0 = 0
        BY <2>2 DEF BridgeInv, QueueOK
    <2> QED BY <1>1, <2>3
<1>3. \A c \in Calls : c \in ToSet(chain) => c \in pending /\ c \notin atHost
    <2>1. DOMAIN chain = 1..Len(chain)
        BY <1>1
    <2> QED BY <1>1, <2>1, FrameConstants DEF BridgeInv, QueueOK, ToSet
<1> QED BY <1>1, <1>2, <1>3

\* Nothing of the bridge changes.
LEMMA BridgeUnmoved ==
    ASSUME BridgeInv, BreakerInv', UNCHANGED bridge, UNCHANGED InFlight
    PROVE  BridgeInv'
<1>1. BridgeTypeOK'
    BY DEF BridgeInv, BridgeTypeOK, bridge, BreakerInv
<1>2. QueueOK(chain', atHost', strays')
    BY DEF BridgeInv, bridge
<1>3. Places'
    BY DEF BridgeInv, Places, bridge
<1> QED BY <1>1, <1>2, <1>3 DEF BridgeInv

\* A call begins: its request goes behind the frames there are, or it waits for
\* the connection.
LEMMA BeginKeepsInv ==
    ASSUME BridgeInv, BreakerInv', NEW c \in Calls, c \notin InFlight,
           InFlight' = InFlight \cup {c}, Begin(c)
    PROVE  BridgeInv'
<1>1. /\ c \notin pending /\ outcome[c] = "none" /\ c \notin ToSet(chain) /\ c \notin atHost
      /\ chain \in Seq(Frames) /\ strays \in Nat
      /\ jam # "drain" => chain = <<>> /\ strays = 0
    BY ChainFacts DEF BridgeInv, BridgeTypeOK, Places
<1>2. CASE AwaitConnection(c)
    <2>1. BridgeTypeOK'
        BY <1>2 DEF AwaitConnection, BridgeInv, BridgeTypeOK, BreakerInv, Begin
    <2>2. QueueOK(chain', atHost', strays')
        BY <1>2 DEF AwaitConnection, BridgeInv
    <2>3. Places'
        BY <1>2 DEF AwaitConnection, BridgeInv, Places
    <2> QED BY <2>1, <2>2, <2>3 DEF BridgeInv
<1>3. CASE Register(c)
    <2>1. /\ socket = "live" /\ UNCHANGED <<socket, connecting, outcome, closing, exited>>
          /\ pending' = pending \cup {c}
          /\ Enqueue(chain, <<c>>, atHost, strays)
        BY <1>3 DEF Register, Begin
    <2>2. /\ <<c>> \in Seq(Calls) /\ <<c>> \in Seq(Frames)
          /\ \A i, j \in 1..Len(<<c>>) : <<c>>[i] = <<c>>[j] => i = j
          /\ \A i \in 1..Len(<<c>>) : <<c>>[i] = c
          /\ ToSet(<<c>>) = {c}
        BY DEF Frames, ToSet
    <2>3. /\ QueueOK(chain \o <<c>>, atHost, strays)
          /\ ToSet(chain \o <<c>>) = ToSet(chain) \cup {c}
        <3>1. PICK r \in Seq(Calls) : r = <<c>>
            BY <2>2
        <3>2. /\ \A i, j \in 1..Len(r) : r[i] = r[j] => i = j
              /\ \A i \in 1..Len(r) : r[i] \notin atHost /\ r[i] \notin ToSet(chain)
              /\ ToSet(r) = {c}
            BY <1>1, <2>2, <3>1
        <3>3. QueueOK(chain, atHost, strays)
            BY DEF BridgeInv
        <3>4. QueueOK(chain \o r, atHost, strays) /\ ToSet(chain \o r) = ToSet(chain) \cup ToSet(r)
            BY <3>2, <3>3, RequestsBehind
        <3> QED BY <3>1, <3>2, <3>4
    <2>4. /\ QueueOK(chain', atHost', strays') /\ strays' \in Nat
          /\ atHost \subseteq atHost' /\ atHost' \subseteq atHost \cup ((ToSet(chain) \cup {c}) \cap Calls)
          /\ ToSet(chain') \subseteq ToSet(chain) \cup {c}
          /\ Writes => (ToSet(chain) \cup {c}) \cap Calls \subseteq atHost' \cup ToSet(chain')
          /\ ~Writes => atHost' = atHost
          /\ jam' \in {"none", "drain", "stuck"} /\ (jam' # "drain" => chain' = <<>>)
          /\ jam' = "stuck" <=> jam = "stuck"
        <3>1. jam \in {"none", "drain", "stuck"} /\ (~Writes => strays = 0)
            BY <1>1 DEF BridgeInv, BridgeTypeOK, Writes
        <3> QED BY <1>1, <2>1, <2>2, <2>3, <3>1, EnqueueKeepsQueue
    <2>5. ToSet(chain) \subseteq pending \cup {"stray", "cancel"} /\ atHost \subseteq pending
          /\ pending \subseteq InFlight
        BY DEF BridgeInv, BridgeTypeOK
    <2>6. BridgeTypeOK'
        <3>1. ToSet(chain') \subseteq pending' \cup {"stray", "cancel"}
            BY <2>1, <2>4, <2>5
        <3>2. atHost' \subseteq pending' /\ pending' \subseteq InFlight'
            BY <2>1, <2>4, <2>5, FrameConstants
        <3>3. \A d \in pending' : outcome'[d] = "none"
            BY <1>1, <2>1 DEF BridgeInv, BridgeTypeOK
        <3> QED BY <2>1, <2>4, <3>1, <3>2, <3>3 DEF BridgeInv, BridgeTypeOK, BreakerInv
    <2>7. Places'
        <3>1. jam = "stuck" => ~Writes
            BY DEF Writes
        <3>2. jam # "stuck" => Writes
            BY <2>1 DEF Writes, BridgeInv, BridgeTypeOK
        <3>3. pending \subseteq Calls
            BY ChainFacts
        <3>4. socket' = "live" /\ jam' # "stuck" => pending' \subseteq atHost' \cup ToSet(chain')
            BY <2>1, <2>4, <3>2, <3>3 DEF BridgeInv, Places
        <3>5. jam' = "stuck" => atHost' = {}
            BY <2>4, <3>1 DEF BridgeInv, Places
        <3> QED BY <2>1, <3>4, <3>5 DEF BridgeInv, Places
    <2> QED BY <2>4, <2>6, <2>7 DEF BridgeInv
<1> QED BY <1>2, <1>3 DEF Begin

\* The requests of the calls that waited are written to the new connection.
LEMMA ConnectedKeepsInv ==
    ASSUME BridgeInv, BreakerInv', UNCHANGED InFlight, Connected
    PROVE  BridgeInv'
<1>1. PICK gone \in SUBSET Waiting :
          /\ pending' = pending \cup (Waiting \ gone)
          /\ outcome' = [c \in Calls |-> IF c \in gone THEN "other" ELSE outcome[c]]
          /\ Enqueue(chain, SetToSeq(Waiting \ gone), atHost, strays)
    BY DEF Connected
<1> DEFINE W == Waiting \ gone
           r == SetToSeq(W)
<1>2. /\ socket = "none" /\ socket' = "live" /\ connecting' = FALSE /\ UNCHANGED <<closing, exited>>
      /\ pending = {} /\ atHost = {} /\ chain = <<>> /\ strays = 0 /\ jam # "drain"
    BY ChainFacts DEF Connected, BridgeInv, Places
<1>3. /\ IsFiniteSet(W) /\ W \subseteq InFlight /\ W \subseteq Calls /\ gone \subseteq InFlight
      /\ \A c \in W : outcome[c] = "none"
    BY ChainFacts, FrameConstants, FS_Subset DEF Waiting
<1> HIDE DEF W
<1>4. /\ r \in Seq(Calls) /\ r \in Seq(Frames) /\ ToSet(r) = W
      /\ \A i, j \in 1..Len(r) : r[i] = r[j] => i = j
    BY <1>3, SetToSeqLists DEF Frames
<1> HIDE DEF r
<1>5. QueueOK(chain \o r, atHost, strays) /\ ToSet(chain \o r) = W
    <2>1. \A i \in 1..Len(r) : r[i] \notin atHost /\ r[i] \notin ToSet(chain)
        BY <1>2 DEF ToSet
    <2>2. QueueOK(chain, atHost, strays)
        BY DEF BridgeInv
    <2>3. QueueOK(chain \o r, atHost, strays) /\ ToSet(chain \o r) = ToSet(chain) \cup ToSet(r)
        BY <1>4, <2>1, <2>2, RequestsBehind
    <2> QED BY <1>2, <1>4, <2>3 DEF ToSet
<1>6. /\ QueueOK(chain', atHost', strays') /\ strays' \in Nat
      /\ atHost' \subseteq W
      /\ ToSet(chain') \subseteq W
      /\ Writes => W \cap Calls \subseteq atHost' \cup ToSet(chain')
      /\ ~Writes => atHost' = {}
      /\ jam' \in {"none", "drain", "stuck"} /\ (jam' # "drain" => chain' = <<>>)
      /\ jam' = "stuck" <=> jam = "stuck"
    <2>1. Enqueue(chain, r, atHost, strays)
        BY <1>1 DEF r, W
    <2>2. jam \in {"none", "drain", "stuck"} /\ chain \in Seq(Frames) /\ strays \in Nat
        BY ChainFacts DEF BridgeInv, BridgeTypeOK
    <2>3. /\ QueueOK(chain', atHost', strays') /\ strays' \in Nat
          /\ atHost' \subseteq atHost \cup (ToSet(chain \o r) \cap Calls)
          /\ ToSet(chain') \subseteq ToSet(chain \o r)
          /\ Writes => ToSet(chain \o r) \cap Calls \subseteq atHost' \cup ToSet(chain')
          /\ ~Writes => atHost' = atHost
          /\ jam' \in {"none", "drain", "stuck"} /\ (jam' # "drain" => chain' = <<>>)
          /\ jam' = "stuck" <=> jam = "stuck"
        <3>1. jam # "drain" => chain = <<>> /\ chain = <<>>
            BY <1>2
        <3>2. ~Writes => strays = 0
            BY <1>2
        <3> QED BY <1>4, <1>5, <2>1, <2>2, <3>1, <3>2, EnqueueKeepsQueue
    <2> QED BY <1>2, <1>5, <2>3
<1>7. pending' = W
    BY <1>1, <1>2 DEF W
<1>8. BridgeTypeOK'
    <2>1. outcome' \in [Calls -> Outcomes \cup {"none"}]
        BY <1>1 DEF BridgeInv, BridgeTypeOK, Outcomes
    <2>2. \A c \in pending' : outcome'[c] = "none"
        BY <1>1, <1>3, <1>7 DEF W
    <2> QED BY <1>2, <1>3, <1>6, <1>7, <2>1, <2>2 DEF BridgeInv, BridgeTypeOK, BreakerInv
<1>9. Places'
    <2>1. \A c \in Calls : outcome'[c] # "none" => c \in InFlight'
        BY <1>1, <1>3 DEF BridgeInv, Places
    <2>2. jam = "stuck" => ~Writes
        BY DEF Writes
    <2>3. jam # "stuck" => Writes
        BY <1>2 DEF Writes, BridgeInv, BridgeTypeOK
    <2> QED BY <1>2, <1>3, <1>6, <1>7, <2>1, <2>2, <2>3 DEF Places
<1> QED BY <1>6, <1>8, <1>9 DEF BridgeInv

LEMMA ConnectFailsKeepsInv ==
    ASSUME BridgeInv, BreakerInv', UNCHANGED InFlight, ConnectFails
    PROVE  BridgeInv'
<1>1. /\ connecting' = FALSE /\ exited' \in BOOLEAN
      /\ UNCHANGED <<socket, pending, chain, jam, atHost, strays, closing>>
    BY DEF ConnectFails
<1>2. PICK why \in {"transport", "other"} :
          outcome' = [c \in Calls |-> IF c \in Waiting THEN why ELSE outcome[c]]
    BY DEF ConnectFails, Rejected
<1>3. outcome' \in [Calls -> Outcomes \cup {"none"}]
    BY <1>2 DEF BridgeInv, BridgeTypeOK, Outcomes
<1>4. \A c \in pending : outcome'[c] = "none"
    BY <1>2, ChainFacts DEF BridgeInv, BridgeTypeOK, Waiting
<1>5. BridgeTypeOK'
    BY <1>1, <1>3, <1>4 DEF BridgeInv, BridgeTypeOK, BreakerInv
<1>6. \A c \in Calls : outcome'[c] # "none" => c \in InFlight'
    BY <1>2 DEF Waiting, BridgeInv, Places
<1>7. QueueOK(chain', atHost', strays') /\ Places'
    BY <1>1, <1>6 DEF BridgeInv, Places
<1> QED BY <1>5, <1>7 DEF BridgeInv

\* The calls of C settle, and are nowhere any more.
LEMMA SettleWithKeeps ==
    ASSUME BridgeInv, NEW C \in SUBSET pending, NEW why \in Outcomes, SettleWith(C, why)
    PROVE  /\ pending' = pending \ C
           /\ outcome' \in [Calls -> Outcomes \cup {"none"}]
           /\ \A c \in pending' : outcome'[c] = "none"
           /\ \A c \in Calls : outcome'[c] # "none" => c \in InFlight
BY ChainFacts DEF SettleWith, BridgeInv, BridgeTypeOK, Places

LEMMA AnswerKeepsInv ==
    ASSUME BridgeInv, BreakerInv', UNCHANGED InFlight, NEW c \in Calls, Answer(c)
    PROVE  BridgeInv'
<1>1. /\ c \in pending /\ c \in atHost /\ atHost' = atHost \ {c}
      /\ UNCHANGED <<socket, connecting, chain, jam, strays, closing, exited>>
    BY DEF Answer
<1>2. /\ pending' = pending \ {c}
      /\ outcome' \in [Calls -> Outcomes \cup {"none"}]
      /\ \A d \in pending' : outcome'[d] = "none"
      /\ \A d \in Calls : outcome'[d] # "none" => d \in InFlight
    <2>1. PICK C \in SUBSET pending : C = {c}
        BY <1>1
    <2>2. PICK why \in Outcomes : SettleWith(C, why)
        BY <2>1 DEF Answer
    <2>3. /\ pending' = pending \ C
          /\ outcome' \in [Calls -> Outcomes \cup {"none"}]
          /\ \A d \in pending' : outcome'[d] = "none"
          /\ \A d \in Calls : outcome'[d] # "none" => d \in InFlight
        BY <2>2, SettleWithKeeps
    <2> QED BY <2>1, <2>3
<1>3. c \notin ToSet(chain)
    BY <1>1, ChainFacts
<1>4. BridgeTypeOK'
    BY <1>1, <1>2, <1>3 DEF BridgeInv, BridgeTypeOK, BreakerInv
<1>5. QueueOK(chain', atHost', strays')
    BY <1>1 DEF BridgeInv, QueueOK
<1>6. Places'
    BY <1>1, <1>2 DEF BridgeInv, Places
<1> QED BY <1>4, <1>5, <1>6 DEF BridgeInv

\* Calls are given up by their callers, or all by close().
LEMMA GiveUpOnKeepsInv ==
    ASSUME BridgeInv, BreakerInv', UNCHANGED InFlight, NEW C \in SUBSET pending, GiveUpOn(C),
           UNCHANGED <<socket, connecting, exited>>, closing' \in {"no", "closing", "closed"}
    PROVE  BridgeInv'
<1> DEFINE marked == [i \in DOMAIN chain |-> IF chain[i] \in C THEN "stray" ELSE chain[i]]
           k == Cardinality(C)
           cancels == CancelFrames(k)
           frames == IF socket = "live" THEN cancels ELSE <<>>
           given == strays + Cardinality(C \cap atHost)
<1>1. /\ SettleWith(C, "other")
      /\ Enqueue(marked, frames, atHost \ C, given)
    BY DEF GiveUpOn
<1>2. /\ pending' = pending \ C
      /\ outcome' \in [Calls -> Outcomes \cup {"none"}]
      /\ \A c \in pending' : outcome'[c] = "none"
      /\ \A c \in Calls : outcome'[c] # "none" => c \in InFlight
    BY <1>1, SettleWithKeeps DEF Outcomes
<1>3. /\ chain \in Seq(Frames) /\ strays \in Nat /\ C \subseteq Calls /\ atHost \subseteq pending
      /\ jam # "drain" => chain = <<>> /\ strays = 0
      /\ QueueOK(chain, atHost, strays)
      /\ ToSet(chain) \subseteq pending \cup {"stray", "cancel"}
      /\ jam \in {"none", "drain", "stuck"}
    BY ChainFacts DEF BridgeInv, BridgeTypeOK
<1>4. IsFiniteSet(C) /\ k \in Nat /\ given \in Nat
    <2>1. IsFiniteSet(C) /\ IsFiniteSet(C \cap atHost)
        BY <1>3, FrameConstants, FS_Subset, FS_Intersection
    <2> QED BY <2>1, <1>3, FS_CardinalityType
<1>5. marked \in Seq(Frames) /\ (chain = <<>> => marked = <<>>)
    BY <1>3 DEF Frames
<1>6. frames \in Seq(Frames)
    BY <1>4 DEF CancelFrames, Frames
<1>7. Writes => socket = "live" /\ jam # "stuck"
    BY DEF Writes, BridgeInv, Places
<1>8. ~Writes => given = 0 /\ atHost = {} /\ jam # "drain"
    <2>1. ~Writes => atHost = {} /\ jam # "drain"
        BY <1>3 DEF Writes, BridgeInv, Places
    <2>2. Cardinality(C \cap {}) = 0
        BY FS_EmptySet
    <2> QED BY <2>1, <2>2, <1>3
<1>9. Writes => /\ QueueOK(marked \o frames, atHost \ C, given)
                /\ \A c \in Calls : c \in ToSet(marked \o frames) <=> c \in ToSet(chain) \ C
    <2> SUFFICES ASSUME Writes
                 PROVE  /\ QueueOK(marked \o frames, atHost \ C, given)
                        /\ \A c \in Calls : c \in ToSet(marked \o frames) <=> c \in ToSet(chain) \ C
        OBVIOUS
    <2>1. frames = cancels
        BY <1>7
    <2>2. C \subseteq atHost \cup ToSet(chain)
        BY <1>7 DEF BridgeInv, Places
    <2>3. PICK D \in SUBSET Calls : D = C
        BY <1>3
    <2>4. /\ marked = [i \in DOMAIN chain |-> IF chain[i] \in D THEN "stray" ELSE chain[i]]
          /\ k = Cardinality(D) /\ cancels = CancelFrames(k)
          /\ given = strays + Cardinality(D \cap atHost)
        BY <2>3
    <2> HIDE DEF marked, k, cancels, given
    <2>5. PICK m : m = marked
        OBVIOUS
    <2>6. PICK n : n = k
        OBVIOUS
    <2>7. PICK behind : behind = cancels
        OBVIOUS
    <2>8. /\ m = [i \in DOMAIN chain |-> IF chain[i] \in D THEN "stray" ELSE chain[i]]
          /\ n = Cardinality(D) /\ n \in Nat /\ behind = CancelFrames(n)
          /\ D \subseteq atHost \cup ToSet(chain)
        BY <1>4, <2>2, <2>3, <2>4, <2>5, <2>6, <2>7
    <2>9. PICK others : others = atHost \ D
        OBVIOUS
    <2>10. PICK sent : sent = D \cap atHost
        OBVIOUS
    <2>11. QueueOK(m \o behind, others, strays + Cardinality(sent))
        BY <1>3, <2>8, <2>9, <2>10, CancelsBehind
    <2>12. \A c \in Calls : c \in ToSet(m \o behind) <=> c \in ToSet(chain) \ D
        BY <1>3, <2>8, MarkedCallsAreGone
    <2> QED BY <2>1, <2>3, <2>4, <2>5, <2>7, <2>9, <2>10, <2>11, <2>12
<1> HIDE DEF marked, frames, given, k
<1>10. /\ QueueOK(chain', atHost', strays') /\ strays' \in Nat
       /\ atHost \ C \subseteq atHost'
       /\ atHost' \subseteq (atHost \ C) \cup (ToSet(marked \o frames) \cap Calls)
       /\ ToSet(chain') \subseteq ToSet(marked \o frames)
       /\ Writes => ToSet(marked \o frames) \cap Calls \subseteq atHost' \cup ToSet(chain')
       /\ ~Writes => atHost' = atHost \ C
       /\ jam' \in {"none", "drain", "stuck"} /\ (jam' # "drain" => chain' = <<>>)
       /\ jam' = "stuck" <=> jam = "stuck"
       /\ jam' = "drain" => jam = "drain" \/ socket' = "live"
    <2>1. jam # "drain" => marked = <<>> /\ chain = <<>>
        BY <1>3, <1>5
    <2> QED BY <1>1, <1>3, <1>4, <1>5, <1>6, <1>8, <1>9, <2>1, EnqueueKeepsQueue
<1>11. ~Writes => chain' = <<>>
    BY <1>8, <1>10, <1>1 DEF Enqueue, Writes
<1>12. ToSet(chain') \subseteq Frames /\ (chain' = <<>> => ToSet(chain') = {})
    BY <1>10 DEF QueueOK, ToSet
<1>13. BridgeTypeOK'
    <2>1. ToSet(chain') \subseteq pending' \cup {"stray", "cancel"}
        BY <1>2, <1>3, <1>9, <1>10, <1>11, <1>12 DEF Frames
    <2>2. atHost' \subseteq pending'
        BY <1>2, <1>3, <1>8, <1>9, <1>10, FrameConstants
    <2> QED BY <1>2, <1>10, <2>1, <2>2 DEF BridgeInv, BridgeTypeOK, BreakerInv
<1>14. Places'
    <2>1. socket' # "live" => jam' # "drain" /\ atHost' = {}
        BY <1>7, <1>8, <1>10 DEF BridgeInv, Places
    <2>2. socket' = "none" => pending' = {}
        BY <1>2 DEF BridgeInv, Places
    <2>3. jam' = "stuck" => atHost' = {}
        BY <1>7, <1>8, <1>10
    <2>4. socket' = "live" /\ jam' # "stuck" => pending' \subseteq atHost' \cup ToSet(chain')
        <3>1. socket' = "live" /\ jam' # "stuck" => Writes /\ pending \subseteq atHost \cup ToSet(chain)
            BY <1>3, <1>10 DEF Writes, BridgeInv, Places
        <3>2. pending \subseteq Calls
            BY ChainFacts
        <3> QED BY <1>2, <1>9, <1>10, <3>1, <3>2
    <2> QED BY <1>2, <2>1, <2>2, <2>3, <2>4 DEF Places
<1> QED BY <1>10, <1>13, <1>14 DEF BridgeInv

\* The breaker sees the outcome, and the call is over.
LEMMA SettleKeepsInv ==
    ASSUME BridgeInv, BreakerInv', NEW c \in Calls, Settle(c)
    PROVE  BridgeInv'
<1>1. /\ c \in InFlight /\ outcome[c] # "none"
      /\ normal' = normal \ {c} /\ probes' = probes \ {c}
      /\ outcome' = [outcome EXCEPT ![c] = "none"]
      /\ UNCHANGED <<socket, connecting, pending, chain, jam, atHost, strays, closing, exited>>
    BY DEF Settle, Succeed, FailTransport, FailOtherwise, Leave
<1>2. InFlight' = InFlight \ {c}
    BY <1>1 DEF InFlight
<1>3. c \notin pending
    BY <1>1 DEF BridgeInv, BridgeTypeOK
<1>4. BridgeTypeOK'
    BY <1>1, <1>2, <1>3 DEF BridgeInv, BridgeTypeOK, BreakerInv, Outcomes
<1>5. QueueOK(chain', atHost', strays')
    BY <1>1 DEF BridgeInv
<1>6. Places'
    <2>1. \A d \in Calls : outcome'[d] # "none" => d \in InFlight'
        BY <1>1, <1>2 DEF BridgeInv, BridgeTypeOK, Places
    <2> QED BY <1>1, <2>1 DEF BridgeInv, Places
<1> QED BY <1>4, <1>5, <1>6 DEF BridgeInv

LEMMA DrainKeepsInv ==
    ASSUME BridgeInv, BreakerInv', UNCHANGED InFlight, Drain
    PROVE  BridgeInv'
<1>1. /\ jam = "drain" /\ socket = "live" /\ Write(chain, atHost, strays)
      /\ UNCHANGED <<socket, connecting, pending, outcome, closing, exited>>
    BY DEF Drain
<1>2. QueueOK(chain, atHost, strays)
    BY DEF BridgeInv
<1>3. /\ QueueOK(chain', atHost', strays') /\ strays' \in Nat
      /\ atHost \subseteq atHost' /\ atHost' \subseteq atHost \cup (ToSet(chain) \cap Calls)
      /\ ToSet(chain') \subseteq ToSet(chain)
      /\ ToSet(chain) \cap Calls \subseteq atHost' \cup ToSet(chain')
      /\ jam' \in {"none", "drain"} /\ (jam' # "drain" => chain' = <<>>)
    BY <1>1, <1>2, WriteKeepsQueue
<1>4. BridgeTypeOK'
    BY <1>1, <1>3, FrameConstants DEF BridgeInv, BridgeTypeOK, BreakerInv
<1>5. Places'
    BY <1>1, <1>3, ChainFacts DEF BridgeInv, Places
<1> QED BY <1>3, <1>4, <1>5 DEF BridgeInv

\* Nothing is left of a connection that is gone.
LEMMA GoneKeepsInv ==
    ASSUME BridgeInv, BreakerInv', UNCHANGED InFlight,
           socket' \in {"none", "destroyed"}, socket' = "none" => pending' = {},
           jam' \in {"none", "stuck"}, chain' = <<>>, atHost' = {}, strays' = 0,
           pending' \subseteq pending, outcome' \in [Calls -> Outcomes \cup {"none"}],
           \A c \in pending' : outcome'[c] = "none",
           \A c \in Calls : outcome'[c] # "none" => c \in InFlight,
           UNCHANGED <<connecting, exited>>, closing' \in {"no", "closing", "closed"}
    PROVE  BridgeInv'
<1>1. ToSet(<<>>) = {}
    BY DEF ToSet
<1>2. BridgeTypeOK'
    BY <1>1 DEF BridgeInv, BridgeTypeOK, BreakerInv
<1>3. QueueOK(chain', atHost', strays')
    BY EmptyQueue
<1>4. Places'
    BY DEF Places
<1> QED BY <1>2, <1>3, <1>4 DEF BridgeInv

LEMMA LossKeepsInv ==
    ASSUME BridgeInv, BreakerInv', UNCHANGED InFlight,
           ConnectionError \/ PeerCloses \/ BadFrame \/ CloseEvent
    PROVE  BridgeInv'
<1>1. /\ FailAllPending
      /\ socket' \in {"none", "destroyed"}
      /\ UNCHANGED <<connecting, closing, exited>>
    BY DEF ConnectionError, PeerCloses, BadFrame, CloseEvent
<1>2. jam' \in {"none", "stuck"} /\ chain' = <<>>
    <2>1. /\ jam \in {"none", "drain", "stuck"} /\ (jam # "drain" => chain = <<>>)
          /\ socket # "live" => jam # "drain"
        BY DEF BridgeInv, BridgeTypeOK, Places
    <2>2. CASE ConnectionError
        BY <2>1, <2>2 DEF ConnectionError
    <2>3. CASE PeerCloses
        BY <2>1, <2>3 DEF PeerCloses
    <2>4. CASE BadFrame
        BY <2>1, <2>4 DEF BadFrame, LeaveWaiting
    <2>5. CASE CloseEvent
        BY <2>1, <2>5 DEF CloseEvent
    <2> QED BY <2>2, <2>3, <2>4, <2>5
<1>3. PICK C \in SUBSET pending : C = pending
    OBVIOUS
<1>4. /\ pending' = pending \ C
      /\ outcome' \in [Calls -> Outcomes \cup {"none"}]
      /\ \A c \in pending' : outcome'[c] = "none"
      /\ \A c \in Calls : outcome'[c] # "none" => c \in InFlight
    <2>1. SettleWith(C, "transport")
        BY <1>1, <1>3 DEF FailAllPending
    <2> QED BY <2>1, SettleWithKeeps DEF Outcomes
<1>5. pending' = {} /\ atHost' = {} /\ strays' = 0
    BY <1>1, <1>3, <1>4 DEF FailAllPending
<1>6. closing' \in {"no", "closing", "closed"}
    BY <1>1 DEF BridgeInv, BridgeTypeOK
<1> QED BY <1>1, <1>2, <1>4, <1>5, <1>6, GoneKeepsInv

LEMMA ReapKeepsInv ==
    ASSUME BridgeInv, BreakerInv', UNCHANGED InFlight, Reap
    PROVE  BridgeInv'
<1>1. /\ socket' = "destroyed" /\ jam' \in {"none", "stuck"} /\ chain' = <<>>
      /\ atHost' = {} /\ strays' = 0
      /\ UNCHANGED <<connecting, pending, outcome, closing, exited>>
    BY DEF Reap, LeaveWaiting, BridgeInv, BridgeTypeOK
<1> QED BY <1>1, GoneKeepsInv DEF BridgeInv, BridgeTypeOK, Places

LEMMA CloseSocketKeepsInv ==
    ASSUME BridgeInv, BreakerInv', UNCHANGED InFlight, CloseSocket
    PROVE  BridgeInv'
<1>1. /\ socket' \in {"none", "destroyed"} /\ (socket' = "none" => socket = "none")
      /\ jam' = "none" /\ chain' = <<>>
      /\ atHost' = {} /\ strays' = 0 /\ closing' = "closed"
      /\ UNCHANGED <<connecting, pending, outcome, exited>>
    BY DEF CloseSocket, BridgeInv, BridgeTypeOK
<1> QED BY <1>1, GoneKeepsInv DEF BridgeInv, BridgeTypeOK, Places
-----------------------------------------------------------------------------
LEMMA BridgeInvInit == BridgeInit => BridgeInv
<1> SUFFICES ASSUME BridgeInit PROVE BridgeInv
    OBVIOUS
<1>1. BreakerInv
    BY BreakerInvInit DEF BridgeInit
<1>2. ToSet(<<>>) = {}
    BY DEF ToSet
<1>3. BridgeTypeOK
    BY <1>1, <1>2 DEF BridgeInit, BridgeTypeOK, BreakerInv, Outcomes
<1>4. QueueOK(chain, atHost, strays)
    BY EmptyQueue DEF BridgeInit
<1>5. Places
    BY DEF BridgeInit, Places
<1> QED BY <1>1, <1>3, <1>4, <1>5 DEF BridgeInv

LEMMA BridgeInvStep == BridgeInv /\ [BridgeNext]_allVars => BridgeInv'
<1> SUFFICES ASSUME BridgeInv, [BridgeNext]_allVars PROVE BridgeInv'
    OBVIOUS
<1>1. BreakerInv'
    BY BridgeStepIsBreakerStep, BreakerInvStep DEF BridgeInv
<1>2. UNCHANGED vars => UNCHANGED InFlight
    BY DEF vars, InFlight
<1>3. ASSUME NEW c \in Calls, CallAsProbe(c) \/ CallLetIn(c)
      PROVE  BridgeInv'
    <2>1. Begin(c) /\ c \notin InFlight /\ InFlight' = InFlight \cup {c}
        BY <1>3 DEF CallAsProbe, CallLetIn, Probe, LetIn, InFlight
    <2> QED BY <1>1, <2>1, BeginKeepsInv
<1>4. ASSUME NEW c \in Calls, CallRefused(c)
      PROVE  BridgeInv'
    <2>1. UNCHANGED bridge /\ UNCHANGED InFlight
        BY <1>4 DEF CallRefused, Refuse, InFlight
    <2> QED BY <1>1, <2>1, BridgeUnmoved
<1>5. ASSUME NEW c \in Calls, Answer(c)
      PROVE  BridgeInv'
    BY <1>1, <1>2, <1>5, AnswerKeepsInv DEF Answer
<1>6. ASSUME NEW c \in Calls, GiveUp(c)
      PROVE  BridgeInv'
    <2>1. PICK C \in SUBSET pending : C = {c}
        BY <1>6 DEF GiveUp
    <2>2. /\ GiveUpOn(C) /\ UNCHANGED <<socket, connecting, exited>>
          /\ UNCHANGED vars /\ closing' \in {"no", "closing", "closed"}
        BY <1>6, <2>1 DEF GiveUp, BridgeInv, BridgeTypeOK
    <2> QED BY <1>1, <1>2, <2>2, GiveUpOnKeepsInv
<1>7. ASSUME NEW c \in Calls, Settle(c)
      PROVE  BridgeInv'
    BY <1>1, <1>7, SettleKeepsInv
<1>8. CASE Connected
    BY <1>1, <1>2, <1>8, ConnectedKeepsInv DEF Connected
<1>9. CASE ConnectFails
    BY <1>1, <1>2, <1>9, ConnectFailsKeepsInv DEF ConnectFails
<1>10. CASE Drain
    BY <1>1, <1>2, <1>10, DrainKeepsInv DEF Drain
<1>11. CASE ConnectionError \/ PeerCloses \/ BadFrame \/ CloseEvent
    <2>1. UNCHANGED InFlight
        BY <1>2, <1>11 DEF ConnectionError, PeerCloses, BadFrame, CloseEvent
    <2> QED BY <1>1, <1>11, <2>1, LossKeepsInv
<1>12. CASE Reap
    BY <1>1, <1>2, <1>12, ReapKeepsInv DEF Reap
<1>13. CASE CloseClient
    <2>1. PICK C \in SUBSET pending : C = pending
        OBVIOUS
    <2>2. /\ GiveUpOn(C) /\ UNCHANGED <<socket, connecting, exited>>
          /\ UNCHANGED vars /\ closing' \in {"no", "closing", "closed"}
        BY <1>13, <2>1 DEF CloseClient
    <2> QED BY <1>1, <1>2, <2>2, GiveUpOnKeepsInv
<1>14. CASE CloseSocket
    BY <1>1, <1>2, <1>14, CloseSocketKeepsInv DEF CloseSocket
<1>15. CASE CooldownTick \/ Mend
    <2>1. UNCHANGED bridge /\ UNCHANGED InFlight
        BY <1>15 DEF CooldownTick, Tick, Mend, Heal, InFlight
    <2> QED BY <1>1, <2>1, BridgeUnmoved
<1>16. CASE UNCHANGED allVars
    <2>1. UNCHANGED bridge /\ UNCHANGED InFlight
        BY <1>2, <1>16 DEF allVars
    <2> QED BY <1>1, <2>1, BridgeUnmoved
<1> QED BY <1>3, <1>4, <1>5, <1>6, <1>7, <1>8, <1>9, <1>10, <1>11, <1>12, <1>13, <1>14, <1>15, <1>16
        DEF BridgeNext

\* What the counts of the chain say of the calls that were given up.
LEMMA QueueCancels == BridgeInv => GivenUpIsCancelled
<1> SUFFICES ASSUME BridgeInv PROVE GivenUpIsCancelled
    OBVIOUS
<1>1. /\ chain \in Seq(Frames) /\ Len(chain) \in Nat /\ DOMAIN chain = 1..Len(chain)
      /\ strays + Cardinality(At("stray", chain, 1)) = Cardinality(At("cancel", chain, 1))
      /\ \A i \in 1..Len(chain) : Cardinality(At("stray", chain, i)) <= Cardinality(At("cancel", chain, i))
    BY DEF BridgeInv, QueueOK
<1>2. strays + Count("stray", chain) <= Count("cancel", chain)
    <2>1. Cardinality(At("cancel", chain, 1)) \in Nat
        BY <1>1, AtIsFinite
    <2>2. Count("stray", chain) = Cardinality(At("stray", chain, 1))
          /\ Count("cancel", chain) = Cardinality(At("cancel", chain, 1))
        BY <1>1, CountIsAt
    <2> QED BY <1>1, <2>1, <2>2
<1>3. ASSUME NEW i \in 1..Len(chain)
      PROVE  Count("stray", SubSeq(chain, i, Len(chain))) <= Count("cancel", SubSeq(chain, i, Len(chain)))
    <2>1. PICK n \in 0..Len(chain) : n = i - 1
        BY <1>1
    <2>2. n + 1 = i
        BY <1>1, <2>1
    <2>3. PICK behind : behind \in Seq(Frames) /\ behind = SubSeq(chain, n + 1, Len(chain))
        <3>1. SubSeq(chain, n + 1, Len(chain)) \in Seq(Frames)
            BY <1>1
        <3> QED BY <3>1
    <2>4. \A f : Count(f, behind) = Cardinality(At(f, behind, 1))
        BY <2>3, CountIsAt
    <2>5. \A f : Cardinality(At(f, SubSeq(chain, n + 1, Len(chain)), 1)) = Cardinality(At(f, chain, n + 1))
        BY <1>1, TailShifts
    <2>6. \A f : Count(f, behind) = Cardinality(At(f, chain, i))
        BY <2>2, <2>3, <2>4, <2>5
    <2> QED BY <1>1, <2>2, <2>3, <2>6
<1> QED BY <1>1, <1>2, <1>3 DEF GivenUpIsCancelled

\* The types hold in every state of the client, and with them how its parts hang
\* together: pending calls are in flight, a settled call is not pending, and frames
\* are queued only behind a write that waits for drain.
THEOREM BridgeTypesCorrect == BridgeSpec => []BridgeTypeOK
<1>1. BridgeInv => BridgeTypeOK
    BY DEF BridgeInv
<1> QED BY <1>1, BridgeInvInit, BridgeInvStep, PTL DEF BridgeSpec

\* A request of which the caller was told that it timed out is followed by its cancel on
\* the same connection, whatever number of calls share it and however full it is
\* (sendCancel and cancelAll of src/src/transport/bridge-client.ts).
THEOREM GivenUpIsCancelledCorrect == BridgeSpec => []GivenUpIsCancelled
<1> QED BY QueueCancels, BridgeInvInit, BridgeInvStep, PTL DEF BridgeSpec

\* The client drives the breaker as its specification says (call of
\* src/src/transport/bridge-client.ts): each of its steps is one of the breaker or leaves
\* the breaker alone, so what holds of the breaker holds of it in the client.
THEOREM BridgeImplementsBreaker == BridgeSpec => Spec
<1>1. BridgeInit => Init
    BY DEF BridgeInit
<1> QED BY <1>1, BridgeStepIsBreakerStep, PTL DEF BridgeSpec, Spec
=============================================================================
