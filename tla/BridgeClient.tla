---------------------------- MODULE BridgeClient ----------------------------
(***************************************************************************)
(* The bridge client (src/src/transport/bridge-client.ts) under its        *)
(* circuit breaker: one connection that all calls share, requests and      *)
(* cancel frames that go through one write chain, answers, deadlines,      *)
(* connection losses and close().                                          *)
(*                                                                         *)
(* A call is let in by the breaker, waits for the connection, is pending,  *)
(* and has an outcome, which the breaker then sees.  All promise reactions *)
(* run before the next event of the loop (Quiet).  Of the host only        *)
(* matters which requests it has; requests of callers that have gone are   *)
(* strays.  Node delivers the close event of a destroyed socket before the *)
(* next connection is made.                                                *)
(***************************************************************************)
EXTENDS CircuitBreaker, SequencesExt

CONSTANTS
    MaxQueuedWrites,  \* bound: no call begins behind this many queued frames
    Modes             \* of unhandled rejections: "throw" is Node's default, "warn" the option

ASSUME BridgeAssumption ==
    /\ IsFiniteSet(Calls)
    /\ {"stray", "cancel"} \cap Calls = {}  \* the other frames of the chain

VARIABLES
    socket,      \* "none", "live", or "destroyed" while its close event is due
    connecting,  \* this.connecting is set
    pending,     \* the calls in the map of that name
    outcome,     \* what a call has settled with, until the breaker has seen it
    chain,       \* frames behind the write that waits for drain
    jam,         \* whether a write waits for drain, or for one that never comes
    atHost,      \* pending calls whose request was written
    strays,      \* requests written, given up, and not yet followed by their cancel
    closing,
    exited

bridge == <<socket, connecting, pending, outcome, chain, jam, atHost, strays, closing, exited>>
allVars == <<vars, bridge>>

Outcomes == {"ok", "transport", "other"}
Quiet == ~exited /\ \A c \in Calls : outcome[c] = "none"
Waiting == {c \in InFlight \ pending : outcome[c] = "none"}
Count(frame, q) == Cardinality({i \in DOMAIN q : q[i] = frame})
-----------------------------------------------------------------------------
BridgeInit ==
    /\ Init
    /\ socket = "none" /\ connecting = FALSE
    /\ pending = {} /\ outcome = [c \in Calls |-> "none"]
    /\ chain = <<>> /\ jam = "none"
    /\ atHost = {} /\ strays = 0
    /\ closing = "no" /\ exited = FALSE

\* socket.write() of the frames in q, up to one that asks to wait for drain.
Write(q, host, given) ==
    \E n \in 0..Len(q) :
        LET out == SubSeq(q, 1, n)
        IN  /\ \/ n = Len(q) /\ jam' = "none"
               \/ n > 0 /\ ~healthy /\ jam' = "drain"
            /\ chain' = SubSeq(q, n + 1, Len(q))
            /\ atHost' = host \cup (ToSet(out) \cap Calls)
            /\ strays' = given + Count("stray", out) - Count("cancel", out)

\* enqueueWrite: behind a write that waits, at once, or to a socket that is gone.
\* What is queued behind a write that waits for ever is never sent and not kept.
Enqueue(q, frames, host, given) ==
    \/ /\ jam = "drain"
       /\ chain' = q \o frames
       /\ atHost' = host /\ strays' = given
       /\ UNCHANGED jam
    \/ jam = "none" /\ socket' = "live" /\ Write(frames, host, given)
    \/ /\ jam = "stuck" \/ (jam = "none" /\ socket' # "live")
       /\ atHost' = host /\ strays' = given
       /\ UNCHANGED <<chain, jam>>

SettleOnly(C, why) == \* mutant: the map is not cleared
    /\ outcome' = [c \in Calls |-> IF c \in C THEN why ELSE outcome[c]]
    /\ UNCHANGED pending
SettleWith(C, why) ==
    /\ outcome' = [c \in Calls |-> IF c \in C THEN why ELSE outcome[c]]
    /\ pending' = pending \ C

\* failAllPending; the host drops what came over this connection.
FailAllPending ==
    /\ SettleWith(pending, "transport")
    /\ atHost' = {} /\ strays' = 0

\* destroy() without an error event leaves once(socket, "drain") unsettled.
LeaveWaiting ==
    /\ jam' = IF jam = "drain" THEN "stuck" ELSE jam
    /\ chain' = <<>>
-----------------------------------------------------------------------------
\* call(): the breaker lets c in, ensureConnected, the request.
Register(c) ==
    /\ socket = "live"
    /\ UNCHANGED <<socket, connecting, outcome, closing, exited>>
    /\ pending' = pending \cup {c}
    /\ Enqueue(chain, <<c>>, atHost, strays)

AwaitConnection(c) ==
    /\ socket # "live"
    /\ connecting' = TRUE
    /\ UNCHANGED <<socket, pending, outcome, chain, jam, atHost, strays, closing, exited>>

Begin(c) ==
    /\ ~exited /\ closing # "closed" /\ Len(chain) < MaxQueuedWrites
    /\ Register(c) \/ AwaitConnection(c)

CallAsProbe(c) == Begin(c) /\ Probe(c)
CallLetIn(c) == Begin(c) /\ LetIn(c)
CallRefused(c) == ~exited /\ Refuse(c) /\ UNCHANGED bridge

\* The connect event; calls whose signal was aborted meanwhile send no request.
\* Their cancel frame, which names no request the host has, is left out.
Connected ==
    /\ Quiet /\ connecting /\ socket = "none"
    /\ socket' = "live" /\ connecting' = FALSE
    /\ \E gone \in SUBSET Waiting :
          /\ healthy => gone = {}
          /\ pending' = pending \cup (Waiting \ gone)
          /\ outcome' = [c \in Calls |-> IF c \in gone THEN "other" ELSE outcome[c]]
          /\ Enqueue(chain, SetToSeq(Waiting \ gone), atHost, strays)
    /\ UNCHANGED <<vars, closing, exited>>

RejectedNone == {} \* mutant: the connect timer destroys the socket and rejects nobody
Rejected == Waiting

\* The connect timer or an error event.  The promise that `finally` returns is
\* rejected too, and nothing handles it.
ConnectFails ==
    /\ Quiet /\ ~healthy /\ connecting
    /\ connecting' = FALSE
    /\ \E why \in {"transport", "other"} :
          outcome' = [c \in Calls |-> IF c \in Rejected THEN why ELSE outcome[c]]
    /\ \E mode \in Modes : exited' = (mode = "throw")
    /\ UNCHANGED <<vars, socket, pending, chain, jam, atHost, strays, closing>>

\* The answer of the host to a request that is still pending.
Answer(c) ==
    /\ Quiet /\ socket = "live"
    /\ c \in pending \cap atHost
    /\ \E why \in Outcomes : (healthy => why = "ok") /\ SettleWith({c}, why)
    /\ atHost' = atHost \ {c}
    /\ UNCHANGED <<vars, socket, connecting, chain, jam, strays, closing, exited>>

CancelFramesNone(n) == <<>> \* mutant: finish() without sendCancel()
CancelFrames(n) == [i \in 1..n |-> "cancel"]

GiveUpOn(C) ==
    /\ SettleWith(C, "other")
    /\ Enqueue([i \in DOMAIN chain |-> IF chain[i] \in C THEN "stray" ELSE chain[i]],
               IF socket = "live" THEN CancelFrames(Cardinality(C)) ELSE <<>>,
               atHost \ C, strays + Cardinality(C \cap atHost))

\* The deadline or an abort: the cancel frame goes behind the request.
GiveUp(c) ==
    /\ Quiet /\ ~healthy /\ c \in pending
    /\ UNCHANGED <<vars, socket, connecting, closing, exited>>
    /\ GiveUpOn({c})

\* What the call has settled with reaches the breaker.
Settle(c) ==
    /\ ~exited
    /\ \/ outcome[c] = "ok" /\ Succeed(c)
       \/ outcome[c] = "transport" /\ FailTransport(c)
       \/ outcome[c] = "other" /\ FailOtherwise(c)
    /\ outcome' = [outcome EXCEPT ![c] = "none"]
    /\ UNCHANGED <<socket, connecting, pending, chain, jam, atHost, strays, closing, exited>>
-----------------------------------------------------------------------------
Drain ==
    /\ Quiet /\ jam = "drain" /\ socket = "live"
    /\ Write(chain, atHost, strays)
    /\ UNCHANGED <<vars, socket, connecting, pending, outcome, closing, exited>>

\* An error event also rejects the write that waits; those behind it find the
\* socket destroyed.
ConnectionError ==
    /\ Quiet /\ ~healthy /\ socket = "live"
    /\ socket' = "destroyed"
    /\ FailAllPending
    /\ jam' = IF jam = "drain" THEN "none" ELSE jam
    /\ chain' = <<>>
    /\ UNCHANGED <<vars, connecting, closing, exited>>

PeerCloses ==
    /\ Quiet /\ ~healthy /\ socket = "live" /\ jam # "drain"
    /\ socket' = "none"
    /\ FailAllPending
    /\ UNCHANGED <<vars, connecting, chain, jam, closing, exited>>

\* A frame that is too large or does not parse.
BadFrame ==
    /\ Quiet /\ ~healthy /\ socket = "live"
    /\ socket' = "destroyed"
    /\ FailAllPending
    /\ LeaveWaiting
    /\ UNCHANGED <<vars, connecting, closing, exited>>

\* The idle timeout of the socket.
Reap ==
    /\ Quiet /\ socket = "live" /\ pending = {}
    /\ socket' = "destroyed"
    /\ LeaveWaiting
    /\ atHost' = {} /\ strays' = 0
    /\ UNCHANGED <<vars, connecting, pending, outcome, closing, exited>>

CloseEvent ==
    /\ Quiet /\ socket = "destroyed"
    /\ socket' = "none"
    /\ FailAllPending
    /\ UNCHANGED <<vars, connecting, chain, jam, closing, exited>>

\* close(): cancelAll, which does not know the calls that wait for a connection,
\* then the write chain, then end().
CloseClient ==
    /\ Quiet /\ ~healthy /\ closing = "no"
    /\ closing' = "closing"
    /\ UNCHANGED <<vars, socket, connecting, exited>>
    /\ GiveUpOn(pending)

CloseSocket ==
    /\ Quiet /\ closing = "closing" /\ jam = "none"
    /\ closing' = "closed"
    /\ socket' = IF socket = "live" THEN "destroyed" ELSE socket
    /\ atHost' = {} /\ strays' = 0
    /\ UNCHANGED <<vars, connecting, pending, outcome, chain, jam, exited>>

CooldownTick == Quiet /\ Tick /\ UNCHANGED bridge

\* From here on the host answers, the connection holds and nobody gives up.
Mend ==
    /\ Quiet /\ jam = "none" /\ socket # "destroyed" /\ closing = "no" /\ pending \subseteq atHost
    /\ Heal
    /\ UNCHANGED bridge

BridgeNext ==
    \/ \E c \in Calls :
          \/ CallAsProbe(c) \/ CallLetIn(c) \/ CallRefused(c)
          \/ Answer(c) \/ GiveUp(c) \/ Settle(c)
    \/ Connected \/ ConnectFails
    \/ Drain \/ ConnectionError \/ PeerCloses \/ BadFrame \/ Reap \/ CloseEvent
    \/ CloseClient \/ CloseSocket
    \/ CooldownTick \/ Mend

BridgeSpec == BridgeInit /\ [][BridgeNext]_allVars

\* Timers run (connect timeout, deadline, cooldown), events are delivered, and
\* there is always somebody who calls again.  An event has to wait while promise
\* reactions run, so weak fairness would not do for it; the loop comes back to
\* it each time.  Nothing makes a host read or answer.
BridgeFairSpec ==
    /\ BridgeSpec
    /\ SF_allVars(CooldownTick)
    /\ SF_allVars(Connected \/ ConnectFails)
    /\ SF_allVars(CloseEvent)
    /\ \A c \in Calls :
          /\ SF_allVars(Answer(c) \/ GiveUp(c))
          /\ WF_allVars(Settle(c))
          /\ WF_allVars(CallAsProbe(c))
-----------------------------------------------------------------------------
\* Types, and how the parts hang together: only calls in flight are pending, a
\* settled call no longer is, and frames are queued only behind one that waits.
BridgeTypeOK ==
    /\ BreakerTypeOK
    /\ socket \in {"none", "live", "destroyed"}
    /\ jam \in {"none", "drain", "stuck"}
    /\ closing \in {"no", "closing", "closed"}
    /\ {connecting, exited} \subseteq BOOLEAN
    /\ outcome \in [Calls -> Outcomes \cup {"none"}]
    /\ pending \subseteq InFlight /\ atHost \subseteq pending
    /\ \A c \in pending : outcome[c] = "none"
    /\ ToSet(chain) \subseteq pending \cup {"stray", "cancel"}
    /\ jam # "drain" => chain = <<>>
    /\ strays \in Nat

\* A request the client has given up, written or still in the queue, is always
\* followed by its cancel on the same connection: no command is left to run in
\* Mastercam for a caller who was told that it timed out (sendCancel, cancelAll).
GivenUpIsCancelled ==
    socket = "live" =>
        /\ strays + Count("stray", chain) <= Count("cancel", chain)
        /\ \A i \in DOMAIN chain :
              LET behind == SubSeq(chain, i, Len(chain))
              IN  Count("stray", behind) <= Count("cancel", behind)

\* Every call settles while the process lives, whatever the host and the
\* connection do, also behind a write that waits for ever.
CallsSettle ==
    \A c \in Calls : c \in InFlight ~> (c \notin InFlight \/ exited)

\* A call that found no Mastercam can be repeated: src/src/errors.ts:47 answers
\* BACKEND_UNAVAILABLE with "Check that Mastercam is running with the MCP
\* NET-Hook loaded, then retry."
ServerOutlivesFailedConnect == ~exited
=============================================================================
