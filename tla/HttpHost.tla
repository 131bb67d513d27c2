------------------------------ MODULE HttpHost ------------------------------
(***************************************************************************)
(* The HTTP host (src/src/http.ts, src/src/http-security.ts) with the tool *)
(* dispatch of src/src/mcp/create-server.ts over the live backend: access, *)
(* a bounded number of active requests, the body, the deadline, the call,  *)
(* and the response with its backpressure.                                 *)
(*                                                                         *)
(* Each request is one tool call that goes through to the backend.  A      *)
(* header counts as what the checks take it for.  /health, which keeps no  *)
(* state, and shutdown are left out.                                       *)
(***************************************************************************)
EXTENDS LiveBackend

CONSTANTS
    MaxConcurrency,
    Remote, HasToken   \* the server's configuration

ASSUME HttpAssumption == MaxConcurrency \in Nat /\ (Remote => HasToken)

VARIABLES
    stage,           \* where each request is in handleRequest
    activeRequests,
    gone             \* requests whose client closed the connection

http == <<stage, activeRequests, gone>>
all == <<backend, http>>

Held == {r \in Requests : stage[r] \in {"body", "call", "write", "drain"}}

Headers == [host : {"local", "foreign"}, peer : {"loopback", "foreign"},
            origin : {"none", "allowed", "foreign"}, token : BOOLEAN, path : {"/mcp", "other"}]

Access(h) ==
    IF ~Remote /\ (h.host # "local" \/ h.peer # "loopback") THEN 403
    ELSE IF h.origin = "foreign" THEN 403
    ELSE IF (HasToken /\ ~h.token) \/ (~HasToken /\ Remote) THEN 401
    ELSE 200

Verdict(h) == IF h.path # "/mcp" THEN 404 ELSE Access(h)

HttpInit ==
    /\ LiveInit
    /\ stage = [r \in Requests |-> "none"]
    /\ activeRequests = 0
    /\ gone = {}

\* handleRequest up to the slot.
Refuse(r) ==
    /\ stage[r] = "none"
    /\ (\E h \in Headers : Verdict(h) # 200) \/ activeRequests >= MaxConcurrency
    /\ stage' = [stage EXCEPT ![r] = "done"]
    /\ UNCHANGED <<backend, activeRequests, gone>>

Arrive(r) ==
    /\ stage[r] = "none"
    /\ \E h \in Headers : Verdict(h) = 200
    /\ activeRequests < MaxConcurrency
    /\ stage' = [stage EXCEPT ![r] = "body"]
    /\ activeRequests' = activeRequests + 1
    /\ UNCHANGED <<backend, gone>>

\* The `finally` of handleRequest.
KeepSlot == activeRequests \* mutant: the slot is given back only after a response
FreeSlot == activeRequests - 1

End(r) ==
    /\ stage' = [stage EXCEPT ![r] = "done"]
    /\ activeRequests' = FreeSlot
    /\ gone' = gone \ {r}
    /\ Forget(r)

\* readBoundedBody: too large (413), broken off, or complete.
BodyFails(r) ==
    /\ stage[r] = "body"
    /\ End(r)

BodyRead(r) ==
    /\ stage[r] = "body" /\ r \notin gone
    /\ stage' = [stage EXCEPT ![r] = "call"]
    /\ Schedule(r)
    /\ UNCHANGED <<activeRequests, gone>>

\* The abort controller of the tool call: its deadline, or the client has gone.
DeadlinePasses(r) ==
    /\ stage[r] = "call"
    /\ Abort(r)
    /\ UNCHANGED http

ClientGoes(r) ==
    /\ r \in Held \ gone
    /\ gone' = gone \cup {r}
    /\ \/ Abort(r)
       \/ ~CanAbort(r) /\ UNCHANGED backend
    /\ UNCHANGED <<stage, activeRequests>>

\* The response, an error when the signal was aborted whatever the backend says;
\* nobody to send it to when the client has gone.
Respond(r) ==
    /\ stage[r] = "call" /\ call[r] = "answered" /\ r \notin gone
    /\ stage' = [stage EXCEPT ![r] = "write"]
    /\ UNCHANGED <<backend, activeRequests, gone>>

Abandon(r) ==
    /\ r \in gone
    /\ (stage[r] = "call" /\ call[r] = "answered") \/ stage[r] = "write"
    /\ End(r)

\* writeWebResponse: written, or res.write() asks to wait for drain, which a
\* response that is closed meanwhile does not emit.
WriteEnds(r) ==
    /\ stage[r] = "write" /\ r \notin gone
    /\ End(r)

WriteWaits(r) ==
    /\ stage[r] = "write" /\ r \notin gone
    /\ stage' = [stage EXCEPT ![r] = "drain"]
    /\ UNCHANGED <<backend, activeRequests, gone>>

Drained(r) ==
    /\ stage[r] = "drain" /\ r \notin gone
    /\ stage' = [stage EXCEPT ![r] = "write"]
    /\ UNCHANGED <<backend, activeRequests, gone>>

HandleStep(r) == BodyFails(r) \/ BodyRead(r) \/ Respond(r) \/ Abandon(r) \/ WriteEnds(r)
RunStep(r) == (RunRead(r) \/ RunMutation(r)) /\ UNCHANGED http

HttpNext ==
    \/ \E r \in Requests :
          \/ Refuse(r) \/ Arrive(r)
          \/ HandleStep(r) \/ WriteWaits(r) \/ Drained(r)
          \/ DeadlinePasses(r) \/ ClientGoes(r)
          \/ RunStep(r)
          \/ MutationStep(r) /\ UNCHANGED http
    \/ FlightStep /\ UNCHANGED http
    \/ ClockTick /\ UNCHANGED http

HttpSpec == HttpInit /\ [][HttpNext]_all

\* server.requestTimeout ends a body, the timer of the tool call fires, lanes do
\* not stall (LanesNeverStall), promise reactions run.  Nothing is asked of the
\* bridge, which may be silent; no client has to read what it is sent, and
\* res.write() may ask to wait again and again.
HttpFairSpec ==
    /\ HttpSpec
    /\ \A r \in Requests :
          /\ WF_all(HandleStep(r))
          /\ WF_all(DeadlinePasses(r))
          /\ SF_all(RunStep(r))
-----------------------------------------------------------------------------
\* Types; and activeRequests counts the requests that are being handled.
HttpTypeOK ==
    /\ LiveTypeOK
    /\ stage \in [Requests -> {"none", "body", "call", "write", "drain", "done"}]
    /\ gone \subseteq Requests
    /\ activeRequests = Cardinality(Held)
    /\ activeRequests <= MaxConcurrency

\* Every request gives its slot back, whatever its client, the scheduler and the
\* bridge do, and be the bridge silent; only a response that waits for drain can
\* keep it for ever.
SlotComesBack ==
    \A r \in Requests : r \in Held ~> (r \notin Held \/ stage[r] = "drain")
=============================================================================
