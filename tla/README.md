# Verification of mastercam-mcp

TLA+ models of mastercam-mcp, the TLC runs that check them on small instances, and TLAPS proofs of what
matters most for every size. The program is an MCP server (TypeScript, `src/src`) that lets a client inspect a
Mastercam part and change operation parameters under an operator's approval, and a native add-in (C#,
`src/native`) that carries out requests inside Mastercam. Paths below are relative to `src/`.

Every definition of a model is translated from the code. `PROJECT.json` names the lines of each definition
(`map`), the runs, the hazards they are aimed at, and the mutants that show each property can be broken by a
plausible bug.

## 1. The system

```
client --MCP--> create-server -----> backend (fixture)        audit-log (files)
                 gate, deadline  \     mutations -> approval ledger -> recordCritical
                                  \    scheduler: read lane, mutation lane, document locks
                                   \-> live-backend: cache, shared reads
                                         retry -> circuit breaker -> bridge client -> framing
                                                                        | named pipe
                             Mastercam <-- adapter <-- router <-- pipe listener (add-in)
```

| component | state it keeps | operations | talks to | what is hard | what makes it correct |
|---|---|---|---|---|---|
| audit log `src/audit/audit-log.ts` | chain tip, write buffer, promise `tail`, running file hash, startup error; the files | `record`, `recordCritical`, `flush`, write jobs, rotation, recovery at startup, `getRecentEntries` | called by the backend, which awaits it | a job writes the lines of several callers; rotation is six awaits; crash in the middle; disk errors; a reader beside a rotation | what was acknowledged is stored; what was not damaged verifies; only the oldest segment is dropped; a corrupt log is not written to |
| approval ledger `src/safety/approval.ts` | four maps with expiry and a capacity | create, peek, consume, commit, restore | the backend | expiry, trimming, retries | a token is used once, a key keeps its mutation |
| fixture backend `src/backend.ts` | operations, revision | preview, apply, rollback, verify, reads | ledger, audit log, scheduler | the change is visible while its audit record is awaited and is undone when that fails | the document changes only as approved |
| MCP server `src/mcp/create-server.ts` | pending previews, minted states | approval gate, dispatch, deadline, abort | client, backend | an answer that comes late, twice or for another preview; a result after the deadline | no change without the operator's yes |
| scheduler `src/scheduler/*` | two queues, counters, drain flags, document locks | `scheduleRead`, `scheduleMutation` | backends | the drain loop ends while a task arrives; microtask between schedule and start | mutations one after another, bounded queues, no lane asleep |
| circuit breaker `src/transport/circuit-breaker.ts` | state, failure count, probe flag, time of opening | `execute` | around each bridge call | calls return in a later state than they were let in | one probe, count agrees with state, recovery |
| live backend `src/live-backend.ts` | cache, shared flights | reads, mutations | retry, breaker, bridge client | a read that spans a mutation fills the cache; the last waiter aborts a shared read | a read is staler than the document by no more than a deadline and a time to live; who leaves harms nobody who stays |
| bridge client `src/transport/bridge-client.ts`, `reconnect.ts` | socket, pending calls, frame reader, write chain | connect, send, cancel, close, retry | named pipe | close while connecting; a failed connect; a drain that never comes; requests written after their caller gave up | each call settles; what is given up is cancelled in Mastercam |
| framing `src/transport/framing.ts`, `native/MastercamMcp.Protocol/Framing.cs` | bytes of a partial frame | push, read | both ends of the pipe | frames split anywhere, limits | the frames that went in come out |
| native router `native/MastercamMcp.Core/Router.cs` and listener `native/MastercamMcp.Addin.2027/EntryPoint.cs` | queue, in-flight map, idempotency map | `Handle`, `Cancel`, `CancelAll`, worker, replay, pruning | bridge client, adapter | three kinds of threads; retries; a client that leaves; cancel against completion | a mutation runs once per key; cancel reaches its command; nothing outlives its client |
| HTTP host `src/http.ts` | active requests, sessions | requests, shutdown | MCP server | stalled replies and bodies | the limit holds and slots come back |
| NC review `src/nc-program.ts` | modal state while it reads a program | `analyzeNcProgram` | risk and cycle time analysis | units, positioning, offsets that change from block to block | a program called free of risk takes the machine nowhere it must not be |
| program diff `src/shop.ts`, post regression `src/manufacturing-intelligence.ts` | none | `sequenceDiff`, `compareNc`, `analyzePostRegression` | | ends of the diff; modes and events | the changes are those between the programs |
| planning `src/job-intelligence.ts`, `shop.ts`, `manufacturing-intelligence.ts` | a work queue | tool recommendation, turning plan, machine check, preflight, regeneration impact | | values that were not given, rounding, cycles | what is called ready keeps the limits |
| acceptance harness `src/acceptance/harness.ts` | results, what was applied | thirteen tests, conclusion | any backend | a test that fails between apply and rollback; an adapter that lies | ready for writes means the part was restored |
| tool manifest, schemas | none | tables | | | |

Components that are not modelled, or in part, are listed with their reason in `PROJECT.json` (`components`)
and in section 9.

## 2. The modules

| module | models | used by |
|---|---|---|
| `AuditLog` | the audit log: lines, jobs, rotation, faults, crash and recovery | runs `audit_log`, `audit_rotation` |
| `AuditHistory` | `AuditLog` and a call of `getRecentEntries` beside it | run `audit_log` |
| `CriticalAudit` | abstract: what `recordCritical` promises its callers | implemented by `AuditLog`; part of `MutationFlow` |
| `PartDocument`, `ApprovalLedger` | the operations; the ledger's four maps | `MutationFlow` |
| `MutationFlow` | approval gate, mutation lane, apply, rollback, verify, on the ledger and on `CriticalAudit` | three runs |
| `ApprovedChange` | abstract: which changes of the document an operator has agreed to | implemented by `MutationFlow` |
| `Scheduler` | both lanes and the document locks | run `scheduler` |
| `CircuitBreaker` | the breaker under overlapping calls | extended by `BridgeClient` |
| `BridgeClient` | composes the breaker with the connection, the calls, the write chain and `close()` | runs `bridge_client`, `bridge_connect` |
| `LiveBackend` | cache, shared read, retries (`reconnect.ts`), abort, mutations | extended by `HttpHost` |
| `HttpHost` | composes the live backend with the tool call's deadline and the HTTP host | run `http_host` |
| `RequestRouter` | the native router and the pipe listener that feeds it | run `request_router` |
| `NcAnalysis` | the NC review beside a controller that executes the program | run `analyses` |
| `ProgramDiff` | Myers diff, change list, semantic summary, regression risk | run `analyses` |
| `Framing` | both frame decoders on one stream | run `analyses` |
| `Acceptance` | the harness against an adapter that may fail or lie | run `analyses` |
| `JobPlanning` | the planning tools | run `analyses` |
| `MCMutationFlow`, `MCScheduler`, `MCRequestRouter`, `MCAnalyses` | constants for TLC; `MCAnalyses` lets one of its five modules move | |
| `AuditLogProofs`, `AuditStoreProofs`, `MutationFlowProofs`, `SchedulerProofs`, `BridgeClientProofs`, `HttpHostProofs`, `RequestRouterProofs`, `AnalysesProofs` | theorems and proofs | |

State and actions keep the source's names where TLA+ allows. An action is what the code does between two
points where something else can run: from one `await` to the next in TypeScript, and in the router whatever
one thread does to shared state at once. A trailing refresh, normalisation or save belongs to its action.

**AuditLog.** `chain`, `writeBuffer`, `startupError`, `tail` are the class's fields; `hashed` and `digested`
are `currentFileHash`; `job` is the write job at its await (append, then prune, shift, seal and anchor of a
rotation); `disk` is the set of files. `Record` makes a line and queues a job; `TakeBuffer` (or `RunEmpty`,
when an earlier job has taken it) starts one; `AppendPayload`, `PruneOldest`, `ShiftSegment`, `SealSegment`
and `AppendAnchor` go from await to await; any of these may fail (`FileOperationFails`, `MaxFaults`), an
append after any part of its payload; `CrashAndRestart` loses the process and recovers from the files as the
constructor does. A line stands for its hash (hashes do not collide), content is dropped.

**MutationFlow.** `previews`, `applied`, `rollbacks`, `idempotency` are the ledger's maps, `pending` and
`minted` the gate's; `lane` is the mutation lane with its head running, up to its audit record (`queued`) or
waiting for it (`audit`). The audit log is there as `CriticalAudit`, the contract that `AuditLog` is checked
to keep: the mutation flow is thus checked against every behaviour of the log that its callers can see,
without its files. The scheduler appears as a queue because every mutation has the same priority and document
key.

**Scheduler.** `status` joins what the caller of `schedule` sees with how far `run` is; the queues are sets of
waiters with the total order that `sortQueue` sorts by. `DrainReads` is the microtask; `EndMutation` and
`ContinueDrain` are the two continuations of the mutation loop.

**CircuitBreaker.** `normal` and `probes` are the calls under way, by the path they came in on.

**BridgeClient.** `socket`, `connecting`, `pending` and `chain` are `socket`, `connecting`, the pending map
and what waits in `writeChain`; `jam` tells whether the write at its head waits for a drain event, or for one
that will never come. A call comes in through one of the breaker's three doors (`CallAsProbe`, `CallLetIn`,
`CallRefused`), is registered when the connection is there, and leaves with an `outcome` that the breaker sees
in `Settle`. The events of the socket are actions: `Connected`, `ConnectFails`, `Drain`, `Answer`,
`ConnectionError`, `PeerCloses`, `BadFrame` (a frame that cannot be decoded destroys the socket), `Reap` (the
idle timer), `CloseEvent`. `CloseClient` and `CloseSocket` are `close()` before and after its await. Promise
reactions run before the next event, so every event waits for `Quiet`.

**LiveBackend.** `call` and `answer` follow each request through `call()`; `flight` is the entry of
`inFlightReads`, `cache` that of `readCache`. `RunRead` finds the cache, the flight or neither; `ReadReturns`
and `ReadFails` end an attempt, `RetryLater` and `Retry` are the two halves of `withRetry`'s sleep,
`TimersDone` ends it at the deadline; `Abort` is the signal's listener. `BridgeEvent` is what a push event
does. Mastercam itself is external: `HostReads` is the moment at which a read sees the document and `Apply`
that of a mutation, both between the request and its answer.

**HttpHost.** `stage` follows `handleRequest` from the checks (`Refuse`, `Arrive`) through the body, the tool
call and the response; `activeRequests` is the counter. `DeadlinePasses` and `ClientGoes` abort the call,
`Respond` is the continuation in `create-server.ts`.

**NcAnalysis.** `nc` holds the local variables of `analyzeNcProgram`; `ReviewLine` is one iteration of its
loop with `Modal` and `Moved` as its two halves; `Status` is the status it would return if the program ended
here. `at` is where the machine is, moved by `Execute`, the controller. `ProgramDiff` and `JobPlanning` are
operators over one call's input; the regeneration impact keeps its queue as state, the diff is `trace`
(forward rounds) and `sequenceDiff` (walk back). In `Framing` a byte is its place in the stream, which is all
that tells whether a decoder lost, doubled or moved one; `stream` says where each frame ends, so that a header
tells the length it was written with. `reader` is `FrameReader` byte by byte and `pool` the C# buffer with its
`start`, `end` and rented array; `RentSize` is what `ArrayPool` gives for a size. In `Acceptance` each test is
an action that appends its result.

**RequestRouter.** `stage` tells how far each request is: handled, queued, taken by the worker, in the
adapter, completed, answered. Admission (in flight and under its key) and queueing are two actions, as the
worker and the pool threads run between them. `Respond` is the continuation of `AwaitCompletion` on a pool
thread, `Replay` that of a retry. The listener serves one connection at a time and awaits its responses before
it listens again.

## 3. The runs

| run | spec | what it shows | bounds | states |
|---|---|---|---|---|
| `audit_log` | `HistorySpec` | acknowledged entries are in the files or were dropped with the oldest segment (unless a crash cut a file just before its last newline); an undamaged log verifies; rotation drops nothing but the oldest; a corrupt log is frozen; each caller is told; the log implements `CriticalAudit`; a reader beside rotations misses no acknowledged entry and raises no false alarm | 5 lines, 2 rotated files of 2 lines, 1 failing operation, 1 crash | 680,070 |
| `audit_rotation` | `Spec` | **violated**: rotation preserves the chain (finding 1) | no fault, no crash | |
| `mutation_flow` | `FairSpec` | the document changes only as `ApprovedChange` allows; a change that `verify_change` has reported is never undone because its own audit record failed; no idempotency key changes its meaning while its record lives; each mutation settles | 2 operations, 2 tokens, 1 key, ledger of 1, clock of 1 step, a verifier beside the lane | 719,112 |
| `rollback_approval` | `Spec` | **violated**: every mutation was approved by the operator (finding 2) | ledger of 2, no key | |
| `verify_revision` | `Spec` | **violated**: `verify_change` names the revision it read (finding 3) | ledger of 2, no key | |
| `scheduler` | `FairSpec` | mutations serialized across documents; counters are those of running tasks; no lane stalls; every task settles | 3 reads on 1 slot, 3 mutations on 2 documents, 2 priorities, queues of 2 | 68,732 |
| `request_router` | `FairSpec` | bounds of queue and idempotency map; a cancel reaches its command; no mutation runs twice while its record lives; nothing outlives or begins after its client; each request is answered | 4 of 7 requests are sent, queue of 1, map of 3 | 553,679 |
| `bridge_client` | `BridgeFairSpec` | every call settles, also behind a write that waits for ever; a request that was given up is always followed by its cancel; one probe at a time, the failure count tells the state, recovery once the transport is healthy | 3 calls at a time, threshold 2, cooldown 1, 2 successes, 3 queued frames, both modes of unhandled rejections | 57,828 |
| `bridge_connect` | `BridgeSpec` | **violated**: the server outlives a failed connect (finding 4) | 2 calls | |
| `http_host` | `HttpFairSpec` | `activeRequests` counts the requests being handled; no read is older than `Deadline + Ttl`; a caller that leaves fails only those who join what it abandoned; each slot comes back unless its response waits for a drain | 2 reads of one key, 1 mutation, 2 slots, 2 attempts, deadline 2, ttl 1 | 293,508 |
| `analyses` | `Spec` | six algorithms against their definitions, below | below | 870,956 |
| `arc_travel` | `Spec` | **violated**: the chords of an arc are conservative (finding 5) | as `analyses` | |

**The run `analyses`.**
- `NcReviewIsSound`: a program whose travel was verified without findings and which harms (leaves the travel,
  sweeps the fixture, exceeds the feed or the spindle) is BLOCKED, and one called free of risk does no harm and
  has no move of unknown length; for every program of up to 3 lines over two axes, in both units and
  positioning modes, with two work offsets known or not. The machine runs the arc itself: corners of the chords
  are points of it, and between them it leaves the chords by up to `ArcTolerance`, at any point of `Bends`. The
  inside of an arc that leaves the travel must BLOCK only if it does so by more than the tolerance (finding 5).
- `ProgramDiffIsTrue`: the edit script rebuilds both programs, is as short as any common subsequence
  allows, the change list accounts for each edit, a kind of event is named exactly when its sequence differs,
  and only equal programs have no risk; all pairs of programs of up to 3 of 4 lines.
- `DecodersAgree`: both decoders hand out exactly the frames sent before a frame that is too long, whatever
  the chunks; up to 3 frames of any length up to one beyond the limit.
- `HarnessIsHonest`: a conclusion that Mastercam is ready for writes means that both the test value and the
  feed that `list_operations` gave were seen by `verify_change`, the latter after the former (an adapter that
  gives a wrong feed gets that one verified, not the old one); an operation left at the test value is never
  passed; a live pass always concludes ready.
- `ImpactIsComplete`: the impact is the transitive closure, in every graph over 3 operations and an unlisted
  one.
- `PlansAreWithinLimits`: recommended tools pass all seven checks that reject a tool (material, operation,
  internal diameter, cutting depth, flutes, smallest feature, and the machine's diameter and length) and none
  that does is missing; rough passes end at the allowance in steps no deeper than allowed; a clean machine check
  bounds the speed, and the feed unless it is one per revolution beside a `spindleSpeed` without a unit; a
  preflight that is ready has no operation that is dirty, incomplete or with an ambiguous tool. Tools have up to
  two known sizes, beside one of which nothing is known.

**Why the bounds are enough to be interesting.** Five lines of two per file rotate with entries on both sides,
so that a segment is shifted and one is dropped, with one fault or crash at any of the steps. Two tokens on
two operations give a preview that is made while another change is visible and then stale when that is undone,
a rollback beside an apply, and two operations of the same value, where a revision alone would not tell them
apart; a ledger of one trims the record of the other token, also while its mutation runs, and a clock of one
step lets a record expire before or after the retry under its key. Three reads on one slot with a queue of two
reach a rejection; the mutation lane's rejection, with three mutations, is not reached and is covered by the
theorem on its bound. Three bridge calls overlap as a probe, a late call of an earlier state and one that
waits for the connection, and a chain of three frames holds a request and two cancels behind a jam. Two reads
share a flight, or one joins what the other abandons, across a mutation; two attempts and a deadline of two
let the retry end by either. Axis words reach inside, at and beyond each interval, and three lines hold a
change of mode, a move under it and a move back. In the router four distinct keys overflow a map of three with
one command in the adapter, one in the queue and one completed, which is the least room the router needs
(`MaxIdempotencyEntries >= MaxQueuedCommands + 2`; the code has 1024 and 128); a retry, a clash and a read
under the id of the first command come in any order among them. `CHECK_DEADLOCK FALSE` stands where the bounds
exhaust the inputs (ids, tokens, tasks, requests) and the system rests.

**Fairness.** Liveness assumes only that the runtime goes on: promise continuations and microtasks that are
due run (`JobStep`, `LaneStep`, `DrainReads`, `EndMutation`, `ContinueDrain`), a file operation ends well or
badly, a task that was started ends, a bridge call returns (it has a timeout), threads are scheduled, and the
adapter returns from each call. Nothing is assumed of clients: they need not call, answer, cancel or connect.
Crashes and faults are never fair. `RecoversWhenHealthy` also assumes that calls go on coming (`CallAsProbe`),
without which a breaker cannot learn that the transport is healthy. In `bridge_client` an event (a timer,
`Connected`, `CloseEvent`) is strongly fair, as it is not enabled while promise reactions run but the event
loop comes back to it; nothing makes a host read or answer, the deadline of a call does the rest. In
`http_host` the continuations (`HandleStep`), the deadline's timer and the start of scheduled work (`RunStep`,
which `LanesNeverStall` justifies) are fair; nothing is asked of the bridge or of a client, and a response may
wait for drain events for ever. The scheduler has no aging; `EveryTaskSettles` holds since the tasks of a
behaviour are finitely many, and says nothing of starvation under an endless load. Likewise for
`EveryRequestAnswered`.

## 4. Findings

1. **An entry recorded during a rotation breaks the chain** (`audit_rotation`, `src/audit/audit-log.ts:392`).
   `test/safety.test.ts:154` and `SECURITY.md:11` say that rotation preserves a chain that can be verified.
   `record()` advances `chain` at once; while `rotateIfNeeded` awaits `rm` and `rename`, a recorded entry is
   chained, then the rotation line is chained to it, but the rotation line is written first. The next process
   finds `AUDIT_CHAIN_CORRUPT` and refuses every record. `UndamagedLogVerifies` holds for every log without
   such an entry, a failed file operation, a torn append or a crash within a rotation.
2. **`rollback_change` does not ask the operator** (`rollback_approval`, `src/mcp/create-server.ts:321`).
   `docs/CAPABILITIES.md:50` and the tool manifest say that it requires approval; the gate stands before
   `apply_operation_parameter_preview` alone.
3. **`verify_change` reports a revision that it did not verify** (`verify_revision`, `src/backend.ts:326`). It
   reads the operation, awaits its audit record, and then returns `this.revision`, which a mutation may have
   changed. `src/schemas/mutations.ts:57` says of that revision that "verification fails if the document
   changed"; the change during the await passes, under a revision that was not compared.
4. **A failed connection ends the server** (`bridge_connect`, `src/transport/bridge-client.ts:204`).
   `errors.ts:47` tells the client to check that Mastercam runs, then to retry. `this.connecting.finally(...)`
   returns a second promise, which is rejected with the first and which nobody handles; there is no
   `unhandledRejection` listener, and Node 22 ends the process by default. The run `bridge_client` includes
   the other mode (`warn`), in which the retry works.
5. **An arc may leave the travel without being blocked** (`arc_travel`, `src/job-intelligence.ts:450`).
   `docs/JOB-INTELLIGENCE.md:59` calls chording a conservative approximation, and
   `docs/FULL-AUTOMATION-READINESS.md:24` says that chorded arcs feed the travel check and that the tolerance is
   in the safety margin. `buildArc` inscribes its polygon, so the arc bulges beyond the corners by up to
   `arcChordError`; `nc-program.ts:423` adds that to the margin of fixture and stock alone, and
   `machine_overtravel` tests the corners without a margin.

Further behaviour met while modelling, which no document of the repository promises to be otherwise:
- `waitForFlight` (`src/live-backend.ts:217`): a read aborted while queued begins a flight and leaves it in
  the same step; the flight's promise then has no handler, with the same consequence as finding 4.
  `LiveBackend` goes on as under `--unhandled-rejections=warn`.
- A caller that joins a flight which its last waiter has just abandoned is answered CANCELLED (`late` in
  `LiveBackend`).
- A read in flight across a mutation fills the cache after the mutation cleared it; a mutation whose caller
  left is applied without clearing the cache at all. Both are why `StaleReadsExpire` allows a window of
  `Deadline + Ttl`.
- `res.write()` waits for a drain event that never comes once the client has gone (`src/http.ts:229`): the
  slot is lost. `SlotComesBack` names it as its exception.
- A change of the work offset (`src/nc-program.ts:368`) keeps the program's coordinates, while the machine
  keeps its place: an incremental move, or the start of the next one, is then checked at another place.
  `NcReviewIsSound` stops there (`rebased`).
- Units that change within a program and back again are no reason for the regression verdict, and feed and
  spindle values beyond the first 1000 are not compared (`src/shop.ts:344`); `ProgramDiff` has both,
  `ProgramDiffIsTrue` promises no more of them than the code does.
- `FrameReader.push` that throws loses the frames of the same chunk; the C# buffer refuses a legal stream when
  a chunk reaches past a frame of almost maximal size. `DecodersAgree` is stated for what was handed out
  before.
- A `spindleSpeed` without a unit is rpm for the speed limit (`src/shop.ts:589`) and nothing for a feed per
  revolution (`src/shop.ts:536`), which is then turned into mm/min with the older `speed`: 1 mm/rev beside
  `spindleSpeed {value 4000}` and `speed` 100 passes a limit of 500. `schemas/machine.ts:83` requires the unit
  of the tool's callers, so this is the named exception of `PlansAreWithinLimits`.
- A drain event that never comes leaves the write chain stuck (`src/transport/bridge-client.ts:173`). Deadlines
  release the calls behind it (`CallsSettle`), but when the socket goes without an error, as by the idle timer,
  the chain itself stays stuck, for a new socket too; `RecoversWhenHealthy` does not speak of that case.
- A turning plan whose stock does not exceed the profile is only warned about; preflight passes operations
  that name no tool.

## 5. What is proved

TLAPS checks these for all values of the constants that satisfy the modules' named assumptions, which TLC
evaluates on each run: `AuditAssumption`, `BreakerAssumption`, `BridgeAssumption`, `SchedulerAssumption`,
`LedgerAssumption`, `FlowAssumption`, `LiveAssumption`, `HttpAssumption`, `RouterAssumption`,
`AcceptanceAssumption`, `NcAssumption`, `DiffAssumption`, `PlanningAssumption`, `FramingAssumption`. They say
that limits are natural numbers (positive where the code's are), that names which stand for different things
differ, that callers and requests are finite sets (they are the calls of one process), that the router's map
has room for two records more than its queue, that a usable feed is positive
(`src/acceptance/harness.ts:158`), that the lengths of the NC review are integers and the tolerance of its
arcs is positive, that a program line adds a sequence of values to each sort of event, that lengths,
cuts and rates of the planning tools are natural numbers and its shelves lists of tools, its operations a finite
set, and that the array pool rents no less than was asked
for.

| theorem | says |
|---|---|
| `AuditLogProofs!TypeCorrect` | `TypeOK` always holds |
| `AuditLogProofs!CorruptLogFrozen` | the step property `CorruptLogIsFrozen` |
| `AuditLogProofs!AuditImplementsPromise` | `AuditLog` implements `CriticalAudit` (`KeepsItsPromise`) |
| `AuditLogProofs!UndamagedVerifies` | `UndamagedLogVerifies` always holds |
| `AuditStoreProofs!AckedStored` | `AckedIsStored` always holds |
| `AuditStoreProofs!RotationDropsOldest` | the step property `RotationDropsOnlyOldest` |
| `AuditStoreProofs!HistoryIsLog` | `HistorySpec => Spec`: all of the above holds beside a reader |
| `AuditStoreProofs!HistoryComplete`, `HistoryAlarmsAreReal` | `HistoryMissesNothing` and `HistoryAlarmIsReal` |
| `MutationFlowProofs!FlowTypesCorrect` | types and every capacity of ledger, gate and queue (`FlowTypeOK`) |
| `MutationFlowProofs!VerifiedChangesStand` | `VerifiedChangeStands` always holds |
| `MutationFlowProofs!KeysKeepTheirMeaning` | the step property `KeyKeepsItsMeaning` |
| `MutationFlowProofs!FlowChangesAsApproved` | `MutationFlow` implements `ApprovedChange` (`ChangesAsApproved`) |
| `SchedulerProofs!SchedulerTypeCorrect`, `LanesCounted`, `LanesGoOn` | types and bounds; serialized mutations and right counters; no lane asleep |
| `BridgeClientProofs!BreakerTypesCorrect`, `OneProbeCorrect`, `CountTellsStateCorrect` | bounds of the counters, `OneProbe`, `CountTellsState` |
| `BridgeClientProofs!BridgeTypesCorrect`, `GivenUpIsCancelledCorrect` | `BridgeTypeOK` and `GivenUpIsCancelled` |
| `BridgeClientProofs!BridgeImplementsBreaker` | each step of the client is one of the breaker or a stutter of it |
| `HttpHostProofs!HttpTypesCorrect`, `StaleReadsExpireCorrect`, `LeaversDoNoHarmCorrect` | each safety property of the run `http_host` |
| `RequestRouterProofs!RouterTypeCorrect`, `CancelsReach`, `KeysRunOnce`, `ClientsEndTheirWork`, `NothingBegins` | each safety property of the run `request_router` |
| `AnalysesProofs!NcReviewAlwaysSound` | `NcReviewIsSound` always holds, for programs of any length and arcs that bulge anywhere by up to the tolerance |
| `AnalysesProofs!ProgramDiffAlwaysTrue` | `ProgramDiffIsTrue` always holds, for programs of any length |
| `AnalysesProofs!HarnessHonest` | `HarnessIsHonest` always holds |
| `AnalysesProofs!ImpactAlwaysComplete` | `ImpactIsComplete` always holds, for every graph |
| `AnalysesProofs!PlansAlwaysWithinLimits` | `PlansAreWithinLimits` always holds, for shelves of any tools; the exception of the feed is part of the property |
| `AnalysesProofs!DecodersAlwaysAgree` | `DecodersAgree` always holds, for any sizes of header, frame, chunk and array |

So every invariant, every step property and both refinements of the passing runs are proved.

**Audit log: what is stored.** `AckedIsStored` is not inductive: an acknowledgement is given on the success of
a job, and one job writes the lines of several callers. `StoreInv` follows a line on its way: a waiting
caller's line is in the buffer, in the payload of the running job or in the files; the job of a caller that
waits is queued or running behind its line (`OwnersOnTheWay`); and a rename never finds its target occupied
(`RenameTargetFree`), so a rotation cannot overwrite a segment, even after one that failed half way. One lemma
per step shows that no line is lost. For `RotationDropsOnlyOldest` the ids grow along the segments and on to
the lines that are still on their way (`IdsOrdered`), and at most one segment is missing, the target of the
next rename or of the one at which a rotation stopped (`OneGap`); a process that starts on files with a gap
finds them corrupt and never prunes.

**Audit log: the chain.** `ChainInv` says that, as long as nothing did damage, the active segment, the payload
and the buffer are one linked chain whose tip is in memory (`MemoryAgrees`), and that each rotated segment is
followed by the next newer one, where during a rotation one position is skipped (`Chained(hole, disk)`). The
steps of a rotation move the hole down until the anchor closes it; an append that was cut exactly between two
lines leaves a shorter chain, which recovery takes up. `damage = {}` is its only premise, and finding 1 is
why a record during a rotation is among the damage.

**Audit log: its callers and its reader.** The refinement of `CriticalAudit` needs that the owners of the
running and the queued jobs are distinct callers that still wait (`OwnersWait`). The reader is complete
because lines only move up, ahead of a reader that goes from the active segment to the oldest, and because
what is appended behind it was not acknowledged when it was called (`PendingIsNew`, `ReaderIsComplete`); its
alarm is real because no job begins between the end of `flush()` and the verification (`FlushedIsIdle`).

**Mutation flow.** `FlowInv` has ten parts. The maps stay in their capacity (`MapsCapped`: `trimOldest` is
proved to remove just as many records as are too many, of any finite map). Every record is of an offer that
was made (`OffersKnown`, `RecordsOffered`), and tells how far the token's mutation has come (`RecordStages`,
`LaneStages`); what the running mutation took out of the ledger is in no map until it is put back
(`ReceiptHeld`). `KeysApart` says that mutations at work under one key are for one token, `AuditTells` and
`VerifyStands` order the audit outcomes of a mutation and of the verifications that came after it. Each step
is then a step of `ApprovedChange` or leaves the document and the approvals alone (`ApprovedStep`).

**Scheduler.** `LanesInv` has an invariant of the reads and one of the mutations. The latter says that the
lane is at rest or there is exactly one loop, awaiting one task that runs or is over (`LaneRests`,
`LoopAwaits`), which is why two drains never run and a waiter never stays behind an ended loop. The lanes
share only `status` and `sequence`, and a lemma for each shows that the other lane's steps do not disturb it.

**Circuit breaker and bridge client.** The breaker's invariant ties the probe flag to the set of probes under
way and the failure count to the state; the interesting step is the return of a call that was let in before
the breaker opened. `GivenUpIsCancelled` compares two numbers in every tail of the write chain. The invariant
counts for each request its one place (with the host, or one frame of the chain) and says that strays, at the
host and in the chain, are as many as the cancels still to be written, with no cancel in front of its stray;
lemmas on `Count` say what appending, writing the head and turning a request into a stray do to the numbers.

**HTTP host and live backend.** `LiveInv` is kept by every action of the backend, whoever takes it: what a
flight or the cache will answer is no older than its attempt's deadline and its time to live allow, a mutation
reaches Mastercam at most once, and whoever waits for a cancelled flight joined it after the cancel. `HostInv`
adds that the slots in use are the requests in a stage between arrival and response.

**Router.** `RouterInv` has a part for each map. `FlightInv`: `inFlight` is exactly the commands that are
admitted and not answered, with distinct ids; so removing by id takes out the right command, and `CancelAll`
reaches all. `RecordsInv`: a keyed command has its record or has completed and lost it to pruning.
`ConnectionInv`: while the listener closes, what is queued is cancelled; `NothingBegins` follows from the
token check. The bound of the map (`BoundInv`) is a counting argument: between two frames a record that cannot
be pruned belongs to a queued command or to the one the worker is at (`FewUncompleted`), so when the map is
full pruning finds one to drop (`PruningMakesRoom`).

**NC review.** `NcInv` says that, as long as nothing was reported and the offset in force was kept, the
machine is where the review believes it to be, moved by the origin of G54 (`at` against `nc.position`), no
mode is in force that the review does not understand, and, if it was given the origin, every risk the executed
motion had is one of a segment (`Covered`). The interesting case is the arc, which the controller runs and the
review replaces by chords. Its corners are ends of chords (`EndsAreNear`). Any other point of it lies near a
chord, that is, between the chord's ends or beyond them by up to the tolerance on each axis (`NearChord`). So
the box around the chord, widened by the tolerance, holds it (`ChordBounds`), and each of its risks is one of
the chord (`ArcPointCovered`): those of the fixture because the program's reach includes the tolerance, an
overtravel by more than the tolerance because then a corner is outside too. `arc_overtravel`, a smaller one,
is left out of `Covered`; that an arc has it says only that there is a feed segment, so the program is not
free of risk. That the origin is known follows from `travelVerified`, but only for offsets in use while the
program moved.

**Acceptance harness.** `AcceptanceInv`: each test runs once, in the order of `Rank`; there is something to
roll back only after the operations were read and the write was tried, and then the context has a feed; a feed
that is not a user's was written under `allowWrites` and goes away with a rollback that passes. What passed was
seen (`SeenInv`). The report follows, since a run without findings has a PASS for every test.

**Induction over data, with sets.** The library's induction theorems cannot be used here, but a set of natural
numbers that is not empty has a least member (`LeastNumber`, from the well-founded order of the numbers), and a
set that holds 0 and with each number below n the next one holds all up to n (`UpTo`). What a recursive function
of a model computes is proved by applying `UpTo` to the set of places at which it is right, after a lemma that
the function exists (`TakenRuns`, `DoubledRuns`, `TraceRuns`, `BackRuns`, `HunksRun`).

**Program diff.** That Myers' diff is the shortest is the interesting part. `GotTo(a, b, d, k)` is how far round d
has got on diagonal k; by `GotIs` it comes from the farther of its two neighbours of the round before, and then
slides over equal lines. For any choice P of common lines, `NearStep` shows for every place (i, j) of the two
programs that a round with no more edits than P leaves up to there has got to it or past it: one more line on
one side costs a round, a pair of P none. So the rounds pass the end after at most Len(a) + Len(b) - 2|P| of
them (`AllNear`, `RoundsEnd`). A round may run past the end of one program, but then the round before was past
it already (`OutsideRows`), so the first one that passes the end is at the end of both (`FirstPassEnds`).
`BackAt` follows the walk back: it is always at the place a round has got to, and the script it has leads on to
both ends with one edit for each round walked. The change list is `HunkAt` over the operations: each edit is in
the list or in the hunk. Equal programs end in round 0, and a script without edits makes them equal; that goes
for the programs as for each sequence of events.

**Regeneration impact and plans.** `PlanningInv` says of the walk that what it has reached depends on a change
and that what depends directly on something taken from the queue is reached; so when the queue is empty the
impact is closed, and it lies in every closed set that has the changed operations. A recommendation is the
list of the best tools that fit, so one that fits and is not listed leaves a full list of better ones
(`ChosenFit`); the passes of a turning plan are equal steps of a ceiling's number, and the last one ends on the
allowance.

**Decoders.** `FramingInv` has one part per decoder. `ReaderAt`: after n bytes the reader has handed out exactly
the frames that end by n, and its header and payload are the bytes after the last of them. `PoolAt`: the live
part of the array is the bytes of the stream from the end of the frames handed out up to what has been
received, wherever in the array it is; so a move to the front, a larger array and an append each show only
where bytes go (`AppendChunkHolds`, `GrownHolds`, `CompactHolds`). Between two chunks no whole frame is left
(`TooNear` bounds what is), which is why the buffer gives up only near a frame of maximal size.

**Model-checked only.** Liveness under fairness (`CriticalRecordSettles`, `MutationSettles`,
`RecoversWhenHealthy`, `EveryTaskSettles`, `EveryRequestAnswered`, `CallsSettle`, `SlotComesBack`) and
anything with ENABLED, which the prover does not handle.

## 6. Abstractions

Each module's head comment lists its own. In general: hashes are injective; wording, ids, timestamps,
redaction and JSON are left out; a time to live is a few steps of a clock (ledger, breaker cooldown) or
nondeterminism (the router's records and deadlines, which may pass at any moment). `MutationFlow` leaves out
whether a verification passes, as only what it read matters. `RequestRouter` leaves out what a response says,
the frames that are refused for their form or tool, and `Dispose`, which nothing reaches since
`BridgeHost.Stop` has no caller. The token check and the call of the adapter after it (`Router.cs:331` and
`:333`) are one step of it: a command has begun from the check on, so that a cancel between the two finds it
begun, and so does `NothingBeginsForTheGone`. The adapters that ship today declare only reads; the router's
mutations are what its tests and its protocol provide for.

`BridgeClient` and `HttpHost` each take the layer between them at its word instead of including it (the
product of all three is out of TLC's reach): `LiveBackend` lets an attempt return, fail or be cancelled, which
is what `CallsSettle` promises of the client. All reads of `LiveBackend` have one key, and a request is
forgotten when it is over so that its id can come again (`Forget`). `NcAnalysis` has integer lengths and an
inch of 2 units (25.4 in the code; only that the factor is applied matters). An arc has two chords; its
corners lie on it, and one further point of it, any near a chord, is looked at in each execution. The code
takes an arc whose radii differ slightly (`nc-program.ts:105`) for one that ends where it says; so does the
model. Programs are followed up to the first finding or change of offset. `JobPlanning` writes zero for a
number that was not given, and radii for diameters. In `Acceptance` an adapter may answer anything, also the
feed that `list_operations` gives; only `verify_change` tells the truth about it. A program line in
`ProgramDiff` is a member of a set with a meaning; the regular expressions that find the meaning are data.

## 7. Properties and mutants

For each property of a passing run `PROJECT.json` names one mutant: an operator beside the original (marked
`mutant` in the module) that changes a mapped definition as a plausible bug would, for example acknowledging
without looking at the write error, a rotation that prunes the newest segment, a ledger that takes no notice
of a stale preview, a drain flag that is not set, a refused command whose idempotency record stays. TLC finds
the property violated under each.

## 8. Running

In this directory: `tlc -workers 2 -config AuditHistory.cfg AuditHistory.tla` (likewise the other pairs of the
table in `PROJECT.json`), and `tlapm AuditStoreProofs.tla`. Each run ends within three minutes on two cores.

## 9. Not modelled, and what is left

Left out with a reason:
- schemas, manifest, capability and policy tables: static data and predicates on them, nothing that steps;
- configuration, diagnostics, entry points, `ApiCatalog`: reading the environment and printing, without
  interacting state;
- the add-ins' adapters and the read model: a proprietary API behind pure transformations of its objects;
- shutdown of the HTTP host and `/health`: they take no slot, and the process ends. Shutdown closes one
  component after the other; a signal of the other kind meanwhile returns from it at once and exits;
- `compareJson`, `compareToolDatabases`, `shop-tool-library.ts`, job packets, thread and tap checks:
  transformations of records in which a model would repeat the code line for line; cycle time totals: sums;
- `close()` of the live backend, which only shutdown calls;
- `regenerate_toolpath` of the fixture backend: it is in no manifest entry, so nothing calls it.

Hazards that no property covers are listed with their note in `PROJECT.json`. Starvation of low priorities in
the scheduler is one by design, and what a router's or server's reply says after a deadline is another: the
change may have been made although the answer is an error.

Left to do: more of `JobPlanning` and of the live backend's other operations as far as they keep state.
