----------------------------- MODULE Acceptance -----------------------------
(***************************************************************************)
(* The acceptance harness (src/src/acceptance/harness.ts): it runs its     *)
(* tests in order against an adapter nobody has trusted yet and concludes  *)
(* whether Mastercam is ready for live reads and writes.                   *)
(*                                                                         *)
(* The adapter may answer a call with anything, whatever it did; only what *)
(* verify_change says of the feed is taken to be true.  A user may change  *)
(* the feed at any time.  A feed is a number, the test value of f is       *)
(* Changed(f); the tests that only read differ in nothing but their names. *)
(***************************************************************************)
EXTENDS Integers, FiniteSets, Sequences

CONSTANTS
    Feeds,     \* of the first operation, before the test and by the user's edits
    MaxEdits,
    MaxBadReads  \* tests that only read and do not pass, in one execution

\* The harness takes a feed for usable when it is a positive number.
ASSUME AcceptanceAssumption == Feeds \subseteq Nat \ {0}

VARIABLES
    mode, allowWrites,
    todo,      \* the tests still to run
    results,
    ctx,       \* currentFeed, and whether there is an appliedTransactionId
    feed,      \* of the operation, in Mastercam
    edits,     \* by the user
    wrote      \* the feeds seen by the tests of the write

acceptance == <<mode, allowWrites, todo, results, ctx, feed, edits, wrote>>

Unset == 0
Changed(f) == -f
Reading == {"status", "programmingContext", "activePart", "tools", "stock", "wcs", "simulation", "collisions"}
Writing == {"apply", "verify", "rollback"}
Tests(m) ==
    <<"status">> \o (IF m = "live" THEN <<"programmingContext">> ELSE <<>>)
    \o <<"activePart", "operations", "tools", "stock", "wcs", "preview", "apply", "verify", "rollback",
         "simulation", "collisions">>

AcceptanceInit ==
    /\ mode \in {"mock", "live"} /\ allowWrites \in BOOLEAN
    /\ todo = Tests(mode) /\ results = <<>>
    /\ ctx = [currentFeed |-> Unset, applied |-> FALSE, operations |-> FALSE]
    /\ feed \in Feeds /\ edits = 0 /\ wrote = {}
-----------------------------------------------------------------------------
\* runTest records how its function ended: PASS, or what it threw.
Record(test, status) ==
    /\ todo # <<>> /\ Head(todo) = test
    /\ todo' = Tail(todo)
    /\ results' = Append(results, [test |-> test, status |-> status])
    /\ UNCHANGED <<mode, allowWrites, edits>>

Thrown == {"FAIL", "NOT_SUPPORTED"}

BadReads == {i \in DOMAIN results : results[i].test \in Reading /\ results[i].status # "PASS"}

ReadTest(test) ==
    /\ \E status \in {"PASS"} \cup (IF Cardinality(BadReads) < MaxBadReads THEN Thrown ELSE {}) :
          Record(test, status)
    /\ UNCHANGED <<ctx, feed, wrote>>

\* list_operations may answer with an operation that has no usable feed, or with
\* another feed than the one it has.
OperationsTest ==
    /\ \/ \E status \in Thrown : Record("operations", status) /\ UNCHANGED ctx
       \/ /\ Record("operations", "PASS")
          /\ ctx' \in {[ctx EXCEPT !.operations = TRUE, !.currentFeed = f] : f \in Feeds \cup {Unset}}
    /\ UNCHANGED <<feed, wrote>>

Writable == ctx.operations /\ ctx.currentFeed # Unset

PreviewTest ==
    /\ \E status \in (IF Writable THEN {"PASS"} ELSE {}) \cup Thrown : Record("preview", status)
    /\ UNCHANGED <<ctx, feed, wrote>>

Skip(test) ==
    /\ test \in Writing /\ ~allowWrites
    /\ Record(test, "SKIPPED")
    /\ UNCHANGED <<ctx, feed, wrote>>

NothingToDo(test, possible) ==
    /\ allowWrites /\ ~possible
    /\ Record(test, "NOT_SUPPORTED")
    /\ UNCHANGED <<ctx, feed, wrote>>

\* The feed may have been written whatever the answer.
ApplyTest ==
    \/ NothingToDo("apply", Writable)
    \/ /\ allowWrites /\ Writable
       /\ feed' \in {feed, Changed(ctx.currentFeed)}
       /\ \/ Record("apply", "PASS") /\ ctx' = [ctx EXCEPT !.applied = TRUE]
          \/ \E status \in Thrown : Record("apply", status) /\ UNCHANGED ctx
       /\ UNCHANGED wrote

VerifyTest ==
    \/ NothingToDo("verify", Writable /\ ctx.applied)
    \/ /\ allowWrites /\ Writable /\ ctx.applied
       /\ \E status \in Thrown \cup (IF feed = Changed(ctx.currentFeed) THEN {"PASS"} ELSE {}) :
             Record("verify", status)
       /\ wrote' = wrote \cup {feed}
       /\ UNCHANGED <<ctx, feed>>

\* rollback_change, then verify_change of the feed it should have restored.
BelievesRollback(f) == TRUE \* mutant: the restored feed is not verified
Restored(f) == Writable => f = ctx.currentFeed

RollbackTest ==
    \/ NothingToDo("rollback", ctx.applied)
    \/ /\ allowWrites /\ ctx.applied
       /\ feed' \in {feed} \cup Feeds
       /\ \E status \in Thrown \cup (IF Restored(feed') THEN {"PASS"} ELSE {}) : Record("rollback", status)
       /\ wrote' = wrote \cup {feed'}
       /\ UNCHANGED ctx

UserEdits ==
    /\ edits < MaxEdits /\ todo # <<>>
    /\ edits' = edits + 1
    /\ feed' \in Feeds \ {feed}
    /\ UNCHANGED <<mode, allowWrites, todo, results, ctx, wrote>>

AcceptanceNext ==
    \/ \E test \in Reading : ReadTest(test)
    \/ OperationsTest \/ PreviewTest
    \/ \E test \in Writing : Skip(test)
    \/ ApplyTest \/ VerifyTest \/ RollbackTest
    \/ UserEdits
-----------------------------------------------------------------------------
\* The report.
Statuses == {results[i].status : i \in DOMAIN results}
Passed(tests) == tests \subseteq {results[i].test : i \in {j \in DOMAIN results : results[j].status = "PASS"}}

overall ==
    IF "FAIL" \in Statuses THEN "FAIL"
    ELSE IF Statuses \cap {"NOT_SUPPORTED", "SKIPPED"} # {} THEN "PARTIAL" ELSE "PASS"

liveReadReady == mode = "live" /\ Passed({"status", "activePart", "operations", "tools", "stock", "wcs"})
liveWriteReady == mode = "live" /\ allowWrites /\ Passed({"preview", "apply", "verify", "rollback"})

conclusion ==
    IF mode # "live" THEN "FIXTURE_ONLY"
    ELSE IF ~liveReadReady THEN "LIVE_NOT_READY"
    ELSE IF ~allowWrites THEN "READ_READY_WRITE_NOT_EVALUATED"
    ELSE IF liveWriteReady THEN "READ_WRITE_READY" ELSE "READ_READY_WRITE_BLOCKED"
-----------------------------------------------------------------------------
\* Ready for writes is only concluded when the test value was seen in Mastercam
\* and the value that list_operations gave was seen after it, however the adapter
\* lied (if that value was a lie, the old one is not restored); without writes allowed
\* the harness changes nothing; and a test value that is left in Mastercam is not
\* concluded to be ready, nor passes, unless a user interfered.
ReadyMeansRestored ==
    todo = <<>> =>
        /\ conclusion = "READ_WRITE_READY" =>
               {ctx.currentFeed, Changed(ctx.currentFeed)} \subseteq wrote
        /\ feed \in {Changed(f) : f \in Feeds} =>
               allowWrites /\ conclusion # "READ_WRITE_READY" /\ overall # "PASS"
        /\ (mode = "live" /\ overall = "PASS") => conclusion = "READ_WRITE_READY"
=============================================================================
