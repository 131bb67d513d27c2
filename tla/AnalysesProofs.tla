--------------------------- MODULE AnalysesProofs ---------------------------
(***************************************************************************)
(* Proofs about the modules that MCAnalyses puts together, for every value *)
(* of their constants.  A behaviour of MCAnalyses is one of one of them,   *)
(* so the invariant of a module need only be kept by its own steps.        *)
(***************************************************************************)
EXTENDS MCAnalyses, FiniteSetTheorems, WellFoundedInduction, TLAPS

(* The acceptance harness. *)

AllTests == Reading \cup Writing \cup {"operations", "preview"}
TestStatus == {"PASS", "SKIPPED"} \cup Thrown
Wanted == IF mode = "live" THEN AllTests ELSE AllTests \ {"programmingContext"}

\* The place of a test in the harness.
Rank(t) ==
    CASE t = "status" -> 1 [] t = "programmingContext" -> 2 [] t = "activePart" -> 3
      [] t = "operations" -> 4 [] t = "tools" -> 5 [] t = "stock" -> 6 [] t = "wcs" -> 7
      [] t = "preview" -> 8 [] t = "apply" -> 9 [] t = "verify" -> 10 [] t = "rollback" -> 11
      [] t = "simulation" -> 12 [] OTHER -> 13

Ordered(tests) ==
    \A i, j \in DOMAIN tests : i < j => Rank(tests[i]) < Rank(tests[j])

Has(tests, t) == \E i \in DOMAIN tests : tests[i] = t

ToDo(t) == Has(todo, t)
Got(t, s) == \E i \in DOMAIN results : results[i].test = t /\ results[i].status = s

\* Every test is run once, in the order of the harness.
RunInOrder ==
    /\ mode \in {"mock", "live"}
    /\ todo \in Seq(AllTests) /\ Ordered(todo)
    /\ results \in Seq([test : AllTests, status : TestStatus])
    /\ \A i \in DOMAIN results, j \in DOMAIN todo : Rank(results[i].test) < Rank(todo[j])
    /\ \A t \in Wanted : ToDo(t) \/ \E s \in TestStatus : Got(t, s)

ContextInv ==
    /\ ctx \in [currentFeed : Feeds \cup {Unset}, applied : BOOLEAN, operations : BOOLEAN]
    /\ allowWrites \in BOOLEAN
    /\ ctx.applied => Writable /\ ~ToDo("operations") /\ ~ToDo("apply")

\* The feed is a user's, or it is the test value, which is written after
\* the first operation was read and is left there only by a rollback that did not pass.
FeedInv ==
    /\ ToDo("apply") => feed \in Feeds
    /\ feed \notin Feeds =>
           /\ allowWrites /\ ~Got("rollback", "PASS")
           /\ ToDo("rollback") \/ \E s \in TestStatus : Got("rollback", s)

\* What the tests of the write saw.
SeenInv ==
    /\ Got("apply", "PASS") => allowWrites
    /\ Got("verify", "PASS") => ~ToDo("operations") /\ Changed(ctx.currentFeed) \in wrote
    /\ Got("rollback", "PASS") => ~ToDo("operations") /\ ctx.currentFeed \in wrote

AcceptanceInv == RunInOrder /\ ContextInv /\ FeedInv /\ SeenInv
-----------------------------------------------------------------------------
LEMMA ConcatOrdered ==
    ASSUME NEW A \in Seq(AllTests), NEW B \in Seq(AllTests), Ordered(A), Ordered(B),
           \A i \in DOMAIN A, j \in DOMAIN B : Rank(A[i]) < Rank(B[j])
    PROVE  /\ A \o B \in Seq(AllTests) /\ Ordered(A \o B)
           /\ \A t : Has(A \o B, t) <=> Has(A, t) \/ Has(B, t)
<1>1. PICK C : C = A \o B
    OBVIOUS
<1>2. /\ C \in Seq(AllTests) /\ Len(C) = Len(A) + Len(B)
      /\ \A i \in 1..Len(A) : C[i] = A[i]
      /\ \A i \in 1..Len(B) : C[Len(A) + i] = B[i]
      /\ \A i \in (Len(A) + 1)..Len(C) : C[i] = B[i - Len(A)]
      /\ Len(A) \in Nat /\ Len(B) \in Nat
      /\ DOMAIN A = 1..Len(A) /\ DOMAIN B = 1..Len(B) /\ DOMAIN C = 1..Len(C)
    BY <1>1
<1>3. ASSUME NEW i \in DOMAIN C, NEW j \in DOMAIN C, i < j PROVE Rank(C[i]) < Rank(C[j])
    <2>1. CASE j <= Len(A)
        <3>1. i \in DOMAIN A /\ j \in DOMAIN A /\ C[i] = A[i] /\ C[j] = A[j]
            BY <1>2, <1>3, <2>1
        <3> QED BY <1>3, <3>1 DEF Ordered
    <2>2. CASE i <= Len(A) /\ j > Len(A)
        <3>1. i \in DOMAIN A /\ j - Len(A) \in DOMAIN B /\ C[i] = A[i] /\ C[j] = B[j - Len(A)]
            BY <1>2, <1>3, <2>2
        <3> QED BY <3>1
    <2>3. CASE i > Len(A)
        <3>1. /\ i - Len(A) \in DOMAIN B /\ j - Len(A) \in DOMAIN B
              /\ C[i] = B[i - Len(A)] /\ C[j] = B[j - Len(A)] /\ i - Len(A) < j - Len(A)
            BY <1>2, <1>3, <2>3
        <3> QED BY <3>1 DEF Ordered
    <2> QED BY <1>2, <2>1, <2>2, <2>3
<1>4. ASSUME NEW t, NEW i \in DOMAIN A, A[i] = t PROVE Has(C, t)
    <2>1. i \in DOMAIN C /\ C[i] = t
        BY <1>2, <1>4
    <2> QED BY <2>1 DEF Has
<1>5. ASSUME NEW t, NEW i \in DOMAIN B, B[i] = t PROVE Has(C, t)
    <2>1. Len(A) + i \in DOMAIN C /\ C[Len(A) + i] = t
        BY <1>2, <1>5
    <2> QED BY <2>1 DEF Has
<1>6. Ordered(C)
    BY <1>3 DEF Ordered
<1>7. ASSUME NEW t, NEW i \in DOMAIN C, C[i] = t PROVE Has(A, t) \/ Has(B, t)
    <2>1. CASE i <= Len(A)
        BY <1>2, <1>7, <2>1 DEF Has
    <2>2. CASE i > Len(A)
        <3>1. i - Len(A) \in DOMAIN B /\ B[i - Len(A)] = t
            BY <1>2, <1>7, <2>2
        <3> QED BY <3>1 DEF Has
    <2> QED BY <1>2, <2>1, <2>2
<1> QED BY <1>1, <1>2, <1>4, <1>5, <1>6, <1>7 DEF Has

\* The harness has every test of its mode, in the order of their ranks.
LEMMA TestsInOrder ==
    ASSUME NEW m \in {"mock", "live"}
    PROVE  /\ Tests(m) \in Seq(AllTests) /\ Ordered(Tests(m))
           /\ \A t \in AllTests : t # "programmingContext" \/ m = "live" => Has(Tests(m), t)
<1>1. PICK A : A = <<"status">>
    OBVIOUS
<1>2. PICK B : B = IF m = "live" THEN <<"programmingContext">> ELSE <<>>
    OBVIOUS
<1>3. PICK C : C = <<"activePart", "operations", "tools", "stock", "wcs", "preview", "apply", "verify",
                     "rollback", "simulation", "collisions">>
    OBVIOUS
<1>4. Tests(m) = (A \o B) \o C
    BY <1>1, <1>2, <1>3 DEF Tests
<1>5. A \in Seq(AllTests) /\ DOMAIN A = {1} /\ A[1] = "status"
    BY <1>1 DEF AllTests, Reading
<1>6. B \in Seq(AllTests) /\ DOMAIN B \subseteq {1} /\ (1 \in DOMAIN B => B[1] = "programmingContext")
    <2>1. CASE m = "live"
        BY <1>2, <2>1 DEF AllTests, Reading
    <2>2. CASE m # "live"
        BY <1>2, <2>2
    <2> QED BY <2>1, <2>2
<1>7. /\ C \in Seq(AllTests) /\ DOMAIN C = 1..11
      /\ C[1] = "activePart" /\ C[2] = "operations" /\ C[3] = "tools" /\ C[4] = "stock"
      /\ C[5] = "wcs" /\ C[6] = "preview" /\ C[7] = "apply" /\ C[8] = "verify"
      /\ C[9] = "rollback" /\ C[10] = "simulation" /\ C[11] = "collisions"
    BY <1>3 DEF AllTests, Reading, Writing
<1>8. \A i \in 1..11 : Rank(C[i]) = i + 2
    BY <1>7 DEF Rank
<1>9. Ordered(A) /\ Ordered(B) /\ Ordered(C)
    BY <1>5, <1>6, <1>7, <1>8 DEF Ordered
<1>10. Rank("status") = 1 /\ Rank("programmingContext") = 2
    BY DEF Rank
<1>11. PICK D : D = A \o B
    OBVIOUS
<1>12. /\ D \in Seq(AllTests) /\ Ordered(D)
       /\ \A t : Has(D, t) <=> Has(A, t) \/ Has(B, t)
    BY <1>5, <1>6, <1>9, <1>10, <1>11, ConcatOrdered
<1>13. \A i \in DOMAIN D, j \in DOMAIN C : Rank(D[i]) < Rank(C[j])
    <2>1. \A i \in DOMAIN D : D[i] \in {"status", "programmingContext"}
        BY <1>5, <1>6, <1>12 DEF Has
    <2> QED BY <1>7, <1>8, <1>10, <2>1
<1>14. /\ D \o C \in Seq(AllTests) /\ Ordered(D \o C)
       /\ \A t : Has(D \o C, t) <=> Has(D, t) \/ Has(C, t)
    BY <1>7, <1>9, <1>12, <1>13, ConcatOrdered
<1>15. \A t \in AllTests \ {"status", "programmingContext"} : Has(C, t)
    BY <1>7 DEF AllTests, Reading, Writing, Has
<1>16. Has(A, "status") /\ (m = "live" => Has(B, "programmingContext"))
    BY <1>2, <1>5 DEF Has
<1> QED BY <1>4, <1>11, <1>12, <1>14, <1>15, <1>16

LEMMA AcceptanceInvInit == AcceptanceInit => AcceptanceInv
<1> SUFFICES ASSUME AcceptanceInit PROVE AcceptanceInv
    OBVIOUS
<1>1. mode \in {"mock", "live"} /\ todo = Tests(mode) /\ results = <<>>
    BY DEF AcceptanceInit
<1>2. RunInOrder
    BY <1>1, TestsInOrder DEF RunInOrder, Wanted, ToDo
<1>3. \A t, s : ~Got(t, s)
    BY <1>1 DEF Got
<1>4. ContextInv
    BY DEF AcceptanceInit, ContextInv
<1>5. FeedInv /\ SeenInv
    BY <1>3 DEF AcceptanceInit, FeedInv, SeenInv
<1> QED BY <1>2, <1>4, <1>5 DEF AcceptanceInv

\* The test at the head is run: what was recorded, what is left.
LEMMA RecordRuns ==
    ASSUME RunInOrder, NEW test, NEW status \in TestStatus, Record(test, status)
    PROVE  /\ RunInOrder' /\ UNCHANGED <<mode, allowWrites, edits>>
           /\ test \in AllTests /\ ToDo(test)
           /\ \A t : ToDo(t) => t = test \/ ToDo(t)'
           /\ \A t : ToDo(t)' => ToDo(t) /\ Rank(test) < Rank(t)
           /\ \A t, s : Got(t, s) => Rank(t) < Rank(test)
           /\ \A t, s : Got(t, s)' <=> Got(t, s) \/ (t = test /\ s = status)
<1>1. /\ todo # <<>> /\ todo[1] = test /\ todo' = Tail(todo)
      /\ results' = Append(results, [test |-> test, status |-> status])
      /\ todo \in Seq(AllTests) /\ results \in Seq([test : AllTests, status : TestStatus])
      /\ UNCHANGED <<mode, allowWrites, edits>>
    BY DEF Record, RunInOrder
<1>2. PICK got : got = [test |-> test, status |-> status]
    OBVIOUS
<1>3. /\ test \in AllTests /\ got \in [test : AllTests, status : TestStatus]
      /\ got.test = test /\ got.status = status
    BY <1>1, <1>2
<1>4. /\ todo' \in Seq(AllTests) /\ DOMAIN todo = 1..Len(todo) /\ Len(todo) \in Nat
      /\ 1 \in DOMAIN todo
      /\ DOMAIN todo' = 1..(Len(todo) - 1)
      /\ \A i \in DOMAIN todo' : todo'[i] = todo[i + 1] /\ i + 1 \in DOMAIN todo
      /\ \A i \in DOMAIN todo \ {1} : i - 1 \in DOMAIN todo' /\ todo'[i - 1] = todo[i]
    BY <1>1
<1>5. /\ results' \in Seq([test : AllTests, status : TestStatus])
      /\ Len(results) \in Nat /\ DOMAIN results = 1..Len(results)
      /\ DOMAIN results' = 1..(Len(results) + 1)
      /\ \A i \in DOMAIN results : i \in DOMAIN results' /\ results'[i] = results[i]
      /\ Len(results) + 1 \in DOMAIN results' /\ results'[Len(results) + 1] = got
    BY <1>1, <1>2, <1>3
<1>6. \A i \in DOMAIN todo' : Rank(test) < Rank(todo'[i])
    BY <1>1, <1>4 DEF RunInOrder, Ordered
<1>7. \A i \in DOMAIN results : Rank(results[i].test) < Rank(test)
    BY <1>1, <1>4 DEF RunInOrder
<1>8. \A t : ToDo(t) => t = test \/ ToDo(t)'
    BY <1>1, <1>4 DEF ToDo, Has
<1>9. \A t : ToDo(t)' => ToDo(t) /\ Rank(test) < Rank(t)
    BY <1>4, <1>6 DEF ToDo, Has
<1>10. \A t, s : Got(t, s)' <=> Got(t, s) \/ (t = test /\ s = status)
    <2>1. \A i \in DOMAIN results' : i \in DOMAIN results \/ i = Len(results) + 1
        BY <1>5
    <2> QED BY <1>3, <1>5, <2>1 DEF Got
<1>11. RunInOrder'
    <2>1. Ordered(todo')
        BY <1>4 DEF RunInOrder, Ordered
    <2>2. ASSUME NEW i \in DOMAIN results', NEW j \in DOMAIN todo'
          PROVE  Rank(results'[i].test) < Rank(todo'[j])
        <3>1. CASE i \in DOMAIN results
            BY <1>4, <1>5, <3>1 DEF RunInOrder
        <3>2. CASE i = Len(results) + 1
            BY <1>3, <1>5, <1>6, <3>2
        <3> QED BY <1>5, <3>1, <3>2
    <2>3. \A t \in Wanted' : ToDo(t)' \/ \E s \in TestStatus : Got(t, s)'
        <3>1. Wanted' = Wanted
            BY <1>1 DEF Wanted
        <3> QED BY <1>8, <1>10, <3>1 DEF RunInOrder
    <2> QED BY <1>1, <1>4, <1>5, <2>1, <2>2, <2>3 DEF RunInOrder
<1>12. ToDo(test)
    BY <1>1, <1>4 DEF ToDo, Has
<1> QED BY <1>1, <1>3, <1>7, <1>8, <1>9, <1>10, <1>11, <1>12 DEF Got

LEMMA Ranks ==
    /\ Rank("operations") = 4 /\ Rank("preview") = 8 /\ Rank("apply") = 9 /\ Rank("verify") = 10
    /\ Rank("rollback") = 11
    /\ {"operations", "preview", "apply", "verify", "rollback"} \subseteq Wanted
BY DEF Rank, Wanted, AllTests, Reading, Writing

\* A test that leaves feed and context alone, and of which nothing follows.
LEMMA QuietTestKeepsInv ==
    ASSUME AcceptanceInv, NEW test, NEW status \in TestStatus, Record(test, status),
           UNCHANGED <<ctx, feed>>, wrote \subseteq wrote',
           status # "PASS" \/ test \notin Writing
    PROVE  AcceptanceInv'
<1>1. /\ RunInOrder' /\ allowWrites' = allowWrites
      /\ \A t : ToDo(t) => t = test \/ ToDo(t)'
      /\ \A t : ToDo(t)' => ToDo(t)
      /\ \A t, s : Got(t, s)' <=> Got(t, s) \/ (t = test /\ s = status)
    BY RecordRuns DEF AcceptanceInv
<1>2. \A t \in Writing : Got(t, "PASS")' <=> Got(t, "PASS")
    BY <1>1
<1>3. ContextInv'
    BY <1>1 DEF AcceptanceInv, ContextInv, Writable
<1>4. FeedInv'
    BY <1>1, <1>2 DEF AcceptanceInv, FeedInv, Writing
<1>5. SeenInv'
    BY <1>1, <1>2 DEF AcceptanceInv, SeenInv, Writing
<1> QED BY <1>1, <1>3, <1>4, <1>5 DEF AcceptanceInv

LEMMA OperationsKeepsInv ==
    ASSUME AcceptanceInv, OperationsTest
    PROVE  AcceptanceInv'
<1>1. CASE \E status \in Thrown : Record("operations", status) /\ UNCHANGED ctx
    <2>1. PICK status \in TestStatus : Record("operations", status) /\ UNCHANGED ctx
        BY <1>1 DEF TestStatus
    <2> QED BY <2>1, QuietTestKeepsInv DEF OperationsTest, Writing
<1>2. CASE Record("operations", "PASS")
           /\ ctx' \in {[ctx EXCEPT !.operations = TRUE, !.currentFeed = f] : f \in Feeds \cup {Unset}}
    <2>1. /\ RunInOrder' /\ allowWrites' = allowWrites /\ ToDo("operations")
          /\ \A t : ToDo(t) => t = "operations" \/ ToDo(t)'
          /\ \A t : ToDo(t)' => ToDo(t) /\ Rank("operations") < Rank(t)
          /\ \A t, s : Got(t, s) => Rank(t) < Rank("operations")
          /\ \A t, s : Got(t, s)' <=> Got(t, s) \/ (t = "operations" /\ s = "PASS")
        <3>1. RunInOrder /\ "PASS" \in TestStatus
            BY DEF AcceptanceInv, TestStatus
        <3> QED BY <1>2, <3>1, RecordRuns
    <2>2. \A t \in Writing : \A s : ~Got(t, s) /\ ~Got(t, s)'
        BY <2>1, Ranks DEF Writing
    <2>3. ToDo("apply")
        BY <2>2, Ranks DEF AcceptanceInv, RunInOrder, Writing
    <2>4. feed \in Feeds /\ feed' = feed
        BY <2>3 DEF AcceptanceInv, FeedInv, OperationsTest
    <2>5. ctx \in [currentFeed : Feeds \cup {Unset}, applied : BOOLEAN, operations : BOOLEAN]
        BY DEF AcceptanceInv, ContextInv
    <2>6. PICK f \in Feeds \cup {Unset} : ctx' = [ctx EXCEPT !.operations = TRUE, !.currentFeed = f]
        BY <1>2
    <2>7. /\ ctx' \in [currentFeed : Feeds \cup {Unset}, applied : BOOLEAN, operations : BOOLEAN]
          /\ ctx'.applied = ctx.applied
        BY <2>5, <2>6
    <2>8. ~ctx.applied
        BY <2>1 DEF AcceptanceInv, ContextInv
    <2>9. ContextInv'
        BY <2>1, <2>7, <2>8 DEF AcceptanceInv, ContextInv
    <2>10. FeedInv' /\ SeenInv'
        BY <2>2, <2>4 DEF FeedInv, SeenInv, Writing
    <2> QED BY <2>1, <2>9, <2>10 DEF AcceptanceInv
<1> QED BY <1>1, <1>2 DEF OperationsTest

LEMMA ApplyKeepsInv ==
    ASSUME AcceptanceInv, ApplyTest, ~NothingToDo("apply", Writable)
    PROVE  AcceptanceInv'
<1>1. /\ allowWrites /\ Writable /\ wrote' = wrote
      /\ feed' \in {feed, Changed(ctx.currentFeed)}
    BY DEF ApplyTest
<1>2. PICK status \in TestStatus :
          /\ Record("apply", status)
          /\ \/ status = "PASS" /\ ctx' = [ctx EXCEPT !.applied = TRUE]
             \/ UNCHANGED ctx
    BY DEF ApplyTest, TestStatus
<1>3. /\ RunInOrder' /\ allowWrites' = allowWrites /\ ToDo("apply")
      /\ \A t : ToDo(t) => t = "apply" \/ ToDo(t)'
      /\ \A t : ToDo(t)' => ToDo(t) /\ Rank("apply") < Rank(t)
      /\ \A t, s : Got(t, s) => Rank(t) < Rank("apply")
      /\ \A t, s : Got(t, s)' <=> Got(t, s) \/ (t = "apply" /\ s = status)
    BY <1>2, RecordRuns DEF AcceptanceInv
<1>4. ctx \in [currentFeed : Feeds \cup {Unset}, applied : BOOLEAN, operations : BOOLEAN]
    BY DEF AcceptanceInv, ContextInv
<1>5. /\ ctx' \in [currentFeed : Feeds \cup {Unset}, applied : BOOLEAN, operations : BOOLEAN]
      /\ ctx'.currentFeed = ctx.currentFeed /\ ctx'.operations = ctx.operations
    BY <1>2, <1>4
<1>6. ~ToDo("operations")' /\ ~ToDo("apply")'
    BY <1>3, Ranks
<1>7. ContextInv'
    BY <1>1, <1>3, <1>5, <1>6 DEF ContextInv, Writable
<1>8. \A s : ~Got("verify", s)' /\ ~Got("rollback", s)'
    BY <1>3, Ranks
<1>9. ToDo("rollback")
    BY <1>3, Ranks DEF AcceptanceInv, RunInOrder
<1>10. ToDo("rollback")'
    BY <1>3, <1>9
<1>11. FeedInv' /\ SeenInv'
    BY <1>1, <1>3, <1>6, <1>8, <1>10 DEF FeedInv, SeenInv
<1> QED BY <1>3, <1>7, <1>11 DEF AcceptanceInv

LEMMA VerifyKeepsInv ==
    ASSUME AcceptanceInv, VerifyTest, ~NothingToDo("verify", Writable /\ ctx.applied)
    PROVE  AcceptanceInv'
<1>1. /\ allowWrites /\ Writable /\ ctx.applied /\ UNCHANGED <<ctx, feed>>
      /\ wrote' = wrote \cup {feed}
    BY DEF VerifyTest
<1>2. PICK status \in TestStatus :
          Record("verify", status) /\ (status = "PASS" => feed = Changed(ctx.currentFeed))
    BY DEF VerifyTest, TestStatus, Thrown
<1>3. CASE status # "PASS"
    BY <1>1, <1>2, <1>3, QuietTestKeepsInv
<1>4. CASE status = "PASS"
    <2>1. /\ RunInOrder' /\ allowWrites' = allowWrites
          /\ \A t : ToDo(t) => t = "verify" \/ ToDo(t)'
          /\ \A t : ToDo(t)' => ToDo(t)
          /\ \A t, s : Got(t, s)' <=> Got(t, s) \/ (t = "verify" /\ s = status)
        BY <1>2, RecordRuns DEF AcceptanceInv
    <2>2. ContextInv'
        BY <1>1, <2>1 DEF AcceptanceInv, ContextInv, Writable
    <2>3. FeedInv'
        BY <1>1, <2>1 DEF AcceptanceInv, FeedInv
    <2>4. ~ToDo("operations")' /\ Changed(ctx.currentFeed) \in wrote'
        BY <1>1, <1>2, <1>4, <2>1 DEF AcceptanceInv, ContextInv
    <2>5. SeenInv'
        BY <1>1, <2>1, <2>4 DEF AcceptanceInv, SeenInv
    <2> QED BY <2>1, <2>2, <2>3, <2>5 DEF AcceptanceInv
<1> QED BY <1>3, <1>4

LEMMA RollbackKeepsInv ==
    ASSUME AcceptanceInv, RollbackTest, ~NothingToDo("rollback", ctx.applied)
    PROVE  AcceptanceInv'
<1>1. /\ allowWrites /\ ctx.applied /\ ctx' = ctx
      /\ feed' \in {feed} \cup Feeds /\ wrote' = wrote \cup {feed'}
    BY DEF RollbackTest
<1>2. PICK status \in TestStatus : Record("rollback", status) /\ (status = "PASS" => Restored(feed'))
    BY DEF RollbackTest, TestStatus, Thrown
<1>3. /\ RunInOrder' /\ allowWrites' = allowWrites
      /\ \A t : ToDo(t) => t = "rollback" \/ ToDo(t)'
      /\ \A t : ToDo(t)' => ToDo(t) /\ Rank("rollback") < Rank(t)
      /\ \A t, s : Got(t, s) => Rank(t) < Rank("rollback")
      /\ \A t, s : Got(t, s)' <=> Got(t, s) \/ (t = "rollback" /\ s = status)
    BY <1>2, RecordRuns DEF AcceptanceInv
<1>4. /\ ~ToDo("operations")' /\ ~ToDo("apply")' /\ Writable
      /\ ctx.currentFeed \in Feeds
    BY <1>1, <1>3, Ranks DEF AcceptanceInv, ContextInv, Writable
<1>5. status = "PASS" => feed' = ctx.currentFeed
    BY <1>2, <1>4 DEF Restored
<1>6. ~Got("rollback", "PASS")
    BY <1>3, Ranks
<1>7. ContextInv'
    BY <1>1, <1>3, <1>4 DEF AcceptanceInv, ContextInv, Writable
<1>8. FeedInv'
    BY <1>1, <1>3, <1>4, <1>5, <1>6 DEF AcceptanceInv, FeedInv
<1>9. SeenInv'
    BY <1>1, <1>3, <1>4, <1>5 DEF AcceptanceInv, SeenInv
<1> QED BY <1>3, <1>7, <1>8, <1>9 DEF AcceptanceInv

LEMMA AcceptanceInvStep == AcceptanceInv /\ [AcceptanceNext]_acceptance => AcceptanceInv'
<1> SUFFICES ASSUME AcceptanceInv, [AcceptanceNext]_acceptance PROVE AcceptanceInv'
    OBVIOUS
<1>1. ASSUME NEW test \in Reading, ReadTest(test) PROVE AcceptanceInv'
    <2>1. PICK status \in TestStatus : Record(test, status)
        BY <1>1 DEF ReadTest, TestStatus
    <2>2. UNCHANGED <<ctx, feed, wrote>> /\ test \notin Writing
        BY <1>1 DEF ReadTest, Reading, Writing
    <2> QED BY <2>1, <2>2, QuietTestKeepsInv
<1>2. CASE PreviewTest
    <2>1. PICK status \in TestStatus : Record("preview", status)
        BY <1>2 DEF PreviewTest, TestStatus
    <2>2. UNCHANGED <<ctx, feed, wrote>> /\ "preview" \notin Writing
        BY <1>2 DEF PreviewTest, Writing
    <2> QED BY <2>1, <2>2, QuietTestKeepsInv
<1>3. ASSUME NEW test \in Writing, Skip(test) PROVE AcceptanceInv'
    <2>1. /\ "SKIPPED" \in TestStatus /\ Record(test, "SKIPPED")
          /\ UNCHANGED <<ctx, feed, wrote>> /\ "SKIPPED" # "PASS"
        BY <1>3 DEF Skip, TestStatus
    <2> QED BY <2>1, QuietTestKeepsInv
<1>4. ASSUME NEW test \in Writing, NEW possible, NothingToDo(test, possible) PROVE AcceptanceInv'
    <2>1. /\ "NOT_SUPPORTED" \in TestStatus /\ Record(test, "NOT_SUPPORTED")
          /\ UNCHANGED <<ctx, feed, wrote>> /\ "NOT_SUPPORTED" # "PASS"
        BY <1>4 DEF NothingToDo, TestStatus, Thrown
    <2> QED BY <2>1, QuietTestKeepsInv
<1>5. CASE ApplyTest
    BY <1>4, <1>5, ApplyKeepsInv DEF Writing
<1>6. CASE VerifyTest
    <2>1. PICK possible : possible = (Writable /\ ctx.applied)
        OBVIOUS
    <2>2. NothingToDo("verify", Writable /\ ctx.applied) => NothingToDo("verify", possible)
        BY <2>1
    <2> QED BY <1>4, <1>6, <2>2, VerifyKeepsInv DEF Writing
<1>7. CASE RollbackTest
    BY <1>4, <1>7, RollbackKeepsInv DEF Writing
<1>8. CASE UserEdits
    <2>1. /\ feed' \in Feeds /\ UNCHANGED <<mode, allowWrites, todo, results, ctx, wrote>>
        BY <1>8 DEF UserEdits
    <2> QED BY <2>1 DEF AcceptanceInv, RunInOrder, ContextInv, FeedInv, SeenInv, ToDo, Has, Got, Wanted,
                        Writable, Ordered
<1>9. CASE UNCHANGED acceptance
    BY <1>9 DEF acceptance, AcceptanceInv, RunInOrder, ContextInv, FeedInv, SeenInv, ToDo, Has, Got, Wanted,
                Writable, Ordered
<1> QED BY <1>1, <1>2, <1>3, <1>5, <1>6, <1>7, <1>8, <1>9, OperationsKeepsInv DEF AcceptanceNext

LEMMA ReportIsHonest ==
    ASSUME AcceptanceInv
    PROVE  ReadyMeansRestored
<1> SUFFICES ASSUME todo = <<>> PROVE ReadyMeansRestored!2
    BY DEF ReadyMeansRestored
<1>1. \A t : ~ToDo(t)
    BY DEF ToDo, Has
<1>2. \A t \in Wanted : \E s \in TestStatus : Got(t, s)
    BY <1>1 DEF AcceptanceInv, RunInOrder
<1>3. \A tests : Passed(tests) <=> \A t \in tests : Got(t, "PASS")
    BY DEF Passed, Got
<1>4. \A t, s : Got(t, s) => s \in Statuses
    BY DEF Got, Statuses
<1>5. conclusion = "READ_WRITE_READY" =>
          {ctx.currentFeed, Changed(ctx.currentFeed)} \subseteq wrote
    <2> SUFFICES ASSUME conclusion = "READ_WRITE_READY"
                 PROVE  {ctx.currentFeed, Changed(ctx.currentFeed)} \subseteq wrote
        OBVIOUS
    <2>1. liveWriteReady
        BY DEF conclusion
    <2>2. Got("verify", "PASS") /\ Got("rollback", "PASS")
        BY <1>3, <2>1 DEF liveWriteReady
    <2> QED BY <2>2 DEF AcceptanceInv, SeenInv
<1>6. feed \in {Changed(f) : f \in Feeds} =>
          allowWrites /\ conclusion # "READ_WRITE_READY" /\ overall # "PASS"
    <2> SUFFICES ASSUME NEW f \in Feeds, feed = Changed(f)
                 PROVE  allowWrites /\ conclusion # "READ_WRITE_READY" /\ overall # "PASS"
        OBVIOUS
    <2>1. feed \notin Feeds
        BY AcceptanceAssumption DEF Changed
    <2>2. allowWrites /\ ~Got("rollback", "PASS")
        BY <2>1 DEF AcceptanceInv, FeedInv
    <2>3. conclusion # "READ_WRITE_READY"
        BY <1>3, <2>2 DEF conclusion, liveWriteReady
    <2>4. PICK s \in TestStatus \ {"PASS"} : Got("rollback", s)
        BY <1>2, <2>2, Ranks
    <2>5. overall # "PASS"
        BY <1>4, <2>4 DEF overall, TestStatus, Thrown
    <2> QED BY <2>2, <2>3, <2>5
<1>7. (mode = "live" /\ overall = "PASS") => conclusion = "READ_WRITE_READY"
    <2> SUFFICES ASSUME mode = "live", overall = "PASS" PROVE conclusion = "READ_WRITE_READY"
        OBVIOUS
    <2>1. Statuses \cap {"FAIL", "NOT_SUPPORTED", "SKIPPED"} = {}
        BY DEF overall
    <2>2. \A t \in AllTests : Got(t, "PASS")
        BY <1>2, <1>4, <2>1 DEF Wanted, TestStatus, Thrown
    <2>3. allowWrites
        BY <2>2 DEF AcceptanceInv, SeenInv, AllTests, Writing
    <2>4. liveReadReady /\ liveWriteReady
        BY <1>3, <2>2, <2>3 DEF liveReadReady, liveWriteReady, AllTests, Reading, Writing
    <2> QED BY <2>3, <2>4 DEF conclusion
<1> QED BY <1>5, <1>6, <1>7

\* The report of the acceptance harness is honest for every adapter, whatever it answers
\* and whatever a user does meanwhile: ready for writes means that the test value and the
\* old feed were both seen, a feed left at the test value never passes or is called ready,
\* and a live run without a finding is called ready.
THEOREM HarnessHonest == Spec => []HarnessIsHonest
<1> DEFINE Inv == Is("acceptance") => AcceptanceInv
<1>1. Init => Inv
    BY AcceptanceInvInit DEF Init
<1>2. Inv /\ [Next]_<<part, ncVars, programs, framing, acceptance, planning>> => Inv'
    BY AcceptanceInvStep DEF Next, Is
<1>3. Inv => HarnessIsHonest
    BY ReportIsHonest DEF HarnessIsHonest
<1> QED BY <1>1, <1>2, <1>3, PTL DEF Spec
-----------------------------------------------------------------------------
(* The NC review. *)

Inputs == [frame : {"machine", "work"}, known : SUBSET {"G54", "G55"}, motion : {"none", "rapid", "feed"}]

Segment ==
    [motion : {"rapid", "feed"}, start : Point, end : Point, feed : {"none", "ok", "over"},
     spindle : {"none", "ok", "over"}, arc : BOOLEAN]

Reports ==
    {Reported[k] : k \in DOMAIN Reported} \cup Others
    \cup {"arc_words_without_arc", "motion_mode_unknown", "feed_unknown", "arc_motion_unknown",
          "coordinate_range", "non_finite_word"}

ReviewState ==
    [motion : {"none", "rapid", "feed", "arc"}, units : {"mm", "inch"}, absolute : BOOLEAN,
     perMinute : BOOLEAN, constantRpm : BOOLEAN, cycle : BOOLEAN, offset : {"G54", "G55"},
     hasOffset : BOOLEAN, badOffset : BOOLEAN, feed : {"none", "ok", "over"},
     spindle : {"none", "ok", "over"}, position : Point, stopped : BOOLEAN,
     findings : SUBSET Reports, segments : SUBSET Segment, used : SUBSET {"G54", "G55"}]

\* The motion reviewed so far is the same; modes that are understood stay so.
SameMotion(a, b) ==
    b.position = a.position /\ b.segments = a.segments /\ b.used = a.used /\ b.stopped = a.stopped
StillUnderstood(a, b) ==
    (a.cycle = FALSE => b.cycle = FALSE) /\ (a.constantRpm = TRUE => b.constantRpm = TRUE)

WorkOrigin == IF input.frame = "work" THEN Origins["G54"] ELSE Zero
Reach(segments) == Clearance + (IF \E s \in segments : s.arc THEN ArcTolerance ELSE 0)
Covered(ids, segments, reach) == \A id \in ids : \E s \in segments : id \in RiskIds(s, TRUE, reach)

\* What the controller moves along, and what an arc over the corner w and a bend risks.
PathOf(a, p, q) ==
    [motion |-> IF a.motion = "rapid" THEN "rapid" ELSE "feed", start |-> p, end |-> q,
     feed |-> IF a.motion = "rapid" THEN "none" ELSE a.feed, spindle |-> a.spindle]
ArcRisks(a, p, w, q, bend) ==
    BendRisks(PathOf(a, bend, bend)) \cup UNION {RiskIds(PathOf(a, r, r), TRUE, Clearance) : r \in {p, w, q}}

\* As long as the program is followed the review is where the machine is, and every risk
\* of the executed motion is one of a segment, if the review knows the origin; but an arc
\* may leave the travel unseen by less than the tolerance, and of an arc there is a feed.
NcFollows ==
    /\ nc \in ReviewState
    /\ nc.offset = "G54" /\ nc.cycle = FALSE /\ nc.constantRpm = TRUE /\ nc.stopped = FALSE
    /\ at = Shift(nc.position, WorkOrigin)
    /\ nc.used \subseteq {"G54"}
    /\ Origin(nc) = WorkOrigin => Covered(harm \ {"arc_overtravel"}, nc.segments, Reach(nc.segments))
    /\ "arc_overtravel" \in harm => \E s \in nc.segments : s.motion = "feed"

NcInv == input \in Inputs /\ (Followed => NcFollows)

LineType ==
    [code : Codes, words : UNION {[D -> Coordinates] : D \in SUBSET Axes}, f : {"none", "ok", "over"},
     s : {"none", "ok", "over"}, arc : {"none", "bad", "ok"}, via : [Axes -> {0, 1}], other : Others,
     huge : BOOLEAN]

LEMMA BlankTyped == Blank \in LineType
<1>1. "none" \in Codes /\ "none" \in Others
    BY DEF Codes, Others
<1>2. <<>> \in [{} -> Coordinates]
    OBVIOUS
<1>3. PICK D : D = {}
    OBVIOUS
<1>4. D \in SUBSET Axes /\ <<>> \in [D -> Coordinates]
    BY <1>2, <1>3
<1>5. <<>> \in UNION {[E -> Coordinates] : E \in SUBSET Axes}
    BY <1>4
<1>6. Zero \in [Axes -> {0, 1}]
    BY DEF Zero
<1> QED BY <1>1, <1>5, <1>6 DEF Blank, LineType

LEMMA LinesTyped == Settings \cup Moves \subseteq LineType
<1>1. ASSUME NEW c \in Codes PROVE [Blank EXCEPT !.code = c] \in LineType
    BY <1>1, BlankTyped DEF LineType
<1>2. ASSUME NEW o \in Others PROVE [Blank EXCEPT !.other = o] \in LineType
    BY <1>2, BlankTyped DEF LineType
<1>3. ASSUME NEW v \in {"ok", "over"}
      PROVE  [Blank EXCEPT !.f = v] \in LineType /\ [Blank EXCEPT !.s = v] \in LineType
    BY <1>3, BlankTyped DEF LineType
<1>4. [Blank EXCEPT !.huge = TRUE] \in LineType
    BY BlankTyped DEF LineType
<1>5. Settings \subseteq LineType
    BY <1>1, <1>2, <1>3, <1>4 DEF Settings
<1>6. Words \cup {<<>>} \subseteq UNION {[D -> Coordinates] : D \in SUBSET Axes}
    BY BlankTyped DEF Words, LineType, Blank
<1>7. {"none", "G53", "G81"} \subseteq Codes
    BY DEF Codes, Sets, Reported
<1>8. ASSUME NEW c \in {"none", "G53", "G81"}, NEW w \in Words PROVE MoveTo(c, w) \in LineType
    BY <1>6, <1>7, BlankTyped DEF MoveTo, LineType
<1>9. ASSUME NEW w \in Words \cup {<<>>}, NEW arc \in {"bad", "ok"}, NEW via \in [Axes -> {0, 1}]
      PROVE  ArcTo(w, arc, via) \in LineType
    BY <1>6, BlankTyped DEF ArcTo, LineType
<1>10. {[Zero EXCEPT ![x] = 1] : x \in Axes} \subseteq [Axes -> {0, 1}]
    BY DEF Zero
<1>11. ASSUME NEW line \in {MoveTo(c, w) : c \in {"none", "G53", "G81"}, w \in Words} PROVE line \in LineType
    BY <1>8, <1>11
<1>12. ASSUME NEW line \in {ArcTo(w, "ok", via) : w \in Words \cup {<<>>},
                                                 via \in {[Zero EXCEPT ![x] = 1] : x \in Axes}}
       PROVE  line \in LineType
    BY <1>9, <1>10, <1>12
<1>13. ASSUME NEW line \in {ArcTo(w, "bad", Zero) : w \in Words} PROVE line \in LineType
    <2>1. Zero \in [Axes -> {0, 1}]
        BY DEF Zero
    <2> QED BY <1>9, <1>13, <2>1
<1> QED BY <1>5, <1>11, <1>12, <1>13 DEF Moves

\* A G code changes the modes it stands for to values they may have, and nothing else; the
\* modes that would confuse the review are reported.
LEMMA WithTyped ==
    ASSUME NEW a \in ReviewState, NEW c \in DOMAIN Sets, NEW b, b = With(a, Sets[c])
    PROVE  /\ b \in ReviewState /\ SameMotion(a, b)
           /\ c \notin DOMAIN Reported => StillUnderstood(a, b)
<1>1. /\ Sets["G0"] = [motion |-> "rapid"] /\ Sets["G1"] = [motion |-> "feed"]
      /\ Sets["G2"] = [motion |-> "arc"]
      /\ Sets["G20"] = [units |-> "inch"] /\ Sets["G21"] = [units |-> "mm"]
      /\ Sets["G90"] = [absolute |-> TRUE] /\ Sets["G91"] = [absolute |-> FALSE]
      /\ Sets["G94"] = [perMinute |-> TRUE] /\ Sets["G95"] = [perMinute |-> FALSE]
      /\ Sets["G96"] = [constantRpm |-> FALSE] /\ Sets["G97"] = [constantRpm |-> TRUE]
      /\ Sets["G80"] = [cycle |-> FALSE] /\ Sets["G81"] = [cycle |-> TRUE]
      /\ Sets["G54"] = [offset |-> "G54", hasOffset |-> TRUE]
      /\ Sets["G55"] = [offset |-> "G55", hasOffset |-> TRUE]
      /\ Sets["G54_1"] = [hasOffset |-> TRUE, badOffset |-> TRUE]
    BY DEF Sets
<1>2. DOMAIN Sets = {"G0", "G1", "G2", "G20", "G21", "G90", "G91", "G94", "G95", "G96", "G97", "G80", "G81",
                     "G54", "G55", "G54_1"}
    BY DEF Sets
<1>3. {"G95", "G96", "G81"} \subseteq DOMAIN Reported
    BY DEF Reported
<1>4. CASE c \in {"G0", "G1", "G2"}
    <2>1. PICK v \in {"rapid", "feed", "arc"} : Sets[c] = [motion |-> v]
        BY <1>1, <1>4
    <2>2. b = [a EXCEPT !.motion = v]
        BY <2>1 DEF With, ReviewState
    <2> QED BY <2>1, <2>2 DEF ReviewState, SameMotion, StillUnderstood
<1>5. CASE c \in {"G20", "G21"}
    <2>1. PICK v \in {"mm", "inch"} : Sets[c] = [units |-> v]
        BY <1>1, <1>5
    <2>2. b = [a EXCEPT !.units = v]
        BY <2>1 DEF With, ReviewState
    <2> QED BY <2>1, <2>2 DEF ReviewState, SameMotion, StillUnderstood
<1>6. CASE c = "G90"
    <2>1. PICK v : v = TRUE
        OBVIOUS
    <2>2. Sets[c] = [absolute |-> v]
        BY <1>1, <1>6, <2>1
    <2>3. b = [a EXCEPT !.absolute = v]
        BY <2>2 DEF With, ReviewState
    <2> QED BY <2>1, <2>3 DEF ReviewState, SameMotion, StillUnderstood
<1>7. CASE c = "G91"
    <2>1. PICK v : v = FALSE
        OBVIOUS
    <2>2. Sets[c] = [absolute |-> v]
        BY <1>1, <1>7, <2>1
    <2>3. b = [a EXCEPT !.absolute = v]
        BY <2>2 DEF With, ReviewState
    <2> QED BY <2>1, <2>3 DEF ReviewState, SameMotion, StillUnderstood
<1>8. CASE c = "G94"
    <2>1. PICK v : v = TRUE
        OBVIOUS
    <2>2. Sets[c] = [perMinute |-> v]
        BY <1>1, <1>8, <2>1
    <2>3. b = [a EXCEPT !.perMinute = v]
        BY <2>2 DEF With, ReviewState
    <2> QED BY <2>1, <2>3 DEF ReviewState, SameMotion, StillUnderstood
<1>9. CASE c = "G95"
    <2>1. PICK v : v = FALSE
        OBVIOUS
    <2>2. Sets[c] = [perMinute |-> v]
        BY <1>1, <1>9, <2>1
    <2>3. b = [a EXCEPT !.perMinute = v]
        BY <2>2 DEF With, ReviewState
    <2> QED BY <1>3, <1>9, <2>1, <2>3 DEF ReviewState, SameMotion, StillUnderstood
<1>10. CASE c = "G96"
    <2>1. PICK v : v = FALSE
        OBVIOUS
    <2>2. Sets[c] = [constantRpm |-> v]
        BY <1>1, <1>10, <2>1
    <2>3. b = [a EXCEPT !.constantRpm = v]
        BY <2>2 DEF With, ReviewState
    <2> QED BY <1>3, <1>10, <2>1, <2>3 DEF ReviewState, SameMotion, StillUnderstood
<1>11. CASE c = "G97"
    <2>1. PICK v : v = TRUE
        OBVIOUS
    <2>2. Sets[c] = [constantRpm |-> v]
        BY <1>1, <1>11, <2>1
    <2>3. b = [a EXCEPT !.constantRpm = v]
        BY <2>2 DEF With, ReviewState
    <2> QED BY <2>1, <2>3 DEF ReviewState, SameMotion, StillUnderstood
<1>12. CASE c = "G80"
    <2>1. PICK v : v = FALSE
        OBVIOUS
    <2>2. Sets[c] = [cycle |-> v]
        BY <1>1, <1>12, <2>1
    <2>3. b = [a EXCEPT !.cycle = v]
        BY <2>2 DEF With, ReviewState
    <2> QED BY <2>1, <2>3 DEF ReviewState, SameMotion, StillUnderstood
<1>13. CASE c = "G81"
    <2>1. PICK v : v = TRUE
        OBVIOUS
    <2>2. Sets[c] = [cycle |-> v]
        BY <1>1, <1>13, <2>1
    <2>3. b = [a EXCEPT !.cycle = v]
        BY <2>2 DEF With, ReviewState
    <2> QED BY <1>3, <1>13, <2>1, <2>3 DEF ReviewState, SameMotion, StillUnderstood
<1>14. CASE c \in {"G54", "G55"}
    <2>1. PICK v \in {"G54", "G55"}, w \in BOOLEAN : Sets[c] = [offset |-> v, hasOffset |-> w]
        BY <1>1, <1>14
    <2>2. b = [a EXCEPT !.offset = v, !.hasOffset = w]
        <3>1. PICK g : g = Sets[c]
            OBVIOUS
        <3>2. DOMAIN g = {"offset", "hasOffset"} /\ g["offset"] = v /\ g["hasOffset"] = w
            BY <2>1, <3>1
        <3>3. b = [x \in DOMAIN a |-> IF x \in DOMAIN g THEN g[x] ELSE a[x]]
            BY <3>1 DEF With
        <3> QED BY <3>2, <3>3 DEF ReviewState
    <2> QED BY <2>2 DEF ReviewState, SameMotion, StillUnderstood
<1>15. CASE c = "G54_1"
    <2>1. PICK v \in BOOLEAN, w \in BOOLEAN : Sets[c] = [hasOffset |-> v, badOffset |-> w]
        BY <1>1, <1>15
    <2>2. b = [a EXCEPT !.hasOffset = v, !.badOffset = w]
        <3>1. PICK g : g = Sets[c]
            OBVIOUS
        <3>2. DOMAIN g = {"hasOffset", "badOffset"} /\ g["hasOffset"] = v /\ g["badOffset"] = w
            BY <2>1, <3>1
        <3>3. b = [x \in DOMAIN a |-> IF x \in DOMAIN g THEN g[x] ELSE a[x]]
            BY <3>1 DEF With
        <3> QED BY <3>2, <3>3 DEF ReviewState
    <2> QED BY <2>2 DEF ReviewState, SameMotion, StillUnderstood
<1> QED BY <1>2, <1>4, <1>5, <1>6, <1>7, <1>8, <1>9, <1>10, <1>11, <1>12, <1>13, <1>14, <1>15

LEMMA MinMaxOfTwo ==
    ASSUME NEW p \in Int, NEW q \in Int
    PROVE  /\ Min({p, q}) = IF p <= q THEN p ELSE q
           /\ Max({p, q}) = IF p <= q THEN q ELSE p
<1>1. PICK m : m = IF p <= q THEN p ELSE q
    OBVIOUS
<1>2. PICK n : n = IF p <= q THEN q ELSE p
    OBVIOUS
<1>3. m \in {p, q} /\ \A y \in {p, q} : m <= y
    BY <1>1
<1>4. n \in {p, q} /\ \A y \in {p, q} : n >= y
    BY <1>2
<1>5. Min({p, q}) = m
    BY <1>3 DEF Min
<1>6. Max({p, q}) = n
    BY <1>4 DEF Max
<1> QED BY <1>1, <1>2, <1>5, <1>6

\* A larger reach finds no less.
LEMMA ReachIsMonotone ==
    ASSUME NEW p \in Point, NEW q \in Point, NEW box \in [Axes -> [lo : Int, hi : Int]],
           NEW r1 \in Int, NEW r2 \in Int, r1 <= r2, Intersects(p, q, box, r1)
    PROVE  Intersects(p, q, box, r2)
<1> SUFFICES ASSUME NEW x \in Axes
             PROVE  Min({p[x], q[x]}) - r2 <= box[x].hi /\ Max({p[x], q[x]}) + r2 >= box[x].lo
    BY DEF Intersects
<1>1. p[x] \in Int /\ q[x] \in Int /\ box[x].lo \in Int /\ box[x].hi \in Int
    BY DEF Point
<1>2. Min({p[x], q[x]}) - r1 <= box[x].hi /\ Max({p[x], q[x]}) + r1 >= box[x].lo
    BY DEF Intersects
<1> QED BY <1>1, <1>2, MinMaxOfTwo

LEMMA RisksGrow ==
    ASSUME NEW s \in Segment, NEW r1 \in Int, NEW r2 \in Int, r1 <= r2
    PROVE  RiskIds(s, TRUE, r1) \subseteq RiskIds(s, TRUE, r2)
<1>1. s.start \in Point /\ s.end \in Point
    BY DEF Segment
<1>2. \A box \in {Fixture, Stock} : Intersects(s.start, s.end, box, r1) => Intersects(s.start, s.end, box, r2)
    BY <1>1, NcAssumption, ReachIsMonotone
<1> QED BY <1>2 DEF RiskIds

\* A point near a chord: what it collides with the chord collides with when the tolerance
\* is added to the reach, and it is far outside only when an end of the chord is outside.
LEMMA ChordBounds ==
    ASSUME NEW r \in Point, NEW p \in Point, NEW q \in Point, NearChord(r, p, q)
    PROVE  /\ Intersects(r, r, Fixture, Clearance) => Intersects(p, q, Fixture, Clearance + ArcTolerance)
           /\ FarOutside(r) => Outside(p) \/ Outside(q)
<1>1. /\ Fixture \in [Axes -> [lo : Int, hi : Int]] /\ Travel \in [Axes -> [lo : Int, hi : Int]]
      /\ Clearance \in Nat /\ ArcTolerance \in Nat \ {0}
    BY NcAssumption
<1>2. ASSUME NEW x \in Axes
      PROVE  /\ r[x] \in Int /\ p[x] \in Int /\ q[x] \in Int
             /\ r[x] >= p[x] - ArcTolerance \/ r[x] >= q[x] - ArcTolerance
             /\ r[x] <= p[x] + ArcTolerance \/ r[x] <= q[x] + ArcTolerance
    <2>1. r[x] \in Int /\ p[x] \in Int /\ q[x] \in Int
        BY DEF Point
    <2>2. r[x] \in (Min({p[x], q[x]}) - ArcTolerance)..(Max({p[x], q[x]}) + ArcTolerance)
        BY DEF NearChord
    <2>3. PICK m, n : m = Min({p[x], q[x]}) /\ n = Max({p[x], q[x]})
        OBVIOUS
    <2>4. m = (IF p[x] <= q[x] THEN p[x] ELSE q[x]) /\ n = (IF p[x] <= q[x] THEN q[x] ELSE p[x])
        BY <2>1, <2>3, MinMaxOfTwo
    <2>5. m \in {p[x], q[x]} /\ n \in {p[x], q[x]} /\ m \in Int /\ n \in Int
        BY <2>1, <2>4
    <2>6. r[x] >= m - ArcTolerance /\ r[x] <= n + ArcTolerance
        BY <1>1, <2>1, <2>2, <2>3, <2>5
    <2> QED BY <2>1, <2>5, <2>6
<1>3. ASSUME Intersects(r, r, Fixture, Clearance)
      PROVE  Intersects(p, q, Fixture, Clearance + ArcTolerance)
    <2> SUFFICES ASSUME NEW x \in Axes
                 PROVE  /\ Min({p[x], q[x]}) - (Clearance + ArcTolerance) <= Fixture[x].hi
                        /\ Max({p[x], q[x]}) + (Clearance + ArcTolerance) >= Fixture[x].lo
        BY DEF Intersects
    <2>1. Min({r[x], r[x]}) - Clearance <= Fixture[x].hi /\ Max({r[x], r[x]}) + Clearance >= Fixture[x].lo
        BY <1>3 DEF Intersects
    <2>2. Min({r[x], r[x]}) = r[x] /\ Max({r[x], r[x]}) = r[x]
        BY <1>2, MinMaxOfTwo
    <2>3. PICK m, n : m = Min({p[x], q[x]}) /\ n = Max({p[x], q[x]})
        OBVIOUS
    <2>4. m = (IF p[x] <= q[x] THEN p[x] ELSE q[x]) /\ n = (IF p[x] <= q[x] THEN q[x] ELSE p[x])
        BY <1>2, <2>3, MinMaxOfTwo
    <2>5. PICK lo \in Int, hi \in Int : lo = Fixture[x].lo /\ hi = Fixture[x].hi
        BY <1>1
    <2>6. m - (Clearance + ArcTolerance) <= hi /\ n + (Clearance + ArcTolerance) >= lo
        BY <1>1, <1>2, <2>1, <2>2, <2>4, <2>5
    <2> QED BY <2>3, <2>5, <2>6
<1>4. ASSUME FarOutside(r) PROVE Outside(p) \/ Outside(q)
    <2>1. PICK x \in Axes : r[x] < Travel[x].lo - ArcTolerance \/ r[x] > Travel[x].hi + ArcTolerance
        BY <1>4 DEF FarOutside
    <2>2. PICK lo \in Int, hi \in Int : lo = Travel[x].lo /\ hi = Travel[x].hi
        BY <1>1
    <2>3. (p[x] < lo \/ p[x] > hi) \/ (q[x] < lo \/ q[x] > hi)
        BY <1>1, <1>2, <2>1, <2>2
    <2> QED BY <2>2, <2>3 DEF Outside
<1> QED BY <1>3, <1>4

\* The words before the motion: nothing of the motion so far changes, and as long as
\* nothing is reported the modes are ones the review understands.
LEMMA ModalKeeps ==
    ASSUME NEW a \in ReviewState, NEW line \in LineType, NEW b, b = Modal(a, line)
    PROVE  /\ b \in ReviewState /\ SameMotion(a, b)
           /\ b.findings = {} =>
                  /\ line.code \notin DOMAIN Reported /\ (line.arc # "none" => b.motion = "arc")
                  /\ StillUnderstood(a, b)
<1>1. PICK c : c = IF line.code \in DOMAIN Sets THEN With(a, Sets[line.code]) ELSE a
    OBVIOUS
<1>2. c \in ReviewState /\ SameMotion(a, c) /\ (line.code \notin DOMAIN Reported => StillUnderstood(a, c))
    <2>1. CASE line.code \in DOMAIN Sets
        BY <1>1, <2>1, WithTyped
    <2>2. CASE line.code \notin DOMAIN Sets
        BY <1>1, <2>2 DEF SameMotion, StillUnderstood
    <2> QED BY <2>1, <2>2
<1>3. PICK reported : reported = IF line.code \in DOMAIN Reported THEN {Reported[line.code]} ELSE {}
    OBVIOUS
<1>4. PICK strayArc : strayArc = IF line.arc # "none" /\ c.motion # "arc" THEN {"arc_words_without_arc"} ELSE {}
    OBVIOUS
<1>5. b = [c EXCEPT !.feed = IF line.f = "none" THEN @ ELSE line.f,
                    !.spindle = IF line.s = "none" THEN @ ELSE line.s,
                    !.findings = @ \cup reported \cup ({line.other} \ {"none"}) \cup strayArc]
    BY <1>1, <1>3, <1>4 DEF Modal
<1>6. reported \subseteq Reports /\ {line.other} \subseteq Reports /\ strayArc \subseteq Reports
    BY <1>3, <1>4 DEF LineType, Reports
<1>7. PICK newFeed, newSpindle, findings :
          /\ newFeed = IF line.f = "none" THEN c.feed ELSE line.f
          /\ newSpindle = IF line.s = "none" THEN c.spindle ELSE line.s
          /\ findings = c.findings \cup reported \cup ({line.other} \ {"none"}) \cup strayArc
    OBVIOUS
<1>10. b = [c EXCEPT !.feed = newFeed, !.spindle = newSpindle, !.findings = findings]
    BY <1>2, <1>5, <1>7 DEF ReviewState
<1>11. /\ newFeed \in {"none", "ok", "over"} /\ newSpindle \in {"none", "ok", "over"}
       /\ findings \in SUBSET Reports
    <2>1. c.findings \subseteq Reports
        BY <1>2 DEF ReviewState
    <2>2. {c.feed, line.f, c.spindle, line.s} \subseteq {"none", "ok", "over"}
        BY <1>2 DEF ReviewState, LineType
    <2>3. newFeed \in {"none", "ok", "over"} /\ newSpindle \in {"none", "ok", "over"}
        BY <1>7, <2>2
    <2>4. findings \in SUBSET Reports
        BY <1>6, <1>7, <2>1
    <2> QED BY <2>3, <2>4
<1>8. /\ b \in ReviewState /\ SameMotion(c, b) /\ StillUnderstood(c, b)
      /\ b.motion = c.motion /\ b.findings = findings
    BY <1>2, <1>10, <1>11 DEF ReviewState, SameMotion, StillUnderstood
<1>9. b.findings = {} => line.code \notin DOMAIN Reported /\ (line.arc # "none" => b.motion = "arc")
    BY <1>3, <1>4, <1>7, <1>8
<1> QED BY <1>2, <1>8, <1>9 DEF SameMotion, StillUnderstood

LEMMA LineWords ==
    ASSUME NEW line \in LineType
    PROVE  DOMAIN line.words \subseteq Axes /\ \A x \in DOMAIN line.words : line.words[x] \in Int
<1>1. PICK D \in SUBSET Axes : line.words \in [D -> Coordinates]
    BY DEF LineType
<1> QED BY <1>1, NcAssumption

LEMMA ShiftTyped ==
    ASSUME NEW p \in Point, NEW o \in Point
    PROVE  Shift(p, o) \in Point /\ \A x \in Axes : Shift(p, o)[x] = p[x] + o[x]
BY DEF Shift, Point

\* From places that differ by the origin, review and controller come to places that do.
LEMMA TargetFollows ==
    ASSUME NEW a \in ReviewState, NEW line \in LineType, NEW p \in Point, NEW o \in Point,
           NEW r, r = Shift(p, o)
    PROVE  /\ Target(a, line, p, Zero) \in Point
           /\ Target(a, line, r, o) = Shift(Target(a, line, p, Zero), o)
<1>1. PICK k : k = [x \in Axes |-> line.words[x] * unitFactor(a)]
    OBVIOUS
<1>2. \A x \in DOMAIN line.words : x \in Axes /\ k[x] = line.words[x] * unitFactor(a) /\ k[x] \in Int
    <2>1. unitFactor(a) \in Int
        BY NcAssumption DEF unitFactor
    <2> QED BY <1>1, <2>1, LineWords
<1>3. PICK e : e = [x \in Axes |-> IF x \notin DOMAIN line.words THEN p[x]
                                  ELSE k[x] + (IF a.absolute THEN 0 ELSE p[x])]
    OBVIOUS
<1>4. Target(a, line, p, Zero) = e
    BY <1>2, <1>3 DEF Target, Zero
<1>5. e \in Point
    BY <1>2, <1>3 DEF Point
<1>6. Target(a, line, r, o) = [x \in Axes |-> e[x] + o[x]]
    <2>1. ASSUME NEW x \in Axes
          PROVE  (IF x \notin DOMAIN line.words THEN r[x]
                  ELSE line.words[x] * unitFactor(a) + (IF a.absolute THEN o[x] ELSE r[x])) = e[x] + o[x]
        <3>1. r[x] = p[x] + o[x] /\ p[x] \in Int /\ o[x] \in Int
            BY ShiftTyped DEF Point
        <3>2. CASE x \notin DOMAIN line.words
            BY <1>3, <3>1, <3>2
        <3>3. CASE x \in DOMAIN line.words
            BY <1>2, <1>3, <3>1, <3>3
        <3> QED BY <3>2, <3>3
    <2> QED BY <2>1 DEF Target
<1> QED BY <1>4, <1>5, <1>6 DEF Shift

\* A path that is one of the segments.
LEMMA SegmentCovers ==
    ASSUME NEW segments, NEW s \in segments, s \in Segment, NEW path,
           path.motion = s.motion, path.start = s.start, path.end = s.end, path.feed = s.feed,
           path.spindle = s.spindle, NEW reach \in Int, Clearance <= reach
    PROVE  Covered(RiskIds(path, TRUE, Clearance), segments, reach)
<1>1. RiskIds(path, TRUE, Clearance) = RiskIds(s, TRUE, Clearance)
    BY DEF RiskIds
<1>2. RiskIds(s, TRUE, Clearance) \subseteq RiskIds(s, TRUE, reach)
    <2>1. Clearance \in Int
        BY NcAssumption
    <2> QED BY <2>1, RisksGrow
<1> QED BY <1>1, <1>2 DEF Covered

\* A point of an arc that is near one of its chords, and the ends of the chord.
LEMMA ArcPointCovered ==
    ASSUME NEW segments, NEW s \in segments, s \in Segment, NEW r \in Point, NearChord(r, s.start, s.end),
           NEW path, path.motion = "feed", path.start = r, path.end = r, path.feed = s.feed,
           path.spindle = s.spindle, NEW reach \in Int, Clearance + ArcTolerance <= reach
    PROVE  /\ Covered(BendRisks(path) \ {"arc_overtravel"}, segments, reach)
           /\ r \in {s.start, s.end} => Covered(RiskIds(path, TRUE, Clearance), segments, reach)
<1>1. PICK p \in Point, q \in Point : p = s.start /\ q = s.end
    BY DEF Segment
<1>2. /\ Intersects(r, r, Fixture, Clearance) => Intersects(p, q, Fixture, Clearance + ArcTolerance)
      /\ FarOutside(r) => Outside(p) \/ Outside(q)
    BY <1>1, ChordBounds
<1>3. Intersects(r, r, Fixture, Clearance) => Intersects(p, q, Fixture, reach)
    <2>1. Clearance + ArcTolerance \in Int /\ Fixture \in [Axes -> [lo : Int, hi : Int]]
        BY NcAssumption
    <2> QED BY <1>2, <2>1, ReachIsMonotone
<1>4. ASSUME NEW id \in RiskIds(path, TRUE, Clearance), id # "machine_overtravel"
      PROVE  id \in RiskIds(s, TRUE, reach)
    <2>1. CASE id \in {"feed_limit", "spindle_limit"}
        BY <1>4, <2>1 DEF RiskIds
    <2>2. CASE id = "fixture_swept_envelope"
        <3>1. Intersects(p, q, Fixture, reach)
            BY <1>3, <1>4, <2>2 DEF RiskIds
        <3> QED BY <1>1, <2>2, <3>1 DEF RiskIds, Risks
    <2> QED BY <1>4, <2>1, <2>2 DEF RiskIds
<1>5. Outside(p) \/ Outside(q) => "machine_overtravel" \in RiskIds(s, TRUE, reach)
    BY <1>1 DEF RiskIds, Risks
<1>6. Covered(BendRisks(path) \ {"arc_overtravel"}, segments, reach)
    <2> SUFFICES ASSUME NEW id \in BendRisks(path), id # "arc_overtravel"
                 PROVE  id \in RiskIds(s, TRUE, reach)
        BY DEF Covered
    <2>1. (id \in RiskIds(path, TRUE, Clearance) /\ id # "machine_overtravel")
          \/ (id = "machine_overtravel" /\ FarOutside(r))
        BY DEF BendRisks
    <2> QED BY <1>2, <1>4, <1>5, <2>1
<1>7. ASSUME r \in {s.start, s.end} PROVE Covered(RiskIds(path, TRUE, Clearance), segments, reach)
    <2> SUFFICES ASSUME NEW id \in RiskIds(path, TRUE, Clearance)
                 PROVE  id \in RiskIds(s, TRUE, reach)
        BY DEF Covered
    <2>1. CASE id = "machine_overtravel"
        <3>1. Outside(r)
            BY <2>1 DEF RiskIds
        <3> QED BY <1>1, <1>5, <1>7, <2>1, <3>1
    <2> QED BY <1>4, <2>1
<1> QED BY <1>6, <1>7

\* The ends of a chord are near it.
LEMMA EndsAreNear ==
    ASSUME NEW p \in Point, NEW q \in Point
    PROVE  NearChord(p, p, q) /\ NearChord(q, p, q)
<1> SUFFICES ASSUME NEW x \in Axes, NEW m, NEW n, m = Min({p[x], q[x]}), n = Max({p[x], q[x]})
             PROVE  p[x] \in (m - ArcTolerance)..(n + ArcTolerance) /\ q[x] \in (m - ArcTolerance)..(n + ArcTolerance)
    BY DEF NearChord
<1>1. p[x] \in Int /\ q[x] \in Int /\ ArcTolerance \in Nat
    BY NcAssumption DEF Point
<1>2. m = (IF p[x] <= q[x] THEN p[x] ELSE q[x]) /\ n = (IF p[x] <= q[x] THEN q[x] ELSE p[x])
    BY <1>1, MinMaxOfTwo
<1>3. m \in Int /\ n \in Int /\ p[x] >= m /\ q[x] >= m /\ p[x] <= n /\ q[x] <= n
    BY <1>1, <1>2
<1>4. /\ m - ArcTolerance \in Int /\ n + ArcTolerance \in Int
      /\ m - ArcTolerance <= p[x] /\ p[x] <= n + ArcTolerance
      /\ m - ArcTolerance <= q[x] /\ q[x] <= n + ArcTolerance
    BY <1>1, <1>3
<1> QED BY <1>1, <1>4

\* What the controller does in a line with a motion is covered by the segments of the
\* review, when the review knows the origin.
LEMMA MotionCovered ==
    ASSUME NEW a \in ReviewState, NEW line \in LineType, NEW end \in Point, NEW o \in Point,
           Origin(a) = o, a.motion # "none", a.constantRpm = TRUE,
           NEW new, new = Segments(a, line, end),
           NEW p, p = Shift(a.position, o), NEW q, q = Shift(end, o), NEW w, w = Shift(p, line.via),
           NEW reach \in Int, Clearance + (IF a.motion = "arc" THEN ArcTolerance ELSE 0) <= reach
    PROVE  /\ new \subseteq Segment
           /\ a.motion = "arc" => \E s \in new : s.arc /\ s.motion = "feed"
           /\ a.motion # "arc" => Covered(RiskIds(PathOf(a, p, q), TRUE, Clearance), new, reach)
           /\ a.motion = "arc" =>
                  \A bend \in Point : NearChord(bend, p, w) \/ NearChord(bend, w, q) =>
                      Covered(ArcRisks(a, p, w, q, bend) \ {"arc_overtravel"}, new, reach)
<1>1. PICK v : v = Shift(a.position, line.via)
    OBVIOUS
<1>2. /\ a.position \in Point /\ line.via \in Point /\ v \in Point
      /\ {a.feed, a.spindle} \subseteq {"none", "ok", "over"}
    <2>1. a.position \in Point /\ {a.feed, a.spindle} \subseteq {"none", "ok", "over"}
        BY DEF ReviewState
    <2>2. line.via \in Point
        BY DEF LineType, Point
    <2> QED BY <1>1, <2>1, <2>2, ShiftTyped
<1>3. p \in Point /\ q \in Point /\ w \in Point
    BY <1>2, ShiftTyped
<1>4. w = Shift(v, o)
    <2>1. \A x \in Axes : /\ w[x] = p[x] + line.via[x] /\ p[x] = a.position[x] + o[x]
                          /\ v[x] = a.position[x] + line.via[x]
                          /\ o[x] \in Int /\ a.position[x] \in Int /\ line.via[x] \in Int
        BY <1>1, <1>2, <1>3, ShiftTyped DEF Point
    <2>2. \A x \in Axes : w[x] = v[x] + o[x]
        BY <2>1
    <2> QED BY <1>3, <2>2 DEF Shift, Point
<1>5. Clearance <= reach /\ (a.motion = "arc" => Clearance + ArcTolerance <= reach)
    BY NcAssumption
<1>6. CASE a.motion # "arc"
    <2>1. PICK s : s = [motion |-> IF a.motion = "rapid" THEN "rapid" ELSE "feed", start |-> p, end |-> q,
                        feed |-> IF a.motion = "rapid" THEN "none" ELSE a.feed, spindle |-> a.spindle,
                        arc |-> FALSE]
        OBVIOUS
    <2>2. new = {s}
        BY <1>3, <1>6, <2>1 DEF Segments
    <2>3. s \in Segment
        BY <1>2, <1>3, <2>1 DEF Segment
    <2>4. PICK path : path = PathOf(a, p, q)
        OBVIOUS
    <2>5. /\ path.motion = s.motion /\ path.start = s.start /\ path.end = s.end /\ path.feed = s.feed
          /\ path.spindle = s.spindle /\ s \in new
        BY <2>1, <2>2, <2>4 DEF PathOf
    <2>6. Covered(RiskIds(path, TRUE, Clearance), new, reach)
        BY <1>5, <2>3, <2>5, SegmentCovers
    <2> QED BY <1>6, <2>2, <2>3, <2>4, <2>6
<1>7. CASE a.motion = "arc"
    <2>1. PICK s, t : /\ s = [motion |-> "feed", start |-> p, end |-> w, feed |-> a.feed,
                              spindle |-> a.spindle, arc |-> TRUE]
                      /\ t = [motion |-> "feed", start |-> w, end |-> q, feed |-> a.feed,
                              spindle |-> a.spindle, arc |-> TRUE]
        OBVIOUS
    <2>2. new = {s, t}
        BY <1>1, <1>4, <1>7, <2>1 DEF Segments
    <2>3. s \in Segment /\ t \in Segment /\ s \in new /\ t \in new /\ s.arc /\ s.motion = "feed"
        BY <1>2, <1>3, <2>1, <2>2 DEF Segment
    <2>4. ASSUME NEW c \in {s, t}, NEW r \in Point, NearChord(r, c.start, c.end),
                 NEW path, path = PathOf(a, r, r)
          PROVE  /\ Covered(BendRisks(path) \ {"arc_overtravel"}, new, reach)
                 /\ r \in {c.start, c.end} => Covered(RiskIds(path, TRUE, Clearance), new, reach)
        <3>1. /\ path.motion = "feed" /\ path.start = r /\ path.end = r /\ path.feed = c.feed
              /\ path.spindle = c.spindle
            BY <1>7, <2>1, <2>4 DEF PathOf
        <3>2. c \in new /\ c \in Segment
            BY <2>3
        <3> QED BY <1>5, <1>7, <2>4, <3>1, <3>2, ArcPointCovered
    <2>5. ASSUME NEW r \in {p, w, q} PROVE Covered(RiskIds(PathOf(a, r, r), TRUE, Clearance), new, reach)
        <3>1. PICK c \in {s, t} : r \in {c.start, c.end}
            BY <2>1
        <3>2. NearChord(r, c.start, c.end)
            BY <1>3, <2>1, <3>1, EndsAreNear
        <3>3. PICK path : path = PathOf(a, r, r)
            OBVIOUS
        <3>4. Covered(RiskIds(path, TRUE, Clearance), new, reach)
            BY <1>3, <2>4, <3>1, <3>2, <3>3
        <3> QED BY <3>3, <3>4
    <2>6. ASSUME NEW bend \in Point, NearChord(bend, p, w) \/ NearChord(bend, w, q)
          PROVE  Covered(ArcRisks(a, p, w, q, bend) \ {"arc_overtravel"}, new, reach)
        <3>1. PICK c \in {s, t} : NearChord(bend, c.start, c.end)
            BY <2>1, <2>6
        <3>2. PICK path : path = PathOf(a, bend, bend)
            OBVIOUS
        <3>3. Covered(BendRisks(path) \ {"arc_overtravel"}, new, reach)
            BY <2>4, <3>1, <3>2
        <3>4. \A r \in {p, w, q} : Covered(RiskIds(PathOf(a, r, r), TRUE, Clearance), new, reach)
            BY <2>5
        <3>5. ASSUME NEW id \in ArcRisks(a, p, w, q, bend)
              PROVE  id \in BendRisks(path) \/ \E r \in {p, w, q} : id \in RiskIds(PathOf(a, r, r), TRUE, Clearance)
            <4>1. PICK bends, family :
                     /\ bends = BendRisks(PathOf(a, bend, bend))
                     /\ family = {RiskIds(PathOf(a, r, r), TRUE, Clearance) : r \in {p, w, q}}
                OBVIOUS
            <4>2. ArcRisks(a, p, w, q, bend) = bends \cup UNION family
                BY <4>1, Zenon DEF ArcRisks
            <4>3. id \in bends \/ \E risks \in family : id \in risks
                BY <3>5, <4>2
            <4>4. bends = BendRisks(path)
                BY <3>2, <4>1
            <4>5. ASSUME NEW risks \in family, id \in risks
                  PROVE  \E r \in {p, w, q} : id \in RiskIds(PathOf(a, r, r), TRUE, Clearance)
                <5>1. \E r \in {p, w, q} : risks = RiskIds(PathOf(a, r, r), TRUE, Clearance)
                    BY <4>1
                <5> QED BY <4>5, <5>1
            <4> QED BY <4>3, <4>4, <4>5
        <3> SUFFICES ASSUME NEW id \in ArcRisks(a, p, w, q, bend), id # "arc_overtravel"
                     PROVE  \E c_1 \in new : id \in RiskIds(c_1, TRUE, reach)
            BY DEF Covered
        <3>6. CASE id \in BendRisks(path)
            BY <3>3, <3>6 DEF Covered
        <3>7. ASSUME NEW r \in {p, w, q}, id \in RiskIds(PathOf(a, r, r), TRUE, Clearance)
              PROVE  \E c_1 \in new : id \in RiskIds(c_1, TRUE, reach)
            BY <3>4, <3>7 DEF Covered
        <3> QED BY <3>5, <3>6, <3>7
    <2> QED BY <1>7, <2>2, <2>3, <2>6
<1> QED BY <1>6, <1>7

LEMMA ArcExecuted ==
    ASSUME NEW line, Execute(line), nc.stopped = FALSE, HasMotion(Modal(nc, line), line),
           Modal(nc, line).motion = "arc"
    PROVE  \E bend \in {Shift(at, shape) : shape \in Bends} :
              /\ NearChord(bend, at, Shift(at, line.via)) \/ NearChord(bend, Shift(at, line.via), at')
              /\ harm' = harm \cup ArcRisks(Modal(nc, line), at, Shift(at, line.via), at', bend)
<1> DEFINE end == Target(Modal(nc, line), line, at,
                         IF input.frame = "work" THEN Origins[Modal(nc, line).offset] ELSE Zero)
<1>1. PICK bend \in {Shift(at, shape) : shape \in Bends} :
         /\ NearChord(bend, at, Shift(at, line.via)) \/ NearChord(bend, Shift(at, line.via), end)
         /\ harm' = harm \cup BendRisks(PathOf(Modal(nc, line), bend, bend))
                         \cup UNION {RiskIds(PathOf(Modal(nc, line), r, r), TRUE, Clearance) :
                                         r \in {at, Shift(at, line.via), end}}
    BY DEF Execute, PathOf
<1>2. PICK bends, ends :
         /\ bends = BendRisks(PathOf(Modal(nc, line), bend, bend))
         /\ ends = UNION {RiskIds(PathOf(Modal(nc, line), r, r), TRUE, Clearance) :
                             r \in {at, Shift(at, line.via), end}}
    OBVIOUS
<1>3. harm' = harm \cup (bends \cup ends)
    BY <1>1, <1>2
<1>4. bends \cup ends = ArcRisks(Modal(nc, line), at, Shift(at, line.via), end, bend)
    BY <1>2, Zenon DEF ArcRisks
<1>5. at' = end
    BY DEF Execute
<1> HIDE DEF end
<1> QED BY <1>1, <1>3, <1>4, <1>5

LEMMA OriginsTyped == WorkOrigin \in Point /\ \A a \in ReviewState : Origin(a) \in Point
BY NcAssumption DEF WorkOrigin, Origin, Zero, Point, ReviewState

LEMMA CoverGrows ==
    ASSUME NEW ids, NEW old \in SUBSET Segment, NEW new \in SUBSET Segment,
           NEW r1 \in Int, NEW r2 \in Int, r1 <= r2, Covered(ids, old, r1)
    PROVE  Covered(ids, old \cup new, r2)
BY RisksGrow DEF Covered

LEMMA NcInvInit == NcInit => NcInv
<1> SUFFICES ASSUME NcInit PROVE NcInv
    OBVIOUS
<1>1. input \in Inputs /\ input.motion \in {"none", "rapid", "feed"}
    <2>1. DOMAIN Origins = {"G54", "G55"}
        BY NcAssumption
    <2> QED BY <2>1 DEF NcInit, Inputs
<1>2. nc = Fresh(input.motion) /\ harm = {} /\ at = WorkOrigin
    BY DEF NcInit, WorkOrigin
<1>3. Zero \in Point
    BY DEF Zero, Point
<1>4. /\ nc \in ReviewState /\ nc.offset = "G54" /\ nc.cycle = FALSE /\ nc.constantRpm = TRUE
      /\ nc.stopped = FALSE /\ nc.used = {} /\ nc.position = Zero
    BY <1>1, <1>2, <1>3 DEF Fresh, ReviewState
<1>5. at = Shift(nc.position, WorkOrigin)
    <2>1. \A x \in Axes : Zero[x] + WorkOrigin[x] = WorkOrigin[x]
        BY OriginsTyped DEF Zero, Point
    <2> QED BY <1>2, <1>4, <2>1, OriginsTyped DEF Shift, Point
<1> QED BY <1>1, <1>2, <1>4, <1>5 DEF NcInv, NcFollows, Covered

LEMMA NcInvStep ==
    ASSUME NcInv, NEW line \in Settings \cup Moves, Line(line)
    PROVE  NcInv'
<1>1. /\ line \in LineType /\ NcFollows /\ ReviewLine(line) /\ Execute(line) /\ input' = input
      /\ nc.findings = {} /\ rebased = FALSE
    BY LinesTyped DEF NcInv, Line, Followed
<1> SUFFICES ASSUME Followed' PROVE NcFollows'
    BY <1>1 DEF NcInv
<1>2. PICK a : a = Modal(nc, line)
    OBVIOUS
<1>3. /\ a \in ReviewState /\ SameMotion(nc, a)
      /\ a.findings = {} => /\ line.code \notin DOMAIN Reported /\ (line.arc # "none" => a.motion = "arc")
                           /\ StillUnderstood(nc, a)
    BY <1>1, <1>2, ModalKeeps DEF NcFollows
<1>4. nc'.findings = {} /\ a.offset = "G54"
    BY <1>1, <1>2 DEF Followed, Execute, NcFollows
<1>5. nc' = IF HasMotion(a, line) THEN Moved(a, line) ELSE a
    <2>1. nc.stopped = FALSE
        BY <1>1 DEF NcFollows
    <2>2. ~line.huge
        <3>1. CASE line.huge
            <4>1. nc' = [nc EXCEPT !.stopped = TRUE, !.findings = @ \cup {"non_finite_word"}]
                BY <1>1, <2>1, <3>1 DEF ReviewLine
            <4>2. nc'.findings = nc.findings \cup {"non_finite_word"}
                BY <1>1, <4>1 DEF NcFollows, ReviewState
            <4> QED BY <1>4, <4>2
        <3> QED BY <3>1
    <2> QED BY <1>1, <1>2, <2>1, <2>2 DEF ReviewLine
<1>6. PICK end : end = NextPosition(a, line)
    OBVIOUS
<1>7. /\ end \in Point /\ at' = Shift(end, WorkOrigin)
      /\ a.position \in Point /\ at = Shift(a.position, WorkOrigin)
    <2>1. at' = Target(a, line, at, WorkOrigin)
        BY <1>1, <1>2, <1>4 DEF Execute, WorkOrigin
    <2>2. at = Shift(a.position, WorkOrigin) /\ a.position \in Point
        BY <1>1, <1>3 DEF NcFollows, SameMotion, ReviewState
    <2> QED BY <1>1, <1>3, <1>6, <2>1, <2>2, OriginsTyped, TargetFollows DEF NextPosition
<1>8. WorkOrigin' = WorkOrigin /\ Origin(a) = Origin(nc)
    BY <1>1, <1>4 DEF WorkOrigin, Origin, NcFollows
<1>9. CASE ~HasMotion(a, line)
    <2>1. nc' = a /\ harm' = harm
        BY <1>1, <1>2, <1>5, <1>9 DEF Execute
    <2>2. end = a.position
        BY <1>6, <1>7, <1>9 DEF HasMotion, NextPosition, Target, Point
    <2>3. /\ nc'.offset = "G54" /\ nc'.cycle = FALSE /\ nc'.constantRpm = TRUE /\ nc'.stopped = FALSE
          /\ nc'.used \subseteq {"G54"} /\ nc'.segments = nc.segments
        BY <1>1, <1>3, <1>4, <2>1 DEF NcFollows, SameMotion, StillUnderstood
    <2>4. Origin(nc)' = Origin(nc)
        BY <1>1, <1>4, <2>1 DEF Origin, NcFollows
    <2>5. (Origin(nc) = WorkOrigin)' => Covered(harm \ {"arc_overtravel"}, nc.segments, Reach(nc.segments))'
        BY <1>1, <1>8, <2>1, <2>3, <2>4 DEF NcFollows, Covered, Reach
    <2>6. "arc_overtravel" \in harm' => \E s \in nc'.segments : s.motion = "feed"
        BY <1>1, <2>1, <2>3 DEF NcFollows
    <2> QED BY <1>3, <1>7, <1>8, <2>1, <2>2, <2>3, <2>5, <2>6 DEF NcFollows
<1>10. CASE HasMotion(a, line)
    <2>1. PICK new : new = Segments(a, line, end)
        OBVIOUS
    <2>2. PICK used : used = IF input.frame = "work" THEN a.used \cup {a.offset} ELSE a.used
        OBVIOUS
    <2>3. PICK b : b = [a EXCEPT !.position = end]
        OBVIOUS
    <2>4. b \in ReviewState /\ b.findings = a.findings /\ b.segments = a.segments /\ b.used = a.used
        BY <1>3, <1>7, <2>3 DEF ReviewState
    <2>5. \/ nc' = [a EXCEPT !.stopped = TRUE, !.findings = @ \cup {"coordinate_range"}]
          \/ nc' = b /\ (a.cycle \/ line.code \in {"G81", "G53"})
          \/ Unparsed(a, line) # {} /\ nc' = [b EXCEPT !.findings = @ \cup Unparsed(a, line)]
          \/ Unparsed(a, line) = {} /\ nc' = [b EXCEPT !.segments = @ \cup new, !.used = used]
        BY <1>5, <1>6, <1>10, <2>1, <2>2, <2>3, <2>4 DEF Moved
    <2>6. nc' # [a EXCEPT !.stopped = TRUE, !.findings = @ \cup {"coordinate_range"}]
        BY <1>3, <1>4 DEF ReviewState
    <2>7. ~(Unparsed(a, line) # {} /\ nc' = [b EXCEPT !.findings = @ \cup Unparsed(a, line)])
        BY <1>4, <2>4 DEF ReviewState
    <2>8. a.findings = {} /\ a.cycle = FALSE /\ a.constantRpm = TRUE /\ line.code \notin DOMAIN Reported
        <3>1. a.findings = {}
            BY <1>4, <2>4, <2>5, <2>6, <2>7 DEF ReviewState
        <3> QED BY <1>1, <1>3, <3>1 DEF NcFollows, StillUnderstood
    <2>9. {"G81", "G53"} \subseteq DOMAIN Reported
        BY DEF Reported
    <2>10. Unparsed(a, line) = {} /\ nc' = [b EXCEPT !.segments = @ \cup new, !.used = used]
        BY <2>5, <2>6, <2>7, <2>8, <2>9
    <2>11. a.motion # "none"
        BY <2>10 DEF Unparsed
    <2>12. PICK bend \in Point :
              \/ a.motion # "arc" /\ harm' = harm \cup RiskIds(PathOf(a, at, at'), TRUE, Clearance)
              \/ /\ a.motion = "arc" /\ harm' = harm \cup ArcRisks(a, at, Shift(at, line.via), at', bend)
                 /\ NearChord(bend, at, Shift(at, line.via)) \/ NearChord(bend, Shift(at, line.via), at')
        <3>1. nc.stopped = FALSE
            BY <1>1 DEF NcFollows
        <3>2. CASE a.motion # "arc"
            <4>1. harm' = harm \cup RiskIds(PathOf(a, at, at'), TRUE, Clearance)
                BY <1>1, <1>2, <1>10, <3>1, <3>2 DEF Execute, PathOf
            <4> QED BY <1>7, <3>2, <4>1
        <3>3. CASE a.motion = "arc"
            <4>1. PICK bend \in {Shift(at, shape) : shape \in Bends} :
                     /\ NearChord(bend, at, Shift(at, line.via)) \/ NearChord(bend, Shift(at, line.via), at')
                     /\ harm' = harm \cup ArcRisks(a, at, Shift(at, line.via), at', bend)
                BY <1>1, <1>2, <1>10, <3>1, <3>3, ArcExecuted
            <4>2. bend \in Point
                <5>1. Bends \subseteq Point /\ at \in Point
                    BY <1>7, NcAssumption, OriginsTyped, ShiftTyped DEF Point
                <5> QED BY <4>1, <5>1, ShiftTyped
            <4> QED BY <3>3, <4>1, <4>2
        <3> QED BY <3>2, <3>3
    <2>13. PICK w : w = Shift(at, line.via)
        OBVIOUS
    <2>14. PICK o \in Point : o = Origin(a)
        BY <1>3, OriginsTyped
    <2>15. PICK p, q, v : p = Shift(a.position, o) /\ q = Shift(end, o) /\ v = Shift(p, line.via)
        OBVIOUS
    <2>16. ASSUME NEW reach \in Int, Clearance + (IF a.motion = "arc" THEN ArcTolerance ELSE 0) <= reach
           PROVE  /\ new \subseteq Segment /\ (a.motion = "arc" => \E s \in new : s.arc /\ s.motion = "feed")
                  /\ a.motion # "arc" => Covered(RiskIds(PathOf(a, p, q), TRUE, Clearance), new, reach)
                  /\ a.motion = "arc" =>
                         \A r \in Point : NearChord(r, p, v) \/ NearChord(r, v, q) =>
                             Covered(ArcRisks(a, p, v, q, r) \ {"arc_overtravel"}, new, reach)
        <3>1. a \in ReviewState /\ line \in LineType /\ end \in Point /\ Origin(a) = o /\ a.constantRpm = TRUE
            BY <1>1, <1>3, <1>7, <2>8, <2>14
        <3> QED BY <3>1, <2>1, <2>11, <2>15, <2>16, MotionCovered
    <2>17. Clearance \in Nat /\ ArcTolerance \in Nat
        BY NcAssumption
    <2>18. new \subseteq Segment /\ (a.motion = "arc" => \E s \in new : s.arc /\ s.motion = "feed")
        <3>1. PICK reach : reach = Clearance + ArcTolerance
            OBVIOUS
        <3>2. reach \in Int /\ Clearance + (IF a.motion = "arc" THEN ArcTolerance ELSE 0) <= reach
            BY <2>17, <3>1
        <3> QED BY <2>16, <3>2
    <2>19. PICK old \in SUBSET Segment : old = nc.segments
        BY <1>1 DEF NcFollows, ReviewState
    <2>20. PICK r1 \in Int, r2 \in Int : r1 = Reach(old) /\ r2 = Reach(old \cup new)
        BY <2>17 DEF Reach
    <2>21. r1 <= r2 /\ Clearance + (IF a.motion = "arc" THEN ArcTolerance ELSE 0) <= r2
        BY <2>17, <2>18, <2>20 DEF Reach
    <2>22. used \subseteq {"G54"} /\ used \in SUBSET {"G54", "G55"}
        BY <1>1, <1>3, <1>4, <2>2 DEF NcFollows, SameMotion
    <2>23. /\ nc' \in ReviewState /\ nc'.position = end /\ nc'.segments = old \cup new /\ nc'.used = used
           /\ nc'.offset = "G54" /\ nc'.cycle = FALSE /\ nc'.constantRpm = TRUE /\ nc'.stopped = FALSE
        <3>1. a.segments = old /\ a.stopped = FALSE
            BY <1>1, <1>3, <2>19 DEF NcFollows, SameMotion
        <3>2. PICK segments \in SUBSET Segment : segments = b.segments \cup new /\ segments = old \cup new
            BY <2>4, <2>18, <3>1
        <3>3. nc' = [b EXCEPT !.segments = segments, !.used = used]
            BY <2>4, <2>10, <3>2 DEF ReviewState
        <3>4. /\ b.position = end /\ b.offset = a.offset /\ b.cycle = a.cycle /\ b.constantRpm = a.constantRpm
              /\ b.stopped = a.stopped
            BY <1>3, <2>3 DEF ReviewState
        <3> QED BY <1>4, <2>4, <2>8, <2>22, <3>1, <3>2, <3>3, <3>4 DEF ReviewState
    <2>24. Origin(nc)' = o /\ o = Origin(nc)
        BY <1>1, <1>4, <1>8, <2>14, <2>23 DEF Origin
    <2>25. ASSUME o = WorkOrigin PROVE Covered(harm' \ {"arc_overtravel"}, old \cup new, r2)
        <3>1. p = at /\ q = at' /\ v = w
            BY <1>7, <2>13, <2>15, <2>25
        <3>2. Covered(harm \ {"arc_overtravel"}, old, r1)
            BY <1>1, <2>19, <2>20, <2>24, <2>25 DEF NcFollows
        <3>3. Covered(harm \ {"arc_overtravel"}, old \cup new, r2)
            BY <2>18, <2>21, <3>2, CoverGrows
        <3>4. PICK risks : /\ harm' = harm \cup risks
                           /\ Covered(risks \ {"arc_overtravel"}, new, r2)
            <4>1. CASE a.motion # "arc"
                <5>1. PICK risks : risks = RiskIds(PathOf(a, at, at'), TRUE, Clearance)
                    OBVIOUS
                <5>2. harm' = harm \cup risks /\ Covered(risks, new, r2)
                    BY <2>12, <2>16, <2>21, <3>1, <4>1, <5>1
                <5> QED BY <5>2 DEF Covered
            <4>2. CASE a.motion = "arc"
                <5>1. PICK risks : risks = ArcRisks(a, at, w, at', bend)
                    OBVIOUS
                <5>2. harm' = harm \cup risks /\ (NearChord(bend, at, w) \/ NearChord(bend, w, at'))
                    BY <2>12, <2>13, <4>2, <5>1
                <5>3. Covered(risks \ {"arc_overtravel"}, new, r2)
                    BY <2>16, <2>21, <3>1, <4>2, <5>1, <5>2
                <5> QED BY <5>2, <5>3
            <4> QED BY <4>1, <4>2
        <3> QED BY <3>3, <3>4 DEF Covered
    <2>26. (Origin(nc) = WorkOrigin => Covered(harm \ {"arc_overtravel"}, nc.segments, Reach(nc.segments)))'
        <3>1. Reach(nc.segments)' = r2
            BY <2>20, <2>23 DEF Reach
        <3> QED BY <1>8, <2>23, <2>24, <2>25, <3>1 DEF Covered
    <2>27. "arc_overtravel" \in harm' => \E s \in nc'.segments : s.motion = "feed"
        <3>1. CASE a.motion = "arc"
            BY <2>18, <2>23, <3>1
        <3>2. CASE a.motion # "arc"
            <4>1. PICK risks : risks = RiskIds(PathOf(a, at, at'), TRUE, Clearance)
                OBVIOUS
            <4>2. "arc_overtravel" \notin risks
                BY <4>1 DEF RiskIds, Risks
            <4>3. harm' = harm \cup risks
                BY <2>12, <3>2, <4>1
            <4>4. "arc_overtravel" \in harm => \E s \in old : s.motion = "feed"
                BY <1>1, <2>19 DEF NcFollows
            <4> QED BY <2>23, <4>2, <4>3, <4>4
        <3> QED BY <3>1, <3>2
    <2> QED BY <1>7, <1>8, <2>22, <2>23, <2>26, <2>27 DEF NcFollows
<1> QED BY <1>9, <1>10

\* What the invariant says of the verdict.
LEMMA NcVerdictSound ==
    ASSUME NcInv
    PROVE  NcReviewSound
<1>1. ASSUME travelVerified, nc.findings = {}, ~rebased
      PROVE  /\ harm \ {"arc_overtravel"} \subseteq risk
             /\ "arc_overtravel" \in harm => unknownMoves
    <2>1. NcFollows
        BY <1>1 DEF NcInv, Followed
    <2>2. Origin(nc) = WorkOrigin
        BY <1>1, <2>1 DEF NcInv, Inputs, NcFollows, travelVerified, Origin, WorkOrigin
    <2>3. /\ Covered(harm \ {"arc_overtravel"}, nc.segments, Reach(nc.segments))
          /\ "arc_overtravel" \in harm => unknownMoves
        BY <2>1, <2>2 DEF NcFollows, unknownMoves
    <2>4. risk = UNION {RiskIds(s, TRUE, Reach(nc.segments)) : s \in nc.segments}
        BY <1>1 DEF risk, Reach
    <2> QED BY <2>3, <2>4 DEF Covered
<1>2. ASSUME travelVerified, nc.findings = {}, ~rebased, harm \cap Blockers # {} PROVE Status = "BLOCKED"
    BY <1>1, <1>2 DEF Status, Blockers
<1>3. ASSUME Status = "NO_RISK_FOUND_IN_PARSED_MOTION", ~rebased PROVE harm = {} /\ ~unknownMoves
    <2>1. nc.findings = {} /\ travelVerified /\ ~unknownMoves /\ risk = {}
        BY <1>3 DEF Status
    <2> QED BY <1>1, <1>3, <2>1
<1> QED BY <1>2, <1>3 DEF NcReviewSound

\* The NC review misses nothing in programs of any length, whatever the limits of the
\* machine, the boxes of fixture and stock and the origins: when it reports nothing unknown
\* and has checked travel, every fixture collision and excess of a limit of the motion that
\* the controller executes BLOCKS, and so does every overtravel, but for the inside of an
\* arc, which is only known to leave the travel by no more than the tolerance of its chords;
\* and a program without findings has no risk at all and no feed motion.
THEOREM NcReviewAlwaysSound == Spec => []NcReviewIsSound
<1> DEFINE Inv == Is("nc") => NcInv
<1>1. Init => Inv
    BY NcInvInit DEF Init
<1>2. Inv /\ [Next]_<<part, ncVars, programs, framing, acceptance, planning>> => Inv'
    <2> SUFFICES ASSUME Inv, [Next]_<<part, ncVars, programs, framing, acceptance, planning>>, Is("nc")'
                 PROVE  NcInv'
        OBVIOUS
    <2>1. Is("nc") /\ NcInv /\ (NcNext \/ UNCHANGED ncVars)
        BY DEF Next, Is
    <2>2. CASE NcNext
        BY <2>1, <2>2, NcInvStep DEF NcNext
    <2>3. CASE UNCHANGED ncVars
        BY <2>1, <2>3 DEF ncVars, NcInv, Followed, NcFollows, Origin, WorkOrigin, Covered, Reach
    <2> QED BY <2>1, <2>2, <2>3
<1>3. Inv => NcReviewIsSound
    BY NcVerdictSound DEF NcReviewIsSound
<1> QED BY <1>1, <1>2, <1>3, PTL DEF Spec
-----------------------------------------------------------------------------
(* The planning tools. *)

\* An operation of the queue is still to be asked for its dependents.
InQueue(id) == \E i \in DOMAIN queue : queue[i] = id

\* The walk found nothing but impact, and of what it found only the queue is not done.
WalkInv ==
    /\ impacted \subseteq Impact
    /\ queue \in Seq(impacted)
    /\ \A op \in Operations : request.dependencies[op] \cap request.changed # {} => op \in impacted
    /\ \A id \in impacted : InQueue(id) \/ dependents(id) \subseteq impacted

PlanningInv ==
    /\ queue # <<>> => request.call = "impact"
    /\ request.call = "tooling" => request \in ToolingRequests
    /\ request.call = "turning" => request \in TurningRequests
    /\ request.call = "machine" => request \in MachineRequests
    /\ request.call = "preflight" => request \in PreflightRequests
    /\ request.call = "impact" => WalkInv

\* A finite set as a sequence has its elements and no others.
LEMMA SequenceOfSet ==
    ASSUME NEW S, IsFiniteSet(S)
    PROVE  /\ SetToSeq(S) \in Seq(S)
           /\ \A x \in S : \E i \in DOMAIN SetToSeq(S) : SetToSeq(S)[i] = x
<1> DEFINE n == Cardinality(S)
           F == [1..n -> S]
<1>1. n \in Nat /\ ExistsBijection(1..n, S)
  BY FS_CardinalityType
<1>2. PICK b \in Bijection(1..n, S) : TRUE
  BY <1>1 DEF ExistsBijection
<1>3. b \in F /\ IsInjective(b)
  BY <1>2 DEF Bijection, Injection, IsInjective
<1>4. \E f \in F : IsInjective(f)
  BY <1>3
<1>5. SetToSeq(S) \in F /\ IsInjective(SetToSeq(S))
  BY <1>4 DEF SetToSeq
<1>6. PICK s : s = SetToSeq(S)
  OBVIOUS
<1>7. s \in Injection(1..n, S)
  BY <1>5, <1>6 DEF Injection, IsInjective
<1>8. IsFiniteSet(1..n) /\ Cardinality(1..n) = n
  BY <1>1, FS_Interval
<1>9. s \in Surjection(1..n, S)
  BY <1>7, <1>8, FS_Injection
<1>10. s \in Seq(S) /\ DOMAIN s = 1..n
  BY <1>1, <1>5, <1>6
<1>11. \A x \in S : \E i \in DOMAIN s : s[i] = x
  BY <1>9, <1>10 DEF Surjection
<1> QED BY <1>6, <1>10, <1>11

LEMMA WalkInvStart ==
    ASSUME PlanningAssumption, AskImpact PROVE WalkInv'
<1>1. request' \in [call : {"impact"}, dependencies : [Operations -> SUBSET (Operations \cup {Unlisted})],
                    changed : {{x, y} : x, y \in Operations \cup {Unlisted}}]
      /\ impacted' = {op \in Operations : request'.dependencies[op] \cap request'.changed # {}}
      /\ queue' = SetToSeq(impacted')
  BY DEF AskImpact
<1>2. IsFiniteSet(impacted')
  BY <1>1, FS_Subset DEF PlanningAssumption
<1>3. queue' \in Seq(impacted') /\ \A x \in impacted' : \E i \in DOMAIN queue' : queue'[i] = x
  BY <1>1, <1>2, SequenceOfSet
<1>4. impacted' \subseteq Impact'
  BY <1>1 DEF Impact, Closed
<1> QED BY <1>1, <1>3, <1>4 DEF WalkInv, InQueue

LEMMA WalkInvKept ==
    ASSUME PlanningAssumption, WalkInv, WalkImpact PROVE WalkInv'
<1> DEFINE id == Head(queue)
           new == dependents(id) \ impacted
           more == SetToSeq(new)
<1>1. queue # <<>> /\ impacted' = impacted \cup new /\ queue' = Tail(queue) \o more /\ request' = request
  BY DEF WalkImpact, Enqueue
<1>2. queue \in Seq(impacted) /\ id \in impacted /\ impacted \subseteq Impact /\ impacted \subseteq Operations
  BY <1>1 DEF WalkInv, Impact
<1>3. new \subseteq Operations /\ IsFiniteSet(new)
  BY FS_Subset DEF PlanningAssumption, dependents
<1>4. more \in Seq(new) /\ \A x \in new : \E i \in DOMAIN more : more[i] = x
  BY <1>3, SequenceOfSet
<1>5. new \subseteq Impact
  <2> SUFFICES ASSUME NEW op \in new, NEW S \in SUBSET Operations, Closed(S) PROVE op \in S
    BY <1>3 DEF Impact
  <2>1. id \in S
    BY <1>2 DEF Impact
  <2>2. id \in request.dependencies[op]
    BY DEF dependents
  <2> QED BY <2>1, <2>2, <1>3 DEF Closed
<1>6. Impact' = Impact
  BY <1>1 DEF Impact, Closed
<1> DEFINE rest == Tail(queue)
<1>7. rest \in Seq(impacted) /\ Len(rest) = Len(queue) - 1 /\ \A i \in DOMAIN queue : i # 1 => rest[i - 1] = queue[i]
  BY <1>1, <1>2
<1>8. queue' \in Seq(impacted') /\ Len(queue') = Len(rest) + Len(more)
      /\ (\A i \in 1..Len(rest) : queue'[i] = rest[i]) /\ \A i \in 1..Len(more) : queue'[Len(rest) + i] = more[i]
  <2> HIDE DEF rest, more, new
  <2>1. rest \in Seq(impacted \cup new) /\ more \in Seq(impacted \cup new)
    BY <1>4, <1>7
  <2> QED BY <1>1, <2>1 DEF rest
<1>9. \A x \in new : InQueue(x)'
  <2> SUFFICES ASSUME NEW x \in new PROVE \E j \in DOMAIN queue' : queue'[j] = x
    BY DEF InQueue
  <2>1. PICK i \in DOMAIN more : more[i] = x
    BY <1>4
  <2>2. i \in 1..Len(more) /\ Len(more) \in Nat /\ Len(rest) \in Nat
    BY <1>4, <1>7
  <2>3. Len(rest) + i \in DOMAIN queue'
    BY <1>8, <2>2
  <2> QED BY <1>8, <2>1, <2>2, <2>3
<1>10. \A x \in impacted : x = id \/ (InQueue(x) => InQueue(x)')
  <2> SUFFICES ASSUME NEW x \in impacted, x # id, InQueue(x) PROVE \E j \in DOMAIN queue' : queue'[j] = x
    BY DEF InQueue
  <2>1. PICK i \in DOMAIN queue : queue[i] = x
    BY DEF InQueue
  <2>2. i # 1 /\ i \in 1..Len(queue) /\ Len(queue) \in Nat /\ Len(more) \in Nat
    BY <1>1, <1>2, <1>4, <2>1
  <2>3. i - 1 \in 1..Len(rest) /\ i - 1 \in DOMAIN queue'
    BY <1>7, <1>8, <2>2
  <2> QED BY <1>7, <1>8, <2>1, <2>2, <2>3
<1>11. dependents(id) \subseteq impacted' /\ \A x : dependents(x)' = dependents(x)
  BY <1>1 DEF dependents
<1>12. \A x \in impacted' : InQueue(x)' \/ dependents(x)' \subseteq impacted'
  <2> HIDE DEF new, id
  <2> QED BY <1>1, <1>9, <1>10, <1>11 DEF WalkInv
<1> HIDE DEF new
<1> QED BY <1>1, <1>2, <1>5, <1>6, <1>8, <1>12 DEF WalkInv

\* When the queue is empty, what was found holds its own dependents.
LEMMA WalkedIsClosed == ASSUME WalkInv, queue = <<>> PROVE impacted = Impact
<1>1. impacted \subseteq Impact /\ impacted \in SUBSET Operations
  BY DEF WalkInv, Impact
<1>2. \A id \in impacted : dependents(id) \subseteq impacted
  BY DEF WalkInv, InQueue
<1>3. Closed(impacted)
  <2> SUFFICES ASSUME NEW op \in Operations, NEW id \in request.dependencies[op], id \in request.changed \cup impacted
               PROVE  op \in impacted
    BY DEF Closed
  <2>1. CASE id \in request.changed
    BY <2>1 DEF WalkInv
  <2>2. CASE id \in impacted
    BY <2>2, <1>2 DEF dependents
  <2> QED BY <2>1, <2>2
<1> QED BY <1>1, <1>3 DEF Impact

LEMMA PlanningInvStep ==
    ASSUME PlanningAssumption, PlanningInv, [PlanningNext]_planning PROVE PlanningInv'
<1>1. CASE Ask
  <2>1. request = None /\ queue' = queue /\ queue = <<>>
    BY <1>1 DEF Ask, PlanningInv, None
  <2>2. \/ request' \in ToolingRequests \/ request' \in TurningRequests
        \/ request' \in MachineRequests \/ request' \in PreflightRequests
    BY <1>1 DEF Ask, AskTooling, AskTurning, AskMachine, AskPreflight
  <2>3. CASE request' \in ToolingRequests
    <3>1. request'.call = "tooling"
      BY <2>3 DEF ToolingRequests
    <3> QED BY <2>1, <2>3, <3>1 DEF PlanningInv
  <2>4. CASE request' \in TurningRequests
    <3>1. request'.call = "turning"
      BY <2>4 DEF TurningRequests
    <3> QED BY <2>1, <2>4, <3>1 DEF PlanningInv
  <2>5. CASE request' \in MachineRequests
    <3>1. request'.call = "machine"
      BY <2>5 DEF MachineRequests
    <3> QED BY <2>1, <2>5, <3>1 DEF PlanningInv
  <2>6. CASE request' \in PreflightRequests
    <3>1. request'.call = "preflight"
      BY <2>6 DEF PreflightRequests
    <3> QED BY <2>1, <2>6, <3>1 DEF PlanningInv
  <2> QED BY <2>2, <2>3, <2>4, <2>5, <2>6
<1>2. CASE AskImpact
  <2>1. request'.call = "impact"
    BY <1>2 DEF AskImpact
  <2> QED BY <1>2, <2>1, WalkInvStart DEF PlanningInv
<1>3. CASE WalkImpact
  <2>1. request.call = "impact" /\ request' = request
    BY <1>3 DEF WalkImpact, PlanningInv
  <2> QED BY <1>3, <2>1, WalkInvKept DEF PlanningInv
<1>4. CASE UNCHANGED planning
  BY <1>4 DEF planning, PlanningInv, WalkInv, Impact, Closed, InQueue, dependents
<1> QED BY <1>1, <1>2, <1>3, <1>4 DEF PlanningNext

LEMMA PlanningAlwaysInv == Spec => [](Is("planning") => PlanningInv)
<1> USE PlanningAssumption
<1> DEFINE Inv == Is("planning") => PlanningInv
<1>1. Init => Inv
  BY DEF Init, Is, PlanningInit, PlanningInv, None
<1>2. Inv /\ [Next]_<<part, ncVars, programs, framing, acceptance, planning>> => Inv'
  <2> SUFFICES ASSUME Inv, [Next]_<<part, ncVars, programs, framing, acceptance, planning>>, part' = "planning"
               PROVE  PlanningInv'
    BY DEF Is
  <2>1. part = "planning" /\ [PlanningNext]_planning
    BY DEF Next, Is
  <2> QED BY <2>1, PlanningInvStep DEF Is
<1> QED BY <1>1, <1>2, PTL DEF Spec

\* analyzeRegenerationImpact reports every operation that depends on a changed one,
\* directly or through others, and no other, whatever the dependency graph.
THEOREM ImpactAlwaysComplete == Spec => []ImpactIsComplete
<1>1. (Is("planning") => PlanningInv) => ImpactIsComplete
  BY WalkedIsClosed DEF ImpactIsComplete, ImpactIsClosure, PlanningInv
<1> QED BY <1>1, PlanningAlwaysInv, PTL

-----------------------------------------------------------------------------
(* The other planning tools: what holds of a request, whatever the request. *)

\* validateMachine.
LEMMA MachineInLimits ==
    ASSUME PlanningAssumption, request.call = "machine" => request \in MachineRequests PROVE MachineIsBounded
<1> DEFINE op == request.op
           profile == request.profile
           rate == normalizedFeed(op)
           speed == checkedSpeed(op)
           inch == IF op.feedUnit \in {"in/min", "in/rev"} THEN InchFactor ELSE 1
           turns == IF PerRevolution(op) THEN speed ELSE 1
           Verdict(unknown, pass) == IF unknown THEN {"warning"} ELSE IF pass THEN {"info"} ELSE {"error"}
           rpm == IF op.spindleUnit = "rpm" THEN op.spindle ELSE op.legacySpeed
<1> SUFFICES ASSUME request \in MachineRequests, Given(profile.maxFeed), Given(profile.maxRpm),
                    validateMachine(op, profile) \subseteq {"info"}
             PROVE  /\ speed <= profile.maxRpm
                    /\ (op.spindleUnit = "unset" => ~PerRevolution(op)) => op.feed * inch * turns <= profile.maxFeed
  BY DEF MachineIsBounded
<1>1. /\ op.feed \in Nat /\ op.spindle \in Nat /\ op.legacySpeed \in Nat /\ InchFactor \in Nat
      /\ op.feedUnit \in {"mm/min", "in/min", "mm/rev", "in/rev", "other"}
      /\ op.spindleUnit \in {"rpm", "css", "unset", "no record"}
  <2>1. Rates \cup {0} \subseteq Nat /\ InchFactor \in Nat
    BY DEF PlanningAssumption
  <2>2. /\ op.feed \in Rates \cup {0} /\ op.spindle \in Rates \cup {0} /\ op.legacySpeed \in Rates \cup {0}
        /\ op.feedUnit \in {"mm/min", "in/min", "mm/rev", "in/rev", "other"}
        /\ op.spindleUnit \in {"rpm", "css", "unset", "no record"}
    BY DEF MachineRequests
  <2> QED BY <2>1, <2>2
<1>2. Verdict(rate = -1, rate <= profile.maxFeed) \subseteq {"info"}
      /\ Verdict(~Given(speed) \/ op.spindleUnit = "css", speed <= profile.maxRpm) \subseteq {"info"}
  BY DEF validateMachine
<1>3. rate # -1 /\ rate <= profile.maxFeed /\ op.spindleUnit # "css" /\ speed <= profile.maxRpm
  BY <1>2
<1>4. op.spindleUnit # "unset" => rpm = speed
  BY <1>1, <1>3 DEF checkedSpeed
<1>5. PerRevolution(op) <=> op.feedUnit \in {"mm/rev", "in/rev"}
  BY DEF PerRevolution
<1>6. ASSUME op.spindleUnit = "unset" => ~PerRevolution(op) PROVE rate = op.feed * inch * turns
  <2>1. CASE op.feedUnit \in {"mm/min", "in/min"}
    <3>1. rate = op.feed * inch
      BY <1>3, <2>1 DEF normalizedFeed
    <3>2. turns = 1 /\ inch \in Nat
      BY <1>1, <1>5, <2>1
    <3> HIDE DEF rate, inch, turns
    <3>3. PICK f \in Nat, k \in Nat : f = op.feed /\ k = inch
      BY <1>1, <3>2
    <3>4. f * k * 1 = f * k
      <4>1. PICK n \in Int : n = f * k
        OBVIOUS
      <4> QED BY <4>1
    <3> QED BY <3>1, <3>2, <3>3, <3>4
  <2>2. CASE op.feedUnit \in {"mm/rev", "in/rev"}
    <3>1. rate = op.feed * inch * rpm
      BY <1>3, <2>2 DEF normalizedFeed
    <3>2. turns = rpm
      BY <1>4, <1>5, <1>6, <2>2
    <3> HIDE DEF rate, inch, turns, rpm
    <3> QED BY <3>1, <3>2
  <2>3. CASE op.feedUnit = "other"
    BY <1>3, <2>3 DEF normalizedFeed
  <2> QED BY <1>1, <2>1, <2>2, <2>3
<1>7. (op.spindleUnit = "unset" => ~PerRevolution(op)) => op.feed * inch * turns <= profile.maxFeed
  <2> HIDE DEF rate, inch, turns
  <2> QED BY <1>3, <1>6
<1> QED BY <1>3, <1>7

\* manufacturingPreflight.
LEMMA ReadyMeansComplete ==
    ASSUME PlanningAssumption, request.call = "preflight" => request \in PreflightRequests PROVE ReadyIsComplete
<1> SUFFICES ASSUME request \in PreflightRequests, preflightStatus(request) = "READY_FOR_REVIEW"
             PROVE  /\ request.operations # <<>> /\ request.context
                    /\ \A op \in ToSet(request.operations) :
                          /\ ~op.dirty /\ op.complete
                          /\ op.tool # "none" =>
                                Cardinality({i \in DOMAIN request.tools : request.tools[i] = op.tool}) = 1
  BY DEF ReadyIsComplete
<1> DEFINE ops == ToSet(request.operations)
           tools == request.tools
<1>1. preflightChecks(request) = {}
  BY DEF preflightStatus
<1>2. ops # {} /\ (\A op \in ops : ~op.dirty) /\ request.context /\ (\A op \in ops : op.complete)
  BY <1>1 DEF preflightChecks
<1>3. tools # <<>> /\ ~Duplicated(tools) /\ \A op \in ops : Resolves(op, tools)
  BY <1>1 DEF preflightChecks
<1>4. request.operations # <<>>
  BY <1>2 DEF ToSet
<1>5. ASSUME NEW op \in ops, op.tool # "none"
      PROVE  Cardinality({i \in DOMAIN tools : tools[i] = op.tool}) = 1
  <2>1. PICK i \in DOMAIN tools : tools[i] = op.tool
    BY <1>3, <1>5 DEF Resolves, ToSet
  <2>2. {k \in DOMAIN tools : tools[k] = op.tool} = {i}
    BY <1>3, <1>5, <2>1 DEF Duplicated
  <2> QED BY <2>2, FS_Singleton
<1> QED BY <1>2, <1>4, <1>5

\* The quotient rounded up: so many passes reach the depth and one less does not.
LEMMA CeilDivBounds ==
    ASSUME NEW a \in Nat, NEW b \in Nat, b > 0
    PROVE  CeilDiv(a, b) \in Nat /\ a <= b * CeilDiv(a, b) /\ b * CeilDiv(a, b) < a + b
<1> DEFINE c == a + b - 1
<1>1. c \in Nat
  OBVIOUS
<1>2. c = b * (c \div b) + (c % b) /\ c \div b \in Int /\ c % b \in 0..(b - 1)
  BY <1>1
<1>3. c \div b \in Nat
  BY <1>1
<1>4. PICK m \in Nat : m = c \div b
  BY <1>3
<1>5. PICK p \in Int : p = b * m
  BY <1>4
<1>6. p <= c /\ c < p + b
  BY <1>2, <1>4, <1>5, <1>1
<1> QED BY <1>4, <1>5, <1>6 DEF CeilDiv

LEMMA TimesGrows ==
    ASSUME NEW b \in Nat, NEW i \in Nat, NEW j \in Nat, i <= j
    PROVE  b * i \in Nat /\ b * i <= b * j
OBVIOUS

\* The offset after so many passes of depth d through rough, down to the allowance a.
Left(a, d, rough, i) == IF i = 0 THEN rough + a ELSE Max({a, rough - d * i + a})

\* So many passes are enough, and one less is not.
Enough(d, rough, n) == d > 0 /\ rough <= d * n /\ d * n < rough + d

LEMMA LeftAfter ==
    ASSUME NEW a \in Nat, NEW d \in Nat, NEW rough \in Nat,
           NEW n \in Nat, Enough(d, rough, n), NEW i \in 0..n
    PROVE  /\ Left(a, d, rough, i) \in Int
           /\ i < n => d * i < rough /\ Left(a, d, rough, i) = rough - d * i + a
           /\ i = n => Left(a, d, rough, i) = a
<1>1. PICK p \in Nat : p = d * i
  OBVIOUS
<1>2. PICK whole \in Nat : whole = d * n /\ d > 0 /\ rough <= whole /\ whole < rough + d
  BY DEF Enough
<1>3. i < n => p + d <= whole
  <2>1. ASSUME i < n PROVE p + d <= whole
    <3>1. i + 1 \in Nat /\ i + 1 <= n
      BY <2>1
    <3>2. d * (i + 1) <= whole
      BY <3>1, <1>2, TimesGrows
    <3>3. d * (i + 1) = p + d
      BY <1>1
    <3> QED BY <3>2, <3>3
  <2> QED BY <2>1
<1>4. i < n => p < rough
  BY <1>2, <1>3
<1>5. PICK z \in Int : z = rough - p + a
  OBVIOUS
<1>6. Max({a, z}) = IF a <= z THEN z ELSE a
  <2>1. a \in Int
    OBVIOUS
  <2> QED BY <2>1, <1>5, MinMaxOfTwo
<1>7. i # 0 => Left(a, d, rough, i) = IF a <= z THEN z ELSE a
  BY <1>1, <1>5, <1>6 DEF Left
<1>8. i = 0 => p = 0 /\ Left(a, d, rough, i) = z
  BY <1>1, <1>5 DEF Left
<1>9. i = n => p = whole
  BY <1>1, <1>2
<1> QED BY <1>1, <1>2, <1>4, <1>5, <1>7, <1>8, <1>9

LEMMA LeftSteps ==
    ASSUME NEW a \in Nat, NEW d \in Nat, NEW rough \in Nat,
           NEW n \in Nat, Enough(d, rough, n), NEW i \in 1..n
    PROVE  /\ Left(a, d, rough, i) < Left(a, d, rough, i - 1)
           /\ Left(a, d, rough, i) >= Left(a, d, rough, i - 1) - d
<1>1. PICK k \in Nat : k = i - 1 /\ k \in 0..n /\ k < n
  OBVIOUS
<1>2. PICK p \in Nat : p = d * k
  BY <1>1
<1>3. d * i = p + d
  BY <1>1, <1>2
<1>4. p < rough /\ Left(a, d, rough, k) = rough - p + a
  <2>1. k < n => d * k < rough /\ Left(a, d, rough, k) = rough - d * k + a
    BY <1>1, LeftAfter
  <2> QED BY <2>1, <1>1, <1>2
<1>5. /\ Left(a, d, rough, i) \in Int
      /\ i < n => p + d < rough /\ Left(a, d, rough, i) = rough - (p + d) + a
      /\ i = n => Left(a, d, rough, i) = a /\ rough <= p + d
  <2>1. i \in 0..n
    OBVIOUS
  <2>2. /\ Left(a, d, rough, i) \in Int
        /\ i < n => d * i < rough /\ Left(a, d, rough, i) = rough - d * i + a
        /\ i = n => Left(a, d, rough, i) = a
    BY <2>1, LeftAfter
  <2>3. i = n => rough <= p + d
    BY <1>3 DEF Enough
  <2> QED BY <2>2, <2>3, <1>3
<1>6. d > 0
  BY DEF Enough
<1> QED BY <1>1, <1>2, <1>4, <1>5, <1>6

\* planOdRoughFinish.
LEMMA PassesReach ==
    ASSUME PlanningAssumption, request.call = "turning" => request \in TurningRequests PROVE PassesReachAllowance
<1> SUFFICES ASSUME request \in TurningRequests, ~TurningPlan(request).blocked
             PROVE  LET cuts == <<request.stock - request.minProfile>> \o TurningPlan(request).offsets
                    IN  /\ Last(cuts) = request.allowance
                        /\ \A i \in 2..Len(cuts) : cuts[i] < cuts[i - 1] /\ cuts[i] >= cuts[i - 1] - request.depth
  BY DEF PassesReachAllowance
<1>1. PICK s \in Nat, low \in Nat, a \in Nat, d \in Nat :
          s = request.stock /\ low = request.minProfile /\ a = request.allowance /\ d = request.depth
  BY DEF PlanningAssumption, TurningRequests
<1>2. PICK limit \in Nat : limit = MaxRoughPassPreview
  BY DEF PlanningAssumption
<1>3. PICK radial \in Int : radial = s - low
  OBVIOUS
<1>4. PICK rough \in Nat : rough = Max({0, radial - a})
  <2>1. PICK z \in Int : z = radial - a
    BY <1>3
  <2>2. Max({0, z}) = IF 0 <= z THEN z ELSE 0
    <3>1. 0 \in Int
      OBVIOUS
    <3> QED BY <2>1, <3>1, MinMaxOfTwo
  <2> QED BY <2>1, <2>2
<1>5. PICK n \in Nat : n = passes(rough, d) /\ (d > 0 => Enough(d, rough, n))
  <2>1. CASE d = 0
    BY <2>1 DEF passes, Given
  <2>2. CASE d # 0
    <3>1. passes(rough, d) = CeilDiv(rough, d) /\ d > 0
      BY <2>2 DEF passes, Given
    <3> QED BY <3>1, CeilDivBounds DEF Enough
  <2> QED BY <2>1, <2>2
<1>6. (~Given(d) \/ radial < a \/ n > limit) => TurningPlan(request).blocked
  BY <1>1, <1>2, <1>3, <1>4, <1>5 DEF TurningPlan
<1>7. d > 0 /\ radial >= a /\ n <= limit
  BY <1>3, <1>6 DEF Given
<1>8. rough = radial - a
  <2>1. PICK z \in Int : z = radial - a
    BY <1>3
  <2>2. Max({0, z}) = IF 0 <= z THEN z ELSE 0
    <3>1. 0 \in Int
      OBVIOUS
    <3> QED BY <2>1, <3>1, MinMaxOfTwo
  <2> QED BY <2>1, <2>2, <1>4, <1>7
<1>9. Min({n, limit}) = n
  <2>1. n \in Int /\ limit \in Int
    OBVIOUS
  <2>2. Min({n, limit}) = IF n <= limit THEN n ELSE limit
    BY <2>1, MinMaxOfTwo
  <2> QED BY <2>2, <1>7
<1>10. TurningPlan(request).offsets = [i \in 1..n |-> Max({a, rough - d * i + a})]
  BY <1>1, <1>2, <1>3, <1>4, <1>5, <1>9 DEF TurningPlan
<1>11. PICK offsets : offsets = TurningPlan(request).offsets
  OBVIOUS
<1>12. \A i \in 1..n : offsets[i] = Left(a, d, rough, i)
  BY <1>10, <1>11 DEF Left
<1>13. offsets \in Seq(Int) /\ Len(offsets) = n
  <2>1. \A i \in 0..n : Left(a, d, rough, i) \in Int
    BY <1>5, <1>7, LeftAfter
  <2>2. \A i \in 1..n : offsets[i] \in Int
    BY <1>12, <2>1
  <2>3. offsets \in [1..n -> Int]
    BY <2>2, <1>10, <1>11
  <2> QED BY <2>3
<1>14. PICK cuts : cuts = <<radial>> \o offsets
  OBVIOUS
<1>15. Len(cuts) = n + 1 /\ \A i \in 1..(n + 1) : cuts[i] = IF i = 1 THEN radial ELSE offsets[i - 1]
  <2>1. <<radial>> \in Seq(Int) /\ Len(<<radial>>) = 1 /\ <<radial>>[1] = radial
    BY <1>3
  <2> QED BY <2>1, <1>13, <1>14
<1>16. \A i \in 1..(n + 1) : cuts[i] = Left(a, d, rough, i - 1)
  <2> SUFFICES ASSUME NEW i \in 1..(n + 1) PROVE cuts[i] = Left(a, d, rough, i - 1)
    OBVIOUS
  <2>1. CASE i = 1
    BY <2>1, <1>3, <1>8, <1>15 DEF Left
  <2>2. CASE i # 1
    <3>1. i - 1 \in 1..n
      BY <2>2
    <3> QED BY <3>1, <2>2, <1>12, <1>15
  <2> QED BY <2>1, <2>2
<1>17. Last(cuts) = a
  <2>1. n \in 0..n /\ n + 1 \in 1..(n + 1) /\ n + 1 - 1 = n
    OBVIOUS
  <2>2. cuts[n + 1] = Left(a, d, rough, n)
    BY <2>1, <1>16
  <2>3. Left(a, d, rough, n) = a
    <3>1. \A i \in 0..n : i = n => Left(a, d, rough, i) = a
      BY <1>5, <1>7, LeftAfter
    <3> QED BY <2>1, <3>1
  <2> QED BY <2>2, <2>3, <1>15 DEF Last
<1>18. ASSUME NEW i \in 2..Len(cuts) PROVE cuts[i] < cuts[i - 1] /\ cuts[i] >= cuts[i - 1] - d
  <2>1. PICK k \in 1..n : k = i - 1
    BY <1>15
  <2>2. cuts[i] = Left(a, d, rough, k) /\ cuts[i - 1] = Left(a, d, rough, k - 1)
    BY <2>1, <1>15, <1>16
  <2>3. Left(a, d, rough, k) < Left(a, d, rough, k - 1) /\ Left(a, d, rough, k) >= Left(a, d, rough, k - 1) - d
    BY <1>5, <1>7, LeftSteps
  <2> QED BY <2>2, <2>3
<1> QED BY <1>1, <1>3, <1>11, <1>14, <1>17, <1>18

\* A tool is accepted exactly when it fits.
LEMMA AcceptedFits ==
    ASSUME PlanningAssumption, NEW t \in ToolRecord, NEW f \in Feature, NEW limit \in ToolLimits
    PROVE  hardReject(t, f, limit) = {} <=> Fits(t, f, limit)
<1>1. /\ t.diameter \in Nat /\ t.fluteLength \in Nat /\ t.overallLength \in Nat
      /\ t.minFeatureDiameter \in Nat /\ t.maxDepth \in Nat /\ f.diameter \in Nat /\ f.depth \in Nat
      /\ limit.maxToolDiameter \in Nat /\ limit.maxToolLength \in Nat
      /\ t.lists \in SUBSET {"material", "operation"} /\ t.matches \in SUBSET {"material", "operation"}
  BY DEF PlanningAssumption, ToolRecord, Feature, ToolLimits, Sizes
<1>2. hardReject(t, f, limit) = {} <=>
        /\ t.lists \subseteq t.matches
        /\ ~(f.internal /\ Exceeds(t.diameter, f.diameter))
        /\ ~Exceeds(f.depth, t.maxDepth) /\ ~Exceeds(f.depth, t.fluteLength)
        /\ ~Exceeds(t.minFeatureDiameter, f.diameter)
        /\ ~Exceeds(t.diameter, limit.maxToolDiameter) /\ ~Exceeds(t.overallLength, limit.maxToolLength)
  BY DEF hardReject
<1>3. Fits(t, f, limit) <=>
        /\ t.lists \subseteq t.matches
        /\ (Given(t.diameter) /\ f.internal /\ Given(f.diameter)) => t.diameter <= f.diameter
        /\ (Given(t.diameter) /\ Given(limit.maxToolDiameter)) => t.diameter <= limit.maxToolDiameter
        /\ (Given(f.depth) /\ Given(t.maxDepth)) => t.maxDepth >= f.depth
        /\ (Given(f.depth) /\ Given(t.fluteLength)) => t.fluteLength >= f.depth
        /\ Given(f.diameter) => t.minFeatureDiameter <= f.diameter
        /\ Given(limit.maxToolLength) => t.overallLength <= limit.maxToolLength
  <2>1. (\A reach \in {t.maxDepth, t.fluteLength} : Given(reach) => reach >= f.depth)
        <=> (Given(t.maxDepth) => t.maxDepth >= f.depth) /\ (Given(t.fluteLength) => t.fluteLength >= f.depth)
    OBVIOUS
  <2> QED BY <2>1 DEF Fits
<1>4. (f.internal /\ Exceeds(t.diameter, f.diameter))
      <=> (f.internal /\ Given(t.diameter) /\ Given(f.diameter) /\ ~(t.diameter <= f.diameter))
  BY <1>1 DEF Exceeds
<1>5. /\ Exceeds(f.depth, t.maxDepth) <=> Given(f.depth) /\ Given(t.maxDepth) /\ ~(t.maxDepth >= f.depth)
      /\ Exceeds(f.depth, t.fluteLength) <=> Given(f.depth) /\ Given(t.fluteLength) /\ ~(t.fluteLength >= f.depth)
  BY <1>1 DEF Exceeds
<1>6. Exceeds(t.minFeatureDiameter, f.diameter) <=> Given(f.diameter) /\ ~(t.minFeatureDiameter <= f.diameter)
  BY <1>1 DEF Exceeds, Given
<1>7. Exceeds(t.diameter, limit.maxToolDiameter)
      <=> Given(t.diameter) /\ Given(limit.maxToolDiameter) /\ ~(t.diameter <= limit.maxToolDiameter)
  BY <1>1 DEF Exceeds
<1>8. Exceeds(t.overallLength, limit.maxToolLength)
      <=> Given(limit.maxToolLength) /\ ~(t.overallLength <= limit.maxToolLength)
  BY <1>1 DEF Exceeds, Given
<1> QED BY <1>2, <1>3, <1>4, <1>5, <1>6, <1>7, <1>8

\* What the ratio of the diameters adds to a score.
LEMMA RatioTyped ==
    ASSUME NEW d \in Nat, NEW of \in Nat, of > 0
    PROVE  RatioScore(d, of) \in Nat
<1>2. PICK x \in Int, y \in Int : x = 65 * of /\ y = 100 * d
  OBVIOUS
<1>3. PICK off \in Int : off = IF x > y THEN x - y ELSE y - x
  <2>1. x - y \in Int /\ y - x \in Int
    OBVIOUS
  <2> QED BY <2>1
<1>4. PICK top \in Int, less \in Int : top = 1200 * of /\ less = 20 * off
  OBVIOUS
<1>5. PICK z \in Int : z = top - less
  OBVIOUS
<1>6. Max({0, z}) = IF 0 <= z THEN z ELSE 0
  <2>1. 0 \in Int
    OBVIOUS
  <2> QED BY <1>5, <2>1, MinMaxOfTwo
<1>7. PICK m \in Nat : m = Max({0, z})
  BY <1>5, <1>6
<1>8. RatioScore(d, of) = (2 * m + 100 * of) \div (200 * of)
  BY <1>2, <1>3, <1>4, <1>5, <1>7 DEF RatioScore
<1>9. PICK u \in Nat, v \in Nat, w \in Nat : u = 2 * m /\ v = 100 * of /\ w = 200 * of
  OBVIOUS
<1>10. w > 0
  BY <1>9
<1>11. PICK over \in Nat : over = u + v
  OBVIOUS
<1>12. over \div w \in Nat
  BY <1>10
<1> QED BY <1>8, <1>9, <1>11, <1>12

\* The score is a number; a tool something is proven of scores more than an unknown one.
LEMMA ScoreTyped ==
    ASSUME PlanningAssumption, NEW t \in ToolRecord, NEW f \in Feature
    PROVE  /\ toolScore(t, f) \in Int
           /\ Unknown(t) => toolScore(t, f) <= 50
           /\ t.lists \subseteq t.matches /\ Proven(t) => toolScore(t, f) > 50
<1>1. /\ t.diameter \in Nat /\ f.diameter \in Nat
      /\ t.lists \in SUBSET {"material", "operation"} /\ t.bonus \in Nat
  <2>1. Bonuses \subseteq Nat
    BY DEF Bonuses
  <2>2. Sizes \subseteq Nat
    BY DEF PlanningAssumption, Sizes
  <2>3. t.diameter \in Sizes /\ t.lists \in SUBSET {"material", "operation"} /\ t.bonus \in Bonuses
    BY DEF ToolRecord
  <2>4. f.diameter \in Sizes
    BY DEF Feature
  <2> QED BY <2>1, <2>2, <2>3, <2>4
<1>2. IsFiniteSet({"material", "operation"})
  <2>1. IsFiniteSet({"material"} \cup {"operation"})
    BY FS_Singleton, FS_Union
  <2>2. {"material"} \cup {"operation"} = {"material", "operation"}
    OBVIOUS
  <2> QED BY <2>1, <2>2
<1>3. PICK c \in Nat : c = Cardinality(t.lists \cap t.matches)
  <2>1. t.lists \cap t.matches \in SUBSET {"material", "operation"}
    BY <1>1
  <2> QED BY <1>2, <2>1, FS_Subset, FS_CardinalityType
<1>4. (t.lists = {} => c = 0) /\ (t.lists \subseteq t.matches /\ t.lists # {} => c > 0)
  <2>1. IsFiniteSet(t.lists \cap t.matches)
    <3>1. t.lists \cap t.matches \in SUBSET {"material", "operation"}
      BY <1>1
    <3> QED BY <1>2, <3>1, FS_Subset
  <2>2. c = 0 <=> t.lists \cap t.matches = {}
    BY <1>3, <2>1, FS_EmptySet
  <2> QED BY <2>2
<1>5. f.diameter # 0 => RatioScore(t.diameter, f.diameter) \in Nat
  <2> SUFFICES ASSUME f.diameter # 0 PROVE RatioScore(t.diameter, f.diameter) \in Nat
    OBVIOUS
  <2>1. PICK of \in Nat, d \in Nat : of = f.diameter /\ d = t.diameter /\ of > 0
    BY <1>1
  <2>2. RatioScore(d, of) \in Nat
    BY <2>1, RatioTyped
  <2> QED BY <2>1, <2>2
<1>6. PICK r \in Nat : r = IF f.internal /\ Given(f.diameter) /\ Given(t.diameter)
                           THEN RatioScore(t.diameter, f.diameter)
                           ELSE IF (Given(f.diameter) \/ f.hasWidth) /\ Given(t.diameter) THEN 3 ELSE 0
  BY <1>5 DEF Given
<1>7. t.diameter = 0 => r = 0
  BY <1>6 DEF Given
<1>8. PICK v \in Nat : v = t.bonus
  BY <1>1
<1>9. PICK points \in Int, k \in Nat : points = 50 + 12 * c + r + v /\ k = 12 * c /\ points = 50 + k + r + v
                                      /\ (c = 0 => k = 0) /\ (c > 0 => k > 0)
  <2>1. PICK k \in Nat : k = 12 * c /\ (c = 0 => k = 0) /\ (c > 0 => k > 0)
    OBVIOUS
  <2> QED BY <2>1
<1>10. toolScore(t, f) = Min({100, points})
  BY <1>3, <1>6, <1>8, <1>9 DEF toolScore
<1>11. Min({100, points}) = IF 100 <= points THEN 100 ELSE points
  <2>1. 100 \in Int
    OBVIOUS
  <2> QED BY <1>9, <2>1, MinMaxOfTwo
<1>12. Unknown(t) => points = 50
  <2>1. Unknown(t) => c = 0 /\ r = 0 /\ v = 0
    BY <1>4, <1>7, <1>8 DEF Unknown, Proven, Given
  <2> QED BY <2>1, <1>9
<1>13. t.lists \subseteq t.matches /\ Proven(t) => points > 50
  <2>1. t.lists \subseteq t.matches /\ Proven(t) => c > 0 \/ v > 0
    BY <1>4, <1>8 DEF Proven, Given
  <2>2. k > 0 \/ v > 0 => points > 50
    BY <1>9
  <2>3. c > 0 => k > 0
    BY <1>9
  <2> QED BY <2>1, <2>2, <2>3
<1> QED BY <1>10, <1>11, <1>12, <1>13

\* The place of an element in a finite set that is strictly and totally ordered.
Earlier(A, R, i) == {j \in A : <<j, i>> \in R}
Place(A, R, i) == Cardinality(Earlier(A, R, i))
Ranking(A, R) ==
    /\ IsFiniteSet(A)
    /\ \A i \in A : <<i, i>> \notin R
    /\ \A i, j \in A : i # j => <<i, j>> \in R \/ <<j, i>> \in R
    /\ \A i, j, k \in A : <<i, j>> \in R /\ <<j, k>> \in R => <<i, k>> \in R

\* Earlier elements have lower places, so every place is taken by one element.
LEMMA PlacesInOrder ==
    ASSUME NEW A, NEW R, Ranking(A, R), NEW i \in A, NEW k \in A, <<i, k>> \in R
    PROVE  Place(A, R, i) < Place(A, R, k)
<1>1. IsFiniteSet(Earlier(A, R, i)) /\ IsFiniteSet(Earlier(A, R, k))
  BY FS_Subset DEF Ranking, Earlier
<1>2. i \notin Earlier(A, R, i) /\ Earlier(A, R, i) \cup {i} \subseteq Earlier(A, R, k)
  BY DEF Ranking, Earlier
<1>3. Cardinality(Earlier(A, R, i) \cup {i}) = Cardinality(Earlier(A, R, i)) + 1
  BY <1>1, <1>2, FS_AddElement
<1>4. Cardinality(Earlier(A, R, i) \cup {i}) <= Cardinality(Earlier(A, R, k))
  BY <1>1, <1>2, FS_Subset
<1>5. Cardinality(Earlier(A, R, i)) \in Nat /\ Cardinality(Earlier(A, R, k)) \in Nat
  BY <1>1, FS_CardinalityType
<1> QED BY <1>3, <1>4, <1>5 DEF Place

LEMMA PlacesAreTaken ==
    ASSUME NEW A, NEW R, Ranking(A, R)
    PROVE  /\ \A i \in A : Place(A, R, i) \in 0..(Cardinality(A) - 1)
           /\ \A p \in 1..Cardinality(A) : \E i \in A : Place(A, R, i) = p - 1
           /\ \A i, k \in A : Place(A, R, i) = Place(A, R, k) => i = k
<1> DEFINE n == Cardinality(A)
           P == [i \in A |-> Place(A, R, i)]
<1>1. IsFiniteSet(A) /\ n \in Nat
  BY FS_CardinalityType DEF Ranking
<1>2. \A i \in A : Place(A, R, i) \in 0..(n - 1)
  <2> SUFFICES ASSUME NEW i \in A PROVE Place(A, R, i) \in 0..(n - 1)
    OBVIOUS
  <2>1. Earlier(A, R, i) \subseteq A \ {i}
    BY DEF Ranking, Earlier
  <2>2. IsFiniteSet(A \ {i}) /\ Cardinality(A \ {i}) = n - 1
    BY <1>1, FS_RemoveElement
  <2>3. Cardinality(Earlier(A, R, i)) <= n - 1 /\ IsFiniteSet(Earlier(A, R, i))
    BY <2>1, <2>2, FS_Subset
  <2>4. Cardinality(Earlier(A, R, i)) \in Nat
    BY <2>3, FS_CardinalityType
  <2> QED BY <1>1, <2>3, <2>4 DEF Place
<1>3. \A i, k \in A : Place(A, R, i) = Place(A, R, k) => i = k
  <2> SUFFICES ASSUME NEW i \in A, NEW k \in A, Place(A, R, i) = Place(A, R, k), i # k PROVE FALSE
    OBVIOUS
  <2>1. Place(A, R, i) \in Int /\ Place(A, R, k) \in Int
    BY <1>1, <1>2
  <2>2. CASE <<i, k>> \in R
    <3>1. Place(A, R, i) < Place(A, R, k)
      BY <2>2, PlacesInOrder
    <3> QED BY <3>1, <2>1
  <2>3. CASE <<k, i>> \in R
    <3>1. Place(A, R, k) < Place(A, R, i)
      BY <2>3, PlacesInOrder
    <3> QED BY <3>1, <2>1
  <2> QED BY <2>2, <2>3 DEF Ranking
<1>4. P \in Injection(A, 0..(n - 1))
  BY <1>2, <1>3 DEF Injection, IsInjective
<1>5. IsFiniteSet(0..(n - 1)) /\ Cardinality(0..(n - 1)) = n
  BY <1>1, FS_Interval
<1>6. P \in Surjection(A, 0..(n - 1))
  BY <1>1, <1>4, <1>5, FS_Injection
<1>7. \A p \in 1..n : \E i \in A : Place(A, R, i) = p - 1
  <2> SUFFICES ASSUME NEW p \in 1..n PROVE \E i \in A : P[i] = p - 1
    OBVIOUS
  <2>1. p - 1 \in 0..(n - 1)
    BY <1>1
  <2> QED BY <1>6, <2>1 DEF Surjection
<1> QED BY <1>2, <1>3, <1>7

\* recommendJobTooling and operationToolCandidates: what the list holds, place by place.
Accepted(q) == {i \in DOMAIN q.tools : hardReject(q.tools[i], q.feature, q.limit) = {}}
Score(q, i) == toolScore(q.tools[i], q.feature)
Better(q) ==
    {w \in Accepted(q) \X Accepted(q) :
        Score(q, w[1]) > Score(q, w[2]) \/ (Score(q, w[1]) = Score(q, w[2]) /\ w[1] < w[2])}
Chosen(q) == recommendations(q.tools, q.feature, q.limit, q.topK)

LEMMA ShelfTyped ==
    ASSUME PlanningAssumption, NEW q \in ToolingRequests
    PROVE  /\ q.tools \in Seq(ToolRecord) /\ q.feature \in Feature /\ q.limit \in ToolLimits /\ q.topK \in Nat
           /\ Accepted(q) \subseteq Nat /\ Accepted(q) \subseteq DOMAIN q.tools /\ IsFiniteSet(Accepted(q))
           /\ \A i \in DOMAIN q.tools : q.tools[i] \in ToolRecord
           /\ \A i \in Accepted(q) : q.tools[i] \in ToolRecord /\ Score(q, i) \in Int
<1>1. q.tools \in Seq(ToolRecord) /\ q.feature \in Feature /\ q.limit \in ToolLimits /\ q.topK \in Nat
  BY DEF ToolingRequests, PlanningAssumption
<1>2. PICK n \in Nat : n = Len(q.tools) /\ DOMAIN q.tools = 1..n
  BY <1>1
<1>3. Accepted(q) \subseteq 1..n /\ IsFiniteSet(1..n)
  <2>1. 1 \in Int /\ n \in Int
    OBVIOUS
  <2>2. IsFiniteSet(1..n)
    BY <2>1, FS_Interval
  <2> QED BY <2>2, <1>2 DEF Accepted
<1>4. IsFiniteSet(Accepted(q))
  BY <1>3, FS_Subset
<1>5. \A i \in DOMAIN q.tools : q.tools[i] \in ToolRecord
  BY <1>1
<1>6. \A i \in Accepted(q) : q.tools[i] \in ToolRecord /\ Score(q, i) \in Int
  BY <1>1, <1>5, ScoreTyped DEF Accepted, Score
<1> QED BY <1>1, <1>2, <1>3, <1>4, <1>5, <1>6

LEMMA BetterRanks ==
    ASSUME PlanningAssumption, NEW q \in ToolingRequests
    PROVE  Ranking(Accepted(q), Better(q))
<1> DEFINE A == Accepted(q)
<1>1. \A i \in A : i \in Nat /\ Score(q, i) \in Int
  BY ShelfTyped
<1>2. \A i, j \in A : <<i, j>> \in Better(q) <=>
          Score(q, i) > Score(q, j) \/ (Score(q, i) = Score(q, j) /\ i < j)
  BY DEF Better
<1>3. IsFiniteSet(A)
  BY ShelfTyped
<1> HIDE DEF A
<1> QED BY <1>1, <1>2, <1>3 DEF Ranking, A

LEMMA ChosenInPlace ==
    ASSUME PlanningAssumption, NEW q \in ToolingRequests
    PROVE  \E n \in Nat : \E seat \in [1..n -> Accepted(q)] :
              /\ n <= Cardinality(Accepted(q)) /\ (n = q.topK \/ n = Cardinality(Accepted(q)))
              /\ Chosen(q) = [p \in 1..n |-> q.tools[seat[p]]]
              /\ \A p \in 1..n : Place(Accepted(q), Better(q), seat[p]) = p - 1
<1> DEFINE A == Accepted(q)
<1>1. PICK m \in Nat, k \in Nat : m = Cardinality(A) /\ k = q.topK
  BY ShelfTyped, FS_CardinalityType
<1>2. PICK n \in Nat : n = Min({k, m}) /\ n <= m /\ (n = k \/ n = m)
  <2>1. k \in Int /\ m \in Int
    OBVIOUS
  <2>2. Min({k, m}) = IF k <= m THEN k ELSE m
    BY <2>1, MinMaxOfTwo
  <2> QED BY <2>2
<1> DEFINE Holds(i, p) == Cardinality({j \in A : Score(q, j) > Score(q, i) \/ (Score(q, j) = Score(q, i) /\ j < i)})
                              = p - 1
           seat == [p \in 1..n |-> CHOOSE i \in A : Holds(i, p)]
<1>3. ASSUME NEW i \in A, NEW p PROVE Holds(i, p) <=> Place(A, Better(q), i) = p - 1
  <2>1. {j \in A : Score(q, j) > Score(q, i) \/ (Score(q, j) = Score(q, i) /\ j < i)} = Earlier(A, Better(q), i)
    BY DEF Earlier, Better
  <2> QED BY <2>1 DEF Place
<1>4. Chosen(q) = [p \in 1..n |-> q.tools[CHOOSE i \in A : Holds(i, p)]]
  BY <1>1, <1>2 DEF Chosen, recommendations, Accepted, Score
<1>5. \A p \in 1..n : \E i \in A : Place(A, Better(q), i) = p - 1
  BY <1>1, <1>2, BetterRanks, PlacesAreTaken
<1> HIDE DEF Holds
<1>6. \A p \in 1..n : seat[p] \in A /\ Holds(seat[p], p)
  <2> SUFFICES ASSUME NEW p \in 1..n PROVE seat[p] \in A /\ Holds(seat[p], p)
    OBVIOUS
  <2>1. \E i \in A : Holds(i, p)
    BY <1>3, <1>5
  <2> QED BY <2>1
<1>7. seat \in [1..n -> A] /\ \A p \in 1..n : Place(A, Better(q), seat[p]) = p - 1
  BY <1>3, <1>6
<1>8. Chosen(q) = [p \in 1..n |-> q.tools[seat[p]]]
  BY <1>4
<1> HIDE DEF seat
<1> QED BY <1>1, <1>2, <1>7, <1>8

LEMMA ChosenFit ==
    ASSUME PlanningAssumption, request.call = "tooling" => request \in ToolingRequests PROVE ToolsFit
<1> SUFFICES ASSUME request \in ToolingRequests
             PROVE  /\ \A t \in ToSet(Chosen(request)) : t \in ToSet(request.tools) /\ Fits(t, request.feature, request.limit)
                    /\ \A t \in ToSet(request.tools) : Fits(t, request.feature, request.limit) =>
                          \/ t \in ToSet(Chosen(request))
                          \/ Len(Chosen(request)) = request.topK
                             /\ \A p \in DOMAIN Chosen(request) :
                                   toolScore(Chosen(request)[p], request.feature) >= toolScore(t, request.feature)
                    /\ \A p, r \in DOMAIN Chosen(request) :
                          Unknown(Chosen(request)[p]) /\ Proven(Chosen(request)[r]) => r < p
  BY DEF ToolsFit, Chosen
<1> DEFINE A == Accepted(request)
           R == Better(request)
           S(i) == Score(request, i)
<1>1. PICK n \in Nat : \E f \in [1..n -> A] :
          /\ n <= Cardinality(A) /\ (n = request.topK \/ n = Cardinality(A))
          /\ Chosen(request) = [p \in 1..n |-> request.tools[f[p]]]
          /\ \A p \in 1..n : Place(A, R, f[p]) = p - 1
  BY ChosenInPlace
<1>2. PICK seat \in [1..n -> A] :
          /\ n <= Cardinality(A) /\ (n = request.topK \/ n = Cardinality(A))
          /\ Chosen(request) = [p \in 1..n |-> request.tools[seat[p]]]
          /\ \A p \in 1..n : Place(A, R, seat[p]) = p - 1
  BY <1>1
<1>3. PICK best : best = Chosen(request)
  OBVIOUS
<1>4. DOMAIN best = 1..n /\ \A p \in 1..n : seat[p] \in A /\ best[p] = request.tools[seat[p]]
  BY <1>2, <1>3
<1>5. /\ request.feature \in Feature /\ request.limit \in ToolLimits
      /\ A \subseteq DOMAIN request.tools /\ IsFiniteSet(A) /\ A \subseteq Nat
      /\ \A i \in DOMAIN request.tools : request.tools[i] \in ToolRecord
      /\ \A i \in A : S(i) \in Int /\ S(i) = toolScore(request.tools[i], request.feature)
  BY ShelfTyped DEF Score
<1>6. \A i \in DOMAIN request.tools : i \in A <=> Fits(request.tools[i], request.feature, request.limit)
  BY <1>5, AcceptedFits DEF Accepted
<1>7. Len(best) = n
  <2>1. best \in [1..n -> ToolRecord]
    BY <1>2, <1>3, <1>4, <1>5
  <2> QED BY <2>1
<1>8. Ranking(A, R)
  BY BetterRanks
<1>9. Cardinality(A) \in Nat
  BY <1>5, FS_CardinalityType
<1>10. \A i, j \in A : <<i, j>> \in R <=> S(i) > S(j) \/ (S(i) = S(j) /\ i < j)
  BY DEF Better
<1>11. \A t \in ToSet(best) : t \in ToSet(request.tools) /\ Fits(t, request.feature, request.limit)
  BY <1>4, <1>5, <1>6 DEF ToSet
<1>12. ASSUME NEW t \in ToSet(request.tools), Fits(t, request.feature, request.limit)
       PROVE  \/ t \in ToSet(best)
              \/ Len(best) = request.topK
                 /\ \A p \in DOMAIN best : toolScore(best[p], request.feature) >= toolScore(t, request.feature)
  <2>1. PICK i \in DOMAIN request.tools : request.tools[i] = t
    BY DEF ToSet
  <2>2. i \in A
    BY <1>6, <1>12, <2>1
  <2>3. PICK place \in 0..(Cardinality(A) - 1) : place = Place(A, R, i)
    BY <1>8, <2>2, PlacesAreTaken
  <2>4. CASE place < n
    <3>1. place + 1 \in 1..n /\ Place(A, R, seat[place + 1]) = place
      BY <1>2, <1>9, <2>3, <2>4
    <3>2. seat[place + 1] = i
      BY <3>1, <1>4, <1>8, <2>2, <2>3, PlacesAreTaken
    <3> QED BY <3>1, <3>2, <1>4, <2>1 DEF ToSet
  <2>5. CASE place >= n
    <3>1. n = request.topK
      BY <1>2, <1>9, <2>3, <2>5
    <3>2. ASSUME NEW p \in 1..n PROVE toolScore(best[p], request.feature) >= toolScore(t, request.feature)
      <4>1. seat[p] \in A /\ Place(A, R, seat[p]) = p - 1
        BY <1>2, <1>4
      <4>2. <<i, seat[p]>> \notin R
        <5> SUFFICES ASSUME <<i, seat[p]>> \in R PROVE FALSE
          OBVIOUS
        <5>1. Place(A, R, i) < Place(A, R, seat[p])
          BY <1>8, <2>2, <4>1, PlacesInOrder
        <5> QED BY <5>1, <4>1, <1>9, <2>3, <2>5
      <4>3. i # seat[p]
        BY <4>1, <1>9, <2>3, <2>5
      <4>4. <<seat[p], i>> \in R
        BY <4>1, <4>2, <4>3, <1>8, <2>2 DEF Ranking
      <4>5. S(seat[p]) >= S(i)
        <5>1. PICK x, y : x = S(seat[p]) /\ y = S(i)
          OBVIOUS
        <5>2. x > y \/ x = y
          BY <4>1, <4>4, <1>10, <2>2, <5>1
        <5>3. x \in Int /\ y \in Int
          BY <4>1, <1>5, <2>2, <5>1
        <5> QED BY <5>1, <5>2, <5>3
      <4> QED BY <4>1, <4>5, <1>4, <1>5, <2>1, <2>2
    <3> QED BY <3>1, <3>2, <1>4, <1>7
  <2> QED BY <1>9, <2>3, <2>4, <2>5
<1>13. ASSUME NEW p \in DOMAIN best, NEW r \in DOMAIN best, Unknown(best[p]), Proven(best[r]) PROVE r < p
  <2>1. seat[p] \in A /\ seat[r] \in A /\ best[p] = request.tools[seat[p]] /\ best[r] = request.tools[seat[r]]
        /\ p \in 1..n /\ r \in 1..n
    BY <1>4
  <2>2. best[p] \in ToolRecord /\ best[r] \in ToolRecord /\ best[r].lists \subseteq best[r].matches
    BY <2>1, <1>5, <1>6 DEF Fits
  <2>3. toolScore(best[p], request.feature) <= 50 /\ toolScore(best[r], request.feature) > 50
    BY <1>5, <1>13, <2>2, ScoreTyped
  <2>4. S(seat[r]) > S(seat[p])
    BY <2>1, <2>3, <1>5
  <2>5. <<seat[r], seat[p]>> \in R
    BY <2>1, <2>4, <1>10
  <2>6. Place(A, R, seat[r]) < Place(A, R, seat[p])
    BY <2>1, <2>5, <1>8, PlacesInOrder
  <2> QED BY <2>1, <2>6, <1>2
<1> QED BY <1>3, <1>11, <1>12, <1>13

\* What the planning tools call ready keeps the limits they were given: recommended
\* tools fit and the best of them are not left out, a turning plan takes the material
\* down to the allowance in passes no deeper than allowed, a machine check without
\* warnings bounds the speed, and the feed unless it is per revolution of a speed
\* without a unit, and a preflight that is ready leaves nothing open.
THEOREM PlansAlwaysWithinLimits == Spec => []PlansAreWithinLimits
<1> USE PlanningAssumption
<1>1. (Is("planning") => PlanningInv) => PlansAreWithinLimits
  BY ChosenFit, PassesReach, MachineInLimits, ReadyMeansComplete DEF PlansAreWithinLimits, PlansKeepLimits, PlanningInv
<1> QED BY <1>1, PlanningAlwaysInv, PTL
-----------------------------------------------------------------------------
(* Induction over data, with sets for the predicates. *)

\* Every set of natural numbers has a least element.
LEMMA LeastNumber ==
    ASSUME NEW T \in SUBSET Nat, T # {}
    PROVE  \E x \in T : \A y \in T : x <= y
<1>1. PICK x \in T : \A y \in T : ~ (<<y, x>> \in OpToRel(<, Nat))
  BY NatLessThanWellFounded, WFMin, Zenon
<1>2. \A y \in T : ~ (y < x)
  BY <1>1 DEF OpToRel
<1> QED BY <1>2

\* A set that holds 0 and with a number the next one, up to n, holds all of them.
LEMMA UpTo ==
    ASSUME NEW n \in Nat, NEW S, 0 \in S, \A k \in 0..n : k \in S /\ k < n => k + 1 \in S
    PROVE  \A k \in 0..n : k \in S
<1> DEFINE T == {k \in 0..n : k \notin S}
<1> SUFFICES ASSUME T # {} PROVE FALSE
  OBVIOUS
<1>1. PICK x \in T : \A y \in T : x <= y
  <2>1. T \in SUBSET Nat
    OBVIOUS
  <2> HIDE DEF T
  <2> QED BY <2>1, LeastNumber
<1>2. x # 0 /\ x - 1 \in 0..n /\ x - 1 < n /\ x - 1 \in S
  BY <1>1
<1> QED BY <1>1, <1>2

\* The recursive functions of the module are what their equations say.
LEMMA TakenRuns ==
    ASSUME NEW r, NEW chunk, Len(chunk) \in Nat
    PROVE  /\ Taken(r, chunk)[0] = r
           /\ \A k \in 1..Len(chunk) : Taken(r, chunk)[k] = TakeByte(Taken(r, chunk)[k - 1], chunk[k])
<1> DEFINE n == Len(chunk)
           F(f, m) == f = [k \in 0..m |-> IF k = 0 THEN r ELSE TakeByte(f[k - 1], chunk[k])]
           S == {m \in 0..n : \E f : F(f, m)}
<1>1. 0 \in S
  <2>1. F([k \in 0..0 |-> r], 0)
    OBVIOUS
  <2>2. \E f : F(f, 0)
    <3> HIDE DEF F
    <3> QED BY <2>1
  <2> HIDE DEF F
  <2> QED BY <2>2
<1>2. ASSUME NEW m \in 0..n, m \in S, m < n PROVE m + 1 \in S
  <2>1. PICK f : F(f, m)
    BY <1>2
  <2>2. PICK g : g = [k \in 0..(m + 1) |-> IF k = m + 1 THEN TakeByte(f[m], chunk[m + 1]) ELSE f[k]]
    OBVIOUS
  <2>3. \A k \in 0..(m + 1) : g[k] = IF k = 0 THEN r ELSE TakeByte(g[k - 1], chunk[k])
    <3> SUFFICES ASSUME NEW k \in 0..(m + 1) PROVE g[k] = IF k = 0 THEN r ELSE TakeByte(g[k - 1], chunk[k])
      OBVIOUS
    <3>1. CASE k = m + 1
      BY <3>1, <2>2
    <3>2. CASE k # m + 1
      <4>1. k \in 0..m /\ g[k] = f[k] /\ (k # 0 => g[k - 1] = f[k - 1])
        BY <3>2, <2>2
      <4> QED BY <4>1, <2>1
    <3> QED BY <3>1, <3>2
  <2>4. F(g, m + 1)
    BY <2>2, <2>3
  <2> HIDE DEF F
  <2> QED BY <1>2, <2>4
<1> HIDE DEF S
<1>3. \A m \in 0..n : m \in S
  BY <1>1, <1>2, UpTo
<1>4. \E f : F(f, n)
  BY <1>3 DEF S
<1>5. F(Taken(r, chunk), n)
  BY <1>4 DEF Taken
<1> QED BY <1>5

LEMMA DoubledRuns ==
    ASSUME NEW size \in Nat, size > 0, NEW n \in Nat
    PROVE  \A e \in 0..n : Doubled(size, n)[e] \in Nat /\ Doubled(size, n)[e] > e
<1> DEFINE F(f, m) == f = [e \in 0..m |-> IF e = 0 THEN size ELSE 2 * f[e - 1]]
           S == {m \in 0..n : \E f : F(f, m)}
<1>1. 0 \in S
  <2>1. F([e \in 0..0 |-> size], 0)
    OBVIOUS
  <2>2. \E f : F(f, 0)
    <3> HIDE DEF F
    <3> QED BY <2>1
  <2> HIDE DEF F
  <2> QED BY <2>2
<1>2. ASSUME NEW m \in 0..n, m \in S, m < n PROVE m + 1 \in S
  <2>1. PICK f : F(f, m)
    BY <1>2
  <2>2. PICK g : g = [e \in 0..(m + 1) |-> IF e = m + 1 THEN 2 * f[m] ELSE f[e]]
    OBVIOUS
  <2>3. \A e \in 0..(m + 1) : g[e] = IF e = 0 THEN size ELSE 2 * g[e - 1]
    <3> SUFFICES ASSUME NEW e \in 0..(m + 1) PROVE g[e] = IF e = 0 THEN size ELSE 2 * g[e - 1]
      OBVIOUS
    <3>1. CASE e = m + 1
      BY <3>1, <2>2
    <3>2. CASE e # m + 1
      <4>1. e \in 0..m /\ g[e] = f[e] /\ (e # 0 => g[e - 1] = f[e - 1])
        BY <3>2, <2>2
      <4> QED BY <4>1, <2>1
    <3> QED BY <3>1, <3>2
  <2>4. F(g, m + 1)
    BY <2>2, <2>3
  <2> HIDE DEF F
  <2> QED BY <1>2, <2>4
<1> HIDE DEF S
<1>3. \A m \in 0..n : m \in S
  BY <1>1, <1>2, UpTo
<1>4. \E f : F(f, n)
  BY <1>3 DEF S
<1>5. F(Doubled(size, n), n)
  BY <1>4 DEF Doubled
<1>6. PICK d : d = Doubled(size, n)
  OBVIOUS
<1>7. d = [e \in 0..n |-> IF e = 0 THEN size ELSE 2 * d[e - 1]]
  BY <1>5, <1>6
<1> DEFINE T == {e \in 0..n : d[e] \in Nat /\ d[e] > e}
<1>8. 0 \in T /\ \A e \in 0..n : e \in T /\ e < n => e + 1 \in T
  <2>1. 0 \in T
    BY <1>7
  <2>2. ASSUME NEW e \in 0..n, e \in T, e < n PROVE e + 1 \in T
    <3>1. e + 1 \in 0..n /\ d[e + 1] = 2 * d[e]
      BY <1>7, <2>2
    <3>2. PICK x \in Nat : x = d[e] /\ x > e
      BY <2>2
    <3>3. 2 * x \in Nat /\ 2 * x > e + 1
      BY <3>2
    <3> QED BY <3>1, <3>2, <3>3
  <2> QED BY <2>1, <2>2
<1> HIDE DEF T
<1>9. \A e \in 0..n : e \in T
  BY <1>8, UpTo
<1> QED BY <1>6, <1>9 DEF T
(* The two decoders. *)

\* The frames lie one after the other, a header apart or more.
StreamOK ==
    /\ stream \in Seq(Nat)
    /\ \A i, j \in 0..Len(stream) : i < j => End(i) + FrameHeaderSize <= End(j)

FramesOf(w) == [i \in 1..w |-> Payload(i)]

\* The first n bytes hold w whole frames.
Holds(n, w) ==
    /\ w \in 0..Len(stream) /\ n \in Nat
    /\ End(w) <= n /\ n <= Sent /\ (w < Len(stream) => n < End(w + 1))

LEMMA Ends ==
    ASSUME StreamOK
    PROVE  /\ Len(stream) \in Nat /\ DOMAIN stream = 1..Len(stream) /\ Sent \in Nat
           /\ \A i \in 0..Len(stream) : End(i) \in Nat /\ End(i) <= Sent
           /\ \A i \in 1..Len(stream) : Length(i) \in Nat /\ End(i) = End(i - 1) + FrameHeaderSize + Length(i)
<1>1. FrameHeaderSize \in Nat
    BY FramingAssumption
<1>2. Len(stream) \in Nat /\ DOMAIN stream = 1..Len(stream)
    BY DEF StreamOK
<1>3. \A i \in 0..Len(stream) : End(i) \in Nat
    BY <1>2 DEF StreamOK, End
<1>4. Sent \in Nat /\ \A i \in 0..Len(stream) : End(i) <= Sent
    <2>1. Sent \in Nat
        BY <1>2, <1>3 DEF Sent
    <2>2. ASSUME NEW i \in 0..Len(stream) PROVE End(i) <= Sent
        <3>1. CASE i = Len(stream)
            BY <2>1, <3>1 DEF Sent
        <3>2. CASE i < Len(stream)
            <4>1. End(i) + FrameHeaderSize <= End(Len(stream))
                BY <1>2, <3>2 DEF StreamOK
            <4>2. PICK x, y : x = End(i) /\ y = End(Len(stream))
                OBVIOUS
            <4>3. x \in Nat /\ y \in Nat
                BY <4>2, <1>2, <1>3
            <4>4. x <= y
                BY <4>1, <4>2, <4>3, <1>1
            <4> QED BY <4>2, <4>4 DEF Sent
        <3>3. i = Len(stream) \/ i < Len(stream)
            <4>1. PICK n \in Nat : n = Len(stream)
                BY <1>2
            <4>2. i \in Int /\ i <= n
                BY <4>1
            <4> QED BY <4>1, <4>2
        <3> QED BY <3>1, <3>2, <3>3
    <2> QED BY <2>1, <2>2
<1>5. ASSUME NEW i \in 1..Len(stream)
      PROVE  Length(i) \in Nat /\ End(i) = End(i - 1) + FrameHeaderSize + Length(i)
    <2>1. i \in 0..Len(stream) /\ i - 1 \in 0..Len(stream) /\ i - 1 < i
        BY <1>2
    <2>2. End(i - 1) + FrameHeaderSize <= End(i)
        BY <2>1 DEF StreamOK
    <2>3. PICK x, y : x = End(i) /\ y = End(i - 1)
        OBVIOUS
    <2>4. x \in Nat /\ y \in Nat
        BY <1>3, <2>1, <2>3
    <2> QED BY <1>1, <2>2, <2>3, <2>4 DEF Length
<1> QED BY <1>2, <1>3, <1>4, <1>5

\* The first byte of a frame is in no other frame.
LEMMA LengthOfFrame ==
    ASSUME StreamOK, NEW w \in 1..Len(stream)
    PROVE  LengthIn(End(w - 1) + 1) = Length(w)
<1>1. /\ FrameHeaderSize \in Nat /\ FrameHeaderSize > 0
      /\ Len(stream) \in Nat /\ DOMAIN stream = 1..Len(stream)
      /\ \A i \in 0..Len(stream) : End(i) \in Nat
    BY Ends, FramingAssumption
<1>2. PICK b : b = End(w - 1) + 1
    OBVIOUS
<1>3. b \in Nat /\ w \in DOMAIN stream /\ End(w - 1) < b /\ b <= End(w)
    <2>1. w - 1 \in 0..Len(stream) /\ w \in 0..Len(stream) /\ w - 1 < w
        BY <1>1
    <2>2. End(w - 1) + FrameHeaderSize <= End(w)
        BY <2>1 DEF StreamOK
    <2> QED BY <1>1, <1>2, <2>1, <2>2
<1>4. ASSUME NEW i \in DOMAIN stream, End(i - 1) < b, b <= End(i) PROVE i = w
    <2>1. i \in 0..Len(stream) /\ i - 1 \in 0..Len(stream) /\ w - 1 \in 0..Len(stream) /\ w \in 0..Len(stream)
        BY <1>1
    <2>2. CASE i < w
        <3>1. i = w - 1 \/ End(i) + FrameHeaderSize <= End(w - 1)
            <4>1. i = w - 1 \/ i < w - 1
                BY <1>1, <2>1, <2>2
            <4> QED BY <2>1, <4>1 DEF StreamOK
        <3>2. End(i) <= End(w - 1)
            BY <1>1, <2>1, <3>1
        <3> QED BY <1>1, <1>2, <1>4, <2>1, <3>2
    <2>3. CASE w < i
        <3>1. w = i - 1 \/ End(w) + FrameHeaderSize <= End(i - 1)
            BY <1>1, <2>1, <2>3 DEF StreamOK
        <3>2. End(w) <= End(i - 1)
            BY <1>1, <2>1, <3>1
        <3> QED BY <1>1, <1>3, <1>4, <2>1, <3>2
    <2> QED BY <1>1, <2>1, <2>2, <2>3
<1>5. (CHOOSE i \in DOMAIN stream : End(i - 1) < b /\ b <= End(i)) = w
    BY <1>3, <1>4
<1> QED BY <1>2, <1>5 DEF LengthIn

LEMMA BytesFacts ==
    ASSUME NEW a \in Nat, NEW m \in Nat
    PROVE  /\ Bytes(a, m) \in Seq(Nat) /\ Len(Bytes(a, m)) = m
           /\ \A k \in 1..m : Bytes(a, m)[k] = a + k
           /\ Bytes(a, 0) = <<>>
           /\ Append(Bytes(a, m), a + m + 1) = Bytes(a, m + 1)
<1>1. PICK s, t : s = Bytes(a, m) /\ t = Bytes(a, m + 1)
    OBVIOUS
<1>2. s = [k \in 1..m |-> a + k] /\ s \in Seq(Nat) /\ Len(s) = m
    BY <1>1 DEF Bytes
<1>3. t = [k \in 1..(m + 1) |-> a + k] /\ t \in Seq(Nat) /\ Len(t) = m + 1
    BY <1>1 DEF Bytes
<1>4. Append(s, a + m + 1) = t
    <2>1. PICK u : u = Append(s, a + m + 1)
        OBVIOUS
    <2>2. u \in Seq(Nat) /\ Len(u) = m + 1 /\ \A k \in 1..(m + 1) : u[k] = IF k = m + 1 THEN a + m + 1 ELSE s[k]
        BY <1>2, <2>1
    <2>3. ASSUME NEW k \in 1..(m + 1) PROVE u[k] = t[k]
        <3>1. t[k] = a + k
            BY <1>3
        <3>2. CASE k = m + 1
            <4>1. u[k] = a + m + 1
                BY <2>2, <3>2
            <4> QED BY <3>1, <3>2, <4>1
        <3>3. CASE k # m + 1
            <4>1. k \in 1..m
                BY <3>3
            <4>2. u[k] = s[k] /\ s[k] = a + k
                BY <1>2, <2>2, <3>3, <4>1
            <4> QED BY <3>1, <4>2
        <3> QED BY <3>2, <3>3
    <2> QED BY <1>3, <2>1, <2>2, <2>3
<1>5. Bytes(a, 0) = <<>>
    BY DEF Bytes
<1> QED BY <1>1, <1>2, <1>4, <1>5

LEMMA FramesFacts ==
    ASSUME StreamOK, NEW w \in 0..Len(stream)
    PROVE  /\ FramesOf(w) \in Seq(Seq(Nat)) /\ Len(FramesOf(w)) = w
           /\ FramesOf(0) = <<>>
           /\ w < Len(stream) => Append(FramesOf(w), Payload(w + 1)) = FramesOf(w + 1)
<1>1. w \in Nat /\ Len(stream) \in Nat
    BY Ends
<1>2. \A i \in 1..Len(stream) : Payload(i) \in Seq(Nat)
    <2> SUFFICES ASSUME NEW i \in 1..Len(stream) PROVE Payload(i) \in Seq(Nat)
        OBVIOUS
    <2>1. i - 1 \in 0..Len(stream)
        BY <1>1
    <2>2. PICK a : a = End(i - 1) + FrameHeaderSize
        OBVIOUS
    <2>3. PICK m : m = Length(i)
        OBVIOUS
    <2>4. a \in Nat /\ m \in Nat
        <3>1. FrameHeaderSize \in Nat /\ End(i - 1) \in Nat
            BY <2>1, Ends, FramingAssumption
        <3>2. m \in Nat
            BY <2>3, Ends
        <3> QED BY <2>2, <3>1, <3>2
    <2>5. Bytes(a, m) \in Seq(Nat)
        BY <2>4, BytesFacts
    <2> QED BY <2>2, <2>3, <2>5 DEF Payload
<1>3. PICK s, t : s = FramesOf(w) /\ t = FramesOf(w + 1)
    OBVIOUS
<1>4. s = [i \in 1..w |-> Payload(i)] /\ t = [i \in 1..(w + 1) |-> Payload(i)]
    BY <1>3 DEF FramesOf
<1>5. s \in Seq(Seq(Nat)) /\ Len(s) = w
    <2>1. \A i \in 1..w : Payload(i) \in Seq(Nat)
        BY <1>1, <1>2
    <2> QED BY <1>1, <1>4, <2>1
<1>6. ASSUME w < Len(stream) PROVE Append(s, Payload(w + 1)) = t
    <2>1. PICK p : p = Payload(w + 1)
        OBVIOUS
    <2>2. p \in Seq(Nat)
        BY <1>1, <1>2, <1>6, <2>1
    <2>3. PICK u : u = Append(s, p)
        OBVIOUS
    <2>4. u \in Seq(Seq(Nat)) /\ Len(u) = w + 1 /\ \A k \in 1..(w + 1) : u[k] = IF k = w + 1 THEN p ELSE s[k]
        BY <1>1, <1>5, <2>2, <2>3
    <2>5. \A i \in 1..(w + 1) : Payload(i) \in Seq(Nat)
        BY <1>1, <1>2, <1>6
    <2>6. t \in Seq(Seq(Nat)) /\ Len(t) = w + 1
        BY <1>1, <1>4, <2>5
    <2>7. ASSUME NEW k \in 1..(w + 1) PROVE u[k] = t[k]
        <3>1. t[k] = Payload(k)
            BY <1>4
        <3>2. CASE k = w + 1
            BY <2>1, <2>4, <3>1, <3>2
        <3>3. CASE k # w + 1
            <4>1. k \in 1..w
                BY <1>1, <3>3
            <4>2. u[k] = s[k] /\ s[k] = Payload(k)
                BY <1>4, <2>4, <3>3, <4>1
            <4> QED BY <3>1, <4>2
        <3> QED BY <3>2, <3>3
    <2> QED BY <1>1, <2>1, <2>3, <2>4, <2>6, <2>7
<1>7. FramesOf(0) = <<>>
    BY DEF FramesOf
<1> QED BY <1>3, <1>5, <1>6, <1>7

LEMMA FramesPrefix ==
    ASSUME StreamOK, NEW w \in 0..Len(stream)
    PROVE  IsPrefix(FramesOf(w), Payloads)
<1>1. PICK s, t : s = FramesOf(w) /\ t = Payloads
    OBVIOUS
<1>2. w \in Nat /\ Len(stream) \in Nat /\ DOMAIN stream = 1..Len(stream)
    BY Ends
<1>3. s \in Seq(Seq(Nat)) /\ Len(s) = w
    BY <1>1, FramesFacts
<1>4. t = FramesOf(Len(stream)) /\ t \in Seq(Seq(Nat)) /\ Len(t) = Len(stream)
    <2>1. t = FramesOf(Len(stream))
        BY <1>1, <1>2 DEF Payloads, FramesOf
    <2>2. Len(stream) \in 0..Len(stream)
        BY <1>2
    <2>3. FramesOf(Len(stream)) \in Seq(Seq(Nat)) /\ Len(FramesOf(Len(stream))) = Len(stream)
        BY <2>2, FramesFacts
    <2> QED BY <2>1, <2>3
<1>5. \A k \in 1..w : s[k] = t[k]
    BY <1>1, <1>2 DEF FramesOf, Payloads
<1>6. s = SubSeq(t, 1, w)
    BY <1>2, <1>3, <1>4, <1>5
<1> QED BY <1>1, <1>2, <1>3, <1>4, <1>6 DEF IsPrefix

\* The number of whole frames.
LEMMA WholeIs ==
    ASSUME StreamOK, NEW n, NEW w, Holds(n, w)
    PROVE  Whole(n) = w
<1>1. /\ FrameHeaderSize \in Nat
      /\ Len(stream) \in Nat /\ DOMAIN stream = 1..Len(stream)
      /\ \A i \in 0..Len(stream) : End(i) \in Nat
    BY Ends, FramingAssumption
<1>2. ASSUME NEW i \in 1..Len(stream) PROVE End(i) <= n <=> i <= w
    <2>1. i \in 0..Len(stream) /\ w \in 0..Len(stream) /\ n \in Nat
        BY <1>1 DEF Holds
    <2>2. CASE i <= w
        <3>1. i = w \/ End(i) + FrameHeaderSize <= End(w)
            BY <1>1, <2>1, <2>2 DEF StreamOK
        <3>2. End(i) <= End(w)
            BY <1>1, <2>1, <3>1
        <3> QED BY <1>1, <2>1, <2>2, <3>2 DEF Holds
    <2>3. CASE i > w
        <3>1. w + 1 \in 0..Len(stream) /\ n < End(w + 1)
            BY <1>1, <2>1, <2>3 DEF Holds
        <3>2. i = w + 1 \/ End(w + 1) + FrameHeaderSize <= End(i)
            BY <1>1, <2>1, <2>3, <3>1 DEF StreamOK
        <3>3. End(w + 1) <= End(i)
            BY <1>1, <2>1, <3>1, <3>2
        <3> QED BY <1>1, <2>1, <2>3, <3>1, <3>3
    <2> QED BY <2>1, <2>2, <2>3
<1>3. {i \in DOMAIN stream : End(i) <= n} = 1..w
    BY <1>1, <1>2 DEF Holds
<1>4. w \in Nat /\ 1 \in Int /\ w \in Int
    BY <1>1 DEF Holds
<1>5. Cardinality(1..w) = w
    <2>1. Cardinality(1..w) = IF 1 > w THEN 0 ELSE w - 1 + 1
        BY <1>4, FS_Interval
    <2> QED BY <1>4, <2>1
<1> QED BY <1>3, <1>5 DEF Whole
-----------------------------------------------------------------------------
\* The n bytes end in frame w + 1.
LEMMA Inside ==
    ASSUME StreamOK, NEW n, NEW w, Holds(n, w), n < Sent
    PROVE  /\ w \in 0..Len(stream) /\ w < Len(stream) /\ w + 1 \in 1..Len(stream) /\ w + 1 \in 0..Len(stream)
           /\ n \in Nat /\ End(w) \in Nat /\ End(w) <= n /\ n < End(w + 1) /\ End(w + 1) <= Sent
           /\ Length(w + 1) \in Nat /\ End(w + 1) = End(w) + FrameHeaderSize + Length(w + 1)
           /\ FrameHeaderSize \in Nat /\ FrameHeaderSize > 0
           /\ w + 1 < Len(stream) => End(w + 1) < End(w + 2)
<1>1. w \in 0..Len(stream) /\ n \in Nat /\ Len(stream) \in Nat /\ FrameHeaderSize \in Nat /\ FrameHeaderSize > 0
    BY Ends, FramingAssumption DEF Holds
<1>2. w # Len(stream)
    <2>1. PICK x : x = End(w)
        OBVIOUS
    <2>2. x \in Nat /\ x <= n
        BY <1>1, <2>1, Ends DEF Holds
    <2>3. x < Sent
        BY <1>1, <2>2, Ends
    <2> QED BY <2>1, <2>3, Ends DEF Sent
<1>3. w < Len(stream)
    <2>1. PICK k \in Nat : k = Len(stream)
        BY <1>1
    <2> QED BY <1>1, <1>2, <2>1
<1>4. w + 1 \in 1..Len(stream) /\ w + 1 \in 0..Len(stream) /\ w + 1 - 1 = w
    BY <1>1, <1>3
<1>5. End(w) \in Nat /\ End(w) <= n /\ n < End(w + 1) /\ End(w + 1) <= Sent
    BY <1>1, <1>3, <1>4, Ends DEF Holds
<1>6. Length(w + 1) \in Nat /\ End(w + 1) = End(w) + FrameHeaderSize + Length(w + 1)
    <2>1. PICK v : v = w + 1
        OBVIOUS
    <2>2. v \in 1..Len(stream) /\ v - 1 = w
        BY <1>1, <1>4, <2>1
    <2>3. Length(v) \in Nat /\ End(v) = End(v - 1) + FrameHeaderSize + Length(v)
        BY <2>2, Ends
    <2> QED BY <2>1, <2>2, <2>3
<1>7. ASSUME w + 1 < Len(stream) PROVE End(w + 1) < End(w + 2)
    <2>1. w + 2 \in 0..Len(stream) /\ w + 1 < w + 2
        BY <1>1, <1>7
    <2>2. End(w + 1) + FrameHeaderSize <= End(w + 2)
        BY <1>4, <2>1 DEF StreamOK
    <2>3. PICK x, y : x = End(w + 1) /\ y = End(w + 2)
        OBVIOUS
    <2>4. x \in Nat /\ y \in Nat
        BY <1>4, <2>1, <2>3, Ends
    <2> QED BY <1>1, <2>2, <2>3, <2>4
<1> QED BY <1>1, <1>3, <1>4, <1>5, <1>6, <1>7

\* One byte more is in the same frame, or the last of it.
LEMMA OneMore ==
    ASSUME StreamOK, NEW n, NEW w, Holds(n, w), n < Sent
    PROVE  /\ n + 1 < End(w + 1) => Holds(n + 1, w)
           /\ n + 1 = End(w + 1) => Holds(n + 1, w + 1)
           /\ n + 1 <= Sent
<1>1. Sent \in Nat
    BY Ends
<1>2. n \in Nat /\ n + 1 <= Sent
    BY <1>1, Inside
<1>3. ASSUME n + 1 < End(w + 1) PROVE Holds(n + 1, w)
    <2>1. w \in 0..Len(stream) /\ End(w) \in Nat /\ End(w) <= n
        BY Inside
    <2> QED BY <1>2, <1>3, <2>1 DEF Holds
<1>4. ASSUME n + 1 = End(w + 1) PROVE Holds(n + 1, w + 1)
    <2>1. w + 1 \in 0..Len(stream) /\ (w + 1 < Len(stream) => End(w + 1) < End(w + 2)) /\ w \in Nat
        BY Inside, Ends
    <2>2. w + 1 + 1 = w + 2
        BY <2>1
    <2> QED BY <1>2, <1>4, <2>1, <2>2 DEF Holds
<1> QED BY <1>2, <1>3, <1>4

\* The reader q bytes after the w-th frame, which it holds.
ReaderHolds(w, q) ==
    [header |-> IF q >= FrameHeaderSize THEN <<>> ELSE Bytes(End(w), q),
     payload |-> IF q >= FrameHeaderSize THEN Bytes(End(w) + FrameHeaderSize, q - FrameHeaderSize) ELSE <<>>,
     expected |-> IF q >= FrameHeaderSize THEN Length(w + 1) ELSE -1,
     frames |-> FramesOf(w), status |-> "open"]

ReaderAt(r, n, w) ==
    /\ Holds(n, w)
    /\ \E q \in Nat : /\ n = End(w) + q /\ r = ReaderHolds(w, q)
                      /\ q >= FrameHeaderSize => Length(w + 1) <= MaxFrameSize

ReaderBroken(r, w) ==
    /\ w \in 0..Len(stream) /\ Oversized
    /\ r = [NewReader EXCEPT !.frames = FramesOf(w), !.status = "broken"]

ReaderInv(r, n) == \E w \in 0..Len(stream) : ReaderAt(r, n, w) \/ ReaderBroken(r, w)

LEMMA TakeByteReads ==
    ASSUME StreamOK, NEW r, NEW n, NEW w, ReaderAt(r, n, w), n < Sent
    PROVE  \E v \in 0..Len(stream) :
               ReaderAt(TakeByte(r, n + 1), n + 1, v) \/ ReaderBroken(TakeByte(r, n + 1), v)
<1>0. Holds(n, w)
    BY DEF ReaderAt
<1> DEFINE H == FrameHeaderSize
<1>1. PICK v, e, ends, L : v = w + 1 /\ e = End(w) /\ ends = End(v) /\ L = Length(v)
    OBVIOUS
<1>2. /\ w \in 0..Len(stream) /\ w < Len(stream) /\ v \in 1..Len(stream) /\ v \in 0..Len(stream) /\ v - 1 = w
      /\ n \in Nat /\ e \in Nat /\ L \in Nat /\ ends = e + H + L /\ n < ends
      /\ H \in Nat /\ H > 0 /\ MaxFrameSize \in Nat
    <2>1. v - 1 = w
        <3>1. w \in 0..Len(stream) /\ Len(stream) \in Nat
            BY <1>0, Ends DEF Holds
        <3> QED BY <1>1, <3>1
    <2> QED BY <1>0, <1>1, <2>1, Inside, FramingAssumption
<1>3. /\ n + 1 < ends => Holds(n + 1, w)
      /\ n + 1 = ends => Holds(n + 1, v)
    BY <1>0, <1>1, OneMore
<1>4. PICK q \in Nat : n = e + q /\ r = ReaderHolds(w, q) /\ (q >= H => L <= MaxFrameSize)
    BY <1>1 DEF ReaderAt
<1>5. q < H + L
    BY <1>2, <1>4
<1>6. PICK fs, gs : fs = FramesOf(w) /\ gs = FramesOf(v)
    OBVIOUS
<1>7. Append(fs, Payload(v)) = gs
    BY <1>1, <1>2, <1>6, FramesFacts
<1>8. Payload(v) = Bytes(e + H, L)
    BY <1>1, <1>2 DEF Payload
<1>10. PICK b : b = n + 1
    OBVIOUS
<1>11. b = e + q + 1 /\ b \in Nat
    BY <1>2, <1>4, <1>10
\* What is to be shown, in the cases of the frame being whole or not.
<1>12. ASSUME NEW t, q + 1 = H + L,
              t = [header |-> <<>>, payload |-> <<>>, expected |-> -1, frames |-> gs, status |-> "open"]
       PROVE  ReaderAt(t, b, v)
    <2>1. b = ends
        BY <1>2, <1>11, <1>12
    <2>2. Bytes(End(v), 0) = <<>>
        BY <1>1, <1>2, <2>1, <1>11, BytesFacts
    <2>3. ReaderHolds(v, 0) = t
        <3>1. ~ (0 >= H)
            BY <1>2
        <3> QED BY <1>6, <1>12, <2>2, <3>1 DEF ReaderHolds
    <2>4. b = End(v) + 0 /\ ~ (0 >= H) /\ 0 \in Nat
        BY <1>1, <1>2, <1>11, <2>1
    <2>5. Holds(b, v)
        BY <1>3, <1>10, <2>1
    <2> QED BY <2>3, <2>4, <2>5 DEF ReaderAt
<1>13. ASSUME NEW t, q + 1 < H + L, t = ReaderHolds(w, q + 1), q + 1 >= H => L <= MaxFrameSize
       PROVE  ReaderAt(t, b, w)
    <2>1. b < ends
        BY <1>2, <1>11, <1>13
    <2>2. Holds(b, w)
        BY <1>3, <1>10, <2>1
    <2>3. PICK p \in Nat : p = q + 1
        OBVIOUS
    <2>4. b = e + p
        BY <1>2, <1>11, <2>3
    <2> QED BY <1>1, <1>13, <2>2, <2>3, <2>4 DEF ReaderAt
<1> SUFFICES \E u \in 0..Len(stream) : ReaderAt(TakeByte(r, b), b, u) \/ ReaderBroken(TakeByte(r, b), u)
    BY <1>10
<1>14. CASE q >= H
    <2>1. PICK body : body = Bytes(e + H, q - H)
        OBVIOUS
    <2>2. /\ r = [header |-> <<>>, payload |-> body, expected |-> L, frames |-> fs, status |-> "open"]
          /\ L <= MaxFrameSize
        BY <1>1, <1>4, <1>6, <1>14, <2>1 DEF ReaderHolds
    <2>3. PICK full : full = Append(body, b)
        OBVIOUS
    <2>4. full = Bytes(e + H, q - H + 1) /\ Len(full) = q - H + 1
        <3>1. PICK a \in Nat, m \in Nat : a = e + H /\ m = q - H
            BY <1>2, <1>14
        <3>2. a + m + 1 = b
            BY <1>2, <1>11, <3>1
        <3>3. Append(Bytes(a, m), a + m + 1) = Bytes(a, m + 1)
            BY BytesFacts
        <3>4. m + 1 \in Nat
            OBVIOUS
        <3>5. Len(Bytes(a, m + 1)) = m + 1
            BY <3>4, BytesFacts
        <3> QED BY <2>1, <2>3, <3>1, <3>2, <3>3, <3>5
    <2>5. TakeByte(r, b) = IF Len(full) = L THEN HandOut(r, full) ELSE [r EXCEPT !.payload = full]
        BY <1>2, <2>2, <2>3 DEF TakeByte
    <2>6. CASE q - H + 1 = L
        <3>1. q + 1 = H + L
            BY <1>2, <2>6
        <3>2. full = Payload(v)
            BY <1>8, <2>4, <2>6
        <3>3. TakeByte(r, b) = [header |-> <<>>, payload |-> <<>>, expected |-> -1, frames |-> gs, status |-> "open"]
            BY <1>7, <2>2, <2>4, <2>5, <2>6, <3>2 DEF HandOut
        <3>4. ReaderAt(TakeByte(r, b), b, v)
            BY <1>12, <3>1, <3>3
        <3> QED BY <1>2, <3>4
    <2>7. CASE q - H + 1 # L
        <3>1. q + 1 < H + L
            BY <1>2, <1>5, <2>7
        <3>2. PICK p : p = q + 1
            OBVIOUS
        <3>3. p >= H /\ p - H = q - H + 1
            BY <1>2, <1>14, <3>2
        <3>4. TakeByte(r, b) = [header |-> <<>>, payload |-> full, expected |-> L, frames |-> fs, status |-> "open"]
            BY <2>2, <2>4, <2>5, <2>7
        <3>5. ReaderHolds(w, p) = TakeByte(r, b)
            BY <1>1, <1>6, <2>4, <3>3, <3>4 DEF ReaderHolds
        <3>6. ReaderAt(TakeByte(r, b), b, w)
            BY <1>13, <2>2, <3>1, <3>2, <3>5
        <3> QED BY <1>2, <3>6
    <2> QED BY <2>6, <2>7
<1>15. CASE q < H
    <2>1. PICK head : head = Bytes(e, q)
        OBVIOUS
    <2>2. r = [header |-> head, payload |-> <<>>, expected |-> -1, frames |-> fs, status |-> "open"]
        <3>1. ~ (q >= H)
            BY <1>2, <1>15
        <3> QED BY <1>1, <1>4, <1>6, <2>1, <3>1 DEF ReaderHolds
    <2>3. PICK whole : whole = Append(head, b)
        OBVIOUS
    <2>4. whole = Bytes(e, q + 1) /\ Len(head) = q /\ whole[1] = e + 1
        <3>1. Append(Bytes(e, q), e + q + 1) = Bytes(e, q + 1) /\ Len(Bytes(e, q)) = q
            BY <1>2, BytesFacts
        <3>2. q + 1 \in Nat /\ 1 \in 1..(q + 1)
            OBVIOUS
        <3>3. Bytes(e, q + 1)[1] = e + 1
            BY <1>2, <3>2, BytesFacts
        <3> QED BY <1>11, <2>1, <2>3, <3>1, <3>3
    <2>5. CASE q + 1 < H
        <3>1. TakeByte(r, b) = [header |-> whole, payload |-> <<>>, expected |-> -1, frames |-> fs, status |-> "open"]
            <4>1. Len(head) + 1 < H
                BY <2>4, <2>5
            <4>2. TakeByte(r, b) = [r EXCEPT !.header = Append(@, b)]
                BY <2>2, <4>1 DEF TakeByte
            <4> QED BY <2>2, <2>3, <4>2
        <3>2. PICK p : p = q + 1
            OBVIOUS
        <3>3. ~ (p >= H) /\ p < H + L
            BY <1>2, <2>5, <3>2
        <3>4. ReaderHolds(w, p) = TakeByte(r, b)
            BY <1>1, <1>6, <2>4, <3>1, <3>2, <3>3 DEF ReaderHolds
        <3>5. ReaderAt(TakeByte(r, b), b, w)
            BY <1>13, <3>2, <3>3, <3>4
        <3> QED BY <1>2, <3>5
    <2>6. CASE q + 1 = H
        <3>1. LengthIn(whole[1]) = L
            BY <1>1, <1>2, <2>4, LengthOfFrame
        <3>2. PICK next : next = HeaderDone(r, b)
            OBVIOUS
        <3>3. next = [header |-> <<>>, payload |-> <<>>, expected |-> L, frames |-> fs, status |-> "open"]
            BY <2>2, <2>3, <3>1, <3>2 DEF HeaderDone
        <3>4. TakeByte(r, b) =
                  IF L > MaxFrameSize THEN [NewReader EXCEPT !.frames = fs, !.status = "broken"]
                  ELSE IF L = 0 THEN HandOut(next, <<>>) ELSE next
            <4>1. ~ (Len(head) + 1 < H)
                BY <1>2, <2>4, <2>6
            <4> QED BY <2>2, <3>2, <3>3, <4>1 DEF TakeByte
        <3>5. CASE L > MaxFrameSize
            <4>1. Oversized
                BY <1>1, <1>2, <3>5, Ends DEF Oversized
            <4>2. ReaderBroken(TakeByte(r, b), w)
                BY <1>2, <1>6, <3>4, <3>5, <4>1 DEF ReaderBroken
            <4> QED BY <1>2, <4>2
        <3>6. CASE L <= MaxFrameSize /\ L = 0
            <4>1. TakeByte(r, b) = HandOut(next, <<>>)
                BY <1>2, <3>4, <3>6
            <4>2. q + 1 = H + L
                BY <1>2, <2>6, <3>6
            <4>3. Payload(v) = <<>>
                <5>1. e + H \in Nat
                    BY <1>2
                <5> QED BY <1>8, <3>6, <5>1, BytesFacts
            <4>4. TakeByte(r, b) = [header |-> <<>>, payload |-> <<>>, expected |-> -1, frames |-> gs,
                                    status |-> "open"]
                BY <1>7, <3>3, <4>1, <4>3 DEF HandOut
            <4>5. ReaderAt(TakeByte(r, b), b, v)
                BY <1>12, <4>2, <4>4
            <4> QED BY <1>2, <4>5
        <3>7. CASE L <= MaxFrameSize /\ L > 0
            <4>1. TakeByte(r, b) = next
                BY <1>2, <3>4, <3>7
            <4>2. PICK p : p = q + 1
                OBVIOUS
            <4>3. p >= H /\ p - H = 0 /\ p < H + L
                BY <1>2, <2>6, <3>7, <4>2
            <4>4. Bytes(e + H, 0) = <<>>
                <5>1. e + H \in Nat
                    BY <1>2
                <5> QED BY <5>1, BytesFacts
            <4>5. ReaderHolds(w, p) = next
                BY <1>1, <1>6, <3>3, <4>3, <4>4 DEF ReaderHolds
            <4>6. ReaderAt(TakeByte(r, b), b, w)
                BY <1>13, <3>7, <4>1, <4>2, <4>3, <4>5
            <4> QED BY <1>2, <4>6
        <3> QED BY <1>2, <3>5, <3>6, <3>7
    <2> QED BY <1>2, <1>15, <2>5, <2>6
<1> QED BY <1>2, <1>14, <1>15

\* A chunk leaves the reader where the stream is, or broken with what it had before.
LEMMA PushReads ==
    ASSUME StreamOK, NEW r, NEW n \in Nat, NEW m \in Nat, n + m <= Sent, ReaderInv(r, n)
    PROVE  ReaderInv(push(r, Bytes(n, m)), n + m)
<1>1. PICK w \in 0..Len(stream) : ReaderAt(r, n, w) \/ ReaderBroken(r, w)
    BY DEF ReaderInv
<1>2. PICK chunk, after : chunk = Bytes(n, m) /\ after = Taken(r, chunk)
    OBVIOUS
<1>3. Len(chunk) = m /\ \A k \in 1..m : chunk[k] = n + k
    BY <1>2, BytesFacts
<1>4. after[0] = r /\ \A k \in 1..m : after[k] = TakeByte(after[k - 1], n + k)
    BY <1>2, <1>3, TakenRuns
<1> DEFINE Good(k) == \E v \in 0..Len(stream) : ReaderAt(after[k], n + k, v) \/ ReaderBroken(after[k], v)
           S == {k \in 0..m : Good(k)}
<1>5. 0 \in S
    BY <1>1, <1>4
<1>6. ASSUME NEW k \in 0..m, k \in S, k < m PROVE k + 1 \in S
    <2>1. PICK v \in 0..Len(stream) : ReaderAt(after[k], n + k, v) \/ ReaderBroken(after[k], v)
        BY <1>6
    <2>2. k + 1 \in 1..m /\ k + 1 \in 0..m /\ k + 1 - 1 = k /\ n + k \in Nat /\ n + k + 1 = n + (k + 1)
        BY <1>6
    <2>3. after[k + 1] = TakeByte(after[k], n + (k + 1))
        BY <1>4, <2>2
    <2>4. CASE ReaderAt(after[k], n + k, v)
        <3>1. n + k < Sent
            BY <1>6, <2>2, Ends
        <3>2. PICK x : x = n + k
            OBVIOUS
        <3>3. \E u \in 0..Len(stream) :
                  ReaderAt(TakeByte(after[k], x + 1), x + 1, u) \/ ReaderBroken(TakeByte(after[k], x + 1), u)
            BY <2>4, <3>1, <3>2, TakeByteReads
        <3>4. Good(k + 1)
            BY <2>2, <2>3, <3>2, <3>3
        <3> QED BY <2>2, <3>4
    <2>5. CASE ReaderBroken(after[k], v)
        <3>1. after[k].status = "broken"
            BY <2>5 DEF ReaderBroken, NewReader
        <3>2. TakeByte(after[k], n + (k + 1)) = after[k]
            BY <3>1 DEF TakeByte
        <3>3. Good(k + 1)
            BY <2>3, <2>5, <3>2
        <3> QED BY <2>2, <3>3
    <2> QED BY <2>1, <2>4, <2>5
<1>7. m \in S
    <2> HIDE DEF S
    <2>1. \A k \in 0..m : k \in S
        BY <1>5, <1>6, UpTo
    <2> QED BY <2>1
<1>8. PICK v \in 0..Len(stream) : ReaderAt(after[m], n + m, v) \/ ReaderBroken(after[m], v)
    BY <1>7
<1>9. push(r, chunk) = IF after[m].status = "broken" THEN [after[m] EXCEPT !.frames = r.frames] ELSE after[m]
    BY <1>2, <1>3 DEF push
<1>10. CASE ReaderAt(after[m], n + m, v)
    <2>1. after[m].status = "open"
        BY <1>10 DEF ReaderAt, ReaderHolds
    <2>2. push(r, chunk) = after[m]
        BY <1>9, <2>1
    <2> QED BY <1>2, <1>10, <2>2 DEF ReaderInv
<1>11. CASE ReaderBroken(after[m], v)
    <2>1. after[m] = [NewReader EXCEPT !.frames = FramesOf(v), !.status = "broken"] /\ Oversized
        BY <1>11 DEF ReaderBroken
    <2>2. r.frames = FramesOf(w)
        <3>1. CASE ReaderAt(r, n, w)
            BY <3>1 DEF ReaderAt, ReaderHolds
        <3>2. CASE ReaderBroken(r, w)
            BY <3>2 DEF ReaderBroken, NewReader
        <3> QED BY <1>1, <3>1, <3>2
    <2>3. push(r, chunk) = [NewReader EXCEPT !.frames = FramesOf(w), !.status = "broken"]
        BY <1>9, <2>1, <2>2 DEF NewReader
    <2>4. ReaderBroken(push(r, chunk), w)
        BY <2>1, <2>3 DEF ReaderBroken
    <2> QED BY <1>2, <2>4 DEF ReaderInv
<1> QED BY <1>8, <1>10, <1>11
-----------------------------------------------------------------------------
\* A pooled buffer of some size with n bytes from a place in the stream on.
PoolIs(p, size, start, from, n, frames, status) ==
    /\ size \in Nat /\ size > 0 /\ start \in Nat /\ n \in Nat /\ from \in Nat /\ start + n <= size
    /\ p = [buffer |-> p.buffer, start |-> start, end |-> start + n, frames |-> frames, status |-> status]
    /\ DOMAIN p.buffer = 0..(size - 1)
    /\ \A i \in start..(start + n - 1) : p.buffer[i] = from + (i - start) + 1

LEMMA PoolSize ==
    ASSUME NEW p, NEW size, NEW start, NEW from, NEW n, NEW fs, NEW st, PoolIs(p, size, start, from, n, fs, st)
    PROVE  Size(p) = size
<1>1. size \in Nat /\ size > 0 /\ DOMAIN p.buffer = 0..(size - 1)
    BY DEF PoolIs
<1>2. 0 \in Int /\ size - 1 \in Int
    BY <1>1
<1>3. Cardinality(0..(size - 1)) = IF 0 > size - 1 THEN 0 ELSE size - 1 - 0 + 1
    BY <1>2, FS_Interval
<1> QED BY <1>1, <1>3 DEF Size

LEMMA ToFrontHolds ==
    ASSUME NEW p, NEW size, NEW start, NEW from, NEW n, NEW fs, NEW st, PoolIs(p, size, start, from, n, fs, st)
    PROVE  PoolIs(ToFront(p), size, 0, from, n, fs, st)
<1>1. /\ size \in Nat /\ size > 0 /\ start \in Nat /\ n \in Nat /\ from \in Nat /\ start + n <= size
      /\ p = [buffer |-> p.buffer, start |-> start, end |-> start + n, frames |-> fs, status |-> st]
      /\ DOMAIN p.buffer = 0..(size - 1)
      /\ \A i \in start..(start + n - 1) : p.buffer[i] = from + (i - start) + 1
    BY DEF PoolIs
<1>2. p.start = start /\ p.end = start + n /\ p.end - p.start = n
    BY <1>1
<1>3. PICK buf : buf = BlockCopy(p.buffer, start, p.buffer, 0, n)
    OBVIOUS
<1>4. buf = [i \in 0..(size - 1) |-> IF i \in 0..(0 + n - 1) THEN p.buffer[start + i - 0] ELSE p.buffer[i]]
    BY <1>1, <1>3 DEF BlockCopy
<1>5. ToFront(p) = [buffer |-> buf, start |-> 0, end |-> n, frames |-> fs, status |-> st]
    <2>1. PICK old : old = p.buffer
        OBVIOUS
    <2>2. p = [buffer |-> old, start |-> start, end |-> start + n, frames |-> fs, status |-> st]
        BY <1>1, <2>1
    <2>3. ToFront(p) = [p EXCEPT !.buffer = buf, !.start = 0, !.end = n]
        BY <1>2, <1>3 DEF ToFront
    <2> QED BY <2>2, <2>3
<1>6. ASSUME NEW i \in 0..(n - 1) PROVE buf[i] = from + i + 1
    <2>1. i \in 0..(size - 1) /\ i \in 0..(0 + n - 1) /\ start + i - 0 \in start..(start + n - 1)
        BY <1>1
    <2>2. PICK j : j = start + i - 0
        OBVIOUS
    <2>3. buf[i] = p.buffer[j]
        BY <1>4, <2>1, <2>2
    <2>4. p.buffer[j] = from + (j - start) + 1
        BY <1>1, <2>1, <2>2
    <2> QED BY <1>1, <2>2, <2>3, <2>4
<1>7. \A i \in 0..(0 + n - 1) : buf[i] = from + (i - 0) + 1
    BY <1>1, <1>6
<1>8. DOMAIN buf = 0..(size - 1) /\ 0 + n = n /\ n <= size
    BY <1>1, <1>4
<1> QED BY <1>1, <1>5, <1>7, <1>8 DEF PoolIs

\* The larger buffer is large enough, unless the largest there may be is too small.
LEMMA GrownHolds ==
    ASSUME NEW p, NEW size, NEW from, NEW n, NEW fs, PoolIs(p, size, 0, from, n, fs, "open"),
           NEW required \in Nat, n <= required, required > 0
    PROVE  \/ Grown(p, required) = [p EXCEPT !.status = "broken"] /\ required > LargestBuffer
           \/ \E room \in Nat : room >= required /\ PoolIs(Grown(p, required), room, 0, from, n, fs, "open")
<1>1. /\ size \in Nat /\ size > 0 /\ n \in Nat /\ from \in Nat /\ n <= size
      /\ p = [buffer |-> p.buffer, start |-> 0, end |-> n, frames |-> fs, status |-> "open"]
      /\ DOMAIN p.buffer = 0..(size - 1)
      /\ \A i \in 0..(n - 1) : p.buffer[i] = from + i + 1
    <2>1. n \in Nat /\ 0 + n = n /\ 0 + n - 1 = n - 1
        BY DEF PoolIs
    <2>2. \A i \in 0..(n - 1) : p.buffer[i] = from + (i - 0) + 1
        BY <2>1 DEF PoolIs
    <2>3. \A i \in 0..(n - 1) : i - 0 = i
        OBVIOUS
    <2>4. \A i \in 0..(n - 1) : p.buffer[i] = from + i + 1
        BY <2>2, <2>3
    <2> QED BY <2>1, <2>4 DEF PoolIs
<1>2. Size(p) = size
    BY PoolSize
<1>3. PICK sizes, doubled, nextSize :
          /\ sizes = Doubled(size, required)
          /\ doubled = Min({sizes[e] : e \in 0..required} \ 0..(required - 1))
          /\ nextSize = IF doubled > LargestBuffer THEN LargestBuffer ELSE doubled
    OBVIOUS
<1>4. Grown(p, required) =
          IF nextSize < required THEN [p EXCEPT !.status = "broken"]
          ELSE [p EXCEPT !.buffer = BlockCopy(@, p.start, Empty(RentSize[nextSize]), 0, p.end - p.start),
                         !.start = 0, !.end = p.end - p.start]
    BY <1>2, <1>3 DEF Grown
<1>5. doubled \in Nat /\ doubled >= required
    <2> DEFINE T == {sizes[e] : e \in 0..required} \ 0..(required - 1)
    <2>1. \A e \in 0..required : sizes[e] \in Nat /\ sizes[e] > e
        BY <1>1, <1>3, DoubledRuns
    <2>2. T \in SUBSET Nat /\ (\A x \in T : x >= required)
        BY <2>1
    <2>3. T # {}
        <3>1. required \in 0..required
            OBVIOUS
        <3>2. sizes[required] \in Nat /\ sizes[required] > required
            BY <2>1, <3>1
        <3>3. sizes[required] \notin 0..(required - 1)
            BY <3>2
        <3> QED BY <3>1, <3>3
    <2>4. doubled = Min(T)
        BY <1>3
    <2> HIDE DEF T
    <2>5. \E x \in T : \A y \in T : x <= y
        BY <2>2, <2>3, LeastNumber
    <2>6. Min(T) \in T
        BY <2>5 DEF Min
    <2> QED BY <2>2, <2>4, <2>6
<1>6. LargestBuffer \in Nat
    BY FramingAssumption DEF LargestBuffer
<1>7. CASE LargestBuffer < required
    <2>1. nextSize < required
        BY <1>3, <1>5, <1>6, <1>7
    <2> QED BY <1>4, <1>7, <2>1
<1>8. CASE LargestBuffer >= required
    <2>1. ~ (nextSize < required) /\ nextSize \in 0..LargestBuffer /\ nextSize >= required
        BY <1>3, <1>5, <1>6, <1>8
    <2>2. PICK room : room = RentSize[nextSize]
        OBVIOUS
    <2>3. room \in Nat /\ room >= nextSize
        BY <2>1, <2>2, FramingAssumption
    <2>4. room >= required /\ room > 0 /\ n <= room
        BY <1>1, <1>3, <1>5, <1>6, <2>1, <2>3
    <2>5. PICK buf : buf = BlockCopy(p.buffer, 0, Empty(room), 0, n)
        OBVIOUS
    <2>6. DOMAIN Empty(room) = 0..(room - 1)
        BY DEF Empty
    <2>7. buf = [i \in 0..(room - 1) |-> IF i \in 0..(0 + n - 1) THEN p.buffer[0 + i - 0] ELSE Empty(room)[i]]
        BY <2>5, <2>6 DEF BlockCopy
    <2>8. p.start = 0 /\ p.end = n /\ p.end - p.start = n
        BY <1>1
    <2>9. Grown(p, required) = [buffer |-> buf, start |-> 0, end |-> n, frames |-> fs, status |-> "open"]
        <3>1. PICK old : old = p.buffer
            OBVIOUS
        <3>2. p = [buffer |-> old, start |-> 0, end |-> n, frames |-> fs, status |-> "open"]
            BY <1>1, <3>1
        <3>3. Grown(p, required) = [p EXCEPT !.buffer = buf, !.start = 0, !.end = n]
            BY <1>4, <2>1, <2>2, <2>5, <2>8
        <3> QED BY <3>2, <3>3
    <2>10. ASSUME NEW i \in 0..(n - 1) PROVE buf[i] = from + i + 1
        <3>1. i \in 0..(room - 1) /\ i \in 0..(0 + n - 1) /\ 0 + i - 0 = i
            BY <1>1, <2>3, <2>4
        <3>2. buf[i] = p.buffer[i]
            BY <2>7, <3>1
        <3> QED BY <1>1, <3>2
    <2>11. \A i \in 0..(0 + n - 1) : buf[i] = from + (i - 0) + 1
        BY <1>1, <2>10
    <2>12. DOMAIN buf = 0..(room - 1) /\ 0 + n = n
        BY <1>1, <2>7
    <2>13. PoolIs(Grown(p, required), room, 0, from, n, fs, "open")
        BY <1>1, <2>3, <2>4, <2>9, <2>11, <2>12 DEF PoolIs
    <2> QED BY <2>3, <2>4, <2>13
<1> QED BY <1>6, <1>7, <1>8

LEMMA EnsureWritableHolds ==
    ASSUME NEW p, NEW size, NEW start, NEW from, NEW n, NEW fs, PoolIs(p, size, start, from, n, fs, "open"),
           NEW count \in Nat, count > 0
    PROVE  \/ /\ EnsureWritable(p, count).status = "broken" /\ EnsureWritable(p, count).frames = fs
              /\ n + count > LargestBuffer
           \/ \E room \in Nat, first \in Nat :
                  /\ PoolIs(EnsureWritable(p, count), room, first, from, n, fs, "open")
                  /\ first + n + count <= room
<1>1. /\ size \in Nat /\ start \in Nat /\ n \in Nat /\ start + n <= size
      /\ p = [buffer |-> p.buffer, start |-> start, end |-> start + n, frames |-> fs, status |-> "open"]
    BY DEF PoolIs
<1>2. Size(p) = size /\ p.start = start /\ p.end = start + n
    BY <1>1, PoolSize
<1>3. CASE size - (start + n) >= count
    <2>1. EnsureWritable(p, count) = p
        BY <1>2, <1>3 DEF EnsureWritable
    <2>2. start + n + count <= size
        BY <1>1, <1>3
    <2> QED BY <1>1, <2>1, <2>2
<1>4. CASE ~ (size - (start + n) >= count)
    <2>1. PICK q : q = IF start > 0 THEN ToFront(p) ELSE p
        OBVIOUS
    <2>2. PoolIs(q, size, 0, from, n, fs, "open")
        <3>1. CASE start > 0
            BY <2>1, <3>1, ToFrontHolds
        <3>2. CASE start = 0
            BY <2>1, <3>2
        <3> QED BY <1>1, <3>1, <3>2
    <2>3. Size(q) = size /\ q.end = n
        <3>1. Size(q) = size
            BY <2>2, PoolSize
        <3>2. q.end = 0 + n /\ 0 + n = n
            BY <1>1, <2>2 DEF PoolIs
        <3> QED BY <3>1, <3>2
    <2>4. EnsureWritable(p, count) = IF size - n >= count THEN q ELSE Grown(q, n + count)
        BY <1>2, <1>4, <2>1, <2>3 DEF EnsureWritable
    <2>5. CASE size - n >= count
        <3>1. 0 + n + count <= size
            BY <1>1, <2>5
        <3> QED BY <1>1, <2>2, <2>4, <2>5, <3>1
    <2>6. CASE ~ (size - n >= count)
        <3>1. EnsureWritable(p, count) = Grown(q, n + count)
            BY <2>4, <2>6
        <3>2. PICK required \in Nat : required = n + count
            BY <1>1
        <3>3. n <= required /\ required > 0
            BY <1>1, <3>2
        <3>4. \/ Grown(q, required) = [q EXCEPT !.status = "broken"] /\ required > LargestBuffer
              \/ \E room \in Nat : room >= required /\ PoolIs(Grown(q, required), room, 0, from, n, fs, "open")
            BY <2>2, <3>3, GrownHolds
        <3>5. CASE Grown(q, required) = [q EXCEPT !.status = "broken"] /\ required > LargestBuffer
            <4>1. Grown(q, required).status = "broken" /\ Grown(q, required).frames = fs
                BY <2>2, <3>5 DEF PoolIs
            <4> QED BY <3>1, <3>2, <3>5, <4>1
        <3>6. CASE \E room \in Nat : room >= required /\ PoolIs(Grown(q, required), room, 0, from, n, fs, "open")
            <4>1. PICK room \in Nat : room >= required /\ PoolIs(Grown(q, required), room, 0, from, n, fs, "open")
                BY <3>6
            <4>2. 0 + n + count <= room
                BY <1>1, <3>2, <4>1
            <4> QED BY <3>1, <3>2, <4>1, <4>2
        <3> QED BY <3>4, <3>5, <3>6
    <2> QED BY <2>5, <2>6
<1> QED BY <1>3, <1>4

LEMMA AppendChunkHolds ==
    ASSUME NEW p, NEW size, NEW start, NEW from, NEW n, NEW fs, PoolIs(p, size, start, from, n, fs, "open"),
           NEW m \in Nat, m > 0
    PROVE  LET q == AppendChunk(p, Bytes(from + n, m))
           IN  \/ q.status = "broken" /\ q.frames = fs /\ n + m > LargestBuffer
               \/ \E room \in Nat, first \in Nat : PoolIs(q, room, first, from, n + m, fs, "open")
<1>1. PICK chunk : chunk = Bytes(from + n, m)
    OBVIOUS
<1>2. n \in Nat /\ from \in Nat
    BY DEF PoolIs
<1>3. Len(chunk) = m /\ \A k \in 1..m : chunk[k] = from + n + k
    <2>1. PICK a \in Nat : a = from + n
        BY <1>2
    <2> QED BY <1>1, <2>1, BytesFacts
<1>4. PICK w : w = EnsureWritable(p, m)
    OBVIOUS
<1>5. \/ w.status = "broken" /\ w.frames = fs /\ n + m > LargestBuffer
      \/ \E room \in Nat, first \in Nat : PoolIs(w, room, first, from, n, fs, "open") /\ first + n + m <= room
    BY <1>4, EnsureWritableHolds
<1>6. PICK q : q = AppendChunk(p, chunk)
    OBVIOUS
<1>7. CASE w.status = "broken" /\ w.frames = fs /\ n + m > LargestBuffer
    <2>1. q = w
        BY <1>3, <1>4, <1>6, <1>7 DEF AppendChunk
    <2> QED BY <1>1, <1>6, <1>7, <2>1
<1>8. CASE \E room \in Nat, first \in Nat : PoolIs(w, room, first, from, n, fs, "open") /\ first + n + m <= room
    <2>1. PICK room \in Nat, first \in Nat :
              PoolIs(w, room, first, from, n, fs, "open") /\ first + n + m <= room
        BY <1>8
    <2>2. /\ room > 0
          /\ w = [buffer |-> w.buffer, start |-> first, end |-> first + n, frames |-> fs, status |-> "open"]
          /\ DOMAIN w.buffer = 0..(room - 1)
          /\ \A i \in first..(first + n - 1) : w.buffer[i] = from + (i - first) + 1
        BY <2>1 DEF PoolIs
    <2>3. PICK e \in Nat : e = first + n
        BY <1>2
    <2>4. PICK buf : buf = [i \in 0..(room - 1) |-> IF i \in e..(e + m - 1) THEN chunk[i - e + 1] ELSE w.buffer[i]]
        OBVIOUS
    <2>5. q = [w EXCEPT !.buffer = [i \in DOMAIN @ |-> IF i \in w.end..(w.end + m - 1)
                                                       THEN chunk[i - w.end + 1] ELSE @[i]],
                        !.end = @ + m]
        <3>1. w.status # "broken"
            BY <2>2
        <3> QED BY <1>3, <1>4, <1>6, <3>1 DEF AppendChunk
    <2>6. w.end = e
        BY <2>2, <2>3
    <2>7. q = [buffer |-> buf, start |-> first, end |-> e + m, frames |-> fs, status |-> "open"]
        <3>1. PICK old : old = w.buffer
            OBVIOUS
        <3>2. w = [buffer |-> old, start |-> first, end |-> first + n, frames |-> fs, status |-> "open"]
            BY <2>2, <3>1
        <3>3. q = [w EXCEPT !.buffer = buf, !.end = e + m]
            BY <2>2, <2>4, <2>5, <2>6
        <3> QED BY <3>2, <3>3
    <2>8. e + m = first + (n + m) /\ n + m \in Nat /\ first + (n + m) <= room
        BY <1>2, <2>1, <2>3
    <2>9. ASSUME NEW i \in first..(first + (n + m) - 1) PROVE buf[i] = from + (i - first) + 1
        <3>1. i \in 0..(room - 1) /\ i \in Nat
            BY <1>2, <2>1, <2>8
        <3>2. CASE i \in e..(e + m - 1)
            <4>1. PICK k \in 1..m : k = i - e + 1
                BY <3>1, <3>2
            <4>2. buf[i] = from + n + k
                BY <1>3, <2>4, <3>1, <3>2, <4>1
            <4> QED BY <1>2, <2>3, <3>1, <4>1, <4>2
        <3>3. CASE i \notin e..(e + m - 1)
            <4>1. i \in first..(first + n - 1)
                BY <1>2, <2>3, <2>8, <3>1, <3>3
            <4>2. buf[i] = w.buffer[i]
                BY <2>4, <3>1, <3>3
            <4> QED BY <2>2, <4>1, <4>2
        <3> QED BY <3>2, <3>3
    <2>10. DOMAIN buf = 0..(room - 1)
        BY <2>4
    <2>11. PoolIs(q, room, first, from, n + m, fs, "open")
        BY <1>2, <2>2, <2>7, <2>8, <2>9, <2>10 DEF PoolIs
    <2> QED BY <1>1, <1>6, <2>11
<1> QED BY <1>5, <1>7, <1>8

LEMMA CompactHolds ==
    ASSUME NEW p, NEW size, NEW start, NEW from, NEW n, NEW fs, NEW st, PoolIs(p, size, start, from, n, fs, st)
    PROVE  \E first \in Nat : PoolIs(CompactIfUseful(p), size, first, from, n, fs, st)
<1>1. /\ size \in Nat /\ size > 0 /\ start \in Nat /\ n \in Nat /\ from \in Nat /\ start + n <= size
      /\ p = [buffer |-> p.buffer, start |-> start, end |-> start + n, frames |-> fs, status |-> st]
      /\ DOMAIN p.buffer = 0..(size - 1)
    BY DEF PoolIs
<1>2. CASE p.start = p.end
    <2>1. n = 0
        BY <1>1, <1>2
    <2>2. PICK q : q = CompactIfUseful(p)
        OBVIOUS
    <2>3. q = [p EXCEPT !.start = 0, !.end = 0]
        BY <1>2, <2>2 DEF CompactIfUseful
    <2>4. q = [buffer |-> p.buffer, start |-> 0, end |-> 0, frames |-> fs, status |-> st] /\ q.buffer = p.buffer
        <3>1. PICK old : old = p.buffer
            OBVIOUS
        <3>2. p = [buffer |-> old, start |-> start, end |-> start + n, frames |-> fs, status |-> st]
            BY <1>1, <3>1
        <3>3. q = [buffer |-> old, start |-> 0, end |-> 0, frames |-> fs, status |-> st]
            BY <2>3, <3>2
        <3>4. q.buffer = old
            BY <3>3
        <3> QED BY <3>1, <3>3, <3>4
    <2>5. 0 + n = 0 /\ 0..(0 + n - 1) = {}
        BY <2>1
    <2>6. PoolIs(q, size, 0, from, n, fs, st)
        BY <1>1, <2>1, <2>4, <2>5 DEF PoolIs
    <2> QED BY <2>2, <2>6
<1>3. CASE p.start # p.end
    <2>1. CompactIfUseful(p) = p \/ CompactIfUseful(p) = ToFront(p)
        BY <1>3 DEF CompactIfUseful
    <2> QED BY <1>1, <2>1, ToFrontHolds
<1> QED BY <1>2, <1>3
-----------------------------------------------------------------------------
\* The buffer q bytes after the w-th frame, when w frames were read.
PoolAt(p, n, w) ==
    /\ w \in 0..Len(stream) /\ n \in Nat /\ n <= Sent
    /\ \E size \in Nat, start \in Nat, q \in Nat :
           n = End(w) + q /\ PoolIs(p, size, start, End(w), q, FramesOf(w), "open")

TooNear == \E i \in DOMAIN stream : Length(i) + ChunkSize > MaxFrameSize + 1

PoolBroken(p, w) ==
    w \in 0..Len(stream) /\ p.frames = FramesOf(w) /\ p.status = "broken" /\ (Oversized \/ TooNear)

PoolInv(p, n) == \E w \in 0..Len(stream) : PoolAt(p, n, w) \/ PoolBroken(p, w)

FramingInv ==
    /\ StreamOK /\ received \in Nat /\ received <= Sent
    /\ ReaderInv(reader, received) /\ PoolInv(pool, received)

\* What the next header says, and how much there is.
LEMMA PoolSees ==
    ASSUME StreamOK, NEW p, NEW n, NEW w, PoolAt(p, n, w)
    PROVE  \E size \in Nat, start \in Nat, q \in Nat :
               /\ n = End(w) + q /\ PoolIs(p, size, start, End(w), q, FramesOf(w), "open")
               /\ Buffered(p) = q
               /\ q > 0 => w < Len(stream)
               /\ q >= FrameHeaderSize => PooledLength(p) = Length(w + 1)
<1>1. PICK size \in Nat, start \in Nat, q \in Nat :
          n = End(w) + q /\ PoolIs(p, size, start, End(w), q, FramesOf(w), "open")
    BY DEF PoolAt
<1>2. PICK e : e = End(w)
    OBVIOUS
<1>3. w \in 0..Len(stream) /\ n <= Sent /\ Len(stream) \in Nat /\ Sent \in Nat /\ e \in Nat
      /\ FrameHeaderSize \in Nat /\ FrameHeaderSize > 0
    BY <1>2, Ends, FramingAssumption DEF PoolAt
<1>4. /\ p.start = start /\ p.end = start + q
      /\ \A i \in start..(start + q - 1) : p.buffer[i] = e + (i - start) + 1
    BY <1>1, <1>2 DEF PoolIs
<1>5. Buffered(p) = q
    BY <1>4 DEF Buffered
<1>6. ASSUME q > 0 PROVE w < Len(stream)
    <2>1. w # Len(stream)
        <3> SUFFICES ASSUME w = Len(stream) PROVE FALSE
            OBVIOUS
        <3>1. e = Sent
            BY <1>2 DEF Sent
        <3> QED BY <1>1, <1>2, <1>3, <1>6, <3>1
    <2>2. PICK k \in Nat : k = Len(stream)
        BY <1>3
    <2> QED BY <1>3, <2>1, <2>2
<1>7. ASSUME q >= FrameHeaderSize PROVE PooledLength(p) = Length(w + 1)
    <2>1. q > 0
        BY <1>3, <1>7
    <2>2. PICK v : v = w + 1
        OBVIOUS
    <2>3. v \in 1..Len(stream) /\ v - 1 = w
        BY <1>3, <1>6, <2>1, <2>2
    <2>4. start \in start..(start + q - 1)
        BY <2>1
    <2>5. p.buffer[start] = e + 1
        BY <1>3, <1>4, <2>4
    <2>6. LengthIn(e + 1) = Length(v)
        BY <1>2, <2>3, LengthOfFrame
    <2> QED BY <1>4, <2>2, <2>5, <2>6 DEF PooledLength
<1> QED BY <1>1, <1>5, <1>6, <1>7

\* Reading from the buffer hands out the next frame, or the next one is too long.
LEMMA ReadKeeps ==
    ASSUME StreamOK, NEW p, NEW n, NEW w, PoolAt(p, n, w), HasFrame(p) \/ TooLong(p)
    PROVE  PoolInv(TryReadUtf8Frame(p), n)
<1>1. PICK size \in Nat, start \in Nat, q \in Nat :
          /\ n = End(w) + q /\ PoolIs(p, size, start, End(w), q, FramesOf(w), "open")
          /\ Buffered(p) = q
          /\ q > 0 => w < Len(stream)
          /\ q >= FrameHeaderSize => PooledLength(p) = Length(w + 1)
    BY PoolSees
<1> DEFINE H == FrameHeaderSize
<1>2. q >= H
    BY <1>1 DEF HasFrame, TooLong
<1>3. H \in Nat /\ H > 0 /\ MaxFrameSize \in Nat
    BY FramingAssumption
<1>4. PICK v, e, L : v = w + 1 /\ e = End(w) /\ L = Length(v)
    OBVIOUS
<1>5. PICK old, fs, gs : old = p.buffer /\ fs = FramesOf(w) /\ gs = FramesOf(v)
    OBVIOUS
<1>6. w \in 0..Len(stream) /\ w < Len(stream) /\ Len(stream) \in Nat /\ n \in Nat /\ n <= Sent
    BY <1>1, <1>2, <1>3, Ends DEF PoolAt
<1>7. v \in 1..Len(stream) /\ v \in 0..Len(stream) /\ v - 1 = w
    BY <1>4, <1>6
<1>8. e \in Nat /\ L \in Nat /\ End(v) = e + H + L
    BY <1>4, <1>6, <1>7, Ends
<1>9. /\ p = [buffer |-> old, start |-> start, end |-> start + q, frames |-> fs, status |-> "open"]
      /\ size > 0 /\ start + q <= size
      /\ DOMAIN old = 0..(size - 1)
      /\ \A i \in start..(start + q - 1) : old[i] = e + (i - start) + 1
    BY <1>1, <1>4, <1>5 DEF PoolIs
<1>10. PooledLength(p) = L
    BY <1>1, <1>2, <1>4
<1>11. CASE L > MaxFrameSize
    <2>1. TooLong(p)
        BY <1>1, <1>2, <1>10, <1>11 DEF TooLong
    <2>2. TryReadUtf8Frame(p) = [p EXCEPT !.status = "broken"]
        BY <2>1 DEF TryReadUtf8Frame
    <2>3. TryReadUtf8Frame(p).status = "broken" /\ TryReadUtf8Frame(p).frames = fs
        BY <1>9, <2>2
    <2>4. Oversized
        BY <1>4, <1>7, <1>11, Ends DEF Oversized
    <2> QED BY <1>5, <1>6, <2>3, <2>4 DEF PoolInv, PoolBroken
<1>12. CASE L <= MaxFrameSize
    <2>1. ~ TooLong(p)
        BY <1>3, <1>8, <1>10, <1>12 DEF TooLong
    <2>2. q >= H + L
        BY <2>1, <1>1, <1>10 DEF HasFrame
    <2>3. PICK total, frame : total = H + L /\ frame = PooledFrame(p)
        OBVIOUS
    <2>4. PICK r : r = [p EXCEPT !.frames = Append(@, frame), !.start = @ + total]
        OBVIOUS
    <2>5. TryReadUtf8Frame(p) = CompactIfUseful(r)
        <3>1. TryReadUtf8Frame(p) =
                  CompactIfUseful([p EXCEPT !.frames = Append(@, PooledFrame(p)), !.start = @ + H + PooledLength(p)])
            BY <2>1 DEF TryReadUtf8Frame
        <3>2. p.start + H + PooledLength(p) = p.start + total
            <4>1. p.start = start
                BY <1>9
            <4> QED BY <1>3, <1>8, <1>10, <2>3, <4>1
        <3>3. r = [p EXCEPT !.frames = Append(@, PooledFrame(p)), !.start = @ + H + PooledLength(p)]
            BY <2>3, <2>4, <3>2
        <3> QED BY <3>1, <3>3
    <2>6. frame = Payload(v)
        <3>1. p.start = start
            BY <1>9
        <3>2. ASSUME NEW i \in 1..L PROVE p.buffer[p.start + H + i - 1] = e + H + i
            <4>1. PICK j : j = start + H + i - 1
                OBVIOUS
            <4>2. j \in start..(start + q - 1) /\ e + (j - start) + 1 = e + H + i
                BY <1>3, <1>8, <2>2, <4>1
            <4>3. old[j] = e + (j - start) + 1
                BY <1>9, <4>2
            <4> QED BY <1>5, <3>1, <4>1, <4>2, <4>3
        <3>3. frame = [i \in 1..L |-> p.buffer[p.start + H + i - 1]]
            BY <1>10, <2>3 DEF PooledFrame
        <3>4. frame = [i \in 1..L |-> e + H + i]
            BY <3>2, <3>3
        <3> QED BY <1>4, <1>7, <3>4 DEF Payload, Bytes
    <2>7. Append(fs, frame) = gs
        BY <1>4, <1>5, <1>6, <2>6, FramesFacts
    <2>8. PICK s, m : s = start + total /\ m = q - total
        OBVIOUS
    <2>9. s \in Nat /\ m \in Nat /\ s + m = start + q /\ s + m <= size /\ End(v) + m = n /\ End(v) = e + total
          /\ End(v) \in Nat
        <3>1. PICK z : z = End(v)
            OBVIOUS
        <3>2. z = e + H + L /\ n = e + q
            BY <1>1, <1>4, <1>8, <3>1
        <3>3. total \in Nat /\ q >= total /\ z = e + total
            BY <1>3, <1>8, <2>2, <2>3, <3>2
        <3>4. m \in Nat /\ s \in Nat /\ s + m = start + q
            BY <2>8, <3>3
        <3>5. z \in Nat /\ z + m = n
            BY <1>8, <2>8, <3>2, <3>3, <3>4
        <3> QED BY <1>9, <3>1, <3>3, <3>4, <3>5
    <2>10. r = [buffer |-> old, start |-> s, end |-> s + m, frames |-> gs, status |-> "open"]
        <3>1. r = [buffer |-> old, start |-> start + total, end |-> start + q, frames |-> Append(fs, frame),
                   status |-> "open"]
            BY <1>9, <2>4
        <3> QED BY <2>7, <2>8, <2>9, <3>1
    <2>11. r.buffer = old
        BY <2>10
    <2>12. ASSUME NEW i \in s..(s + m - 1) PROVE old[i] = End(v) + (i - s) + 1
        <3>1. i \in start..(start + q - 1) /\ e + (i - start) + 1 = e + total + (i - s) + 1
            BY <1>3, <1>8, <2>3, <2>8, <2>9
        <3> QED BY <1>9, <2>9, <3>1
    <2>13. PoolIs(r, size, s, End(v), m, gs, "open")
        BY <1>9, <2>9, <2>10, <2>11, <2>12 DEF PoolIs
    <2>14. PICK first \in Nat : PoolIs(CompactIfUseful(r), size, first, End(v), m, gs, "open")
        BY <2>13, CompactHolds
    <2>15. PoolAt(TryReadUtf8Frame(p), n, v)
        BY <1>5, <1>6, <1>7, <2>5, <2>9, <2>14 DEF PoolAt
    <2> QED BY <1>7, <2>15 DEF PoolInv
<1> QED BY <1>3, <1>8, <1>11, <1>12

\* With no whole frame left, what is buffered ends within the next one.
LEMMA PoolWaits ==
    ASSUME StreamOK, NEW p, NEW n, NEW w, PoolAt(p, n, w), ~ HasFrame(p), ~ TooLong(p)
    PROVE  Holds(n, w) /\ (n - End(w) >= FrameHeaderSize => Length(w + 1) <= MaxFrameSize)
<1>1. PICK size \in Nat, start \in Nat, q \in Nat :
          /\ n = End(w) + q /\ PoolIs(p, size, start, End(w), q, FramesOf(w), "open")
          /\ Buffered(p) = q
          /\ q > 0 => w < Len(stream)
          /\ q >= FrameHeaderSize => PooledLength(p) = Length(w + 1)
    BY PoolSees
<1> DEFINE H == FrameHeaderSize
<1>2. H \in Nat /\ H > 0 /\ MaxFrameSize \in Nat
    BY FramingAssumption
<1>3. w \in 0..Len(stream) /\ n \in Nat /\ n <= Sent /\ Len(stream) \in Nat
    BY Ends DEF PoolAt
<1>4. PICK e : e = End(w)
    OBVIOUS
<1>5. e \in Nat /\ n = e + q
    BY <1>1, <1>3, <1>4, Ends
<1>6. ASSUME w < Len(stream) PROVE n < End(w + 1) /\ (q >= H => Length(w + 1) <= MaxFrameSize)
    <2>1. PICK v, L : v = w + 1 /\ L = Length(v)
        OBVIOUS
    <2>2. v \in 1..Len(stream) /\ v - 1 = w
        BY <1>3, <1>6, <2>1
    <2>3. L \in Nat /\ End(v) = e + H + L
        BY <1>4, <2>1, <2>2, Ends
    <2>4. CASE q >= H
        <3>1. PooledLength(p) = L
            BY <1>1, <2>1, <2>4
        <3>2. ~ (L > MaxFrameSize)
            BY <1>1, <2>4, <3>1 DEF TooLong
        <3>3. ~ (q >= H + L)
            BY <1>1, <2>4, <3>1 DEF HasFrame
        <3> QED BY <1>2, <1>5, <2>1, <2>3, <3>2, <3>3
    <2>5. CASE q < H
        BY <1>2, <1>5, <2>1, <2>3, <2>5
    <2> QED BY <1>2, <2>4, <2>5
<1>7. Holds(n, w)
    BY <1>3, <1>4, <1>5, <1>6 DEF Holds
<1>8. ASSUME n - End(w) >= H PROVE Length(w + 1) <= MaxFrameSize
    <2>1. q >= H /\ q > 0
        BY <1>2, <1>4, <1>5, <1>8
    <2> QED BY <1>1, <1>6, <2>1
<1> QED BY <1>7, <1>8

LEMMA ArrivesKeepsPool ==
    ASSUME StreamOK, NEW p, NEW n, NEW w, PoolAt(p, n, w), ~ HasFrame(p), ~ TooLong(p),
           NEW m \in 1..ChunkSize, n + m <= Sent
    PROVE  PoolInv(AppendChunk(p, Bytes(n, m)), n + m)
<1> DEFINE H == FrameHeaderSize
<1>1. PICK size \in Nat, start \in Nat, q \in Nat :
          n = End(w) + q /\ PoolIs(p, size, start, End(w), q, FramesOf(w), "open")
    BY DEF PoolAt
<1>2. H \in Nat /\ H > 0 /\ MaxFrameSize \in Nat /\ ChunkSize \in Nat /\ LargestBuffer = MaxFrameSize + H
    BY FramingAssumption DEF LargestBuffer
<1>3. m \in Nat /\ m > 0 /\ m <= ChunkSize
    BY <1>2
<1>4. w \in 0..Len(stream) /\ n \in Nat /\ Len(stream) \in Nat /\ Sent \in Nat
    BY Ends DEF PoolAt
<1>5. PICK a : a = AppendChunk(p, Bytes(n, m))
    OBVIOUS
<1>6. \/ a.status = "broken" /\ a.frames = FramesOf(w) /\ q + m > LargestBuffer
      \/ \E room \in Nat, first \in Nat : PoolIs(a, room, first, End(w), q + m, FramesOf(w), "open")
    BY <1>1, <1>3, <1>5, AppendChunkHolds
<1>7. CASE \E room \in Nat, first \in Nat : PoolIs(a, room, first, End(w), q + m, FramesOf(w), "open")
    <2>1. PICK room \in Nat, first \in Nat : PoolIs(a, room, first, End(w), q + m, FramesOf(w), "open")
        BY <1>7
    <2>2. PICK e, t : e = End(w) /\ t = q + m
        OBVIOUS
    <2>3. e \in Nat /\ t \in Nat /\ n + m = e + t
        BY <1>1, <1>3, <1>4, <2>2, Ends
    <2>4. n + m \in Nat
        BY <1>3, <1>4
    <2>5. PoolAt(a, n + m, w)
        BY <1>4, <2>1, <2>2, <2>3, <2>4 DEF PoolAt
    <2> QED BY <1>4, <1>5, <2>5 DEF PoolInv
<1>8. CASE a.status = "broken" /\ a.frames = FramesOf(w) /\ q + m > LargestBuffer
    <2>1. Holds(n, w) /\ (n - End(w) >= H => Length(w + 1) <= MaxFrameSize)
        BY PoolWaits
    <2>2. n < Sent
        BY <1>3, <1>4
    <2>3. PICK v, L, e : v = w + 1 /\ L = Length(v) /\ e = End(w)
        OBVIOUS
    <2>4. v \in 1..Len(stream) /\ L \in Nat /\ e \in Nat /\ n < e + H + L /\ n = e + q
        BY <1>1, <2>1, <2>2, <2>3, Inside
    <2>5. L + ChunkSize > MaxFrameSize + 1
        BY <1>2, <1>3, <1>8, <2>4
    <2>6. TooNear
        BY <2>3, <2>4, <2>5, Ends DEF TooNear
    <2> QED BY <1>4, <1>5, <1>8, <2>6 DEF PoolInv, PoolBroken
<1> QED BY <1>6, <1>7, <1>8
-----------------------------------------------------------------------------
\* A frame more in the stream changes nothing of those before it.
LEMMA WriteKeepsFrames ==
    ASSUME StreamOK, NEW n \in PayloadSizes, Write(n)
    PROVE  /\ StreamOK' /\ Len(stream') = Len(stream) + 1 /\ DOMAIN stream' = 1..Len(stream')
           /\ Sent' \in Nat /\ Sent < Sent'
           /\ \A i \in 0..Len(stream) : End(i)' = End(i) /\ FramesOf(i)' = FramesOf(i)
           /\ \A i \in 1..Len(stream) : Length(i)' = Length(i)
           /\ \A i : i = Len(stream) + 1 => Sent < End(i)'
<1> DEFINE N == Len(stream)
           H == FrameHeaderSize
<1>1. PICK last : last = Sent + H + n
    OBVIOUS
<1>2. stream' = Append(stream, last)
    BY <1>1 DEF Write
<1>3. N \in Nat /\ Sent \in Nat /\ DOMAIN stream = 1..N /\ (\A i \in 0..N : End(i) \in Nat /\ End(i) <= Sent)
    BY Ends
<1>4. H \in Nat /\ H > 0 /\ n \in Nat /\ last \in Nat
    BY <1>1, <1>3, FramingAssumption
<1>5. /\ stream' \in Seq(Nat) /\ Len(stream') = N + 1 /\ stream'[N + 1] = last
      /\ \A i \in 1..N : stream'[i] = stream[i]
      /\ DOMAIN stream' = 1..Len(stream')
    BY <1>2, <1>4 DEF StreamOK
<1>6. \A i \in 0..N : End(i)' = End(i)
    BY <1>3, <1>5 DEF End
<1>7. ASSUME NEW i, i = N + 1 PROVE End(i)' = last
    <2>1. i # 0 /\ stream'[i] = last
        BY <1>3, <1>5, <1>7
    <2> QED BY <2>1 DEF End
<1>8. Sent' = last
    <2>1. PICK i : i = Len(stream')
        OBVIOUS
    <2>2. End(i)' = last
        BY <1>5, <1>7, <2>1
    <2> QED BY <2>1, <2>2 DEF Sent, End
<1>9. Sent <= last /\ Sent < last
    BY <1>1, <1>3, <1>4
<1>10. ASSUME NEW i \in 1..N PROVE Length(i)' = Length(i) /\ Payload(i)' = Payload(i)
    <2>1. i \in 0..N /\ i - 1 \in 0..N
        BY <1>3
    <2>2. End(i)' = End(i) /\ End(i - 1)' = End(i - 1)
        BY <1>6, <2>1
    <2>3. Length(i)' = Length(i)
        BY <2>2 DEF Length
    <2> QED BY <2>2, <2>3 DEF Payload
<1>11. ASSUME NEW i \in 0..N PROVE FramesOf(i)' = FramesOf(i)
    <2>1. \A j \in 1..i : j \in 1..N
        BY <1>3
    <2>2. \A j \in 1..i : Payload(j)' = Payload(j)
        BY <1>10, <2>1
    <2> QED BY <2>2 DEF FramesOf
<1>12. ASSUME NEW i \in 0..(N + 1), NEW j \in 0..(N + 1), i < j PROVE End(i)' + H <= End(j)'
    <2>1. CASE j = N + 1
        <3>1. i \in 0..N
            BY <1>3, <1>12, <2>1
        <3>2. PICK x : x = End(i)
            OBVIOUS
        <3>3. x \in Nat /\ x <= Sent /\ End(i)' = x
            BY <1>3, <1>6, <3>1, <3>2
        <3>4. x + H <= last
            BY <1>1, <1>3, <1>4, <3>3
        <3>5. End(j)' = last
            BY <1>7, <2>1
        <3> QED BY <3>3, <3>4, <3>5
    <2>2. CASE j # N + 1
        <3>1. i \in 0..N /\ j \in 0..N
            BY <1>3, <1>12, <2>2
        <3>2. End(i) + H <= End(j)
            BY <1>12, <3>1 DEF StreamOK
        <3> QED BY <1>6, <3>1, <3>2
    <2> QED BY <2>1, <2>2
<1>13. StreamOK'
    BY <1>5, <1>12 DEF StreamOK
<1> QED BY <1>4, <1>5, <1>6, <1>7, <1>8, <1>9, <1>10, <1>11, <1>13

LEMMA WriteKeepsInv ==
    ASSUME FramingInv, NEW n \in PayloadSizes, Write(n)
    PROVE  FramingInv'
<1> DEFINE N == Len(stream)
           H == FrameHeaderSize
<1>1. /\ StreamOK' /\ Len(stream') = N + 1 /\ DOMAIN stream' = 1..Len(stream')
      /\ Sent' \in Nat /\ Sent < Sent'
      /\ \A i \in 0..N : End(i)' = End(i) /\ FramesOf(i)' = FramesOf(i)
      /\ \A i \in 1..N : Length(i)' = Length(i)
      /\ \A i : i = N + 1 => Sent < End(i)'
    BY WriteKeepsFrames DEF FramingInv
<1>2. /\ N \in Nat /\ Sent \in Nat /\ DOMAIN stream = 1..N /\ H \in Nat /\ H > 0
      /\ \A i \in 0..N : End(i) \in Nat /\ End(i) <= Sent
    BY Ends, FramingAssumption DEF FramingInv
<1>3. Sent' \in Nat /\ DOMAIN stream' = 1..(N + 1) /\ (\A i \in 1..N : i \in 1..(N + 1))
    BY <1>1, <1>2
<1>4. received' = received /\ reader' = reader /\ pool' = pool
    BY DEF Write
<1>5. received' \in Nat /\ received' <= Sent'
    BY <1>1, <1>2, <1>3, <1>4 DEF FramingInv
<1>6. Oversized => Oversized'
    BY <1>1, <1>2, <1>3 DEF Oversized
<1>7. TooNear => TooNear'
    BY <1>1, <1>2, <1>3 DEF TooNear
<1>8. 0..Len(stream') = 0..(N + 1) /\ (\A w \in 0..N : w \in 0..(N + 1))
    BY <1>1, <1>2
<1>9. ASSUME NEW w \in 0..N, ReaderAt(reader, received, w) PROVE ReaderAt(reader, received, w)'
    <2>1. PICK q \in Nat : /\ received = End(w) + q /\ reader = ReaderHolds(w, q)
                           /\ q >= H => Length(w + 1) <= MaxFrameSize
        BY <1>9 DEF ReaderAt
    <2>2. received \in Nat /\ received <= Sent /\ (w < N => received < End(w + 1))
        BY <1>9 DEF ReaderAt, Holds
    <2>3. PICK v : v = w + 1
        OBVIOUS
    <2>4. received < End(v)' /\ (q >= H => Length(v)' = Length(v))
        <3>1. CASE w = N
            <4>1. PICK e : e = End(w)
                OBVIOUS
            <4>2. e = Sent
                BY <3>1, <4>1 DEF Sent
            <4>3. received = Sent /\ q = 0
                BY <1>2, <2>1, <2>2, <4>1, <4>2
            <4>4. v = N + 1
                BY <2>3, <3>1
            <4> QED BY <1>1, <1>2, <4>3, <4>4
        <3>2. CASE w < N
            <4>1. v \in 0..N /\ v \in 1..N
                BY <1>2, <2>3, <3>2
            <4>2. End(v)' = End(v) /\ Length(v)' = Length(v)
                BY <1>1, <4>1
            <4>3. received < End(v)
                <5>1. received < End(w + 1)
                    BY <2>2, <3>2
                <5> QED BY <2>3, <5>1
            <4> QED BY <4>2, <4>3
        <3>3. w = N \/ w < N
            <4>1. PICK k \in Nat : k = N
                BY <1>2
            <4>2. w \in Int /\ w <= k
                BY <4>1
            <4> QED BY <4>1, <4>2
        <3> QED BY <3>1, <3>2, <3>3
    <2>5. /\ received < End(w + 1)'
          /\ q >= H => Length(w + 1)' = Length(w + 1)
          /\ Holds(received, w)'
        <3>1. received < End(w + 1)' /\ (q >= H => Length(w + 1)' = Length(w + 1))
            BY <2>3, <2>4 DEF Length, End
        <3>2. End(w)' = End(w) /\ w \in 0..Len(stream')
            BY <1>1, <1>8
        <3>3. End(w) <= received
            BY <1>9 DEF ReaderAt, Holds
        <3> QED BY <1>4, <1>5, <3>1, <3>2, <3>3 DEF Holds
    <2>6. ReaderHolds(w, q)' = ReaderHolds(w, q)
        BY <1>1, <2>5 DEF ReaderHolds
    <2> QED BY <1>1, <1>4, <2>1, <2>5, <2>6 DEF ReaderAt
<1>10. ASSUME NEW w \in 0..N, ReaderBroken(reader, w) PROVE ReaderBroken(reader, w)'
    BY <1>1, <1>4, <1>6, <1>8, <1>10 DEF ReaderBroken, NewReader
<1>11. ReaderInv(reader, received)'
    <2>1. PICK w \in 0..N : ReaderAt(reader, received, w) \/ ReaderBroken(reader, w)
        BY DEF FramingInv, ReaderInv
    <2>2. ReaderAt(reader, received, w)' \/ ReaderBroken(reader, w)'
        BY <1>9, <1>10, <2>1
    <2> QED BY <1>8, <2>2 DEF ReaderInv
<1>12. ASSUME NEW w \in 0..N, PoolAt(pool, received, w) PROVE PoolAt(pool, received, w)'
    BY <1>1, <1>4, <1>5, <1>8, <1>12 DEF PoolAt
<1>13. ASSUME NEW w \in 0..N, PoolBroken(pool, w) PROVE PoolBroken(pool, w)'
    BY <1>1, <1>4, <1>6, <1>7, <1>8, <1>13 DEF PoolBroken
<1>14. PoolInv(pool, received)'
    <2>1. PICK w \in 0..N : PoolAt(pool, received, w) \/ PoolBroken(pool, w)
        BY DEF FramingInv, PoolInv
    <2>2. PoolAt(pool, received, w)' \/ PoolBroken(pool, w)'
        BY <1>12, <1>13, <2>1
    <2> QED BY <1>8, <2>2 DEF PoolInv
<1> QED BY <1>1, <1>5, <1>11, <1>14 DEF FramingInv

\* Bytes that arrive or are read change nothing of the stream.
LEMMA StreamStays ==
    ASSUME stream' = stream
    PROVE  /\ StreamOK' = StreamOK /\ Sent' = Sent
           /\ ReaderInv(reader', received') => ReaderInv(reader, received)'
           /\ PoolInv(pool', received') => PoolInv(pool, received)'
<1>1. /\ \A i : End(i)' = End(i)
      /\ Sent' = Sent
    BY DEF End, Sent
<1>2. \A i : Length(i)' = Length(i)
    BY <1>1 DEF Length, End
<1>3. \A i : Payload(i)' = Payload(i)
    BY <1>1, <1>2 DEF Payload, End
<1>4. \A w : FramesOf(w)' = FramesOf(w)
    BY <1>3 DEF FramesOf
<1>5. (Oversized <=> Oversized') /\ (TooNear <=> TooNear')
    BY <1>2 DEF Oversized, TooNear
<1>6. StreamOK' = StreamOK
    BY <1>1 DEF StreamOK
<1>7. ASSUME NEW w, ReaderAt(reader', received', w) PROVE ReaderAt(reader, received, w)'
    <2>1. Holds(received, w)'
        BY <1>1, <1>7 DEF ReaderAt, Holds, End
    <2>2. PICK q \in Nat : /\ received' = End(w) + q /\ reader' = ReaderHolds(w, q)
                           /\ q >= FrameHeaderSize => Length(w + 1) <= MaxFrameSize
        BY <1>7 DEF ReaderAt
    <2>3. ReaderHolds(w, q)' = ReaderHolds(w, q) /\ Length(w + 1)' = Length(w + 1) /\ End(w)' = End(w)
        BY <1>1, <1>2, <1>4 DEF ReaderHolds, Length, End
    <2> QED BY <2>1, <2>2, <2>3 DEF ReaderAt
<1>8. ASSUME NEW w, ReaderBroken(reader', w) PROVE ReaderBroken(reader, w)'
    BY <1>4, <1>5, <1>8 DEF ReaderBroken, NewReader
<1>9. ASSUME NEW w, PoolAt(pool', received', w) PROVE PoolAt(pool, received, w)'
    BY <1>1, <1>4, <1>9 DEF PoolAt
<1>10. ASSUME NEW w, PoolBroken(pool', w) PROVE PoolBroken(pool, w)'
    BY <1>4, <1>5, <1>10 DEF PoolBroken
<1>11. ReaderInv(reader', received') => ReaderInv(reader, received)'
    BY <1>7, <1>8 DEF ReaderInv
<1>12. PoolInv(pool', received') => PoolInv(pool, received)'
    BY <1>9, <1>10 DEF PoolInv
<1> QED BY <1>1, <1>6, <1>11, <1>12

LEMMA ArrivesKeepsInv ==
    ASSUME FramingInv, NEW m \in 1..ChunkSize, Arrives(m)
    PROVE  FramingInv'
<1>1. /\ received + m <= Sent /\ ~ CanRead /\ received' = received + m
      /\ reader' = push(reader, Bytes(received, m))
      /\ pool' = IF pool.status = "broken" THEN pool ELSE AppendChunk(pool, Bytes(received, m))
      /\ stream' = stream
    BY DEF Arrives
<1>2. StreamOK /\ received \in Nat /\ ReaderInv(reader, received) /\ PoolInv(pool, received) /\ m \in Nat
    BY FramingAssumption DEF FramingInv
<1>3. ReaderInv(reader', received')
    BY <1>1, <1>2, PushReads
<1>4. PoolInv(pool', received')
    <2>1. PICK w \in 0..Len(stream) : PoolAt(pool, received, w) \/ PoolBroken(pool, w)
        BY <1>2 DEF PoolInv
    <2>2. CASE PoolBroken(pool, w)
        <3>1. pool' = pool
            BY <1>1, <2>2 DEF PoolBroken
        <3>2. PoolBroken(pool', w)
            BY <2>2, <3>1
        <3> QED BY <3>2 DEF PoolInv
    <2>3. CASE PoolAt(pool, received, w)
        <3>1. pool.status = "open"
            BY <2>3 DEF PoolAt, PoolIs
        <3>2. ~ HasFrame(pool) /\ ~ TooLong(pool) /\ pool' = AppendChunk(pool, Bytes(received, m))
            BY <1>1, <3>1 DEF CanRead
        <3>3. PoolInv(AppendChunk(pool, Bytes(received, m)), received + m)
            BY <1>1, <1>2, <2>3, <3>2, ArrivesKeepsPool
        <3> QED BY <1>1, <3>2, <3>3
    <2> QED BY <2>1, <2>2, <2>3
<1>5. received' \in Nat
    BY <1>1, <1>2
<1> QED BY <1>1, <1>2, <1>3, <1>4, <1>5, StreamStays DEF FramingInv

LEMMA ReadFrameKeepsInv ==
    ASSUME FramingInv, ReadFrame
    PROVE  FramingInv'
<1>1. CanRead /\ pool' = TryReadUtf8Frame(pool) /\ stream' = stream /\ received' = received /\ reader' = reader
    BY DEF ReadFrame
<1>2. StreamOK /\ PoolInv(pool, received)
    BY DEF FramingInv
<1>3. PoolInv(pool', received)
    <2>1. PICK w \in 0..Len(stream) : PoolAt(pool, received, w) \/ PoolBroken(pool, w)
        BY <1>2 DEF PoolInv
    <2>2. ~ PoolBroken(pool, w)
        BY <1>1 DEF CanRead, PoolBroken
    <2>3. HasFrame(pool) \/ TooLong(pool)
        BY <1>1 DEF CanRead
    <2> QED BY <1>1, <1>2, <2>1, <2>2, <2>3, ReadKeeps
<1>4. ReaderInv(reader', received')
    BY <1>1 DEF FramingInv
<1> QED BY <1>1, <1>3, <1>4, StreamStays DEF FramingInv

LEMMA FramingStarts == FramingInit => FramingInv
<1> SUFFICES ASSUME FramingInit PROVE FramingInv
    OBVIOUS
<1>1. stream = <<>> /\ received = 0 /\ reader = NewReader /\ pool = NewPool
    BY DEF FramingInit
<1>2. Len(stream) = 0 /\ End(0) = 0 /\ Sent = 0 /\ StreamOK
    BY <1>1 DEF End, Sent, StreamOK
<1>3. FrameHeaderSize \in Nat /\ FrameHeaderSize > 0 /\ LargestBuffer \in Nat /\ InitialCapacity \in 0..LargestBuffer
      /\ FrameHeaderSize \in 0..LargestBuffer
    <2>1. FrameHeaderSize \in Nat /\ FrameHeaderSize > 0 /\ MaxFrameSize \in Nat
        BY FramingAssumption
    <2>2. LargestBuffer = MaxFrameSize + FrameHeaderSize
        BY DEF LargestBuffer
    <2>3. InitialCapacity \in 0..LargestBuffer
        BY FramingAssumption
    <2> QED BY <2>1, <2>2, <2>3
<1>4. Bytes(0, 0) = <<>> /\ FramesOf(0) = <<>>
    BY BytesFacts, <1>2, FramesFacts
<1>5. Holds(0, 0)
    BY <1>2 DEF Holds
<1>6. ReaderHolds(0, 0) = NewReader
    <2>1. ~ (0 >= FrameHeaderSize)
        BY <1>3
    <2> QED BY <1>2, <1>4, <2>1 DEF ReaderHolds, NewReader
<1>7. ReaderAt(reader, 0, 0)
    <2>1. ~ (0 >= FrameHeaderSize) /\ 0 = End(0) + 0 /\ 0 \in Nat
        BY <1>2, <1>3
    <2> QED BY <1>1, <1>5, <1>6, <2>1 DEF ReaderAt
<1>8. PICK asked, size : asked = Max({InitialCapacity, FrameHeaderSize}) /\ size = RentSize[asked]
    OBVIOUS
<1>9. asked \in 0..LargestBuffer /\ asked >= FrameHeaderSize
    BY <1>3, <1>8 DEF Max
<1>10. size \in Nat /\ size > 0
    <2>1. size \in Nat /\ size >= asked
        BY <1>8, <1>9, FramingAssumption
    <2> QED BY <1>3, <1>9, <2>1
<1>11. pool = [buffer |-> Empty(size), start |-> 0, end |-> 0, frames |-> <<>>, status |-> "open"]
    BY <1>1, <1>8 DEF NewPool
<1>12. pool.buffer = Empty(size) /\ DOMAIN Empty(size) = 0..(size - 1)
    BY <1>11 DEF Empty
<1>13. 0 + 0 = 0 /\ 0..(0 + 0 - 1) = {} /\ 0 <= size
    BY <1>10
<1>14. PoolIs(pool, size, 0, End(0), 0, FramesOf(0), "open")
    BY <1>2, <1>4, <1>10, <1>11, <1>12, <1>13 DEF PoolIs
<1>15. PoolAt(pool, 0, 0)
    BY <1>2, <1>10, <1>13, <1>14 DEF PoolAt
<1>16. 0 \in 0..Len(stream)
    BY <1>2
<1> QED BY <1>1, <1>2, <1>7, <1>15, <1>16 DEF FramingInv, ReaderInv, PoolInv

LEMMA FramingGoesOn == FramingInv /\ [FramingNext]_framing => FramingInv'
<1> SUFFICES ASSUME FramingInv, [FramingNext]_framing PROVE FramingInv'
    OBVIOUS
<1>1. CASE \E n \in PayloadSizes : Write(n)
    BY <1>1, WriteKeepsInv
<1>2. CASE \E n \in 1..ChunkSize : Arrives(n)
    BY <1>2, ArrivesKeepsInv
<1>3. CASE ReadFrame
    BY <1>3, ReadFrameKeepsInv
<1>4. CASE UNCHANGED framing
    <2>1. stream' = stream /\ received' = received /\ reader' = reader /\ pool' = pool
        BY <1>4 DEF framing
    <2>2. ReaderInv(reader', received') /\ PoolInv(pool', received')
        BY <2>1 DEF FramingInv
    <2> QED BY <2>1, <2>2, StreamStays DEF FramingInv
<1> QED BY <1>1, <1>2, <1>3, <1>4 DEF FramingNext

LEMMA FramingSaysAgree == FramingInv => FramesSurviveChunking
<1> SUFFICES ASSUME FramingInv PROVE FramesSurviveChunking
    OBVIOUS
<1>1. StreamOK /\ ReaderInv(reader, received) /\ PoolInv(pool, received)
    BY DEF FramingInv
<1>2. PICK w \in 0..Len(stream) : ReaderAt(reader, received, w) \/ ReaderBroken(reader, w)
    BY <1>1 DEF ReaderInv
<1>3. PICK v \in 0..Len(stream) : PoolAt(pool, received, v) \/ PoolBroken(pool, v)
    BY <1>1 DEF PoolInv
<1>4. reader.frames = FramesOf(w)
    <2>1. CASE ReaderAt(reader, received, w)
        BY <2>1 DEF ReaderAt, ReaderHolds
    <2>2. CASE ReaderBroken(reader, w)
        BY <2>2 DEF ReaderBroken, NewReader
    <2> QED BY <1>2, <2>1, <2>2
<1>5. pool.frames = FramesOf(v)
    BY <1>3 DEF PoolAt, PoolIs, PoolBroken
<1>6. IsPrefix(reader.frames, Payloads) /\ IsPrefix(pool.frames, Payloads)
    BY <1>1, <1>4, <1>5, FramesPrefix
<1>7. ASSUME reader.status = "open" PROVE Len(reader.frames) = Whole(received)
    <2>1. ReaderAt(reader, received, w)
        BY <1>2, <1>7 DEF ReaderBroken, NewReader
    <2>2. Holds(received, w)
        BY <2>1 DEF ReaderAt
    <2> QED BY <1>1, <1>4, <2>2, WholeIs, FramesFacts
<1>8. ASSUME pool.status = "open", ~ CanRead PROVE Len(pool.frames) = Whole(received)
    <2>1. PoolAt(pool, received, v)
        BY <1>3, <1>8 DEF PoolBroken
    <2>2. ~ HasFrame(pool) /\ ~ TooLong(pool)
        BY <1>8 DEF CanRead
    <2>3. Holds(received, v)
        BY <1>1, <2>1, <2>2, PoolWaits
    <2> QED BY <1>1, <1>5, <2>3, WholeIs, FramesFacts
<1>9. reader.status = "broken" => Oversized
    BY <1>2 DEF ReaderAt, ReaderHolds, ReaderBroken
<1>10. pool.status = "broken" => Oversized \/ TooNear
    BY <1>3 DEF PoolAt, PoolIs, PoolBroken
<1> QED BY <1>6, <1>7, <1>8, <1>9, <1>10 DEF FramesSurviveChunking, TooNear

LEMMA FramingAlwaysInv == Spec => [](Is("framing") => FramingInv)
<1> DEFINE Inv == Is("framing") => FramingInv
<1>1. Init => Inv
    BY FramingStarts DEF Init
<1>2. ASSUME Inv, [Next]_<<part, ncVars, programs, framing, acceptance, planning>> PROVE Inv'
    <2>1. CASE Next
        <3> SUFFICES ASSUME Is("framing")' PROVE FramingInv'
            OBVIOUS
        <3>1. Is("framing") /\ FramingNext
            BY <2>1 DEF Next, Is
        <3> QED BY <1>2, <3>1, FramingGoesOn
    <2>2. CASE UNCHANGED <<part, ncVars, programs, framing, acceptance, planning>>
        <3>1. Is("framing")' = Is("framing") /\ UNCHANGED framing
            BY <2>2 DEF Is
        <3> QED BY <1>2, <3>1, FramingGoesOn
    <2> QED BY <1>2, <2>1, <2>2
<1> QED BY <1>1, <1>2, PTL DEF Spec

\* For every stream of frames and every way in which it is cut, FrameReader and
\* PooledFrameBuffer hand out exactly the frames that were sent, in their order
\* and as soon as each is complete, and neither gives up without a frame that is
\* too long, or for the pooled buffer one that a read may reach past.
THEOREM DecodersAlwaysAgree == Spec => []DecodersAgree
<1>1. (Is("framing") => FramingInv) => DecodersAgree
    BY FramingSaysAgree DEF DecodersAgree
<1> QED BY <1>1, FramingAlwaysInv, PTL

(* The comparison of programs. *)

\* The recursive functions of the diff are what their equations say.
LEMMA TraceRuns ==
    ASSUME NEW a, NEW b, Len(a) \in Nat, Len(b) \in Nat
    PROVE  /\ trace(a, b)[0] = [k \in (-(Len(a) + Len(b) + 1))..(Len(a) + Len(b) + 1) |-> 0]
           /\ \A k \in 1..(Len(a) + Len(b) + 1) : trace(a, b)[k] = Round(a, b, trace(a, b)[k - 1], k - 1)
<1> DEFINE n == (Len(a) + Len(b) + 1)
           base == [k \in (-(Len(a) + Len(b) + 1))..(Len(a) + Len(b) + 1) |-> 0]
           N(x, k) == Round(a, b, x, k - 1)
           F(f, j) == f = [k \in 0..j |-> IF k = 0 THEN base ELSE N(f[k - 1], k)]
           S == {j \in 0..n : \E f : F(f, j)}
<1>1. n \in Nat
  OBVIOUS
<1>2. (\E f : F(f, n)) => F(trace(a, b), n)
  BY DEF trace
<1> HIDE DEF n, base, N
<1>3. 0 \in S
  <2>1. F([k \in 0..0 |-> base], 0)
    OBVIOUS
  <2>2. \E f : F(f, 0)
    <3> HIDE DEF F
    <3> QED BY <2>1
  <2> HIDE DEF F
  <2> QED BY <2>2, <1>1
<1>4. ASSUME NEW j \in 0..n, j \in S, j < n PROVE j + 1 \in S
  <2>1. PICK f : F(f, j)
    BY <1>4
  <2>2. PICK g : g = [k \in 0..(j + 1) |-> IF k = j + 1 THEN N(f[j], j + 1) ELSE f[k]]
    OBVIOUS
  <2>3. \A k \in 0..(j + 1) : g[k] = IF k = 0 THEN base ELSE N(g[k - 1], k)
    <3> SUFFICES ASSUME NEW k \in 0..(j + 1) PROVE g[k] = IF k = 0 THEN base ELSE N(g[k - 1], k)
      OBVIOUS
    <3>1. CASE k = j + 1
      <4>1. k - 1 = j /\ k # 0 /\ g[j] = f[j] /\ g[k] = N(f[j], k)
        BY <3>1, <2>2, <1>1
      <4> QED BY <4>1
    <3>2. CASE k # j + 1
      <4>1. k \in 0..j /\ g[k] = f[k] /\ (k # 0 => g[k - 1] = f[k - 1])
        BY <3>2, <2>2, <1>1
      <4> QED BY <4>1, <2>1
    <3> QED BY <3>1, <3>2
  <2>4. F(g, j + 1)
    BY <2>2, <2>3
  <2>5. j + 1 \in 0..n
    BY <1>1, <1>4
  <2> HIDE DEF F
  <2> QED BY <2>4, <2>5
<1>5. n \in S
  <2> HIDE DEF S
  <2>1. \A k \in 0..n : k \in S
    BY <1>1, <1>3, <1>4, UpTo
  <2>2. n \in 0..n
    BY <1>1
  <2> QED BY <2>1, <2>2
<1>6. PICK f : f = trace(a, b) /\ F(f, n)
  <2>1. \E f : F(f, n)
    BY <1>5
  <2> HIDE DEF F
  <2> QED BY <1>2, <2>1
<1>7. f[0] = base /\ \A k \in 1..n : f[k] = N(f[k - 1], k)
  BY <1>1, <1>6
<1> QED BY <1>7, <1>6 DEF n, base, N

LEMMA BackRuns ==
    ASSUME NEW a, NEW b, NEW D \in Nat
    PROVE  /\ WalkBack(a, b, D)[0] = [x |-> Len(a), y |-> Len(b), ops |-> <<>>]
           /\ \A k \in 1..D : WalkBack(a, b, D)[k] = BackOne(a, b, trace(a, b)[D - k + 1], D - k + 1, WalkBack(a, b, D)[k - 1])
<1> DEFINE n == D
           base == [x |-> Len(a), y |-> Len(b), ops |-> <<>>]
           N(x, k) == BackOne(a, b, trace(a, b)[D - k + 1], D - k + 1, x)
           F(f, j) == f = [k \in 0..j |-> IF k = 0 THEN base ELSE N(f[k - 1], k)]
           S == {j \in 0..n : \E f : F(f, j)}
<1>1. n \in Nat
  OBVIOUS
<1>2. (\E f : F(f, n)) => F(WalkBack(a, b, D), n)
  BY DEF WalkBack
<1> HIDE DEF n, base, N
<1>3. 0 \in S
  <2>1. F([k \in 0..0 |-> base], 0)
    OBVIOUS
  <2>2. \E f : F(f, 0)
    <3> HIDE DEF F
    <3> QED BY <2>1
  <2> HIDE DEF F
  <2> QED BY <2>2, <1>1
<1>4. ASSUME NEW j \in 0..n, j \in S, j < n PROVE j + 1 \in S
  <2>1. PICK f : F(f, j)
    BY <1>4
  <2>2. PICK g : g = [k \in 0..(j + 1) |-> IF k = j + 1 THEN N(f[j], j + 1) ELSE f[k]]
    OBVIOUS
  <2>3. \A k \in 0..(j + 1) : g[k] = IF k = 0 THEN base ELSE N(g[k - 1], k)
    <3> SUFFICES ASSUME NEW k \in 0..(j + 1) PROVE g[k] = IF k = 0 THEN base ELSE N(g[k - 1], k)
      OBVIOUS
    <3>1. CASE k = j + 1
      <4>1. k - 1 = j /\ k # 0 /\ g[j] = f[j] /\ g[k] = N(f[j], k)
        BY <3>1, <2>2, <1>1
      <4> QED BY <4>1
    <3>2. CASE k # j + 1
      <4>1. k \in 0..j /\ g[k] = f[k] /\ (k # 0 => g[k - 1] = f[k - 1])
        BY <3>2, <2>2, <1>1
      <4> QED BY <4>1, <2>1
    <3> QED BY <3>1, <3>2
  <2>4. F(g, j + 1)
    BY <2>2, <2>3
  <2>5. j + 1 \in 0..n
    BY <1>1, <1>4
  <2> HIDE DEF F
  <2> QED BY <2>4, <2>5
<1>5. n \in S
  <2> HIDE DEF S
  <2>1. \A k \in 0..n : k \in S
    BY <1>1, <1>3, <1>4, UpTo
  <2>2. n \in 0..n
    BY <1>1
  <2> QED BY <2>1, <2>2
<1>6. PICK f : f = WalkBack(a, b, D) /\ F(f, n)
  <2>1. \E f : F(f, n)
    BY <1>5
  <2> HIDE DEF F
  <2> QED BY <1>2, <2>1
<1>7. f[0] = base /\ \A k \in 1..n : f[k] = N(f[k - 1], k)
  BY <1>1, <1>6
<1> QED BY <1>7, <1>6 DEF n, base, N

LEMMA HunksRun ==
    ASSUME NEW ops, Len(ops) \in Nat
    PROVE  /\ Hunks(ops)[0] = NoHunk
           /\ \A k \in 1..Len(ops) : Hunks(ops)[k] = Take(Hunks(ops)[k - 1], ops[k])
<1> DEFINE n == Len(ops)
           base == NoHunk
           N(x, k) == Take(x, ops[k])
           F(f, j) == f = [k \in 0..j |-> IF k = 0 THEN base ELSE N(f[k - 1], k)]
           S == {j \in 0..n : \E f : F(f, j)}
<1>1. n \in Nat
  OBVIOUS
<1>2. (\E f : F(f, n)) => F(Hunks(ops), n)
  BY DEF Hunks
<1> HIDE DEF n, base, N
<1>3. 0 \in S
  <2>1. F([k \in 0..0 |-> base], 0)
    OBVIOUS
  <2>2. \E f : F(f, 0)
    <3> HIDE DEF F
    <3> QED BY <2>1
  <2> HIDE DEF F
  <2> QED BY <2>2, <1>1
<1>4. ASSUME NEW j \in 0..n, j \in S, j < n PROVE j + 1 \in S
  <2>1. PICK f : F(f, j)
    BY <1>4
  <2>2. PICK g : g = [k \in 0..(j + 1) |-> IF k = j + 1 THEN N(f[j], j + 1) ELSE f[k]]
    OBVIOUS
  <2>3. \A k \in 0..(j + 1) : g[k] = IF k = 0 THEN base ELSE N(g[k - 1], k)
    <3> SUFFICES ASSUME NEW k \in 0..(j + 1) PROVE g[k] = IF k = 0 THEN base ELSE N(g[k - 1], k)
      OBVIOUS
    <3>1. CASE k = j + 1
      <4>1. k - 1 = j /\ k # 0 /\ g[j] = f[j] /\ g[k] = N(f[j], k)
        BY <3>1, <2>2, <1>1
      <4> QED BY <4>1
    <3>2. CASE k # j + 1
      <4>1. k \in 0..j /\ g[k] = f[k] /\ (k # 0 => g[k - 1] = f[k - 1])
        BY <3>2, <2>2, <1>1
      <4> QED BY <4>1, <2>1
    <3> QED BY <3>1, <3>2
  <2>4. F(g, j + 1)
    BY <2>2, <2>3
  <2>5. j + 1 \in 0..n
    BY <1>1, <1>4
  <2> HIDE DEF F
  <2> QED BY <2>4, <2>5
<1>5. n \in S
  <2> HIDE DEF S
  <2>1. \A k \in 0..n : k \in S
    BY <1>1, <1>3, <1>4, UpTo
  <2>2. n \in 0..n
    BY <1>1
  <2> QED BY <2>1, <2>2
<1>6. PICK f : f = Hunks(ops) /\ F(f, n)
  <2>1. \E f : F(f, n)
    BY <1>5
  <2> HIDE DEF F
  <2> QED BY <1>2, <2>1
<1>7. f[0] = base /\ \A k \in 1..n : f[k] = N(f[k - 1], k)
  BY <1>1, <1>6
<1> QED BY <1>7, <1>6 DEF n, base, N

LEMMA EventsRun ==
    ASSUME NEW p, NEW kind, Len(p) \in Nat
    PROVE  /\ Events(p, kind)[0] = <<>>
           /\ \A k \in 1..Len(p) : Events(p, kind)[k] = Events(p, kind)[k - 1] \o Meaning[p[k]].events[kind]
<1> DEFINE n == Len(p)
           base == <<>>
           N(x, k) == x \o Meaning[p[k]].events[kind]
           F(f, j) == f = [k \in 0..j |-> IF k = 0 THEN base ELSE N(f[k - 1], k)]
           S == {j \in 0..n : \E f : F(f, j)}
<1>1. n \in Nat
  OBVIOUS
<1>2. (\E f : F(f, n)) => F(Events(p, kind), n)
  BY DEF Events
<1> HIDE DEF n, base, N
<1>3. 0 \in S
  <2>1. F([k \in 0..0 |-> base], 0)
    OBVIOUS
  <2>2. \E f : F(f, 0)
    <3> HIDE DEF F
    <3> QED BY <2>1
  <2> HIDE DEF F
  <2> QED BY <2>2, <1>1
<1>4. ASSUME NEW j \in 0..n, j \in S, j < n PROVE j + 1 \in S
  <2>1. PICK f : F(f, j)
    BY <1>4
  <2>2. PICK g : g = [k \in 0..(j + 1) |-> IF k = j + 1 THEN N(f[j], j + 1) ELSE f[k]]
    OBVIOUS
  <2>3. \A k \in 0..(j + 1) : g[k] = IF k = 0 THEN base ELSE N(g[k - 1], k)
    <3> SUFFICES ASSUME NEW k \in 0..(j + 1) PROVE g[k] = IF k = 0 THEN base ELSE N(g[k - 1], k)
      OBVIOUS
    <3>1. CASE k = j + 1
      <4>1. k - 1 = j /\ k # 0 /\ g[j] = f[j] /\ g[k] = N(f[j], k)
        BY <3>1, <2>2, <1>1
      <4> QED BY <4>1
    <3>2. CASE k # j + 1
      <4>1. k \in 0..j /\ g[k] = f[k] /\ (k # 0 => g[k - 1] = f[k - 1])
        BY <3>2, <2>2, <1>1
      <4> QED BY <4>1, <2>1
    <3> QED BY <3>1, <3>2
  <2>4. F(g, j + 1)
    BY <2>2, <2>3
  <2>5. j + 1 \in 0..n
    BY <1>1, <1>4
  <2> HIDE DEF F
  <2> QED BY <2>4, <2>5
<1>5. n \in S
  <2> HIDE DEF S
  <2>1. \A k \in 0..n : k \in S
    BY <1>1, <1>3, <1>4, UpTo
  <2>2. n \in 0..n
    BY <1>1
  <2> QED BY <2>1, <2>2
<1>6. PICK f : f = Events(p, kind) /\ F(f, n)
  <2>1. \E f : F(f, n)
    BY <1>5
  <2> HIDE DEF F
  <2> QED BY <1>2, <2>1
<1>7. f[0] = base /\ \A k \in 1..n : f[k] = N(f[k - 1], k)
  BY <1>1, <1>6
<1> QED BY <1>7, <1>6 DEF n, base, N

LEMMA ScoreRuns ==
    ASSUME NEW told
    PROVE  /\ score(told)[0] = 0
           /\ \A k \in 1..Len(Weighed) : score(told)[k] = score(told)[k - 1] + (IF Weighed[k][1] \in told THEN Weighed[k][2] ELSE 0)
<1> DEFINE n == Len(Weighed)
           base == 0
           N(x, k) == x + (IF Weighed[k][1] \in told THEN Weighed[k][2] ELSE 0)
           F(f, j) == f = [k \in 0..j |-> IF k = 0 THEN base ELSE N(f[k - 1], k)]
           S == {j \in 0..n : \E f : F(f, j)}
<1>1. n \in Nat
  OBVIOUS
<1>2. (\E f : F(f, n)) => F(score(told), n)
  BY DEF score
<1> HIDE DEF n, base, N
<1>3. 0 \in S
  <2>1. F([k \in 0..0 |-> base], 0)
    OBVIOUS
  <2>2. \E f : F(f, 0)
    <3> HIDE DEF F
    <3> QED BY <2>1
  <2> HIDE DEF F
  <2> QED BY <2>2, <1>1
<1>4. ASSUME NEW j \in 0..n, j \in S, j < n PROVE j + 1 \in S
  <2>1. PICK f : F(f, j)
    BY <1>4
  <2>2. PICK g : g = [k \in 0..(j + 1) |-> IF k = j + 1 THEN N(f[j], j + 1) ELSE f[k]]
    OBVIOUS
  <2>3. \A k \in 0..(j + 1) : g[k] = IF k = 0 THEN base ELSE N(g[k - 1], k)
    <3> SUFFICES ASSUME NEW k \in 0..(j + 1) PROVE g[k] = IF k = 0 THEN base ELSE N(g[k - 1], k)
      OBVIOUS
    <3>1. CASE k = j + 1
      <4>1. k - 1 = j /\ k # 0 /\ g[j] = f[j] /\ g[k] = N(f[j], k)
        BY <3>1, <2>2, <1>1
      <4> QED BY <4>1
    <3>2. CASE k # j + 1
      <4>1. k \in 0..j /\ g[k] = f[k] /\ (k # 0 => g[k - 1] = f[k - 1])
        BY <3>2, <2>2, <1>1
      <4> QED BY <4>1, <2>1
    <3> QED BY <3>1, <3>2
  <2>4. F(g, j + 1)
    BY <2>2, <2>3
  <2>5. j + 1 \in 0..n
    BY <1>1, <1>4
  <2> HIDE DEF F
  <2> QED BY <2>4, <2>5
<1>5. n \in S
  <2> HIDE DEF S
  <2>1. \A k \in 0..n : k \in S
    BY <1>1, <1>3, <1>4, UpTo
  <2>2. n \in 0..n
    BY <1>1
  <2> QED BY <2>1, <2>2
<1>6. PICK f : f = score(told) /\ F(f, n)
  <2>1. \E f : F(f, n)
    BY <1>5
  <2> HIDE DEF F
  <2> QED BY <1>2, <2>1
<1>7. f[0] = base /\ \A k \in 1..n : f[k] = N(f[k - 1], k)
  BY <1>1, <1>6
<1> QED BY <1>7, <1>6 DEF n, base, N

\* The greatest of finitely many numbers.
LEMMA GreatestNumber ==
    ASSUME NEW n \in Nat, NEW T \in SUBSET (0..n), T # {}
    PROVE  \E x \in T : x = Max(T) /\ \A y \in T : y <= x
<1> DEFINE U == {n - y : y \in T}
<1>1. U \in SUBSET Nat /\ U # {}
  <2>1. \A y \in T : y \in Int /\ n - y \in Nat
    OBVIOUS
  <2>2. PICK y \in T : TRUE
    OBVIOUS
  <2>3. n - y \in U
    OBVIOUS
  <2> QED BY <2>1, <2>3
<1>2. PICK u \in U : \A w \in U : u <= w
  <2> HIDE DEF U
  <2> QED BY <1>1, LeastNumber
<1>3. PICK x \in T : u = n - x
  BY <1>2
<1>4. \A y \in T : y <= x /\ y \in Int
  <2> SUFFICES ASSUME NEW y \in T PROVE y <= x /\ y \in Int
    OBVIOUS
  <2>1. u <= n - y
    BY <1>2
  <2> QED BY <2>1, <1>3
<1>5. \E z \in T : \A y \in T : z >= y
  BY <1>4
<1>6. Max(T) \in T /\ \A y \in T : Max(T) >= y
  BY <1>5 DEF Max
<1> QED BY <1>6, <1>4

LEMMA LeastIs ==
    ASSUME NEW T \in SUBSET Nat, T # {}
    PROVE  Min(T) \in T /\ \A y \in T : Min(T) <= y
<1>1. PICK x \in T : \A y \in T : x <= y
  BY LeastNumber
<1> QED BY <1>1 DEF Min

\* A slide goes over equal lines, as far as there are any.
SlideFacts(a, b, x, y, s) ==
    /\ s \in Nat
    /\ \A j \in 1..s : x + j <= Len(a) /\ y + j <= Len(b) /\ a[x + j] = b[y + j]
    /\ ~(x + s + 1 <= Len(a) /\ y + s + 1 <= Len(b) /\ a[x + s + 1] = b[y + s + 1])

LEMMA SlideIs ==
    ASSUME NEW a, NEW b, Len(a) \in Nat, Len(b) \in Nat, NEW x \in Nat, NEW y \in Nat
    PROVE  SlideFacts(a, b, x, y, Slide(a, b, x, y))
<1> DEFINE Eq(j) == x + j <= Len(a) /\ y + j <= Len(b) /\ a[x + j] = b[y + j]
           T == {i \in 0..Len(a) : \A j \in 1..i : Eq(j)}
<1>1. T \in SUBSET (0..Len(a)) /\ T # {}
  <2>1. 0 \in T
    OBVIOUS
  <2> QED BY <2>1
<1>2. PICK s \in T : s = Max(T) /\ \A i \in T : i <= s
  <2> HIDE DEF T
  <2> QED BY <1>1, GreatestNumber
<1>3. s \in Nat /\ \A j \in 1..s : Eq(j)
  BY <1>2
<1>4. ASSUME Eq(s + 1) PROVE FALSE
  <2>1. s + 1 \in 0..Len(a)
    BY <1>4, <1>3
  <2>2. \A j \in 1..(s + 1) : Eq(j)
    <3> SUFFICES ASSUME NEW j \in 1..(s + 1) PROVE Eq(j)
      OBVIOUS
    <3>1. j \in 1..s \/ j = s + 1
      BY <1>3
    <3> QED
      <4> HIDE DEF Eq
      <4> QED BY <3>1, <1>3, <1>4
  <2>3. s + 1 \in T
    BY <2>1, <2>2
  <2> QED
    <3> HIDE DEF T, Eq
    <3> QED BY <1>2, <1>3, <2>3
<1>5. s = Slide(a, b, x, y)
  BY <1>2 DEF Slide
<1>6. SlideFacts(a, b, x, y, s)
  <2>1. x + s + 1 = x + (s + 1) /\ y + s + 1 = y + (s + 1)
    BY <1>3
  <2> QED BY <1>3, <1>4, <2>1 DEF SlideFacts
<1> QED BY <1>5, <1>6

\* The diagonals of a round lie beside those of the round before.
LEMMA DiagonalsLie ==
    ASSUME NEW d \in Nat, NEW k \in Diagonals(d)
    PROVE  /\ k \in Int /\ -d <= k /\ k <= d
           /\ k + 1 \in Diagonals(d + 1) /\ k - 1 \in Diagonals(d + 1)
           /\ k # -d => d >= 1 /\ k - 1 \in Diagonals(d - 1)
           /\ k # d => d >= 1 /\ k + 1 \in Diagonals(d - 1)
<1>1. PICK i \in 0..d : k = 2 * i - d
  BY DEF Diagonals
<1>2. k \in Int /\ -d <= k /\ k <= d
  BY <1>1
<1>3. k + 1 \in Diagonals(d + 1)
  <2>1. i + 1 \in 0..(d + 1) /\ k + 1 = 2 * (i + 1) - (d + 1)
    BY <1>1
  <2> QED BY <2>1 DEF Diagonals
<1>4. k - 1 \in Diagonals(d + 1)
  <2>1. i \in 0..(d + 1) /\ k - 1 = 2 * i - (d + 1)
    BY <1>1
  <2> QED BY <2>1 DEF Diagonals
<1>5. ASSUME k # -d PROVE d >= 1 /\ k - 1 \in Diagonals(d - 1)
  <2>1. i - 1 \in 0..(d - 1) /\ k - 1 = 2 * (i - 1) - (d - 1) /\ d >= 1
    BY <1>1, <1>5
  <2> QED BY <2>1 DEF Diagonals
<1>6. ASSUME k # d PROVE d >= 1 /\ k + 1 \in Diagonals(d - 1)
  <2>1. i \in 0..(d - 1) /\ k + 1 = 2 * i - (d - 1) /\ d >= 1
    BY <1>1, <1>6
  <2> QED BY <2>1 DEF Diagonals
<1> QED BY <1>2, <1>3, <1>4, <1>5, <1>6

LEMMA FirstDiagonal == Diagonals(0) = {0}
  BY DEF Diagonals

\* How far round d has got on diagonal k.
GotTo(a, b, d, k) == trace(a, b)[d + 1][k]

TraceFacts(a, b, far) ==
    /\ far = Len(a) + Len(b) + 1 /\ far > 0
    /\ trace(a, b)[0] = [k \in (-far)..far |-> 0]
    /\ \A e \in 1..far : trace(a, b)[e] = Round(a, b, trace(a, b)[e - 1], e - 1)

LEMMA TraceIs ==
    ASSUME NEW a, NEW b, Len(a) \in Nat, Len(b) \in Nat
    PROVE  \E far \in Nat : TraceFacts(a, b, far)
<1>1. PICK far \in Nat : far = Len(a) + Len(b) + 1 /\ far > 0
  OBVIOUS
<1> QED BY <1>1, TraceRuns DEF TraceFacts

LEMMA TraceDomain ==
    ASSUME NEW a, NEW b, Len(a) \in Nat, Len(b) \in Nat, NEW d \in 0..(Len(a) + Len(b) + 1)
    PROVE  DOMAIN (trace(a, b)[d]) = (-(Len(a) + Len(b) + 1))..(Len(a) + Len(b) + 1)
<1>1. PICK t : t = trace(a, b)
  OBVIOUS
<1>2. PICK far \in Nat : TraceFacts(a, b, far)
  BY TraceIs
<1>3. /\ far = Len(a) + Len(b) + 1 /\ t[0] = [k \in (-far)..far |-> 0]
      /\ \A k \in 1..far : t[k] = Round(a, b, t[k - 1], k - 1)
  BY <1>1, <1>2 DEF TraceFacts
<1> DEFINE S == {e \in 0..far : DOMAIN (t[e]) = (-far)..far}
<1>4. 0 \in S
  BY <1>3
<1>5. ASSUME NEW e \in 0..far, e \in S, e < far PROVE e + 1 \in S
  <2>1. e + 1 \in 1..far /\ e + 1 - 1 = e
    BY <1>5
  <2>2. t[e + 1] = Round(a, b, t[e], e)
    BY <2>1, <1>3
  <2>3. DOMAIN (t[e + 1]) = DOMAIN (t[e])
    BY <2>2 DEF Round
  <2> QED BY <2>1, <2>3, <1>5
<1>6. \A e \in 0..far : e \in S
  <2> HIDE DEF S
  <2> QED BY <1>4, <1>5, UpTo
<1> QED BY <1>6, <1>3, <1>1

\* One round on one diagonal: from the farther neighbour, one line on, and over
\* the equal lines.
GotFacts(a, b, d, k, x) ==
    /\ GotTo(a, b, d, k) = x + Slide(a, b, x, x - k)
    /\ d = 0 => x = 0
    /\ d > 0 =>
         /\ Further(trace(a, b)[d], d, k) =
              IF k = -d \/ (k # d /\ GotTo(a, b, d - 1, k - 1) < GotTo(a, b, d - 1, k + 1)) THEN k + 1 ELSE k - 1
         /\ x = IF Further(trace(a, b)[d], d, k) = k + 1 THEN GotTo(a, b, d - 1, k + 1) ELSE GotTo(a, b, d - 1, k - 1) + 1

LEMMA GotIs ==
    ASSUME NEW a, NEW b, Len(a) \in Nat, Len(b) \in Nat, NEW d \in 0..(Len(a) + Len(b)), NEW k \in Diagonals(d)
    PROVE  \E x : GotFacts(a, b, d, k, x)
<1>1. d \in Nat /\ d + 1 \in 1..(Len(a) + Len(b) + 1) /\ d \in 0..(Len(a) + Len(b) + 1) /\ d + 1 - 1 = d
  OBVIOUS
<1>2. k \in Int /\ -d <= k /\ k <= d
  BY <1>1, DiagonalsLie
<1>3. k \in (-(Len(a) + Len(b) + 1))..(Len(a) + Len(b) + 1)
  BY <1>1, <1>2
<1>4. PICK t : t = trace(a, b)
  OBVIOUS
<1>5. t[d + 1] = Round(a, b, t[d], d)
  <2>1. PICK far \in Nat : TraceFacts(a, b, far)
    BY TraceIs
  <2>2. far = Len(a) + Len(b) + 1 /\ \A e \in 1..far : t[e] = Round(a, b, t[e - 1], e - 1)
    BY <1>4, <2>1 DEF TraceFacts
  <2>3. PICK e \in 1..far : e = d + 1 /\ e - 1 = d
    BY <2>2, <1>1
  <2> QED BY <2>2, <2>3
<1>6. k \in DOMAIN (t[d])
  BY <1>1, <1>3, <1>4, TraceDomain
<1>7. t[d + 1][k] = FarthestX(a, b, t[d], d, k)
  BY <1>5, <1>6 DEF Round
<1>8. PICK x : x = StartX(t[d], d, k)
  OBVIOUS
<1>9. GotTo(a, b, d, k) = x + Slide(a, b, x, x - k)
  BY <1>4, <1>7, <1>8 DEF GotTo, FarthestX
<1>10. ASSUME d = 0 PROVE x = 0
  <2>1. k = 0
    BY <1>10, FirstDiagonal
  <2>2. PICK far \in Nat : TraceFacts(a, b, far)
    BY TraceIs
  <2>3. t[0][1] = 0
    <3>1. 1 \in (-far)..far /\ t[0] = [e \in (-far)..far |-> 0]
      BY <1>4, <2>2 DEF TraceFacts
    <3> QED BY <3>1
  <2>4. PICK v : v = t[0]
    OBVIOUS
  <2>5. k = -d /\ k + 1 = 1
    <3>1. d <= 0
      BY <1>10
    <3>2. k = -d
      BY <1>1, <1>2, <3>1
    <3> QED BY <3>2, <2>1
  <2>6. Further(v, d, k) = k + 1
    BY <2>5 DEF Further
  <2>7. StartX(v, d, k) = v[1]
    BY <2>5, <2>6 DEF StartX
  <2> QED BY <1>8, <1>10, <2>3, <2>4, <2>7
<1>11. ASSUME d > 0 PROVE \A e : GotTo(a, b, d - 1, e) = t[d][e]
  <2>1. d - 1 + 1 = d
    BY <1>1
  <2> QED BY <2>1, <1>4 DEF GotTo
<1>12. ASSUME d > 0
       PROVE  /\ Further(t[d], d, k) =
                   IF k = -d \/ (k # d /\ GotTo(a, b, d - 1, k - 1) < GotTo(a, b, d - 1, k + 1)) THEN k + 1 ELSE k - 1
              /\ x = IF Further(t[d], d, k) = k + 1 THEN GotTo(a, b, d - 1, k + 1) ELSE GotTo(a, b, d - 1, k - 1) + 1
  <2>1. \A e : GotTo(a, b, d - 1, e) = t[d][e]
    BY <1>11, <1>12
  <2>2. PICK v : v = t[d]
    OBVIOUS
  <2>3. Further(v, d, k) = IF k = -d \/ (k # d /\ v[k - 1] < v[k + 1]) THEN k + 1 ELSE k - 1
    BY DEF Further
  <2>4. x = IF Further(v, d, k) = k + 1 THEN v[k + 1] ELSE v[k - 1] + 1
    BY <1>8, <2>2 DEF StartX
  <2>5. v[k - 1] = GotTo(a, b, d - 1, k - 1) /\ v[k + 1] = GotTo(a, b, d - 1, k + 1)
    BY <2>1, <2>2
  <2> QED BY <2>2, <2>3, <2>4, <2>5
<1> QED BY <1>4, <1>9, <1>10, <1>12 DEF GotFacts

\* A round keeps to the coordinates it can have, and each diagonal gets on from
\* the farther of its neighbours.
RowHolds(a, b, d) == \A k \in Diagonals(d) : GotTo(a, b, d, k) \in Nat /\ GotTo(a, b, d, k) - k \in Nat

StepFacts(a, b, d, k, x, s) ==
    /\ x \in Nat /\ x - k \in Nat /\ GotTo(a, b, d, k) = x + s /\ SlideFacts(a, b, x, x - k, s)
    /\ \/ /\ Further(trace(a, b)[d], d, k) = k + 1
          /\ k + 1 \in Diagonals(d - 1) /\ x = GotTo(a, b, d - 1, k + 1)
       \/ /\ Further(trace(a, b)[d], d, k) = k - 1
          /\ k - 1 \in Diagonals(d - 1) /\ x = GotTo(a, b, d - 1, k - 1) + 1
    /\ k + 1 \in Diagonals(d - 1) => GotTo(a, b, d - 1, k + 1) <= x
    /\ k - 1 \in Diagonals(d - 1) => GotTo(a, b, d - 1, k - 1) + 1 <= x

LEMMA StepFrom ==
    ASSUME NEW a, NEW b, Len(a) \in Nat, Len(b) \in Nat, NEW d \in 1..(Len(a) + Len(b)), NEW k \in Diagonals(d),
           RowHolds(a, b, d - 1)
    PROVE  \E x, s : StepFacts(a, b, d, k, x, s)
<1>1. d \in Nat /\ d - 1 \in Nat /\ d > 0 /\ d \in 0..(Len(a) + Len(b))
  OBVIOUS
<1>2. /\ k \in Int /\ -d <= k /\ k <= d
      /\ k # -d => k - 1 \in Diagonals(d - 1)
      /\ k # d => k + 1 \in Diagonals(d - 1)
  BY <1>1, DiagonalsLie
<1>3. PICK up, less, other : /\ up = GotTo(a, b, d - 1, k + 1) /\ less = GotTo(a, b, d - 1, k - 1)
                             /\ other = Further(trace(a, b)[d], d, k)
  OBVIOUS
<1>4. PICK x : /\ GotTo(a, b, d, k) = x + Slide(a, b, x, x - k)
               /\ other = IF k = -d \/ (k # d /\ less < up) THEN k + 1 ELSE k - 1
               /\ x = IF other = k + 1 THEN up ELSE less + 1
  <2>1. PICK x : GotFacts(a, b, d, k, x)
    BY <1>1, GotIs
  <2> QED BY <2>1, <1>1, <1>3 DEF GotFacts
<1>5. k + 1 \in Diagonals(d - 1) => up \in Nat /\ up - (k + 1) \in Nat /\ k # d
  <2>1. k + 1 \in Diagonals(d - 1) => k + 1 <= d - 1
    BY <1>1, DiagonalsLie
  <2> QED BY <2>1, <1>1, <1>2, <1>3 DEF RowHolds
<1>6. k - 1 \in Diagonals(d - 1) => less \in Nat /\ less - (k - 1) \in Nat /\ k # -d
  <2>1. k - 1 \in Diagonals(d - 1) => -(d - 1) <= k - 1
    BY <1>1, DiagonalsLie
  <2> QED BY <2>1, <1>1, <1>2, <1>3 DEF RowHolds
<1>7. k + 1 # k - 1 /\ (k = -d => k # d)
  BY <1>1, <1>2
<1>8. CASE other = k + 1
  <2>1. k + 1 \in Diagonals(d - 1) /\ x = up
    BY <1>2, <1>4, <1>7, <1>8
  <2>2. x \in Nat /\ x - k \in Nat
    BY <1>2, <1>5, <2>1
  <2>3. k - 1 \in Diagonals(d - 1) => less + 1 <= x
    BY <1>4, <1>5, <1>6, <1>7, <1>8, <2>1
  <2> QED BY <1>3, <1>4, <1>8, <2>1, <2>2, <2>3, SlideIs DEF StepFacts
<1>9. CASE other = k - 1
  <2>1. k - 1 \in Diagonals(d - 1) /\ x = less + 1
    BY <1>2, <1>4, <1>7, <1>9
  <2>2. x \in Nat /\ x - k \in Nat
    BY <1>2, <1>6, <2>1
  <2>3. k + 1 \in Diagonals(d - 1) => up <= x
    BY <1>4, <1>5, <1>6, <1>7, <1>9, <2>1
  <2> QED BY <1>3, <1>4, <1>9, <2>1, <2>2, <2>3, SlideIs DEF StepFacts
<1> QED BY <1>4, <1>8, <1>9

LEMMA FirstGot ==
    ASSUME NEW a, NEW b, Len(a) \in Nat, Len(b) \in Nat
    PROVE  \E s : GotTo(a, b, 0, 0) = s /\ SlideFacts(a, b, 0, 0, s)
<1>1. PICK d \in 0..(Len(a) + Len(b)), k \in Nat : d = 0 /\ k = 0 /\ k \in Diagonals(d)
  <2>1. 0 \in 0..(Len(a) + Len(b)) /\ 0 \in Diagonals(0)
    BY FirstDiagonal
  <2> QED BY <2>1
<1>2. PICK x : GotTo(a, b, d, k) = x + Slide(a, b, x, x - k) /\ x = 0
  <2>1. k \in Diagonals(d)
    BY <1>1
  <2>2. PICK x : GotFacts(a, b, d, k, x)
    BY <2>1, GotIs
  <2> QED BY <1>1, <2>2 DEF GotFacts
<1>3. PICK y \in Nat : y = x - k /\ y = 0
  BY <1>1, <1>2
<1>4. PICK s : s = Slide(a, b, x, y) /\ SlideFacts(a, b, x, y, s)
  BY <1>2, <1>3, SlideIs
<1>5. s \in Nat
  BY <1>4 DEF SlideFacts
<1>6. GotTo(a, b, d, k) = s
  BY <1>2, <1>3, <1>4, <1>5
<1> QED BY <1>1, <1>2, <1>3, <1>4, <1>6

LEMMA RowsHold ==
    ASSUME NEW a, NEW b, Len(a) \in Nat, Len(b) \in Nat
    PROVE  \A d \in 0..(Len(a) + Len(b)) : RowHolds(a, b, d)
<1>1. PICK n \in Nat : n = Len(a) + Len(b)
  OBVIOUS
<1> DEFINE S == {d \in 0..n : RowHolds(a, b, d)}
<1>2. 0 \in S
  <2>1. PICK s : GotTo(a, b, 0, 0) = s /\ s \in Nat
    BY FirstGot DEF SlideFacts
  <2>2. \A k \in Diagonals(0) : k = 0
    BY FirstDiagonal
  <2>3. RowHolds(a, b, 0)
    <3> SUFFICES ASSUME NEW k \in Diagonals(0) PROVE GotTo(a, b, 0, k) \in Nat /\ GotTo(a, b, 0, k) - k \in Nat
      BY DEF RowHolds
    <3>1. k = 0
      BY <2>2
    <3> QED BY <2>1, <3>1
  <2> QED BY <2>3
<1>3. ASSUME NEW e \in 0..n, e \in S, e < n PROVE e + 1 \in S
  <2>1. PICK d \in 1..n : d = e + 1 /\ d - 1 = e
    BY <1>3
  <2>2. RowHolds(a, b, d - 1)
    BY <1>3, <2>1
  <2>3. ASSUME NEW k \in Diagonals(d) PROVE GotTo(a, b, d, k) \in Nat /\ GotTo(a, b, d, k) - k \in Nat
    <3>1. PICK x, s : StepFacts(a, b, d, k, x, s)
      BY <1>1, <2>2, StepFrom
    <3>2. x \in Nat /\ x - k \in Nat /\ GotTo(a, b, d, k) = x + s /\ s \in Nat /\ k \in Int
      BY <3>1, DiagonalsLie DEF StepFacts, SlideFacts
    <3> QED BY <3>2
  <2>4. RowHolds(a, b, d)
    BY <2>3 DEF RowHolds
  <2> QED BY <2>1, <2>4
<1>4. \A d \in 0..n : d \in S
  <2> HIDE DEF S
  <2> QED BY <1>2, <1>3, UpTo
<1> QED BY <1>1, <1>4

LEMMA GotNat ==
    ASSUME NEW a, NEW b, Len(a) \in Nat, Len(b) \in Nat, NEW d \in 0..(Len(a) + Len(b)), NEW k \in Diagonals(d)
    PROVE  k \in Int /\ GotTo(a, b, d, k) \in Nat /\ GotTo(a, b, d, k) - k \in Nat
  BY RowsHold, DiagonalsLie DEF RowHolds

LEMMA StepIs ==
    ASSUME NEW a, NEW b, Len(a) \in Nat, Len(b) \in Nat, NEW d \in 1..(Len(a) + Len(b)), NEW k \in Diagonals(d)
    PROVE  \E x, s : StepFacts(a, b, d, k, x, s)
<1>1. d - 1 \in 0..(Len(a) + Len(b))
  OBVIOUS
<1> QED BY <1>1, RowsHold, StepFrom

\* Neighbours of a diagonal reach one line less at least.
LEMMA NextIsFurther ==
    ASSUME NEW a, NEW b, Len(a) \in Nat, Len(b) \in Nat, NEW d \in 0..(Len(a) + Len(b) - 1), NEW k \in Diagonals(d)
    PROVE  /\ k + 1 \in Diagonals(d + 1) /\ GotTo(a, b, d + 1, k + 1) >= GotTo(a, b, d, k) + 1
           /\ k - 1 \in Diagonals(d + 1) /\ GotTo(a, b, d + 1, k - 1) >= GotTo(a, b, d, k)
<1>1. PICK e \in 1..(Len(a) + Len(b)) : e = d + 1 /\ e - 1 = d /\ d \in 0..(Len(a) + Len(b))
  OBVIOUS
<1>2. k \in Int /\ k + 1 \in Diagonals(e) /\ k - 1 \in Diagonals(e) /\ GotTo(a, b, d, k) \in Nat
  BY <1>1, DiagonalsLie, GotNat
<1>3. PICK l \in Int, r \in Int : l = k - 1 /\ r = k + 1 /\ l + 1 = k /\ r - 1 = k
  BY <1>2
<1>4. GotTo(a, b, e, r) >= GotTo(a, b, d, k) + 1
  <2>1. PICK x, s : StepFacts(a, b, e, r, x, s)
    BY <1>1, <1>2, <1>3, StepIs
  <2>2. x \in Nat /\ s \in Nat /\ GotTo(a, b, e, r) = x + s /\ GotTo(a, b, d, k) + 1 <= x
    BY <1>1, <1>3, <2>1 DEF StepFacts, SlideFacts
  <2> QED BY <1>2, <2>2
<1>5. GotTo(a, b, e, l) >= GotTo(a, b, d, k)
  <2>1. PICK x, s : StepFacts(a, b, e, l, x, s)
    BY <1>1, <1>2, <1>3, StepIs
  <2>2. x \in Nat /\ s \in Nat /\ GotTo(a, b, e, l) = x + s /\ GotTo(a, b, d, k) <= x
    BY <1>1, <1>3, <2>1 DEF StepFacts, SlideFacts
  <2> QED BY <1>2, <2>2
<1> QED BY <1>1, <1>2, <1>3, <1>4, <1>5

\* A place right of the program, or below it, is no nearer to the end than the
\* one before it.
RightRow(a, b, d) ==
    \A k \in Diagonals(d) : GotTo(a, b, d, k) > Len(a) =>
        d > 0 /\ k - 1 \in Diagonals(d - 1) /\ GotTo(a, b, d - 1, k - 1) >= GotTo(a, b, d, k) - 1
BelowRow(a, b, d) ==
    \A k \in Diagonals(d) : GotTo(a, b, d, k) - k > Len(b) =>
        d > 0 /\ k + 1 \in Diagonals(d - 1) /\ GotTo(a, b, d - 1, k + 1) >= GotTo(a, b, d, k)

LEMMA RightStep ==
    ASSUME NEW a, NEW b, Len(a) \in Nat, Len(b) \in Nat, NEW d \in 1..(Len(a) + Len(b)), RightRow(a, b, d - 1)
    PROVE  RightRow(a, b, d)
<1> SUFFICES ASSUME NEW k \in Diagonals(d), GotTo(a, b, d, k) > Len(a)
             PROVE  k - 1 \in Diagonals(d - 1) /\ GotTo(a, b, d - 1, k - 1) >= GotTo(a, b, d, k) - 1
  BY DEF RightRow
<1>1. PICK x, s : StepFacts(a, b, d, k, x, s)
  BY StepIs
<1>2. k \in Int /\ x \in Nat /\ s \in Nat /\ GotTo(a, b, d, k) = x + s
  BY <1>1, DiagonalsLie DEF StepFacts, SlideFacts
<1>3. s = 0 /\ GotTo(a, b, d, k) = x
  <2>1. ASSUME s > 0 PROVE FALSE
    <3>1. s \in 1..s
      BY <1>2, <2>1
    <3>2. x + s <= Len(a)
      BY <1>1, <3>1 DEF StepFacts, SlideFacts
    <3> QED BY <1>2, <3>2
  <2> QED BY <1>2, <2>1
<1>4. CASE k + 1 \in Diagonals(d - 1) /\ x = GotTo(a, b, d - 1, k + 1)
  <2>1. PICK r \in Int : r = k + 1 /\ r - 1 = k
    BY <1>2
  <2>2. d - 1 > 0 /\ r - 1 \in Diagonals(d - 1 - 1) /\ GotTo(a, b, d - 1 - 1, r - 1) >= x - 1
    BY <1>3, <1>4, <2>1 DEF RightRow
  <2>3. PICK c \in 0..(Len(a) + Len(b) - 1) : c = d - 1 - 1 /\ c + 1 = d - 1
    BY <2>2
  <2>4. k - 1 \in Diagonals(c + 1) /\ GotTo(a, b, c + 1, k - 1) >= GotTo(a, b, c, k)
    BY <2>1, <2>2, <2>3, NextIsFurther
  <2>5. PICK u \in Nat, v \in Nat : u = GotTo(a, b, c, k) /\ v = GotTo(a, b, c + 1, k - 1)
    <3>1. c + 1 \in 0..(Len(a) + Len(b)) /\ c \in 0..(Len(a) + Len(b))
      OBVIOUS
    <3> QED BY <2>1, <2>2, <2>3, <2>4, <3>1, GotNat
  <2> QED BY <1>2, <1>3, <2>1, <2>2, <2>3, <2>4, <2>5
<1>5. CASE k - 1 \in Diagonals(d - 1) /\ x = GotTo(a, b, d - 1, k - 1) + 1
  <2>1. d - 1 \in 0..(Len(a) + Len(b))
    OBVIOUS
  <2>2. GotTo(a, b, d - 1, k - 1) \in Nat
    BY <1>5, <2>1, GotNat
  <2> QED BY <1>3, <1>5, <2>2
<1>6. \/ k + 1 \in Diagonals(d - 1) /\ x = GotTo(a, b, d - 1, k + 1)
      \/ k - 1 \in Diagonals(d - 1) /\ x = GotTo(a, b, d - 1, k - 1) + 1
  BY <1>1 DEF StepFacts
<1> QED BY <1>4, <1>5, <1>6

LEMMA BelowStep ==
    ASSUME NEW a, NEW b, Len(a) \in Nat, Len(b) \in Nat, NEW d \in 1..(Len(a) + Len(b)), BelowRow(a, b, d - 1)
    PROVE  BelowRow(a, b, d)
<1> SUFFICES ASSUME NEW k \in Diagonals(d), GotTo(a, b, d, k) - k > Len(b)
             PROVE  k + 1 \in Diagonals(d - 1) /\ GotTo(a, b, d - 1, k + 1) >= GotTo(a, b, d, k)
  BY DEF BelowRow
<1>1. PICK x, s : StepFacts(a, b, d, k, x, s)
  BY StepIs
<1>2. k \in Int /\ x \in Nat /\ s \in Nat /\ GotTo(a, b, d, k) = x + s
  BY <1>1, DiagonalsLie DEF StepFacts, SlideFacts
<1>3. s = 0 /\ GotTo(a, b, d, k) = x
  <2>1. ASSUME s > 0 PROVE FALSE
    <3>1. s \in 1..s
      BY <1>2, <2>1
    <3>2. x - k + s <= Len(b)
      BY <1>1, <3>1 DEF StepFacts, SlideFacts
    <3> QED BY <1>2, <3>2
  <2> QED BY <1>2, <2>1
<1>4. CASE k + 1 \in Diagonals(d - 1) /\ x = GotTo(a, b, d - 1, k + 1)
  BY <1>2, <1>3, <1>4
<1>5. CASE k - 1 \in Diagonals(d - 1) /\ x = GotTo(a, b, d - 1, k - 1) + 1
  <2>1. PICK l \in Int : l = k - 1 /\ l + 1 = k
    BY <1>2
  <2>2. PICK w \in Nat : w = GotTo(a, b, d - 1, l) /\ x = w + 1 /\ w - l > Len(b)
    <3>1. d - 1 \in 0..(Len(a) + Len(b))
      OBVIOUS
    <3>2. GotTo(a, b, d - 1, l) \in Nat
      BY <1>5, <2>1, <3>1, GotNat
    <3> QED BY <1>2, <1>3, <1>5, <2>1, <3>2
  <2>3. d - 1 > 0 /\ l + 1 \in Diagonals(d - 1 - 1) /\ GotTo(a, b, d - 1 - 1, l + 1) >= w
    BY <1>5, <2>1, <2>2 DEF BelowRow
  <2>4. PICK c \in 0..(Len(a) + Len(b) - 1) : c = d - 1 - 1 /\ c + 1 = d - 1
    BY <2>3
  <2>5. k + 1 \in Diagonals(c + 1) /\ GotTo(a, b, c + 1, k + 1) >= GotTo(a, b, c, k) + 1
    BY <2>1, <2>3, <2>4, NextIsFurther
  <2>6. PICK u \in Nat, v \in Nat : u = GotTo(a, b, c, k) /\ v = GotTo(a, b, c + 1, k + 1)
    <3>1. c + 1 \in 0..(Len(a) + Len(b)) /\ c \in 0..(Len(a) + Len(b))
      OBVIOUS
    <3> QED BY <2>1, <2>3, <2>4, <2>5, <3>1, GotNat
  <2>7. u >= w
    BY <2>1, <2>3, <2>4, <2>6
  <2>8. v = GotTo(a, b, d - 1, k + 1) /\ k + 1 \in Diagonals(d - 1) /\ v >= u + 1
    BY <2>4, <2>5, <2>6
  <2>9. GotTo(a, b, d, k) = w + 1
    BY <1>3, <2>2
  <2> QED BY <2>2, <2>6, <2>7, <2>8, <2>9
<1>6. \/ k + 1 \in Diagonals(d - 1) /\ x = GotTo(a, b, d - 1, k + 1)
      \/ k - 1 \in Diagonals(d - 1) /\ x = GotTo(a, b, d - 1, k - 1) + 1
  BY <1>1 DEF StepFacts
<1> QED BY <1>4, <1>5, <1>6

LEMMA OutsideRows ==
    ASSUME NEW a, NEW b, Len(a) \in Nat, Len(b) \in Nat
    PROVE  \A d \in 0..(Len(a) + Len(b)) : RightRow(a, b, d) /\ BelowRow(a, b, d)
<1>1. PICK n \in Nat : n = Len(a) + Len(b)
  OBVIOUS
<1> DEFINE S == {d \in 0..n : RightRow(a, b, d) /\ BelowRow(a, b, d)}
<1>2. 0 \in S
  <2>1. PICK s \in Nat : GotTo(a, b, 0, 0) = s /\ \A j \in 1..s : 0 + j <= Len(a) /\ 0 + j <= Len(b)
    BY FirstGot DEF SlideFacts
  <2>2. s <= Len(a) /\ s <= Len(b)
    <3>1. s > 0 => s \in 1..s
      OBVIOUS
    <3> QED BY <2>1, <3>1
  <2>3. \A k \in Diagonals(0) : k = 0
    BY FirstDiagonal
  <2>4. \A k \in Diagonals(0) : GotTo(a, b, 0, k) <= Len(a) /\ GotTo(a, b, 0, k) - k <= Len(b) /\ GotTo(a, b, 0, k) - k \in Nat
    <3> SUFFICES ASSUME NEW k \in Diagonals(0)
                 PROVE  GotTo(a, b, 0, k) <= Len(a) /\ GotTo(a, b, 0, k) - k <= Len(b) /\ GotTo(a, b, 0, k) - k \in Nat
      OBVIOUS
    <3>1. k = 0
      BY <2>3
    <3> QED BY <2>1, <2>2, <3>1
  <2>5. \A k \in Diagonals(0) : GotTo(a, b, 0, k) \in Nat
    BY <2>1, <2>3
  <2>6. RightRow(a, b, 0) /\ BelowRow(a, b, 0)
    BY <2>4, <2>5 DEF RightRow, BelowRow
  <2> QED BY <2>6
<1>3. ASSUME NEW e \in 0..n, e \in S, e < n PROVE e + 1 \in S
  <2>1. PICK d \in 1..n : d = e + 1 /\ d - 1 = e
    BY <1>3
  <2>2. RightRow(a, b, d - 1) /\ BelowRow(a, b, d - 1)
    BY <1>3, <2>1
  <2>3. RightRow(a, b, d) /\ BelowRow(a, b, d)
    BY <1>1, <2>2, RightStep, BelowStep
  <2> QED BY <2>1, <2>3
<1>4. \A d \in 0..n : d \in S
  <2> HIDE DEF S
  <2> QED BY <1>2, <1>3, UpTo
<1> QED BY <1>1, <1>4

\* The first round that passes the end of both programs is at the end of both.
Passes(a, b, d) == Found(a, b, d, trace(a, b)[d + 1])

LEMMA PassesIs ==
    ASSUME NEW a, NEW b, NEW d
    PROVE  Passes(a, b, d) <=> \E k \in Diagonals(d) : GotTo(a, b, d, k) >= Len(a) /\ GotTo(a, b, d, k) - k >= Len(b)
  BY DEF Passes, Found, GotTo

LEMMA FirstPassEnds ==
    ASSUME NEW a, NEW b, Len(a) \in Nat, Len(b) \in Nat, NEW d \in 0..(Len(a) + Len(b)), Passes(a, b, d),
           \A e \in 0..(Len(a) + Len(b)) : Passes(a, b, e) => d <= e
    PROVE  Len(a) - Len(b) \in Diagonals(d) /\ GotTo(a, b, d, Len(a) - Len(b)) = Len(a)
<1>1. PICK k \in Diagonals(d) : GotTo(a, b, d, k) >= Len(a) /\ GotTo(a, b, d, k) - k >= Len(b)
  BY PassesIs
<1>2. PICK g \in Nat : g = GotTo(a, b, d, k) /\ g - k \in Nat /\ k \in Int /\ g >= Len(a) /\ g - k >= Len(b)
  BY <1>1, GotNat
<1>3. RightRow(a, b, d) /\ BelowRow(a, b, d)
  BY OutsideRows
<1>4. ASSUME g > Len(a) PROVE FALSE
  <2>1. d > 0 /\ k - 1 \in Diagonals(d - 1) /\ GotTo(a, b, d - 1, k - 1) >= g - 1
    BY <1>2, <1>3, <1>4 DEF RightRow
  <2>2. d - 1 \in 0..(Len(a) + Len(b))
    BY <2>1
  <2>3. PICK l \in Int, h \in Nat : l = k - 1 /\ h = GotTo(a, b, d - 1, l)
    BY <1>2, <2>1, <2>2, GotNat
  <2>4. h >= Len(a) /\ h - l >= Len(b)
    BY <1>2, <1>4, <2>1, <2>3
  <2>5. Passes(a, b, d - 1)
    BY <2>1, <2>3, <2>4, PassesIs
  <2> QED BY <2>2, <2>5
<1>5. ASSUME g - k > Len(b) PROVE FALSE
  <2>1. d > 0 /\ k + 1 \in Diagonals(d - 1) /\ GotTo(a, b, d - 1, k + 1) >= g
    BY <1>2, <1>3, <1>5 DEF BelowRow
  <2>2. d - 1 \in 0..(Len(a) + Len(b))
    BY <2>1
  <2>3. PICK r \in Int, h \in Nat : r = k + 1 /\ h = GotTo(a, b, d - 1, r)
    BY <1>2, <2>1, <2>2, GotNat
  <2>4. h >= Len(a) /\ h - r >= Len(b)
    BY <1>2, <1>5, <2>1, <2>3
  <2>5. Passes(a, b, d - 1)
    BY <2>1, <2>3, <2>4, PassesIs
  <2> QED BY <2>2, <2>5
<1>6. g = Len(a) /\ k = Len(a) - Len(b)
  BY <1>2, <1>4, <1>5
<1> QED BY <1>2, <1>6

\* Nothing is left to slide over where a round stops.
LEMMA RoundStops ==
    ASSUME NEW a, NEW b, Len(a) \in Nat, Len(b) \in Nat, NEW d \in 0..(Len(a) + Len(b)), NEW k \in Diagonals(d),
           NEW i \in Nat, NEW j \in Nat, GotTo(a, b, d, k) = i, k = i - j, i + 1 <= Len(a), j + 1 <= Len(b)
    PROVE  a[i + 1] # b[j + 1]
<1>1. PICK x, s, y : x + s = i /\ y + s = j /\ x \in Nat /\ y \in Int /\ SlideFacts(a, b, x, y, s)
  <2>1. CASE d > 0
    <3>1. d \in 1..(Len(a) + Len(b))
      BY <2>1
    <3>2. PICK x, s : StepFacts(a, b, d, k, x, s)
      BY <3>1, StepIs
    <3>3. PICK y \in Int : y = x - k
      BY <3>2 DEF StepFacts
    <3>4. x + s = i /\ x \in Nat /\ SlideFacts(a, b, x, y, s) /\ s \in Nat
      BY <3>2, <3>3 DEF StepFacts, SlideFacts
    <3>5. y + s = j
      BY <3>3, <3>4
    <3> QED BY <3>3, <3>4, <3>5
  <2>2. CASE ~(d > 0)
    <3>1. d = 0
      BY <2>2
    <3>2. k = 0
      BY <3>1, FirstDiagonal
    <3>3. PICK s : i = s /\ SlideFacts(a, b, 0, 0, s)
      BY <3>1, <3>2, FirstGot
    <3>4. 0 + s = i /\ 0 + s = j
      BY <3>2, <3>3
    <3> QED BY <3>3, <3>4
  <2> QED BY <2>1, <2>2
<1>2. s \in Nat /\ ~(x + s + 1 <= Len(a) /\ y + s + 1 <= Len(b) /\ a[x + s + 1] = b[y + s + 1])
  BY <1>1 DEF SlideFacts
<1>3. x + s + 1 = i + 1 /\ y + s + 1 = j + 1
  BY <1>1, <1>2
<1> QED BY <1>2, <1>3

\* Of two programs' common lines, those before i and j; the edits that are left
\* when they are kept suffice to get to i and j.
Before(P, i, j) == {p \in P : p[1] <= i /\ p[2] <= j}
Near(a, b, P, i, j) ==
    \E e \in 0..(i + j) : /\ e = i + j - 2 * Cardinality(Before(P, i, j))
                          /\ i - j \in Diagonals(e) /\ GotTo(a, b, e, i - j) >= i

LEMMA BeforeFinite ==
    ASSUME NEW a, NEW b, DOMAIN a = 1..Len(a), DOMAIN b = 1..Len(b), Len(a) \in Nat, Len(b) \in Nat,
           NEW P \in CommonLines(a, b)
    PROVE  /\ \A p \in P : /\ p[1] \in 1..Len(a) /\ p[2] \in 1..Len(b) /\ p = <<p[1], p[2]>> /\ a[p[1]] = b[p[2]]
           /\ \A p, q \in P : p[1] < q[1] <=> p[2] < q[2]
           /\ \A i, j : IsFiniteSet(Before(P, i, j)) /\ Cardinality(Before(P, i, j)) \in Nat
           /\ Before(P, Len(a), Len(b)) = P
<1>1. P \subseteq (1..Len(a)) \X (1..Len(b))
  BY DEF CommonLines
<1>2. \A p \in P : p[1] \in 1..Len(a) /\ p[2] \in 1..Len(b) /\ p = <<p[1], p[2]>> /\ a[p[1]] = b[p[2]]
  BY DEF CommonLines
<1>3. \A p, q \in P : p[1] < q[1] <=> p[2] < q[2]
  BY DEF CommonLines
<1>4. IsFiniteSet(P)
  <2>1. 1 \in Int /\ Len(a) \in Int /\ Len(b) \in Int
    OBVIOUS
  <2>2. IsFiniteSet(1..Len(a)) /\ IsFiniteSet(1..Len(b))
    BY <2>1, FS_Interval
  <2>3. IsFiniteSet((1..Len(a)) \X (1..Len(b)))
    BY <2>2, FS_Product
  <2> QED BY <1>1, <2>3, FS_Subset
<1>5. \A i, j : IsFiniteSet(Before(P, i, j)) /\ Cardinality(Before(P, i, j)) \in Nat
  <2> TAKE i, j
  <2>1. Before(P, i, j) \subseteq P
    BY DEF Before
  <2> QED BY <1>4, <2>1, FS_Subset, FS_CardinalityType
<1>6. Before(P, Len(a), Len(b)) = P
  BY <1>2 DEF Before
<1> QED BY <1>2, <1>3, <1>5, <1>6

LEMMA NearStep ==
    ASSUME NEW a, NEW b, DOMAIN a = 1..Len(a), DOMAIN b = 1..Len(b), Len(a) \in Nat, Len(b) \in Nat,
           NEW P \in CommonLines(a, b), NEW i \in 0..Len(a), NEW j \in 0..Len(b),
           i > 0 => Near(a, b, P, i - 1, j), j > 0 => Near(a, b, P, i, j - 1),
           i > 0 /\ j > 0 => Near(a, b, P, i - 1, j - 1)
    PROVE  Near(a, b, P, i, j)
<1> DEFINE n == Len(a) + Len(b)
<1>1. /\ \A p \in P : /\ p[1] \in 1..Len(a) /\ p[2] \in 1..Len(b) /\ p = <<p[1], p[2]>> /\ a[p[1]] = b[p[2]]
      /\ \A p, q \in P : p[1] < q[1] <=> p[2] < q[2]
  BY BeforeFinite
<1>2. \A u, v : IsFiniteSet(Before(P, u, v)) /\ Cardinality(Before(P, u, v)) \in Nat
  BY BeforeFinite
<1>3. PICK c \in Nat : c = Cardinality(Before(P, i, j))
  BY <1>2
<1>4. CASE i = 0 /\ j = 0
  <2>1. Before(P, i, j) = {}
    BY <1>1, <1>4 DEF Before
  <2>2. c = 0
    BY <1>3, <2>1, FS_EmptySet
  <2>3. PICK s \in Nat : GotTo(a, b, 0, 0) = s
    BY FirstGot DEF SlideFacts
  <2>4. 0 \in Diagonals(0)
    BY FirstDiagonal
  <2>5. 0 = i + j - 2 * c /\ i - j = 0 /\ 0 \in 0..(i + j)
    BY <1>4, <2>2
  <2>6. i - j \in Diagonals(0) /\ GotTo(a, b, 0, i - j) >= i
    BY <1>4, <2>3, <2>4, <2>5
  <2> QED BY <1>3, <2>5, <2>6 DEF Near
<1>5. CASE <<i, j>> \in P
  <2>1. i \in 1..Len(a) /\ j \in 1..Len(b) /\ a[i] = b[j]
    BY <1>1, <1>5
  <2>2. PICK u \in Nat, v \in Nat : u = i - 1 /\ v = j - 1 /\ u + 1 = i /\ v + 1 = j
    BY <2>1
  <2>3. Before(P, i, j) = Before(P, u, v) \cup {<<i, j>>}
    <3>1. ASSUME NEW p \in P, p[1] <= i, p[2] <= j, p # <<i, j>> PROVE p[1] <= u /\ p[2] <= v
      <4>1. p[1] \in Nat /\ p[2] \in Nat /\ p = <<p[1], p[2]>>
        BY <1>1, <3>1
      <4>2. (p[1] < i <=> p[2] < j) /\ (p[1] # i \/ p[2] # j)
        BY <1>1, <1>5, <3>1, <4>1
      <4> QED BY <2>2, <3>1, <4>1, <4>2
    <3>2. ASSUME NEW p \in P, p[1] <= u, p[2] <= v PROVE p[1] <= i /\ p[2] <= j
      <4>1. p[1] \in Nat /\ p[2] \in Nat
        BY <1>1, <3>2
      <4> QED BY <2>2, <3>2, <4>1
    <3>3. <<i, j>>[1] <= i /\ <<i, j>>[2] <= j
      OBVIOUS
    <3> QED BY <1>5, <3>1, <3>2, <3>3 DEF Before
  <2>4. <<i, j>> \notin Before(P, u, v)
    BY <2>2 DEF Before
  <2>5. PICK w \in Nat : w = Cardinality(Before(P, u, v)) /\ c = w + 1
    <3>1. PICK B : B = Before(P, u, v) /\ IsFiniteSet(B) /\ Cardinality(B) \in Nat
      BY <1>2
    <3>2. Cardinality(B \cup {<<i, j>>}) = Cardinality(B) + 1
      BY <2>4, <3>1, FS_AddElement
    <3> QED BY <1>3, <2>3, <3>1, <3>2
  <2>6. PICK e \in 0..(u + v) : e = u + v - 2 * w /\ u - v \in Diagonals(e) /\ GotTo(a, b, e, u - v) >= u
    BY <2>1, <2>2, <2>5 DEF Near
  <2>7. e \in 0..(i + j) /\ e = i + j - 2 * c /\ u - v = i - j /\ e \in 0..n
    <3>1. u + v = i + j - 2 /\ 2 * c = 2 * w + 2 /\ u - v = i - j
      BY <2>2, <2>5
    <3>2. PICK x \in Int, y \in Int : x = 2 * w /\ y = 2 * c /\ y = x + 2 /\ e = u + v - x
      BY <2>5, <2>6, <3>1
    <3>3. e = i + j - y
      BY <3>1, <3>2
    <3>4. e <= i + j /\ i + j <= n
      BY <2>6, <3>1
    <3> QED BY <3>1, <3>2, <3>3, <3>4
  <2>8. PICK g \in Nat : g = GotTo(a, b, e, u - v)
    BY <2>6, <2>7, GotNat
  <2>9. g # u
    <3>1. ASSUME g = u PROVE FALSE
      <4>1. PICK k \in Diagonals(e) : k = u - v /\ GotTo(a, b, e, k) = u
        BY <2>6, <2>8, <3>1
      <4>2. u + 1 <= Len(a) /\ v + 1 <= Len(b)
        BY <2>1, <2>2
      <4>3. a[u + 1] # b[v + 1]
        BY <2>7, <4>1, <4>2, RoundStops
      <4> QED BY <2>1, <2>2, <4>3
    <3> QED BY <3>1
  <2>10. i - j \in Diagonals(e) /\ GotTo(a, b, e, i - j) >= i
    BY <2>2, <2>6, <2>7, <2>8, <2>9
  <2> QED BY <1>3, <2>7, <2>10 DEF Near
<1>6. CASE i > 0 /\ ~ \E p \in P : p[1] = i /\ p[2] <= j
  <2>1. PICK u \in Nat : u = i - 1 /\ u + 1 = i
    BY <1>6
  <2>2. Before(P, i, j) = Before(P, u, j)
    BY <1>1, <1>6, <2>1 DEF Before
  <2>3. PICK e \in 0..(u + j) : e = u + j - 2 * c /\ u - j \in Diagonals(e) /\ GotTo(a, b, e, u - j) >= u
    BY <1>3, <1>6, <2>1, <2>2 DEF Near
  <2>4. PICK f \in 0..(i + j) : f = e + 1 /\ f = i + j - 2 * c /\ e \in 0..(n - 1) /\ e \in 0..n /\ f \in 0..n
    BY <2>1, <2>3
  <2>5. PICK k \in Int : k = u - j /\ k + 1 = i - j
    BY <2>1
  <2>6. k + 1 \in Diagonals(e + 1) /\ GotTo(a, b, e + 1, k + 1) >= GotTo(a, b, e, k) + 1
    BY <2>3, <2>4, <2>5, NextIsFurther
  <2>7. GotTo(a, b, e, k) \in Nat /\ GotTo(a, b, f, i - j) \in Nat
    BY <2>3, <2>4, <2>5, <2>6, GotNat
  <2>8. i - j \in Diagonals(f) /\ GotTo(a, b, f, i - j) >= i
    BY <2>1, <2>3, <2>4, <2>5, <2>6, <2>7
  <2> QED BY <1>3, <2>4, <2>8 DEF Near
<1>7. CASE j > 0 /\ ~ \E p \in P : p[2] = j /\ p[1] <= i
  <2>1. PICK v \in Nat : v = j - 1 /\ v + 1 = j
    BY <1>7
  <2>2. Before(P, i, j) = Before(P, i, v)
    BY <1>1, <1>7, <2>1 DEF Before
  <2>3. PICK e \in 0..(i + v) : e = i + v - 2 * c /\ i - v \in Diagonals(e) /\ GotTo(a, b, e, i - v) >= i
    BY <1>3, <1>7, <2>1, <2>2 DEF Near
  <2>4. PICK f \in 0..(i + j) : f = e + 1 /\ f = i + j - 2 * c /\ e \in 0..(n - 1) /\ e \in 0..n /\ f \in 0..n
    BY <2>1, <2>3
  <2>5. PICK k \in Int : k = i - v /\ k - 1 = i - j
    BY <2>1
  <2>6. k - 1 \in Diagonals(e + 1) /\ GotTo(a, b, e + 1, k - 1) >= GotTo(a, b, e, k)
    BY <2>3, <2>4, <2>5, NextIsFurther
  <2>7. GotTo(a, b, e, k) \in Nat /\ GotTo(a, b, f, i - j) \in Nat
    BY <2>3, <2>4, <2>5, <2>6, GotNat
  <2>8. i - j \in Diagonals(f) /\ GotTo(a, b, f, i - j) >= i
    BY <2>1, <2>3, <2>4, <2>5, <2>6, <2>7
  <2> QED BY <1>3, <2>4, <2>8 DEF Near
<1>8. \/ i = 0 /\ j = 0
      \/ <<i, j>> \in P
      \/ i > 0 /\ ~ \E p \in P : p[1] = i /\ p[2] <= j
      \/ j > 0 /\ ~ \E p \in P : p[2] = j /\ p[1] <= i
  <2>1. CASE i = 0 \/ j = 0
    BY <1>1, <2>1
  <2>2. ASSUME i > 0, j > 0, NEW p \in P, p[1] = i, p[2] <= j, NEW q \in P, q[2] = j, q[1] <= i, <<i, j>> \notin P
        PROVE FALSE
    <3>1. p[2] \in Nat /\ q[1] \in Nat /\ p[2] # j /\ q[1] # i
      BY <1>1, <2>2
    <3>2. q[1] < p[1] <=> q[2] < p[2]
      BY <1>1, <2>2
    <3> QED BY <2>2, <3>1, <3>2
  <2> QED BY <2>1, <2>2
<1> QED BY <1>4, <1>5, <1>6, <1>7, <1>8

LEMMA AllNear ==
    ASSUME NEW a, NEW b, DOMAIN a = 1..Len(a), DOMAIN b = 1..Len(b), Len(a) \in Nat, Len(b) \in Nat,
           NEW P \in CommonLines(a, b)
    PROVE  Near(a, b, P, Len(a), Len(b))
<1>1. PICK n \in Nat : n = Len(a) + Len(b)
  OBVIOUS
<1> DEFINE S == {t \in 0..n : \A i \in 0..Len(a), j \in 0..Len(b) : i + j <= t => Near(a, b, P, i, j)}
<1>2. 0 \in S
  <2> SUFFICES ASSUME NEW i \in 0..Len(a), NEW j \in 0..Len(b), i + j <= 0 PROVE Near(a, b, P, i, j)
    OBVIOUS
  <2>1. ~(i > 0) /\ ~(j > 0)
    OBVIOUS
  <2> QED BY <2>1, NearStep
<1>3. ASSUME NEW t \in 0..n, t \in S, t < n PROVE t + 1 \in S
  <2> SUFFICES ASSUME NEW i \in 0..Len(a), NEW j \in 0..Len(b), i + j <= t + 1 PROVE Near(a, b, P, i, j)
    BY <1>3
  <2>1. i > 0 => Near(a, b, P, i - 1, j)
    <3>1. i > 0 => i - 1 \in 0..Len(a) /\ i - 1 + j <= t
      OBVIOUS
    <3> QED BY <1>3, <3>1
  <2>2. j > 0 => Near(a, b, P, i, j - 1)
    <3>1. j > 0 => j - 1 \in 0..Len(b) /\ i + (j - 1) <= t
      OBVIOUS
    <3> QED BY <1>3, <3>1
  <2>3. i > 0 /\ j > 0 => Near(a, b, P, i - 1, j - 1)
    <3>1. i > 0 /\ j > 0 => i - 1 \in 0..Len(a) /\ j - 1 \in 0..Len(b) /\ i - 1 + (j - 1) <= t
      OBVIOUS
    <3> QED BY <1>3, <3>1
  <2> QED BY <2>1, <2>2, <2>3, NearStep
<1>4. n \in S
  <2> HIDE DEF S
  <2>1. \A t \in 0..n : t \in S
    BY <1>2, <1>3, UpTo
  <2>2. n \in 0..n
    OBVIOUS
  <2> QED BY <2>1, <2>2
<1>5. Len(a) \in 0..Len(a) /\ Len(b) \in 0..Len(b) /\ Len(a) + Len(b) <= n
  BY <1>1
<1> QED BY <1>4, <1>5

\* The rounds end, at the end of both programs, and with no more edits than any
\* choice of common lines leaves.
LEMMA RoundsEnd ==
    ASSUME NEW a, NEW b, DOMAIN a = 1..Len(a), DOMAIN b = 1..Len(b), Len(a) \in Nat, Len(b) \in Nat
    PROVE  /\ foundD(a, b) \in 0..(Len(a) + Len(b))
           /\ Len(a) - Len(b) \in Diagonals(foundD(a, b)) /\ GotTo(a, b, foundD(a, b), Len(a) - Len(b)) = Len(a)
           /\ \A P \in CommonLines(a, b) : foundD(a, b) <= Len(a) + Len(b) - 2 * Cardinality(P)
<1> DEFINE n == Len(a) + Len(b)
           T == {d \in 0..n : Passes(a, b, d)}
<1>1. foundD(a, b) = Min(T)
  BY DEF foundD, Passes
<1>2. ASSUME NEW P \in CommonLines(a, b) PROVE Len(a) + Len(b) - 2 * Cardinality(P) \in T
  <2>1. PICK e \in 0..(Len(a) + Len(b)) :
            /\ e = Len(a) + Len(b) - 2 * Cardinality(Before(P, Len(a), Len(b)))
            /\ Len(a) - Len(b) \in Diagonals(e) /\ GotTo(a, b, e, Len(a) - Len(b)) >= Len(a)
    BY AllNear DEF Near
  <2>2. Before(P, Len(a), Len(b)) = P
    BY BeforeFinite
  <2>3. PICK g \in Nat, k \in Int : k = Len(a) - Len(b) /\ g = GotTo(a, b, e, k)
    BY <2>1, GotNat
  <2>4. g >= Len(a) /\ g - k >= Len(b)
    BY <2>1, <2>3
  <2>5. Passes(a, b, e)
    BY <2>1, <2>3, <2>4, PassesIs
  <2> QED BY <2>1, <2>2, <2>5
<1>3. {} \in CommonLines(a, b)
  BY DEF CommonLines
<1>4. T \in SUBSET Nat /\ T # {}
  BY <1>2, <1>3
<1>5. PICK d \in T : d = foundD(a, b) /\ \A e \in T : d <= e
  <2> HIDE DEF T
  <2> QED BY <1>1, <1>4, LeastIs
<1>6. d \in 0..n /\ Passes(a, b, d) /\ \A e \in 0..n : Passes(a, b, e) => d <= e
  BY <1>5
<1>7. Len(a) - Len(b) \in Diagonals(d) /\ GotTo(a, b, d, Len(a) - Len(b)) = Len(a)
  BY <1>6, FirstPassEnds
<1>8. \A P \in CommonLines(a, b) : d <= Len(a) + Len(b) - 2 * Cardinality(P)
  <2> HIDE DEF T
  <2> QED BY <1>2, <1>5
<1> QED BY <1>5, <1>6, <1>7, <1>8

\* How many of the first operations of a script are of some types.
OpsOf(T) == [type : {"equal", "delete", "insert"}, before : T \cup {"none"}, after : T \cup {"none"}]

LEMMA UptoSteps ==
    ASSUME NEW ops, NEW types
    PROVE  /\ Upto(ops, 0, types) = 0
           /\ \A i \in Nat : Upto(ops, i, types) \in Nat /\ Upto(ops, i, types) <= i
           /\ \A i \in Nat \ {0} :
                 Upto(ops, i, types) = Upto(ops, i - 1, types) + (IF ops[i].type \in types THEN 1 ELSE 0)
<1> DEFINE C(i) == {j \in 1..i : ops[j].type \in types}
<1>1. ASSUME NEW i \in Nat PROVE IsFiniteSet(C(i)) /\ Cardinality(C(i)) \in Nat /\ Cardinality(C(i)) <= i
  <2>1. 1 \in Int /\ i \in Int
    OBVIOUS
  <2>2. IsFiniteSet(1..i) /\ Cardinality(1..i) = i
    <3>1. Cardinality(1..i) = IF 1 > i THEN 0 ELSE i - 1 + 1
      BY <2>1, FS_Interval
    <3> QED BY <2>1, <3>1, FS_Interval
  <2>3. C(i) \subseteq 1..i
    OBVIOUS
  <2>4. IsFiniteSet(C(i)) /\ Cardinality(C(i)) <= Cardinality(1..i)
    BY <2>2, <2>3, FS_Subset
  <2> QED BY <2>2, <2>4, FS_CardinalityType
<1>2. Cardinality(C(0)) = 0
  <2>1. C(0) = {}
    OBVIOUS
  <2> QED BY <2>1, FS_EmptySet
<1>3. ASSUME NEW i \in Nat \ {0}
      PROVE  Cardinality(C(i)) = Cardinality(C(i - 1)) + (IF ops[i].type \in types THEN 1 ELSE 0)
  <2>1. PICK h \in Nat : h = i - 1
    OBVIOUS
  <2>2. IsFiniteSet(C(h)) /\ i \notin C(h) /\ Cardinality(C(h)) \in Nat
    <3>1. i \notin C(h)
      BY <2>1
    <3> QED BY <1>1, <3>1
  <2>3. CASE ops[i].type \in types
    <3>1. C(i) = C(h) \cup {i}
      BY <2>1, <2>3
    <3>2. Cardinality(C(h) \cup {i}) = Cardinality(C(h)) + 1
      <4> HIDE DEF C
      <4> QED BY <2>2, FS_AddElement
    <3> HIDE DEF C
    <3> QED BY <2>1, <2>3, <3>1, <3>2
  <2>4. CASE ops[i].type \notin types
    <3>1. C(i) = C(h)
      BY <2>1, <2>4
    <3> HIDE DEF C
    <3> QED BY <2>1, <2>2, <2>4, <3>1
  <2> QED BY <2>3, <2>4
<1>4. \A i : Upto(ops, i, types) = Cardinality(C(i))
  BY DEF Upto
<1> HIDE DEF C
<1> QED BY <1>1, <1>2, <1>3, <1>4

LEMMA UptoNat ==
    ASSUME NEW ops, NEW types, NEW i \in Nat
    PROVE  Upto(ops, i, types) \in Nat
  BY UptoSteps

Joined(O, r, s, t) ==
    /\ r \in Seq(O) /\ Len(r) = Len(s) + Len(t) /\ Len(s) \in Nat /\ Len(t) \in Nat
    /\ \A i \in 1..Len(s) : r[i] = s[i] /\ i \in 1..Len(r)
    /\ \A i \in 1..Len(t) : r[Len(s) + i] = t[i] /\ Len(s) + i \in 1..Len(r)
    /\ \A i \in 1..Len(r) : i \in 1..Len(s) \/ \E j \in 1..Len(t) : i = Len(s) + j

LEMMA Appended ==
    ASSUME NEW O, NEW s \in Seq(O), NEW t \in Seq(O)
    PROVE  Joined(O, s \o t, s, t)
<1>1. s \o t \in Seq(O) /\ Len(s \o t) = Len(s) + Len(t) /\ Len(s) \in Nat /\ Len(t) \in Nat
  OBVIOUS
<1>2. ASSUME NEW i \in 1..Len(s) PROVE (s \o t)[i] = s[i] /\ i \in 1..Len(s \o t)
  BY <1>1
<1>3. ASSUME NEW i \in 1..Len(t) PROVE (s \o t)[Len(s) + i] = t[i] /\ Len(s) + i \in 1..Len(s \o t)
  BY <1>1
<1>4. ASSUME NEW i \in 1..Len(s \o t), i \notin 1..Len(s) PROVE \E j \in 1..Len(t) : i = Len(s) + j
  <2>1. i - Len(s) \in 1..Len(t) /\ i = Len(s) + (i - Len(s))
    BY <1>1, <1>4
  <2> QED BY <2>1
<1> QED BY <1>1, <1>2, <1>3, <1>4 DEF Joined

UptoAdds(r, s, t, types) ==
    /\ \A i \in 0..Len(s) : Upto(r, i, types) = Upto(s, i, types)
    /\ \A i \in 0..Len(t) : Upto(r, Len(s) + i, types) = Upto(s, Len(s), types) + Upto(t, i, types)

LEMMA UptoAppended ==
    ASSUME NEW O, NEW r, NEW s, NEW t, Joined(O, r, s, t), NEW types
    PROVE  UptoAdds(r, s, t, types)
<1>1. Joined(O, r, s, t) /\ Len(r) = Len(s) + Len(t) /\ Len(s) \in Nat /\ Len(t) \in Nat
  BY DEF Joined
<1>2. ASSUME NEW i \in 0..Len(s) PROVE Upto(r, i, types) = Upto(s, i, types)
  <2>1. \A j \in 1..i : r[j] = s[j]
    BY <1>1 DEF Joined
  <2>2. {j \in 1..i : r[j].type \in types} = {j \in 1..i : s[j].type \in types}
    BY <2>1
  <2> QED BY <2>2 DEF Upto
<1> DEFINE S == {i \in 0..Len(t) : Upto(r, Len(s) + i, types) = Upto(s, Len(s), types) + Upto(t, i, types)}
<1>3. 0 \in S
  <2>1. Upto(s, Len(s), types) \in Nat
    BY <1>1, UptoNat
  <2>2. Len(s) \in 0..Len(s) /\ Len(s) + 0 = Len(s) /\ Upto(s, Len(s), types) \in Nat
    BY <1>1, <2>1
  <2>3. Upto(r, Len(s) + 0, types) = Upto(s, Len(s), types)
    BY <2>2, <1>2
  <2>4. Upto(t, 0, types) = 0
    BY UptoSteps
  <2> QED BY <1>1, <2>2, <2>3, <2>4
<1>4. ASSUME NEW i \in 0..Len(t), i \in S, i < Len(t) PROVE i + 1 \in S
  <2>1. PICK j \in 1..Len(t), k \in 1..Len(r) : j = i + 1 /\ j - 1 = i /\ k = Len(s) + j /\ k - 1 = Len(s) + i
    <3>1. i + 1 \in 1..Len(t) /\ Len(s) + (i + 1) \in 1..Len(r)
      BY <1>1, <1>4
    <3> QED BY <1>1, <3>1
  <2>2. r[k] = t[j] /\ j \in Nat \ {0} /\ k \in Nat \ {0}
    BY <1>1, <2>1 DEF Joined
  <2>3. Upto(r, k, types) = Upto(r, k - 1, types) + (IF t[j].type \in types THEN 1 ELSE 0)
    BY <2>2, UptoSteps
  <2>4. Upto(t, j, types) = Upto(t, j - 1, types) + (IF t[j].type \in types THEN 1 ELSE 0)
    BY <2>2, UptoSteps
  <2>5. Upto(t, i, types) \in Nat /\ Upto(s, Len(s), types) \in Nat
    BY <1>1, UptoNat
  <2>6. PICK u \in Nat, v \in Nat, w \in Nat : /\ u = Upto(t, i, types) /\ v = Upto(s, Len(s), types)
                                              /\ w = IF t[j].type \in types THEN 1 ELSE 0
    BY <2>5
  <2>7. Upto(r, k, types) = (v + u) + w /\ Upto(t, j, types) = u + w
    BY <1>4, <2>1, <2>3, <2>4, <2>6
  <2>8. Upto(r, Len(s) + (i + 1), types) = Upto(s, Len(s), types) + Upto(t, i + 1, types)
    BY <2>1, <2>6, <2>7
  <2>9. i + 1 \in 0..Len(t)
    BY <2>1
  <2> QED BY <2>8, <2>9
<1>5. \A i \in 0..Len(t) : i \in S
  <2> HIDE DEF S
  <2> QED BY <1>1, <1>3, <1>4, UpTo
<1> QED BY <1>2, <1>5 DEF UptoAdds

\* A script that leads from one place in two programs to another.
Leads(a, b, T, ops, x, y, to, too, cost) ==
    /\ ops \in Seq(OpsOf(T)) /\ {x, y, to, too, cost} \subseteq Nat
    /\ x + Upto(ops, Len(ops), {"equal", "delete"}) = to
    /\ y + Upto(ops, Len(ops), {"equal", "insert"}) = too
    /\ Upto(ops, Len(ops), {"delete"}) + Upto(ops, Len(ops), {"insert"}) = cost
    /\ \A i \in 1..Len(ops) :
          /\ ops[i].type # "insert" => ops[i].before = a[x + Upto(ops, i, {"equal", "delete"})]
          /\ ops[i].type # "delete" => ops[i].after = b[y + Upto(ops, i, {"equal", "insert"})]
          /\ ops[i].type = "equal" => ops[i].before = ops[i].after

LEMMA LeadsOn ==
    ASSUME NEW a, NEW b, NEW T, NEW s, NEW t, NEW x, NEW y, NEW x1, NEW y1, NEW x2, NEW y2, NEW e, NEW f,
           Leads(a, b, T, s, x, y, x1, y1, e), Leads(a, b, T, t, x1, y1, x2, y2, f)
    PROVE  Leads(a, b, T, s \o t, x, y, x2, y2, e + f)
<1>1. /\ s \in Seq(OpsOf(T)) /\ t \in Seq(OpsOf(T)) /\ x \in Nat /\ y \in Nat /\ x1 \in Nat /\ y1 \in Nat
      /\ x2 \in Nat /\ y2 \in Nat /\ e \in Nat /\ f \in Nat
  BY DEF Leads
<1>2. PICK r : r = s \o t
  OBVIOUS
<1>3. Joined(OpsOf(T), r, s, t)
  BY <1>2, <1>1, Appended
<1>4. /\ r \in Seq(OpsOf(T)) /\ Len(r) = Len(s) + Len(t) /\ Len(s) \in Nat /\ Len(t) \in Nat
      /\ \A i \in 1..Len(s) : r[i] = s[i]
      /\ \A i \in 1..Len(t) : r[Len(s) + i] = t[i]
      /\ \A i \in 1..Len(r) : i \in 1..Len(s) \/ \E j \in 1..Len(t) : i = Len(s) + j
  BY <1>3 DEF Joined
<1>5. \A types : /\ \A i \in 0..Len(s) : Upto(r, i, types) = Upto(s, i, types)
                 /\ \A i \in 0..Len(t) : Upto(r, Len(s) + i, types) = Upto(s, Len(s), types) + Upto(t, i, types)
  <2>1. \A types : UptoAdds(r, s, t, types)
    BY <1>3, UptoAppended
  <2> QED BY <2>1 DEF UptoAdds
<1>6. \A types : Upto(r, Len(r), types) = Upto(s, Len(s), types) + Upto(t, Len(t), types)
  <2>1. Len(t) \in 0..Len(t) /\ Len(r) = Len(s) + Len(t)
    BY <1>4
  <2> QED BY <2>1, <1>5
<1>7. \A types : /\ \A i \in Nat : Upto(s, i, types) \in Nat
                 /\ \A i \in Nat : Upto(t, i, types) \in Nat
  BY UptoNat
<1>8. ASSUME NEW from \in Nat, NEW over \in Nat, NEW to \in Nat, NEW types,
             from + Upto(s, Len(s), types) = over, over + Upto(t, Len(t), types) = to
      PROVE  from + Upto(r, Len(r), types) = to
  <2>1. PICK u \in Nat, v \in Nat : u = Upto(s, Len(s), types) /\ v = Upto(t, Len(t), types)
    BY <1>4, <1>7
  <2>2. Upto(r, Len(r), types) = u + v
    BY <1>6, <2>1
  <2> QED BY <1>8, <2>1, <2>2
<1>9. x + Upto(r, Len(r), {"equal", "delete"}) = x2 /\ y + Upto(r, Len(r), {"equal", "insert"}) = y2
  BY <1>1, <1>8 DEF Leads
<1>10. Upto(r, Len(r), {"delete"}) + Upto(r, Len(r), {"insert"}) = e + f
  <2>1. PICK u \in Nat, v \in Nat, w \in Nat, z \in Nat :
            /\ u = Upto(s, Len(s), {"delete"}) /\ v = Upto(t, Len(t), {"delete"})
            /\ w = Upto(s, Len(s), {"insert"}) /\ z = Upto(t, Len(t), {"insert"})
    BY <1>4, <1>7
  <2>2. Upto(r, Len(r), {"delete"}) = u + v /\ Upto(r, Len(r), {"insert"}) = w + z
    BY <1>6, <2>1
  <2>3. u + w = e /\ v + z = f
    BY <2>1 DEF Leads
  <2> QED BY <2>2, <2>3
<1>11. ASSUME NEW i \in 1..Len(r)
      PROVE  /\ r[i].type # "insert" => r[i].before = a[x + Upto(r, i, {"equal", "delete"})]
             /\ r[i].type # "delete" => r[i].after = b[y + Upto(r, i, {"equal", "insert"})]
             /\ r[i].type = "equal" => r[i].before = r[i].after
  <2>1. CASE i \in 1..Len(s)
    <3>1. r[i] = s[i] /\ i \in 0..Len(s)
      BY <1>4, <2>1
    <3>2. \A types : Upto(r, i, types) = Upto(s, i, types)
      BY <1>5, <3>1
    <3> QED BY <2>1, <3>1, <3>2 DEF Leads
  <2>2. ASSUME NEW j \in 1..Len(t), i = Len(s) + j
        PROVE  /\ r[i].type # "insert" => r[i].before = a[x + Upto(r, i, {"equal", "delete"})]
               /\ r[i].type # "delete" => r[i].after = b[y + Upto(r, i, {"equal", "insert"})]
               /\ r[i].type = "equal" => r[i].before = r[i].after
    <3>1. r[i] = t[j] /\ j \in 0..Len(t) /\ j \in Nat
      <4>1. r[i] = t[j]
        BY <1>4, <2>2
      <4>2. Len(t) \in Nat
        BY <1>4
      <4>3. j \in 0..Len(t) /\ j \in Nat
        BY <4>2
      <4> QED BY <4>1, <4>3
    <3>2. \A types : Upto(r, i, types) = Upto(s, Len(s), types) + Upto(t, j, types)
      BY <1>5, <2>2, <3>1
    <3>3. x + Upto(r, i, {"equal", "delete"}) = x1 + Upto(t, j, {"equal", "delete"})
      <4>1. PICK u \in Nat, v \in Nat : u = Upto(s, Len(s), {"equal", "delete"}) /\ v = Upto(t, j, {"equal", "delete"})
        BY <1>4, <1>7, <3>1
      <4>2. x + u = x1 /\ Upto(r, i, {"equal", "delete"}) = u + v
        BY <3>2, <4>1 DEF Leads
      <4> QED BY <1>1, <4>1, <4>2
    <3>4. y + Upto(r, i, {"equal", "insert"}) = y1 + Upto(t, j, {"equal", "insert"})
      <4>1. PICK u \in Nat, v \in Nat : u = Upto(s, Len(s), {"equal", "insert"}) /\ v = Upto(t, j, {"equal", "insert"})
        BY <1>4, <1>7, <3>1
      <4>2. y + u = y1 /\ Upto(r, i, {"equal", "insert"}) = u + v
        BY <3>2, <4>1 DEF Leads
      <4> QED BY <1>1, <4>1, <4>2
    <3> QED BY <2>2, <3>1, <3>3, <3>4 DEF Leads
  <2> QED BY <1>4, <2>1, <2>2
<1>12. e + f \in Nat
  BY <1>1
<1>13. Leads(a, b, T, r, x, y, x2, y2, e + f)
  <2>1. r \in Seq(OpsOf(T)) /\ {x, y, x2, y2, e + f} \subseteq Nat
    BY <1>1, <1>4, <1>12
  <2> QED BY <2>1, <1>9, <1>10, <1>11 DEF Leads
<1> QED BY <1>2, <1>13

\* Equal lines, and one edit, lead on by what they are.
LEMMA UptoAll ==
    ASSUME NEW ops, NEW types, NEW n \in Nat, \A i \in 1..n : ops[i].type \in types
    PROVE  \A i \in 0..n : Upto(ops, i, types) = i
<1> DEFINE S == {i \in 0..n : Upto(ops, i, types) = i}
<1>1. 0 \in S
  BY UptoSteps
<1>2. ASSUME NEW i \in 0..n, i \in S, i < n PROVE i + 1 \in S
  <2>1. PICK j \in 1..n : j = i + 1 /\ j - 1 = i /\ j \in Nat \ {0}
    BY <1>2
  <2>2. Upto(ops, j, types) = Upto(ops, j - 1, types) + (IF ops[j].type \in types THEN 1 ELSE 0)
    BY <2>1, UptoSteps
  <2>3. Upto(ops, j, types) = i + 1
    BY <1>2, <2>1, <2>2
  <2> QED BY <2>1, <2>3
<1>3. \A i \in 0..n : i \in S
  <2> HIDE DEF S
  <2> QED BY <1>1, <1>2, UpTo
<1> QED BY <1>3

LEMMA UptoNone ==
    ASSUME NEW ops, NEW types, NEW n \in Nat, \A i \in 1..n : ops[i].type \notin types
    PROVE  Upto(ops, n, types) = 0
<1>1. {i \in 1..n : ops[i].type \in types} = {}
  OBVIOUS
<1> QED BY <1>1, FS_EmptySet DEF Upto

LEMMA ListIsSeq ==
    ASSUME NEW O, NEW n \in Nat, NEW f \in [1..n -> O]
    PROVE  f \in Seq(O) /\ Len(f) = n
  OBVIOUS

LEMMA EqualsLead ==
    ASSUME NEW T, NEW a \in Seq(T), NEW b \in Seq(T), NEW x \in Nat, NEW y \in Nat, NEW n \in Nat,
           \A j \in 1..n : x + j <= Len(a) /\ y + j <= Len(b) /\ a[x + j] = b[y + j]
    PROVE  Leads(a, b, T, Equals(a, b, x, y, n), x, y, x + n, y + n, 0)
<1>1. PICK ops : ops = Equals(a, b, x, y, n)
  OBVIOUS
<1>2. ops = [i \in 1..n |-> [type |-> "equal", before |-> a[x + i], after |-> b[y + i]]]
  BY <1>1 DEF Equals, Op
<1>3. ops \in Seq(OpsOf(T)) /\ Len(ops) = n
  <2>1. ASSUME NEW i \in 1..n PROVE [type |-> "equal", before |-> a[x + i], after |-> b[y + i]] \in OpsOf(T)
    <3>1. x + i \in 1..Len(a) /\ y + i \in 1..Len(b)
      OBVIOUS
    <3>2. a[x + i] \in T /\ b[y + i] \in T
      BY <3>1
    <3> QED BY <3>2 DEF OpsOf
  <2>2. \A i \in 1..n : ops[i] \in OpsOf(T)
    BY <1>2, <2>1
  <2>3. DOMAIN ops = 1..n /\ ops = [i \in 1..n |-> ops[i]]
    BY <1>2
  <2>4. ops \in [1..n -> OpsOf(T)]
    BY <2>2, <2>3
  <2> QED BY <2>4, ListIsSeq
<1>4. \A i \in 1..n : ops[i].type = "equal" /\ ops[i].before = a[x + i] /\ ops[i].after = b[y + i]
  BY <1>2
<1>5. \A i \in 0..n : Upto(ops, i, {"equal", "delete"}) = i /\ Upto(ops, i, {"equal", "insert"}) = i
  <2>1. \A i \in 1..n : ops[i].type \in {"equal", "delete"} /\ ops[i].type \in {"equal", "insert"}
    BY <1>4
  <2> QED BY <2>1, UptoAll
<1>6. Upto(ops, n, {"delete"}) = 0 /\ Upto(ops, n, {"insert"}) = 0
  <2>1. \A i \in 1..n : ops[i].type \notin {"delete"} /\ ops[i].type \notin {"insert"}
    BY <1>4
  <2> QED BY <2>1, UptoNone
<1>7. n \in 0..n /\ \A i \in 1..n : i \in 0..n
  OBVIOUS
<1>8. ASSUME NEW i \in 1..Len(ops)
      PROVE  /\ ops[i].type # "insert" => ops[i].before = a[x + Upto(ops, i, {"equal", "delete"})]
             /\ ops[i].type # "delete" => ops[i].after = b[y + Upto(ops, i, {"equal", "insert"})]
             /\ ops[i].type = "equal" => ops[i].before = ops[i].after
  BY <1>3, <1>4, <1>5, <1>7
<1>9. x + Upto(ops, Len(ops), {"equal", "delete"}) = x + n /\ y + Upto(ops, Len(ops), {"equal", "insert"}) = y + n
  BY <1>3, <1>5, <1>7
<1>10. Upto(ops, Len(ops), {"delete"}) + Upto(ops, Len(ops), {"insert"}) = 0
  BY <1>3, <1>6
<1>11. {x, y, x + n, y + n, 0} \subseteq Nat
  OBVIOUS
<1>12. Leads(a, b, T, ops, x, y, x + n, y + n, 0)
  BY <1>3, <1>8, <1>9, <1>10, <1>11 DEF Leads
<1> QED BY <1>1, <1>12

LEMMA UptoOne ==
    ASSUME NEW ops, NEW types
    PROVE  Upto(ops, 1, types) = IF ops[1].type \in types THEN 1 ELSE 0
<1>1. PICK i \in Nat \ {0} : i = 1 /\ i - 1 = 0
  OBVIOUS
<1>2. Upto(ops, i, types) = Upto(ops, i - 1, types) + (IF ops[i].type \in types THEN 1 ELSE 0)
  BY UptoSteps
<1>3. Upto(ops, 0, types) = 0
  BY UptoSteps
<1> QED BY <1>1, <1>2, <1>3

LEMMA InsertLeads ==
    ASSUME NEW T, NEW a \in Seq(T), NEW b \in Seq(T), NEW x \in Nat, NEW y \in Nat, y + 1 <= Len(b)
    PROVE  Leads(a, b, T, <<Op("insert", "none", b[y + 1])>>, x, y, x, y + 1, 1)
<1>1. PICK op : op = Op("insert", "none", b[y + 1])
  OBVIOUS
<1>2. op.type = "insert" /\ op.after = b[y + 1] /\ op \in OpsOf(T)
  <2>1. b[y + 1] \in T
    OBVIOUS
  <2> QED BY <1>1, <2>1 DEF Op, OpsOf
<1>3. PICK ops : ops = <<op>>
  OBVIOUS
<1>4. ops \in Seq(OpsOf(T)) /\ Len(ops) = 1 /\ ops[1] = op
  BY <1>2, <1>3
<1>5. /\ Upto(ops, 1, {"equal", "delete"}) = 0 /\ Upto(ops, 1, {"equal", "insert"}) = 1
      /\ Upto(ops, 1, {"delete"}) = 0 /\ Upto(ops, 1, {"insert"}) = 1
  BY <1>2, <1>4, UptoOne
<1>6. ASSUME NEW i \in 1..Len(ops)
      PROVE  /\ ops[i].type # "insert" => ops[i].before = a[x + Upto(ops, i, {"equal", "delete"})]
             /\ ops[i].type # "delete" => ops[i].after = b[y + Upto(ops, i, {"equal", "insert"})]
             /\ ops[i].type = "equal" => ops[i].before = ops[i].after
  <2>1. i = 1
    BY <1>4
  <2> QED BY <1>2, <1>4, <1>5, <2>1
<1>7. {x, y, x, y + 1, 1} \subseteq Nat
  OBVIOUS
<1>8. x + 0 = x /\ 0 + 1 = 1
  OBVIOUS
<1> QED BY <1>1, <1>3, <1>4, <1>5, <1>6, <1>7, <1>8 DEF Leads

LEMMA DeleteLeads ==
    ASSUME NEW T, NEW a \in Seq(T), NEW b \in Seq(T), NEW x \in Nat, NEW y \in Nat, x + 1 <= Len(a)
    PROVE  Leads(a, b, T, <<Op("delete", a[x + 1], "none")>>, x, y, x + 1, y, 1)
<1>1. PICK op : op = Op("delete", a[x + 1], "none")
  OBVIOUS
<1>2. op.type = "delete" /\ op.before = a[x + 1] /\ op \in OpsOf(T)
  <2>1. a[x + 1] \in T
    OBVIOUS
  <2> QED BY <1>1, <2>1 DEF Op, OpsOf
<1>3. PICK ops : ops = <<op>>
  OBVIOUS
<1>4. ops \in Seq(OpsOf(T)) /\ Len(ops) = 1 /\ ops[1] = op
  BY <1>2, <1>3
<1>5. /\ Upto(ops, 1, {"equal", "delete"}) = 1 /\ Upto(ops, 1, {"equal", "insert"}) = 0
      /\ Upto(ops, 1, {"delete"}) = 1 /\ Upto(ops, 1, {"insert"}) = 0
  BY <1>2, <1>4, UptoOne
<1>6. ASSUME NEW i \in 1..Len(ops)
      PROVE  /\ ops[i].type # "insert" => ops[i].before = a[x + Upto(ops, i, {"equal", "delete"})]
             /\ ops[i].type # "delete" => ops[i].after = b[y + Upto(ops, i, {"equal", "insert"})]
             /\ ops[i].type = "equal" => ops[i].before = ops[i].after
  <2>1. i = 1
    BY <1>4
  <2> QED BY <1>2, <1>4, <1>5, <2>1
<1>7. {x, y, x + 1, y, 1} \subseteq Nat
  OBVIOUS
<1>8. y + 0 = y /\ 1 + 0 = 1
  OBVIOUS
<1> QED BY <1>1, <1>3, <1>4, <1>5, <1>6, <1>7, <1>8 DEF Leads

\* The walk back is, round by round, where the rounds have been, and the script
\* leads on from there.
BackAt(a, b, T, d, s, cost) ==
    /\ s.x \in Nat /\ s.y \in Nat /\ s.x <= Len(a) /\ s.y <= Len(b)
    /\ s.x - s.y \in Diagonals(d) /\ GotTo(a, b, d, s.x - s.y) = s.x
    /\ Leads(a, b, T, s.ops, s.x, s.y, Len(a), Len(b), cost)

\* What a round is walked back with, and what the walk gives.
BackFrom(a, b, v, d, s, x, y, px, py, n, edit) ==
    /\ Further(v, d, s.x - s.y) = px - py /\ v[px - py] = px /\ py = px - (px - py)
    /\ n = Min({s.x - px, s.y - py}) /\ s.x - n = x /\ s.y - n = y
    /\ edit = IF x = px THEN Op("insert", "none", b[py + 1]) ELSE Op("delete", a[px + 1], "none")
BackTo(r, a, b, s, x, y, px, py, n, edit) ==
    r.x = px /\ r.y = py /\ r.ops = <<edit>> \o Equals(a, b, x, y, n) \o s.ops

LEMMA BackOneIs ==
    ASSUME NEW a, NEW b, NEW v, NEW d, NEW s, NEW x, NEW y, NEW px, NEW py, NEW n, NEW edit,
           BackFrom(a, b, v, d, s, x, y, px, py, n, edit)
    PROVE  BackTo(BackOne(a, b, v, d, s), a, b, s, x, y, px, py, n, edit)
<1>1. PICK pk : pk = px - py
  OBVIOUS
<1>2. Further(v, d, s.x - s.y) = pk /\ v[pk] = px /\ px - pk = py
  BY <1>1 DEF BackFrom
<1>3. n = Min({s.x - px, s.y - py}) /\ s.x - n = x /\ s.y - n = y
  BY DEF BackFrom
<1>4. edit = IF s.x - n = px THEN Op("insert", "none", b[py + 1]) ELSE Op("delete", a[px + 1], "none")
  BY <1>3 DEF BackFrom
<1>5. PICK ops : ops = <<edit>> \o Equals(a, b, s.x - n, s.y - n, n) \o s.ops
  OBVIOUS
<1>6. BackOne(a, b, v, d, s) = [x |-> px, y |-> py, ops |-> ops]
  BY <1>2, <1>3, <1>4, <1>5 DEF BackOne
<1>7. ops = <<edit>> \o Equals(a, b, x, y, n) \o s.ops
  BY <1>3, <1>5
<1>8. PICK r : r = BackOne(a, b, v, d, s)
  OBVIOUS
<1>9. r.x = px /\ r.y = py /\ r.ops = ops
  BY <1>6, <1>8
<1>10. BackTo(r, a, b, s, x, y, px, py, n, edit)
  BY <1>7, <1>9 DEF BackTo
<1> QED BY <1>8, <1>10

LEMMA MinOfTwo ==
    ASSUME NEW x \in Int, NEW y \in Int, x <= y
    PROVE  Min({x, y}) = x /\ Min({y, x}) = x
<1>1. \E z \in {x, y} : \A w \in {x, y} : z <= w
  OBVIOUS
<1>2. Min({x, y}) \in {x, y} /\ \A w \in {x, y} : Min({x, y}) <= w
  BY <1>1 DEF Min
<1>3. {x, y} = {y, x}
  OBVIOUS
<1> QED BY <1>2, <1>3

LEMMA SlideLeads ==
    ASSUME NEW T, NEW a \in Seq(T), NEW b \in Seq(T), NEW x \in Nat, NEW y \in Nat, NEW n \in Nat, NEW edit,
           NEW px, NEW py, NEW ops, NEW e, NEW X, NEW Y,
           \A j \in 1..n : x + j <= Len(a) /\ y + j <= Len(b) /\ a[x + j] = b[y + j], X = x + n, Y = y + n,
           Leads(a, b, T, <<edit>>, px, py, x, y, 1), Leads(a, b, T, ops, X, Y, Len(a), Len(b), e)
    PROVE  Leads(a, b, T, <<edit>> \o Equals(a, b, x, y, n) \o ops, px, py, Len(a), Len(b), e + 1)
<1>1. Leads(a, b, T, Equals(a, b, x, y, n), x, y, X, Y, 0)
  BY EqualsLead
<1>2. Leads(a, b, T, <<edit>> \o Equals(a, b, x, y, n), px, py, X, Y, 1 + 0)
  BY <1>1, LeadsOn
<1>3. Leads(a, b, T, <<edit>> \o Equals(a, b, x, y, n) \o ops, px, py, Len(a), Len(b), 1 + 0 + e)
  BY <1>2, LeadsOn
<1>4. e \in Nat
  BY DEF Leads
<1>5. 1 + 0 + e = e + 1
  BY <1>4
<1> QED BY <1>3, <1>5

LEMMA BackStep ==
    ASSUME NEW T, NEW a \in Seq(T), NEW b \in Seq(T), NEW d \in 1..(Len(a) + Len(b)), NEW s, NEW e,
           BackAt(a, b, T, d, s, e)
    PROVE  BackAt(a, b, T, d - 1, BackOne(a, b, trace(a, b)[d], d, s), e + 1)
<1>1. Len(a) \in Nat /\ Len(b) \in Nat
  OBVIOUS
<1>2. PICK X \in Nat, Y \in Nat, k \in Int :
          /\ X = s.x /\ Y = s.y /\ k = X - Y /\ X <= Len(a) /\ Y <= Len(b)
          /\ k \in Diagonals(d) /\ GotTo(a, b, d, k) = X /\ Leads(a, b, T, s.ops, X, Y, Len(a), Len(b), e)
  BY DEF BackAt
<1>3. PICK x, n : StepFacts(a, b, d, k, x, n)
  BY <1>1, <1>2, StepIs
<1>4. PICK y \in Nat : y = x - k
  BY <1>3 DEF StepFacts
<1>5. x \in Nat /\ n \in Nat /\ X = x + n /\ \A j \in 1..n : x + j <= Len(a) /\ y + j <= Len(b) /\ a[x + j] = b[y + j]
  BY <1>2, <1>3, <1>4 DEF StepFacts, SlideFacts
<1>6. Y = y + n /\ X - n = x /\ Y - n = y /\ x <= Len(a) /\ y <= Len(b)
  <2>1. Y = X - k
    BY <1>2
  <2>2. Y = y + n
    BY <2>1, <1>4, <1>5
  <2>3. X - n = x /\ Y - n = y
    BY <2>2, <1>5
  <2> QED BY <1>2, <1>5, <2>2, <2>3
<1>7. PICK v : v = trace(a, b)[d]
  OBVIOUS
<1>8. \A j : v[j] = GotTo(a, b, d - 1, j)
  <2>1. d - 1 + 1 = d
    OBVIOUS
  <2> QED BY <1>7, <2>1 DEF GotTo
<1>9. d - 1 \in 0..(Len(a) + Len(b))
  OBVIOUS
<1>10. PICK r : r = BackOne(a, b, v, d, s)
  OBVIOUS
<1>11. CASE Further(v, d, k) = k + 1 /\ k + 1 \in Diagonals(d - 1) /\ x = GotTo(a, b, d - 1, k + 1)
  <2>1. PICK pk \in Int, py \in Int : pk = k + 1 /\ py = x - pk /\ py + 1 = y
    <3>1. k \in Int /\ x \in Nat /\ y = x - k
      BY <1>2, <1>4, <1>5
    <3>2. k + 1 \in Int /\ x - (k + 1) \in Int /\ x - (k + 1) + 1 = y
      BY <3>1
    <3> QED BY <3>2
  <2>2. v[pk] = x /\ py \in Nat
    BY <1>1, <1>8, <1>9, <1>11, <2>1, GotNat
  <2>3. n = Min({X - x, Y - py})
    <3>1. X - x = n /\ Y - py = n + 1 /\ n <= n + 1
      BY <1>5, <1>6, <2>1
    <3> QED BY <1>5, <3>1, MinOfTwo
  <2>4. PICK edit : edit = Op("insert", "none", b[py + 1])
    OBVIOUS
  <2>5. /\ r.x = x /\ r.y = py
        /\ r.ops = <<edit>> \o Equals(a, b, x, y, n) \o s.ops
    <3>1. Further(v, d, s.x - s.y) = x - py /\ v[x - py] = x /\ py = x - (x - py)
      <4>1. x - py = pk
        BY <1>5, <2>1
      <4> QED BY <1>2, <1>11, <2>1, <2>2, <4>1
    <3>2. BackFrom(a, b, v, d, s, x, y, x, py, n, edit)
      BY <1>2, <1>6, <2>3, <2>4, <3>1 DEF BackFrom
    <3>3. BackTo(BackOne(a, b, v, d, s), a, b, s, x, y, x, py, n, edit)
      BY <3>2, BackOneIs
    <3> QED BY <1>10, <3>3 DEF BackTo
  <2>6. Leads(a, b, T, <<edit>>, x, py, x, y, 1)
    <3>1. py + 1 <= Len(b)
      BY <1>6, <2>1
    <3> QED BY <1>5, <2>1, <2>2, <2>4, <3>1, InsertLeads
  <2>7. Leads(a, b, T, <<edit>> \o Equals(a, b, x, y, n) \o s.ops, x, py, Len(a), Len(b), e + 1)
    BY <1>2, <1>5, <1>6, <2>6, SlideLeads
  <2>8. x - py = pk /\ py <= Len(b)
    <3>1. x - py = pk
      BY <1>5, <2>1
    <3> QED BY <1>6, <2>1, <3>1
  <2>9. BackAt(a, b, T, d - 1, r, e + 1)
    BY <1>5, <1>6, <1>11, <2>1, <2>2, <2>5, <2>7, <2>8 DEF BackAt
  <2> QED BY <1>7, <1>10, <2>9
<1>12. CASE Further(v, d, k) = k - 1 /\ k - 1 \in Diagonals(d - 1) /\ x = GotTo(a, b, d - 1, k - 1) + 1
  <2>1. PICK pk \in Int, px \in Nat : pk = k - 1 /\ px = GotTo(a, b, d - 1, pk) /\ px + 1 = x /\ px - pk \in Nat
    BY <1>1, <1>2, <1>9, <1>12, GotNat
  <2>2. v[pk] = px /\ px - pk = y
    BY <1>4, <1>5, <1>8, <2>1
  <2>3. n = Min({X - px, Y - y})
    <3>1. X - px = n + 1 /\ Y - y = n /\ n <= n + 1
      BY <1>5, <1>6, <2>1
    <3> QED BY <1>5, <3>1, MinOfTwo
  <2>4. X - n # px
    BY <1>5, <1>6, <2>1
  <2>5. PICK edit : edit = Op("delete", a[px + 1], "none")
    OBVIOUS
  <2>6. /\ r.x = px /\ r.y = y
        /\ r.ops = <<edit>> \o Equals(a, b, x, y, n) \o s.ops
    <3>1. edit = IF x = px THEN Op("insert", "none", b[y + 1]) ELSE Op("delete", a[px + 1], "none")
      BY <1>6, <2>4, <2>5
    <3>2. Further(v, d, s.x - s.y) = px - y /\ v[px - y] = px /\ y = px - (px - y)
      <4>1. px - y = pk
        BY <2>1, <2>2
      <4> QED BY <1>2, <1>12, <2>1, <2>2, <4>1
    <3>3. BackFrom(a, b, v, d, s, x, y, px, y, n, edit)
      BY <1>2, <1>6, <2>3, <3>1, <3>2 DEF BackFrom
    <3>4. BackTo(BackOne(a, b, v, d, s), a, b, s, x, y, px, y, n, edit)
      BY <3>3, BackOneIs
    <3> QED BY <1>10, <3>4 DEF BackTo
  <2>7. Leads(a, b, T, <<edit>>, px, y, x, y, 1)
    <3>1. px + 1 <= Len(a)
      BY <1>6, <2>1
    <3> QED BY <1>4, <2>1, <2>5, <3>1, DeleteLeads
  <2>8. Leads(a, b, T, <<edit>> \o Equals(a, b, x, y, n) \o s.ops, px, y, Len(a), Len(b), e + 1)
    BY <1>2, <1>5, <1>6, <2>7, SlideLeads
  <2>9. px - y = pk /\ px <= Len(a)
    <3>1. px - y = pk
      BY <2>1, <2>2
    <3> QED BY <1>6, <2>1, <3>1
  <2>10. BackAt(a, b, T, d - 1, r, e + 1)
    BY <1>4, <1>6, <1>12, <2>1, <2>6, <2>8, <2>9 DEF BackAt
  <2> QED BY <1>7, <1>10, <2>10
<1>13. \/ Further(v, d, k) = k + 1 /\ k + 1 \in Diagonals(d - 1) /\ x = GotTo(a, b, d - 1, k + 1)
       \/ Further(v, d, k) = k - 1 /\ k - 1 \in Diagonals(d - 1) /\ x = GotTo(a, b, d - 1, k - 1) + 1
  BY <1>3, <1>7 DEF StepFacts
<1> QED BY <1>11, <1>12, <1>13

LEMMA WalkedBack ==
    ASSUME NEW T, NEW a \in Seq(T), NEW b \in Seq(T)
    PROVE  \A i \in 0..foundD(a, b) :
              BackAt(a, b, T, foundD(a, b) - i, WalkBack(a, b, foundD(a, b))[i], i)
<1>1. Len(a) \in Nat /\ Len(b) \in Nat /\ DOMAIN a = 1..Len(a) /\ DOMAIN b = 1..Len(b)
  OBVIOUS
<1>2. PICK D \in 0..(Len(a) + Len(b)) :
          D = foundD(a, b) /\ Len(a) - Len(b) \in Diagonals(D) /\ GotTo(a, b, D, Len(a) - Len(b)) = Len(a)
  BY <1>1, RoundsEnd
<1>3. PICK w : w = WalkBack(a, b, D) /\ D \in Nat
  BY <1>2
<1>4. /\ w[0] = [x |-> Len(a), y |-> Len(b), ops |-> <<>>]
      /\ \A i \in 1..D : w[i] = BackOne(a, b, trace(a, b)[D - i + 1], D - i + 1, w[i - 1])
  <2>1. /\ WalkBack(a, b, D)[0] = [x |-> Len(a), y |-> Len(b), ops |-> <<>>]
        /\ \A i \in 1..D : WalkBack(a, b, D)[i]
                            = BackOne(a, b, trace(a, b)[D - i + 1], D - i + 1, WalkBack(a, b, D)[i - 1])
    BY <1>3, BackRuns
  <2> QED BY <1>3, <2>1
<1> DEFINE S == {i \in 0..D : BackAt(a, b, T, D - i, w[i], i)}
<1>5. 0 \in S
  <2>1. w[0].x = Len(a) /\ w[0].y = Len(b) /\ w[0].ops = <<>> /\ D - 0 = D
    BY <1>2, <1>4
  <2>2. Leads(a, b, T, <<>>, Len(a), Len(b), Len(a), Len(b), 0)
    <3>1. <<>> \in Seq(OpsOf(T)) /\ Len(<<>>) = 0
      OBVIOUS
    <3>2. \A types : Upto(<<>>, 0, types) = 0
      BY UptoSteps
    <3>3. {Len(a), Len(b), 0} \subseteq Nat /\ Len(a) + 0 = Len(a) /\ Len(b) + 0 = Len(b) /\ 0 + 0 = 0
      BY <1>1
    <3> QED BY <3>1, <3>2, <3>3 DEF Leads
  <2>3. BackAt(a, b, T, D, w[0], 0)
    BY <1>1, <1>2, <2>1, <2>2 DEF BackAt
  <2> QED BY <2>1, <2>3
<1>6. ASSUME NEW i \in 0..D, i \in S, i < D PROVE i + 1 \in S
  <2>1. PICK j \in 1..D, d \in 1..(Len(a) + Len(b)) : j = i + 1 /\ j - 1 = i /\ d = D - i /\ d = D - j + 1 /\ d - 1 = D - j
    <3>1. i + 1 \in 1..D /\ D - i \in 1..(Len(a) + Len(b))
      BY <1>6
    <3> QED BY <1>2, <3>1
  <2>2. BackAt(a, b, T, d, w[i], i)
    BY <1>6, <2>1
  <2>3. w[j] = BackOne(a, b, trace(a, b)[d], d, w[i])
    BY <1>4, <2>1
  <2>4. BackAt(a, b, T, d - 1, w[j], i + 1)
    BY <2>2, <2>3, BackStep
  <2> QED BY <2>1, <2>4
<1>7. \A i \in 0..D : i \in S
  <2> HIDE DEF S
  <2> QED BY <1>3, <1>5, <1>6, UpTo
<1> QED BY <1>2, <1>3, <1>7

\* The script of the diff leads from the first lines to the last with as many
\* edits as there were rounds.
LEMMA DiffLeads ==
    ASSUME NEW T, NEW a \in Seq(T), NEW b \in Seq(T)
    PROVE  Leads(a, b, T, sequenceDiff(a, b), 0, 0, Len(a), Len(b), foundD(a, b))
<1>1. Len(a) \in Nat /\ Len(b) \in Nat /\ DOMAIN a = 1..Len(a) /\ DOMAIN b = 1..Len(b)
  OBVIOUS
<1>2. PICK D \in 0..(Len(a) + Len(b)) : D = foundD(a, b)
  BY <1>1, RoundsEnd
<1>3. PICK s : s = WalkBack(a, b, D)[D]
  OBVIOUS
<1>4. BackAt(a, b, T, 0, s, D)
  <2>1. D \in 0..D /\ D - D = 0
    BY <1>2
  <2>2. \A i \in 0..D : BackAt(a, b, T, D - i, WalkBack(a, b, D)[i], i)
    BY <1>2, WalkedBack
  <2> QED BY <1>3, <2>1, <2>2
<1>5. PICK n \in Nat : n = s.x /\ s.y = n
  <2>1. s.x \in Nat /\ s.y \in Nat /\ s.x - s.y = 0
    BY <1>4, FirstDiagonal DEF BackAt
  <2> QED BY <2>1
<1>6. GotTo(a, b, 0, 0) = n /\ Leads(a, b, T, s.ops, n, n, Len(a), Len(b), D)
  <2>1. n - n = 0
    OBVIOUS
  <2> QED BY <1>4, <1>5, <2>1 DEF BackAt
<1>7. \A j \in 1..n : 0 + j <= Len(a) /\ 0 + j <= Len(b) /\ a[0 + j] = b[0 + j]
  BY <1>1, <1>6, FirstGot DEF SlideFacts
<1>8. Leads(a, b, T, Equals(a, b, 0, 0, n), 0, 0, n, n, 0)
  <2>1. Leads(a, b, T, Equals(a, b, 0, 0, n), 0, 0, 0 + n, 0 + n, 0)
    BY <1>7, EqualsLead
  <2>2. 0 + n = n
    OBVIOUS
  <2> QED BY <2>1, <2>2
<1>9. Leads(a, b, T, Equals(a, b, 0, 0, n) \o s.ops, 0, 0, Len(a), Len(b), D)
  <2>1. Leads(a, b, T, Equals(a, b, 0, 0, n) \o s.ops, 0, 0, Len(a), Len(b), 0 + D)
    BY <1>6, <1>8, LeadsOn
  <2>2. 0 + D = D
    BY <1>2
  <2> QED BY <2>1, <2>2
<1>10. sequenceDiff(a, b) = Equals(a, b, 0, 0, n) \o s.ops
  BY <1>2, <1>3, <1>5 DEF sequenceDiff
<1> QED BY <1>2, <1>9, <1>10

\* A hunk goes into the change list with a change for each of its deletes and
\* inserts.
ChangesOf(T) == [kind : {"removed", "added", "modified"}, before : T \cup {"none"}, after : T \cup {"none"}]
HunksOf(T) == [deletes : Seq(T \cup {"none"}), inserts : Seq(T \cup {"none"}), result : Seq(ChangesOf(T))]

LEMMA MaxOfTwo ==
    ASSUME NEW x \in Int, NEW y \in Int, x <= y
    PROVE  Max({x, y}) = y /\ Max({y, x}) = y
<1>1. \E z \in {x, y} : \A w \in {x, y} : z >= w
  OBVIOUS
<1>2. Max({x, y}) \in {x, y} /\ \A w \in {x, y} : Max({x, y}) >= w
  BY <1>1 DEF Max
<1>3. {x, y} = {y, x}
  OBVIOUS
<1> QED BY <1>2, <1>3

LEMMA ListedJoined ==
    ASSUME NEW O, NEW r, NEW s \in Seq(O), NEW t \in Seq(O), Joined(O, r, s, t), NEW kinds, NEW n \in Nat, n <= Len(t),
           \A j \in 1..Len(t) : t[j].kind \in kinds <=> j <= n
    PROVE  Listed(r, kinds) = Listed(s, kinds) + n /\ Listed(s, kinds) \in Nat
<1>1. /\ r \in Seq(O) /\ Len(r) = Len(s) + Len(t) /\ Len(s) \in Nat /\ Len(t) \in Nat
      /\ DOMAIN r = 1..Len(r) /\ DOMAIN s = 1..Len(s)
      /\ \A i \in 1..Len(s) : r[i] = s[i] /\ i \in 1..Len(r)
      /\ \A i \in 1..Len(t) : r[Len(s) + i] = t[i] /\ Len(s) + i \in 1..Len(r)
      /\ \A i \in 1..Len(r) : i \in 1..Len(s) \/ \E j \in 1..Len(t) : i = Len(s) + j
  BY DEF Joined
<1>2. PICK m \in Nat : m = Len(s)
  BY <1>1
<1> DEFINE A == {i \in 1..m : s[i].kind \in kinds}
           B == (m + 1)..(m + n)
           C == {i \in DOMAIN r : r[i].kind \in kinds}
<1>3. C = A \cup B
  <2>1. ASSUME NEW i \in C PROVE i \in A \cup B
    <3>1. CASE i \in 1..m
      BY <1>1, <1>2, <3>1
    <3>2. ASSUME NEW j \in 1..Len(t), i = m + j PROVE i \in B
      <4>1. t[j].kind \in kinds
        BY <1>1, <1>2, <3>2
      <4> QED BY <1>1, <3>2, <4>1
    <3> QED BY <1>1, <1>2, <3>1, <3>2
  <2>2. ASSUME NEW i \in A PROVE i \in C
    BY <1>1, <1>2
  <2>3. ASSUME NEW i \in B PROVE i \in C
    <3>1. PICK j \in 1..Len(t) : i = m + j /\ j <= n
      <4>1. PICK l \in Nat : l = Len(t) /\ n <= l
        BY <1>1
      <4>2. i - m \in 1..l /\ i = m + (i - m) /\ i - m <= n
        BY <4>1
      <4> QED BY <4>1, <4>2
    <3>2. t[j].kind \in kinds /\ r[i] = t[j] /\ i \in DOMAIN r
      BY <1>1, <1>2, <3>1
    <3> QED BY <3>2
  <2> HIDE DEF A, B, C
  <2> QED BY <2>1, <2>2, <2>3
<1>4. IsFiniteSet(A) /\ Cardinality(A) \in Nat
  <2>1. IsFiniteSet(1..m) /\ A \subseteq 1..m
    <3>1. 1 \in Int /\ m \in Int
      OBVIOUS
    <3> QED BY <3>1, FS_Interval
  <2> HIDE DEF A
  <2> QED BY <2>1, FS_Subset, FS_CardinalityType
<1>5. IsFiniteSet(B) /\ Cardinality(B) = n
  <2>1. m + 1 \in Int /\ m + n \in Int
    OBVIOUS
  <2>2. IsFiniteSet(B) /\ Cardinality(B) = IF m + 1 > m + n THEN 0 ELSE m + n - (m + 1) + 1
    BY <2>1, FS_Interval
  <2> HIDE DEF B
  <2> QED BY <2>2
<1>6. A \cap B = {}
  OBVIOUS
<1>7. Cardinality(A \cup B) = Cardinality(A) + n
  <2>1. Cardinality(A \cup B) = Cardinality(A) + Cardinality(B) - Cardinality(A \cap B) /\ Cardinality({}) = 0
    <3> HIDE DEF A, B
    <3> QED BY <1>4, <1>5, FS_Union, FS_EmptySet
  <2>2. PICK p \in Nat : p = Cardinality(A)
    BY <1>4
  <2>3. Cardinality(A \cup B) = p + n - 0
    <3> HIDE DEF A, B
    <3> QED BY <1>5, <1>6, <2>1, <2>2
  <2>4. p + n - 0 = p + n
    BY <2>2
  <2> HIDE DEF A, B
  <2> QED BY <2>2, <2>3, <2>4
<1>8. Listed(r, kinds) = Cardinality(C) /\ Listed(s, kinds) = Cardinality(A)
  BY <1>1, <1>2 DEF Listed
<1> HIDE DEF A, B, C
<1> QED BY <1>3, <1>4, <1>7, <1>8

FlushFacts(T, s, f) ==
    /\ f \in HunksOf(T) /\ Len(f.deletes) = 0 /\ Len(f.inserts) = 0
    /\ Listed(f.result, {"removed", "modified"}) = Listed(s.result, {"removed", "modified"}) + Len(s.deletes)
    /\ Listed(f.result, {"added", "modified"}) = Listed(s.result, {"added", "modified"}) + Len(s.inserts)
    /\ Listed(s.result, {"removed", "modified"}) \in Nat /\ Listed(s.result, {"added", "modified"}) \in Nat

LEMMA FlushAdds ==
    ASSUME NEW T, NEW s \in HunksOf(T)
    PROVE  FlushFacts(T, s, Flush(s))
<1>1. PICK del \in Nat, ins \in Nat : del = Len(s.deletes) /\ ins = Len(s.inserts)
  BY DEF HunksOf
<1>2. PICK n \in Nat : n = Max({del, ins}) /\ n >= del /\ n >= ins /\ n \in {del, ins}
  <2>1. del <= ins \/ ins <= del
    OBVIOUS
  <2> QED BY <2>1, MaxOfTwo
<1>3. /\ \A i \in 1..del : s.deletes[i] \in T \cup {"none"}
      /\ \A i \in 1..ins : s.inserts[i] \in T \cup {"none"}
      /\ s.result \in Seq(ChangesOf(T))
  BY <1>1 DEF HunksOf
<1>4. PICK t : t = [i \in 1..n |->
                       IF i > ins THEN Change("removed", s.deletes[i], "none")
                       ELSE IF i > del THEN Change("added", "none", s.inserts[i])
                       ELSE Change("modified", s.deletes[i], s.inserts[i])]
  OBVIOUS
<1>5. ASSUME NEW i \in 1..n
      PROVE  /\ t[i] \in ChangesOf(T)
             /\ t[i].kind \in {"removed", "modified"} <=> i <= del
             /\ t[i].kind \in {"added", "modified"} <=> i <= ins
  <2>1. i \in Nat /\ i >= 1 /\ (i <= del \/ i <= ins)
    BY <1>2
  <2>2. CASE i > ins
    <3>1. t[i] = [kind |-> "removed", before |-> s.deletes[i], after |-> "none"] /\ i \in 1..del
      BY <1>4, <2>1, <2>2 DEF Change
    <3> QED BY <1>3, <2>2, <3>1 DEF ChangesOf
  <2>3. CASE ~(i > ins) /\ i > del
    <3>1. t[i] = [kind |-> "added", before |-> "none", after |-> s.inserts[i]] /\ i \in 1..ins
      BY <1>4, <2>1, <2>3 DEF Change
    <3> QED BY <1>3, <2>3, <3>1 DEF ChangesOf
  <2>4. CASE ~(i > ins) /\ ~(i > del)
    <3>1. t[i] = [kind |-> "modified", before |-> s.deletes[i], after |-> s.inserts[i]] /\ i \in 1..ins /\ i \in 1..del
      BY <1>4, <2>1, <2>4 DEF Change
    <3> QED BY <1>3, <2>4, <3>1 DEF ChangesOf
  <2> QED BY <2>2, <2>3, <2>4
<1>6. t \in Seq(ChangesOf(T)) /\ Len(t) = n
  <2>1. DOMAIN t = 1..n /\ t = [i \in 1..n |-> t[i]]
    BY <1>4
  <2>2. t \in [1..n -> ChangesOf(T)]
    BY <1>5, <2>1
  <2> QED BY <2>2, ListIsSeq
<1>7. PICK r : r = s.result \o t
  OBVIOUS
<1>8. Joined(ChangesOf(T), r, s.result, t)
  BY <1>3, <1>6, <1>7, Appended
<1>9. Listed(r, {"removed", "modified"}) = Listed(s.result, {"removed", "modified"}) + del
      /\ Listed(s.result, {"removed", "modified"}) \in Nat
  <2>1. del <= Len(t) /\ \A j \in 1..Len(t) : t[j].kind \in {"removed", "modified"} <=> j <= del
    BY <1>2, <1>5, <1>6
  <2> QED BY <1>3, <1>6, <1>8, <2>1, ListedJoined
<1>10. Listed(r, {"added", "modified"}) = Listed(s.result, {"added", "modified"}) + ins
      /\ Listed(s.result, {"added", "modified"}) \in Nat
  <2>1. ins <= Len(t) /\ \A j \in 1..Len(t) : t[j].kind \in {"added", "modified"} <=> j <= ins
    BY <1>2, <1>5, <1>6
  <2> QED BY <1>3, <1>6, <1>8, <2>1, ListedJoined
<1>11. PICK f : f = Flush(s)
  OBVIOUS
<1>12. f = [deletes |-> <<>>, inserts |-> <<>>, result |-> r]
  <2>1. f = [NoHunk EXCEPT !.result = r]
    BY <1>1, <1>2, <1>4, <1>7, <1>11 DEF Flush
  <2> QED BY <2>1 DEF NoHunk
<1>13. f \in HunksOf(T) /\ f.deletes = <<>> /\ f.inserts = <<>> /\ f.result = r
  <2>1. r \in Seq(ChangesOf(T))
    BY <1>8 DEF Joined
  <2> QED BY <1>12, <2>1 DEF HunksOf
<1>14. Len(f.deletes) = 0 /\ Len(f.inserts) = 0
  BY <1>13
<1>15. FlushFacts(T, s, f)
  BY <1>1, <1>9, <1>10, <1>13, <1>14 DEF FlushFacts
<1> QED BY <1>11, <1>15

\* What the first i operations leave: each delete and each insert is in the list
\* or in the hunk.
HunkAt(T, ops, s, i) ==
    /\ s \in HunksOf(T)
    /\ Listed(s.result, {"removed", "modified"}) + Len(s.deletes) = Upto(ops, i, {"delete"})
    /\ Listed(s.result, {"added", "modified"}) + Len(s.inserts) = Upto(ops, i, {"insert"})

LEMMA TakeKeeps ==
    ASSUME NEW T, NEW ops \in Seq(OpsOf(T)), NEW i \in 1..Len(ops), NEW s, HunkAt(T, ops, s, i - 1)
    PROVE  HunkAt(T, ops, Take(s, ops[i]), i)
<1>1. PICK op \in OpsOf(T) : op = ops[i]
  OBVIOUS
<1>2. i \in Nat \ {0} /\ op.type \in {"equal", "delete", "insert"} /\ op.before \in T \cup {"none"} /\ op.after \in T \cup {"none"}
  BY DEF OpsOf
<1>3. /\ Upto(ops, i, {"delete"}) = Upto(ops, i - 1, {"delete"}) + (IF op.type \in {"delete"} THEN 1 ELSE 0)
      /\ Upto(ops, i, {"insert"}) = Upto(ops, i - 1, {"insert"}) + (IF op.type \in {"insert"} THEN 1 ELSE 0)
  BY <1>1, <1>2, UptoSteps
<1>4. PICK f : f = Flush(s)
  OBVIOUS
<1>5. FlushFacts(T, s, f)
  BY <1>4, FlushAdds DEF HunkAt
<1>6. PICK ld \in Nat, li \in Nat, ud \in Nat, ui \in Nat :
          /\ ld = Listed(s.result, {"removed", "modified"}) /\ li = Listed(s.result, {"added", "modified"})
          /\ ud = Upto(ops, i - 1, {"delete"}) /\ ui = Upto(ops, i - 1, {"insert"})
  <2>1. i - 1 \in Nat
    OBVIOUS
  <2>2. Upto(ops, i - 1, {"delete"}) \in Nat /\ Upto(ops, i - 1, {"insert"}) \in Nat
    BY <2>1, UptoNat
  <2> QED BY <1>5, <2>2 DEF FlushFacts
<1>7. s \in HunksOf(T) /\ ld + Len(s.deletes) = ud /\ li + Len(s.inserts) = ui
  BY <1>6 DEF HunkAt
<1>8. PICK r : r = Take(s, op)
  OBVIOUS
<1>9. CASE op.type = "equal"
  <2>1. r = f
    BY <1>4, <1>8, <1>9 DEF Take
  <2>2. Upto(ops, i, {"delete"}) = ud /\ Upto(ops, i, {"insert"}) = ui
    BY <1>3, <1>6, <1>9
  <2>3. f \in HunksOf(T) /\ Len(f.deletes) = 0 /\ Len(f.inserts) = 0
        /\ Listed(f.result, {"removed", "modified"}) = ud /\ Listed(f.result, {"added", "modified"}) = ui
    BY <1>5, <1>6, <1>7 DEF FlushFacts
  <2>4. ud + 0 = ud /\ ui + 0 = ui
    OBVIOUS
  <2> QED BY <1>1, <1>8, <2>1, <2>2, <2>3, <2>4 DEF HunkAt
<1>10. CASE op.type = "delete"
  <2>1. r = [s EXCEPT !.deletes = Append(@, op.before)]
    BY <1>8, <1>10 DEF Take
  <2>2. PICK q : q = Append(s.deletes, op.before) /\ q \in Seq(T \cup {"none"}) /\ Len(q) = Len(s.deletes) + 1
                 /\ Len(s.deletes) \in Nat
    <3>1. PICK X : X = T \cup {"none"}
      OBVIOUS
    <3>2. PICK e \in X, z \in Seq(X) : e = op.before /\ z = s.deletes
      BY <3>1, <1>2, <1>7 DEF HunksOf
    <3>3. PICK q : q = Append(z, e)
      OBVIOUS
    <3>4. q \in Seq(X) /\ Len(q) = Len(z) + 1 /\ Len(z) \in Nat
      BY <3>3
    <3> QED BY <3>1, <3>2, <3>3, <3>4
  <2>3. r = [deletes |-> q, inserts |-> s.inserts, result |-> s.result]
    BY <1>7, <2>1, <2>2 DEF HunksOf
  <2>4. r \in HunksOf(T) /\ r.deletes = q /\ r.inserts = s.inserts /\ r.result = s.result
    BY <1>7, <2>2, <2>3 DEF HunksOf
  <2>5. Upto(ops, i, {"delete"}) = ud + 1 /\ Upto(ops, i, {"insert"}) = ui
    BY <1>3, <1>6, <1>10
  <2>6. ld + Len(q) = ud + 1
    BY <1>7, <2>2
  <2> QED BY <1>1, <1>6, <1>7, <1>8, <2>4, <2>5, <2>6 DEF HunkAt
<1>11. CASE op.type = "insert"
  <2>1. r = [s EXCEPT !.inserts = Append(@, op.after)]
    BY <1>8, <1>11 DEF Take
  <2>2. PICK q : q = Append(s.inserts, op.after) /\ q \in Seq(T \cup {"none"}) /\ Len(q) = Len(s.inserts) + 1
                 /\ Len(s.inserts) \in Nat
    <3>1. PICK X : X = T \cup {"none"}
      OBVIOUS
    <3>2. PICK e \in X, z \in Seq(X) : e = op.after /\ z = s.inserts
      BY <3>1, <1>2, <1>7 DEF HunksOf
    <3>3. PICK q : q = Append(z, e)
      OBVIOUS
    <3>4. q \in Seq(X) /\ Len(q) = Len(z) + 1 /\ Len(z) \in Nat
      BY <3>3
    <3> QED BY <3>1, <3>2, <3>3, <3>4
  <2>3. r = [deletes |-> s.deletes, inserts |-> q, result |-> s.result]
    BY <1>7, <2>1, <2>2 DEF HunksOf
  <2>4. r \in HunksOf(T) /\ r.deletes = s.deletes /\ r.inserts = q /\ r.result = s.result
    BY <1>7, <2>2, <2>3 DEF HunksOf
  <2>5. Upto(ops, i, {"delete"}) = ud /\ Upto(ops, i, {"insert"}) = ui + 1
    BY <1>3, <1>6, <1>11
  <2>6. li + Len(q) = ui + 1
    BY <1>7, <2>2
  <2> QED BY <1>1, <1>6, <1>7, <1>8, <2>4, <2>5, <2>6 DEF HunkAt
<1> QED BY <1>2, <1>9, <1>10, <1>11

\* The change list holds every delete and every insert of the script once, and
\* nothing else.
ListFacts(T, ops, changes) ==
    /\ changes \in Seq(ChangesOf(T))
    /\ Listed(changes, {"removed", "modified"}) = Upto(ops, Len(ops), {"delete"})
    /\ Listed(changes, {"added", "modified"}) = Upto(ops, Len(ops), {"insert"})

LEMMA ListIs ==
    ASSUME NEW T, NEW ops \in Seq(OpsOf(T))
    PROVE  ListFacts(T, ops, ncChangesFromOps(ops))
<1>1. PICK n \in Nat : n = Len(ops)
  OBVIOUS
<1>2. PICK h : h = Hunks(ops)
  OBVIOUS
<1>3. h[0] = NoHunk /\ \A k \in 1..n : h[k] = Take(h[k - 1], ops[k])
  BY <1>1, <1>2, HunksRun
<1> DEFINE S == {i \in 0..n : HunkAt(T, ops, h[i], i)}
<1>4. 0 \in S
  <2>1. PICK s : s = h[0]
    OBVIOUS
  <2>2. s = [deletes |-> <<>>, inserts |-> <<>>, result |-> <<>>]
    BY <1>3, <2>1 DEF NoHunk
  <2>3. s \in HunksOf(T) /\ Len(s.deletes) = 0 /\ Len(s.inserts) = 0 /\ DOMAIN s.result = {}
    BY <2>2 DEF HunksOf
  <2>4. \A kinds : Listed(s.result, kinds) = 0
    <3>1. \A kinds : {i \in DOMAIN s.result : s.result[i].kind \in kinds} = {}
      BY <2>3
    <3> QED BY <3>1, FS_EmptySet DEF Listed
  <2>5. \A types : Upto(ops, 0, types) = 0
    BY UptoSteps
  <2>6. 0 + 0 = 0
    OBVIOUS
  <2>7. HunkAt(T, ops, s, 0)
    BY <2>3, <2>4, <2>5, <2>6 DEF HunkAt
  <2> QED BY <2>1, <2>7
<1>5. ASSUME NEW i \in 0..n, i \in S, i < n PROVE i + 1 \in S
  <2>1. PICK j \in 1..Len(ops) : j = i + 1 /\ j - 1 = i
    BY <1>1, <1>5
  <2>2. HunkAt(T, ops, h[i], j - 1) /\ h[j] = Take(h[i], ops[j]) /\ j \in 0..n
    BY <1>1, <1>3, <1>5, <2>1
  <2>3. HunkAt(T, ops, h[j], j)
    BY <2>2, TakeKeeps
  <2> QED BY <2>1, <2>2, <2>3
<1>6. HunkAt(T, ops, h[n], n)
  <2>1. \A i \in 0..n : i \in S
    <3> HIDE DEF S
    <3> QED BY <1>4, <1>5, UpTo
  <2> QED BY <2>1
<1>7. PICK s : s = h[n] /\ s \in HunksOf(T)
  BY <1>6 DEF HunkAt
<1>8. PICK f : f = Flush(s)
  OBVIOUS
<1>9. FlushFacts(T, s, f)
  BY <1>7, <1>8, FlushAdds
<1>10. f.result \in Seq(ChangesOf(T))
  BY <1>9 DEF FlushFacts, HunksOf
<1>11. ListFacts(T, ops, f.result)
  BY <1>1, <1>6, <1>7, <1>9, <1>10 DEF ListFacts, HunkAt, FlushFacts
<1> QED BY <1>1, <1>2, <1>7, <1>8, <1>11 DEF ncChangesFromOps
\* The diff of two sequences: it rebuilds both, none is shorter, its change list
\* counts every line of it, and is empty for equal sequences only.
LEMMA SameEnds ==
    ASSUME NEW T, NEW a \in Seq(T)
    PROVE  foundD(a, a) <= 0
<1>1. PICK n \in Nat : n = Len(a) /\ 0 \in 0..(Len(a) + Len(a))
  OBVIOUS
<1>2. PICK s : GotTo(a, a, 0, 0) = s /\ SlideFacts(a, a, 0, 0, s)
  BY FirstGot
<1>3. s \in Nat /\ s >= n
  <2>1. s \in Nat /\ ~(0 + s + 1 <= n /\ 0 + s + 1 <= n /\ a[0 + s + 1] = a[0 + s + 1])
    BY <1>1, <1>2 DEF SlideFacts
  <2> QED BY <2>1
<1>4. Passes(a, a, 0)
  <2>1. 0 \in Diagonals(0) /\ s - 0 = s
    BY <1>3, FirstDiagonal
  <2>2. GotTo(a, a, 0, 0) >= Len(a) /\ GotTo(a, a, 0, 0) - 0 >= Len(a)
    BY <1>1, <1>2, <1>3, <2>1
  <2> QED BY <2>1, <2>2, PassesIs
<1> DEFINE R == {d \in 0..(Len(a) + Len(a)) : Passes(a, a, d)}
<1>5. foundD(a, a) = Min(R)
  BY DEF foundD, Passes
<1>6. R \in SUBSET Nat /\ 0 \in R
  BY <1>1, <1>4
<1> HIDE DEF R
<1> QED BY <1>5, <1>6, LeastIs

\* What the count of a list says of its members.
LEMMA UptoIsNone ==
    ASSUME NEW ops, NEW type, NEW n \in Nat, Upto(ops, n, {type}) <= 0
    PROVE  \A i \in 1..n : ops[i].type # type
<1> DEFINE C == {j \in 1..n : ops[j].type \in {type}}
<1>1. IsFiniteSet(C)
  <2>1. IsFiniteSet(1..n) /\ C \subseteq 1..n
    <3>1. 1 \in Int /\ n \in Int
      OBVIOUS
    <3> QED BY <3>1, FS_Interval
  <2> HIDE DEF C
  <2> QED BY <2>1, FS_Subset
<1>2. Cardinality(C) = 0
  <2>1. Cardinality(C) = Upto(ops, n, {type})
    BY DEF Upto
  <2>2. Upto(ops, n, {type}) \in Nat
    BY UptoNat
  <2> QED BY <2>1, <2>2
<1>3. C = {}
  <2> HIDE DEF C
  <2> QED BY <1>1, <1>2, FS_EmptySet
<1> QED BY <1>3

LEMMA ListedNone ==
    ASSUME NEW O, NEW changes \in Seq(O), NEW kinds, Listed(changes, kinds) = 0
    PROVE  \A i \in 1..Len(changes) : changes[i].kind \notin kinds
<1> DEFINE C == {i \in DOMAIN changes : changes[i].kind \in kinds}
<1>1. IsFiniteSet(C)
  <2>1. PICK n \in Nat : n = Len(changes) /\ DOMAIN changes = 1..n
    OBVIOUS
  <2>2. IsFiniteSet(1..n) /\ C \subseteq 1..n
    <3>1. 1 \in Int /\ n \in Int
      OBVIOUS
    <3> QED BY <2>1, <3>1, FS_Interval
  <2> HIDE DEF C
  <2> QED BY <2>2, FS_Subset
<1>2. Cardinality(C) = 0
  BY DEF Listed
<1>3. C = {}
  <2> HIDE DEF C
  <2> QED BY <1>1, <1>2, FS_EmptySet
<1>4. DOMAIN changes = 1..Len(changes)
  OBVIOUS
<1> QED BY <1>3, <1>4

DiffFacts(a, b) ==
    /\ Rebuilds(sequenceDiff(a, b), a, b)
    /\ \A P \in CommonLines(a, b) :
          Upto(sequenceDiff(a, b), Len(sequenceDiff(a, b)), {"delete"})
            + Upto(sequenceDiff(a, b), Len(sequenceDiff(a, b)), {"insert"})
          <= Len(a) + Len(b) - 2 * Cardinality(P)
    /\ Listed(ncChangesFromOps(sequenceDiff(a, b)), {"removed", "modified"})
         = Upto(sequenceDiff(a, b), Len(sequenceDiff(a, b)), {"delete"})
    /\ Listed(ncChangesFromOps(sequenceDiff(a, b)), {"added", "modified"})
         = Upto(sequenceDiff(a, b), Len(sequenceDiff(a, b)), {"insert"})
    /\ ChangeCount(a, b) \in Nat /\ (ChangeCount(a, b) = 0 <=> a = b)

LEMMA DiffIs ==
    ASSUME NEW T, NEW a \in Seq(T), NEW b \in Seq(T)
    PROVE  DiffFacts(a, b)
<1>1. Len(a) \in Nat /\ Len(b) \in Nat /\ DOMAIN a = 1..Len(a) /\ DOMAIN b = 1..Len(b)
  OBVIOUS
<1>2. PICK D \in Nat : D = foundD(a, b) /\ \A P \in CommonLines(a, b) : D <= Len(a) + Len(b) - 2 * Cardinality(P)
  BY <1>1, RoundsEnd
<1>3. PICK ops : ops = sequenceDiff(a, b)
  OBVIOUS
<1>4. Leads(a, b, T, ops, 0, 0, Len(a), Len(b), D)
  BY <1>2, <1>3, DiffLeads
<1>5. PICK n \in Nat : n = Len(ops) /\ ops \in Seq(OpsOf(T))
  <2>1. ops \in Seq(OpsOf(T))
    BY <1>4 DEF Leads
  <2> QED BY <2>1
<1>6. PICK changes : changes = ncChangesFromOps(ops)
  OBVIOUS
<1>7. ListFacts(T, ops, changes)
  BY <1>5, <1>6, ListIs
<1>8. PICK u \in Nat, v \in Nat : u = Upto(ops, n, {"delete"}) /\ v = Upto(ops, n, {"insert"}) /\ u + v = D
  <2>1. Upto(ops, n, {"delete"}) \in Nat /\ Upto(ops, n, {"insert"}) \in Nat
    BY UptoNat
  <2>2. Upto(ops, n, {"delete"}) + Upto(ops, n, {"insert"}) = D
    BY <1>4, <1>5 DEF Leads
  <2> QED BY <2>1, <2>2
<1>9. /\ changes \in Seq(ChangesOf(T)) /\ Len(changes) \in Nat /\ DOMAIN changes = 1..Len(changes)
      /\ Listed(changes, {"removed", "modified"}) = u /\ Listed(changes, {"added", "modified"}) = v
  <2>1. changes \in Seq(ChangesOf(T))
    BY <1>7 DEF ListFacts
  <2> QED BY <1>5, <1>7, <1>8, <2>1 DEF ListFacts
<1>10. \A i \in 1..n : /\ ops[i].type \in {"equal", "delete", "insert"}
                       /\ ops[i].type # "insert" => ops[i].before = a[Upto(ops, i, {"equal", "delete"})]
                       /\ ops[i].type # "delete" => ops[i].after = b[Upto(ops, i, {"equal", "insert"})]
                       /\ ops[i].type = "equal" => ops[i].before = ops[i].after
  <2> SUFFICES ASSUME NEW i \in 1..n
               PROVE  /\ ops[i].type \in {"equal", "delete", "insert"}
                      /\ ops[i].type # "insert" => ops[i].before = a[Upto(ops, i, {"equal", "delete"})]
                      /\ ops[i].type # "delete" => ops[i].after = b[Upto(ops, i, {"equal", "insert"})]
                      /\ ops[i].type = "equal" => ops[i].before = ops[i].after
    OBVIOUS
  <2>1. ops[i] \in OpsOf(T) /\ i \in Nat
    BY <1>5
  <2>2. ops[i].type \in {"equal", "delete", "insert"}
    BY <2>1 DEF OpsOf
  <2>3. PICK p \in Nat, q \in Nat : p = Upto(ops, i, {"equal", "delete"}) /\ q = Upto(ops, i, {"equal", "insert"})
    BY <2>1, UptoNat
  <2>4. /\ ops[i].type # "insert" => ops[i].before = a[0 + p]
        /\ ops[i].type # "delete" => ops[i].after = b[0 + q]
        /\ ops[i].type = "equal" => ops[i].before = ops[i].after
    BY <1>4, <1>5, <2>3 DEF Leads
  <2>5. 0 + p = p /\ 0 + q = q
    OBVIOUS
  <2> QED BY <2>2, <2>3, <2>4, <2>5
<1>11. Upto(ops, n, {"equal", "delete"}) = Len(a) /\ Upto(ops, n, {"equal", "insert"}) = Len(b)
  <2>1. PICK p \in Nat, q \in Nat : p = Upto(ops, n, {"equal", "delete"}) /\ q = Upto(ops, n, {"equal", "insert"})
    BY UptoNat
  <2>2. 0 + p = Len(a) /\ 0 + q = Len(b)
    BY <1>4, <1>5, <2>1 DEF Leads
  <2> QED BY <2>1, <2>2
<1>12. Rebuilds(ops, a, b)
  <2>1. DOMAIN ops = 1..n
    BY <1>5
  <2> QED BY <1>5, <1>10, <1>11, <2>1 DEF Rebuilds
<1>13. ASSUME Len(changes) = 0 PROVE a = b
  <2>1. DOMAIN changes = {}
    BY <1>9, <1>13
  <2>2. \A kinds : Listed(changes, kinds) = 0
    <3>1. \A kinds : {i \in DOMAIN changes : changes[i].kind \in kinds} = {}
      BY <2>1
    <3> QED BY <3>1, FS_EmptySet DEF Listed
  <2>3. Upto(ops, n, {"delete"}) <= 0 /\ Upto(ops, n, {"insert"}) <= 0
    BY <1>8, <1>9, <2>2
  <2>4. \A i \in 1..n : ops[i].type # "delete" /\ ops[i].type # "insert"
    BY <2>3, UptoIsNone
  <2>5. \A i \in 1..n : ops[i].type = "equal"
    BY <1>10, <2>4
  <2>6. \A i \in 1..n : ops[i].type \in {"equal", "delete"} /\ ops[i].type \in {"equal", "insert"}
    BY <2>5
  <2>7. \A i \in 0..n : Upto(ops, i, {"equal", "delete"}) = i /\ Upto(ops, i, {"equal", "insert"}) = i
    BY <2>6, UptoAll
  <2>8. n = Len(a) /\ n = Len(b)
    BY <1>11, <2>7
  <2>9. \A i \in 1..n : a[i] = b[i]
    <3> SUFFICES ASSUME NEW i \in 1..n PROVE a[i] = b[i]
      OBVIOUS
    <3>1. i \in 0..n
      OBVIOUS
    <3> QED BY <1>10, <2>5, <2>7, <3>1
  <2>10. DOMAIN a = 1..n /\ DOMAIN b = 1..n
    BY <1>1, <2>8
  <2>11. a = [i \in 1..n |-> a[i]] /\ b = [i \in 1..n |-> b[i]]
    <3>1. a = [i \in DOMAIN a |-> a[i]] /\ b = [i \in DOMAIN b |-> b[i]]
      OBVIOUS
    <3> QED BY <2>10, <3>1
  <2>12. [i \in 1..n |-> a[i]] = [i \in 1..n |-> b[i]]
    BY <2>9
  <2> QED BY <2>11, <2>12
<1>14. ASSUME a = b PROVE Len(changes) = 0
  <2>1. D <= 0
    BY <1>2, <1>14, SameEnds
  <2>2. u = 0 /\ v = 0
    BY <1>8, <2>1
  <2>3. \A i \in 1..Len(changes) : changes[i].kind \notin {"removed", "modified"} /\ changes[i].kind \notin {"added", "modified"}
    BY <1>9, <2>2, ListedNone
  <2>4. \A i \in 1..Len(changes) : changes[i].kind \in {"removed", "added", "modified"}
    <3> SUFFICES ASSUME NEW i \in 1..Len(changes) PROVE changes[i].kind \in {"removed", "added", "modified"}
      OBVIOUS
    <3>1. changes[i] \in ChangesOf(T)
      BY <1>9
    <3> QED BY <3>1 DEF ChangesOf
  <2>5. \A i \in 1..Len(changes) : FALSE
    BY <2>3, <2>4
  <2> QED BY <1>9, <2>5
<1>15. \A P \in CommonLines(a, b) : u + v <= Len(a) + Len(b) - 2 * Cardinality(P)
  BY <1>2, <1>8
<1>16. ChangeCount(a, b) = Len(changes)
  BY <1>3, <1>6 DEF ChangeCount
<1> QED BY <1>3, <1>5, <1>6, <1>8, <1>9, <1>12, <1>13, <1>14, <1>15, <1>16 DEF DiffFacts

\* The events of a program, and what its modes weigh.
LEMMA EventsAre ==
    ASSUME NEW p \in Seq(ProgramLines), NEW kind \in Kinds
    PROVE  EventsOf(p, kind) \in Seq(WordValues)
<1>1. PICK n \in Nat : n = Len(p)
  OBVIOUS
<1>2. PICK e : e = Events(p, kind)
  OBVIOUS
<1>3. e[0] = <<>> /\ \A i \in 1..n : e[i] = e[i - 1] \o Meaning[p[i]].events[kind]
  BY <1>1, <1>2, EventsRun
<1> DEFINE S == {i \in 0..n : e[i] \in Seq(WordValues)}
<1>4. 0 \in S
  <2>1. <<>> \in Seq(WordValues) /\ 0 \in 0..n
    OBVIOUS
  <2>2. e[0] \in Seq(WordValues)
    BY <1>3, <2>1
  <2> QED BY <2>1, <2>2
<1>5. ASSUME NEW i \in 0..n, i \in S, i < n PROVE i + 1 \in S
  <2>1. PICK j \in 1..n : j = i + 1 /\ j - 1 = i
    BY <1>5
  <2>2. PICK s \in Seq(WordValues), t \in Seq(WordValues) : s = e[i] /\ t = Meaning[p[j]].events[kind]
    <3>1. p[j] \in ProgramLines
      BY <1>1
    <3> QED BY <1>5, <3>1, DiffAssumption
  <2>3. e[j] = s \o t
    BY <1>3, <2>1, <2>2
  <2>4. s \o t \in Seq(WordValues)
    OBVIOUS
  <2>5. e[j] \in Seq(WordValues) /\ j \in 0..n
    BY <2>3, <2>4
  <2> QED BY <2>1, <2>5
<1>6. PICK s \in Seq(WordValues) : s = e[n]
  <2>1. \A i \in 0..n : i \in S
    <3> HIDE DEF S
    <3> QED BY <1>4, <1>5, UpTo
  <2> QED BY <2>1
<1>7. SubSeq(s, 1, Min({Len(s), MaxValues})) \in Seq(WordValues)
  <2>1. PICK k \in Nat, m \in Nat : k = Len(s) /\ m = MaxValues
    BY DiffAssumption
  <2>2. PICK l \in Nat : l = Min({k, m}) /\ l <= k
    <3>1. k <= m \/ m <= k
      OBVIOUS
    <3> QED BY <3>1, MinOfTwo
  <2>3. \A i \in 1..l : s[i] \in WordValues
    BY <2>1, <2>2
  <2>4. SubSeq(s, 1, l) \in Seq(WordValues)
    BY <2>3
  <2> QED BY <2>1, <2>2, <2>4
<1>8. Kept(kind, s) \in Seq(WordValues)
  BY <1>7 DEF Kept
<1> QED BY <1>1, <1>2, <1>6, <1>8 DEF EventsOf

LEMMA ScoreOfModes ==
    ASSUME NEW told, "units" \in told \/ "positioning" \in told
    PROVE  score(told)[Len(Weighed)] >= 100 /\ score(told)[Len(Weighed)] \in Nat
<1>1. Len(Weighed) = 12
  BY DEF Weighed
<1>2. /\ Weighed[1] = <<"units", 100>> /\ Weighed[2] = <<"positioning", 100>>
      /\ \A i \in 1..12 : Weighed[i][2] \in Nat
  <2>1. Weighed[1] = <<"units", 100>> /\ Weighed[2] = <<"positioning", 100>>
    BY DEF Weighed
  <2>2. \A i \in 1..12 : i \in {1, 2, 3, 4, 5, 6, 7, 8, 9, 10, 11, 12}
    OBVIOUS
  <2>3. /\ Weighed[3][2] = 60 /\ Weighed[4][2] = 50 /\ Weighed[5][2] = 40 /\ Weighed[6][2] = 25
        /\ Weighed[7][2] = 25 /\ Weighed[8][2] = 25 /\ Weighed[9][2] = 25 /\ Weighed[10][2] = 20
        /\ Weighed[11][2] = 10 /\ Weighed[12][2] = 10
    BY DEF Weighed
  <2>4. Weighed[1][2] = 100 /\ Weighed[2][2] = 100
    BY <2>1
  <2> QED BY <2>1, <2>2, <2>3, <2>4
<1>3. PICK sum : sum = score(told)
  OBVIOUS
<1>4. sum[0] = 0 /\ \A k \in 1..12 : sum[k] = sum[k - 1] + (IF Weighed[k][1] \in told THEN Weighed[k][2] ELSE 0)
  BY <1>1, <1>3, ScoreRuns
<1>5. sum[1] = IF "units" \in told THEN 100 ELSE 0
  <2>1. PICK k \in 1..12 : k = 1 /\ k - 1 = 0
    OBVIOUS
  <2>2. sum[k] = 0 + (IF "units" \in told THEN 100 ELSE 0)
    BY <1>2, <1>4, <2>1
  <2> QED BY <2>1, <2>2
<1>6. sum[2] >= 100 /\ sum[2] \in Nat
  <2>1. PICK k \in 1..12 : k = 2 /\ k - 1 = 1
    OBVIOUS
  <2>2. sum[k] = sum[1] + (IF "positioning" \in told THEN 100 ELSE 0)
    BY <1>2, <1>4, <2>1
  <2> QED BY <1>5, <2>1, <2>2
<1> DEFINE S == {i \in 0..10 : sum[i + 2] \in Nat /\ sum[i + 2] >= 100}
<1>7. 0 \in S
  BY <1>6
<1>8. ASSUME NEW i \in 0..10, i \in S, i < 10 PROVE i + 1 \in S
  <2>1. PICK k \in 1..12 : k = i + 1 + 2 /\ k - 1 = i + 2
    BY <1>8
  <2>2. PICK w \in Nat : w = IF Weighed[k][1] \in told THEN Weighed[k][2] ELSE 0
    BY <1>2
  <2>3. sum[k] = sum[i + 2] + w
    BY <1>4, <2>1, <2>2
  <2>4. sum[k] \in Nat /\ sum[k] >= 100
    BY <1>8, <2>2, <2>3
  <2> QED BY <1>8, <2>1, <2>4
<1>9. \A i \in 0..10 : i \in S
  <2> HIDE DEF S
  <2> QED BY <1>7, <1>8, UpTo
<1>10. sum[12] \in Nat /\ sum[12] >= 100
  <2>1. PICK i \in 0..10 : i = 10 /\ i + 2 = 12
    OBVIOUS
  <2> QED BY <1>9, <2>1
<1> QED BY <1>1, <1>3, <1>10
\* What is said of two programs is true.
LEMMA DiffTells ==
    ASSUME left \in Seq(ProgramLines), right \in Seq(ProgramLines)
    PROVE  DiffTellsTheChange
<1>1. DiffFacts(left, right)
  BY DiffIs
<1>2. PICK ops, changes : ops = sequenceDiff(left, right) /\ changes = ncChangesFromOps(ops)
  OBVIOUS
<1>3. PICK told, verdict : told = reasons(left, right) /\ verdict = regressionRisk(left, right)
  OBVIOUS
<1>4. PICK count \in Nat : count = ChangeCount(left, right) /\ (count = 0 <=> left = right)
  BY <1>1 DEF DiffFacts
<1>5. ASSUME NEW k \in Kinds PROVE k \in told <=> EventsOf(left, k) # EventsOf(right, k)
  <2>1. PICK p \in Seq(WordValues), q \in Seq(WordValues) : p = EventsOf(left, k) /\ q = EventsOf(right, k)
    BY EventsAre
  <2>2. DiffFacts(p, q)
    BY DiffIs
  <2>3. ChangeCount(p, q) > 0 <=> p # q
    BY <2>2 DEF DiffFacts
  <2>4. k \notin Modes /\ k # "rapid"
    BY DEF Kinds, Modes
  <2>5. k \in told <=> ChangeCount(EventsOf(left, k), EventsOf(right, k)) > 0
    BY <1>3, <2>4 DEF reasons
  <2> QED BY <2>1, <2>3, <2>5
<1>6. ASSUME NEW m \in {"units", "positioning"}, ModesOf(left)[m] # ModesOf(right)[m] PROVE verdict = "CRITICAL"
  <2>1. m \in Modes /\ m \in told
    BY <1>3, <1>6 DEF Modes, reasons
  <2>2. "units" \in told \/ "positioning" \in told
    BY <2>1
  <2>3. PICK points \in Nat : points = score(told)[Len(Weighed)] /\ points >= 100
    BY <2>2, ScoreOfModes
  <2>4. ChangeCount(left, right) # 0
    BY <1>4, <1>6
  <2> QED BY <1>3, <2>3, <2>4 DEF regressionRisk
<1>7. verdict = "NONE" <=> left = right
  <2>1. CASE ChangeCount(left, right) = 0
    BY <1>3, <1>4, <2>1 DEF regressionRisk
  <2>2. CASE ChangeCount(left, right) # 0
    <3>1. verdict \in {"CRITICAL", "HIGH", "MEDIUM", "LOW"}
      BY <1>3, <2>2 DEF regressionRisk
    <3> QED BY <1>4, <2>2, <3>1
  <2> QED BY <2>1, <2>2
<1>8. /\ Rebuilds(ops, left, right)
      /\ \A P \in CommonLines(left, right) :
            Upto(ops, Len(ops), {"delete"}) + Upto(ops, Len(ops), {"insert"})
            <= Len(left) + Len(right) - 2 * Cardinality(P)
      /\ Listed(changes, {"removed", "modified"}) = Upto(ops, Len(ops), {"delete"})
      /\ Listed(changes, {"added", "modified"}) = Upto(ops, Len(ops), {"insert"})
  BY <1>1, <1>2 DEF DiffFacts
<1> QED BY <1>2, <1>3, <1>5, <1>6, <1>7, <1>8 DEF DiffTellsTheChange

LEMMA ProgramsStay == Spec => [](Is("diff") => left \in Seq(ProgramLines) /\ right \in Seq(ProgramLines))
<1> DEFINE Inv == Is("diff") => left \in Seq(ProgramLines) /\ right \in Seq(ProgramLines)
<1>1. Init => Inv
    BY DEF Init, DiffInit
<1>2. ASSUME Inv, [Next]_<<part, ncVars, programs, framing, acceptance, planning>> PROVE Inv'
    <2>1. CASE Next
        <3> SUFFICES ASSUME Is("diff")' PROVE (left \in Seq(ProgramLines) /\ right \in Seq(ProgramLines))'
            OBVIOUS
        <3>1. Is("diff") /\ DiffNext
            BY <2>1 DEF Next, Is
        <3>2. left \in Seq(ProgramLines) /\ right \in Seq(ProgramLines)
            BY <1>2, <3>1
        <3> QED BY <3>1, <3>2 DEF DiffNext, PostLeft, PostRight
    <2>2. CASE UNCHANGED <<part, ncVars, programs, framing, acceptance, planning>>
        BY <1>2, <2>2 DEF Is, programs
    <2> QED BY <1>2, <2>1, <2>2
<1> QED BY <1>1, <1>2, PTL DEF Spec

\* Whatever two programs are compared: the edit script of sequenceDiff rebuilds
\* both and no common subsequence allows a shorter one, the change list counts
\* every edit once, the reviewer is told of every sort of event and of every
\* mode that differs, a change of units or positioning is CRITICAL, and only equal
\* programs have no risk.
THEOREM ProgramDiffAlwaysTrue == Spec => []ProgramDiffIsTrue
<1>1. (Is("diff") => left \in Seq(ProgramLines) /\ right \in Seq(ProgramLines)) => ProgramDiffIsTrue
    BY DiffTells DEF ProgramDiffIsTrue
<1> QED BY <1>1, ProgramsStay, PTL
=============================================================================
