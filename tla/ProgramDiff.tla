----------------------------- MODULE ProgramDiff -----------------------------
(***************************************************************************)
(* Comparison of NC programs: the Myers diff, its change list and the      *)
(* semantic summary of src/src/shop.ts, and the regression verdict of      *)
(* src/src/manufacturing-intelligence.ts.                                  *)
(*                                                                         *)
(* A line is a member of a small set; Meaning says which modes it sets and *)
(* which values it adds to each kind of event.  Blank lines are gone.      *)
(***************************************************************************)
EXTENDS Integers, FiniteSetsExt, SequencesExt

CONSTANTS
    ProgramLines,
    WordValues,  \* values of events
    Meaning,     \* of a line: [modes, events, rapid]
    MaxLength,   \* of the programs compared
    MaxValues    \* spindle and feed values kept of a program: 1000 in the code

Kinds == {"tool", "feed", "spindle", "offset", "compensation", "coolant", "retract"}
Modes == {"units", "positioning", "plane", "cycle"}

ASSUME DiffAssumption ==
    /\ \A l \in ProgramLines, k \in Kinds : Meaning[l].events[k] \in Seq(WordValues)
    /\ {MaxLength, MaxValues} \subseteq Nat

VARIABLES left, right
programs == <<left, right>>
-----------------------------------------------------------------------------
\* sequenceDiff: v[k] is how far the rounds have got on diagonal k; trace[d] is
\* what they left for round d.
Diagonals(d) == {2 * i - d : i \in 0..d}
Further(v, d, k) == IF k = -d \/ (k # d /\ v[k - 1] < v[k + 1]) THEN k + 1 ELSE k - 1
StartX(v, d, k) == IF Further(v, d, k) = k + 1 THEN v[k + 1] ELSE v[k - 1] + 1

Slide(a, b, x, y) ==
    Max({i \in 0..Len(a) : \A j \in 1..i : x + j <= Len(a) /\ y + j <= Len(b) /\ a[x + j] = b[y + j]})

FarthestX(a, b, v, d, k) ==
    LET x == StartX(v, d, k)
    IN  x + Slide(a, b, x, x - k)
Round(a, b, v, d) == [k \in DOMAIN v |-> IF k \in Diagonals(d) THEN FarthestX(a, b, v, d, k) ELSE v[k]]

trace(a, b) ==
    LET far == Len(a) + Len(b) + 1
        before[d \in 0..far] == IF d = 0 THEN [k \in (-far)..far |-> 0] ELSE Round(a, b, before[d - 1], d - 1)
    IN  before

Found(a, b, d, v) == \E k \in Diagonals(d) : v[k] >= Len(a) /\ v[k] - k >= Len(b)
foundD(a, b) == Min({d \in 0..(Len(a) + Len(b)) : Found(a, b, d, trace(a, b)[d + 1])})

Op(type, before, after) == [type |-> type, before |-> before, after |-> after]
EqualsOneShort(a, b, x, y, n) == \* mutant: the walk back stops one line early
    [i \in 1..(IF n > 1 THEN n - 1 ELSE n) |-> Op("equal", a[x + i], b[y + i])]
Equals(a, b, x, y, n) == [i \in 1..n |-> Op("equal", a[x + i], b[y + i])]

\* The walk back through round d, and through all of them: the last loops of the
\* code find nothing but the equal lines round 0 started with.
BackOne(a, b, v, d, s) ==
    LET prevK == Further(v, d, s.x - s.y)
        prevX == v[prevK]
        prevY == prevX - prevK
        n == Min({s.x - prevX, s.y - prevY})
        edit == IF s.x - n = prevX THEN Op("insert", "none", b[prevY + 1]) ELSE Op("delete", a[prevX + 1], "none")
    IN  [x |-> prevX, y |-> prevY, ops |-> <<edit>> \o Equals(a, b, s.x - n, s.y - n, n) \o s.ops]
WalkBack(a, b, D) ==
    LET back[i \in 0..D] ==
            IF i = 0 THEN [x |-> Len(a), y |-> Len(b), ops |-> <<>>]
            ELSE BackOne(a, b, trace(a, b)[D - i + 1], D - i + 1, back[i - 1])
    IN  back
sequenceDiff(a, b) ==
    LET D == foundD(a, b)
        s == WalkBack(a, b, D)[D]
    IN  Equals(a, b, 0, 0, s.x) \o s.ops

\* ncChangesFromOps: the deletes and inserts of a hunk are paired by position.
NoHunk == [deletes |-> <<>>, inserts |-> <<>>, result |-> <<>>]
Change(kind, before, after) == [kind |-> kind, before |-> before, after |-> after]
Flush(s) ==
    LET del == Len(s.deletes)
        ins == Len(s.inserts)
    IN  [NoHunk EXCEPT !.result = s.result \o
            [i \in 1..Max({del, ins}) |->
                IF i > ins THEN Change("removed", s.deletes[i], "none")
                ELSE IF i > del THEN Change("added", "none", s.inserts[i])
                ELSE Change("modified", s.deletes[i], s.inserts[i])]]
Take(s, op) ==
    IF op.type = "equal" THEN Flush(s)
    ELSE IF op.type = "delete" THEN [s EXCEPT !.deletes = Append(@, op.before)]
    ELSE [s EXCEPT !.inserts = Append(@, op.after)]
Hunks(ops) ==
    LET after[i \in 0..Len(ops)] == IF i = 0 THEN NoHunk ELSE Take(after[i - 1], ops[i])
    IN  after
ncChangesFromOps(ops) == Flush(Hunks(ops)[Len(ops)]).result

ChangeCount(a, b) == Len(ncChangesFromOps(sequenceDiff(a, b)))
-----------------------------------------------------------------------------
\* summarizeNc: the last mode of each sort, and the events in their order.
Kept(kind, values) ==
    IF kind \in {"feed", "spindle"} THEN SubSeq(values, 1, Min({Len(values), MaxValues})) ELSE values
ModesOf(p) ==
    [m \in Modes |-> LET setting == {i \in DOMAIN p : Meaning[p[i]].modes[m] # "kept"}
                     IN  IF setting = {} THEN "unset" ELSE Meaning[p[Max(setting)]].modes[m]]
Events(p, kind) ==
    LET upTo[i \in 0..Len(p)] == IF i = 0 THEN <<>> ELSE upTo[i - 1] \o Meaning[p[i]].events[kind]
    IN  upTo
EventsOf(p, kind) == Kept(kind, Events(p, kind)[Len(p)])
RapidMoves(p) == Cardinality({i \in DOMAIN p : Meaning[p[i]].rapid})

\* semanticDifference and analyzePostRegression: what the reviewer is told, and
\* how much it weighs.
reasons(p, q) ==
    {m \in Modes : ModesOf(p)[m] # ModesOf(q)[m]}
    \cup {k \in Kinds : ChangeCount(EventsOf(p, k), EventsOf(q, k)) > 0}
    \cup (IF RapidMoves(p) # RapidMoves(q) THEN {"rapid"} ELSE {})
Weighed == << <<"units", 100>>, <<"positioning", 100>>, <<"offset", 60>>, <<"compensation", 50>>, <<"tool", 40>>,
              <<"spindle", 25>>, <<"feed", 25>>, <<"retract", 25>>, <<"plane", 25>>, <<"cycle", 20>>,
              <<"coolant", 10>>, <<"rapid", 10>> >>
score(told) ==
    LET sum[i \in 0..Len(Weighed)] ==
            IF i = 0 THEN 0 ELSE sum[i - 1] + (IF Weighed[i][1] \in told THEN Weighed[i][2] ELSE 0)
    IN  sum
regressionRisk(p, q) ==
    IF ChangeCount(p, q) = 0 THEN "NONE"
    ELSE LET points == score(reasons(p, q))[Len(Weighed)]
         IN  IF points >= 100 THEN "CRITICAL"
             ELSE IF points >= 50 THEN "HIGH" ELSE IF points >= 20 THEN "MEDIUM" ELSE "LOW"
-----------------------------------------------------------------------------
\* Programs are posted line by line.
DiffInit == left = <<>> /\ right = <<>>
PostLeft(l) == Len(left) < MaxLength /\ right = <<>> /\ left' = Append(left, l) /\ UNCHANGED right
PostRight(l) == Len(right) < MaxLength /\ right' = Append(right, l) /\ UNCHANGED left
DiffNext == \E l \in ProgramLines : PostLeft(l) \/ PostRight(l)

Upto(ops, i, types) == Cardinality({j \in 1..i : ops[j].type \in types})
Listed(changes, kinds) == Cardinality({i \in DOMAIN changes : changes[i].kind \in kinds})

\* Lines that two programs have in common, in the same order.
CommonLines(a, b) ==
    {P \in SUBSET {p \in (DOMAIN a) \X (DOMAIN b) : a[p[1]] = b[p[2]]} : \A p, q \in P : p[1] < q[1] <=> p[2] < q[2]}

\* The script rebuilds both programs.
Rebuilds(ops, a, b) ==
    /\ Upto(ops, Len(ops), {"equal", "delete"}) = Len(a) /\ Upto(ops, Len(ops), {"equal", "insert"}) = Len(b)
    /\ \A i \in DOMAIN ops :
          /\ ops[i].type # "insert" => ops[i].before = a[Upto(ops, i, {"equal", "delete"})]
          /\ ops[i].type # "delete" => ops[i].after = b[Upto(ops, i, {"equal", "insert"})]

\* The script of the diff rebuilds both programs and no script is shorter; the
\* change list counts every line of it once; a change of any tool, feed, offset
\* or other event (of the first MaxValues) and of any final mode is a reason, and
\* only programs without a difference have no risk.
DiffTellsTheChange ==
    LET ops == sequenceDiff(left, right)
        changes == ncChangesFromOps(ops)
        deletes == Upto(ops, Len(ops), {"delete"})
        inserts == Upto(ops, Len(ops), {"insert"})
        told == reasons(left, right)
        risk == regressionRisk(left, right)
    IN  /\ Rebuilds(ops, left, right)
        /\ \A P \in CommonLines(left, right) : deletes + inserts <= Len(left) + Len(right) - 2 * Cardinality(P)
        /\ Listed(changes, {"removed", "modified"}) = deletes /\ Listed(changes, {"added", "modified"}) = inserts
        /\ risk = "NONE" <=> left = right
        /\ \A k \in Kinds : k \in told <=> EventsOf(left, k) # EventsOf(right, k)
        /\ \A m \in {"units", "positioning"} : ModesOf(left)[m] # ModesOf(right)[m] => risk = "CRITICAL"
=============================================================================
