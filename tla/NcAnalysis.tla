----------------------------- MODULE NcAnalysis -----------------------------
(***************************************************************************)
(* The review of an NC program (src/src/nc-program.ts) with the risk and   *)
(* cycle-time analyses it calls (src/src/job-intelligence.ts), line by     *)
(* line, beside the controller that executes the same program: `nc` is     *)
(* what analyzeNcProgram keeps, `at` where the machine really is.          *)
(*                                                                         *)
(* A word is what it does: F and S are within the limit of the machine or  *)
(* over it, an arc is a polygon of two chords, or cannot be built.  The    *)
(* corners of the polygon lie on the arc; between them the machine leaves  *)
(* the chords by up to the tolerance.  Every prefix of a program is a      *)
(* program, so Status is a function of the state.  Lengths are integers,   *)
(* an inch is Inch units of length.                                        *)
(***************************************************************************)
EXTENDS Integers, FiniteSetsExt, Sequences

CONSTANTS
    Axes, Vertical,
    Coordinates,     \* the values of axis words
    Origins,         \* G54 and G55: the origins that may be supplied
    Travel, Fixture, Stock, \* intervals of machine coordinates, one per axis
    SafeZ, Clearance, \* max of the radii and safetyMargin
    ArcTolerance,    \* arcChordError: how far an arc leaves its chords
    Bends,           \* points of arcs, from where they start
    Inch, Limit,     \* largest coordinate the analysis supports
    MaxLines

\* Two offsets are modelled.
ASSUME NcAssumption ==
    /\ Vertical \in Axes /\ Coordinates \subseteq Int
    /\ Origins \in [{"G54", "G55"} -> [Axes -> Int]]
    /\ \A box \in {Travel, Fixture, Stock} : box \in [Axes -> [lo : Int, hi : Int]]
    /\ SafeZ \in Int /\ Clearance \in Nat /\ ArcTolerance \in Nat \ {0} /\ Inch \in Nat
    /\ Bends \subseteq [Axes -> Int]

VARIABLES
    input,   \* frame, known offsets, initial motion
    nc,
    at,      \* the machine position the controller really commands
    harm,    \* the risks the executed motion really had
    rebased, \* a work offset other than the one in force was selected
    lines

ncVars == <<input, nc, at, harm, rebased, lines>>

Point == [Axes -> Int]
Shift(p, o) == [x \in Axes |-> p[x] + o[x]]
Zero == [x \in Axes |-> 0]

\* What a G code sets, and what it is reported for.
Sets ==
    [G0 |-> [motion |-> "rapid"], G1 |-> [motion |-> "feed"], G2 |-> [motion |-> "arc"],
     G20 |-> [units |-> "inch"], G21 |-> [units |-> "mm"],
     G90 |-> [absolute |-> TRUE], G91 |-> [absolute |-> FALSE],
     G94 |-> [perMinute |-> TRUE], G95 |-> [perMinute |-> FALSE],
     G96 |-> [constantRpm |-> FALSE], G97 |-> [constantRpm |-> TRUE],
     G80 |-> [cycle |-> FALSE], G81 |-> [cycle |-> TRUE],
     G54 |-> [offset |-> "G54", hasOffset |-> TRUE], G55 |-> [offset |-> "G55", hasOffset |-> TRUE],
     G54_1 |-> [hasOffset |-> TRUE, badOffset |-> TRUE]]
Reported ==
    [G95 |-> "feed_per_revolution", G96 |-> "constant_surface_speed", G81 |-> "canned_cycle",
     G53 |-> "machine_reference_motion", G41 |-> "compensation", G4 |-> "dwell_units",
     G65 |-> "unsupported_g_code"]
Codes == DOMAIN Sets \cup DOMAIN Reported \cup {"none"}
Others == {"none", "macro_or_expression", "subprogram_flow", "rotary_motion", "secondary_axis_motion"}

Fresh(motion) ==
    [motion |-> motion, units |-> "mm", absolute |-> TRUE, perMinute |-> TRUE, constantRpm |-> TRUE,
     cycle |-> FALSE, offset |-> "G54", hasOffset |-> FALSE, badOffset |-> FALSE,
     feed |-> "none", spindle |-> "none", position |-> Zero, stopped |-> FALSE,
     findings |-> {}, segments |-> {}, used |-> {}]

Origin(a) == IF input.frame = "work" /\ a.offset \in input.known THEN Origins[a.offset] ELSE Zero

NcInit ==
    /\ input \in [frame : {"machine", "work"}, known : SUBSET DOMAIN Origins,
                  motion : {"none", "rapid", "feed"}]
    /\ nc = Fresh(input.motion)
    /\ at = IF input.frame = "work" THEN Origins["G54"] ELSE Zero
    /\ harm = {} /\ rebased = FALSE /\ lines = 0
-----------------------------------------------------------------------------
With(a, set) == [x \in DOMAIN a |-> IF x \in DOMAIN set THEN set[x] ELSE a[x]]

\* The modal state after the words of a line that come before its motion.
Modal(a, line) ==
    LET b == IF line.code \in DOMAIN Sets THEN With(a, Sets[line.code]) ELSE a
    IN  [b EXCEPT !.feed = IF line.f = "none" THEN @ ELSE line.f,
                  !.spindle = IF line.s = "none" THEN @ ELSE line.s,
                  !.findings = @ \cup (IF line.code \in DOMAIN Reported THEN {Reported[line.code]} ELSE {})
                                 \cup ({line.other} \ {"none"})
                                 \cup (IF line.arc # "none" /\ b.motion # "arc"
                                       THEN {"arc_words_without_arc"} ELSE {})]

unitFactor(a) == IF a.units = "mm" THEN 1 ELSE Inch

\* The end of the move of a line from p; o is added to absolute words.
Target(a, line, p, o) ==
    [x \in Axes |-> IF x \notin DOMAIN line.words THEN p[x]
                    ELSE line.words[x] * unitFactor(a) + (IF a.absolute THEN o[x] ELSE p[x])]

AlwaysAbsolute(a, line) == Target([a EXCEPT !.absolute = TRUE], line, a.position, Zero) \* mutant: G91 is not looked at
NextPosition(a, line) == Target(a, line, a.position, Zero)

\* The motion a line is not parsed for.
Unparsed(a, line) ==
    CASE a.motion = "none" -> {"motion_mode_unknown"}
      [] a.motion = "feed" /\ (~a.perMinute \/ a.feed = "none") -> {"feed_unknown"}
      [] a.motion = "arc" /\ line.arc # "ok" -> {"arc_motion_unknown"}
      [] OTHER -> {}

\* The segments of a move, in machine coordinates as far as the analysis knows them;
\* those of an arc are the chords of buildArc.
Segments(a, line, end) ==
    LET Seg(p, q) == [motion |-> IF a.motion = "rapid" THEN "rapid" ELSE "feed",
                      start |-> Shift(p, Origin(a)), end |-> Shift(q, Origin(a)),
                      feed |-> IF a.motion = "rapid" THEN "none" ELSE a.feed,
                      spindle |-> IF a.constantRpm THEN a.spindle ELSE "none", arc |-> a.motion = "arc"]
        Via == Shift(a.position, line.via)
    IN  IF a.motion = "arc" THEN {Seg(a.position, Via), Seg(Via, end)} ELSE {Seg(a.position, end)}

InRange(p) == \A x \in Axes : p[x] \in -Limit..Limit

Moved(a, line) ==
    LET end == NextPosition(a, line)
        b == [a EXCEPT !.position = end]
        new == Segments(a, line, end)
    IN  IF ~InRange(end) \/ (Unparsed(a, line) = {} /\ \E s \in new : ~InRange(s.start) \/ ~InRange(s.end))
        THEN [a EXCEPT !.stopped = TRUE, !.findings = @ \cup {"coordinate_range"}]
        ELSE IF a.cycle \/ line.code \in {"G81", "G53"} THEN b
        ELSE IF Unparsed(a, line) # {} THEN [b EXCEPT !.findings = @ \cup Unparsed(a, line)]
        ELSE [b EXCEPT !.segments = @ \cup new,
                       !.used = IF input.frame = "work" THEN @ \cup {a.offset} ELSE @]

HasMotion(a, line) == DOMAIN line.words # {} \/ (a.motion = "arc" /\ line.arc # "none")

\* One line of analyzeNcProgram's loop.
ReviewLine(line) ==
    LET a == Modal(nc, line)
    IN  nc' = IF nc.stopped THEN nc
              ELSE IF line.huge THEN [nc EXCEPT !.stopped = TRUE, !.findings = @ \cup {"non_finite_word"}]
              ELSE IF HasMotion(a, line) THEN Moved(a, line) ELSE a
-----------------------------------------------------------------------------
\* outside, expandedSweep, intersects.
Outside(p) == \E x \in Axes : p[x] < Travel[x].lo \/ p[x] > Travel[x].hi
Intersects(p, q, box, reach) ==
    \A x \in Axes : Min({p[x], q[x]}) - reach <= box[x].hi /\ Max({p[x], q[x]}) + reach >= box[x].lo

Flat(p, q) == \A x \in Axes \ {Vertical} : p[x] = q[x]

\* The findings of analyzeToolpathRisk for one segment.
Risks ==
    {"machine_overtravel", "feed_limit", "spindle_limit", "fixture_swept_envelope", "rapid_below_safe_z",
     "rapid_stock_envelope", "diagonal_down_rapid"}
RiskIds(s, checked, reach) ==
    {id \in Risks :
        \/ id = "machine_overtravel" /\ checked /\ (Outside(s.start) \/ Outside(s.end))
        \/ id = "feed_limit" /\ s.feed = "over"
        \/ id = "spindle_limit" /\ s.spindle = "over"
        \/ id = "fixture_swept_envelope" /\ checked /\ Intersects(s.start, s.end, Fixture, reach)
        \/ id = "rapid_below_safe_z" /\ checked /\ s.motion = "rapid"
           /\ Min({s.start[Vertical], s.end[Vertical]}) < SafeZ
        \/ id = "rapid_stock_envelope" /\ checked /\ s.motion = "rapid"
           /\ Intersects(s.start, s.end, Stock, reach)
        \/ id = "diagonal_down_rapid" /\ s.motion = "rapid" /\ ~Flat(s.start, s.end)
           /\ s.end[Vertical] < s.start[Vertical] /\ (checked => s.end[Vertical] < SafeZ)}
Blockers == {"machine_overtravel", "feed_limit", "spindle_limit", "fixture_swept_envelope"}

travelVerified ==
    IF input.frame = "machine" THEN ~nc.hasOffset
    ELSE nc.used # {} /\ nc.used \subseteq input.known /\ ~nc.badOffset

risk ==
    LET reach == Clearance + (IF \E s \in nc.segments : s.arc THEN ArcTolerance ELSE 0)
    IN  UNION {RiskIds(s, travelVerified, reach) : s \in nc.segments}

\* analyzeCycleTime knows no engagement of a feed move, and no time of one without feed.
unknownMoves == \E s \in nc.segments : s.motion = "feed"

Status ==
    IF risk \cap Blockers # {} THEN "BLOCKED"
    ELSE IF nc.findings # {} \/ ~travelVerified \/ unknownMoves \/ risk # {} THEN "REVIEW"
    ELSE "NO_RISK_FOUND_IN_PARSED_MOTION"
-----------------------------------------------------------------------------
\* buildArc allows a chord that the arc leaves by no more than the tolerance.
NearChord(r, p, q) ==
    \A x \in Axes : r[x] \in (Min({p[x], q[x]}) - ArcTolerance)..(Max({p[x], q[x]}) + ArcTolerance)

\* What a point of an arc between its corners risks: an overtravel by more than the
\* tolerance, or any ("arc_overtravel").
FarOutside(p) == \E x \in Axes : p[x] < Travel[x].lo - ArcTolerance \/ p[x] > Travel[x].hi + ArcTolerance
BendRisks(s) ==
    (RiskIds(s, TRUE, Clearance) \ {"machine_overtravel"})
    \cup (IF FarOutside(s.start) THEN {"machine_overtravel"} ELSE {})
    \cup (IF Outside(s.start) THEN {"arc_overtravel"} ELSE {})

\* The controller executes the line: it knows where the machine is, whatever offset it
\* is told to count from, and runs the arc itself, of which the review has the corners.
\* One other point of it is looked at, which may be any.
Execute(line) ==
    LET a == Modal(nc, line)
        origin == IF input.frame = "work" THEN Origins[a.offset] ELSE Zero
        end == Target(a, line, at, origin)
        Path(p, q) == [motion |-> IF a.motion = "rapid" THEN "rapid" ELSE "feed", start |-> p, end |-> q,
                       feed |-> IF a.motion = "rapid" THEN "none" ELSE a.feed, spindle |-> a.spindle]
        via == Shift(at, line.via)
    IN  /\ at' = end
        /\ rebased' = (rebased \/ a.offset # nc.offset)
        /\ IF ~HasMotion(a, line) \/ nc.stopped THEN harm' = harm
           ELSE IF a.motion # "arc" THEN harm' = harm \cup RiskIds(Path(at, end), TRUE, Clearance)
           ELSE \E bend \in {Shift(at, b) : b \in Bends} :
                   /\ NearChord(bend, at, via) \/ NearChord(bend, via, end)
                   /\ harm' = harm \cup BendRisks(Path(bend, bend))
                                   \cup UNION {RiskIds(Path(p, p), TRUE, Clearance) : p \in {at, via, end}}

\* A line that sets or reports something, and a line that moves: a line with more
\* words does what several such lines do.
Blank == [code |-> "none", words |-> <<>>, f |-> "none", s |-> "none", arc |-> "none", via |-> Zero,
          other |-> "none", huge |-> FALSE]
Words == UNION {[D -> Coordinates] : D \in SUBSET Axes \ {{}}}
Settings ==
    {[Blank EXCEPT !.code = c] : c \in Codes} \cup {[Blank EXCEPT !.other = o] : o \in Others}
    \cup {[Blank EXCEPT !.f = v] : v \in {"ok", "over"}} \cup {[Blank EXCEPT !.s = v] : v \in {"ok", "over"}}
    \cup {[Blank EXCEPT !.huge = TRUE]}
MoveTo(c, w) == [Blank EXCEPT !.code = c, !.words = w]
ArcTo(w, arc, via) == [Blank EXCEPT !.words = w, !.arc = arc, !.via = via]
Moves ==
    {MoveTo(c, w) : c \in {"none", "G53", "G81"}, w \in Words}
    \cup {ArcTo(w, "bad", Zero) : w \in Words}
    \cup {ArcTo(w, "ok", via) : w \in Words \cup {<<>>}, via \in {[Zero EXCEPT ![x] = 1] : x \in Axes}}

\* A program is followed until the first line that is not understood, or that
\* moves the origin: nothing is claimed of what comes after.
Followed == nc.findings = {} /\ ~rebased

Line(line) ==
    /\ lines < MaxLines /\ Followed
    /\ lines' = lines + 1
    /\ ReviewLine(line)
    /\ Execute(line)
    /\ UNCHANGED input

NcNext == \E line \in Settings \cup Moves : Line(line)
-----------------------------------------------------------------------------
\* The review follows the controller through units, modes, offsets and arcs: when
\* it reports nothing unknown and has checked travel, every real collision and excess
\* of a limit BLOCKS, and every real overtravel, for the inside of an arc one by more
\* than the tolerance; and a program it finds no risk in has none and only rapids.
\* Not so when a program changes its work offset on the way: the analysis then keeps
\* the coordinates and the machine keeps its place.
NcReviewSound ==
    /\ (travelVerified /\ nc.findings = {} /\ ~rebased) =>
           (harm \cap Blockers # {} => Status = "BLOCKED")
    /\ (Status = "NO_RISK_FOUND_IN_PARSED_MOTION" /\ ~rebased) => harm = {} /\ ~unknownMoves

\* What JOB-INTELLIGENCE.md says of the chords, that they are conservative: an arc
\* that leaves the travel BLOCKS, however little it does.  The safety margin holds the
\* tolerance, but the travel check looks at the corners and has no margin.
ArcsStayInTravel ==
    (travelVerified /\ nc.findings = {} /\ ~rebased /\ "arc_overtravel" \in harm) => Status = "BLOCKED"
=============================================================================
