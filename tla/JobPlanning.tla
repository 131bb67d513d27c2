----------------------------- MODULE JobPlanning -----------------------------
(***************************************************************************)
(* The planning tools: tool recommendation and the OD turning plan of      *)
(* src/src/job-intelligence.ts, validateMachine of src/src/shop.ts, and    *)
(* preflight and regeneration impact of                                    *)
(* src/src/manufacturing-intelligence.ts.                                  *)
(*                                                                         *)
(* `request` is the validated input of one call; the impact analysis walks *)
(* its queue step by step.  Zero stands for a number that was not given;   *)
(* lengths are integers, diameters are given as radii.                     *)
(***************************************************************************)
EXTENDS Integers, FiniteSetsExt, SequencesExt

CONSTANTS
    Operations,      \* of the impact graph; Unlisted is not among the operations
    Unlisted,
    Lengths,         \* of features, tools and limits
    Shelves,         \* the tool lists a recommendation is asked for
    MaxTopK,
    Radii, Cuts,     \* of stock and profiles; of allowances and depths
    MaxRoughPassPreview,
    InchFactor,
    Rates,           \* feeds and speeds
    ToolNames, MaxListed

VARIABLES
    request,
    impacted, queue  \* of analyzeRegenerationImpact
planning == <<request, impacted, queue>>

\* Measures are natural numbers, and a shelf is a list of tools.
Sizes == {0} \cup Lengths

\* A tool lists what it is for and matches what is asked; its record may be worth a
\* bonus: for its provenance, a recommendation, and a spindle as fast as the machine's.
Bonuses == {p + r + s : p \in {0, 2, 4, 6, 8}, r \in {0, 5}, s \in {0, 3}}
ToolRecord ==
    [lists : SUBSET {"material", "operation"}, matches : SUBSET {"material", "operation"},
     diameter : Sizes, fluteLength : Sizes, overallLength : Sizes, minFeatureDiameter : Sizes,
     maxDepth : Sizes, bonus : Bonuses]
Feature == [internal : BOOLEAN, diameter : Sizes, hasWidth : BOOLEAN, depth : Sizes]
ToolLimits == [maxToolDiameter : Sizes, maxToolLength : Sizes]

ASSUME PlanningAssumption ==
    /\ IsFiniteSet(Operations)
    /\ Lengths \cup Radii \cup Cuts \cup Rates \subseteq Nat
    /\ Shelves \subseteq Seq(ToolRecord)
    /\ {MaxTopK, MaxRoughPassPreview, InchFactor, MaxListed} \subseteq Nat

Given(n) == n # 0
Exceeds(a, b) == Given(a) /\ Given(b) /\ a > b
-----------------------------------------------------------------------------
\* toolCompatibility: what rejects a tool, and how it is ranked.
hardReject(tool, feature, machine) ==
    (tool.lists \ tool.matches)
    \cup (IF feature.internal /\ Exceeds(tool.diameter, feature.diameter) THEN {"internal"} ELSE {})
    \cup (IF Exceeds(feature.depth, tool.maxDepth) THEN {"depth"} ELSE {})
    \cup (IF Exceeds(feature.depth, tool.fluteLength) THEN {"flutes"} ELSE {})
    \cup (IF Exceeds(tool.minFeatureDiameter, feature.diameter) THEN {"minimum"} ELSE {})
    \cup (IF Exceeds(tool.diameter, machine.maxToolDiameter) THEN {"machine diameter"} ELSE {})
    \cup (IF Exceeds(tool.overallLength, machine.maxToolLength) THEN {"machine length"} ELSE {})

\* 12 at a ratio of 0.65, 20 less for a whole diameter, rounded.
RatioScore(d, of) ==
    LET off == IF 65 * of > 100 * d THEN 65 * of - 100 * d ELSE 100 * d - 65 * of
    IN  (2 * Max({0, 1200 * of - 20 * off}) + 100 * of) \div (200 * of)

toolScore(tool, feature) ==
    LET points == 50 + 12 * Cardinality(tool.lists \cap tool.matches)
                  + (IF feature.internal /\ Given(feature.diameter) /\ Given(tool.diameter)
                     THEN RatioScore(tool.diameter, feature.diameter)
                     ELSE IF (Given(feature.diameter) \/ feature.hasWidth) /\ Given(tool.diameter) THEN 3 ELSE 0)
                  + tool.bonus
    IN  Min({100, points})

\* recommendJobTooling and operationToolCandidates: of tools with the same score the
\* first of the shelf, which is in the order of names, comes first.
recommendations(tools, feature, limit, topK) ==
    LET accepted == {i \in DOMAIN tools : hardReject(tools[i], feature, limit) = {}}
        score(i) == toolScore(tools[i], feature)
        Before(i, j) == score(i) > score(j) \/ (score(i) = score(j) /\ i < j)
        Ranked(p) == CHOOSE i \in accepted : Cardinality({j \in accepted : Before(j, i)}) = p - 1
    IN  [p \in 1..Min({topK, Cardinality(accepted)}) |-> tools[Ranked(p)]]
-----------------------------------------------------------------------------
\* planOdRoughFinish, for the tools that were found and the depth they gave.
FloorDiv(a, b) == a \div b  \* mutant: passes rounded down
CeilDiv(a, b) == (a + b - 1) \div b
passes(rough, depth) == IF Given(depth) THEN CeilDiv(rough, depth) ELSE 0

TurningPlan(q) ==
    LET radialRemoval == q.stock - q.minProfile
        roughRemoval == Max({0, radialRemoval - q.allowance})
        passCount == passes(roughRemoval, q.depth)
    IN  [offsets |-> [i \in 1..Min({passCount, MaxRoughPassPreview}) |->
                         Max({q.allowance, roughRemoval - q.depth * i + q.allowance})],
         blocked |-> ~q.tools \/ ~Given(q.depth) \/ radialRemoval < q.allowance
                     \/ passCount > MaxRoughPassPreview,
         warned |-> q.stock <= q.maxProfile]
-----------------------------------------------------------------------------
\* normalizeFeedMmMin: -1 for a feed that cannot be evaluated.  Only a spindleSpeed that
\* says rpm counts: beside any other, or none, the speed of the older format does.
normalizedFeed(op) ==
    LET rpm == IF op.spindleUnit = "rpm" THEN op.spindle ELSE op.legacySpeed
        perInch == IF op.feedUnit \in {"in/min", "in/rev"} THEN InchFactor ELSE 1
    IN  CASE op.feedUnit \in {"mm/min", "in/min"} /\ Given(op.feed) -> op.feed * perInch
          [] op.feedUnit \in {"mm/rev", "in/rev"} /\ Given(op.feed) /\ Given(rpm) -> op.feed * perInch * rpm
          [] OTHER -> -1

\* validateMachine: one check of each limit the profile declares.  Here a spindleSpeed
\* without a unit is taken as rpm.
checkedSpeed(op) == IF op.spindleUnit = "no record" THEN op.legacySpeed ELSE op.spindle
validateMachine(op, profile) ==
    LET Severity(unknown, pass) == IF unknown THEN {"warning"} ELSE IF pass THEN {"info"} ELSE {"error"}
        feed == normalizedFeed(op)
    IN  (IF Given(profile.maxFeed) THEN Severity(feed = -1, feed <= profile.maxFeed) ELSE {})
        \cup (IF Given(profile.maxRpm)
              THEN Severity(~Given(checkedSpeed(op)) \/ op.spindleUnit = "css",
                            checkedSpeed(op) <= profile.maxRpm) ELSE {})
        \cup Severity(~profile.controller, TRUE)
        \cup (IF profile.taper THEN {} ELSE {"warning"})
-----------------------------------------------------------------------------
\* manufacturingPreflight: the severities of its checks.
OfThree(v, ifFalse) == IF v = "true" THEN {} ELSE IF v = "false" THEN {ifFalse} ELSE {"unknown"}
Resolves(op, tools) == op.tool = "none" \/ op.tool \in ToSet(tools)
Duplicated(tools) == \E i, j \in DOMAIN tools : i # j /\ tools[i] = tools[j] /\ tools[i] # "none"

preflightChecks(q) ==
    LET operations == ToSet(q.operations)
    IN  (IF operations = {} \/ (\E op \in operations : op.dirty) THEN {"blocker"} ELSE {})
        \cup (IF q.context THEN {} ELSE {"unknown"})
        \cup (IF q.tools = <<>> THEN {"unknown"} ELSE IF Duplicated(q.tools) THEN {"warning"} ELSE {})
        \cup (IF q.tools # <<>> /\ (\E op \in operations : ~Resolves(op, q.tools)) THEN {"blocker"} ELSE {})
        \cup (IF \A op \in operations : op.complete THEN {} ELSE {"warning"})
        \cup OfThree(q.simulation, "blocker") \cup OfThree(q.collisions, "blocker")
        \cup OfThree(q.baseline, "warning")

preflightStatus(q) ==
    LET checks == preflightChecks(q)
    IN  IF "blocker" \in checks THEN "BLOCKED" ELSE IF checks # {} THEN "REVIEW" ELSE "READY_FOR_REVIEW"
-----------------------------------------------------------------------------
None == [call |-> "none"]
PlanningInit == request = None /\ impacted = {} /\ queue = <<>>

\* The calls.  An operation of a preflight is complete when it has a feed and a speed.
ToolingRequests ==
    [call : {"tooling"}, tools : Shelves, feature : Feature, limit : ToolLimits, topK : 1..MaxTopK]
TurningRequests ==
    {q \in [call : {"turning"}, stock : Radii, minProfile : Radii, maxProfile : Radii, allowance : Cuts \cup {0},
             depth : Cuts \cup {0}, tools : BOOLEAN] : q.minProfile <= q.maxProfile}
MachineRequests ==
    [call : {"machine"},
     profile : [maxFeed : Rates \cup {0}, maxRpm : Rates \cup {0}, controller : BOOLEAN, taper : BOOLEAN],
     op : [feed : Rates \cup {0}, feedUnit : {"mm/min", "in/min", "mm/rev", "in/rev", "other"},
           spindle : Rates \cup {0}, spindleUnit : {"rpm", "css", "unset", "no record"},
           legacySpeed : Rates \cup {0}]]
PreflightOperation == [dirty : BOOLEAN, complete : BOOLEAN, tool : ToolNames \cup {"none"}]
ThreeValued == {"true", "false", "unset"}
PreflightRequests ==
    [call : {"preflight"}, operations : BoundedSeq(PreflightOperation, MaxListed),
     tools : BoundedSeq(ToolNames \cup {"none"}, MaxListed), context : BOOLEAN,
     simulation : ThreeValued, collisions : ThreeValued, baseline : ThreeValued]

AskTooling == request' \in ToolingRequests
AskTurning == request' \in TurningRequests
AskMachine == request' \in MachineRequests
AskPreflight == request' \in PreflightRequests

Ask == request = None /\ (AskTooling \/ AskTurning \/ AskMachine \/ AskPreflight) /\ UNCHANGED <<impacted, queue>>

\* analyzeRegenerationImpact: the operations that depend on a changed one, then
\* those that depend on the first of the queue.
dependents(id) == {op \in Operations : id \in request.dependencies[op]}
AskImpact ==
    /\ request = None
    /\ request' \in [call : {"impact"}, dependencies : [Operations -> SUBSET (Operations \cup {Unlisted})],
                     changed : {{x, y} : x, y \in Operations \cup {Unlisted}}]
    /\ impacted' = {op \in Operations : request'.dependencies[op] \cap request'.changed # {}}
    /\ queue' = SetToSeq(impacted')

EnqueueNothing(new) == Tail(queue) \* mutant: children of children are not walked
Enqueue(new) == Tail(queue) \o SetToSeq(new)

WalkImpact ==
    /\ queue # <<>>
    /\ LET new == dependents(Head(queue)) \ impacted
       IN  impacted' = impacted \cup new /\ queue' = Enqueue(new)
    /\ UNCHANGED request

PlanningNext == Ask \/ AskImpact \/ WalkImpact
-----------------------------------------------------------------------------
\* The impact of a change is everything that depends on it, directly or not: what
\* every set that holds the dependents of the change and its own contains, in graphs
\* with cycles and with operations that are not listed.
Closed(S) == \A op \in Operations : request.dependencies[op] \cap (request.changed \cup S) # {} => op \in S
Impact == {op \in Operations : \A S \in SUBSET Operations : Closed(S) => op \in S}
ImpactIsClosure == (request.call = "impact" /\ queue = <<>>) => impacted = Impact

\* What a tool list promises of a tool for a feature, and what nothing is known of.
Fits(t, f, limit) ==
    /\ t.lists \subseteq t.matches
    /\ Given(t.diameter) => (f.internal /\ Given(f.diameter) => t.diameter <= f.diameter)
                           /\ (Given(limit.maxToolDiameter) => t.diameter <= limit.maxToolDiameter)
    /\ Given(f.depth) => \A reach \in {t.maxDepth, t.fluteLength} : Given(reach) => reach >= f.depth
    /\ Given(f.diameter) => t.minFeatureDiameter <= f.diameter
    /\ Given(limit.maxToolLength) => t.overallLength <= limit.maxToolLength
Proven(t) == t.lists # {} \/ Given(t.bonus)
Unknown(t) == ~Proven(t) /\ ~Given(t.diameter)

\* Recommended tools are of the shelf and fit; one that fits is left out only when
\* the list is full of others no worse, and evidence ranks before ignorance.
ToolsFit ==
    request.call = "tooling" =>
        LET q == request
            best == recommendations(q.tools, q.feature, q.limit, q.topK)
        IN  /\ \A t \in ToSet(best) : t \in ToSet(q.tools) /\ Fits(t, q.feature, q.limit)
            /\ \A t \in ToSet(q.tools) : Fits(t, q.feature, q.limit) =>
                   \/ t \in ToSet(best)
                   \/ Len(best) = q.topK
                      /\ \A p \in DOMAIN best : toolScore(best[p], q.feature) >= toolScore(t, q.feature)
            /\ \A p, r \in DOMAIN best : Unknown(best[p]) /\ Proven(best[r]) => r < p

\* The roughing passes of a turning plan that is not blocked go down to the allowance
\* and never below, without a step deeper than allowed.
PassesReachAllowance ==
    request.call = "turning" =>
        LET q == request
            plan == TurningPlan(q)
            at == <<q.stock - q.minProfile>> \o plan.offsets
        IN  ~plan.blocked =>
              /\ Last(at) = q.allowance
              /\ \A i \in 2..Len(at) : at[i] < at[i - 1] /\ at[i] >= at[i - 1] - q.depth

\* A machine check without warnings bounds the real feed and speed.  Not so the feed of
\* a speed without a unit, as the schema of the tool asks for, but not the function: its
\* revolutions are those of the older format, which nothing compares with the limit.
PerRevolution(op) == op.feedUnit \in {"mm/rev", "in/rev"}
MachineIsBounded ==
    request.call = "machine" =>
        LET op == request.op
            profile == request.profile
            inch == IF op.feedUnit \in {"in/min", "in/rev"} THEN InchFactor ELSE 1
            turns == IF PerRevolution(op) THEN checkedSpeed(op) ELSE 1
        IN  (Given(profile.maxFeed) /\ Given(profile.maxRpm) /\ validateMachine(op, profile) \subseteq {"info"}) =>
                /\ checkedSpeed(op) <= profile.maxRpm
                /\ (op.spindleUnit = "unset" => ~PerRevolution(op)) => op.feed * inch * turns <= profile.maxFeed

\* An operation that passed preflight is current, complete and names one tool.
ReadyIsComplete ==
    request.call = "preflight" /\ preflightStatus(request) = "READY_FOR_REVIEW" =>
        /\ request.operations # <<>> /\ request.context
        /\ \A op \in ToSet(request.operations) :
              /\ ~op.dirty /\ op.complete
              /\ op.tool # "none" => Cardinality({i \in DOMAIN request.tools : request.tools[i] = op.tool}) = 1

\* What the planning tools call ready keeps the limits they were given.
PlansKeepLimits == ToolsFit /\ PassesReachAllowance /\ MachineIsBounded /\ ReadyIsComplete
=============================================================================
