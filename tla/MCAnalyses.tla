------------------------------ MODULE MCAnalyses ------------------------------
(***************************************************************************)
(* The analyses and the harness, which share nothing, checked in one run:  *)
(* `part` says which of them a behaviour is about.                         *)
(***************************************************************************)
EXTENDS NcAnalysis, ProgramDiff, Framing, Acceptance, JobPlanning

VARIABLE part

mcAxes == {"x", "z"}
mcCoordinates == {-2, 2}
mcOrigins == [G54 |-> [x |-> 1, z |-> 0], G55 |-> [x |-> 0, z |-> -1]]
mcTravel == [x |-> [lo |-> -2, hi |-> 3], z |-> [lo |-> -2, hi |-> 3]]
mcFixture == [x |-> [lo |-> -4, hi |-> -1], z |-> [lo |-> -4, hi |-> -1]]
mcBends == [mcAxes -> -2..2]
mcStock == [x |-> [lo |-> 0, hi |-> 3], z |-> [lo |-> -4, hi |-> -1]]

NoModes == [m \in Modes |-> "kept"]
NoEvents == [k \in Kinds |-> <<>>]
mcMeaning ==
    [t1 |-> [modes |-> NoModes, events |-> [NoEvents EXCEPT !.tool = <<"1">>], rapid |-> FALSE],
     f1 |-> [modes |-> NoModes, events |-> [NoEvents EXCEPT !.feed = <<"1">>], rapid |-> TRUE],
     f2 |-> [modes |-> NoModes, events |-> [NoEvents EXCEPT !.feed = <<"2">>, !.offset = <<"G54">>], rapid |-> FALSE],
     g20 |-> [modes |-> [NoModes EXCEPT !.units = "inch"], events |-> NoEvents, rapid |-> FALSE]]

\* The array pool rents powers of two.
mcRentSize == [n \in 0..LargestBuffer |-> Min({2^e : e \in 0..n} \ 0..(n - 1))]

\* Tools of which up to two sizes are known, or what they are for, each beside a tool
\* nothing is known of, in either order, and three of a few.
mcSizes == {"diameter", "fluteLength", "overallLength", "minFeatureDiameter", "maxDepth"}
mcTool(lists, matches, sizes, bonus) ==
    [k \in mcSizes \cup {"lists", "matches", "bonus"} |->
        CASE k = "lists" -> lists [] k = "matches" -> matches [] k = "bonus" -> bonus
          [] k \in mcSizes -> IF k \in DOMAIN sizes THEN sizes[k] ELSE 0]
mcNothing == mcTool({}, {}, <<>>, 0)
mcSized == {mcTool({}, {}, sizes, 0) : sizes \in UNION {[D -> Lengths] : D \in {{k, l} : k, l \in mcSizes}}}
mcListed ==
    {mcTool(lists, matches, <<>>, bonus) :
        lists, matches \in SUBSET {"material", "operation"}, bonus \in {0, 2}}
mcFew ==
    {mcNothing, mcTool({"material"}, {"material"}, [diameter |-> 1], 0), mcTool({}, {}, [diameter |-> 1], 4),
     mcTool({"material"}, {"material"}, [diameter |-> 2], 0)}
mcShelves ==
    {<<mcNothing, t>> : t \in mcSized \cup mcListed} \cup {<<t, mcNothing>> : t \in mcSized \cup mcListed}
    \cup [1..3 -> mcFew]

Is(p) == part = p

Init ==
    /\ part \in {"nc", "diff", "framing", "acceptance", "planning"}
    /\ IF Is("nc") THEN NcInit
       ELSE input = <<>> /\ nc = <<>> /\ at = <<>> /\ harm = <<>> /\ rebased = <<>> /\ lines = <<>>
    /\ IF Is("diff") THEN DiffInit ELSE left = <<>> /\ right = <<>>
    /\ IF Is("framing") THEN FramingInit
       ELSE stream = <<>> /\ received = <<>> /\ reader = <<>> /\ pool = <<>>
    /\ IF Is("acceptance") THEN AcceptanceInit
       ELSE mode = <<>> /\ allowWrites = <<>> /\ todo = <<>> /\ results = <<>> /\ ctx = <<>> /\ feed = <<>>
            /\ edits = <<>> /\ wrote = <<>>
    /\ IF Is("planning") THEN PlanningInit ELSE request = <<>> /\ impacted = <<>> /\ queue = <<>>

Next ==
    /\ UNCHANGED part
    /\ IF Is("nc") THEN NcNext ELSE UNCHANGED ncVars
    /\ IF Is("diff") THEN DiffNext ELSE UNCHANGED programs
    /\ IF Is("framing") THEN FramingNext ELSE UNCHANGED framing
    /\ IF Is("acceptance") THEN AcceptanceNext ELSE UNCHANGED acceptance
    /\ IF Is("planning") THEN PlanningNext ELSE UNCHANGED planning

Spec == Init /\ [][Next]_<<part, ncVars, programs, framing, acceptance, planning>>

\* The properties of the parts, each where it means something.
NcReviewIsSound == Is("nc") => NcReviewSound
ChordingIsConservative == Is("nc") => ArcsStayInTravel
ProgramDiffIsTrue == Is("diff") => DiffTellsTheChange
DecodersAgree == Is("framing") => FramesSurviveChunking
HarnessIsHonest == Is("acceptance") => ReadyMeansRestored
ImpactIsComplete == Is("planning") => ImpactIsClosure
PlansAreWithinLimits == Is("planning") => PlansKeepLimits
===============================================================================
