------------------------ MODULE RecommendationRules ------------------------
(***************************************************************************)
(* The recommendation engine's pure parts: the digest of the settings the  *)
(* slicer has, the facts a prompt states, the rules in the order of their  *)
(* precedence, and the checks and the merge of what an LLM answers.        *)
(* Layer heights are hundredths and ratios tenths of a millimetre.         *)
(***************************************************************************)
EXTENDS FilamentMatrix

CONSTANTS
    OverhangThreshold,  \* settings.recommend.overhang_percent_threshold
    ThinWallRatio       \* settings.recommend.thin_wall_min_ratio, in tenths

Rungs == <<8, 12, 16, 20, 24, 28>>
QualityOuterWallSpeed == 120
StrengthWallLoops == 3
StrengthInfill == 25
TimeInfill == 15
FilamentInfill == 10

Recommendable ==
    {"layer_height_mm", "wall_loops", "sparse_infill_percent", "sparse_infill_pattern", "support_enablement",
     "support_type", "support_threshold_angle_deg", "outer_wall_speed_mms"}

\* The setting's field in the digest of a process.
SettingKey ==
    [layer_height_mm |-> "layer_height", wall_loops |-> "wall_loops",
     sparse_infill_percent |-> "sparse_infill_density", sparse_infill_pattern |-> "sparse_infill_pattern",
     support_enablement |-> "enable_support", support_type |-> "support_type",
     support_threshold_angle_deg |-> "support_threshold_angle", outer_wall_speed_mms |-> "outer_wall_speed"]

\* A digest has the fields that parse; the others are None.
ProcessDigest(profile) ==
    IF profile = None THEN None ELSE [key \in {SettingKey[s] : s \in Recommendable} |-> Value(profile.keys, key)]

FilamentDigest(profile) ==
    IF profile = None THEN None
    ELSE [name |-> profile.name, material |-> Material(profile.name, profile.keys),
          density |-> Value(profile.keys, "filament_density"),
          speed |-> Value(profile.keys, "filament_max_volumetric_speed")]

PrinterDigest(profile) ==
    IF profile = None THEN None
    ELSE [name |-> profile.name, height |-> Value(profile.keys, "printable_height")]

-----------------------------------------------------------------------------
(* The facts of the prompt, <<label, value>> *)

Stated(label, value) == IF value = None THEN {} ELSE {<<label, value>>}

ModelLines(model) ==
    UNION {Stated("Watertight", model.watertight), Stated("Component count", model.components),
           Stated("Overhang area", model.overhang), Stated("Overhang faces", model.faces),
           IF model.thinSupported = TRUE THEN Stated("Minimum wall thickness", model.thinWall)
           ELSE {<<"Thin-wall estimate", "unavailable">>}}

ProcessLines(process) ==
    UNION {Stated("Current layer height", process["layer_height"]),
           Stated("Wall count", process["wall_loops"]),
           Stated("Infill density", process["sparse_infill_density"]),
           Stated("Infill pattern", process["sparse_infill_pattern"]),
           Stated("Supports enabled", process["enable_support"]),
           Stated("Support type", process["support_type"]),
           Stated("Support threshold angle", process["support_threshold_angle"]),
           Stated("Current outer wall speed", process["outer_wall_speed"])}

DigestLines(input) ==
    UNION {IF input.printer = None THEN {}
           ELSE Stated("Printer profile", input.printer.name) \cup Stated("Printable height", input.printer.height),
           IF input.process = None THEN {} ELSE ProcessLines(input.process),
           IF input.filament = None THEN {}
           ELSE UNION {Stated("Filament profile", input.filament.name),
                       Stated("Filament material", input.filament.material),
                       Stated("Filament density", input.filament.density),
                       Stated("Filament max volumetric speed", input.filament.speed)}}

StatsLines(stats) ==
    IF stats = None THEN {}
    ELSE Stated("Measured print time", stats.time) \cup Stated("Measured filament weight", stats.weight)

\* Mutant: only the limit on the filament is stated.
FilamentLimitLines(input) == Stated("Requested maximum filament weight", input.maxFilament)

ConstraintLines(input) ==
    Stated("Requested maximum print time", input.maxTime)
    \cup Stated("Requested maximum filament weight", input.maxFilament)

FactsText(input) ==
    UNION {ModelLines(input.model), DigestLines(input), StatsLines(input.stats), ConstraintLines(input)}

-----------------------------------------------------------------------------
(* The rules, each a sequence of proposals *)

Rec(setting, change, current, value, evidence) ==
    [setting |-> setting, change |-> change, current |-> current, value |-> value,
     evidence |-> evidence, source |-> "deterministic"]

When(condition, rec) == IF condition THEN <<rec>> ELSE <<>>

Known(process, key) == process # None /\ process[key] # None

NextLower(height) ==
    LET below == {i \in DOMAIN Rungs : Rungs[i] < height}
    IN IF below = {} THEN None ELSE Rungs[CHOOSE i \in below : \A j \in below : j <= i]

NextHigher(height) ==
    LET above == {i \in DOMAIN Rungs : Rungs[i] > height}
    IN IF above = {} THEN None ELSE Rungs[CHOOSE i \in above : \A j \in above : i <= j]

LayerHeight(process, change, evidence) ==
    LET current == process["layer_height"]
        rung == IF change = "increase" THEN NextHigher(current) ELSE NextLower(current)
    IN When(rung # None, Rec("layer_height_mm", change, current, rung,
                             evidence \cup {<<"Current layer height", current>>}))

TwoWalls(process, evidence) ==
    LET walls == process["wall_loops"]
    IN When(walls > 2, Rec("wall_loops", "decrease", walls, 2, evidence \cup {<<"Wall count", walls>>}))

MoreWalls(process, least, wanted) ==
    LET walls == process["wall_loops"]
    IN When(walls < least, Rec("wall_loops", "increase", walls, wanted, {<<"Wall count", walls>>}))

LessInfill(process, target, evidence) ==
    LET infill == process["sparse_infill_density"]
    IN When(infill > target, Rec("sparse_infill_percent", "decrease", infill, target,
                                 evidence \cup {<<"Infill density", infill>>}))

If(known, proposals) == IF known THEN proposals ELSE <<>>

ThinWallRule(input) ==
    LET model == input.model
    IN If(/\ model.thinSupported = TRUE /\ model.thinWall # None
          /\ Known(input.process, "layer_height")
          /\ 10 * model.thinWall < ThinWallRatio * input.process["layer_height"],
          LayerHeight(input.process, "decrease", {<<"Minimum wall thickness", model.thinWall>>}))

OverhangRule(input) ==
    LET model == input.model
    IN If(/\ model.overhang # None /\ model.overhang >= OverhangThreshold
          /\ Known(input.process, "enable_support") /\ ~input.process["enable_support"],
          <<Rec("support_enablement", "enable", FALSE, TRUE,
                {<<"Overhang area", model.overhang>>} \cup Stated("Overhang faces", model.faces))>>)

Exceeds(stats, measured, limit) == stats # None /\ measured # None /\ limit # None /\ measured > limit

TimeConstraint(input) ==
    LET process == input.process
        measured == {<<"Measured print time", input.stats.time>>}
        requested == {<<"Requested maximum print time", input.maxTime>>}
        layer == LayerHeight(process, "increase", {})
        \* the layer height's evidence is the two times, not the height
        coarser == [i \in DOMAIN layer |-> [layer[i] EXCEPT !.evidence = measured \cup requested]]
    IN If(input.stats # None /\ Exceeds(input.stats, input.stats.time, input.maxTime),
          If(Known(process, "layer_height"), coarser)
          \o If(Known(process, "wall_loops"), TwoWalls(process, measured))
          \o If(Known(process, "sparse_infill_density"), LessInfill(process, TimeInfill, measured)))

FilamentConstraint(input) ==
    LET process == input.process
        measured == {<<"Measured filament weight", input.stats.weight>>}
    IN If(input.stats # None /\ Exceeds(input.stats, input.stats.weight, input.maxFilament),
          If(Known(process, "sparse_infill_density"), LessInfill(process, FilamentInfill, measured))
          \o If(Known(process, "wall_loops"), TwoWalls(process, measured)))

SurfaceQualityGoal(process) ==
    LET speed == process["outer_wall_speed"]
    IN If(Known(process, "layer_height"), LayerHeight(process, "decrease", {}))
       \o If(Known(process, "wall_loops"), MoreWalls(process, 2, 2))
       \o If(Known(process, "outer_wall_speed"),
             When(speed > QualityOuterWallSpeed,
                  Rec("outer_wall_speed_mms", "decrease", speed, QualityOuterWallSpeed,
                      {<<"Current outer wall speed", speed>>})))

StrengthGoal(process) ==
    LET infill == process["sparse_infill_density"]
        pattern == process["sparse_infill_pattern"]
    IN If(Known(process, "wall_loops"), MoreWalls(process, StrengthWallLoops, StrengthWallLoops))
       \o If(Known(process, "sparse_infill_density"),
             When(infill < StrengthInfill,
                  Rec("sparse_infill_percent", "increase", infill, StrengthInfill, {<<"Infill density", infill>>})))
       \o If(Known(process, "sparse_infill_pattern"),
             When(pattern \notin {"gyroid", "crosshatch"},
                  Rec("sparse_infill_pattern", "set", pattern, "gyroid", {<<"Infill pattern", pattern>>})))

PrintTimeGoal(process) ==
    If(Known(process, "layer_height"), LayerHeight(process, "increase", {}))
    \o If(Known(process, "sparse_infill_density"), LessInfill(process, TimeInfill, {}))
    \o If(Known(process, "wall_loops"), TwoWalls(process, {}))

FilamentUsageGoal(process) ==
    If(Known(process, "sparse_infill_density"), LessInfill(process, FilamentInfill, {}))
    \o If(Known(process, "wall_loops"), TwoWalls(process, {}))

GoalRules(input) ==
    IF input.process = None \/ input.goal = "balanced" THEN <<>>
    ELSE IF input.goal = "surface_quality" THEN SurfaceQualityGoal(input.process)
    ELSE IF input.goal = "strength" THEN StrengthGoal(input.process)
    ELSE IF input.goal = "print_time" THEN PrintTimeGoal(input.process)
    ELSE FilamentUsageGoal(input.process)

\* Geometry before constraints before the goal.
Proposals(input) ==
    ThinWallRule(input) \o OverhangRule(input)
    \o TimeConstraint(input) \o FilamentConstraint(input) \o GoalRules(input)

-----------------------------------------------------------------------------
(* _Builder.add: the first proposal for a setting decides its direction *)

Key(rec) == <<rec.setting, rec.change>>

\* Mutant: a proposal is refused only when its setting and direction are taken.
AddAnyDirection(recs, conflicts, rec) ==
    [recs |-> IF \E i \in DOMAIN recs : Key(recs[i]) = Key(rec) THEN recs ELSE Append(recs, rec),
     conflicts |-> conflicts]

Add(recs, conflicts, rec) ==
    LET taken == \E i \in DOMAIN recs : recs[i].setting = rec.setting
        agreed == \E i \in DOMAIN recs : Key(recs[i]) = Key(rec)
    IN [recs |-> IF taken THEN recs ELSE Append(recs, rec),
        conflicts |-> IF taken /\ ~agreed THEN conflicts \cup {rec.setting} ELSE conflicts]

-----------------------------------------------------------------------------
(* What the LLM answers *)

KnownCurrentValue(input, setting) ==
    IF input.process = None THEN None ELSE input.process[SettingKey[setting]]

\* No other goal, no setting beyond the list, no current value nobody
\* measured, no evidence but the facts.
ValidLLMSet(set, input) ==
    /\ set.goal = input.goal
    /\ \A i \in DOMAIN set.recs :
        /\ set.recs[i].setting \in Recommendable
        /\ KnownCurrentValue(input, set.recs[i].setting) = None => set.recs[i].current = None
        /\ set.recs[i].evidence \subseteq FactsText(input)

\* A candidate stands for an answer of its key.
Standing(candidates, rec) ==
    LET same == {candidate \in candidates : Key(candidate) = Key(rec)}
    IN IF same # {} THEN CHOOSE candidate \in same : TRUE ELSE [rec EXCEPT !.source = "llm"]

\* Mutant: what the LLM leaves out is left out.
MergeAnswered(candidates, set) == {Standing(candidates, set.recs[i]) : i \in DOMAIN set.recs}

\* The candidates the answer leaves out follow what stands for its answers.
Merge(candidates, set) ==
    LET answered == {Key(set.recs[i]) : i \in DOMAIN set.recs}
    IN {Standing(candidates, set.recs[i]) : i \in DOMAIN set.recs}
       \cup {candidate \in candidates : Key(candidate) \notin answered}

=============================================================================
