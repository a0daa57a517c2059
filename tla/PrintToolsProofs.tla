--------------------------- MODULE PrintToolsProofs ---------------------------
(***************************************************************************)
(* What holds of the print tools for every store, every change of it and   *)
(* every request: the order of the rules, what a recommendation cites, the *)
(* documents a slice on demand measures and the directories of the jobs.   *)
(***************************************************************************)
EXTENDS PrintTools, TLAPS, WellFoundedInduction

(* What a rule may propose for an input: a setting of the list, its current *)
(* value as far as it is known, and facts of the prompt.                    *)
Currents(input) == {KnownCurrentValue(input, s) : s \in Recommendable}

Targets(input) ==
    UNION {{NextLower(KnownCurrentValue(input, "layer_height_mm")), NextHigher(KnownCurrentValue(input, "layer_height_mm"))},
           {2, 3, 10, 15, 25, 120}, {TRUE}, {"gyroid"}}

ValidRecs(input) ==
    {rec \in [setting : Recommendable, change : {"increase", "decrease", "enable", "set"}, current : Currents(input),
              value : Targets(input), evidence : SUBSET FactsText(input), source : {"deterministic"}] :
        KnownCurrentValue(input, rec.setting) = None => rec.current = None}

\* A proposal of a rule for a known setting.
LEMMA RecValid ==
    ASSUME NEW input, input.process # None, NEW setting \in Recommendable,
           NEW change \in {"increase", "decrease", "enable", "set"}, NEW value \in Targets(input),
           NEW evidence, evidence \subseteq FactsText(input)
    PROVE  Rec(setting, change, input.process[SettingKey[setting]], value, evidence) \in ValidRecs(input)
  <1>1. input.process[SettingKey[setting]] = KnownCurrentValue(input, setting)
    BY DEF KnownCurrentValue
  <1>2. KnownCurrentValue(input, setting) \in Currents(input)
    BY DEF Currents
  <1> HIDE DEF KnownCurrentValue, Currents, Targets, FactsText
  <1> QED BY <1>1, <1>2, SMT DEF Rec, ValidRecs

\* The lines of the digest are facts.
LEMMA ProcessFacts ==
    ASSUME NEW input, input.process # None
    PROVE  ProcessLines(input.process) \subseteq FactsText(input)
  BY DEF FactsText, DigestLines

LEMMA LayerHeightValid ==
    ASSUME NEW input, Known(input.process, "layer_height"), NEW change \in {"increase", "decrease"},
           NEW evidence, evidence \subseteq FactsText(input)
    PROVE  LayerHeight(input.process, change, evidence) \in Seq(ValidRecs(input))
  <1> DEFINE current == input.process["layer_height"]
             rung == IF change = "increase" THEN NextHigher(current) ELSE NextLower(current)
             cited == evidence \cup {<<"Current layer height", current>>}
  <1>1. <<"Current layer height", current>> \in ProcessLines(input.process)
    BY DEF ProcessLines, Stated, Known
  <1>2. cited \subseteq FactsText(input)
    BY <1>1, ProcessFacts DEF Known
  <1>3. SettingKey["layer_height_mm"] = "layer_height" /\ "layer_height_mm" \in Recommendable
    BY DEF SettingKey, Recommendable
  <1>4. rung \in Targets(input)
    BY <1>3 DEF Targets, KnownCurrentValue, Known
  <1>5. Rec("layer_height_mm", change, current, rung, cited) \in ValidRecs(input)
    <2> HIDE DEF rung, cited
    <2> QED BY <1>2, <1>3, <1>4, RecValid DEF Known
  <1>6. LayerHeight(input.process, change, evidence)
          = IF rung # None THEN <<Rec("layer_height_mm", change, current, rung, cited)>> ELSE <<>>
    BY DEF LayerHeight, When
  <1> HIDE DEF rung, cited, current
  <1> QED BY <1>5, <1>6

\* A proposal made on a condition.
LEMMA ValidWhen ==
    ASSUME NEW input, NEW condition \in BOOLEAN, NEW rec \in ValidRecs(input)
    PROVE  When(condition, rec) \in Seq(ValidRecs(input))
  <1> HIDE DEF ValidRecs
  <1> QED BY DEF When

LEMMA TwoWallsValid ==
    ASSUME NEW input, Known(input.process, "wall_loops"), NEW evidence, evidence \subseteq FactsText(input)
    PROVE  TwoWalls(input.process, evidence) \in Seq(ValidRecs(input))
  <1> DEFINE walls == input.process["wall_loops"]
             cited == evidence \cup {<<"Wall count", walls>>}
  <1>1. cited \subseteq FactsText(input)
    BY ProcessFacts DEF ProcessLines, Stated, Known
  <1>2. SettingKey["wall_loops"] = "wall_loops" /\ "wall_loops" \in Recommendable /\ 2 \in Targets(input)
    BY DEF SettingKey, Recommendable, Targets
  <1>3. Rec("wall_loops", "decrease", walls, 2, cited) \in ValidRecs(input)
    <2> HIDE DEF cited
    <2> QED BY <1>1, <1>2, RecValid DEF Known
  <1>4. TwoWalls(input.process, evidence) = When(walls > 2, Rec("wall_loops", "decrease", walls, 2, cited))
    BY DEF TwoWalls
  <1>5. (walls > 2) \in BOOLEAN
    OBVIOUS
  <1> HIDE DEF walls, cited
  <1> QED BY <1>3, <1>4, <1>5, ValidWhen

LEMMA MoreWallsValid ==
    ASSUME NEW input, Known(input.process, "wall_loops"), NEW least, NEW wanted \in {2, 3}
    PROVE  MoreWalls(input.process, least, wanted) \in Seq(ValidRecs(input))
  <1> DEFINE walls == input.process["wall_loops"]
             cited == {<<"Wall count", walls>>}
  <1>1. cited \subseteq FactsText(input)
    BY ProcessFacts DEF ProcessLines, Stated, Known
  <1>2. SettingKey["wall_loops"] = "wall_loops" /\ "wall_loops" \in Recommendable /\ wanted \in Targets(input)
    BY DEF SettingKey, Recommendable, Targets
  <1>3. Rec("wall_loops", "increase", walls, wanted, cited) \in ValidRecs(input)
    <2> HIDE DEF cited
    <2> QED BY <1>1, <1>2, RecValid DEF Known
  <1>4. MoreWalls(input.process, least, wanted) = When(walls < least, Rec("wall_loops", "increase", walls, wanted, cited))
    BY DEF MoreWalls
  <1>5. (walls < least) \in BOOLEAN
    OBVIOUS
  <1> HIDE DEF walls, cited
  <1> QED BY <1>3, <1>4, <1>5, ValidWhen

LEMMA LessInfillValid ==
    ASSUME NEW input, Known(input.process, "sparse_infill_density"), NEW target \in {10, 15},
           NEW evidence, evidence \subseteq FactsText(input)
    PROVE  LessInfill(input.process, target, evidence) \in Seq(ValidRecs(input))
  <1> DEFINE infill == input.process["sparse_infill_density"]
             cited == evidence \cup {<<"Infill density", infill>>}
  <1>1. cited \subseteq FactsText(input)
    BY ProcessFacts DEF ProcessLines, Stated, Known
  <1>2. /\ SettingKey["sparse_infill_percent"] = "sparse_infill_density"
        /\ "sparse_infill_percent" \in Recommendable
        /\ target \in Targets(input)
    BY DEF SettingKey, Recommendable, Targets
  <1>3. Rec("sparse_infill_percent", "decrease", infill, target, cited) \in ValidRecs(input)
    <2> HIDE DEF cited
    <2> QED BY <1>1, <1>2, RecValid DEF Known
  <1>4. LessInfill(input.process, target, evidence) = When(infill > target, Rec("sparse_infill_percent", "decrease", infill, target, cited))
    BY DEF LessInfill
  <1>5. (infill > target) \in BOOLEAN
    OBVIOUS
  <1> HIDE DEF infill, cited
  <1> QED BY <1>3, <1>4, <1>5, ValidWhen

\* Sequences of valid proposals are closed under what the rules do with them.
LEMMA ValidTogether ==
    ASSUME NEW input, NEW s \in Seq(ValidRecs(input)), NEW t \in Seq(ValidRecs(input))
    PROVE  s \o t \in Seq(ValidRecs(input))
  <1> HIDE DEF ValidRecs
  <1> QED OBVIOUS

LEMMA ValidIf ==
    ASSUME NEW input, NEW known \in BOOLEAN, NEW s, known => s \in Seq(ValidRecs(input))
    PROVE  If(known, s) \in Seq(ValidRecs(input))
  <1> HIDE DEF ValidRecs
  <1> QED BY DEF If

LEMMA ThinWallValid ==
    ASSUME NEW input
    PROVE  ThinWallRule(input) \in Seq(ValidRecs(input))
  <1> DEFINE evidence == {<<"Minimum wall thickness", input.model.thinWall>>}
             fires == /\ input.model.thinSupported = TRUE /\ input.model.thinWall # None
                      /\ Known(input.process, "layer_height")
                      /\ 10 * input.model.thinWall < ThinWallRatio * input.process["layer_height"]
  <1>1. ASSUME fires PROVE LayerHeight(input.process, "decrease", evidence) \in Seq(ValidRecs(input))
    <2>1. evidence \subseteq FactsText(input)
      BY <1>1 DEF FactsText, ModelLines, Stated
    <2> HIDE DEF evidence
    <2> QED BY <1>1, <2>1, LayerHeightValid
  <1>2. ThinWallRule(input) = If(fires, LayerHeight(input.process, "decrease", evidence))
    BY DEF ThinWallRule
  <1>3. fires \in BOOLEAN
    OBVIOUS
  <1> HIDE DEF fires, evidence
  <1> QED BY <1>1, <1>2, <1>3, ValidIf

LEMMA OverhangValid ==
    ASSUME NEW input
    PROVE  OverhangRule(input) \in Seq(ValidRecs(input))
  <1> DEFINE evidence == {<<"Overhang area", input.model.overhang>>} \cup Stated("Overhang faces", input.model.faces)
             fires == /\ input.model.overhang # None /\ input.model.overhang >= OverhangThreshold
                      /\ Known(input.process, "enable_support") /\ ~input.process["enable_support"]
             rec == Rec("support_enablement", "enable", FALSE, TRUE, evidence)
  <1>1. ASSUME fires PROVE rec \in ValidRecs(input)
    <2>1. evidence \subseteq FactsText(input)
      BY <1>1 DEF FactsText, ModelLines, Stated
    <2>2. SettingKey["support_enablement"] = "enable_support" /\ "support_enablement" \in Recommendable
      BY DEF SettingKey, Recommendable
    <2>3. input.process["enable_support"] = FALSE
      BY <1>1
    <2>4. TRUE \in Targets(input)
      BY DEF Targets
    <2> HIDE DEF evidence
    <2> QED BY <1>1, <2>1, <2>2, <2>3, <2>4, RecValid DEF Known
  <1>2. OverhangRule(input) = If(fires, <<rec>>)
    BY DEF OverhangRule
  <1>3. fires \in BOOLEAN
    OBVIOUS
  <1>4. fires => <<rec>> \in Seq(ValidRecs(input))
    <2> HIDE DEF rec, fires, ValidRecs
    <2> QED BY <1>1
  <1> HIDE DEF fires, rec
  <1> QED BY <1>2, <1>3, <1>4, ValidIf

LEMMA TimeConstraintValid ==
    ASSUME NEW input
    PROVE  TimeConstraint(input) \in Seq(ValidRecs(input))
  <1> DEFINE process == input.process
             measured == {<<"Measured print time", input.stats.time>>}
             requested == {<<"Requested maximum print time", input.maxTime>>}
             layer == LayerHeight(process, "increase", {})
             coarser == [i \in DOMAIN layer |-> [layer[i] EXCEPT !.evidence = measured \cup requested]]
             fires == input.stats # None /\ Exceeds(input.stats, input.stats.time, input.maxTime)
             first == If(Known(process, "layer_height"), coarser)
             second == If(Known(process, "wall_loops"), TwoWalls(process, measured))
             third == If(Known(process, "sparse_infill_density"), LessInfill(process, TimeInfill, measured))
  <1>1. ASSUME fires PROVE first \o second \o third \in Seq(ValidRecs(input))
    <2>1. measured \subseteq FactsText(input)
      BY <1>1 DEF FactsText, StatsLines, Stated, Exceeds
    <2>2. requested \subseteq FactsText(input)
      BY <1>1 DEF FactsText, ConstraintLines, Stated, Exceeds
    <2> HIDE DEF measured, requested
    <2>3. ASSUME Known(process, "layer_height") PROVE coarser \in Seq(ValidRecs(input))
      <3>1. layer \in Seq(ValidRecs(input))
        BY <2>3, LayerHeightValid
      <3>2. \A rec \in ValidRecs(input) : [rec EXCEPT !.evidence = measured \cup requested] \in ValidRecs(input)
        <4> HIDE DEF FactsText, Targets, Currents, KnownCurrentValue
        <4> QED BY <2>1, <2>2 DEF ValidRecs
      <3> HIDE DEF layer
      <3>3. coarser \in [1..Len(layer) -> ValidRecs(input)] /\ Len(layer) \in Nat
        <4> HIDE DEF ValidRecs
        <4> QED BY <3>1, <3>2
      <3> HIDE DEF coarser, ValidRecs
      <3> QED BY <3>3
    <2>4. first \in Seq(ValidRecs(input))
      <3> HIDE DEF coarser
      <3>1. Known(process, "layer_height") \in BOOLEAN
        BY DEF Known
      <3> QED BY <2>3, <3>1, ValidIf
    <2>5. second \in Seq(ValidRecs(input))
      <3>1. Known(process, "wall_loops") \in BOOLEAN
        BY DEF Known
      <3> QED BY <2>1, <3>1, ValidIf, TwoWallsValid
    <2>6. third \in Seq(ValidRecs(input))
      <3>1. Known(process, "sparse_infill_density") \in BOOLEAN
        BY DEF Known
      <3>2. TimeInfill \in {10, 15}
        BY DEF TimeInfill
      <3> QED BY <2>1, <3>1, <3>2, ValidIf, LessInfillValid
    <2> HIDE DEF first, second, third
    <2> QED BY <2>4, <2>5, <2>6, ValidTogether
  <1>2. TimeConstraint(input) = If(fires, first \o second \o third)
    BY DEF TimeConstraint
  <1>3. fires \in BOOLEAN
    OBVIOUS
  <1> HIDE DEF fires, first, second, third
  <1> QED BY <1>1, <1>2, <1>3, ValidIf

LEMMA FilamentConstraintValid ==
    ASSUME NEW input
    PROVE  FilamentConstraint(input) \in Seq(ValidRecs(input))
  <1> DEFINE process == input.process
             measured == {<<"Measured filament weight", input.stats.weight>>}
             fires == input.stats # None /\ Exceeds(input.stats, input.stats.weight, input.maxFilament)
             first == If(Known(process, "sparse_infill_density"), LessInfill(process, FilamentInfill, measured))
             second == If(Known(process, "wall_loops"), TwoWalls(process, measured))
  <1>1. ASSUME fires PROVE first \o second \in Seq(ValidRecs(input))
    <2>1. measured \subseteq FactsText(input)
      BY <1>1 DEF FactsText, StatsLines, Stated, Exceeds
    <2> HIDE DEF measured
    <2>2. first \in Seq(ValidRecs(input))
      <3>1. Known(process, "sparse_infill_density") \in BOOLEAN
        BY DEF Known
      <3>2. FilamentInfill \in {10, 15}
        BY DEF FilamentInfill
      <3> QED BY <2>1, <3>1, <3>2, ValidIf, LessInfillValid
    <2>3. second \in Seq(ValidRecs(input))
      <3>1. Known(process, "wall_loops") \in BOOLEAN
        BY DEF Known
      <3> QED BY <2>1, <3>1, ValidIf, TwoWallsValid
    <2> HIDE DEF first, second
    <2> QED BY <2>2, <2>3, ValidTogether
  <1>2. FilamentConstraint(input) = If(fires, first \o second)
    BY DEF FilamentConstraint
  <1>3. fires \in BOOLEAN
    OBVIOUS
  <1> HIDE DEF fires, first, second
  <1> QED BY <1>1, <1>2, <1>3, ValidIf

LEMMA SurfaceQualityValid ==
    ASSUME NEW input, input.process # None
    PROVE  SurfaceQualityGoal(input.process) \in Seq(ValidRecs(input))
  <1> DEFINE process == input.process
             speed == process["outer_wall_speed"]
             cited == {<<"Current outer wall speed", speed>>}
             slower == Rec("outer_wall_speed_mms", "decrease", speed, QualityOuterWallSpeed, cited)
             first == If(Known(process, "layer_height"), LayerHeight(process, "decrease", {}))
             second == If(Known(process, "wall_loops"), MoreWalls(process, 2, 2))
             third == If(Known(process, "outer_wall_speed"), When(speed > QualityOuterWallSpeed, slower))
  <1>1. first \in Seq(ValidRecs(input))
    <2>1. Known(process, "layer_height") \in BOOLEAN
      BY DEF Known
    <2> QED BY <2>1, ValidIf, LayerHeightValid
  <1>2. second \in Seq(ValidRecs(input))
    <2>1. Known(process, "wall_loops") \in BOOLEAN
      BY DEF Known
    <2> QED BY <2>1, ValidIf, MoreWallsValid
  <1>3. third \in Seq(ValidRecs(input))
    <2>1. Known(process, "outer_wall_speed") \in BOOLEAN /\ (speed > QualityOuterWallSpeed) \in BOOLEAN
      BY DEF Known
    <2>2. ASSUME Known(process, "outer_wall_speed") PROVE slower \in ValidRecs(input)
      <3>1. cited \subseteq FactsText(input)
        BY <2>2, ProcessFacts DEF ProcessLines, Stated, Known
      <3>2. /\ SettingKey["outer_wall_speed_mms"] = "outer_wall_speed"
            /\ "outer_wall_speed_mms" \in Recommendable
            /\ QualityOuterWallSpeed \in Targets(input)
        BY DEF SettingKey, Recommendable, Targets, QualityOuterWallSpeed
      <3> HIDE DEF cited
      <3> QED BY <3>1, <3>2, RecValid
    <2> HIDE DEF slower
    <2> QED BY <2>1, <2>2, ValidWhen, ValidIf
  <1>4. SurfaceQualityGoal(process) = first \o second \o third
    BY DEF SurfaceQualityGoal
  <1> HIDE DEF first, second, third
  <1> QED BY <1>1, <1>2, <1>3, <1>4, ValidTogether

LEMMA StrengthValid ==
    ASSUME NEW input, input.process # None
    PROVE  StrengthGoal(input.process) \in Seq(ValidRecs(input))
  <1> DEFINE process == input.process
             infill == process["sparse_infill_density"]
             pattern == process["sparse_infill_pattern"]
             denser == Rec("sparse_infill_percent", "increase", infill, StrengthInfill, {<<"Infill density", infill>>})
             gyroid == Rec("sparse_infill_pattern", "set", pattern, "gyroid", {<<"Infill pattern", pattern>>})
             first == If(Known(process, "wall_loops"), MoreWalls(process, StrengthWallLoops, StrengthWallLoops))
             second == If(Known(process, "sparse_infill_density"), When(infill < StrengthInfill, denser))
             third == If(Known(process, "sparse_infill_pattern"), When(pattern \notin {"gyroid", "crosshatch"}, gyroid))
  <1>1. first \in Seq(ValidRecs(input))
    <2>1. Known(process, "wall_loops") \in BOOLEAN /\ StrengthWallLoops \in {2, 3}
      BY DEF Known, StrengthWallLoops
    <2> QED BY <2>1, ValidIf, MoreWallsValid
  <1>2. second \in Seq(ValidRecs(input))
    <2>1. Known(process, "sparse_infill_density") \in BOOLEAN /\ (infill < StrengthInfill) \in BOOLEAN
      BY DEF Known
    <2>2. ASSUME Known(process, "sparse_infill_density") PROVE denser \in ValidRecs(input)
      <3>1. {<<"Infill density", infill>>} \subseteq FactsText(input)
        BY <2>2, ProcessFacts DEF ProcessLines, Stated, Known
      <3>2. /\ SettingKey["sparse_infill_percent"] = "sparse_infill_density"
            /\ "sparse_infill_percent" \in Recommendable
            /\ StrengthInfill \in Targets(input)
        BY DEF SettingKey, Recommendable, Targets, StrengthInfill
      <3> QED BY <3>1, <3>2, RecValid
    <2> HIDE DEF denser
    <2> QED BY <2>1, <2>2, ValidWhen, ValidIf
  <1>3. third \in Seq(ValidRecs(input))
    <2>1. /\ Known(process, "sparse_infill_pattern") \in BOOLEAN
          /\ (pattern \notin {"gyroid", "crosshatch"}) \in BOOLEAN
      BY DEF Known
    <2>2. ASSUME Known(process, "sparse_infill_pattern") PROVE gyroid \in ValidRecs(input)
      <3>1. {<<"Infill pattern", pattern>>} \subseteq FactsText(input)
        BY <2>2, ProcessFacts DEF ProcessLines, Stated, Known
      <3>2. /\ SettingKey["sparse_infill_pattern"] = "sparse_infill_pattern"
            /\ "sparse_infill_pattern" \in Recommendable
            /\ "gyroid" \in Targets(input)
        BY DEF SettingKey, Recommendable, Targets
      <3> QED BY <3>1, <3>2, RecValid
    <2> HIDE DEF gyroid
    <2> QED BY <2>1, <2>2, ValidWhen, ValidIf
  <1>4. StrengthGoal(process) = first \o second \o third
    BY DEF StrengthGoal
  <1> HIDE DEF first, second, third
  <1> QED BY <1>1, <1>2, <1>3, <1>4, ValidTogether

LEMMA SavingGoalsValid ==
    ASSUME NEW input, input.process # None
    PROVE  /\ PrintTimeGoal(input.process) \in Seq(ValidRecs(input))
           /\ FilamentUsageGoal(input.process) \in Seq(ValidRecs(input))
  <1> DEFINE process == input.process
             coarser == If(Known(process, "layer_height"), LayerHeight(process, "increase", {}))
             walls == If(Known(process, "wall_loops"), TwoWalls(process, {}))
             infill(target) == If(Known(process, "sparse_infill_density"), LessInfill(process, target, {}))
  <1>1. coarser \in Seq(ValidRecs(input))
    <2>1. Known(process, "layer_height") \in BOOLEAN
      BY DEF Known
    <2> QED BY <2>1, ValidIf, LayerHeightValid
  <1>2. walls \in Seq(ValidRecs(input))
    <2>1. Known(process, "wall_loops") \in BOOLEAN
      BY DEF Known
    <2> QED BY <2>1, ValidIf, TwoWallsValid
  <1>3. ASSUME NEW target \in {10, 15} PROVE infill(target) \in Seq(ValidRecs(input))
    <2>1. Known(process, "sparse_infill_density") \in BOOLEAN
      BY DEF Known
    <2> QED BY <2>1, ValidIf, LessInfillValid
  <1>4. PrintTimeGoal(process) = coarser \o infill(TimeInfill) \o walls
    BY DEF PrintTimeGoal
  <1>5. FilamentUsageGoal(process) = infill(FilamentInfill) \o walls
    BY DEF FilamentUsageGoal
  <1>6. TimeInfill \in {10, 15} /\ FilamentInfill \in {10, 15}
    BY DEF TimeInfill, FilamentInfill
  <1>7. infill(TimeInfill) \in Seq(ValidRecs(input)) /\ infill(FilamentInfill) \in Seq(ValidRecs(input))
    BY <1>3, <1>6
  <1> HIDE DEF coarser, walls, infill
  <1> QED BY <1>1, <1>2, <1>4, <1>5, <1>7, ValidTogether

\* Every rule cites only facts that the prompt states and proposes only
\* settings of the list, whatever the model, the profiles, the measurements
\* and the limits are: evaluate() and build_facts_text() agree.
THEOREM RulesCiteFacts ==
    ASSUME NEW input
    PROVE  Proposals(input) \in Seq(ValidRecs(input))
  <1>1. GoalRules(input) \in Seq(ValidRecs(input))
    <2>1. <<>> \in Seq(ValidRecs(input))
      <3> HIDE DEF ValidRecs
      <3> QED OBVIOUS
    <2> QED BY <2>1, SurfaceQualityValid, StrengthValid, SavingGoalsValid DEF GoalRules
  <1> DEFINE geometry == ThinWallRule(input) \o OverhangRule(input)
             limits == geometry \o TimeConstraint(input) \o FilamentConstraint(input)
  <1>2. geometry \in Seq(ValidRecs(input))
    BY ThinWallValid, OverhangValid, ValidTogether
  <1>3. geometry \o TimeConstraint(input) \in Seq(ValidRecs(input))
    <2> HIDE DEF geometry
    <2> QED BY <1>2, TimeConstraintValid, ValidTogether
  <1>4. limits \in Seq(ValidRecs(input))
    <2> DEFINE timed == geometry \o TimeConstraint(input)
    <2>1. timed \in Seq(ValidRecs(input))
      BY <1>3
    <2> HIDE DEF timed
    <2>2. timed \o FilamentConstraint(input) \in Seq(ValidRecs(input))
      BY <2>1, FilamentConstraintValid, ValidTogether
    <2> QED BY <2>2 DEF timed
  <1>5. Proposals(input) = limits \o GoalRules(input)
    BY DEF Proposals
  <1> HIDE DEF limits
  <1> QED BY <1>1, <1>4, <1>5, ValidTogether

-----------------------------------------------------------------------------
(* The steps of the tools that select a setup *)

SelectingSteps ==
    {"start", "printers", "materialize printers", "find printer", "match printers", "process", "materialize process",
     "filament", "matrix", "judge", "rank", "narrate", "authority", "resolve", "materialize", "realize"}

Fields ==
    {"request", "at", "printers", "profiles", "context", "todo", "candidates", "rejected", "setup", "selectedAt", "sources",
     "inputs", "sliced", "stats", "artifact", "stamp", "mode", "final"}

\* A record of a call as Init makes it and the steps keep it.
Shape(record) ==
    /\ Fields \subseteq DOMAIN record
    /\ DOMAIN record.profiles = Kinds
    /\ DOMAIN record.sliced = Kinds
    /\ DOMAIN record.sources = Kinds
    /\ record.at \in 1..3
    /\ record.mode \in {"llm", "deterministic"}

\* What only the slicer's run and its request change.
SameJob(new, old) ==
    /\ new.request = old.request
    /\ new.stats = old.stats
    /\ new.artifact = old.artifact
    /\ new.stamp = old.stamp

WellFormed ==
    /\ call = [c \in Calls |-> call[c]]
    /\ \A c \in Calls : Shape(call[c])

\* The call goes on at one of the steps or is answered.
GoesTo(c, steps) ==
    \/ \E step \in steps : pc' = [pc EXCEPT ![c] = step] /\ answer' = answer
    \/ /\ pc' = [pc EXCEPT ![c] = "done"]
       /\ \E status \in {"ok", "error", "raised"} : \E code : answer' = [answer EXCEPT ![c] = [status |-> status, code |-> code]]

QuietStep(c, steps) ==
    /\ UNCHANGED <<store, edits, clock, builder, dir, jobs>>
    /\ GoesTo(c, steps)
    /\ \E record : /\ call' = [call EXCEPT ![c] = record]
                   /\ Shape(record)
                   /\ SameJob(record, call[c])

\* What every step of a call does but those of the rules' builder.
CallStep(c, steps) ==
    /\ UNCHANGED <<store, edits, clock, builder>>
    /\ GoesTo(c, steps)
    /\ \E record : /\ call' = [call EXCEPT ![c] = record]
                   /\ Shape(record)
                   /\ record.request = call[c].request

LEMMA QuietIsCallStep ==
    ASSUME NEW c, NEW steps, QuietStep(c, steps)
    PROVE  CallStep(c, steps) /\ UNCHANGED <<dir, jobs>>
  BY DEF QuietStep, CallStep, SameJob

LEMMA MoveIsQuiet ==
    ASSUME NEW c \in Calls, WellFormed, NEW steps, NEW result, NEW step \in steps, NEW record,
           Shape(record), SameJob(record, call[c]), Move(c, result, step, record)
    PROVE  QuietStep(c, steps)
  <1>1. CASE result.err # None
    <2>1. Refuse(c, result.err) /\ UNCHANGED <<call, store, edits, clock, builder, dir, jobs>>
      BY <1>1 DEF Move, world, slicing
    <2>2. GoesTo(c, steps)
      BY <2>1 DEF Refuse, Reply, GoesTo
    <2>3. call' = [call EXCEPT ![c] = call[c]] /\ Shape(call[c])
      BY <2>1 DEF WellFormed
    <2>4. SameJob(call[c], call[c])
      BY DEF SameJob
    <2> QED BY <2>1, <2>2, <2>3, <2>4 DEF QuietStep
  <1>2. CASE result.err = None
    <2>1. Goto(c, step) /\ call' = [call EXCEPT ![c] = record] /\ UNCHANGED <<store, edits, clock, builder, dir, jobs>>
      BY <1>2 DEF Move, world, slicing
    <2>2. GoesTo(c, steps)
      BY <2>1 DEF Goto, GoesTo
    <2> QED BY <2>1, <2>2 DEF QuietStep
  <1> QED BY <1>1, <1>2

LEMMA FinishIsQuiet ==
    ASSUME NEW c \in Calls, NEW steps, NEW record, Shape(record), SameJob(record, call[c]), Finish(c, record)
    PROVE  QuietStep(c, steps)
  BY DEF Finish, Reply, GoesTo, QuietStep, world, slicing

LEMMA FailIsQuiet ==
    ASSUME NEW c \in Calls, WellFormed, NEW steps, NEW code, Fail(c, code)
    PROVE  QuietStep(c, steps)
  <1>1. Refuse(c, code) /\ UNCHANGED <<call, store, edits, clock, builder, dir, jobs>>
    BY DEF Fail, world, slicing
  <1>2. GoesTo(c, steps)
    BY <1>1 DEF Refuse, Reply, GoesTo
  <1>3. call' = [call EXCEPT ![c] = call[c]] /\ SameJob(call[c], call[c]) /\ Shape(call[c])
    BY <1>1 DEF SameJob, WellFormed
  <1> QED BY <1>1, <1>2, <1>3 DEF QuietStep

LEMMA StartIsQuiet ==
    ASSUME WellFormed, NEW c \in Calls, Start(c)
    PROVE  QuietStep(c, {FirstStep(Request(c).tool)}) /\ call' = call
  <1>1. SameJob(call[c], call[c]) /\ Shape(call[c])
    BY DEF SameJob, WellFormed
  <1>2. \E result : Move(c, result, FirstStep(Request(c).tool), call[c])
    BY Zenon DEF Start
  <1>3. call' = call
    BY <1>2 DEF Move, WellFormed
  <1> QED BY <1>1, <1>2, <1>3, MoveIsQuiet

\* The steps that read the context: each goes on or fails.
LEMMA ContextIsQuiet ==
    ASSUME WellFormed, NEW c \in Calls,
           \/ SelectPrinters(c) \/ MaterializePrinters(c) \/ FindPrinter(c) \/ MatchListedPrinters(c)
           \/ ResolveProcess(c) \/ MaterializeProcess(c) \/ ResolveFilament(c)
    PROVE  QuietStep(c, SelectingSteps)
  <1>0. Shape(call[c])
    BY DEF WellFormed
  <1>1. CASE SelectPrinters(c)
    <2> DEFINE record(v) == [call[c] EXCEPT !.printers = v]
    <2>1. \A v : Shape(record(v)) /\ SameJob(record(v), call[c])
      BY <1>0 DEF Shape, SameJob, Fields
    <2>2. \E result, v : Move(c, result, "materialize printers", record(v))
      BY <1>1, Zenon DEF SelectPrinters
    <2> HIDE DEF record
    <2> QED BY <2>1, <2>2, MoveIsQuiet DEF SelectingSteps
  <1>2. CASE MaterializePrinters(c)
    <2> DEFINE record(v, w) == [call[c] EXCEPT !.printers = v, !.context = w]
    <2>1. \A v, w : Shape(record(v, w)) /\ SameJob(record(v, w), call[c])
      BY <1>0 DEF Shape, SameJob, Fields
    <2>2. \E result, v, w : Move(c, result, "process", record(v, w))
      BY <1>2, Zenon DEF MaterializePrinters
    <2> HIDE DEF record
    <2> QED BY <2>1, <2>2, MoveIsQuiet DEF SelectingSteps
  <1>3. CASE FindPrinter(c)
    <2> DEFINE record(v) == [call[c] EXCEPT !.context = v]
    <2>1. \A v : Shape(record(v)) /\ SameJob(record(v), call[c])
      BY <1>0 DEF Shape, SameJob, Fields
    <2>2. \/ \E result : Move(c, result, "match printers", call[c])
          \/ \E result, v : Move(c, result, "process", record(v))
      BY <1>3, Zenon DEF FindPrinter, WithPrinter
    <2>3. SameJob(call[c], call[c])
      BY DEF SameJob
    <2> HIDE DEF record
    <2> QED BY <1>0, <2>1, <2>2, <2>3, MoveIsQuiet DEF SelectingSteps
  <1>4. CASE MatchListedPrinters(c)
    <2> DEFINE record(v) == [call[c] EXCEPT !.context = v]
    <2>1. \A v : Shape(record(v)) /\ SameJob(record(v), call[c])
      BY <1>0 DEF Shape, SameJob, Fields
    <2>2. \/ \E result, v : Move(c, result, "process", record(v))
          \/ \E code : Fail(c, code)
      BY <1>4, Zenon DEF MatchListedPrinters, WithPrinter
    <2> HIDE DEF record
    <2> QED BY <2>1, <2>2, MoveIsQuiet, FailIsQuiet DEF SelectingSteps
  <1>5. CASE ResolveProcess(c)
    <2> DEFINE record(v) == [call[c] EXCEPT !.profiles["process"] = v]
    <2>1. \A v : Shape(record(v)) /\ SameJob(record(v), call[c])
      BY <1>0 DEF Shape, SameJob, Fields
    <2>2. \E result, step, v : /\ Move(c, result, step, record(v))
                               /\ step \in {"filament", "matrix", "materialize process"}
      <3>1. \E result, v, one, two :
                Move(c, result, IF one THEN "filament" ELSE IF two THEN "matrix" ELSE "materialize process", record(v))
        BY <1>5, Zenon DEF ResolveProcess
      <3> HIDE DEF record
      <3> QED BY <3>1
    <2> HIDE DEF record
    <2> QED BY <2>1, <2>2, MoveIsQuiet DEF SelectingSteps
  <1>6. CASE MaterializeProcess(c)
    <2> DEFINE record(v) == [call[c] EXCEPT !.profiles["process"] = v]
    <2>1. \A v : Shape(record(v)) /\ SameJob(record(v), call[c])
      BY <1>0 DEF Shape, SameJob, Fields
    <2>2. \E result, v : Move(c, result, "matrix", record(v))
      BY <1>6, Zenon DEF MaterializeProcess
    <2> HIDE DEF record
    <2> QED BY <2>1, <2>2, MoveIsQuiet DEF SelectingSteps
  <1>7. CASE ResolveFilament(c)
    <2> DEFINE record(v) == [call[c] EXCEPT !.profiles["filament"] = v]
    <2>1. \A v : Shape(record(v)) /\ SameJob(record(v), call[c])
      BY <1>0 DEF Shape, SameJob, Fields
    <2>2. \E result, v : Move(c, result, "matrix", record(v))
      BY <1>7, Zenon DEF ResolveFilament
    <2> HIDE DEF record
    <2> QED BY <2>1, <2>2, MoveIsQuiet DEF SelectingSteps
  <1> QED BY <1>1, <1>2, <1>3, <1>4, <1>5, <1>6, <1>7

\* The steps that judge the filaments, name the setup and require its authority.
LEMMA SelectionIsQuiet ==
    ASSUME WellFormed, NEW c \in Calls,
           \/ ListFilaments(c) \/ JudgeFilament(c) \/ RankFilaments(c) \/ Narrate(c) \/ SelectSetup(c)
           \/ RequireAuthority(c)
    PROVE  QuietStep(c, SelectingSteps)
  <1>0. Shape(call[c])
    BY DEF WellFormed
  <1>1. CASE ListFilaments(c)
    <2> DEFINE record(v) == [call[c] EXCEPT !.todo = v]
    <2>1. \A v : Shape(record(v)) /\ SameJob(record(v), call[c])
      BY <1>0 DEF Shape, SameJob, Fields
    <2>2. \E result, v : Move(c, result, "judge", record(v))
      BY <1>1, Zenon DEF ListFilaments
    <2> HIDE DEF record
    <2> QED BY <2>1, <2>2, MoveIsQuiet DEF SelectingSteps
  <1>2. CASE JudgeFilament(c)
    <2> DEFINE record(v, w, x) == [call[c] EXCEPT !.todo = v, !.candidates = w, !.rejected = x]
    <2>1. \A v, w, x : Shape(record(v, w, x)) /\ SameJob(record(v, w, x), call[c])
      BY <1>0 DEF Shape, SameJob, Fields
    <2>2. \E result, v, w, x : Move(c, result, "judge", record(v, w, x))
      BY <1>2, Zenon DEF JudgeFilament
    <2> HIDE DEF record
    <2> QED BY <2>1, <2>2, MoveIsQuiet DEF SelectingSteps
  <1>3. CASE RankFilaments(c)
    <2> DEFINE record(v) == [call[c] EXCEPT !.candidates = v]
    <2>1. \A v : Shape(record(v)) /\ SameJob(record(v), call[c])
      BY <1>0 DEF Shape, SameJob, Fields
    <2>2. \/ \E result, v : Move(c, result, "rank", record(v))
          \/ \E result, v : Move(c, result, "narrate", record(v))
          \/ \E v : Finish(c, record(v))
      BY <1>3, Zenon DEF RankFilaments
    <2> HIDE DEF record
    <2> QED BY <2>1, <2>2, MoveIsQuiet, FinishIsQuiet DEF SelectingSteps
  <1>4. CASE Narrate(c)
    <2> DEFINE record == [call[c] EXCEPT !.mode = "llm"]
    <2>1. Shape(record) /\ SameJob(record, call[c]) /\ SameJob(call[c], call[c])
      BY <1>0 DEF Shape, SameJob, Fields
    <2>2. Finish(c, record) \/ Finish(c, call[c]) \/ \E code : Fail(c, code)
      BY <1>4, Zenon DEF Narrate
    <2> HIDE DEF record
    <2> QED BY <1>0, <2>1, <2>2, FinishIsQuiet, FailIsQuiet
  <1>5. CASE SelectSetup(c)
    <2> DEFINE record(v, w) == [call[c] EXCEPT !.at = 1, !.selectedAt = v, !.setup = w]
    <2>1. \A v, w : Shape(record(v, w)) /\ SameJob(record(v, w), call[c])
      BY <1>0 DEF Shape, SameJob, Fields
    <2>2. \E result, v, w : Move(c, result, "authority", record(v, w))
      BY <1>5, Zenon DEF SelectSetup
    <2> HIDE DEF record
    <2> QED BY <2>1, <2>2, MoveIsQuiet DEF SelectingSteps
  <1>6. CASE RequireAuthority(c)
    <2> DEFINE last == call[c].at = 3
               record == [call[c] EXCEPT !.at = IF last THEN 1 ELSE @ + 1]
    <2>1. Shape(record) /\ SameJob(record, call[c])
      BY <1>0 DEF Shape, SameJob, Fields
    <2>2. \E result : Move(c, result, IF last THEN "resolve" ELSE "authority", record)
      BY <1>6, Zenon DEF RequireAuthority
    <2>3. (IF last THEN "resolve" ELSE "authority") \in SelectingSteps
      BY DEF SelectingSteps
    <2> HIDE DEF record, last
    <2> QED BY <2>1, <2>2, <2>3, MoveIsQuiet
  <1> QED BY <1>1, <1>2, <1>3, <1>4, <1>5, <1>6

\* The steps of the realization.
LEMMA RealizationIsQuiet ==
    ASSUME WellFormed, NEW c \in Calls,
           ResolveIdentity(c) \/ MaterializeIdentity(c) \/ RealizeSetup(c)
    PROVE  QuietStep(c, SelectingSteps)
  <1>0. Shape(call[c])
    BY DEF WellFormed
  <1> DEFINE last == call[c].at = 3
             kind == Order[call[c].at]
  <1>1. CASE ResolveIdentity(c)
    <2> DEFINE record(v) == [call[c] EXCEPT !.at = IF last THEN 1 ELSE @ + 1, !.sources[kind] = v]
    <2>1. \A v : Shape(record(v)) /\ SameJob(record(v), call[c])
      <3> HIDE DEF kind
      <3> QED BY <1>0 DEF Shape, SameJob, Fields
    <2>2. \E result, v : Move(c, result, IF last THEN "materialize" ELSE "resolve", record(v))
      BY <1>1, Zenon DEF ResolveIdentity
    <2>3. (IF last THEN "materialize" ELSE "resolve") \in SelectingSteps
      BY DEF SelectingSteps
    <2> HIDE DEF record, last
    <2> QED BY <2>1, <2>2, <2>3, MoveIsQuiet
  <1>2. CASE MaterializeIdentity(c)
    <2> DEFINE record(v) == [call[c] EXCEPT !.at = IF last THEN 1 ELSE @ + 1, !.profiles[kind] = v]
    <2>1. \A v : Shape(record(v)) /\ SameJob(record(v), call[c])
      <3> HIDE DEF kind
      <3> QED BY <1>0 DEF Shape, SameJob, Fields
    <2>2. \E result, v : Move(c, result, IF last THEN "realize" ELSE "materialize", record(v))
      BY <1>2, Zenon DEF MaterializeIdentity
    <2>3. (IF last THEN "realize" ELSE "materialize") \in SelectingSteps
      BY DEF SelectingSteps
    <2> HIDE DEF record, last
    <2> QED BY <2>1, <2>2, <2>3, MoveIsQuiet
  <1>3. CASE RealizeSetup(c)
    <2> DEFINE record(v) == [call[c] EXCEPT !.inputs = v]
    <2>1. \A v : Shape(record(v)) /\ SameJob(record(v), call[c])
      BY <1>0 DEF Shape, SameJob, Fields
    <2>2. (\E v : Finish(c, record(v))) \/ (\E code : Fail(c, code))
      BY <1>3, Zenon DEF RealizeSetup
    <2> HIDE DEF record
    <2> QED BY <2>1, <2>2, FinishIsQuiet, FailIsQuiet
  <1> QED BY <1>1, <1>2, <1>3

-----------------------------------------------------------------------------
(* The invariant *)

Setups == {"prepare", "setup", "candidates"}
BeforeDirectory == {"job", "job profiles", "compatible", "directory"}
InDirectory == {"write", "run", "collect"}
RuleSteps == {"evaluate", "add", "llm"}

Domains ==
    /\ WellFormed
    /\ DOMAIN answer = Calls
    /\ DOMAIN builder = Calls
    /\ DOMAIN dir = Calls

\* A call is at a step of its own tool.
ToolInv ==
    \A c \in Calls :
        /\ pc[c] # "idle" => Request(c).tool \in Tools
        /\ pc[c] \in SelectingSteps \ {"start"} => Request(c).tool \in Setups
        /\ pc[c] \in {"analyze", "read"} \cup RuleSteps => Request(c).tool = "recommend"
        /\ pc[c] = "list" => Request(c).tool = "slice"
        /\ pc[c] \in BeforeDirectory \cup InDirectory => Request(c).tool \in {"slice", "recommend"}

\* A recommendation reads whole profiles, and its job takes them as they are.
Documents(step, record) ==
    /\ record.stats # None => step \in RuleSteps \cup {"done"}
    /\ step # "idle" /\ record.request.tool = "recommend" =>
        /\ \A kind \in Kinds : record.profiles[kind] = None \/ record.profiles[kind].materialized
        /\ step \in {"job", "job profiles"} => \A kind \in Kinds : record.profiles[kind] # None
        /\ step = "job profiles" =>
            \A i \in 1..(record.at - 1) : record.sliced[JobOrder[i]] = record.profiles[JobOrder[i]]
        /\ step \in {"compatible", "directory"} \cup InDirectory \/ record.stats # None =>
            \A kind \in Kinds : record.sliced[kind] = record.profiles[kind]

DocumentInv == \A c \in Calls : Documents(pc[c], call[c])

\* A job has the directory of its own microsecond from its making on.
JobInv ==
    \A c \in Calls :
        /\ call[c].stamp = None \/ call[c].stamp \in 0..clock
        /\ call[c].stamp # None => pc[c] \in InDirectory \cup RuleSteps \cup {"done"}
        /\ pc[c] \in InDirectory => call[c].stamp # None /\ dir[c] = call[c].stamp
        /\ pc[c] \in {"run", "collect"} => jobs[dir[c]].config # None

\* Whoever has left something in a directory, or in an artifact found there,
\* has its stamp.
Of(job, time) == \A x \in {job.config, job.by, job.from} : x # None => call[x].stamp = time

DirectoryInv ==
    /\ \A t \in 0..MaxClock : /\ Of(jobs[t], t)
                              /\ jobs[t].by # None => jobs[t].config # None /\ jobs[t].from # None
    /\ \A c \in Calls : call[c].artifact # NoJob =>
        /\ call[c].stamp # None
        /\ call[c].artifact \in [config : Calls, by : Calls, from : Calls]
        /\ Of(call[c].artifact, call[c].stamp)

\* The proposals are those of the call's input, added in their order.
Elements(s) == {s[i] : i \in DOMAIN s}

\* Each setting proposed so far is among the recommendations.
Covered(all, next, recs) ==
    \A i \in 1..(next - 1) : \E j \in DOMAIN recs : recs[j].setting = all[i].setting

RulesInv ==
    /\ \A c \in Calls :
        LET rules == builder[c]
        IN /\ {"all", "next", "recs", "conflicts"} \subseteq DOMAIN rules
           /\ rules.all \in Seq(Elements(rules.all))
           /\ \A i \in DOMAIN rules.all : rules.all[i].setting \in Recommendable
           /\ rules.next \in 1..(Len(rules.all) + 1)
           /\ rules.recs \in Seq(Elements(rules.all))
           /\ Covered(rules.all, rules.next, rules.recs)
           /\ pc[c] \in {"add", "llm"} => rules.all = Proposals(Input(c))
    /\ RulesByPrecedence

IInv == TypeOK /\ Domains /\ ToolInv /\ DocumentInv /\ JobInv /\ DirectoryInv /\ RulesInv

LEMMA InitHolds ==
    ASSUME Init
    PROVE  IInv
  <1> PICK workload \in Workloads :
          /\ pc = [c \in Calls |-> IF workload[c] = None THEN "idle" ELSE "start"]
          /\ call = [c \in Calls |-> NewCall(workload[c])]
    BY DEF Init
  <1>0. /\ edits = 0 /\ clock = 0
        /\ answer = [c \in Calls |-> NoAnswer]
        /\ builder = [c \in Calls |-> NoRules]
        /\ dir = [c \in Calls |-> None]
        /\ jobs = [t \in 0..MaxClock |-> NoJob]
    BY DEF Init
  <1>1. Domains
    BY <1>0 DEF Domains, WellFormed, Shape, NewCall, Nothing, Fields
  <1>2. TypeOK
    <2>1. /\ edits \in 0..MaxEdits
          /\ clock \in 0..MaxClock
      BY <1>0, ToolsAssumption
    <2>2. pc \in [Calls -> Steps]
      BY DEF Steps, Computations
    <2>3. \A c \in Calls : /\ answer[c].status = None /\ pc[c] # "done"
                           /\ call[c].at \in 1..3
                           /\ call[c].mode \in {"llm", "deterministic"}
      BY <1>0 DEF NoAnswer, NewCall
    <2>4. \A c \in Calls : /\ builder[c].next \in 1..(Len(builder[c].all) + 1)
                           /\ builder[c].conflicts \subseteq Recommendable
                           /\ dir[c] \in (0..clock) \cup {None}
      BY <1>0 DEF NoRules
    <2>5. jobs \in [0..MaxClock -> [config : Calls \cup {None}, by : Calls \cup {None}, from : Calls \cup {None}]]
      BY <1>0 DEF NoJob
    <2> QED BY <2>1, <2>2, <2>3, <2>4, <2>5 DEF TypeOK
  <1>3. ToolInv
    BY ToolsAssumption DEF ToolInv, SelectingSteps, RuleSteps, BeforeDirectory, InDirectory, Request, NewCall
  <1>4. DocumentInv
    BY DEF DocumentInv, Documents, NewCall, Nothing, RuleSteps, InDirectory
  <1>5. JobInv
    BY DEF JobInv, NewCall, InDirectory
  <1>6. DirectoryInv
    BY <1>0 DEF DirectoryInv, Of, NewCall, NoJob
  <1>7. RulesInv
    <2>1. ASSUME NEW c \in Calls
          PROVE  LET rules == builder[c]
                 IN /\ {"all", "next", "recs", "conflicts"} \subseteq DOMAIN rules
                    /\ rules.all \in Seq(Elements(rules.all))
                    /\ \A i \in DOMAIN rules.all : rules.all[i].setting \in Recommendable
                    /\ rules.next \in 1..(Len(rules.all) + 1)
                    /\ rules.recs \in Seq(Elements(rules.all))
                    /\ Covered(rules.all, rules.next, rules.recs)
                    /\ pc[c] \in {"add", "llm"} => rules.all = Proposals(Input(c))
      <3>1. builder[c] = NoRules
        BY <1>0
      <3>2. pc[c] \notin {"add", "llm"}
        OBVIOUS
      <3>3. <<>> \in Seq(Elements(<<>>)) /\ Len(<<>>) = 0
        OBVIOUS
      <3> QED BY <3>1, <3>2, <3>3 DEF NoRules, Covered
    <2>2. RulesByPrecedence
      <3>1. AddedInOrder(NoRules)
        BY DEF AddedInOrder, NoRules
      <3> HIDE DEF AddedInOrder
      <3> QED BY <1>0, <3>1 DEF RulesByPrecedence
    <2> QED BY <2>1, <2>2 DEF RulesInv
  <1> QED BY <1>1, <1>2, <1>3, <1>4, <1>5, <1>6, <1>7 DEF IInv

-----------------------------------------------------------------------------
(* What a quiet step keeps *)

LEMMA CallKeepsTypes ==
    ASSUME IInv, NEW c \in Calls, pc[c] # "done", NEW steps, steps \subseteq Steps \ {"done"}, CallStep(c, steps),
           DOMAIN dir' = Calls, \A d \in Calls : dir'[d] \in (0..clock) \cup {None},
           jobs' \in [0..MaxClock -> [config : Calls \cup {None}, by : Calls \cup {None}, from : Calls \cup {None}]]
    PROVE  TypeOK' /\ Domains'
  <1> PICK record : call' = [call EXCEPT ![c] = record] /\ Shape(record)
    BY DEF CallStep
  <1>1. UNCHANGED <<store, edits, clock, builder>> /\ GoesTo(c, steps)
    BY DEF CallStep
  <1>2. Domains'
    BY <1>1 DEF IInv, Domains, WellFormed, GoesTo
  <1>3. pc' \in [Calls -> Steps]
    BY <1>1 DEF GoesTo, IInv, TypeOK, Steps, Computations
  <1>4. \A d \in Calls : /\ answer'[d].status \in {None, "ok", "error", "raised"}
                         /\ (answer'[d].status = None) = (pc'[d] # "done")
    <2>1. CASE \E step \in steps : pc' = [pc EXCEPT ![c] = step] /\ answer' = answer
      BY <2>1 DEF IInv, TypeOK
    <2>2. ASSUME pc' = [pc EXCEPT ![c] = "done"], NEW status \in {"ok", "error", "raised"}, NEW code,
                 answer' = [answer EXCEPT ![c] = [status |-> status, code |-> code]]
          PROVE  \A d \in Calls : /\ answer'[d].status \in {None, "ok", "error", "raised"}
                                  /\ (answer'[d].status = None) = (pc'[d] # "done")
      <3>1. answer'[c].status = status
        BY <2>2 DEF IInv, Domains
      <3>2. \A d \in Calls \ {c} : answer'[d] = answer[d] /\ pc'[d] = pc[d]
        BY <2>2 DEF IInv, Domains, TypeOK
      <3>3. pc'[c] = "done" /\ status # None
        BY <2>2, ToolsAssumption DEF IInv, TypeOK
      <3> QED BY <3>1, <3>2, <3>3 DEF IInv, TypeOK
    <2> QED BY <1>1, <2>1, <2>2 DEF GoesTo
  <1>5. \A d \in Calls : call'[d].at \in 1..3 /\ call'[d].mode \in {"llm", "deterministic"}
    BY <1>2 DEF Domains, WellFormed, Shape
  <1> QED BY <1>1, <1>2, <1>3, <1>4, <1>5 DEF IInv, TypeOK

\* The steps a tool has.
StepsOf(tool) ==
    IF tool \in Setups THEN SelectingSteps
    ELSE IF tool = "recommend" THEN {"analyze", "read"} \cup RuleSteps \cup BeforeDirectory \cup InDirectory
    ELSE {"list"} \cup BeforeDirectory \cup InDirectory

LEMMA GoesToElsewhere ==
    ASSUME IInv, NEW c \in Calls, NEW steps, GoesTo(c, steps)
    PROVE  /\ \A d \in Calls \ {c} : pc'[d] = pc[d]
           /\ pc'[c] \in steps \cup {"done"}
  BY DEF IInv, TypeOK, GoesTo

LEMMA QuietElsewhere ==
    ASSUME IInv, NEW c \in Calls, NEW steps, QuietStep(c, steps)
    PROVE  /\ \A d \in Calls \ {c} : call'[d] = call[d]
           /\ Shape(call'[c])
           /\ SameJob(call'[c], call[c])
  <1> PICK record : call' = [call EXCEPT ![c] = record] /\ Shape(record) /\ SameJob(record, call[c])
    BY DEF QuietStep
  <1>1. call'[c] = record /\ \A d \in Calls \ {c} : call'[d] = call[d]
    BY DEF IInv, Domains, WellFormed
  <1> QED BY <1>1

LEMMA CallElsewhere ==
    ASSUME IInv, NEW c \in Calls, NEW steps, CallStep(c, steps)
    PROVE  /\ \A d \in Calls \ {c} : call'[d] = call[d]
           /\ call'[c].request = call[c].request
  <1> PICK record : call' = [call EXCEPT ![c] = record] /\ record.request = call[c].request
    BY DEF CallStep
  <1>1. call'[c] = record /\ \A d \in Calls \ {c} : call'[d] = call[d]
    BY DEF IInv, Domains, WellFormed
  <1> QED BY <1>1

LEMMA CallKeepsTools ==
    ASSUME IInv, NEW c \in Calls, pc[c] # "idle", NEW steps, CallStep(c, steps), steps \subseteq StepsOf(Request(c).tool)
    PROVE  ToolInv'
  <1>1. Request(c).tool \in Tools
    BY DEF IInv, ToolInv
  <1>2. \A d \in Calls : call'[d].request = call[d].request
    BY CallElsewhere
  <1>3. \A d \in Calls \ {c} : pc'[d] = pc[d]
    BY GoesToElsewhere DEF CallStep
  <1>4. pc'[c] \in steps \cup {"done"}
    BY GoesToElsewhere DEF CallStep
  <1>5. ASSUME NEW d \in Calls \ {c}
        PROVE  /\ pc'[d] # "idle" => call'[d].request.tool \in Tools
               /\ pc'[d] \in SelectingSteps \ {"start"} => call'[d].request.tool \in Setups
               /\ pc'[d] \in {"analyze", "read"} \cup RuleSteps => call'[d].request.tool = "recommend"
               /\ pc'[d] = "list" => call'[d].request.tool = "slice"
               /\ pc'[d] \in BeforeDirectory \cup InDirectory => call'[d].request.tool \in {"slice", "recommend"}
    BY <1>2, <1>3 DEF IInv, ToolInv, Request
  <1>6. LET tool == call'[c].request.tool
        IN /\ pc'[c] # "idle" => tool \in Tools
           /\ pc'[c] \in SelectingSteps \ {"start"} => tool \in Setups
           /\ pc'[c] \in {"analyze", "read"} \cup RuleSteps => tool = "recommend"
           /\ pc'[c] = "list" => tool = "slice"
           /\ pc'[c] \in BeforeDirectory \cup InDirectory => tool \in {"slice", "recommend"}
    BY <1>1, <1>2, <1>4 DEF StepsOf, Setups, Tools, SelectingSteps, RuleSteps, BeforeDirectory, InDirectory, Request
  <1> QED BY <1>5, <1>6 DEF ToolInv, Request

LEMMA QuietKeepsJobs ==
    ASSUME IInv, NEW c \in Calls, NEW steps, QuietStep(c, steps),
           \/ pc[c] \in RuleSteps /\ steps \subseteq RuleSteps
           \/ pc[c] \notin InDirectory \cup RuleSteps \cup {"done"} /\ steps \cap InDirectory = {}
    PROVE  JobInv' /\ DirectoryInv'
  <1>1. UNCHANGED <<clock, dir, jobs>>
    BY DEF QuietStep
  <1>2. \A d \in Calls : call'[d].stamp = call[d].stamp /\ call'[d].artifact = call[d].artifact
    BY QuietElsewhere DEF SameJob
  <1>3. (\A d \in Calls \ {c} : pc'[d] = pc[d]) /\ pc'[c] \in steps \cup {"done"}
    BY GoesToElsewhere DEF QuietStep
  <1>4. JobInv'
    BY <1>1, <1>2, <1>3 DEF IInv, JobInv, InDirectory, RuleSteps
  <1>5. DirectoryInv'
    <2>1. \A job : (\A x \in {job.config, job.by, job.from} : x = None \/ x \in Calls)
                   => \A t : Of(job, t) => Of(job, t)'
      BY <1>2 DEF Of
    <2>2. \A t \in 0..MaxClock : jobs[t] \in [config : Calls \cup {None}, by : Calls \cup {None}, from : Calls \cup {None}]
      BY DEF IInv, TypeOK
    <2>3. \A t \in 0..MaxClock : Of(jobs[t], t)'
      BY <1>1, <2>1, <2>2 DEF IInv, DirectoryInv
    <2>4. ASSUME NEW d \in Calls, call'[d].artifact # NoJob
          PROVE  /\ call'[d].stamp # None
                 /\ call'[d].artifact \in [config : Calls, by : Calls, from : Calls]
                 /\ Of(call[d].artifact, call[d].stamp)'
      BY <1>2, <2>1, <2>4 DEF IInv, DirectoryInv, Of
    <2> QED BY <1>1, <1>2, <2>3, <2>4 DEF IInv, DirectoryInv
  <1> QED BY <1>4, <1>5

LEMMA CallKeepsRules ==
    ASSUME IInv, NEW c \in Calls, NEW steps, CallStep(c, steps),
           \/ steps \cap {"add", "llm"} = {}
           \/ pc[c] \in {"add", "llm"} /\ call'[c].profiles = call[c].profiles /\ call'[c].stats = call[c].stats
    PROVE  RulesInv'
  <1>1. builder' = builder
    BY DEF CallStep
  <1>2. (\A d \in Calls \ {c} : pc'[d] = pc[d]) /\ pc'[c] \in steps \cup {"done"}
    BY GoesToElsewhere DEF CallStep
  <1>3. ASSUME NEW d \in Calls, pc'[d] \in {"add", "llm"} PROVE pc[d] \in {"add", "llm"} /\ Input(d)' = Input(d)
    <2>1. call'[d].request = call[d].request /\ call'[d].stats = call[d].stats /\ call'[d].profiles = call[d].profiles
      BY <1>2, <1>3, CallElsewhere
    <2> QED BY <1>2, <1>3, <2>1 DEF Input, Request
  <1>4. RulesByPrecedence'
    <2> HIDE DEF AddedInOrder
    <2> QED BY <1>1 DEF IInv, RulesInv, RulesByPrecedence
  <1> HIDE DEF Input
  <1> QED BY <1>1, <1>3, <1>4 DEF IInv, RulesInv

\* A call of another tool has no documents of a recommendation.
LEMMA QuietKeepsDocuments ==
    ASSUME IInv, NEW c \in Calls, NEW steps, QuietStep(c, steps), pc[c] \notin RuleSteps \cup {"done", "idle"},
           \/ Request(c).tool # "recommend"
           \/ Documents(pc[c], call[c])'
           \/ /\ call'[c].profiles = call[c].profiles
              /\ call'[c].sliced = call[c].sliced
              /\ pc[c] # "directory"
              /\ steps \cap {"job", "job profiles", "compatible"} = {}
              /\ steps \cap ({"directory"} \cup InDirectory) # {} => pc[c] = "compatible"
    PROVE  DocumentInv'
  <1>2. (\A d \in Calls \ {c} : pc'[d] = pc[d]) /\ pc'[c] \in steps \cup {"done"}
    BY GoesToElsewhere DEF QuietStep
  <1>3. \A d \in Calls \ {c} : call'[d] = call[d]
    BY QuietElsewhere
  <1>4. /\ call'[c].request = call[c].request
        /\ call'[c].stats = call[c].stats
    BY QuietElsewhere DEF SameJob
  <1>5. call[c].stats = None
    BY DEF IInv, DocumentInv, Documents
  <1>6. Documents(pc[c], call[c])
    BY DEF IInv, DocumentInv
  <1>7. Documents(pc'[c], call'[c])
    <2>1. CASE Request(c).tool # "recommend"
      BY <1>4, <1>5, <2>1 DEF Documents, Request
    <2>2. CASE call'[c].profiles = call[c].profiles /\ call'[c].sliced = call[c].sliced
      BY <1>2, <1>4, <1>5, <1>6, <2>2 DEF Documents, InDirectory, Request
    <2> QED BY <2>1, <2>2
  <1> HIDE DEF Documents
  <1> QED BY <1>2, <1>3, <1>7 DEF IInv, DocumentInv

LEMMA StepsOfTools ==
    ASSUME NEW tool
    PROVE  StepsOf(tool) \subseteq Steps \ {"done", "idle"}
  BY DEF StepsOf, SelectingSteps, RuleSteps, BeforeDirectory, InDirectory, Steps, Reads, Computations, Slicing

\* A quiet step before the rules, unless a recommendation changes its profiles.
LEMMA QuietKeeps ==
    ASSUME IInv, NEW c \in Calls, NEW steps, QuietStep(c, steps),
           pc[c] \notin {"idle", "done"} \cup InDirectory \cup RuleSteps,
           steps \subseteq StepsOf(Request(c).tool), steps \cap (InDirectory \cup {"add", "llm"}) = {},
           \/ Request(c).tool # "recommend"
           \/ Documents(pc[c], call[c])'
           \/ /\ call'[c].profiles = call[c].profiles
              /\ call'[c].sliced = call[c].sliced
              /\ pc[c] # "directory"
              /\ steps \cap {"job", "job profiles", "compatible"} = {}
              /\ steps \cap {"directory"} # {} => pc[c] = "compatible"
    PROVE  IInv'
  <1>0. CallStep(c, steps) /\ UNCHANGED <<dir, jobs, clock>>
    BY QuietIsCallStep DEF QuietStep
  <1>1. TypeOK' /\ Domains'
    BY <1>0, StepsOfTools, CallKeepsTypes DEF IInv, TypeOK, Domains
  <1>2. ToolInv'
    BY <1>0, CallKeepsTools
  <1>3. JobInv' /\ DirectoryInv'
    BY QuietKeepsJobs
  <1>4. RulesInv'
    BY <1>0, CallKeepsRules
  <1>5. DocumentInv'
    BY QuietKeepsDocuments
  <1> QED BY <1>1, <1>2, <1>3, <1>4, <1>5 DEF IInv

LEMMA SelectingSetupKeeps ==
    ASSUME IInv, NEW c \in Calls, SelectingSetup(c)
    PROVE  IInv'
  <1>1. WellFormed
    BY DEF IInv, Domains
  <1>2. CASE Start(c)
    <2>1. pc[c] = "start"
      BY <1>2, Zenon DEF Start
    <2>2. QuietStep(c, {FirstStep(Request(c).tool)}) /\ call' = call
      BY <1>1, <1>2, StartIsQuiet
    <2>3. Request(c).tool \in Tools
      BY <2>1 DEF IInv, ToolInv
    <2>4. {FirstStep(Request(c).tool)} \subseteq StepsOf(Request(c).tool) \cap {"printers", "analyze", "list", "find printer"}
      BY <2>3 DEF FirstStep, StepsOf, Setups, Tools, SelectingSteps
    <2>5. {FirstStep(Request(c).tool)} \cap (BeforeDirectory \cup InDirectory \cup {"add", "llm"}) = {}
      BY <2>4 DEF BeforeDirectory, InDirectory
    <2>6. pc[c] \notin {"idle", "done"} \cup InDirectory \cup RuleSteps
      BY <2>1 DEF InDirectory, RuleSteps
    <2> DEFINE steps == {FirstStep(Request(c).tool)}
    <2>7. QuietStep(c, steps) /\ steps \subseteq StepsOf(Request(c).tool)
      BY <2>2, <2>4
    <2>8. /\ steps \cap (InDirectory \cup {"add", "llm"}) = {}
          /\ steps \cap {"job", "job profiles", "compatible"} = {}
          /\ steps \cap {"directory"} = {}
      BY <2>5 DEF BeforeDirectory
    <2> HIDE DEF steps
    <2> QED BY <2>1, <2>2, <2>6, <2>7, <2>8, QuietKeeps
  <1>3. CASE ~Start(c)
    <2>1. pc[c] \in SelectingSteps \ {"start"}
      <3>1. \/ pc[c] = "printers" \/ pc[c] = "materialize printers" \/ pc[c] = "find printer" \/ pc[c] = "match printers"
            \/ pc[c] = "process" \/ pc[c] = "materialize process" \/ pc[c] = "filament" \/ pc[c] = "matrix"
            \/ pc[c] = "judge" \/ pc[c] = "rank" \/ pc[c] = "narrate" \/ pc[c] = "authority"
            \/ pc[c] = "resolve" \/ pc[c] = "materialize" \/ pc[c] = "realize"
        BY <1>3, Zenon DEF SelectingSetup, SelectPrinters, MaterializePrinters, FindPrinter, MatchListedPrinters,
           ResolveProcess, MaterializeProcess, ResolveFilament, ListFilaments, JudgeFilament, RankFilaments, Narrate,
           SelectSetup, RequireAuthority, ResolveIdentity, MaterializeIdentity, RealizeSetup
      <3> QED BY <3>1 DEF SelectingSteps
    <2>2. QuietStep(c, SelectingSteps)
      BY <1>1, <1>3, ContextIsQuiet, SelectionIsQuiet, RealizationIsQuiet DEF SelectingSetup
    <2>3. Request(c).tool \in Setups
      BY <2>1 DEF IInv, ToolInv
    <2>4. SelectingSteps \subseteq StepsOf(Request(c).tool)
      BY <2>3 DEF StepsOf
    <2>5. SelectingSteps \cap (InDirectory \cup {"add", "llm"}) = {}
      BY DEF SelectingSteps, InDirectory
    <2>6. pc[c] \notin {"idle", "done"} \cup InDirectory \cup RuleSteps
      BY <2>1 DEF SelectingSteps, InDirectory, RuleSteps
    <2>7. Request(c).tool # "recommend"
      BY <2>3 DEF Setups
    <2> QED BY <2>2, <2>4, <2>5, <2>6, <2>7, QuietKeeps
  <1> QED BY <1>2, <1>3

-----------------------------------------------------------------------------
(* The steps before the directory and of a recommendation *)

\* A profile that was found by its name is whole.
LEMMA FoundIsMaterialized ==
    ASSUME NEW s, NEW kind, NEW name, NEW pinned, FindProfile(s, kind, name, pinned).err = None
    PROVE  LET found == FindProfile(s, kind, name, pinned).val IN found = None \/ found.materialized
  <1> DEFINE source == FindSource(s, kind, name)
             root == IF pinned THEN source.val ELSE None
             chain == ResolveChain(s, kind, root, source.val.name)
             made == Resolved(kind, source.val, chain.val, Merged(chain.val))
  <1>1. CASE source.err # None \/ source.val = None
    BY <1>1 DEF FindProfile, Then, Result
  <1>2. CASE source.err = None /\ source.val # None
    <2>1. FindProfile(s, kind, name, pinned) = Materialize(s, kind, root, source.val)
      BY <1>2 DEF FindProfile, Then
    <2>2. \/ source.val.materialized /\ Materialize(s, kind, root, source.val) = Result(source.val)
          \/ Materialize(s, kind, root, source.val) = InvalidProfile
          \/ Materialize(s, kind, root, source.val) = chain /\ chain.err # None
          \/ Materialize(s, kind, root, source.val) = Result(made)
      BY DEF Materialize, Then
    <2>3. made.materialized
      BY DEF Resolved
    <2>4. InvalidProfile.err # None
      BY ToolsAssumption DEF InvalidProfile, Failed
    <2> HIDE DEF made, chain, source, root
    <2> QED BY <2>1, <2>2, <2>3, <2>4 DEF Result
  <1> QED BY <1>1, <1>2

LEMMA JobPreparationKeeps ==
    ASSUME IInv, NEW c \in Calls,
           ListJobProfile(c) \/ StartJob(c) \/ MaterializeJobProfile(c) \/ CheckCompatible(c)
    PROVE  IInv'
  <1>0. WellFormed /\ Shape(call[c]) /\ Documents(pc[c], call[c])
    BY DEF IInv, Domains, WellFormed, DocumentInv
  <1> DEFINE kind == JobOrder[call[c].at]
             last == call[c].at = 3
             next == IF last THEN 1 ELSE call[c].at + 1
  <1>a. kind \in Kinds /\ next \in 1..3
    BY <1>0 DEF Shape, JobOrder, Kinds
  <1>1. CASE ListJobProfile(c)
    <2> DEFINE record(v) == [call[c] EXCEPT !.at = IF last THEN 1 ELSE @ + 1, !.profiles[kind] = v]
               steps == {"list", "job"}
    <2>1. \A v : Shape(record(v)) /\ SameJob(record(v), call[c])
      <3> HIDE DEF kind
      <3> QED BY <1>0 DEF Shape, SameJob, Fields
    <2>2. \E result, v : Move(c, result, IF last THEN "job" ELSE "list", record(v))
      BY <1>1, Zenon DEF ListJobProfile
    <2>3. pc[c] = "list"
      BY <1>1, Zenon DEF ListJobProfile
    <2>4. QuietStep(c, steps)
      <3> HIDE DEF record, last
      <3> QED BY <1>0, <2>1, <2>2, MoveIsQuiet
    <2>5. Request(c).tool = "slice"
      BY <2>3 DEF IInv, ToolInv
    <2>6. steps \subseteq StepsOf("slice") /\ steps \cap (InDirectory \cup {"add", "llm"}) = {}
      BY DEF StepsOf, Setups, BeforeDirectory, InDirectory
    <2>7. pc[c] \notin {"idle", "done"} \cup InDirectory \cup RuleSteps
      BY <2>3 DEF InDirectory, RuleSteps
    <2> HIDE DEF steps
    <2> QED BY <2>4, <2>5, <2>6, <2>7, QuietKeeps
  <1> DEFINE jobSteps == BeforeDirectory
  <1>b. ASSUME pc[c] \in BeforeDirectory
        PROVE  /\ jobSteps \subseteq StepsOf(Request(c).tool)
               /\ jobSteps \cap (InDirectory \cup {"add", "llm"}) = {}
               /\ pc[c] \notin {"idle", "done"} \cup InDirectory \cup RuleSteps
    <2>1. Request(c).tool \in {"slice", "recommend"}
      BY <1>b DEF IInv, ToolInv
    <2>2. /\ jobSteps \cap (InDirectory \cup {"add", "llm"}) = {}
          /\ pc[c] \notin {"idle", "done"} \cup InDirectory \cup RuleSteps
      BY <1>b DEF BeforeDirectory, InDirectory, RuleSteps
    <2> QED BY <2>1, <2>2 DEF StepsOf, Setups
  <1>2. CASE StartJob(c)
    <2> DEFINE record == [call[c] EXCEPT !.at = 1]
    <2>1. Shape(record) /\ SameJob(record, call[c])
      BY <1>0 DEF Shape, SameJob, Fields
    <2>2. pc[c] = "job" /\ \/ \E code : Fail(c, code)
                           \/ \E result : Move(c, result, "job profiles", record)
      BY <1>2, Zenon DEF StartJob
    <2>3. pc[c] \in BeforeDirectory
      BY <2>2 DEF BeforeDirectory
    <2>4. QuietStep(c, jobSteps)
      <3> HIDE DEF record
      <3> QED BY <1>0, <2>1, <2>2, MoveIsQuiet, FailIsQuiet DEF BeforeDirectory
    <2>5. Documents(pc'[c], call'[c])
      <3>1. Documents("job profiles", record) /\ Documents("done", call[c])
        <4>1. call[c].stats = None
          BY <1>0, <2>2 DEF Documents, RuleSteps
        <4>2. /\ record.request = call[c].request /\ record.stats = None /\ record.profiles = call[c].profiles
              /\ record.at - 1 = 0
          BY <1>0, <4>1 DEF Shape, Fields
        <4> HIDE DEF record
        <4>3. 1..(record.at - 1) = {}
          BY <4>2
        <4>4. Documents("job profiles", record)
          BY <1>0, <2>2, <4>2, <4>3 DEF Documents, InDirectory
        <4>5. Documents("done", call[c])
          BY <1>0, <2>2, <4>1 DEF Documents, InDirectory
        <4> QED BY <4>4, <4>5
      <3>2. \/ pc'[c] = "done" /\ call' = call
            \/ pc'[c] = "job profiles" /\ call'[c] = record
        BY <1>0, <2>2 DEF Fail, Refuse, Reply, Move, Goto, IInv, TypeOK, WellFormed
      <3> HIDE DEF record
      <3> QED BY <3>1, <3>2
    <2> HIDE DEF jobSteps
    <2> QED BY <1>b, <2>3, <2>4, <2>5, QuietKeeps
  <1>3. CASE MaterializeJobProfile(c)
    <2> DEFINE profile == Materialize(store, kind, None, call[c].profiles[kind])
               record == [call[c] EXCEPT !.at = IF last THEN 1 ELSE @ + 1, !.sliced[kind] = profile.val]
               step == IF last THEN "compatible" ELSE "job profiles"
    <2>1. Shape(record) /\ SameJob(record, call[c])
      <3> HIDE DEF kind, profile
      <3> QED BY <1>0 DEF Shape, SameJob, Fields
    <2>2. pc[c] = "job profiles" /\ Move(c, profile, step, record)
      BY <1>3, Zenon DEF MaterializeJobProfile
    <2>3. pc[c] \in BeforeDirectory /\ step \in jobSteps
      BY <2>2 DEF BeforeDirectory
    <2>4. QuietStep(c, jobSteps)
      <3> HIDE DEF record, step, profile, jobSteps
      <3> QED BY <1>0, <2>1, <2>2, <2>3, MoveIsQuiet
    <2>5. Documents(pc'[c], call'[c])
      <3>1. Documents("done", call[c])
        BY <1>0, <2>2 DEF Documents, InDirectory, RuleSteps
      <3>2. Documents(step, record)
        <4>1. CASE Request(c).tool # "recommend"
          <5> HIDE DEF kind, profile
          <5> QED BY <1>0, <2>2, <4>1 DEF Documents, Shape, Fields, Request, RuleSteps
        <4>2. CASE Request(c).tool = "recommend"
          <5>1. call[c].stats = None
            BY <1>0, <2>2 DEF Documents, RuleSteps
          <5>2. call[c].profiles[kind].materialized
            BY <1>0, <1>a, <2>2, <4>2 DEF Documents, Request
          <5>3. profile.val = call[c].profiles[kind]
            BY <5>2 DEF Materialize, Result
          <5> HIDE DEF profile
          <5>4. \A i \in 1..call[c].at : record.sliced[JobOrder[i]] = record.profiles[JobOrder[i]]
            <6>1. /\ record.profiles = call[c].profiles
                  /\ record.sliced[kind] = call[c].profiles[kind]
                  /\ \A k \in Kinds \ {kind} : record.sliced[k] = call[c].sliced[k]
              <7> HIDE DEF kind
              <7> QED BY <1>0, <1>a, <5>3 DEF Shape, Fields
            <6>2. \A i \in 1..(call[c].at - 1) : call[c].sliced[JobOrder[i]] = call[c].profiles[JobOrder[i]]
              BY <1>0, <2>2, <4>2 DEF Documents, Request
            <6>3. call[c].at \in 1..3
              BY <1>0 DEF Shape
            <6>4. \A i \in 1..(call[c].at - 1) : i \in 1..3 /\ JobOrder[i] \in Kinds \ {kind}
              BY <6>3 DEF JobOrder, Kinds
            <6> HIDE DEF record
            <6> QED BY <6>1, <6>2, <6>3, <6>4
          <5>5. last => \A k \in Kinds : record.sliced[k] = record.profiles[k]
            BY <5>4 DEF JobOrder, Kinds
          <5>6. /\ record.request = call[c].request /\ record.stats = None /\ record.profiles = call[c].profiles
                /\ record.at = next
            BY <1>0, <5>1 DEF Shape, Fields
          <5>7. /\ \A k \in Kinds : call[c].profiles[k] = None \/ call[c].profiles[k].materialized
                /\ \A k \in Kinds : call[c].profiles[k] # None
            BY <1>0, <2>2, <4>2 DEF Documents, Request
          <5>8. CASE last
            <6>1. step = "compatible"
              BY <5>8
            <6> HIDE DEF record, step
            <6> QED BY <5>5, <5>6, <5>7, <5>8, <6>1 DEF Documents
          <5>9. CASE ~last
            <6>1. step = "job profiles" /\ next = call[c].at + 1
              BY <5>9
            <6> HIDE DEF record, step, next
            <6>2. record.at - 1 = call[c].at
              <7>1. call[c].at \in Nat
                BY <1>0 DEF Shape
              <7>2. record.at = call[c].at + 1
                BY <5>6, <6>1
              <7> QED BY <7>1, <7>2
            <6> QED BY <5>4, <5>6, <5>7, <6>1, <6>2 DEF Documents, InDirectory
          <5> QED BY <5>8, <5>9
        <4> QED BY <4>1, <4>2
      <3>3. \/ pc'[c] = "done" /\ call' = call
            \/ pc'[c] = step /\ call'[c] = record
        <4> HIDE DEF record, step, profile
        <4> QED BY <1>0, <2>2 DEF Refuse, Reply, Move, Goto, IInv, TypeOK, WellFormed
      <3> HIDE DEF record, step
      <3> QED BY <3>1, <3>2, <3>3
    <2> HIDE DEF jobSteps
    <2> QED BY <1>b, <2>3, <2>4, <2>5, QuietKeeps
  <1>4. CASE CheckCompatible(c)
    <2>1. pc[c] = "compatible" /\ \E result : Move(c, result, "directory", call[c])
      BY <1>4, Zenon DEF CheckCompatible
    <2>2. SameJob(call[c], call[c])
      BY DEF SameJob
    <2>3. QuietStep(c, {"directory"}) /\ call' = call
      BY <1>0, <2>1, <2>2, MoveIsQuiet DEF Move, WellFormed
    <2>4. pc[c] \in BeforeDirectory /\ {"directory"} \subseteq jobSteps
      BY <2>1 DEF BeforeDirectory
    <2> HIDE DEF jobSteps
    <2> QED BY <1>b, <2>1, <2>3, <2>4, QuietKeeps
  <1> QED BY <1>1, <1>2, <1>3, <1>4

LEMMA ReadingKeeps ==
    ASSUME IInv, NEW c \in Calls, Analyze(c) \/ ReadProfile(c)
    PROVE  IInv'
  <1>0. WellFormed /\ Shape(call[c]) /\ Documents(pc[c], call[c])
    BY DEF IInv, Domains, WellFormed, DocumentInv
  <1> DEFINE steps == {"read", "evaluate", "job"}
  <1>a. ASSUME pc[c] \in {"analyze", "read"}
        PROVE  /\ steps \subseteq StepsOf(Request(c).tool)
               /\ steps \cap (InDirectory \cup {"add", "llm"}) = {}
               /\ pc[c] \notin {"idle", "done"} \cup InDirectory \cup RuleSteps
               /\ Request(c).tool = "recommend"
    <2>1. Request(c).tool = "recommend"
      BY <1>a DEF IInv, ToolInv
    <2>2. /\ steps \cap (InDirectory \cup {"add", "llm"}) = {}
          /\ pc[c] \notin {"idle", "done"} \cup InDirectory \cup RuleSteps
      BY <1>a DEF InDirectory, RuleSteps
    <2> QED BY <2>1, <2>2 DEF StepsOf, Setups, BeforeDirectory, RuleSteps
  <1>1. CASE Analyze(c)
    <2>1. pc[c] = "analyze" /\ \/ \E code : Fail(c, code)
                               \/ \E result : Move(c, result, "read", call[c])
                               \/ \E result : Move(c, result, "evaluate", call[c])
      BY <1>1, Zenon DEF Analyze
    <2>2. SameJob(call[c], call[c])
      BY DEF SameJob
    <2>3. QuietStep(c, {"read", "evaluate"}) /\ call' = call
      BY <1>0, <2>1, <2>2, MoveIsQuiet, FailIsQuiet DEF Move, Fail, WellFormed
    <2>4. {"read", "evaluate"} \subseteq steps /\ "directory" \notin steps
          /\ steps \cap ({"job profiles", "compatible"}) = {}
      OBVIOUS
    <2>5. {"read", "evaluate"} \cap {"job", "job profiles", "compatible"} = {}
      OBVIOUS
    <2> HIDE DEF steps
    <2> QED BY <1>a, <2>1, <2>3, <2>4, <2>5, QuietKeeps
  <1>2. CASE ReadProfile(c)
    <2> DEFINE kind == Order[call[c].at]
               requested == RequestedName(c, kind)
               name == IF requested # None THEN requested ELSE DefaultName(c, kind)
               found == IF name = None THEN Result(None) ELSE FindProfile(store, kind, name, FALSE)
               last == call[c].at = 3
               complete == found.val # None /\ \A k \in {"printer", "process"} : call[c].profiles[k] # None
               record == [call[c] EXCEPT !.at = IF last THEN 1 ELSE @ + 1, !.profiles[kind] = found.val]
               step == IF ~last THEN "read" ELSE IF Request(c).slice THEN "job" ELSE "evaluate"
               required == IF found.err # None THEN found
                           ELSE IF found.val = None /\ requested # None THEN InvalidProfile ELSE found
               result == IF required.err # None THEN required
                         ELSE IF last /\ Request(c).slice /\ ~complete THEN InvalidProfile ELSE found
    <2>1. pc[c] = "read" /\ Move(c, result, step, record)
      BY <1>2, Zenon DEF ReadProfile, Then
    <2>2. kind \in Kinds /\ (last => kind = "filament")
      BY <1>0 DEF Shape, Order, Kinds
    <2>3. found.err = None => found.val = None \/ found.val.materialized
      BY FoundIsMaterialized DEF Result
    <2>4. result.err = None => /\ found.err = None
                               /\ last /\ Request(c).slice => complete
      BY ToolsAssumption DEF InvalidProfile, Failed
    <2>5. Shape(record) /\ SameJob(record, call[c])
      <3> HIDE DEF kind, found
      <3> QED BY <1>0 DEF Shape, SameJob, Fields
    <2>6. /\ record.profiles[kind] = found.val
          /\ \A k \in Kinds \ {kind} : record.profiles[k] = call[c].profiles[k]
          /\ record.request = call[c].request
          /\ record.stats = call[c].stats
      <3> HIDE DEF kind, found
      <3> QED BY <1>0, <2>2 DEF Shape, Fields
    <2>7. step \in steps /\ (step = "job" <=> last /\ Request(c).slice)
      OBVIOUS
    <2>8. QuietStep(c, steps)
      <3> HIDE DEF record, step, result, steps
      <3> QED BY <1>0, <2>1, <2>5, <2>7, MoveIsQuiet
    <2>9. call[c].stats = None
      BY <1>0, <2>1 DEF Documents, RuleSteps
    <2>10. \/ pc'[c] = "done" /\ call' = call
           \/ pc'[c] = step /\ call'[c] = record /\ result.err = None
      <3> HIDE DEF record, step, result
      <3> QED BY <1>0, <2>1 DEF Refuse, Reply, Move, Goto, IInv, TypeOK, WellFormed
    <2>11. Documents("done", call[c])
      BY <1>0, <2>1, <2>9 DEF Documents, InDirectory
    <2>12. ASSUME result.err = None PROVE Documents(step, record)
      <3>1. \A k \in Kinds : call[c].profiles[k] = None \/ call[c].profiles[k].materialized
        BY <1>0, <1>a, <2>1 DEF Documents, Request
      <3>2. found.val = None \/ found.val.materialized
        BY <2>3, <2>4, <2>12
      <3>3. last /\ Request(c).slice => \A k \in Kinds : record.profiles[k] # None
        <4>1. ASSUME last, Request(c).slice PROVE \A k \in Kinds : record.profiles[k] # None
          <5>1. kind = "filament" /\ complete
            BY <2>2, <2>4, <2>12, <4>1
          <5>2. found.val # None /\ call[c].profiles["printer"] # None /\ call[c].profiles["process"] # None
            BY <5>1
          <5> HIDE DEF record, found, kind
          <5> QED BY <2>6, <5>1, <5>2 DEF Kinds
        <4> QED BY <4>1
      <3> HIDE DEF record, found, kind, result, last
      <3>4. \A k \in Kinds : record.profiles[k] = None \/ record.profiles[k].materialized
        BY <2>6, <3>1, <3>2
      <3>5. step \notin {"job profiles", "compatible", "directory"} \cup InDirectory
        BY <2>7 DEF InDirectory
      <3> HIDE DEF step
      <3> QED BY <2>6, <2>7, <2>9, <3>3, <3>4, <3>5 DEF Documents
    <2>13. Documents(pc'[c], call'[c])
      <3> HIDE DEF record, step, result
      <3> QED BY <2>10, <2>11, <2>12
    <2> HIDE DEF steps
    <2> QED BY <1>a, <2>1, <2>8, <2>13, QuietKeeps
  <1> QED BY <1>1, <1>2

-----------------------------------------------------------------------------
(* The job's directory *)

\* A call goes on in its directory with the documents it has.
LEMMA SlicingKeepsDocuments ==
    ASSUME IInv, NEW c \in Calls, NEW steps, CallStep(c, steps),
           pc[c] \in {"directory"} \cup InDirectory, steps \subseteq InDirectory \cup RuleSteps,
           call'[c].profiles = call[c].profiles, call'[c].sliced = call[c].sliced,
           call'[c].stats = None \/ pc'[c] \in RuleSteps \cup {"done"}
    PROVE  DocumentInv'
  <1>1. (\A d \in Calls \ {c} : pc'[d] = pc[d]) /\ pc'[c] \in steps \cup {"done"}
    BY GoesToElsewhere DEF CallStep
  <1>2. (\A d \in Calls \ {c} : call'[d] = call[d]) /\ call'[c].request = call[c].request
    BY CallElsewhere
  <1>3. Documents(pc[c], call[c])
    BY DEF IInv, DocumentInv
  <1>4. Documents(pc'[c], call'[c])
    BY <1>1, <1>2, <1>3 DEF Documents, InDirectory, RuleSteps
  <1> HIDE DEF Documents
  <1> QED BY <1>1, <1>2, <1>4 DEF IInv, DocumentInv

LEMMA MakingKeeps ==
    ASSUME IInv, NEW c \in Calls, MakeJobDirectory(c)
    PROVE  IInv'
  <1> DEFINE record == [call[c] EXCEPT !.stamp = clock]
             steps == {"write"}
  <1>0. WellFormed /\ Shape(call[c])
    BY DEF IInv, Domains, WellFormed
  <1>1. /\ pc[c] = "directory"
        /\ dir' = [dir EXCEPT ![c] = clock]
        /\ call' = [call EXCEPT ![c] = record]
        /\ pc' = [pc EXCEPT ![c] = "write"] /\ answer' = answer
        /\ UNCHANGED <<store, edits, clock, builder, jobs>>
    BY DEF MakeJobDirectory, Stamp, Goto, world
  <1>2. /\ Shape(record) /\ record.request = call[c].request /\ record.stamp = clock
        /\ record.profiles = call[c].profiles /\ record.sliced = call[c].sliced /\ record.stats = call[c].stats
        /\ record.artifact = call[c].artifact
    BY <1>0 DEF Shape, Fields
  <1>3. CallStep(c, steps)
    <2> HIDE DEF record
    <2> QED BY <1>1, <1>2 DEF CallStep, GoesTo
  <1>4. call'[c] = record /\ \A d \in Calls \ {c} : call'[d] = call[d]
    <2> HIDE DEF record
    <2> QED BY <1>0, <1>1 DEF WellFormed
  <1>5. Request(c).tool \in {"slice", "recommend"}
    BY <1>1 DEF IInv, ToolInv, BeforeDirectory
  <1>6. steps \subseteq StepsOf(Request(c).tool) /\ steps \subseteq Steps \ {"done"}
    BY <1>5, StepsOfTools DEF StepsOf, Setups, InDirectory
  <1>7. clock \in Nat /\ clock # None /\ clock \in 0..clock
    BY ToolsAssumption DEF IInv, TypeOK
  <1>8. TypeOK' /\ Domains'
    <2>1. DOMAIN dir' = Calls /\ \A d \in Calls : dir'[d] \in (0..clock) \cup {None}
      BY <1>1, <1>7 DEF IInv, TypeOK, Domains
    <2>2. jobs' \in [0..MaxClock -> [config : Calls \cup {None}, by : Calls \cup {None}, from : Calls \cup {None}]]
      BY <1>1 DEF IInv, TypeOK
    <2> HIDE DEF steps
    <2> QED BY <1>1, <1>3, <1>6, <2>1, <2>2, CallKeepsTypes
  <1>9. ToolInv'
    <2> HIDE DEF steps
    <2> QED BY <1>1, <1>3, <1>6, CallKeepsTools
  <1>10. RulesInv'
    <2>1. steps \cap {"add", "llm"} = {}
      OBVIOUS
    <2> HIDE DEF steps
    <2> QED BY <1>3, <2>1, CallKeepsRules
  <1>11. DocumentInv'
    <2>1. call[c].stats = None
      BY <1>1 DEF IInv, DocumentInv, Documents, RuleSteps
    <2>2. steps \subseteq InDirectory \cup RuleSteps
      BY DEF InDirectory
    <2> HIDE DEF record, steps
    <2> QED BY <1>1, <1>2, <1>3, <1>4, <2>1, <2>2, SlicingKeepsDocuments
  <1>12. /\ \A d \in Calls \ {c} : pc'[d] = pc[d] /\ dir'[d] = dir[d]
         /\ pc'[c] = "write" /\ dir'[c] = clock
    BY <1>1 DEF IInv, TypeOK, Domains
  <1>13. call[c].stamp = None
    BY <1>1 DEF IInv, JobInv, InDirectory, RuleSteps
  <1>14. JobInv'
    <2>1. /\ call'[c].stamp \in 0..clock' /\ pc'[c] \in InDirectory
          /\ call'[c].stamp # None /\ dir'[c] = call'[c].stamp
          /\ pc'[c] \notin {"run", "collect"}
      <3> HIDE DEF record
      <3> QED BY <1>1, <1>2, <1>4, <1>7, <1>12 DEF InDirectory
    <2> HIDE DEF record
    <2> QED BY <1>1, <1>4, <1>12, <2>1 DEF IInv, JobInv
  <1>15. DirectoryInv'
    <2>1. \A job, t : Of(job, t) /\ t # None /\ (\A x \in {job.config, job.by, job.from} : x = None \/ x \in Calls)
                      => Of(job, t)'
      BY <1>4, <1>13 DEF Of
    <2>2. \A t \in 0..MaxClock : jobs[t] \in [config : Calls \cup {None}, by : Calls \cup {None}, from : Calls \cup {None}]
                                 /\ t # None
      BY ToolsAssumption DEF IInv, TypeOK
    <2>3. \A t \in 0..MaxClock : Of(jobs[t], t)'
      BY <1>1, <2>1, <2>2 DEF IInv, DirectoryInv
    <2>4. call[c].artifact = NoJob
      BY <1>13 DEF IInv, DirectoryInv
    <2>5. ASSUME NEW d \in Calls \ {c}, call[d].artifact # NoJob
          PROVE  Of(call[d].artifact, call[d].stamp)'
      <3>1. /\ call[d].stamp # None /\ call[d].artifact \in [config : Calls, by : Calls, from : Calls]
            /\ Of(call[d].artifact, call[d].stamp)
        BY <2>5 DEF IInv, DirectoryInv
      <3>2. \A x \in {call[d].artifact.config, call[d].artifact.by, call[d].artifact.from} :
                x # None => call[x].stamp = call[d].stamp /\ x \in Calls
        BY <3>1 DEF Of
      <3>3. call'[d] = call[d]
        BY <1>4
      <3> HIDE DEF record
      <3> QED BY <1>4, <1>13, <3>1, <3>2, <3>3 DEF Of
    <2> HIDE DEF record
    <2> QED BY <1>1, <1>2, <1>4, <2>3, <2>4, <2>5 DEF IInv, DirectoryInv
  <1> QED BY <1>8, <1>9, <1>10, <1>11, <1>14, <1>15 DEF IInv

\* The call leaves something of its own in the directory that it has.
LEMMA LeavingKeeps ==
    ASSUME IInv, NEW c \in Calls, pc[c] \in {"write", "run"}, NEW steps, steps \subseteq {"run", "collect"},
           GoesTo(c, steps), UNCHANGED <<world, call, builder, dir>>,
           NEW job \in [config : Calls, by : Calls \cup {None}, from : Calls \cup {None}],
           jobs' = [jobs EXCEPT ![dir[c]] = job], Of(job, dir[c]), job.by # None => job.from # None
    PROVE  IInv'
  <1>1. /\ UNCHANGED <<store, edits, clock, call, builder, dir>>
        /\ WellFormed /\ Shape(call[c])
    BY DEF IInv, Domains, WellFormed, world
  <1>2. CallStep(c, steps)
    <2>1. call' = [call EXCEPT ![c] = call[c]]
      BY <1>1 DEF WellFormed
    <2> QED BY <1>1, <2>1 DEF CallStep
  <1>3. steps \subseteq StepsOf(Request(c).tool) /\ steps \subseteq Steps \ {"done"} /\ steps \cap {"add", "llm"} = {}
    <2>1. Request(c).tool \in {"slice", "recommend"}
      BY DEF IInv, ToolInv, InDirectory
    <2>2. steps \subseteq StepsOf(Request(c).tool)
      BY <2>1 DEF StepsOf, Setups, InDirectory
    <2> QED BY <2>2, StepsOfTools
  <1>4. call[c].stamp = dir[c] /\ dir[c] \in 0..MaxClock
    <2>1. call[c].stamp # None /\ dir[c] = call[c].stamp /\ call[c].stamp \in 0..clock
      BY DEF IInv, JobInv, InDirectory
    <2> QED BY <2>1, ToolsAssumption DEF IInv, TypeOK
  <1>5. /\ jobs'[dir[c]] = job
        /\ \A t \in 0..MaxClock : t # dir[c] => jobs'[t] = jobs[t]
        /\ jobs' \in [0..MaxClock -> [config : Calls \cup {None}, by : Calls \cup {None}, from : Calls \cup {None}]]
    BY <1>4 DEF IInv, TypeOK
  <1>6. TypeOK' /\ Domains'
    BY <1>1, <1>2, <1>3, <1>5, CallKeepsTypes DEF IInv, TypeOK, Domains
  <1>7. ToolInv' /\ RulesInv'
    BY <1>2, <1>3, CallKeepsTools, CallKeepsRules
  <1>8. (\A d \in Calls \ {c} : pc'[d] = pc[d]) /\ pc'[c] \in steps \cup {"done"}
    BY GoesToElsewhere
  <1>9. DocumentInv'
    <2>1. call[c].stats = None
      BY DEF IInv, DocumentInv, Documents, RuleSteps
    <2> QED BY <1>1, <1>2, <2>1, SlicingKeepsDocuments DEF InDirectory
  <1>10. JobInv'
    <2>1. /\ call[c].stamp # None /\ dir[c] = call[c].stamp
          /\ pc'[c] \in {"run", "collect", "done"}
          /\ jobs'[dir[c]].config # None
      BY <1>5, <1>8, ToolsAssumption DEF IInv, JobInv, InDirectory
    <2>2. ASSUME NEW d \in Calls \ {c}, pc[d] \in {"run", "collect"} PROVE jobs'[dir[d]].config # None
      <3>1. dir[d] \in 0..MaxClock /\ jobs[dir[d]].config # None
        <4>1. call[d].stamp # None /\ dir[d] = call[d].stamp /\ call[d].stamp \in 0..clock
          BY <2>2 DEF IInv, JobInv, InDirectory
        <4> QED BY <2>2, <4>1, ToolsAssumption DEF IInv, TypeOK, JobInv
      <3> QED BY <1>5, <2>1, <3>1
    <2> QED BY <1>1, <1>8, <2>1, <2>2 DEF IInv, JobInv, InDirectory
  <1>11. DirectoryInv'
    <2>1. \A j, t : Of(j, t) => Of(j, t)'
      BY <1>1 DEF Of
    <2>2. \A t \in 0..MaxClock : Of(jobs'[t], t)
      BY <1>5 DEF IInv, DirectoryInv
    <2>3. \A t \in 0..MaxClock : jobs'[t].by # None => jobs'[t].config # None /\ jobs'[t].from # None
      BY <1>5, ToolsAssumption DEF IInv, DirectoryInv
    <2>4. (\A t \in 0..MaxClock : Of(jobs[t], t))'
      BY <1>1, <2>2 DEF Of
    <2> QED BY <1>1, <2>1, <2>3, <2>4 DEF IInv, DirectoryInv
  <1> QED BY <1>6, <1>7, <1>9, <1>10, <1>11 DEF IInv

LEMMA WritingKeeps ==
    ASSUME IInv, NEW c \in Calls, WriteJobFiles(c) \/ RunSlicer(c)
    PROVE  IInv'
  <1> DEFINE old == jobs[dir[c]]
             written == [old EXCEPT !.config = c]
             run == [old EXCEPT !.by = c, !.from = old.config]
             types == [config : Calls, by : Calls \cup {None}, from : Calls \cup {None}]
  <1>1. pc[c] \in {"write", "run"}
    BY Zenon DEF WriteJobFiles, RunSlicer
  <1>2. /\ call[c].stamp = dir[c] /\ dir[c] \in 0..MaxClock
        /\ pc[c] = "run" => old.config # None
    <2>1. /\ call[c].stamp # None /\ dir[c] = call[c].stamp /\ call[c].stamp \in 0..clock
          /\ pc[c] = "run" => old.config # None
      BY <1>1 DEF IInv, JobInv, InDirectory
    <2> QED BY <2>1, ToolsAssumption DEF IInv, TypeOK
  <1>3. /\ old \in [config : Calls \cup {None}, by : Calls \cup {None}, from : Calls \cup {None}]
        /\ Of(old, dir[c])
        /\ old.by # None => old.from # None
        /\ jobs = [jobs EXCEPT ![dir[c]] = old]
    BY <1>2 DEF IInv, TypeOK, DirectoryInv
  <1>4. CASE WriteJobFiles(c)
    <2>1. GoesTo(c, {"run"}) /\ UNCHANGED <<world, call, builder, dir>>
      BY <1>4 DEF WriteJobFiles, Goto, GoesTo
    <2>2. jobs' = [jobs EXCEPT ![dir[c]] = written]
      BY <1>4 DEF WriteJobFiles
    <2>3. written \in types /\ Of(written, dir[c]) /\ (written.by # None => written.from # None)
      <3> HIDE DEF old
      <3> QED BY <1>2, <1>3 DEF Of
    <2> HIDE DEF written
    <2> QED BY <1>1, <2>1, <2>2, <2>3, LeavingKeeps
  <1>5. CASE RunSlicer(c)
    <2>1. pc[c] = "run"
      BY <1>5, Zenon DEF RunSlicer
    <2>2. GoesTo(c, {"collect"}) /\ UNCHANGED <<world, call, builder, dir>>
      BY <1>5 DEF RunSlicer, Goto, Refuse, Reply, GoesTo
    <2>3. jobs' = [jobs EXCEPT ![dir[c]] = run] \/ jobs' = jobs
      BY <1>2, <1>5 DEF RunSlicer, IInv, TypeOK
    <2>4. run \in types /\ Of(run, dir[c]) /\ run.from # None
      <3> HIDE DEF old
      <3> QED BY <1>2, <1>3, <2>1 DEF Of
    <2>5. old \in types
      <3> HIDE DEF old
      <3> QED BY <1>2, <1>3, <2>1
    <2> HIDE DEF run, old, types
    <2>6. CASE jobs' = [jobs EXCEPT ![dir[c]] = run]
      BY <1>1, <2>2, <2>4, <2>6, LeavingKeeps DEF types
    <2>7. CASE jobs' = jobs
      BY <1>1, <1>3, <2>2, <2>5, <2>7, LeavingKeeps DEF types
    <2> QED BY <2>3, <2>6, <2>7
  <1> QED BY <1>4, <1>5

LEMMA CollectingKeeps ==
    ASSUME IInv, NEW c \in Calls, CollectArtifacts(c)
    PROVE  IInv'
  <1> DEFINE found == jobs[dir[c]]
             record(v) == [call[c] EXCEPT !.stats = v, !.artifact = found]
             steps == {"evaluate"}
  <1>0. WellFormed /\ Shape(call[c])
    BY DEF IInv, Domains, WellFormed
  <1>1. pc[c] = "collect"
    BY Zenon DEF CollectArtifacts
  <1>2. /\ call[c].stamp # None /\ call[c].stamp = dir[c] /\ dir[c] \in 0..MaxClock
        /\ found.config # None
    <2>1. /\ call[c].stamp # None /\ dir[c] = call[c].stamp /\ call[c].stamp \in 0..clock
          /\ found.config # None
      BY <1>1 DEF IInv, JobInv, InDirectory
    <2> QED BY <2>1, ToolsAssumption DEF IInv, TypeOK
  <1>3. /\ found \in [config : Calls, by : Calls \cup {None}, from : Calls \cup {None}]
        /\ Of(found, call[c].stamp)
        /\ found.by # None => found.from # None
    BY <1>2 DEF IInv, TypeOK, DirectoryInv
  <1>4. Request(c).tool \in {"slice", "recommend"}
    BY <1>1 DEF IInv, ToolInv, InDirectory
  <1>5. \/ \E code : Fail(c, code)
        \/ /\ found.by # None
           /\ \E v : \/ Finish(c, record(v)) /\ Request(c).tool = "slice"
                     \/ Request(c).tool # "slice" /\ \E result : Move(c, result, "evaluate", record(v)) /\ result.err = None
    <2>1. Result(None).err = None
      BY DEF Result
    <2> QED BY <2>1, Zenon DEF CollectArtifacts
  <1>6. /\ UNCHANGED <<store, edits, clock, builder, dir, jobs>>
        /\ \/ /\ call' = call
              /\ \E code : Fail(c, code)
           \/ /\ found.by # None
              /\ \E v : call' = [call EXCEPT ![c] = record(v)]
              /\ \/ \E v : Finish(c, record(v))
                 \/ Request(c).tool # "slice" /\ pc' = [pc EXCEPT ![c] = "evaluate"] /\ answer' = answer
    <2> HIDE DEF found, record
    <2> QED BY <1>5 DEF Fail, Finish, Move, Goto, world, slicing
  <1>7. \A v : /\ Shape(record(v)) /\ record(v).request = call[c].request
               /\ record(v).profiles = call[c].profiles /\ record(v).sliced = call[c].sliced
               /\ record(v).artifact = found /\ record(v).stamp = call[c].stamp
    <2> HIDE DEF found
    <2> QED BY <1>0 DEF Shape, Fields
  <1> DEFINE next == IF Request(c).tool = "slice" THEN {} ELSE steps
  <1>8. CallStep(c, next)
    <2>1. GoesTo(c, next)
      <3> HIDE DEF found, record
      <3> QED BY <1>6 DEF GoesTo, Fail, Refuse, Finish, Reply
    <2>2. \E r : call' = [call EXCEPT ![c] = r] /\ Shape(r) /\ r.request = call[c].request
      <3>1. CASE call' = call
        <4>1. call' = [call EXCEPT ![c] = call[c]]
          BY <1>0, <3>1 DEF WellFormed
        <4> QED BY <1>0, <4>1
      <3>2. CASE \E v : call' = [call EXCEPT ![c] = record(v)]
        <4> HIDE DEF record
        <4> QED BY <1>7, <3>2
      <3> HIDE DEF record
      <3> QED BY <1>6, <3>1, <3>2
    <2> HIDE DEF next
    <2> QED BY <1>6, <2>1, <2>2 DEF CallStep
  <1>9. /\ next \subseteq StepsOf(Request(c).tool) /\ next \subseteq Steps \ {"done"}
        /\ next \cap {"add", "llm"} = {} /\ next \subseteq RuleSteps
    <2>1. next \subseteq StepsOf(Request(c).tool)
      BY <1>4 DEF StepsOf, Setups, RuleSteps
    <2>2. next \cap {"add", "llm"} = {} /\ next \subseteq RuleSteps
      BY DEF RuleSteps
    <2> HIDE DEF next
    <2> QED BY <2>1, <2>2, StepsOfTools
  <1>10. /\ \A d \in Calls \ {c} : pc'[d] = pc[d] /\ call'[d] = call[d]
         /\ pc'[c] \in next \cup {"done"}
    <2> HIDE DEF next
    <2> QED BY <1>8, GoesToElsewhere, CallElsewhere DEF CallStep
  <1>11. /\ call'[c].request = call[c].request /\ call'[c].profiles = call[c].profiles
         /\ call'[c].sliced = call[c].sliced /\ call'[c].stamp = call[c].stamp
         /\ \/ call'[c].artifact = call[c].artifact
            \/ found.by # None /\ call'[c].artifact = found
    <2>1. CASE call' = call
      BY <2>1
    <2>2. ASSUME NEW v, call' = [call EXCEPT ![c] = record(v)], found.by # None
          PROVE  /\ call'[c].request = call[c].request /\ call'[c].profiles = call[c].profiles
                 /\ call'[c].sliced = call[c].sliced /\ call'[c].stamp = call[c].stamp
                 /\ found.by # None /\ call'[c].artifact = found
      <3>1. call'[c] = record(v)
        <4> HIDE DEF record
        <4> QED BY <1>0, <2>2 DEF WellFormed
      <3> HIDE DEF record, found
      <3> QED BY <1>7, <2>2, <3>1
    <2> HIDE DEF record, found
    <2> QED BY <1>6, <2>1, <2>2
  <1> HIDE DEF next, record
  <1>12. TypeOK' /\ Domains'
    BY <1>1, <1>6, <1>8, <1>9, CallKeepsTypes DEF IInv, TypeOK, Domains
  <1>13. ToolInv' /\ RulesInv'
    BY <1>1, <1>8, <1>9, CallKeepsTools, CallKeepsRules
  <1>14. DocumentInv'
    BY <1>1, <1>8, <1>9, <1>10, <1>11, SlicingKeepsDocuments DEF InDirectory
  <1>15. JobInv'
    <2>1. pc'[c] \in RuleSteps \cup {"done"}
      BY <1>9, <1>10
    <2>2. pc'[c] \notin InDirectory
      BY <2>1 DEF RuleSteps, InDirectory
    <2> HIDE DEF found
    <2> QED BY <1>6, <1>10, <1>11, <2>1, <2>2 DEF IInv, JobInv, InDirectory
  <1>16. \A d \in Calls : call'[d].stamp = call[d].stamp
    BY <1>10, <1>11
  <1>17. DirectoryInv'
    <2>1. \A job : (\A x \in {job.config, job.by, job.from} : x = None \/ x \in Calls)
                   => \A t : Of(job, t) => Of(job, t)'
      BY <1>16 DEF Of
    <2>2. \A t \in 0..MaxClock : jobs[t] \in [config : Calls \cup {None}, by : Calls \cup {None}, from : Calls \cup {None}]
      BY DEF IInv, TypeOK
    <2>3. \A t \in 0..MaxClock : Of(jobs[t], t)'
      BY <1>6, <2>1, <2>2 DEF IInv, DirectoryInv
    <2>4. ASSUME NEW d \in Calls, call'[d].artifact # NoJob, call'[d].artifact = call[d].artifact
          PROVE  /\ call'[d].stamp # None
                 /\ call'[d].artifact \in [config : Calls, by : Calls, from : Calls]
                 /\ Of(call[d].artifact, call[d].stamp)'
      BY <1>16, <2>1, <2>4 DEF IInv, DirectoryInv, Of
    <2>5. CASE found.by # None /\ call'[c].artifact = found
      <3>1. found \in [config : Calls, by : Calls, from : Calls]
        <4> HIDE DEF found
        <4> QED BY <1>3, <2>5
      <3>2. \A x \in {found.config, found.by, found.from} : x # None => call'[x].stamp = call'[c].stamp
        <4> HIDE DEF found
        <4> QED BY <1>3, <1>16, <3>1 DEF Of
      <3> HIDE DEF found
      <3> QED BY <1>2, <1>6, <1>10, <1>16, <2>3, <2>4, <2>5, <3>1, <3>2 DEF IInv, DirectoryInv, Of
    <2> HIDE DEF found
    <2> QED BY <1>6, <1>10, <1>11, <2>3, <2>4, <2>5 DEF IInv, DirectoryInv, Of
  <1> QED BY <1>12, <1>13, <1>14, <1>15, <1>17 DEF IInv

-----------------------------------------------------------------------------
(* The builder of the rules *)

\* Adding the next proposal keeps the order, whatever was proposed before it.
LEMMA AddKeepsOrder ==
    ASSUME NEW S, NEW rules, {"all", "next", "recs", "conflicts"} \subseteq DOMAIN rules,
           rules.all \in Seq(S), rules.recs \in Seq(S), rules.next \in 1..Len(rules.all),
           AddedInOrder(rules), Covered(rules.all, rules.next, rules.recs),
           NEW recs, NEW conflicts, [recs |-> recs, conflicts |-> conflicts] = Add(rules.recs, rules.conflicts, rules.all[rules.next]),
           NEW new, new.all = rules.all, new.next = rules.next + 1, new.recs = recs, new.conflicts = conflicts
    PROVE  AddedInOrder(new) /\ Covered(new.all, new.next, new.recs)
  <1> DEFINE all == rules.all
             i == rules.next
             old == rules.recs
             Leading(k) == \A j \in 1..(k - 1) : all[j].setting # all[k].setting
             taken == \E j \in DOMAIN old : old[j].setting = all[i].setting
             agreed == \E j \in DOMAIN old : old[j].setting = all[i].setting /\ old[j].change = all[i].change
             Against(k) == \E j \in 1..k : all[j].setting = all[k].setting /\ all[j].change # all[k].change
  <1>1. /\ recs = IF taken THEN old ELSE Append(old, all[i])
        /\ conflicts = IF taken /\ ~agreed THEN rules.conflicts \cup {all[i].setting} ELSE rules.conflicts
    BY DEF Add, Key
  <1>2. /\ \A j, k \in DOMAIN old : old[j].setting = old[k].setting => j = k
        /\ {old[j] : j \in DOMAIN old} = {all[k] : k \in {k \in 1..(i - 1) : Leading(k)}}
        /\ rules.conflicts = {all[k].setting : k \in {k \in 1..(i - 1) : Against(k)}}
    BY DEF AddedInOrder
  <1>3. i \in Nat \ {0} /\ i <= Len(all) /\ (i + 1) - 1 = i /\ 1..i = (1..(i - 1)) \cup {i}
    OBVIOUS
  <1>4. \A k \in 1..(i - 1) : \E j \in DOMAIN old : old[j].setting = all[k].setting
    BY DEF Covered
  <1>a. \A x : (\E j \in DOMAIN old : x = old[j]) <=> (\E k \in 1..(i - 1) : Leading(k) /\ x = all[k])
    <2> HIDE DEF Leading, all, i, old
    <2>1. \A x : x \in {old[j] : j \in DOMAIN old} <=> x \in {all[k] : k \in {k \in 1..(i - 1) : Leading(k)}}
      BY <1>2, Zenon
    <2> QED BY <2>1, Zenon
  <1>b. \A x : x \in rules.conflicts <=> \E k \in 1..(i - 1) : Against(k) /\ x = all[k].setting
    <2> HIDE DEF Against, all, i
    <2>1. \A x : x \in rules.conflicts <=> x \in {all[k].setting : k \in {k \in 1..(i - 1) : Against(k)}}
      BY <1>2, Zenon
    <2> QED BY <2>1, Zenon
  <1>5. \A j \in DOMAIN old : \E k \in 1..(i - 1) : old[j] = all[k] /\ Leading(k)
    <2> HIDE DEF Leading, all, i, old
    <2> QED BY <1>a
  <1>6. taken <=> ~Leading(i)
    <2> HIDE DEF all, i, old
    <2> QED BY <1>4, <1>5
  <1>7. \A j, k \in DOMAIN recs : recs[j].setting = recs[k].setting => j = k
    BY <1>1, <1>2
  <1>c. \A k : k \in 1..i <=> k \in 1..(i - 1) \/ k = i
    BY <1>3
  <1>8. \A x : (\E j \in DOMAIN recs : x = recs[j]) <=> (\E k \in 1..i : Leading(k) /\ x = all[k])
    <2>1. \A x : (\E j \in DOMAIN recs : x = recs[j]) <=> (\E j \in DOMAIN old : x = old[j]) \/ (~taken /\ x = all[i])
      <3>1. CASE taken
        <4> HIDE DEF all, i, old, taken
        <4> QED BY <1>1, <3>1
      <3>2. CASE ~taken
        <4> HIDE DEF all, i, taken
        <4>1. recs = Append(old, all[i])
          BY <1>1, <3>2
        <4>2. DOMAIN recs = DOMAIN old \cup {Len(old) + 1} /\ recs[Len(old) + 1] = all[i] /\ \A j \in DOMAIN old : recs[j] = old[j]
          BY <4>1
        <4> HIDE DEF old
        <4> QED BY <3>2, <4>2
      <3> QED BY <3>1, <3>2
    <2> HIDE DEF Leading, all, i, old, taken
    <2>2. \A x : (\E k \in 1..i : Leading(k) /\ x = all[k])
                  <=> (\E k \in 1..(i - 1) : Leading(k) /\ x = all[k]) \/ (~taken /\ x = all[i])
      BY <1>c, <1>6, Zenon
    <2> DEFINE New(x) == \E j \in DOMAIN recs : x = recs[j]
               Had(x) == \E j \in DOMAIN old : x = old[j]
               Led(x) == \E k \in 1..(i - 1) : Leading(k) /\ x = all[k]
               Leads(x) == \E k \in 1..i : Leading(k) /\ x = all[k]
    <2>3. /\ \A x : Had(x) <=> Led(x)
          /\ \A x : New(x) <=> Had(x) \/ (~taken /\ x = all[i])
          /\ \A x : Leads(x) <=> Led(x) \/ (~taken /\ x = all[i])
      BY <1>a, <2>1, <2>2
    <2>4. \A x : New(x) <=> Leads(x)
      <3> HIDE DEF New, Had, Led, Leads
      <3> QED BY <2>3
    <2> QED BY <2>4
  <1>9. \A x : x \in conflicts <=> \E k \in 1..i : Against(k) /\ x = all[k].setting
    <2>2. taken /\ ~agreed => Against(i)
      <3> HIDE DEF all, i, old
      <3> QED BY <1>3, <1>5
    <2>3. Against(i) /\ ~(taken /\ ~agreed) => all[i].setting \in rules.conflicts
      <3>1. ASSUME Against(i), ~(taken /\ ~agreed) PROVE \E k \in 1..(i - 1) : Against(k) /\ all[k].setting = all[i].setting
        <4>1. PICK j \in 1..(i - 1) : all[j].setting = all[i].setting /\ all[j].change # all[i].change
          <5> HIDE DEF all, i
          <5> QED BY <1>3, <3>1
        <4>2. taken
          BY <1>4, <4>1
        <4>3. PICK m \in DOMAIN old : old[m].setting = all[i].setting /\ old[m].change = all[i].change
          BY <3>1, <4>2
        <4>4. PICK k \in 1..(i - 1) : old[m] = all[k] /\ Leading(k)
          BY <1>5
        <4>5. k <= j
          <5>1. ~(j \in 1..(k - 1))
            BY <4>1, <4>3, <4>4
          <5> HIDE DEF Leading, all, i, old
          <5> QED BY <1>3, <5>1
        <4>6. Against(j)
          <5>1. k \in 1..j
            BY <1>3, <4>5
          <5> HIDE DEF Leading, all, i, old
          <5> QED BY <4>1, <4>3, <4>4, <5>1
        <4> QED BY <4>1, <4>6
      <3> HIDE DEF Against, all, i, taken, agreed
      <3> QED BY <1>b, <3>1
    <2> HIDE DEF Against, all, i, taken, agreed
    <2>4. \A x : x \in conflicts <=> \E k \in 1..i : Against(k) /\ x = all[k].setting
      <3>1. CASE taken /\ ~agreed
        <4>1. \A x : x \in conflicts <=> x \in rules.conflicts \/ x = all[i].setting
          BY <1>1, <3>1
        <4> QED BY <1>b, <1>3, <2>2, <3>1, <4>1
      <3>2. CASE ~(taken /\ ~agreed)
        <4>1. conflicts = rules.conflicts
          BY <1>1, <3>2
        <4> QED BY <1>b, <1>3, <2>3, <3>2, <4>1
      <3> QED BY <3>1, <3>2
    <2> QED BY <2>4
  <1>10. \A k \in 1..i : \E j \in DOMAIN recs : recs[j].setting = all[k].setting
    <2>1. CASE taken
      <3>1. recs = old
        BY <1>1, <2>1
      <3>2. ASSUME NEW k \in 1..i PROVE \E j \in DOMAIN old : old[j].setting = all[k].setting
        BY <1>3, <1>4, <2>1, <3>2
      <3> QED BY <3>1, <3>2
    <2>2. CASE ~taken
      <3>1. recs = Append(old, all[i])
        BY <1>1, <2>2
      <3>2. DOMAIN recs = DOMAIN old \cup {Len(old) + 1} /\ recs[Len(old) + 1] = all[i] /\ \A j \in DOMAIN old : recs[j] = old[j]
        BY <3>1
      <3> HIDE DEF all, i, old
      <3> QED BY <1>3, <1>4, <3>2
    <2> QED BY <2>1, <2>2
  <1>11. new.next - 1 = i
    BY <1>3
  <1>12. Covered(new.all, new.next, new.recs)
    BY <1>10, <1>11 DEF Covered
  <1>13. AddedInOrder(new)
    <2> DEFINE First(k) == \A j \in 1..(k - 1) : new.all[j].setting # new.all[k].setting
               Contrary(k) == \E j \in 1..k : new.all[j].setting = new.all[k].setting /\ new.all[j].change # new.all[k].change
    <2>1. \A k : (First(k) <=> Leading(k)) /\ (Contrary(k) <=> Against(k))
      OBVIOUS
    <2> HIDE DEF First, Contrary, Leading, Against
    <2>2. \A x : (\E j \in DOMAIN new.recs : x = new.recs[j]) <=> (\E k \in 1..(new.next - 1) : First(k) /\ x = new.all[k])
      <3>1. \A x : (\E k \in 1..(new.next - 1) : First(k) /\ x = new.all[k]) <=> (\E k \in 1..i : Leading(k) /\ x = all[k])
        BY <1>11, <2>1
      <3>2. \A x : (\E j \in DOMAIN new.recs : x = new.recs[j]) <=> (\E j \in DOMAIN recs : x = recs[j])
        OBVIOUS
      <3> DEFINE Has(x) == \E j \in DOMAIN recs : x = recs[j]
                 Leads(x) == \E k \in 1..i : Leading(k) /\ x = all[k]
                 NewHas(x) == \E j \in DOMAIN new.recs : x = new.recs[j]
                 NewLeads(x) == \E k \in 1..(new.next - 1) : First(k) /\ x = new.all[k]
      <3>3. \A x : Has(x) <=> Leads(x)
        BY <1>8
      <3>4. (\A x : NewLeads(x) <=> Leads(x)) /\ \A x : NewHas(x) <=> Has(x)
        BY <3>1, <3>2
      <3>5. \A x : NewHas(x) <=> NewLeads(x)
        <4> HIDE DEF Has, Leads, NewHas, NewLeads
        <4> QED BY <3>3, <3>4
      <3> QED BY <3>5
    <2>3. \A x : x \in new.conflicts <=> \E k \in 1..(new.next - 1) : Contrary(k) /\ x = new.all[k].setting
      BY <1>9, <1>11, <2>1
    <2>4. \A x : x \in {new.recs[j] : j \in DOMAIN new.recs} <=> x \in {new.all[k] : k \in {k \in 1..(new.next - 1) : First(k)}}
      BY <2>2, Zenon
    <2>5. \A x : x \in new.conflicts <=> x \in {new.all[k].setting : k \in {k \in 1..(new.next - 1) : Contrary(k)}}
      BY <2>3, Zenon
    <2>6. /\ {new.recs[j] : j \in DOMAIN new.recs} = {new.all[k] : k \in {k \in 1..(new.next - 1) : First(k)}}
          /\ new.conflicts = {new.all[k].setting : k \in {k \in 1..(new.next - 1) : Contrary(k)}}
      BY <2>4, <2>5
    <2>7. \A j, k \in DOMAIN new.recs : new.recs[j].setting = new.recs[k].setting => j = k
      BY <1>7
    <2> QED BY <2>6, <2>7, Zenon DEF AddedInOrder, First, Contrary
  <1> QED BY <1>12, <1>13

\* What holds of the rules of a call, at the step it is at.
GoodRules(rules) ==
    /\ {"all", "next", "recs", "conflicts"} \subseteq DOMAIN rules
    /\ rules.all \in Seq(Elements(rules.all))
    /\ \A i \in DOMAIN rules.all : rules.all[i].setting \in Recommendable
    /\ rules.next \in 1..(Len(rules.all) + 1)
    /\ rules.recs \in Seq(Elements(rules.all))
    /\ Covered(rules.all, rules.next, rules.recs)

LEMMA BuildingKeeps ==
    ASSUME IInv, NEW c \in Calls, pc[c] \in {"evaluate", "add"}, pc' = [pc EXCEPT ![c] = "add"],
           UNCHANGED <<world, answer, call, slicing>>,
           NEW rules, builder' = [builder EXCEPT ![c] = rules],
           GoodRules(rules), AddedInOrder(rules), rules.conflicts \subseteq Recommendable,
           rules.all = Proposals(Input(c))
    PROVE  IInv'
  <1>1. UNCHANGED <<store, edits, clock, answer, call, dir, jobs>>
    BY DEF world, slicing
  <1>2. /\ pc' \in [Calls -> Steps] /\ pc'[c] = "add" /\ \A d \in Calls \ {c} : pc'[d] = pc[d]
        /\ DOMAIN builder' = Calls /\ builder'[c] = rules /\ \A d \in Calls \ {c} : builder'[d] = builder[d]
    BY DEF IInv, TypeOK, Domains, Steps, Computations
  <1>3. TypeOK'
    <2>1. \A d \in Calls : builder'[d].next \in 1..(Len(builder'[d].all) + 1) /\ builder'[d].conflicts \subseteq Recommendable
      BY <1>2 DEF GoodRules, IInv, TypeOK
    <2>2. \A d \in Calls : (answer[d].status = None) = (pc'[d] # "done")
      BY <1>2 DEF IInv, TypeOK
    <2> QED BY <1>1, <1>2, <2>1, <2>2 DEF IInv, TypeOK
  <1>4. Domains'
    BY <1>1, <1>2 DEF IInv, Domains, WellFormed
  <1>5. ToolInv'
    <2>1. call[c].request.tool = "recommend"
      BY DEF IInv, ToolInv, Request, RuleSteps
    <2>2. /\ pc'[c] \notin SelectingSteps \cup {"list"} \cup BeforeDirectory \cup InDirectory
          /\ "recommend" \in Tools
      BY <1>2 DEF SelectingSteps, BeforeDirectory, InDirectory, Tools
    <2> QED BY <1>1, <1>2, <2>1, <2>2 DEF IInv, ToolInv, Request
  <1>6. DocumentInv'
    <2>1. Documents(pc'[c], call[c])
      BY <1>2 DEF IInv, DocumentInv, Documents, RuleSteps, InDirectory
    <2> HIDE DEF Documents
    <2> QED BY <1>1, <1>2, <2>1 DEF IInv, DocumentInv
  <1>7. JobInv'
    BY <1>1, <1>2 DEF IInv, JobInv, RuleSteps, InDirectory
  <1>8. DirectoryInv'
    BY <1>1 DEF IInv, DirectoryInv, Of
  <1>9. RulesInv'
    <2>1. \A d \in Calls : Input(d)' = Input(d)
      BY <1>1 DEF Input, Request
    <2>2. \A d \in Calls : GoodRules(builder'[d]) /\ AddedInOrder(builder'[d])
      <3> HIDE DEF AddedInOrder
      <3>1. \A d \in Calls : GoodRules(builder[d]) /\ AddedInOrder(builder[d])
        BY DEF IInv, RulesInv, RulesByPrecedence, GoodRules
      <3> HIDE DEF GoodRules
      <3> QED BY <1>2, <3>1
    <2>3. \A d \in Calls : pc'[d] \in {"add", "llm"} => builder'[d].all = Proposals(Input(d))
      BY <1>2 DEF IInv, RulesInv
    <2> HIDE DEF Input, AddedInOrder
    <2> QED BY <2>1, <2>2, <2>3 DEF RulesInv, RulesByPrecedence, GoodRules
  <1> QED BY <1>3, <1>4, <1>5, <1>6, <1>7, <1>8, <1>9 DEF IInv

LEMMA EvaluatingKeeps ==
    ASSUME IInv, NEW c \in Calls, Evaluate(c)
    PROVE  IInv'
  <1> DEFINE all == Proposals(Input(c))
             rules == [NoRules EXCEPT !.all = all]
  <1>1. all \in Seq(ValidRecs(Input(c)))
    BY RulesCiteFacts
  <1>2. \A rec \in ValidRecs(Input(c)) : rec.setting \in Recommendable
    <2> HIDE DEF Targets, Currents, FactsText, Input
    <2> QED BY DEF ValidRecs
  <1> HIDE DEF all
  <1>3. all \in Seq(Elements(all)) /\ \A i \in DOMAIN all : all[i].setting \in Recommendable
    <2> HIDE DEF ValidRecs
    <2> QED BY <1>1, <1>2 DEF Elements
  <1>4. /\ DOMAIN rules = {"all", "next", "recs", "conflicts"}
        /\ rules.all = all /\ rules.next = 1 /\ rules.recs = <<>> /\ rules.conflicts = {}
    BY DEF NoRules
  <1>5. 1..(1 - 1) = {} /\ 1 \in 1..(Len(all) + 1) /\ <<>> \in Seq(Elements(all))
    <2>1. Len(all) \in Nat
      BY <1>3
    <2> QED BY <2>1
  <1> HIDE DEF rules
  <1>6. GoodRules(rules)
    BY <1>3, <1>4, <1>5 DEF GoodRules, Covered
  <1>7. AddedInOrder(rules)
    BY <1>4, <1>5 DEF AddedInOrder
  <1>8. /\ pc[c] = "evaluate" /\ pc' = [pc EXCEPT ![c] = "add"]
        /\ UNCHANGED <<world, answer, call, slicing>>
        /\ builder' = [builder EXCEPT ![c] = rules]
    BY DEF Evaluate, Goto, rules, all
  <1> QED BY <1>4, <1>6, <1>7, <1>8, BuildingKeeps DEF all

LEMMA AddingKeeps ==
    ASSUME IInv, NEW c \in Calls, AddProposal(c)
    PROVE  IInv'
  <1> DEFINE rules == builder[c]
             added == Add(rules.recs, rules.conflicts, rules.all[rules.next])
             new == [rules EXCEPT !.next = @ + 1, !.recs = added.recs, !.conflicts = added.conflicts]
  <1>1. /\ pc[c] = "add" /\ rules.next \in DOMAIN rules.all
        /\ builder' = [builder EXCEPT ![c] = new]
        /\ UNCHANGED <<world, pc, answer, call, slicing>>
    BY Zenon DEF AddProposal
  <1>2. GoodRules(rules) /\ AddedInOrder(rules) /\ rules.conflicts \subseteq Recommendable
    <2> HIDE DEF AddedInOrder
    <2> QED BY DEF IInv, TypeOK, RulesInv, RulesByPrecedence, GoodRules
  <1>3. rules.all = Proposals(Input(c))
    BY <1>1 DEF IInv, RulesInv
  <1>4. pc' = [pc EXCEPT ![c] = "add"]
    BY <1>1 DEF IInv, TypeOK
  <1>5. /\ DOMAIN new = DOMAIN rules /\ new.all = rules.all /\ new.next = rules.next + 1
        /\ new.recs = added.recs /\ new.conflicts = added.conflicts
    <2> HIDE DEF added, rules
    <2> QED BY <1>2 DEF GoodRules
  <1>6. added = [recs |-> added.recs, conflicts |-> added.conflicts]
    BY DEF Add
  <1>7. rules.next \in 1..Len(rules.all) /\ rules.next + 1 \in 1..(Len(rules.all) + 1)
    <2>1. rules.next \in Nat /\ Len(rules.all) \in Nat
      BY <1>2 DEF GoodRules
    <2> QED BY <1>1, <1>2, <2>1 DEF GoodRules
  <1>8. rules.all[rules.next] \in Elements(rules.all) /\ rules.all[rules.next].setting \in Recommendable
    BY <1>1, <1>2 DEF GoodRules, Elements
  <1>9. added.recs \in Seq(Elements(rules.all)) /\ added.conflicts \subseteq Recommendable
    <2> DEFINE rec == rules.all[rules.next]
    <2>1. /\ added.recs = rules.recs \/ added.recs = Append(rules.recs, rec)
          /\ added.conflicts = rules.conflicts \/ added.conflicts = rules.conflicts \cup {rec.setting}
      <3> HIDE DEF rules
      <3> QED BY DEF Add
    <2>2. rec \in Elements(rules.all) /\ rec.setting \in Recommendable
      BY <1>8
    <2>3. rules.recs \in Seq(Elements(rules.all))
      BY <1>2 DEF GoodRules
    <2> HIDE DEF rec, added, rules
    <2>4. Append(rules.recs, rec) \in Seq(Elements(rules.all))
      BY <2>2, <2>3
    <2> QED BY <1>2, <2>1, <2>2, <2>3, <2>4
  <1>10. AddedInOrder(new) /\ Covered(new.all, new.next, new.recs)
    <2> HIDE DEF added, new, rules, AddedInOrder, Covered
    <2> QED BY <1>2, <1>5, <1>6, <1>7, AddKeepsOrder DEF GoodRules, added
  <1>11. GoodRules(new)
    <2> HIDE DEF added, new, rules, AddedInOrder, Covered
    <2> QED BY <1>2, <1>5, <1>7, <1>9, <1>10 DEF GoodRules
  <1> HIDE DEF new, added
  <1> QED BY <1>1, <1>3, <1>4, <1>5, <1>9, <1>10, <1>11, BuildingKeeps

LEMMA AnsweringKeeps ==
    ASSUME IInv, NEW c \in Calls, Conclude(c) \/ AskLLM(c)
    PROVE  IInv'
  <1> DEFINE concluded(v) == [call[c] EXCEPT !.final = v]
             told(v) == [call[c] EXCEPT !.mode = "llm", !.final = v]
             steps == {"llm"}
  <1>0. WellFormed /\ Shape(call[c])
    BY DEF IInv, Domains, WellFormed
  <1>1. pc[c] \in {"add", "llm"}
    BY Zenon DEF Conclude, AskLLM
  <1>2. \/ \E v : Finish(c, concluded(v))
        \/ \E v : Finish(c, told(v))
        \/ \E result : Move(c, result, "llm", call[c])
        \/ \E code : Fail(c, code)
    <2>1. CASE Conclude(c)
      BY <2>1, Zenon DEF Conclude
    <2>2. CASE AskLLM(c)
      BY <2>2, Zenon DEF AskLLM, LLMFails
    <2> QED BY <2>1, <2>2
  <1>3. \A v : /\ Shape(concluded(v)) /\ SameJob(concluded(v), call[c])
               /\ Shape(told(v)) /\ SameJob(told(v), call[c])
               /\ concluded(v).profiles = call[c].profiles /\ concluded(v).sliced = call[c].sliced
               /\ told(v).profiles = call[c].profiles /\ told(v).sliced = call[c].sliced
    BY <1>0 DEF Shape, SameJob, Fields
  <1> HIDE DEF concluded, told
  <1>4. QuietStep(c, steps)
    <2>1. SameJob(call[c], call[c]) /\ "llm" \in steps
      BY DEF SameJob
    <2> HIDE DEF steps
    <2> QED BY <1>0, <1>2, <1>3, <2>1, MoveIsQuiet, FinishIsQuiet, FailIsQuiet
  <1>5. /\ \A d \in Calls \ {c} : pc'[d] = pc[d] /\ call'[d] = call[d]
        /\ pc'[c] \in {"llm", "done"}
        /\ call'[c].request = call[c].request /\ call'[c].stats = call[c].stats
    BY <1>4, GoesToElsewhere, QuietElsewhere DEF QuietStep, SameJob
  <1>6. call'[c].profiles = call[c].profiles /\ call'[c].sliced = call[c].sliced
    <2>1. ASSUME NEW v, call' = [call EXCEPT ![c] = concluded(v)] \/ call' = [call EXCEPT ![c] = told(v)]
          PROVE  call'[c].profiles = call[c].profiles /\ call'[c].sliced = call[c].sliced
      <3>1. call'[c] = concluded(v) \/ call'[c] = told(v)
        BY <1>0, <2>1 DEF WellFormed
      <3> QED BY <1>3, <3>1
    <2>2. CASE \E v : Finish(c, concluded(v)) \/ Finish(c, told(v))
      BY <2>1, <2>2 DEF Finish
    <2>3. CASE (\E result : Move(c, result, "llm", call[c])) \/ (\E code : Fail(c, code))
      BY <1>0, <2>3 DEF Move, Fail, WellFormed
    <2> QED BY <1>2, <2>2, <2>3
  <1>7. CallStep(c, steps) /\ UNCHANGED <<dir, jobs, clock>>
    BY <1>4, QuietIsCallStep DEF QuietStep
  <1>8. Request(c).tool = "recommend"
    BY <1>1 DEF IInv, ToolInv, RuleSteps
  <1>9. steps \subseteq StepsOf(Request(c).tool) /\ steps \subseteq Steps \ {"done"} /\ steps \subseteq RuleSteps
    <2>1. steps \subseteq StepsOf(Request(c).tool) /\ steps \subseteq RuleSteps
      BY <1>8 DEF StepsOf, Setups, RuleSteps
    <2> HIDE DEF steps
    <2> QED BY <2>1, StepsOfTools
  <1> HIDE DEF steps
  <1>10. TypeOK' /\ Domains'
    BY <1>1, <1>7, <1>9, CallKeepsTypes DEF IInv, TypeOK, Domains
  <1>11. ToolInv'
    BY <1>1, <1>7, <1>9, CallKeepsTools
  <1>12. JobInv' /\ DirectoryInv'
    BY <1>1, <1>4, <1>9, QuietKeepsJobs DEF RuleSteps
  <1>13. RulesInv'
    BY <1>1, <1>5, <1>6, <1>7, CallKeepsRules
  <1>14. DocumentInv'
    <2>1. Documents(pc'[c], call'[c])
      <3>1. Documents(pc[c], call[c])
        BY DEF IInv, DocumentInv
      <3>2. /\ pc'[c] \in RuleSteps \cup {"done"} /\ pc'[c] # "idle" /\ pc[c] # "idle"
            /\ pc'[c] \notin {"job", "job profiles", "compatible", "directory"} \cup InDirectory
        BY <1>1, <1>5 DEF RuleSteps, InDirectory
      <3> QED BY <1>5, <1>6, <3>1, <3>2 DEF Documents
    <2> HIDE DEF Documents
    <2> QED BY <1>5, <2>1 DEF IInv, DocumentInv
  <1> QED BY <1>10, <1>11, <1>12, <1>13, <1>14 DEF IInv

LEMMA WorkingKeeps ==
    ASSUME IInv, NEW c \in Calls, Working(c)
    PROVE  IInv'
  BY SelectingSetupKeeps, JobPreparationKeeps, ReadingKeeps, MakingKeeps, WritingKeeps, CollectingKeeps,
     EvaluatingKeeps, AddingKeeps, AnsweringKeeps, Zenon
     DEF Working, SlicingJob, Recommending

-----------------------------------------------------------------------------
(* The environment, and the theorems *)

\* Whatever happens to the files, and that time passes, is nothing to the calls.
LEMMA WorldKeeps ==
    ASSUME IInv, UNCHANGED <<pc, answer, call, builder, slicing>>,
           edits' \in 0..MaxEdits, clock' \in 0..MaxClock, clock <= clock'
    PROVE  IInv'
  <1>1. UNCHANGED <<dir, jobs>>
    BY DEF slicing
  <1>2. TypeOK'
    <2>1. \A d \in Calls : dir[d] \in (0..clock') \cup {None}
      BY DEF IInv, TypeOK
    <2> QED BY <1>1, <2>1 DEF IInv, TypeOK
  <1>3. Domains' /\ ToolInv'
    BY <1>1 DEF IInv, Domains, WellFormed, ToolInv, Request
  <1>4. DocumentInv'
    <2> HIDE DEF Documents
    <2> QED BY <1>1 DEF IInv, DocumentInv
  <1>5. JobInv'
    <2>1. \A d \in Calls : call[d].stamp = None \/ call[d].stamp \in 0..clock'
      BY DEF IInv, TypeOK, JobInv
    <2> QED BY <1>1, <2>1 DEF IInv, JobInv
  <1>6. DirectoryInv'
    BY <1>1 DEF IInv, DirectoryInv, Of
  <1>7. RulesInv'
    <2>1. \A d \in Calls : Input(d)' = Input(d)
      BY DEF Input, Request
    <2>2. RulesByPrecedence'
      <3> HIDE DEF AddedInOrder
      <3> QED BY DEF IInv, RulesInv, RulesByPrecedence
    <2> HIDE DEF Input
    <2> QED BY <2>1, <2>2 DEF IInv, RulesInv
  <1> QED BY <1>2, <1>3, <1>4, <1>5, <1>6, <1>7 DEF IInv

LEMMA StepKeeps ==
    ASSUME IInv, [Next]_vars
    PROVE  IInv'
  <1>0. edits \in 0..MaxEdits /\ clock \in 0..MaxClock /\ MaxEdits \in Nat /\ MaxClock \in Nat
    BY ToolsAssumption DEF IInv, TypeOK
  <1>1. ASSUME NEW c \in Calls, Working(c) PROVE IInv'
    BY <1>1, WorkingKeeps
  <1>2. CASE EditFile \/ LoseUsers
    <2>1. UNCHANGED <<clock, pc, answer, call, builder, slicing>> /\ edits < MaxEdits /\ edits' = edits + 1
      BY <1>2, Zenon DEF EditFile, LoseUsers
    <2> QED BY <1>0, <2>1, WorldKeeps
  <1>3. CASE Tick
    <2>1. UNCHANGED <<edits, pc, answer, call, builder, slicing>> /\ clock < MaxClock /\ clock' = clock + 1
      BY <1>3 DEF Tick
    <2> QED BY <1>0, <2>1, WorldKeeps
  <1>4. CASE UNCHANGED vars
    <2>1. UNCHANGED <<edits, clock, pc, answer, call, builder, slicing>>
      BY <1>4 DEF vars, world
    <2> QED BY <1>0, <2>1, WorldKeeps
  <1> QED BY <1>1, <1>2, <1>3, <1>4 DEF Next

LEMMA Invariant == Spec => []IInv
  BY InitHolds, StepKeeps, PTL DEF Spec

\* Every call is at a step of its tool and has an answer when it is done, and
\* only then, whatever the stores, the edits and the requests are.
THEOREM TypesHold == Spec => []TypeOK
  <1>1. IInv => TypeOK
    BY DEF IInv
  <1> QED BY <1>1, Invariant, PTL

\* RecommendationBuilder.add(): each setting gets the direction of the first
\* rule that proposes a change of it, each other direction is a conflict, and
\* nothing else is, for any number of proposals.
THEOREM PrecedenceHolds == Spec => []RulesByPrecedence
  <1>1. IInv => RulesByPrecedence
    BY DEF IInv, RulesInv
  <1> QED BY <1>1, Invariant, PTL

\* recommend() slices the documents that its digest is made of, whatever
\* happens to the files between the two.
THEOREM StatsOfDigestHolds == Spec => []StatsOfDigest
  <1>1. IInv => StatsOfDigest
    BY DEF IInv, DocumentInv, Documents, StatsOfDigest, Request, RuleSteps
  <1> QED BY <1>1, Invariant, PTL

\* A job that has its microsecond for itself finds in its directory what its
\* own slicer made of its own files, however many jobs there are.
THEOREM JobsApartHolds == Spec => []JobsApart
  <1>1. ASSUME IInv PROVE JobsApart
    <2>1. SUFFICES ASSUME NEW c \in Calls, call[c].artifact # NoJob,
                          \A d \in Calls \ {c} : call[d].stamp # call[c].stamp
                   PROVE  call[c].artifact = [config |-> c, by |-> c, from |-> c]
      BY DEF JobsApart
    <2>2. /\ call[c].artifact \in [config : Calls, by : Calls, from : Calls]
          /\ Of(call[c].artifact, call[c].stamp)
      BY <1>1, <2>1 DEF IInv, DirectoryInv
    <2>3. \A x \in {call[c].artifact.config, call[c].artifact.by, call[c].artifact.from} : x = c
      BY <2>1, <2>2, ToolsAssumption DEF Of
    <2> QED BY <2>2, <2>3
  <1> QED BY <1>1, Invariant, PTL

\* An LLM that answers with the rules' candidates passes the validation of its
\* answer: what the rules cite, the prompt states.
THEOREM RepetitionHolds == Spec => []RepetitionIsValid
  <1>1. ASSUME IInv PROVE RepetitionIsValid
    <2>1. SUFFICES ASSUME NEW c \in Calls, pc[c] = "llm"
                   PROVE  ValidLLMSet(Repetition(c), Input(c))
      BY DEF RepetitionIsValid
    <2> DEFINE recs == builder[c].recs
               all == builder[c].all
    <2>2. all = Proposals(Input(c)) /\ recs \in Seq(Elements(all))
      BY <1>1, <2>1 DEF IInv, RulesInv
    <2>3. all \in Seq(ValidRecs(Input(c)))
      BY <2>2, RulesCiteFacts
    <2>4. \A i \in DOMAIN recs : recs[i] \in ValidRecs(Input(c))
      <3> HIDE DEF recs, all, ValidRecs, Input
      <3> QED BY <2>2, <2>3 DEF Elements
    <2>5. \A rec \in ValidRecs(Input(c)) : /\ rec.setting \in Recommendable
                                           /\ KnownCurrentValue(Input(c), rec.setting) = None => rec.current = None
                                           /\ rec.evidence \subseteq FactsText(Input(c))
      <3> HIDE DEF Targets, Currents, FactsText, Input, KnownCurrentValue
      <3> QED BY DEF ValidRecs
    <2>6. Repetition(c).goal = Input(c).goal /\ Repetition(c).recs = recs
      BY DEF Repetition, Input
    <2> HIDE DEF ValidRecs, Input, recs
    <2> QED BY <2>4, <2>5, <2>6 DEF ValidLLMSet
  <1> QED BY <1>1, Invariant, PTL

-----------------------------------------------------------------------------
(* What the steps of a call leave alone for the setup and the answer *)

Preparing == {"authority", "resolve", "materialize", "realize"}

\* Where a call may be answered with success, a slice apart.
Concluding == {"judge", "narrate", "realize", "add", "llm"}

\* A step of a call that neither names, proves nor realizes a setup.
PlainStep(c) ==
    /\ UNCHANGED <<store, edits>>
    /\ \E step : step \notin Preparing /\ pc' = [pc EXCEPT ![c] = step]
    /\ \/ answer' = answer
       \/ \E status \in {"ok", "error", "raised"} :
            /\ \E code : answer' = [answer EXCEPT ![c] = [status |-> status, code |-> code]]
            /\ status = "ok" => pc[c] \in Concluding \/ Request(c).tool = "slice"
    /\ \E record : call' = [call EXCEPT ![c] = record] /\ record.inputs = call[c].inputs
                                                       /\ record.request = call[c].request
    /\ builder' = builder \/ \E rules : builder' = [builder EXCEPT ![c] = rules]

Untouched == WellFormed /\ pc = [c \in Calls |-> pc[c]]

LEMMA Refused ==
    ASSUME NEW c, NEW code, Refuse(c, code)
    PROVE  /\ pc' = [pc EXCEPT ![c] = "done"] /\ "done" \notin Preparing
           /\ \E status \in {"error", "raised"} :
                \E any : answer' = [answer EXCEPT ![c] = [status |-> status, code |-> any]]
  BY DEF Refuse, Reply, Preparing

LEMMA RefusedIsPlain ==
    ASSUME NEW c \in Calls, Untouched, NEW code, Refuse(c, code), UNCHANGED <<store, edits, call, builder>>
    PROVE  PlainStep(c)
  <1>1. \E status \in {"ok", "error", "raised"} :
            /\ \E any : answer' = [answer EXCEPT ![c] = [status |-> status, code |-> any]]
            /\ status = "ok" => pc[c] \in Concluding \/ Request(c).tool = "slice"
    BY Refused
  <1>2. pc' = [pc EXCEPT ![c] = "done"] /\ "done" \notin Preparing
    BY Refused
  <1>3. builder' = builder /\ call' = [call EXCEPT ![c] = call[c]]
    BY DEF Untouched, WellFormed
  <1> QED BY <1>1, <1>2, <1>3, Zenon DEF PlainStep

LEMMA MoveIsPlain ==
    ASSUME NEW c \in Calls, Untouched, NEW result, NEW step, step \notin Preparing, NEW record,
           record.inputs = call[c].inputs, record.request = call[c].request, Move(c, result, step, record)
    PROVE  PlainStep(c)
  <1>0. UNCHANGED <<store, edits, builder>>
    BY DEF Move, world
  <1>1. CASE result.err # None
    <2>1. Refuse(c, result.err) /\ UNCHANGED <<store, edits, call, builder>>
      BY <1>0, <1>1 DEF Move
    <2> QED BY <2>1, RefusedIsPlain
  <1>2. CASE result.err = None
    <2>1. pc' = [pc EXCEPT ![c] = step] /\ answer' = answer /\ call' = [call EXCEPT ![c] = record]
      BY <1>2 DEF Move, Goto
    <2> QED BY <1>0, <2>1 DEF PlainStep
  <1> QED BY <1>1, <1>2

LEMMA FailIsPlain ==
    ASSUME NEW c \in Calls, Untouched, NEW code, Fail(c, code)
    PROVE  PlainStep(c)
  <1>1. Refuse(c, code) /\ UNCHANGED <<store, edits, call, builder>>
    BY DEF Fail, world
  <1> QED BY <1>1, RefusedIsPlain

LEMMA FinishIsPlain ==
    ASSUME NEW c \in Calls, Untouched, NEW record, record.inputs = call[c].inputs, record.request = call[c].request,
           Finish(c, record), pc[c] \in Concluding \/ Request(c).tool = "slice"
    PROVE  PlainStep(c)
  <1>1. pc' = [pc EXCEPT ![c] = "done"] /\ "done" \notin Preparing
    BY DEF Finish, Reply, Preparing
  <1>2. \E status \in {"ok", "error", "raised"} :
            /\ \E code : answer' = [answer EXCEPT ![c] = [status |-> status, code |-> code]]
            /\ status = "ok" => pc[c] \in Concluding \/ Request(c).tool = "slice"
    BY DEF Finish, Reply
  <1>3. /\ UNCHANGED <<store, edits>> /\ builder' = builder
        /\ call' = [call EXCEPT ![c] = record]
    BY DEF Finish, world
  <1> QED BY <1>1, <1>2, <1>3 DEF PlainStep

\* The context, the matrix and the narrative.
LEMMA ContextIsPlain ==
    ASSUME Untouched, NEW c \in Calls,
           \/ Start(c) \/ SelectPrinters(c) \/ MaterializePrinters(c) \/ FindPrinter(c) \/ MatchListedPrinters(c)
           \/ ResolveProcess(c) \/ MaterializeProcess(c) \/ ResolveFilament(c)
    PROVE  PlainStep(c)
  <1>0. Fields \subseteq DOMAIN call[c] /\ call[c].request = call[c].request
    BY DEF Untouched, WellFormed, Shape
  <1>1. CASE Start(c)
    <2>1. \E result : Move(c, result, FirstStep(Request(c).tool), call[c])
      BY <1>1, Zenon DEF Start
    <2>2. FirstStep(Request(c).tool) \notin Preparing
      BY DEF FirstStep, Preparing
    <2> QED BY <2>1, <2>2, MoveIsPlain
  <1>2. CASE SelectPrinters(c)
    <2> DEFINE record(v) == [call[c] EXCEPT !.printers = v]
    <2>1. \A v : record(v).inputs = call[c].inputs /\ record(v).request = call[c].request
      BY <1>0 DEF Fields
    <2>2. \E result, v : Move(c, result, "materialize printers", record(v))
      BY <1>2, Zenon DEF SelectPrinters
    <2> HIDE DEF record
    <2> QED BY <2>1, <2>2, MoveIsPlain DEF Preparing
  <1>3. CASE MaterializePrinters(c)
    <2> DEFINE record(v, w) == [call[c] EXCEPT !.printers = v, !.context = w]
    <2>1. \A v, w : record(v, w).inputs = call[c].inputs /\ record(v, w).request = call[c].request
      BY <1>0 DEF Fields
    <2>2. \E result, v, w : Move(c, result, "process", record(v, w))
      BY <1>3, Zenon DEF MaterializePrinters
    <2> HIDE DEF record
    <2> QED BY <2>1, <2>2, MoveIsPlain DEF Preparing
  <1>4. CASE FindPrinter(c) \/ MatchListedPrinters(c)
    <2> DEFINE record(v) == [call[c] EXCEPT !.context = v]
    <2>1. \A v : record(v).inputs = call[c].inputs /\ record(v).request = call[c].request
      BY <1>0 DEF Fields
    <2>2. \/ \E result : Move(c, result, "match printers", call[c])
          \/ \E result, v : Move(c, result, "process", record(v))
          \/ \E code : Fail(c, code)
      BY <1>4, Zenon DEF FindPrinter, MatchListedPrinters, WithPrinter
    <2> HIDE DEF record
    <2> QED BY <2>1, <2>2, MoveIsPlain, FailIsPlain DEF Preparing
  <1>5. CASE ResolveProcess(c)
    <2> DEFINE record(v) == [call[c] EXCEPT !.profiles["process"] = v]
    <2>1. \A v : record(v).inputs = call[c].inputs /\ record(v).request = call[c].request
      BY <1>0 DEF Fields
    <2>2. \E result, v, one, two :
              Move(c, result, IF one THEN "filament" ELSE IF two THEN "matrix" ELSE "materialize process", record(v))
      BY <1>5, Zenon DEF ResolveProcess
    <2>3. \A one, two : (IF one THEN "filament" ELSE IF two THEN "matrix" ELSE "materialize process") \notin Preparing
      BY DEF Preparing
    <2> HIDE DEF record
    <2> QED BY <2>1, <2>2, <2>3, MoveIsPlain
  <1>6. CASE MaterializeProcess(c)
    <2> DEFINE record(v) == [call[c] EXCEPT !.profiles["process"] = v]
    <2>1. \A v : record(v).inputs = call[c].inputs /\ record(v).request = call[c].request
      BY <1>0 DEF Fields
    <2>2. \E result, v : Move(c, result, "matrix", record(v))
      BY <1>6, Zenon DEF MaterializeProcess
    <2> HIDE DEF record
    <2> QED BY <2>1, <2>2, MoveIsPlain DEF Preparing
  <1>7. CASE ResolveFilament(c)
    <2> DEFINE record(v) == [call[c] EXCEPT !.profiles["filament"] = v]
    <2>1. \A v : record(v).inputs = call[c].inputs /\ record(v).request = call[c].request
      BY <1>0 DEF Fields
    <2>2. \E result, v : Move(c, result, "matrix", record(v))
      BY <1>7, Zenon DEF ResolveFilament
    <2> HIDE DEF record
    <2> QED BY <2>1, <2>2, MoveIsPlain DEF Preparing
  <1> QED BY <1>1, <1>2, <1>3, <1>4, <1>5, <1>6, <1>7

LEMMA MatrixIsPlain ==
    ASSUME Untouched, NEW c \in Calls, ListFilaments(c) \/ JudgeFilament(c) \/ RankFilaments(c) \/ Narrate(c)
    PROVE  PlainStep(c)
  <1>0. Fields \subseteq DOMAIN call[c] /\ call[c].request = call[c].request
    BY DEF Untouched, WellFormed, Shape
  <1>1. CASE ListFilaments(c)
    <2> DEFINE record(v) == [call[c] EXCEPT !.todo = v]
    <2>1. \A v : record(v).inputs = call[c].inputs /\ record(v).request = call[c].request
      BY <1>0 DEF Fields
    <2>2. \E result, v : Move(c, result, "judge", record(v))
      BY <1>1, Zenon DEF ListFilaments
    <2> HIDE DEF record
    <2> QED BY <2>1, <2>2, MoveIsPlain DEF Preparing
  <1>2. CASE JudgeFilament(c)
    <2> DEFINE record(v, w, x) == [call[c] EXCEPT !.todo = v, !.candidates = w, !.rejected = x]
    <2>1. \A v, w, x : record(v, w, x).inputs = call[c].inputs /\ record(v, w, x).request = call[c].request
      BY <1>0 DEF Fields
    <2>2. \E result, v, w, x : Move(c, result, "judge", record(v, w, x))
      BY <1>2, Zenon DEF JudgeFilament
    <2> HIDE DEF record
    <2> QED BY <2>1, <2>2, MoveIsPlain DEF Preparing
  <1>3. CASE RankFilaments(c)
    <2> DEFINE record(v) == [call[c] EXCEPT !.candidates = v]
    <2>1. \A v : record(v).inputs = call[c].inputs /\ record(v).request = call[c].request
      BY <1>0 DEF Fields
    <2>2. pc[c] = "judge" /\ \/ \E result, v : Move(c, result, "rank", record(v))
                             \/ \E result, v : Move(c, result, "narrate", record(v))
                             \/ \E v : Finish(c, record(v))
      BY <1>3, Zenon DEF RankFilaments
    <2> HIDE DEF record
    <2> QED BY <2>1, <2>2, MoveIsPlain, FinishIsPlain DEF Preparing, Concluding
  <1>4. CASE Narrate(c)
    <2> DEFINE record == [call[c] EXCEPT !.mode = "llm"]
    <2>1. record.inputs = call[c].inputs /\ record.request = call[c].request
      BY <1>0 DEF Fields
    <2>2. pc[c] = "narrate" /\ (Finish(c, record) \/ Finish(c, call[c]) \/ \E code : Fail(c, code))
      BY <1>4, Zenon DEF Narrate
    <2> HIDE DEF record
    <2> QED BY <1>0, <2>1, <2>2, FinishIsPlain, FailIsPlain DEF Concluding
  <1> QED BY <1>1, <1>2, <1>3, <1>4

LEMMA SlicingIsPlain ==
    ASSUME Untouched, NEW c \in Calls, SlicingJob(c)
    PROVE  PlainStep(c)
  <1>0. Fields \subseteq DOMAIN call[c] /\ call[c].request = call[c].request
    BY DEF Untouched, WellFormed, Shape
  <1> DEFINE kind == JobOrder[call[c].at]
             last == call[c].at = 3
  <1>a. call = [call EXCEPT ![c] = call[c]]
    BY DEF Untouched, WellFormed
  <1>1. CASE ListJobProfile(c)
    <2> DEFINE record(v) == [call[c] EXCEPT !.at = IF last THEN 1 ELSE @ + 1, !.profiles[kind] = v]
    <2>1. \A v : record(v).inputs = call[c].inputs /\ record(v).request = call[c].request
      <3> HIDE DEF kind
      <3> QED BY <1>0 DEF Fields
    <2>2. \E result, v : Move(c, result, IF last THEN "job" ELSE "list", record(v))
      BY <1>1, Zenon DEF ListJobProfile
    <2>3. (IF last THEN "job" ELSE "list") \notin Preparing
      BY DEF Preparing
    <2> HIDE DEF record, last
    <2> QED BY <2>1, <2>2, <2>3, MoveIsPlain
  <1>2. CASE StartJob(c)
    <2> DEFINE record == [call[c] EXCEPT !.at = 1]
    <2>1. record.inputs = call[c].inputs /\ record.request = call[c].request
      BY <1>0 DEF Fields
    <2>2. (\E code : Fail(c, code)) \/ (\E result : Move(c, result, "job profiles", record))
      BY <1>2, Zenon DEF StartJob
    <2> HIDE DEF record
    <2> QED BY <2>1, <2>2, MoveIsPlain, FailIsPlain DEF Preparing
  <1>3. CASE MaterializeJobProfile(c)
    <2> DEFINE record(v) == [call[c] EXCEPT !.at = IF last THEN 1 ELSE @ + 1, !.sliced[kind] = v]
    <2>1. \A v : record(v).inputs = call[c].inputs /\ record(v).request = call[c].request
      <3> HIDE DEF kind
      <3> QED BY <1>0 DEF Fields
    <2>2. \E result, v : Move(c, result, IF last THEN "compatible" ELSE "job profiles", record(v))
      BY <1>3, Zenon DEF MaterializeJobProfile
    <2>3. (IF last THEN "compatible" ELSE "job profiles") \notin Preparing
      BY DEF Preparing
    <2> HIDE DEF record, last
    <2> QED BY <2>1, <2>2, <2>3, MoveIsPlain
  <1>4. CASE CheckCompatible(c)
    <2>1. \E result : Move(c, result, "directory", call[c])
      BY <1>4, Zenon DEF CheckCompatible
    <2> QED BY <2>1, MoveIsPlain DEF Preparing
  <1>5. CASE MakeJobDirectory(c)
    <2> DEFINE record == [call[c] EXCEPT !.stamp = clock]
    <2>1. record.inputs = call[c].inputs /\ record.request = call[c].request
      BY <1>0 DEF Fields
    <2>2. /\ pc' = [pc EXCEPT ![c] = "write"] /\ answer' = answer /\ call' = [call EXCEPT ![c] = record]
          /\ UNCHANGED <<store, edits, builder>>
      BY <1>5 DEF MakeJobDirectory, Goto, world
    <2>3. "write" \notin Preparing
      BY DEF Preparing
    <2> HIDE DEF record
    <2> QED BY <1>a, <2>1, <2>2, <2>3 DEF PlainStep
  <1>6. CASE WriteJobFiles(c)
    <2>1. pc' = [pc EXCEPT ![c] = "run"] /\ UNCHANGED <<store, edits, answer, call, builder>> /\ "run" \notin Preparing
      BY <1>6 DEF WriteJobFiles, Goto, world, Preparing
    <2> QED BY <1>a, <2>1 DEF PlainStep
  <1>7. CASE RunSlicer(c)
    <2>1. Goto(c, "collect") \/ \E code : Refuse(c, code)
      BY <1>7, Zenon DEF RunSlicer
    <2>2. UNCHANGED <<store, edits, call, builder>>
      BY <1>7 DEF RunSlicer, world
    <2>3. ASSUME Goto(c, "collect") PROVE PlainStep(c)
      <3>1. pc' = [pc EXCEPT ![c] = "collect"] /\ answer' = answer /\ "collect" \notin Preparing
        BY <2>3 DEF Goto, Preparing
      <3> QED BY <1>a, <2>2, <3>1 DEF PlainStep
    <2> QED BY <2>1, <2>2, <2>3, RefusedIsPlain
  <1>8. CASE CollectArtifacts(c)
    <2> DEFINE record(v, w) == [call[c] EXCEPT !.stats = v, !.artifact = w]
    <2>1. \A v, w : record(v, w).inputs = call[c].inputs /\ record(v, w).request = call[c].request
      BY <1>0 DEF Fields
    <2>2. \/ \E code : Fail(c, code)
          \/ Request(c).tool = "slice" /\ \E v, w : Finish(c, record(v, w))
          \/ \E result, v, w : Move(c, result, "evaluate", record(v, w))
      BY <1>8, Zenon DEF CollectArtifacts
    <2> HIDE DEF record
    <2> QED BY <2>1, <2>2, MoveIsPlain, FinishIsPlain, FailIsPlain DEF Preparing
  <1> QED BY <1>1, <1>2, <1>3, <1>4, <1>5, <1>6, <1>7, <1>8 DEF SlicingJob

LEMMA RecommendingIsPlain ==
    ASSUME Untouched, NEW c \in Calls, Recommending(c)
    PROVE  PlainStep(c)
  <1>0. Fields \subseteq DOMAIN call[c] /\ call[c].request = call[c].request
    BY DEF Untouched, WellFormed, Shape
  <1>a. call = [call EXCEPT ![c] = call[c]]
    BY DEF Untouched, WellFormed
  <1>1. CASE Analyze(c)
    <2>1. \/ \E code : Fail(c, code)
          \/ \E result : Move(c, result, "read", call[c])
          \/ \E result : Move(c, result, "evaluate", call[c])
      BY <1>1, Zenon DEF Analyze
    <2> QED BY <2>1, MoveIsPlain, FailIsPlain DEF Preparing
  <1>2. CASE ReadProfile(c)
    <2> DEFINE kind == Order[call[c].at]
               last == call[c].at = 3
               record(v) == [call[c] EXCEPT !.at = IF last THEN 1 ELSE @ + 1, !.profiles[kind] = v]
               step == IF ~last THEN "read" ELSE IF Request(c).slice THEN "job" ELSE "evaluate"
    <2>1. \A v : record(v).inputs = call[c].inputs /\ record(v).request = call[c].request
      <3> HIDE DEF kind
      <3> QED BY <1>0 DEF Fields
    <2>2. \E result, v : Move(c, result, step, record(v))
      BY <1>2, Zenon DEF ReadProfile
    <2>3. step \notin Preparing
      BY DEF Preparing
    <2> HIDE DEF record, step
    <2> QED BY <2>1, <2>2, <2>3, MoveIsPlain
  <1>3. CASE Evaluate(c) \/ AddProposal(c)
    <2>1. UNCHANGED <<store, edits, answer, call>>
      BY <1>3, Zenon DEF Evaluate, AddProposal, Goto, world
    <2>2. \E rules : builder' = [builder EXCEPT ![c] = rules]
      BY <1>3, Zenon DEF Evaluate, AddProposal
    <2>3. pc' = [pc EXCEPT ![c] = "add"] /\ "add" \notin Preparing
      <3>1. CASE Evaluate(c)
        BY <3>1 DEF Evaluate, Goto, Preparing
      <3>2. CASE AddProposal(c)
        <4>1. pc[c] = "add" /\ pc' = pc
          BY <3>2, Zenon DEF AddProposal
        <4> QED BY <4>1 DEF Untouched, Preparing
      <3> QED BY <1>3, <3>1, <3>2
    <2> QED BY <1>a, <2>1, <2>2, <2>3 DEF PlainStep
  <1>4. CASE Conclude(c) \/ AskLLM(c)
    <2> DEFINE concluded(v) == [call[c] EXCEPT !.final = v]
               told(v) == [call[c] EXCEPT !.mode = "llm", !.final = v]
    <2>1. \A v : /\ concluded(v).inputs = call[c].inputs /\ concluded(v).request = call[c].request
                 /\ told(v).inputs = call[c].inputs /\ told(v).request = call[c].request
      BY <1>0 DEF Fields
    <2>2. pc[c] \in Concluding
      <3>1. pc[c] = "add" \/ pc[c] = "llm"
        BY <1>4, Zenon DEF Conclude, AskLLM
      <3> QED BY <3>1 DEF Concluding
    <2>3. \/ \E v : Finish(c, concluded(v))
          \/ \E v : Finish(c, told(v))
          \/ \E result : Move(c, result, "llm", call[c])
          \/ \E code : Fail(c, code)
      <3>1. CASE Conclude(c)
        BY <3>1, Zenon DEF Conclude
      <3>2. CASE AskLLM(c)
        BY <3>2, Zenon DEF AskLLM, LLMFails
      <3> QED BY <1>4, <3>1, <3>2
    <2> HIDE DEF concluded, told
    <2> QED BY <2>1, <2>2, <2>3, MoveIsPlain, FinishIsPlain, FailIsPlain DEF Preparing
  <1> QED BY <1>1, <1>2, <1>3, <1>4 DEF Recommending

\* A step of a call is a plain one, or one of those that prepare a setup.
LEMMA WorkingIsPlain ==
    ASSUME IInv, NEW c \in Calls, Working(c)
    PROVE  /\ pc[c] \notin {"idle", "done"}
           /\ \/ PlainStep(c) /\ pc[c] \notin Preparing
              \/ SelectSetup(c) \/ RequireAuthority(c)
              \/ ResolveIdentity(c) \/ MaterializeIdentity(c) \/ RealizeSetup(c)
  <1> DEFINE five == \/ SelectSetup(c) \/ RequireAuthority(c)
                     \/ ResolveIdentity(c) \/ MaterializeIdentity(c) \/ RealizeSetup(c)
  <1>1. Untouched
    BY DEF IInv, TypeOK, Domains, Untouched
  <1>2. PlainStep(c) \/ five
    BY <1>1, ContextIsPlain, MatrixIsPlain, SlicingIsPlain, RecommendingIsPlain, Zenon DEF Working, SelectingSetup
  <1>3. five => pc[c] \notin {"idle", "done"}
    <2>1. five => \/ pc[c] = "rank" \/ pc[c] = "authority" \/ pc[c] = "resolve" \/ pc[c] = "materialize"
                  \/ pc[c] = "realize"
      BY Zenon DEF SelectSetup, RequireAuthority, ResolveIdentity, MaterializeIdentity, RealizeSetup
    <2> QED BY <2>1
  <1>4. ~five => pc[c] \notin Preparing \cup {"idle", "done"}
    <2>1. ~five =>
            \/ pc[c] = "start" \/ pc[c] = "printers" \/ pc[c] = "materialize printers" \/ pc[c] = "find printer"
            \/ pc[c] = "match printers" \/ pc[c] = "process" \/ pc[c] = "materialize process" \/ pc[c] = "filament"
            \/ pc[c] = "matrix" \/ pc[c] = "judge" \/ pc[c] = "rank" \/ pc[c] = "narrate" \/ pc[c] = "list"
            \/ pc[c] = "job" \/ pc[c] = "job profiles" \/ pc[c] = "compatible" \/ pc[c] = "directory"
            \/ pc[c] = "write" \/ pc[c] = "run" \/ pc[c] = "collect" \/ pc[c] = "analyze" \/ pc[c] = "read"
            \/ pc[c] = "evaluate" \/ pc[c] = "add" \/ pc[c] = "llm"
      <3> HIDE DEF five
      <3>1. ~five => \/ Start(c) \/ SelectPrinters(c) \/ MaterializePrinters(c) \/ FindPrinter(c)
                     \/ MatchListedPrinters(c) \/ ResolveProcess(c) \/ MaterializeProcess(c) \/ ResolveFilament(c)
                     \/ ListFilaments(c) \/ JudgeFilament(c) \/ RankFilaments(c) \/ Narrate(c)
                     \/ SlicingJob(c) \/ Recommending(c)
        BY Zenon DEF Working, SelectingSetup, five
      <3> QED
        BY <3>1, Zenon DEF SlicingJob, Recommending, Start, SelectPrinters, MaterializePrinters, FindPrinter,
           MatchListedPrinters, ResolveProcess, MaterializeProcess, ResolveFilament, ListFilaments, JudgeFilament,
           RankFilaments, Narrate, ListJobProfile, StartJob, MaterializeJobProfile, CheckCompatible, MakeJobDirectory,
           WriteJobFiles, RunSlicer, CollectArtifacts, Analyze, ReadProfile, Evaluate, AddProposal, Conclude, AskLLM
    <2> HIDE DEF five
    <2> QED BY <2>1 DEF Preparing
  <1> QED BY <1>2, <1>3, <1>4

\* A step of a call is nothing to the other calls, and keeps the request.
LEMMA WorkingElsewhere ==
    ASSUME IInv, NEW c \in Calls, Working(c)
    PROVE  /\ UNCHANGED <<store, edits>>
           /\ call'[c].request = call[c].request
           /\ \A d \in Calls \ {c} : /\ pc'[d] = pc[d] /\ answer'[d] = answer[d]
                                     /\ call'[d] = call[d] /\ builder'[d] = builder[d]
  <1>2. CASE PlainStep(c)
    <2> PICK step : pc' = [pc EXCEPT ![c] = step]
      BY <1>2, Zenon DEF PlainStep
    <2> PICK record : call' = [call EXCEPT ![c] = record] /\ record.request = call[c].request
      BY <1>2, Zenon DEF PlainStep
    <2>0. \A d \in Calls \ {c} : builder'[d] = builder[d]
      <3>1. builder' = builder \/ \E rules : builder' = [builder EXCEPT ![c] = rules]
        BY <1>2, Zenon DEF PlainStep
      <3> QED BY <3>1 DEF IInv, Domains
    <2>1. answer' = answer \/ \E any : answer' = [answer EXCEPT ![c] = any]
      BY <1>2 DEF PlainStep
    <2>2. \A d \in Calls \ {c} : answer'[d] = answer[d]
      BY <2>1 DEF IInv, Domains
    <2>3. /\ call'[c].request = call[c].request
          /\ \A d \in Calls \ {c} : pc'[d] = pc[d] /\ call'[d] = call[d]
      BY DEF IInv, Domains, WellFormed, TypeOK
    <2>4. UNCHANGED <<store, edits>>
      BY <1>2 DEF PlainStep
    <2> QED BY <2>0, <2>2, <2>3, <2>4
  <1>3. CASE \/ SelectSetup(c) \/ RequireAuthority(c)
             \/ ResolveIdentity(c) \/ MaterializeIdentity(c) \/ RealizeSetup(c)
    <2>1. QuietStep(c, SelectingSteps)
      BY <1>3, SelectionIsQuiet, RealizationIsQuiet DEF IInv, Domains
    <2>2. \A d \in Calls \ {c} : answer'[d] = answer[d]
      BY <2>1 DEF IInv, Domains, QuietStep, GoesTo
    <2>3. GoesTo(c, SelectingSteps) /\ UNCHANGED <<store, edits, builder>>
      BY <2>1 DEF QuietStep
    <2> QED BY <2>1, <2>2, <2>3, GoesToElsewhere, QuietElsewhere DEF SameJob
  <1> QED BY <1>2, <1>3, WorkingIsPlain

-----------------------------------------------------------------------------
(* The first test that holds *)

\* A set of naturals has a least element.
LEMMA HasLeast ==
    ASSUME NEW S \in SUBSET Nat, S # {}
    PROVE  \E i \in S : \A j \in S : i <= j
  <1> DEFINE R == {ss \in Nat \X Nat : ss[1] < ss[2]}
  <1>1. IsWellFoundedOn(R, Nat)
    BY NatLessThanWellFounded, Zenon DEF OpToRel
  <1>2. \A x, y \in Nat : y < x => <<y, x>> \in R
    OBVIOUS
  <1> HIDE DEF R
  <1>3. PICK x \in S : \A y \in S : <<y, x>> \notin R
    BY <1>1, WFMin
  <1>4. ASSUME NEW y \in S PROVE x <= y
    <2>1. x \in Nat /\ y \in Nat /\ <<y, x>> \notin R
      BY <1>3
    <2>2. ~(y < x)
      BY <1>2, <2>1
    <2> QED BY <2>1, <2>2
  <1> QED BY <1>4

LEMMA LeastIn ==
    ASSUME NEW S \in SUBSET Nat, S # {}
    PROVE  (CHOOSE i \in S : \A j \in S : i <= j) \in S
  <1> QED BY HasLeast

\* If no reason is given, no test holds.
LEMMA NoReason ==
    ASSUME NEW tests, DOMAIN tests \in SUBSET Nat, \A i \in DOMAIN tests : tests[i][2] # None,
           FirstReason(tests) = None
    PROVE  \A i \in DOMAIN tests : ~tests[i][1]
  <1> DEFINE holding == {i \in DOMAIN tests : tests[i][1]}
             first == CHOOSE i \in holding : \A j \in holding : i <= j
  <1>1. FirstReason(tests) = IF holding = {} THEN None ELSE tests[first][2]
    BY DEF FirstReason
  <1>2. holding # {} => first \in holding
    BY LeastIn
  <1> HIDE DEF first
  <1> QED BY <1>1, <1>2

\* The authority that is required: the listing has the identity once.
Decided(listed, identity) ==
    /\ listed.err = None
    /\ Matching(listed.val, identity) # {}
    /\ ~Several(Matching(listed.val, identity))

LEMMA GapDecides ==
    ASSUME NEW profiles, NEW identity, AuthorityGap(profiles, identity) = None
    PROVE  Matching(profiles, identity) # {} /\ ~Several(Matching(profiles, identity))
  <1> DEFINE none == Matching(profiles, identity) = {}
             several == Several(Matching(profiles, identity))
             tests == << <<none, "profile_authority_missing">>, <<several, "profile_authority_ambiguous">> >>
  <1>1. FirstReason(tests) = None
    BY DEF AuthorityGap
  <1> HIDE DEF none, several
  <1>2. DOMAIN tests = 1..2 /\ DOMAIN tests \in SUBSET Nat /\ tests[1][1] = none /\ tests[2][1] = several
    OBVIOUS
  <1>3. \A i \in DOMAIN tests : tests[i][2] # None
    BY ReasonsAssumption
  <1> HIDE DEF tests
  <1>4. \A i \in DOMAIN tests : ~tests[i][1]
    BY <1>1, <1>2, <1>3, NoReason
  <1>5. ~none /\ ~several
    BY <1>2, <1>4
  <1> QED BY <1>5 DEF none, several

-----------------------------------------------------------------------------
(* The authority of a prepared setup is decisive *)

\* While the store is the one of the selection, what has been required of it
\* holds of it.
Authorized(step, record, s, count) ==
    step \in {"authority", "resolve"} =>
        /\ record.selectedAt \in Nat /\ record.selectedAt <= count
        /\ count = record.selectedAt =>
            \A i \in 1..3 : step = "resolve" \/ i < record.at =>
                Decided(ListProfiles(s, Order[i]), record.setup[Order[i]])

AuthorityInv == \A c \in Calls : Authorized(pc[c], call[c], store, edits)

\* A step of the five that do prepare, by what it does to the call.
LEMMA MoveGives ==
    ASSUME IInv, NEW c \in Calls, NEW result, NEW step, NEW record, Move(c, result, step, record)
    PROVE  \/ pc'[c] = "done" /\ call'[c] = call[c] /\ result.err # None
           \/ pc'[c] = step /\ call'[c] = record /\ answer' = answer /\ result.err = None
  BY DEF Move, Refuse, Reply, Goto, IInv, TypeOK, Domains, WellFormed

LEMMA RequiringAuthorizes ==
    ASSUME IInv, NEW c \in Calls, Authorized(pc[c], call[c], store, edits), RequireAuthority(c)
    PROVE  Authorized(pc'[c], call'[c], store, edits)
  <1> DEFINE at == call[c].at
             kind == Order[at]
             identity == call[c].setup[kind]
             listed == ListProfiles(store, kind)
             Gap(ps) == LET gap == AuthorityGap(ps, identity) IN IF gap = None THEN Result(None) ELSE Failed(gap)
             last == at = 3
             step == IF last THEN "resolve" ELSE "authority"
             record == [call[c] EXCEPT !.at = IF last THEN 1 ELSE @ + 1]
             required == Then(Then(listed, Gap), LAMBDA x :
                 IF last /\ ~NozzleAuthoritative(call[c].context) THEN Failed("nozzle_not_authoritative") ELSE Result(None))
  <1>0. pc[c] = "authority" /\ Move(c, required, step, record)
    BY Zenon DEF RequireAuthority
  <1>1. required.err = None => Decided(listed, identity)
    <2> SUFFICES ASSUME required.err = None PROVE Decided(listed, identity)
      OBVIOUS
    <2>1. Then(listed, Gap).err = None
      <3> HIDE DEF Gap, listed
      <3> QED BY DEF Then
    <2>2. listed.err = None
      <3> HIDE DEF Gap, listed
      <3> QED BY <2>1 DEF Then
    <2>3. Gap(listed.val).err = None
      <3> HIDE DEF Gap, listed
      <3> QED BY <2>1, <2>2, Zenon DEF Then
    <2>4. AuthorityGap(listed.val, identity) = None
      <3> HIDE DEF listed, identity
      <3> QED BY <2>3 DEF Failed
    <2> QED BY <2>2, <2>4, GapDecides DEF Decided
  <1>2. /\ at \in 1..3 /\ record.at = (IF last THEN 1 ELSE at + 1)
        /\ record.setup = call[c].setup /\ record.selectedAt = call[c].selectedAt
    BY DEF IInv, TypeOK, Domains, WellFormed, Shape, Fields
  <1> HIDE DEF required, record, step, listed, identity
  <1>3. CASE pc'[c] = "done"
    BY <1>3 DEF Authorized
  <1>4. CASE pc'[c] = step /\ call'[c] = record /\ required.err = None
    <2>1. Decided(listed, identity)
      BY <1>1, <1>4
    <2>2. \A i \in 1..3 : (step = "resolve" \/ i < record.at) => i < at \/ i = at
      BY <1>2 DEF step
    <2>3. \A i \in 1..3 : i < at /\ edits = call[c].selectedAt =>
              Decided(ListProfiles(store, Order[i]), call[c].setup[Order[i]])
      <3> HIDE DEF Decided
      <3> QED BY <1>0 DEF Authorized
    <2>4. call[c].selectedAt \in Nat /\ call[c].selectedAt <= edits
      BY <1>0 DEF Authorized
    <2> HIDE DEF Decided
    <2> QED BY <1>2, <1>4, <2>1, <2>2, <2>3, <2>4 DEF Authorized, listed, identity
  <1> QED BY <1>0, <1>3, <1>4, MoveGives
\* Of a listing that has the identity once the realization takes that profile.
LEMMA DecidedIsResolved ==
    ASSUME NEW profiles, NEW identity, NEW kind,
           Matching(profiles, identity) # {}, ~Several(Matching(profiles, identity))
    PROVE  /\ Resolve(profiles, identity, kind).err = None
           /\ Resolve(profiles, identity, kind).val
                \in {profiles[i] : i \in Matching(profiles, identity)}
  <1> DEFINE matching == Matching(profiles, identity)
             chosen == CHOOSE i \in matching : TRUE
  <1>1. chosen \in matching
    OBVIOUS
  <1>2. Resolve(profiles, identity, kind) = Result(profiles[chosen])
    BY DEF Resolve
  <1> HIDE DEF matching, chosen
  <1> QED BY <1>1, <1>2 DEF Result, matching

LEMMA ResolvingIsDecided ==
    ASSUME IInv, NEW c \in Calls, Authorized(pc[c], call[c], store, edits), ResolveIdentity(c)
    PROVE  /\ edits = call[c].selectedAt => answer' = answer
           /\ Authorized(pc'[c], call'[c], store, edits)
  <1> DEFINE at == call[c].at
             kind == Order[at]
             identity == call[c].setup[kind]
             listed == ListProfiles(store, kind)
             readable == IF listed.err = "invalid_profile" THEN Failed("profile_content_invalid") ELSE listed
             source == Then(readable, LAMBDA ps : Resolve(ps, identity, kind))
             last == at = 3
             step == IF last THEN "materialize" ELSE "resolve"
             record == [call[c] EXCEPT !.at = IF last THEN 1 ELSE @ + 1, !.sources[kind] = source.val]
  <1>0. pc[c] = "resolve" /\ Move(c, source, step, record) /\ at \in 1..3
    BY Zenon DEF ResolveIdentity, IInv, TypeOK
  <1>1. ASSUME edits = call[c].selectedAt PROVE source.err = None
    <2>1. Decided(listed, identity)
      <3> HIDE DEF Decided
      <3> QED BY <1>0, <1>1 DEF Authorized
    <2>2. readable = listed /\ listed.err = None
      <3> HIDE DEF listed
      <3> QED BY <2>1, ToolsAssumption DEF Decided
    <2>3. source = Resolve(listed.val, identity, kind)
      BY <2>2, Zenon DEF Then
    <2>4. Resolve(listed.val, identity, kind).err = None
      <3> HIDE DEF listed, identity, kind
      <3> QED BY <2>1, DecidedIsResolved DEF Decided
    <2> QED BY <2>3, <2>4
  <1>2. record.setup = call[c].setup /\ record.selectedAt = call[c].selectedAt
    <2> HIDE DEF kind, source
    <2> QED BY DEF IInv, Domains, WellFormed, Shape, Fields
  <1> HIDE DEF source, record, step
  <1>3. \/ pc'[c] = "done" /\ source.err # None
        \/ pc'[c] = step /\ call'[c] = record /\ answer' = answer
    BY <1>0, MoveGives
  <1>4. Authorized(pc'[c], call'[c], store, edits)
    <2>1. step \in {"materialize", "resolve"}
      BY DEF step
    <2>2. pc'[c] = "resolve" => call'[c].setup = call[c].setup /\ call'[c].selectedAt = call[c].selectedAt
      BY <1>2, <1>3
    <2>3. pc'[c] # "authority"
      BY <1>3, <2>1
    <2> HIDE DEF Decided
    <2> QED BY <1>0, <2>2, <2>3 DEF Authorized
  <1> QED BY <1>1, <1>3, <1>4

LEMMA AuthorityStep ==
    ASSUME IInv, AuthorityInv, [Next]_vars
    PROVE  /\ AuthorityInv'
           /\ \A c \in Calls : pc[c] = "resolve" /\ edits = call[c].selectedAt => answer'[c] = answer[c]
  <1>0. edits \in Nat
    BY ToolsAssumption DEF IInv, TypeOK
  <1>1. ASSUME NEW c \in Calls, Working(c)
        PROVE  /\ AuthorityInv'
               /\ \A d \in Calls : pc[d] = "resolve" /\ edits = call[d].selectedAt => answer'[d] = answer[d]
    <2>1. /\ UNCHANGED <<store, edits>>
          /\ \A d \in Calls \ {c} : pc'[d] = pc[d] /\ answer'[d] = answer[d] /\ call'[d] = call[d]
      BY <1>1, WorkingElsewhere
    <2>2. \A d \in Calls : Authorized(pc[d], call[d], store, edits)
      BY DEF AuthorityInv
    <2>3. /\ Authorized(pc'[c], call'[c], store, edits)
          /\ pc[c] = "resolve" /\ edits = call[c].selectedAt => answer' = answer
      <3>1. CASE PlainStep(c) /\ pc[c] \notin Preparing
        <4>1. pc'[c] \notin Preparing
          BY <3>1 DEF PlainStep, IInv, TypeOK
        <4> QED BY <3>1, <4>1 DEF Authorized, Preparing
      <3>2. CASE SelectSetup(c)
        <4> DEFINE record(v, w) == [call[c] EXCEPT !.at = 1, !.selectedAt = v, !.setup = w]
        <4>1. \A v, w : record(v, w).at = 1 /\ record(v, w).selectedAt = v
          BY DEF IInv, Domains, WellFormed, Shape, Fields
        <4>2. pc[c] = "rank" /\ \E result, w : Move(c, result, "authority", record(edits, w))
          BY <3>2, Zenon DEF SelectSetup
        <4> HIDE DEF record
        <4>3. pc'[c] = "done" \/ (pc'[c] = "authority" /\ call'[c].at = 1 /\ call'[c].selectedAt = edits)
          BY <4>1, <4>2, MoveGives
        <4> HIDE DEF Decided
        <4> QED BY <1>0, <4>2, <4>3 DEF Authorized
      <3>3. CASE RequireAuthority(c)
        <4>1. pc[c] = "authority"
          BY <3>3, Zenon DEF RequireAuthority
        <4> QED BY <2>2, <3>3, <4>1, RequiringAuthorizes
      <3>4. CASE ResolveIdentity(c)
        BY <2>2, <3>4, ResolvingIsDecided
      <3>5. CASE MaterializeIdentity(c) \/ RealizeSetup(c)
        <4>1. pc[c] = "materialize" \/ pc[c] = "realize"
          BY <3>5, Zenon DEF MaterializeIdentity, RealizeSetup
        <4>2. pc'[c] \in {"materialize", "realize", "done"}
          <5>1. CASE MaterializeIdentity(c)
            <6>1. \E result, record, one : Move(c, result, IF one THEN "realize" ELSE "materialize", record)
              BY <5>1, Zenon DEF MaterializeIdentity
            <6> QED BY <6>1, MoveGives
          <5>2. CASE RealizeSetup(c)
            <6>1. pc' = [pc EXCEPT ![c] = "done"]
              <7>1. (\E code : Fail(c, code)) \/ (\E v : Finish(c, v))
                BY <5>2, Zenon DEF RealizeSetup
              <7> QED BY <7>1 DEF Fail, Finish, Refuse, Reply
            <6> QED BY <6>1 DEF IInv, TypeOK
          <5> QED BY <3>5, <5>1, <5>2
        <4> QED BY <4>1, <4>2 DEF Authorized
      <3> QED BY <1>1, <3>1, <3>2, <3>3, <3>4, <3>5, WorkingIsPlain
    <2>4. \A d \in Calls : Authorized(pc'[d], call'[d], store', edits')
      <3> HIDE DEF Authorized
      <3> QED BY <2>1, <2>2, <2>3
    <2>5. AuthorityInv'
      <3> HIDE DEF Authorized
      <3> QED BY <2>4 DEF AuthorityInv
    <2> QED BY <2>1, <2>3, <2>5
  <1>2. CASE EditFile \/ LoseUsers
    <2>1. UNCHANGED <<pc, answer, call>> /\ edits' = edits + 1
      BY <1>2, Zenon DEF EditFile, LoseUsers
    <2>2. \A d \in Calls : Authorized(pc'[d], call'[d], store', edits')
      <3>1. \A d \in Calls : Authorized(pc[d], call[d], store, edits)
        BY DEF AuthorityInv
      <3> HIDE DEF Decided
      <3> QED BY <1>0, <2>1, <3>1 DEF Authorized
    <2> HIDE DEF Authorized
    <2> QED BY <2>1, <2>2 DEF AuthorityInv
  <1>3. CASE Tick \/ UNCHANGED vars
    <2>1. UNCHANGED <<store, edits, pc, answer, call>>
      BY <1>3 DEF Tick, vars, world
    <2> HIDE DEF Authorized
    <2> QED BY <2>1 DEF AuthorityInv
  <1> QED BY <1>1, <1>2, <1>3 DEF Next

\* What _selected_setup() has required of the selected profiles, realize_setup()
\* finds, as long as nobody has touched the store in between: none of them is
\* missing or ambiguous then, for every store and every request.
THEOREM AuthorityIsDecisiveHolds == Spec => AuthorityIsDecisive
  <1>1. Init => AuthorityInv
    BY DEF Init, AuthorityInv, Authorized
  <1>2. IInv /\ AuthorityInv /\ [Next]_vars => AuthorityInv'
    BY AuthorityStep
  <1>3. IInv /\ AuthorityInv /\ [Next]_vars =>
            [\A c \in Calls : pc[c] = "resolve" /\ edits = call[c].selectedAt => answer'[c] = answer[c]]_vars
    BY AuthorityStep
  <1> QED BY <1>1, <1>2, <1>3, Invariant, PTL DEF Spec, AuthorityIsDecisive

-----------------------------------------------------------------------------
(* What a realized setup rests on *)

\* A profile's compatible printers are those its own keys declare.
Declared(profile) == profile.compatible = CompatiblePrinters(profile.keys)

Named(setup) == \A kind \in Kinds : setup[kind] = [name |-> setup[kind].name, id |-> setup[kind].id]

\* The realization has found the selected profile itself.
Found(record, kind) == Identity(record.sources[kind]) = record.setup[kind] /\ Declared(record.sources[kind])

Prepared(step, record) ==
    /\ record.inputs # None => step = "done" /\ Proven(record)
    /\ step \in Preparing => Named(record.setup)
    /\ step = "resolve" => \A i \in 1..(record.at - 1) : Found(record, Order[i])
    /\ step \in {"materialize", "realize"} => \A kind \in Kinds : Found(record, kind)
    /\ step = "materialize" => \A i \in 1..(record.at - 1) : Declared(record.profiles[Order[i]])
    /\ step = "realize" => \A kind \in Kinds : Declared(record.profiles[kind])

PreparedInv == \A c \in Calls : Prepared(pc[c], call[c])

LEMMA OrderIsKinds ==
    /\ \A i \in 1..3 : Order[i] \in Kinds
    /\ \A kind \in Kinds : \E i \in 1..3 : kind = Order[i]
    /\ \A i, j \in 1..3 : Order[i] = Order[j] => i = j
  <1>1. Order[1] = "printer" /\ Order[2] = "process" /\ Order[3] = "filament"
    BY DEF Order
  <1> QED BY <1>1 DEF Kinds

LEMMA ListedIsDeclared ==
    ASSUME NEW s, NEW kind, ListProfiles(s, kind).err = None
    PROVE  \A i \in DOMAIN ListProfiles(s, kind).val : Declared(ListProfiles(s, kind).val[i])
  <1> DEFINE File(p) == <<kind, p[1], p[2]>>
             present == SelectSeq(Places, LAMBDA p : File(p) \in DOMAIN s.files)
             parsed == SelectSeq(present, LAMBDA p : s.files[File(p)].form # "broken")
             profiles == [i \in DOMAIN parsed |-> ParseProfile(s.files[File(parsed[i])], parsed[i][1])]
             locked == \E i \in DOMAIN present : s.files[File(present[i])].form = "locked"
  <1>1. \/ ListProfiles(s, kind) = OSError
        \/ ListProfiles(s, kind) = InvalidProfile
        \/ ListProfiles(s, kind) = Result(profiles)
    <2>1. ListProfiles(s, kind) =
            CASE ~s.usersReadable -> OSError [] locked -> InvalidProfile [] OTHER -> Result(profiles)
      BY Zenon DEF ListProfiles
    <2> HIDE DEF locked, profiles
    <2> QED BY <2>1
  <1>2. OSError.err # None /\ InvalidProfile.err # None
    BY ToolsAssumption, ReasonsAssumption DEF OSError, InvalidProfile, Failed
  <1>3. \A doc, place : Declared(ParseProfile(doc, place))
    BY DEF Declared, ParseProfile
  <1>4. \A i \in DOMAIN profiles : Declared(profiles[i])
    <2> HIDE DEF parsed
    <2>1. \A i \in DOMAIN profiles : \E doc, place : profiles[i] = ParseProfile(doc, place)
      BY Zenon
    <2> HIDE DEF profiles
    <2> QED BY <1>3, <2>1
  <1> HIDE DEF profiles
  <1> QED BY <1>1, <1>2, <1>4 DEF Result

LEMMA ResolvedIsFound ==
    ASSUME NEW profiles, NEW identity, NEW kind \in Kinds, Resolve(profiles, identity, kind).err = None
    PROVE  \E i \in DOMAIN profiles : /\ Resolve(profiles, identity, kind).val = profiles[i]
                                      /\ profiles[i].name = identity.name /\ profiles[i].id = identity.id
  <1> DEFINE matching == Matching(profiles, identity)
             chosen == CHOOSE i \in matching : TRUE
  <1>1. CASE matching = {}
    <2>1. Resolve(profiles, identity, kind) = Failed(MissingProfile[kind])
      BY <1>1 DEF Resolve, Several
    <2>2. MissingProfile[kind] # None
      BY ReasonsAssumption DEF MissingProfile, Kinds
    <2> QED BY <2>1, <2>2 DEF Failed
  <1>2. CASE matching # {} /\ Several(matching)
    <2>1. Resolve(profiles, identity, kind) = Failed("ambiguous_profile_resolution")
      BY <1>2 DEF Resolve
    <2> QED BY <2>1, ReasonsAssumption DEF Failed
  <1>3. CASE matching # {} /\ ~Several(matching)
    <2>1. Resolve(profiles, identity, kind).val \in {profiles[i] : i \in matching}
      BY <1>3, DecidedIsResolved
    <2> QED BY <2>1 DEF Matching
  <1> QED BY <1>1, <1>2, <1>3

LEMMA MadeIsDeclared ==
    ASSUME NEW s, NEW kind, NEW profile, Declared(profile), MaterializeExact(s, kind, profile).err = None
    PROVE  Declared(MaterializeExact(s, kind, profile).val)
  <1> DEFINE chain == ResolveChain(s, kind, profile, profile.name)
             made == Resolved(kind, profile, chain.val, Merged(chain.val))
  <1>1. \/ MaterializeExact(s, kind, profile) = Result(profile)
        \/ MaterializeExact(s, kind, profile) = InvalidProfile
        \/ MaterializeExact(s, kind, profile) = chain /\ chain.err # None
        \/ MaterializeExact(s, kind, profile) = Result(made)
    BY DEF MaterializeExact, Materialize, Then
  <1>2. Declared(made)
    BY DEF Resolved, Declared
  <1>3. InvalidProfile.err # None
    BY ToolsAssumption DEF InvalidProfile, Failed
  <1> HIDE DEF made, chain
  <1> QED BY <1>1, <1>2, <1>3 DEF Result

\* If the realization finds no reason to refuse, what it has read proves it.
LEMMA NoReasonProves ==
    ASSUME NEW setup, NEW printer, NEW process, NEW filament, Unproven(setup, printer, process, filament) = None
    PROVE  /\ process.compatible = {} \/ printer.name \in process.compatible
           /\ Value(printer.keys, "nozzle_diameter") # None
           /\ setup.nozzle \in NozzleValues(printer)
           /\ setup.plate \in DOMAIN NativePlate
           /\ Value(filament.keys, "filament_type") # None
           /\ Value(filament.keys, "filament_type") = setup.material
  <1> DEFINE material == Value(filament.keys, "filament_type")
             one == process.compatible # {} /\ printer.name \notin process.compatible
             two == Value(printer.keys, "nozzle_diameter") = None
             three == setup.nozzle \notin NozzleValues(printer)
             four == setup.plate \notin DOMAIN NativePlate
             five == material = None
             six == material # setup.material
             tests == << <<one, "incompatible_profiles">>, <<two, "profile_content_invalid">>,
                         <<three, "unsupported_nozzle">>, <<four, "build_plate_not_representable">>,
                         <<five, "material_not_provable">>, <<six, "material_profile_mismatch">> >>
  <1>1. FirstReason(tests) = None
    BY Zenon DEF Unproven
  <1> HIDE DEF one, two, three, four, five, six
  <1>2. DOMAIN tests = 1..6 /\ DOMAIN tests \in SUBSET Nat
    OBVIOUS
  <1>3. /\ tests[1][1] = one /\ tests[2][1] = two /\ tests[3][1] = three
        /\ tests[4][1] = four /\ tests[5][1] = five /\ tests[6][1] = six
    OBVIOUS
  <1>4. \A i \in DOMAIN tests : tests[i][2] # None
    BY ReasonsAssumption
  <1> HIDE DEF tests
  <1>5. \A i \in DOMAIN tests : ~tests[i][1]
    BY <1>1, <1>2, <1>4, NoReason
  <1>6. ~one /\ ~two /\ ~three /\ ~four /\ ~five /\ ~six
    BY <1>2, <1>3, <1>5
  <1> QED BY <1>6 DEF one, two, three, four, five, six

LEMMA PlainKeepsPrepared ==
    ASSUME IInv, NEW c \in Calls, PlainStep(c), pc[c] # "done", Prepared(pc[c], call[c])
    PROVE  Prepared(pc'[c], call'[c])
  <1>1. pc'[c] \notin Preparing
    BY DEF PlainStep, IInv, TypeOK
  <1>2. call'[c].inputs = call[c].inputs
    <2> PICK record : call' = [call EXCEPT ![c] = record] /\ record.inputs = call[c].inputs
      BY Zenon DEF PlainStep
    <2> QED BY DEF IInv, Domains, WellFormed
  <1>3. call[c].inputs = None
    BY Zenon DEF Prepared
  <1> HIDE DEF Proven
  <1> QED BY <1>1, <1>2, <1>3 DEF Prepared, Preparing

LEMMA NamingKeepsPrepared ==
    ASSUME IInv, NEW c \in Calls, Prepared(pc[c], call[c]), SelectSetup(c) \/ RequireAuthority(c)
    PROVE  Prepared(pc'[c], call'[c])
  <1>0. Fields \subseteq DOMAIN call[c]
    BY DEF IInv, Domains, WellFormed, Shape
  <1>a. pc[c] \in {"rank", "authority"}
    <2>1. pc[c] = "rank" \/ pc[c] = "authority"
      BY Zenon DEF SelectSetup, RequireAuthority
    <2> QED BY <2>1
  <1>b. call[c].inputs = None /\ (pc[c] = "authority" => Named(call[c].setup))
    <2> HIDE DEF Proven, Named
    <2> QED BY <1>a DEF Prepared, Preparing
  <1>c. ASSUME pc'[c] = "done", call'[c] = call[c] PROVE Prepared(pc'[c], call'[c])
    BY <1>b, <1>c DEF Prepared, Preparing
  <1>1. CASE SelectSetup(c)
    <2> DEFINE named(p, q, f, n, plate) == SelectedSetup(p, q, f, n, plate)
               record(w) == [call[c] EXCEPT !.at = 1, !.selectedAt = edits, !.setup = w]
    <2>1. \E result, p, q, f, n, plate : Move(c, result, "authority", record(named(p, q, f, n, plate)))
      BY <1>1, Zenon DEF SelectSetup
    <2>2. \A p, q, f, n, plate : Named(named(p, q, f, n, plate))
      BY DEF Named, SelectedSetup, Identity, Kinds
    <2>3. \A w : record(w).inputs = None /\ record(w).setup = w
      BY <1>0, <1>b DEF Fields
    <2> HIDE DEF record, named
    <2>4. \/ pc'[c] = "done" /\ call'[c] = call[c]
          \/ pc'[c] = "authority" /\ call'[c].inputs = None /\ Named(call'[c].setup)
      <3> HIDE DEF Named
      <3> QED BY <2>1, <2>2, <2>3, MoveGives
    <2> HIDE DEF Named
    <2> QED BY <1>c, <2>4 DEF Prepared, Preparing
  <1>2. CASE RequireAuthority(c)
    <2> DEFINE record(v) == [call[c] EXCEPT !.at = v]
    <2>1. \E result, last : /\ Move(c, result, IF last THEN "resolve" ELSE "authority", record(IF last THEN 1 ELSE call[c].at + 1))
                            /\ pc[c] = "authority"
      <3> DEFINE last == call[c].at = 3
      <3>1. pc[c] = "authority" /\ \E result : Move(c, result, IF last THEN "resolve" ELSE "authority", [call[c] EXCEPT !.at = IF last THEN 1 ELSE @ + 1])
        BY <1>2, Zenon DEF RequireAuthority
      <3>2. [call[c] EXCEPT !.at = IF last THEN 1 ELSE @ + 1] = record(IF last THEN 1 ELSE call[c].at + 1)
        OBVIOUS
      <3> HIDE DEF last, record
      <3> QED BY <3>1, <3>2
    <2>2. \A v : record(v).inputs = None /\ record(v).setup = call[c].setup /\ record(v).at = v
      BY <1>0, <1>b DEF Fields
    <2> HIDE DEF record
    <2>3. \/ pc'[c] = "done" /\ call'[c] = call[c]
          \/ /\ pc'[c] = "authority" \/ (pc'[c] = "resolve" /\ call'[c].at = 1)
             /\ call'[c].inputs = None /\ Named(call'[c].setup)
      <3>1. PICK result, last : /\ Move(c, result, IF last THEN "resolve" ELSE "authority", record(IF last THEN 1 ELSE call[c].at + 1))
                                /\ pc[c] = "authority"
        BY <2>1
      <3> HIDE DEF Named
      <3>2. CASE last
        <4>1. Move(c, result, "resolve", record(1))
          BY <3>1, <3>2
        <4> QED BY <1>b, <2>2, <3>1, <4>1, MoveGives
      <3>3. CASE ~last
        <4>1. Move(c, result, "authority", record(call[c].at + 1))
          BY <3>1, <3>3
        <4> QED BY <1>b, <2>2, <3>1, <4>1, MoveGives
      <3> QED BY <3>2, <3>3
    <2>4. 1..(1 - 1) = {}
      OBVIOUS
    <2> HIDE DEF Named
    <2> QED BY <1>c, <2>3, <2>4 DEF Prepared, Preparing
  <1> QED BY <1>1, <1>2

LEMMA ResolvingKeepsPrepared ==
    ASSUME IInv, NEW c \in Calls, Prepared(pc[c], call[c]), ResolveIdentity(c)
    PROVE  Prepared(pc'[c], call'[c])
  <1> DEFINE at == call[c].at
             kind == Order[at]
             identity == call[c].setup[kind]
             listed == ListProfiles(store, kind)
             readable == IF listed.err = "invalid_profile" THEN Failed("profile_content_invalid") ELSE listed
             source == Then(readable, LAMBDA ps : Resolve(ps, identity, kind))
             last == at = 3
             step == IF last THEN "materialize" ELSE "resolve"
             record == [call[c] EXCEPT !.at = IF last THEN 1 ELSE @ + 1, !.sources[kind] = source.val]
  <1>0. pc[c] = "resolve" /\ Move(c, source, step, record)
    BY Zenon DEF ResolveIdentity
  <1>1. at \in 1..3 /\ kind \in Kinds /\ Shape(call[c])
    BY OrderIsKinds DEF IInv, TypeOK, Domains, WellFormed
  <1>2. call[c].inputs = None /\ Named(call[c].setup) /\ \A i \in 1..(at - 1) : Found(call[c], Order[i])
    <2> HIDE DEF Proven, Named, Found
    <2> QED BY <1>0 DEF Prepared, Preparing
  <1>3. ASSUME source.err = None PROVE Identity(source.val) = identity /\ Declared(source.val)
    <2>1. readable.err = None
      <3> HIDE DEF readable
      <3> QED BY <1>3, Zenon DEF Then
    <2>2. readable = listed
      <3>1. Failed("profile_content_invalid").err # None
        BY ReasonsAssumption DEF Failed
      <3> HIDE DEF listed
      <3> QED BY <2>1, <3>1
    <2>3. source = Resolve(listed.val, identity, kind)
      BY <2>1, <2>2, Zenon DEF Then
    <2>4. PICK i \in DOMAIN listed.val : /\ source.val = listed.val[i]
                                         /\ listed.val[i].name = identity.name /\ listed.val[i].id = identity.id
      <3> HIDE DEF listed, identity, kind, source
      <3> QED BY <1>1, <1>3, <2>3, ResolvedIsFound
    <2>5. Declared(listed.val[i])
      BY <2>1, <2>2, ListedIsDeclared
    <2>6. identity = [name |-> identity.name, id |-> identity.id]
      <3> HIDE DEF kind
      <3> QED BY <1>1, <1>2 DEF Named
    <2> HIDE DEF listed, identity, source
    <2> QED BY <2>4, <2>5, <2>6 DEF Identity
  <1>4. /\ record.inputs = None /\ record.setup = call[c].setup /\ record.at = (IF last THEN 1 ELSE at + 1)
        /\ record.sources[kind] = source.val
        /\ \A k \in Kinds \ {kind} : record.sources[k] = call[c].sources[k]
    <2> HIDE DEF kind, source, last
    <2> QED BY <1>1, <1>2 DEF Shape, Fields
  <1>5. ASSUME source.err = None PROVE \A i \in 1..at : Found(record, Order[i])
    <2>1. Found(record, kind)
      <3> HIDE DEF source, record
      <3> QED BY <1>3, <1>4, <1>5 DEF Found
    <2>2. ASSUME NEW i \in 1..(at - 1) PROVE Found(record, Order[i])
      <3>1. Order[i] \in Kinds \ {kind}
        BY <1>1, OrderIsKinds
      <3>2. Found(call[c], Order[i])
        <4> HIDE DEF Found
        <4> QED BY <1>2
      <3> HIDE DEF record
      <3> QED BY <1>4, <3>1, <3>2 DEF Found
    <2>3. \A i \in 1..at : i = at \/ i \in 1..(at - 1)
      BY <1>1
    <2> HIDE DEF record, Found
    <2> QED BY <2>1, <2>2, <2>3
  <1> HIDE DEF record, source, step, kind
  <1>6. CASE pc'[c] = "done" /\ call'[c] = call[c]
    <2> HIDE DEF Proven
    <2> QED BY <1>2, <1>6 DEF Prepared, Preparing
  <1>7. CASE pc'[c] = step /\ call'[c] = record /\ source.err = None
    <2>1. CASE last
      <3>1. pc'[c] = "materialize" /\ record.at = 1
        BY <1>4, <1>7, <2>1 DEF step
      <3>2. \A k \in Kinds : Found(record, k)
        <4> HIDE DEF Found
        <4> QED BY <1>5, <1>7, <2>1, OrderIsKinds
      <3>3. 1..(1 - 1) = {}
        OBVIOUS
      <3> HIDE DEF Proven, Found, Named, Declared
      <3> QED BY <1>2, <1>4, <1>7, <3>1, <3>2, <3>3 DEF Prepared, Preparing
    <2>2. CASE ~last
      <3>1. pc'[c] = "resolve" /\ record.at = at + 1 /\ record.at - 1 = at
        BY <1>1, <1>4, <1>7, <2>2 DEF step
      <3> HIDE DEF Proven, Found, Named, Declared
      <3> QED BY <1>2, <1>4, <1>5, <1>7, <3>1 DEF Prepared, Preparing
    <2> QED BY <2>1, <2>2
  <1> QED BY <1>0, <1>6, <1>7, MoveGives

LEMMA MaterializingKeepsPrepared ==
    ASSUME IInv, NEW c \in Calls, Prepared(pc[c], call[c]), MaterializeIdentity(c)
    PROVE  Prepared(pc'[c], call'[c])
  <1> DEFINE at == call[c].at
             kind == Order[at]
             made == MaterializeExact(store, kind, call[c].sources[kind])
             profile == IF made.err = "invalid_profile" THEN Failed("profile_materialization_failed") ELSE made
             last == at = 3
             step == IF last THEN "realize" ELSE "materialize"
             record == [call[c] EXCEPT !.at = IF last THEN 1 ELSE @ + 1, !.profiles[kind] = profile.val]
  <1>0. pc[c] = "materialize" /\ Move(c, profile, step, record)
    BY Zenon DEF MaterializeIdentity
  <1>1. at \in 1..3 /\ kind \in Kinds /\ Shape(call[c])
    BY OrderIsKinds DEF IInv, TypeOK, Domains, WellFormed
  <1>2. /\ call[c].inputs = None /\ Named(call[c].setup) /\ \A k \in Kinds : Found(call[c], k)
        /\ \A i \in 1..(at - 1) : Declared(call[c].profiles[Order[i]])
    <2> HIDE DEF Proven, Named, Found, Declared
    <2> QED BY <1>0 DEF Prepared, Preparing
  <1>3. ASSUME profile.err = None PROVE Declared(profile.val)
    <2>1. Failed("profile_materialization_failed").err # None
      BY ReasonsAssumption DEF Failed
    <2>2. profile = made /\ made.err = None
      <3> HIDE DEF made
      <3> QED BY <1>3, <2>1
    <2>3. Declared(call[c].sources[kind])
      <3> HIDE DEF kind, Declared
      <3> QED BY <1>1, <1>2 DEF Found
    <2> HIDE DEF Declared
    <2>4. Declared(made.val)
      <3> HIDE DEF kind
      <3> QED BY <2>2, <2>3, MadeIsDeclared
    <2> HIDE DEF made, profile
    <2> QED BY <2>2, <2>4
  <1>4. /\ record.inputs = None /\ record.setup = call[c].setup /\ record.at = (IF last THEN 1 ELSE at + 1)
        /\ record.sources = call[c].sources
        /\ record.profiles[kind] = profile.val
        /\ \A k \in Kinds \ {kind} : record.profiles[k] = call[c].profiles[k]
    <2> HIDE DEF kind, profile, last
    <2> QED BY <1>1, <1>2 DEF Shape, Fields
  <1>5. ASSUME profile.err = None PROVE \A i \in 1..at : Declared(record.profiles[Order[i]])
    <2>1. Declared(record.profiles[kind])
      <3> HIDE DEF profile, record, Declared
      <3> QED BY <1>3, <1>4, <1>5
    <2>2. ASSUME NEW i \in 1..(at - 1) PROVE Declared(record.profiles[Order[i]])
      <3>1. Order[i] \in Kinds \ {kind}
        BY <1>1, OrderIsKinds
      <3> HIDE DEF record, Declared
      <3> QED BY <1>2, <1>4, <3>1
    <2>3. \A i \in 1..at : i = at \/ i \in 1..(at - 1)
      BY <1>1
    <2> HIDE DEF record, Declared
    <2> QED BY <2>1, <2>2, <2>3
  <1>6. \A k \in Kinds : Found(record, k)
    <2> HIDE DEF record
    <2> QED BY <1>2, <1>4 DEF Found
  <1> HIDE DEF record, profile, step, kind
  <1>7. CASE pc'[c] = "done" /\ call'[c] = call[c]
    <2> HIDE DEF Proven
    <2> QED BY <1>2, <1>7 DEF Prepared, Preparing
  <1>8. CASE pc'[c] = step /\ call'[c] = record /\ profile.err = None
    <2>1. CASE last
      <3>1. pc'[c] = "realize"
        BY <1>8, <2>1 DEF step
      <3>2. \A k \in Kinds : Declared(record.profiles[k])
        <4> HIDE DEF Declared
        <4> QED BY <1>5, <1>8, <2>1, OrderIsKinds
      <3> HIDE DEF Proven, Found, Named, Declared
      <3> QED BY <1>2, <1>4, <1>6, <1>8, <3>1, <3>2 DEF Prepared, Preparing
    <2>2. CASE ~last
      <3>1. pc'[c] = "materialize" /\ record.at = at + 1 /\ record.at - 1 = at
        BY <1>1, <1>4, <1>8, <2>2 DEF step
      <3> HIDE DEF Proven, Found, Named, Declared
      <3> QED BY <1>2, <1>4, <1>5, <1>6, <1>8, <3>1 DEF Prepared, Preparing
    <2> QED BY <2>1, <2>2
  <1> QED BY <1>0, <1>7, <1>8, MoveGives

LEMMA RealizingProves ==
    ASSUME IInv, NEW c \in Calls, Prepared(pc[c], call[c]), RealizeSetup(c)
    PROVE  Prepared(pc'[c], call'[c])
  <1> DEFINE setup == call[c].setup
             printer == call[c].profiles["printer"]
             process == call[c].profiles["process"]
             filament == call[c].profiles["filament"]
             inputs == EffectiveInputs(setup, printer, process, filament)
             record == [call[c] EXCEPT !.inputs = inputs]
  <1>0. /\ pc[c] = "realize"
        /\ \/ \E code : Fail(c, code)
           \/ Unproven(setup, printer, process, filament) = None /\ Finish(c, record)
    BY Zenon DEF RealizeSetup
  <1>1. /\ call[c].inputs = None /\ \A kind \in Kinds : Found(call[c], kind)
        /\ Declared(process)
    <2> HIDE DEF Proven, Named, Found, Declared
    <2> QED BY <1>0 DEF Prepared, Preparing, Kinds
  <1>2. /\ record.inputs = inputs /\ record.setup = setup /\ record.sources = call[c].sources
    <2> HIDE DEF inputs
    <2> QED BY DEF IInv, Domains, WellFormed, Shape, Fields
  <1>3. ASSUME Unproven(setup, printer, process, filament) = None PROVE Proven(record)
    <2>1. /\ process.compatible = {} \/ printer.name \in process.compatible
          /\ Value(printer.keys, "nozzle_diameter") # None
          /\ setup.nozzle \in NozzleValues(printer)
          /\ setup.plate \in DOMAIN NativePlate
          /\ Value(filament.keys, "filament_type") # None
          /\ Value(filament.keys, "filament_type") = setup.material
      <3> HIDE DEF printer, process, filament, setup
      <3> QED BY <1>3, NoReasonProves
    <2>2. /\ inputs["printer"] = Reference(setup.printer, printer)
          /\ inputs["process"] = Reference(setup.process, process)
          /\ inputs["filament"] = Reference(setup.filament, filament)
      BY DEF EffectiveInputs
    <2> HIDE DEF inputs, record
    <2>3. \A kind \in Kinds : Identity(record.sources[kind]) = setup[kind] /\ inputs[kind].identity = setup[kind]
      <3>1. \A kind \in Kinds : inputs[kind].identity = setup[kind]
        <4> HIDE DEF setup, printer, process, filament
        <4> QED BY <2>2 DEF Reference, Kinds
      <3> QED BY <1>1, <1>2, <3>1 DEF Found
    <2>4. setup.nozzle \in inputs["printer"].content["nozzle_diameter"]
      <3> HIDE DEF setup, printer, process, filament
      <3> QED BY <2>1, <2>2 DEF Reference, NozzleValues, Value
    <2>5. setup.material = inputs["filament"].content["filament_type"]
      <3> HIDE DEF setup, printer, process, filament
      <3> QED BY <2>1, <2>2 DEF Reference, Value
    <2>6. \/ CompatiblePrinters(inputs["process"].content) = {}
          \/ inputs["printer"].name \in inputs["process"].content["compatible_printers"]
      <3> HIDE DEF setup, printer, process, filament
      <3> QED BY <1>1, <2>1, <2>2 DEF Reference, Declared, CompatiblePrinters
    <2>7. setup.plate \in DOMAIN PlateFields
      <3> HIDE DEF setup
      <3> QED BY <2>1 DEF NativePlate, PlateFields
    <2> HIDE DEF setup
    <2> QED BY <1>2, <2>3, <2>4, <2>5, <2>6, <2>7, Zenon DEF Proven
  <1>4. CASE \E code : Fail(c, code)
    <2>1. pc'[c] = "done" /\ call'[c] = call[c]
      BY <1>4 DEF Fail, Refuse, Reply, IInv, TypeOK
    <2> HIDE DEF Proven
    <2> QED BY <1>1, <2>1 DEF Prepared, Preparing
  <1>5. CASE Unproven(setup, printer, process, filament) = None /\ Finish(c, record)
    <2> HIDE DEF record
    <2>1. pc'[c] = "done" /\ call'[c] = record
      BY <1>5 DEF Finish, Reply, IInv, TypeOK, Domains, WellFormed
    <2> HIDE DEF Proven
    <2> QED BY <1>3, <1>5, <2>1 DEF Prepared, Preparing
  <1> QED BY <1>0, <1>4, <1>5

LEMMA PreparedStep ==
    ASSUME IInv, PreparedInv, [Next]_vars
    PROVE  PreparedInv'
  <1>1. ASSUME NEW c \in Calls, Working(c) PROVE PreparedInv'
    <2>1. \A d \in Calls \ {c} : pc'[d] = pc[d] /\ call'[d] = call[d]
      BY <1>1, WorkingElsewhere
    <2>2. \A d \in Calls : Prepared(pc[d], call[d])
      BY DEF PreparedInv
    <2> HIDE DEF Prepared
    <2>3. Prepared(pc'[c], call'[c])
      BY <1>1, <2>2, WorkingIsPlain, PlainKeepsPrepared, NamingKeepsPrepared, ResolvingKeepsPrepared,
         MaterializingKeepsPrepared, RealizingProves
    <2> QED BY <2>1, <2>2, <2>3 DEF PreparedInv
  <1>2. CASE EditFile \/ LoseUsers \/ Tick \/ UNCHANGED vars
    <2>1. UNCHANGED <<pc, call>>
      BY <1>2, Zenon DEF EditFile, LoseUsers, Tick, vars
    <2> HIDE DEF Prepared
    <2> QED BY <2>1 DEF PreparedInv
  <1> QED BY <1>1, <1>2 DEF Next

\* What prepare() hands to the slicer is proved by what realize_setup() read
\* itself, three profiles of the selected identities, whatever the store is and
\* whatever happens to it between the reads.
THEOREM RealizedIsProvenHolds == Spec => []RealizedIsProven
  <1>1. Init => PreparedInv
    <2> SUFFICES ASSUME Init, NEW c \in Calls PROVE Prepared(pc[c], call[c])
      BY DEF PreparedInv
    <2>1. call[c].inputs = None /\ pc[c] \in {"idle", "start"}
      BY DEF Init, NewCall
    <2> HIDE DEF Proven
    <2> QED BY <2>1 DEF Prepared, Preparing
  <1>2. IInv /\ PreparedInv /\ [Next]_vars => PreparedInv'
    BY PreparedStep
  <1>3. PreparedInv => RealizedIsProven
    <2> HIDE DEF Proven
    <2> QED BY DEF PreparedInv, Prepared, RealizedIsProven
  <1> QED BY <1>1, <1>2, <1>3, Invariant, PTL DEF Spec

-----------------------------------------------------------------------------
(* What the rules found is in every recommendation *)

\* No two of them are of one setting and one direction.
Distinct(candidates) == \A a, b \in candidates : Key(a) = Key(b) => a = b

\* All of them are in final, and nothing there is another one's double.
Keeps(candidates, final) ==
    /\ candidates \subseteq final
    /\ \A rec \in final, candidate \in candidates : Key(rec) = Key(candidate) => rec = candidate

LEMMA StandingIsApart ==
    ASSUME NEW candidates, NEW rec, Distinct(candidates),
           {"setting", "change"} \subseteq DOMAIN rec \/ rec \in candidates
    PROVE  \A candidate \in candidates :
              Key(Standing(candidates, rec)) = Key(candidate) \/ Key(rec) = Key(candidate) =>
                  Standing(candidates, rec) = candidate
  <1> DEFINE same == {candidate \in candidates : Key(candidate) = Key(rec)}
             chosen == CHOOSE candidate \in same : TRUE
             own == [rec EXCEPT !.source = "llm"]
  <1>1. CASE same # {}
    <2>1. chosen \in same
      BY <1>1
    <2>2. Standing(candidates, rec) = chosen
      BY <1>1, Zenon DEF Standing
    <2> HIDE DEF chosen
    <2> QED BY <2>1, <2>2 DEF Distinct
  <1>2. CASE same = {}
    <2>1. {"setting", "change"} \subseteq DOMAIN rec
      BY <1>2
    <2>2. Key(own) = Key(rec)
      BY <2>1 DEF Key
    <2>3. Standing(candidates, rec) = own
      BY <1>2, Zenon DEF Standing
    <2> HIDE DEF own
    <2> QED BY <1>2, <2>2, <2>3
  <1> QED BY <1>1, <1>2

LEMMA MergeKeeps ==
    ASSUME NEW candidates, NEW set, Distinct(candidates),
           \A i \in DOMAIN set.recs : {"setting", "change"} \subseteq DOMAIN set.recs[i] \/ set.recs[i] \in candidates
    PROVE  Keeps(candidates, Merge(candidates, set))
  <1> DEFINE answered == {Key(set.recs[i]) : i \in DOMAIN set.recs}
             standing == {Standing(candidates, set.recs[i]) : i \in DOMAIN set.recs}
             others == {candidate \in candidates : Key(candidate) \notin answered}
  <1>1. Merge(candidates, set) = standing \cup others
    BY DEF Merge
  <1>2. \A i \in DOMAIN set.recs : \A candidate \in candidates :
            Key(Standing(candidates, set.recs[i])) = Key(candidate) \/ Key(set.recs[i]) = Key(candidate) =>
                Standing(candidates, set.recs[i]) = candidate
    BY StandingIsApart
  <1>3. ASSUME NEW candidate \in candidates PROVE candidate \in standing \cup others
    <2>1. CASE Key(candidate) \in answered
      <3> PICK i \in DOMAIN set.recs : Key(candidate) = Key(set.recs[i])
        BY <2>1
      <3>1. Standing(candidates, set.recs[i]) = candidate
        BY <1>2
      <3> QED BY <3>1
    <2>2. CASE Key(candidate) \notin answered
      BY <2>2
    <2> QED BY <2>1, <2>2
  <1>4. ASSUME NEW rec \in standing \cup others, NEW candidate \in candidates, Key(rec) = Key(candidate)
        PROVE  rec = candidate
    <2>1. CASE rec \in standing
      <3> PICK i \in DOMAIN set.recs : rec = Standing(candidates, set.recs[i])
        BY <2>1
      <3> QED BY <1>2, <1>4
    <2>2. CASE rec \in others
      BY <1>4, <2>2 DEF Distinct
    <2> QED BY <2>1, <2>2
  <1> HIDE DEF standing, others
  <1> QED BY <1>1, <1>3, <1>4 DEF Keeps

LEMMA CandidatesAreDistinct ==
    ASSUME IInv, NEW c \in Calls
    PROVE  Distinct(Candidates(c))
  <1>1. \A i, j \in DOMAIN builder[c].recs : builder[c].recs[i].setting = builder[c].recs[j].setting => i = j
    BY Zenon DEF IInv, RulesInv, RulesByPrecedence, AddedInOrder
  <1> QED BY <1>1 DEF Distinct, Candidates, Key

\* The answer of the rules alone, and that of the LLM.
LEMMA AnsweringKeepsCandidates ==
    ASSUME IInv, NEW c \in Calls, Conclude(c) \/ AskLLM(c), answer[c].status = None
    PROVE  answer'[c].status = "ok" => Keeps(Candidates(c), call'[c].final) /\ builder'[c] = builder[c]
  <1> DEFINE candidates == Candidates(c)
             concluded == [call[c] EXCEPT !.final = candidates]
             told(set) == [call[c] EXCEPT !.mode = "llm", !.final = Merge(candidates, set)]
             sets == LLMSets \cup {Repetition(c)}
  <1>1. \/ Finish(c, concluded)
        \/ \E set \in sets : Finish(c, told(set))
        \/ \E result : Move(c, result, "llm", call[c])
        \/ \E code : Fail(c, code)
    <2>1. CASE Conclude(c)
      BY <2>1, Zenon DEF Conclude
    <2>2. CASE AskLLM(c)
      BY <2>2, Zenon DEF AskLLM, LLMFails
    <2> QED BY <2>1, <2>2
  <1>2. Distinct(candidates)
    BY CandidatesAreDistinct
  <1>3. /\ concluded.final = candidates
        /\ \A set : told(set).final = Merge(candidates, set)
    <2> HIDE DEF candidates
    <2> QED BY DEF IInv, Domains, WellFormed, Shape, Fields
  <1>4. Keeps(candidates, candidates)
    BY <1>2 DEF Keeps, Distinct
  <1>5. ASSUME NEW set \in sets PROVE Keeps(candidates, Merge(candidates, set))
    <2>1. \A i \in DOMAIN set.recs : {"setting", "change"} \subseteq DOMAIN set.recs[i] \/ set.recs[i] \in candidates
      <3>1. CASE set \in LLMSets
        BY <3>1, AnswersAssumption
      <3>2. CASE set = Repetition(c)
        BY <3>2 DEF Repetition, Candidates
      <3> QED BY <3>1, <3>2
    <2> HIDE DEF candidates, sets
    <2> QED BY <1>2, <2>1, MergeKeeps
  <1> HIDE DEF concluded, told, candidates, sets
  <1>6. CASE (\E result : Move(c, result, "llm", call[c])) \/ (\E code : Fail(c, code))
    <2>1. answer'[c].status # "ok"
      BY <1>6, ToolsAssumption DEF Move, Fail, Refuse, Reply, Goto, IInv, Domains
    <2> QED BY <2>1
  <1>7. ASSUME NEW record, Finish(c, record) PROVE call'[c] = record /\ builder' = builder
    BY <1>7 DEF Finish, IInv, Domains, WellFormed
  <1> QED BY <1>1, <1>3, <1>4, <1>5, <1>6, <1>7 DEF candidates

\* A recommendation is answered with success by the rules or by the LLM.
LEMMA RecommendationIsAnswered ==
    ASSUME IInv, NEW c \in Calls, Working(c), Request(c).tool = "recommend", answer'[c].status = "ok"
    PROVE  (Conclude(c) \/ AskLLM(c)) /\ answer[c].status = None
  <1>1. pc[c] \notin {"idle", "done"} /\ answer[c].status = None /\ None # "ok"
    BY WorkingIsPlain, ToolsAssumption DEF IInv, TypeOK
  <1>2. pc[c] \notin SelectingSteps \ {"start"}
    BY DEF IInv, ToolInv, Setups
  <1>3. PlainStep(c)
    <2>1. CASE \/ SelectSetup(c) \/ RequireAuthority(c)
               \/ ResolveIdentity(c) \/ MaterializeIdentity(c) \/ RealizeSetup(c)
      <3>1. \/ pc[c] = "rank" \/ pc[c] = "authority" \/ pc[c] = "resolve" \/ pc[c] = "materialize" \/ pc[c] = "realize"
        BY <2>1, Zenon DEF SelectSetup, RequireAuthority, ResolveIdentity, MaterializeIdentity, RealizeSetup
      <3> QED BY <1>2, <3>1 DEF SelectingSteps
    <2> QED BY <2>1, WorkingIsPlain
  <1>4. pc[c] \in Concluding /\ answer' # answer
    <2>1. answer' # answer
      BY <1>1
    <2>2. PICK status \in {"ok", "error", "raised"} :
            /\ \E code : answer' = [answer EXCEPT ![c] = [status |-> status, code |-> code]]
            /\ status = "ok" => pc[c] \in Concluding \/ Request(c).tool = "slice"
      BY <1>3, <2>1, Zenon DEF PlainStep
    <2>3. status = "ok"
      BY <2>2 DEF IInv, Domains
    <2> QED BY <2>1, <2>2, <2>3
  <1>5. pc[c] = "add" \/ pc[c] = "llm"
    BY <1>2, <1>4 DEF Concluding, SelectingSteps
  <1>6. AddProposal(c) \/ Conclude(c) \/ AskLLM(c)
    <2>1. ~SelectingSetup(c)
      <3>1. ASSUME SelectingSetup(c)
            PROVE  \/ pc[c] = "start" \/ pc[c] = "printers" \/ pc[c] = "materialize printers" \/ pc[c] = "find printer"
                   \/ pc[c] = "match printers" \/ pc[c] = "process" \/ pc[c] = "materialize process"
                   \/ pc[c] = "filament" \/ pc[c] = "matrix" \/ pc[c] = "judge" \/ pc[c] = "rank"
                   \/ pc[c] = "narrate" \/ pc[c] = "authority" \/ pc[c] = "resolve" \/ pc[c] = "materialize"
                   \/ pc[c] = "realize"
        BY <3>1, Zenon DEF SelectingSetup, Start, SelectPrinters, MaterializePrinters, FindPrinter,
           MatchListedPrinters, ResolveProcess, MaterializeProcess, ResolveFilament, ListFilaments, JudgeFilament,
           RankFilaments, Narrate, SelectSetup, RequireAuthority, ResolveIdentity, MaterializeIdentity, RealizeSetup
      <3> QED BY <1>5, <3>1
    <2>2. ~SlicingJob(c)
      <3>1. ASSUME SlicingJob(c)
            PROVE  \/ pc[c] = "list" \/ pc[c] = "job" \/ pc[c] = "job profiles" \/ pc[c] = "compatible"
                   \/ pc[c] = "directory" \/ pc[c] = "write" \/ pc[c] = "run" \/ pc[c] = "collect"
        BY <3>1, Zenon DEF SlicingJob, ListJobProfile, StartJob, MaterializeJobProfile, CheckCompatible,
           MakeJobDirectory, WriteJobFiles, RunSlicer, CollectArtifacts
      <3> QED BY <1>5, <3>1
    <2>3. ~(Analyze(c) \/ ReadProfile(c) \/ Evaluate(c))
      <3>1. ASSUME Analyze(c) \/ ReadProfile(c) \/ Evaluate(c)
            PROVE  pc[c] = "analyze" \/ pc[c] = "read" \/ pc[c] = "evaluate"
        BY <3>1, Zenon DEF Analyze, ReadProfile, Evaluate
      <3> QED BY <1>5, <3>1
    <2> QED BY <2>1, <2>2, <2>3, Zenon DEF Working, Recommending
  <1>7. ~AddProposal(c)
    <2>1. AddProposal(c) => answer' = answer
      BY Zenon DEF AddProposal
    <2> QED BY <1>4, <2>1
  <1> QED BY <1>1, <1>6, <1>7

Kept(record, rules, reply) ==
    record.request # None /\ record.request.tool = "recommend" /\ reply.status = "ok" =>
        Keeps({rules.recs[i] : i \in DOMAIN rules.recs}, record.final)

LEMMA KeptIsKept == CandidatesKept <=> \A c \in Calls : Kept(call[c], builder[c], answer[c])
  BY DEF CandidatesKept, Kept, Keeps, Candidates, Request

LEMMA CandidatesStep ==
    ASSUME IInv, CandidatesKept, [Next]_vars
    PROVE  CandidatesKept'
  <1>0. \A c \in Calls : Kept(call[c], builder[c], answer[c])
    BY KeptIsKept
  <1>1. ASSUME NEW c \in Calls, Working(c) PROVE \A d \in Calls : Kept(call'[d], builder'[d], answer'[d])
    <2>1. \A d \in Calls \ {c} : Kept(call'[d], builder'[d], answer'[d])
      <3> HIDE DEF Kept
      <3> QED BY <1>0, <1>1, WorkingElsewhere
    <2>2. Kept(call'[c], builder'[c], answer'[c])
      <3> SUFFICES ASSUME Request(c).tool = "recommend", answer'[c].status = "ok"
                   PROVE  Keeps({builder'[c].recs[i] : i \in DOMAIN builder'[c].recs}, call'[c].final)
        BY <1>1, WorkingElsewhere, Zenon DEF Kept, Request
      <3> HIDE DEF Keeps
      <3> QED BY <1>1, RecommendationIsAnswered, AnsweringKeepsCandidates DEF Candidates
    <2> HIDE DEF Kept
    <2> QED BY <2>1, <2>2
  <1>2. CASE EditFile \/ LoseUsers \/ Tick \/ UNCHANGED vars
    <2>1. UNCHANGED <<answer, call, builder>>
      BY <1>2, Zenon DEF EditFile, LoseUsers, Tick, vars
    <2> QED BY <2>1 DEF CandidatesKept, Candidates, Request
  <1>3. (\A c \in Calls : Kept(call'[c], builder'[c], answer'[c])) => CandidatesKept'
    BY DEF CandidatesKept, Kept, Keeps, Candidates, Request
  <1> QED BY <1>1, <1>2, <1>3 DEF Next

\* A recommendation has what the rules found, unchanged, whatever the LLM
\* answers, for any rules and any number of calls.
THEOREM CandidatesKeptHolds == Spec => []CandidatesKept
  <1>1. Init => CandidatesKept
    BY ToolsAssumption DEF Init, CandidatesKept, NoAnswer
  <1>2. IInv /\ CandidatesKept /\ [Next]_vars => CandidatesKept'
    BY CandidatesStep
  <1> QED BY <1>1, <1>2, Invariant, PTL DEF Spec

\* An LLM that repeats what the rules found is accepted, and whatever it says
\* displaces none of it.
THEOREM RulesSurviveHolds == Spec => []RulesSurviveLLM
  <1>1. RepetitionIsValid /\ CandidatesKept => RulesSurviveLLM
    BY DEF RulesSurviveLLM
  <1> QED BY <1>1, RepetitionHolds, CandidatesKeptHolds, PTL

-----------------------------------------------------------------------------
(* Inheritance that never ends is never sliced *)

\* Where the inheritance is too deep, every chain fails.
TooDeep == [n \in NameSet |-> InvalidProfile]

\* The chains at each distance from the depth that is too deep.
Distances(s, kind, root, k, g) ==
    /\ DOMAIN g = 0..k
    /\ g[0] = TooDeep
    /\ \A j \in 1..k : g[j] = Chains(s, kind, root, g[j - 1])

LEMMA DistancesExist ==
    ASSUME NEW s, NEW kind, NEW root
    PROVE  \A k \in Nat : \E g : Distances(s, kind, root, k, g)
  <1> DEFINE missing == {k \in Nat : ~\E g : Distances(s, kind, root, k, g)}
  <1>1. SUFFICES ASSUME missing # {} PROVE FALSE
    OBVIOUS
  <1>2. PICK k \in missing : \A j \in missing : k <= j
    <2>1. missing \in SUBSET Nat
      OBVIOUS
    <2> HIDE DEF missing
    <2> QED BY <1>1, <2>1, HasLeast
  <1>3. k \in Nat /\ ~\E g : Distances(s, kind, root, k, g)
    OBVIOUS
  <1>4. CASE k = 0
    <2> DEFINE g == [j \in 0..0 |-> TooDeep]
    <2>1. DOMAIN g = 0..k /\ g[0] = TooDeep /\ 1..k = {}
      BY <1>4
    <2> HIDE DEF g, TooDeep
    <2> QED BY <1>3, <2>1 DEF Distances
  <1>5. CASE k # 0
    <2>1. k - 1 \in Nat /\ ~(k <= k - 1)
      BY <1>3, <1>5
    <2>2. PICK g : Distances(s, kind, root, k - 1, g)
      <3>1. k - 1 \notin missing
        <4> HIDE DEF missing
        <4> QED BY <1>2, <2>1
      <3> QED BY <2>1, <3>1
    <2> DEFINE h == [j \in 0..k |-> IF j = k THEN Chains(s, kind, root, g[k - 1]) ELSE g[j]]
    <2>3. /\ DOMAIN h = 0..k /\ h[k] = Chains(s, kind, root, g[k - 1])
          /\ \A j \in 0..(k - 1) : h[j] = g[j]
      BY <1>3, <2>1
    <2> HIDE DEF h, TooDeep
    <2>4. h[0] = TooDeep
      BY <2>1, <2>2, <2>3 DEF Distances
    <2>5. ASSUME NEW j \in 1..k PROVE h[j] = Chains(s, kind, root, h[j - 1])
      <3>1. h[j - 1] = g[j - 1]
        BY <1>3, <2>3
      <3>2. CASE j = k
        BY <2>3, <3>1, <3>2
      <3>3. CASE j # k
        <4>1. j \in 1..(k - 1) /\ j \in 0..(k - 1)
          BY <1>3, <3>3
        <4>2. g[j] = Chains(s, kind, root, g[j - 1])
          BY <2>2, <4>1 DEF Distances
        <4> QED BY <2>3, <3>1, <4>1, <4>2
      <3> QED BY <3>2, <3>3
    <2>6. Distances(s, kind, root, k, h)
      BY <2>3, <2>4, <2>5 DEF Distances
    <2> QED BY <1>3, <2>6
  <1> QED BY <1>4, <1>5

\* The recursion of ResolveChain() is well-founded: it has the value its
\* equation says.
LEMMA ChainsAtDepths ==
    ASSUME NEW s, NEW kind, NEW root, NEW name
    PROVE  \E chain : /\ ResolveChain(s, kind, root, name) = chain[0][name]
                      /\ chain[MaxDepth + 1] = TooDeep
                      /\ \A depth \in 0..MaxDepth : chain[depth] = Chains(s, kind, root, chain[depth + 1])
  <1> DEFINE equation(f) == f = [depth \in 0..(MaxDepth + 1) |->
                                  IF depth > MaxDepth THEN TooDeep ELSE Chains(s, kind, root, f[depth + 1])]
             chain == CHOOSE f : equation(f)
  <1>0. MaxDepth \in Nat
    BY DepthAssumption
  <1>1. ResolveChain(s, kind, root, name) = chain[0][name]
    BY Zenon DEF ResolveChain, TooDeep
  <1> HIDE DEF TooDeep
  <1>2. \E f : equation(f)
    <2> PICK g : Distances(s, kind, root, MaxDepth + 1, g)
      BY <1>0, DistancesExist
    <2> DEFINE f == [depth \in 0..(MaxDepth + 1) |-> g[MaxDepth + 1 - depth]]
    <2>1. ASSUME NEW depth \in 0..(MaxDepth + 1)
          PROVE  f[depth] = IF depth > MaxDepth THEN TooDeep ELSE Chains(s, kind, root, f[depth + 1])
      <3>1. CASE depth > MaxDepth
        <4>1. MaxDepth + 1 - depth = 0
          BY <1>0, <3>1
        <4> QED BY <3>1, <4>1 DEF Distances
      <3>2. CASE ~(depth > MaxDepth)
        <4> DEFINE j == MaxDepth + 1 - depth
        <4>1. j \in 1..(MaxDepth + 1) /\ depth + 1 \in 0..(MaxDepth + 1) /\ MaxDepth + 1 - (depth + 1) = j - 1
          BY <1>0, <3>2
        <4>2. g[j] = Chains(s, kind, root, g[j - 1])
          <5> HIDE DEF j
          <5> QED BY <4>1 DEF Distances
        <4>3. f[depth] = g[j] /\ f[depth + 1] = g[j - 1]
          BY <4>1
        <4> HIDE DEF j, f
        <4> QED BY <3>2, <4>2, <4>3
      <3> QED BY <3>1, <3>2
    <2>2. f = [depth \in 0..(MaxDepth + 1) |-> f[depth]]
      OBVIOUS
    <2> HIDE DEF f
    <2>3. equation(f)
      BY <2>1, <2>2
    <2> HIDE DEF equation
    <2> QED BY <2>3
  <1>3. equation(chain)
    <2> HIDE DEF equation
    <2> QED BY <1>2
  <1> HIDE DEF chain
  <1>4. chain[MaxDepth + 1] = TooDeep
    BY <1>0, <1>3
  <1>5. ASSUME NEW depth \in 0..MaxDepth PROVE chain[depth] = Chains(s, kind, root, chain[depth + 1])
    <2>1. depth \in 0..(MaxDepth + 1) /\ ~(depth > MaxDepth)
      BY <1>0
    <2> QED BY <1>3, <2>1
  <1> QED BY <1>1, <1>4, <1>5

\* One generation of a path that never ends: if all its parents fail, so does
\* each of its names.
LEMMA EndlessGeneration ==
    ASSUME NEW kind, NEW path \in SUBSET NameSet, NEW up,
           \A n \in path : FindSource(store, kind, n).val # None /\ FindSource(store, kind, n).val.inherits \in path,
           \A n \in path : up[n].err # None
    PROVE  \A n \in path : Chains(store, kind, None, up)[n].err # None
  <1> SUFFICES ASSUME NEW n \in path PROVE Chains(store, kind, None, up)[n].err # None
    OBVIOUS
  <1> DEFINE found == FindSource(store, kind, n)
             doc == found.val
             rest == Then(up[doc.inherits], LAMBDA above : Result(Append(above, doc)))
             own == IF doc = None THEN Result(<<>>) ELSE IF doc.inherits = None THEN Result(<<doc>>) ELSE rest
  <1>1. FindIn(store, kind, None, n) = found
    BY DEF FindIn
  <1>2. Chains(store, kind, None, up)[n] = IF found.err # None THEN found ELSE own
    <2> HIDE DEF found
    <2> QED BY <1>1 DEF Chains, Then
  <1>3. doc # None /\ doc.inherits \in path /\ doc.inherits # None
    <2> HIDE DEF found
    <2> QED BY NamesAssumption DEF found
  <1>4. own = rest
    <2> HIDE DEF rest, doc
    <2> QED BY <1>3
  <1>5. rest.err # None
    <2>1. up[doc.inherits].err # None
      <3> HIDE DEF doc
      <3> QED BY <1>3
    <2>2. rest = up[doc.inherits]
      BY <2>1, Zenon DEF Then
    <2> QED BY <2>1, <2>2
  <1> HIDE DEF own, rest, found
  <1> QED BY <1>2, <1>4, <1>5

\* So do all the generations above it, down from the depth that is too deep.
LEMMA EndlessFails ==
    ASSUME NEW kind, NEW name, Endless(kind, name)
    PROVE  ResolveChain(store, kind, None, name).err # None
  <1>1. PICK path \in SUBSET NameSet :
            /\ name \in path
            /\ \A n \in path : /\ FindSource(store, kind, n).val # None
                               /\ FindSource(store, kind, n).val.inherits \in path
    BY DEF Endless
  <1>2. PICK chain : /\ ResolveChain(store, kind, None, name) = chain[0][name]
                     /\ chain[MaxDepth + 1] = TooDeep
                     /\ \A depth \in 0..MaxDepth : chain[depth] = Chains(store, kind, None, chain[depth + 1])
    BY ChainsAtDepths
  <1>3. MaxDepth \in Nat
    BY DepthAssumption
  <1> DEFINE failing(k) == \A n \in path : chain[MaxDepth + 1 - k][n].err # None
             bad == {k \in 0..(MaxDepth + 1) : ~failing(k)}
  <1>4. bad = {}
    <2> SUFFICES ASSUME bad # {} PROVE FALSE
      OBVIOUS
    <2>1. PICK k \in bad : \A j \in bad : k <= j
      <3>1. bad \in SUBSET Nat
        BY <1>3
      <3> HIDE DEF bad
      <3> QED BY <3>1, HasLeast
    <2>2. k \in 0..(MaxDepth + 1) /\ ~failing(k)
      OBVIOUS
    <2>3. CASE k = 0
      <3>1. chain[MaxDepth + 1 - k] = TooDeep
        BY <1>2, <1>3, <2>3
      <3>2. InvalidProfile.err # None
        BY ToolsAssumption DEF InvalidProfile, Failed
      <3>3. \A n \in path : TooDeep[n] = InvalidProfile
        BY DEF TooDeep
      <3> QED BY <2>2, <3>1, <3>2, <3>3
    <2>4. CASE k # 0
      <3> DEFINE depth == MaxDepth + 1 - k
      <3>1. depth \in 0..MaxDepth /\ k - 1 \in 0..(MaxDepth + 1) /\ depth + 1 = MaxDepth + 1 - (k - 1) /\ ~(k <= k - 1)
        BY <1>3, <2>2, <2>4
      <3>2. failing(k - 1)
        <4>1. k - 1 \notin bad
          <5> HIDE DEF bad
          <5> QED BY <2>1, <3>1
        <4> HIDE DEF failing
        <4> QED BY <3>1, <4>1
      <3>3. \A n \in path : chain[depth + 1][n].err # None
        <4> HIDE DEF depth
        <4> QED BY <3>1, <3>2
      <3>4. \A n \in path : Chains(store, kind, None, chain[depth + 1])[n].err # None
        <4> HIDE DEF depth
        <4> QED BY <1>1, <3>3, EndlessGeneration
      <3>5. chain[depth] = Chains(store, kind, None, chain[depth + 1])
        <4> HIDE DEF depth
        <4> QED BY <1>2, <3>1
      <3> QED BY <2>2, <3>4, <3>5
    <2> QED BY <2>3, <2>4
  <1>5. failing(MaxDepth + 1)
    <2>1. MaxDepth + 1 \in 0..(MaxDepth + 1)
      BY <1>3
    <2> HIDE DEF failing
    <2> QED BY <1>4, <2>1
  <1>6. MaxDepth + 1 - (MaxDepth + 1) = 0
    BY <1>3
  <1> QED BY <1>1, <1>2, <1>5, <1>6

\* The step that makes the profiles of the job does not go on with such a one.
LEMMA SlicedProfilesEnd ==
    ASSUME IInv, NEW c \in Calls, MaterializeJobProfile(c), call'[c].sliced # call[c].sliced
    PROVE  LET kind == JobOrder[call[c].at]
               profile == call[c].profiles[kind]
           IN profile.materialized \/ ~Endless(kind, profile.name)
  <1> DEFINE kind == JobOrder[call[c].at]
             profile == call[c].profiles[kind]
             made == Materialize(store, kind, None, profile)
             last == call[c].at = 3
             record == [call[c] EXCEPT !.at = IF last THEN 1 ELSE @ + 1, !.sliced[kind] = made.val]
             step == IF last THEN "compatible" ELSE "job profiles"
  <1>1. Move(c, made, step, record)
    BY Zenon DEF MaterializeJobProfile
  <1>2. made.err = None
    <2> HIDE DEF made, step, record
    <2> QED BY <1>1, MoveGives
  <1>3. CASE ~profile.materialized
    <2>1. ResolveChain(store, kind, None, profile.name).err = None
      <3> HIDE DEF kind, profile
      <3> QED BY <1>2, <1>3, Zenon DEF Materialize, Then
    <2> HIDE DEF kind, profile
    <2>2. ~Endless(kind, profile.name)
      BY <2>1, EndlessFails
    <2> QED BY <2>2 DEF kind, profile
  <1> HIDE DEF kind
  <1> QED BY <1>3 DEF kind

\* At this point of a job nothing else can happen.
LEMMA JobProfilesAreMade ==
    ASSUME IInv, NEW c \in Calls, Working(c), pc[c] = "job profiles"
    PROVE  MaterializeJobProfile(c)
  <1>1. ~SelectingSetup(c)
    <2>1. ASSUME SelectingSetup(c)
          PROVE  \/ pc[c] = "start" \/ pc[c] = "printers" \/ pc[c] = "materialize printers" \/ pc[c] = "find printer"
                 \/ pc[c] = "match printers" \/ pc[c] = "process" \/ pc[c] = "materialize process"
                 \/ pc[c] = "filament" \/ pc[c] = "matrix" \/ pc[c] = "judge" \/ pc[c] = "rank"
                 \/ pc[c] = "narrate" \/ pc[c] = "authority" \/ pc[c] = "resolve" \/ pc[c] = "materialize"
                 \/ pc[c] = "realize"
      BY <2>1, Zenon DEF SelectingSetup, Start, SelectPrinters, MaterializePrinters, FindPrinter,
         MatchListedPrinters, ResolveProcess, MaterializeProcess, ResolveFilament, ListFilaments, JudgeFilament,
         RankFilaments, Narrate, SelectSetup, RequireAuthority, ResolveIdentity, MaterializeIdentity, RealizeSetup
    <2> QED BY <2>1
  <1>2. ~Recommending(c)
    <2>1. ASSUME Recommending(c)
          PROVE  pc[c] = "analyze" \/ pc[c] = "read" \/ pc[c] = "evaluate" \/ pc[c] = "add" \/ pc[c] = "llm"
      BY <2>1, Zenon DEF Recommending, Analyze, ReadProfile, Evaluate, AddProposal, Conclude, AskLLM
    <2> QED BY <2>1
  <1>3. SlicingJob(c)
    BY <1>1, <1>2, Zenon DEF Working
  <1>4. \/ MaterializeJobProfile(c)
        \/ pc[c] = "list" \/ pc[c] = "job" \/ pc[c] = "compatible" \/ pc[c] = "directory"
        \/ pc[c] = "write" \/ pc[c] = "run" \/ pc[c] = "collect"
    BY <1>3, Zenon DEF SlicingJob, ListJobProfile, StartJob, CheckCompatible, MakeJobDirectory, WriteJobFiles,
       RunSlicer, CollectArtifacts
  <1> QED BY <1>4

\* A job is never made of profiles whose inheritance never ends: the bound on
\* its depth stops every one of them, whatever the names and the bound are.
THEOREM NoEndlessInheritanceHolds == Spec => NoEndlessInheritance
  <1> DEFINE Ends(c) == pc[c] = "job profiles" /\ call'[c].sliced # call[c].sliced =>
                LET profile == call[c].profiles[JobOrder[call[c].at]]
                IN profile.materialized \/ ~Endless(JobOrder[call[c].at], profile.name)
  <1>1. IInv /\ [Next]_vars => [\A c \in Calls : Ends(c)]_vars
    <2> SUFFICES ASSUME IInv, Next, NEW c \in Calls, pc[c] = "job profiles", call'[c].sliced # call[c].sliced
                 PROVE  LET profile == call[c].profiles[JobOrder[call[c].at]]
                        IN profile.materialized \/ ~Endless(JobOrder[call[c].at], profile.name)
      OBVIOUS
    <2>1. ASSUME NEW d \in Calls, Working(d) PROVE d = c
      BY <2>1, WorkingElsewhere
    <2>2. ~(EditFile \/ LoseUsers \/ Tick)
      <3>1. EditFile \/ LoseUsers \/ Tick => call' = call
        BY Zenon DEF EditFile, LoseUsers, Tick
      <3> QED BY <3>1
    <2>3. Working(c)
      BY <2>1, <2>2 DEF Next
    <2>4. MaterializeJobProfile(c)
      BY <2>3, JobProfilesAreMade
    <2> QED BY <2>4, SlicedProfilesEnd
  <1> QED BY <1>1, Invariant, PTL DEF Spec, NoEndlessInheritance

=============================================================================
