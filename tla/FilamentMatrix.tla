--------------------------- MODULE FilamentMatrix ---------------------------
(***************************************************************************)
(* FilamentMatrixBuilder: every filament profile of a listing is resolved  *)
(* by its name and becomes a candidate or a rejection; candidates are      *)
(* ranked for the goal.  Scores are exact, in fortieths of a point.        *)
(***************************************************************************)
EXTENDS ProfileStore

CONSTANTS
    Brand,      \* [name -> the vendor its first word suggests, or None]
    NameMaterial  \* [name -> the material it names, or None]

Goals == {"surface_quality", "strength", "print_time", "filament_usage", "balanced"}
PlateFields ==
    [p \in {"cool_plate", "textured_pei_plate", "high_temp_plate"} |->
        CASE p = "cool_plate" -> "cool_plate_temp"
          [] p = "textured_pei_plate" -> "textured_plate_temp"
          [] OTHER -> "hot_plate_temp"]

\* Only a positive number proves that the filament may use the plate.
PlateSupported(keys, plate) ==
    /\ plate \in DOMAIN PlateFields
    /\ Value(keys, PlateFields[plate]) # None
    /\ keys[PlateFields[plate]] > 0

OutOfRange(keys, field, low, high) ==
    /\ \A key \in {field, low, high} : Value(keys, key) # None
    /\ ~(keys[low] <= keys[field] /\ keys[field] <= keys[high])

Material(name, keys) ==
    IF Value(keys, "filament_type") # None THEN keys["filament_type"] ELSE NameMaterial[name]

\* The warnings about a profile: its vendor and what it contradicts.
DataWarnings(name, keys, vendor) ==
    {w \in {"vendor differs", "no vendor", "temperature", "initial temperature", "material differs"} :
        CASE w = "vendor differs" -> Brand[name] # None /\ vendor \notin {None, Brand[name]}
          [] w = "no vendor" -> vendor = None
          [] w = "temperature" -> OutOfRange(keys, "nozzle_temperature", "nozzle_temperature_range_low",
                                             "nozzle_temperature_range_high")
          [] w = "initial temperature" ->
                OutOfRange(keys, "nozzle_temperature_initial_layer", "nozzle_temperature_initial_layer_range_low",
                           "nozzle_temperature_initial_layer_range_high")
          [] OTHER -> /\ Value(keys, "filament_type") # None /\ NameMaterial[name] # None
                      /\ keys["filament_type"] # NameMaterial[name]}

\* The vendor counts as verified if the profile's own document names it.  The
\* resolved document has no setting_id: it is one of META_KEYS.
ToCandidate(name, keys, own) ==
    LET vendor == IF Value(keys, "filament_vendor") # None THEN keys["filament_vendor"] ELSE Value(own, "filament_vendor")
    IN [name |-> name, id |-> None, vendor |-> vendor, material |-> Material(name, keys),
        verified |-> Value(own, "filament_vendor") # None,
        warnings |-> Cardinality(DataWarnings(name, keys, vendor)),
        speed |-> Value(keys, "filament_max_volumetric_speed"),
        density |-> Value(keys, "filament_density"), cost |-> Value(keys, "filament_cost")]

\* Why the resolved document is no candidate, in the order of the tests: the
\* printer's name is its model's.
Judge(raw, keys, context, wanted) ==
    LET candidate == ToCandidate(raw.name, keys, raw.keys)
        compatible == CompatiblePrinters(keys)
    IN FirstReason(
        << <<context.printer # None /\ compatible # {} /\ ~(context.printer.name \in compatible), "incompatible_printer">>,
           <<wanted.vendor \notin {None, candidate.vendor}, "vendor_filter">>,
           <<wanted.material \notin {None, candidate.material}, "material_filter">>,
           <<context.plate # None /\ ~PlateSupported(keys, context.plate), "incompatible_build_plate">> >>)

\* A name no file has cannot be resolved; with a plate that is its reason.
BuildOne(raw, found, context, wanted) ==
    LET reason == CASE found = None /\ context.plate # None -> "incompatible_build_plate"
                    [] found = None /\ context.plate = None -> "materialization_failed"
                    [] OTHER -> Judge(raw, found.keys, context, wanted)
    IN IF reason = None
       THEN [candidate |-> ToCandidate(raw.name, found.keys, raw.keys), rejected |-> None]
       ELSE [candidate |-> None, rejected |-> [name |-> raw.name, reason |-> reason]]

-----------------------------------------------------------------------------
(* Ranking *)

\* A metric's place between the lowest and the highest value, in thousandths;
\* a value that is missing counts nothing, equal ones count half.
Normalized(candidates, metric, higherIsBetter, i) ==
    LET present == {candidates[j][metric] : j \in DOMAIN candidates} \ {None}
        low == CHOOSE v \in present : \A w \in present : v <= w
        high == CHOOSE v \in present : \A w \in present : v >= w
        value == candidates[i][metric]
        place == ((value - low) * 1000) \div (high - low)
    IN CASE value = None -> 0
         [] value # None /\ high = low -> 500
         [] OTHER -> IF higherIsBetter THEN place ELSE 1000 - place

\* 100 points for the goal, 40 for a verified vendor, 30 less 15 a warning.
Score(candidates, goal, i) ==
    LET speed == Normalized(candidates, "speed", TRUE, i)
        usage == Normalized(candidates, "density", FALSE, i)
                 + Normalized(candidates, "cost", FALSE, i)
        quality == (IF candidates[i].verified THEN 40 ELSE 0)
                   + (IF candidates[i].warnings >= 2 THEN 0 ELSE 30 - 15 * candidates[i].warnings)
    IN 40 * quality + CASE goal = "print_time" -> 4 * speed
                        [] goal = "filament_usage" -> 2 * usage
                        [] goal = "balanced" -> 2 * speed + usage
                        [] OTHER -> 0

\* The sort key: score descending, then the name; the sort is stable.
RanksBefore(candidates, goal, i, j) ==
    \/ Score(candidates, goal, i) > Score(candidates, goal, j)
    \/ /\ Score(candidates, goal, i) = Score(candidates, goal, j)
       /\ \E k, l \in DOMAIN Names :
            Names[k] = candidates[i].name /\ Names[l] = candidates[j].name /\ (k < l \/ (k = l /\ i < j))

Ranked(candidates, goal) ==
    LET Place(i) == Cardinality({j \in DOMAIN candidates : RanksBefore(candidates, goal, j, i)}) + 1
    IN [n \in DOMAIN candidates |-> candidates[CHOOSE i \in DOMAIN candidates : Place(i) = n]]

=============================================================================
