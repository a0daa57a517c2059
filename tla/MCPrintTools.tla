----------------------------- MODULE MCPrintTools -----------------------------
(***************************************************************************)
(* Instance for TLC: one store of a printer with two variants, a process   *)
(* that inherits and two filaments, and what differs from it; one call of  *)
(* every tool, or two slices; one change of a file at any moment.          *)
(***************************************************************************)
EXTENDS PrintTools

CONSTANTS c1, c2

MCCalls == {c1, c2}
MCNames == <<"A1 0.4", "A1 0.6", "Base", "PETG", "PLA", "Std">>
MCVariants == {<<"A1 0.4", "A1">>, <<"A1 0.6", "A1">>}
MCBrand == [n \in {MCNames[i] : i \in DOMAIN MCNames} |-> "Bambu"]
MCNameMaterial ==
    [n \in {MCNames[i] : i \in DOMAIN MCNames} |-> IF n \in {"PLA", "PETG"} THEN n ELSE None]

Doc(name, id, inherits, keys) == [form |-> "ok", name |-> name, id |-> id, inherits |-> inherits, keys |-> keys]
Unreadable(form) == [form |-> form, name |-> None, id |-> None, inherits |-> None, keys |-> <<>>]

Printer(name, nozzles) ==
    Doc(name, name, None, [printer_model |-> "A1", nozzle_diameter |-> nozzles, printable_height |-> 25,
                           default_print_profile |-> "Std", default_filament_profile |-> "PLA"])
Base == Doc("Base", None, None, [layer_height |-> 20, wall_loops |-> 3, sparse_infill_density |-> 20,
                                 sparse_infill_pattern |-> "grid", enable_support |-> FALSE,
                                 outer_wall_speed |-> 200])
Std == Doc("Std", "GP", "Base", [compatible_printers |-> {"A1 0.4"}])
Filament(name, material, hot) ==
    Doc(name, None, None, [filament_type |-> material, filament_vendor |-> "Bambu", hot_plate_temp |-> hot,
                           textured_plate_temp |-> 60, filament_max_volumetric_speed |-> hot,
                           filament_density |-> 12, filament_cost |-> 20])
PETG == Doc("PETG", "GF", "PLA", [filament_type |-> "PETG", hot_plate_temp |-> 0,
                                  filament_max_volumetric_speed |-> 70])

Good ==
    [f \in {<<"printer", "system", "A1 0.4">>, <<"printer", "system", "A1 0.6">>, <<"process", "base", "Base">>,
            <<"process", "user", "Std">>, <<"filament", "system", "PLA">>, <<"filament", "system", "PETG">>} |->
        CASE f[3] = "A1 0.4" -> Printer(f[3], {4})
          [] f[3] = "A1 0.6" -> Printer(f[3], {6})
          [] f[3] = "Base" -> Base
          [] f[3] = "Std" -> Std
          [] f[3] = "PLA" -> Filament("PLA", "PLA", 55)
          [] OTHER -> PETG]

With(files, file, doc) == [f \in DOMAIN files \cup {file} |-> IF f = file THEN doc ELSE files[f]]

StoreOf(files) == [files |-> files, usersReadable |-> TRUE]

MCStores ==
    {StoreOf(files) : files \in {
        Good,
        \* two filaments of one identity
        With(Good, <<"filament", "user", "PLA">>, Filament("PLA", "PLA", 60)),
        \* a process that is its own ancestor
        With(Good, <<"process", "base", "Base">>, [Base EXCEPT !.inherits = "Std"]),
        \* a printer of two nozzles
        With(Good, <<"printer", "user", "A1 0.6">>, Printer("A1 0.6", {4, 6}))}}

MCEdits ==
    {<< <<"filament", "system", "PLA">>, Filament("PLA", "PETG", 55)>>,
     << <<"filament", "system", "PLA">>, None>>,
     << <<"process", "user", "Std">>, Unreadable("locked")>>,
     << <<"process", "system", "Std">>, [Std EXCEPT !.keys = [layer_height |-> 12]]>>,
     << <<"process", "base", "Base">>, [Base EXCEPT !.keys = [layer_height |-> 12]]>>,
     << <<"printer", "system", "A1 0.4">>, Printer("A1 0.4", {6})>>}

Model(overhang, thin) ==
    [watertight |-> TRUE, components |-> 1, overhang |-> overhang, faces |-> overhang,
     thinWall |-> thin, thinSupported |-> thin # None]

Asked(tool) ==
    [tool |-> tool, printer |-> None, nozzle |-> None, plate |-> None, process |-> None, filament |-> None,
     defaults |-> TRUE, goal |-> "print_time", vendor |-> None, material |-> None, llm |-> "off",
     model |-> Model(None, None), maxTime |-> None, maxFilament |-> None, slice |-> FALSE]

Sliced == [Asked("slice") EXCEPT !.printer = "A1 0.4", !.process = "Std", !.filament = "PLA"]
Recommended ==
    [Asked("recommend") EXCEPT !.printer = "A1 0.4", !.process = "Std", !.filament = "PLA", !.llm = "ollama",
                               !.model = Model(90, 2), !.maxTime = 60]

Alone ==
    {Asked("prepare"),
     [Asked("prepare") EXCEPT !.plate = "high_temp_plate"],
     [Asked("prepare") EXCEPT !.printer = "A1", !.nozzle = 4, !.plate = "textured_pei_plate"],
     [Asked("prepare") EXCEPT !.printer = "A1", !.plate = "high_temp_plate"],
     [Asked("setup") EXCEPT !.printer = "A1", !.nozzle = 4, !.filament = "PLA", !.llm = "ollama"],
     [Asked("setup") EXCEPT !.printer = "A1 0.6", !.process = "Std", !.defaults = FALSE],
     [Asked("setup") EXCEPT !.printer = "A1", !.llm = "unsupported"],
     [Asked("candidates") EXCEPT !.plate = "high_temp_plate", !.material = "PLA"],
     [Asked("candidates") EXCEPT !.defaults = FALSE, !.goal = "balanced"],
     Asked("recommend"),
     [Recommended EXCEPT !.slice = TRUE],
     [Recommended EXCEPT !.slice = TRUE, !.model = Model(90, None)],
     [Recommended EXCEPT !.goal = "surface_quality", !.llm = "off"],
     [Recommended EXCEPT !.goal = "strength", !.process = None, !.model = Model(90, None)],
     [Sliced EXCEPT !.printer = None]}

MCWorkloads ==
    {[c \in Calls |-> IF c = c1 THEN request ELSE None] : request \in Alone}
    \cup {[c \in Calls |-> Sliced]}

LLMRec(setting, change, current, value, evidence) ==
    [setting |-> setting, change |-> change, current |-> current, value |-> value,
     evidence |-> evidence, source |-> "llm"]

MCLLMSets ==
    {[goal |-> "print_time", recs |-> <<>>],
     \* the same key with another value, and the opposite direction
     [goal |-> "print_time", recs |-> <<LLMRec("layer_height_mm", "decrease", 20, 8, {}),
                                        LLMRec("layer_height_mm", "increase", 20, 28, {})>>],
     [goal |-> "print_time", recs |-> <<LLMRec("support_type", "set", "tree", "normal", {})>>],
     [goal |-> "print_time", recs |-> <<LLMRec("bed_temperature", "set", None, 60, {})>>],
     [goal |-> "print_time", recs |-> <<LLMRec("wall_loops", "decrease", 3, 2, {<<"Wall count", 9>>})>>]}

MCStatistics == {[time |-> 90, weight |-> 12], [time |-> None, weight |-> None]}
=============================================================================
