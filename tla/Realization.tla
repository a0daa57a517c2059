----------------------------- MODULE Realization -----------------------------
(***************************************************************************)
(* The authority of a prepared setup: PreparationService._selected_setup() *)
(* names three profiles and realize_setup() reads them again, proves the   *)
(* setup on what it read and fixes the slicer's inputs.  A sha256 is its   *)
(* content.                                                                *)
(***************************************************************************)
EXTENDS PrintContext

Identity(profile) == [name |-> profile.name, id |-> profile.id]

\* The positions of the listed profiles that have the identity.
Matching(profiles, identity) ==
    {i \in DOMAIN profiles : profiles[i].name = identity.name /\ profiles[i].id = identity.id}

Several(positions) == \E i, j \in positions : i # j

\* _selected_setup() before its reads: what the recommendation leaves open.
SelectionGap(plate, printers, process, candidate) ==
    FirstReason(<< <<plate = None, "default_build_plate_missing">>,
                   <<printers = <<>>, "printer_profile_not_found">>,
                   <<Len(printers) > 1, "printer_profile_ambiguous">>,
                   <<process = None, "process_profile_not_found">>,
                   <<candidate = None, "no_compatible_setup">> >>)

\* The setup's names; the filament's identity is the candidate's.
SelectedSetup(printer, process, candidate, nozzle, plate) ==
    [printer |-> Identity(printer), process |-> Identity(process), filament |-> Identity(candidate),
     nozzle |-> nozzle, plate |-> plate,
     material |-> IF candidate.material # None THEN candidate.material ELSE "unknown"]

\* Mutant: a listed profile has the identity, whether or not another has it too.
AuthorityOfFirst(profiles, identity) ==
    IF Matching(profiles, identity) = {} THEN "profile_authority_missing" ELSE None

\* _require_unique_profile_authority(): one listed profile has the identity.
AuthorityGap(profiles, identity) ==
    FirstReason(<< <<Matching(profiles, identity) = {}, "profile_authority_missing">>,
                   <<Several(Matching(profiles, identity)), "profile_authority_ambiguous">> >>)

\* The nozzle layer: the context's, the printer's, 0.4 mm, the only one.
NozzleLayer(context) ==
    LET printer == context.printer
    IN CASE printer = None -> None
         [] printer # None /\ context.nozzle # None -> context.nozzle
         [] printer # None /\ context.nozzle = None /\ printer.nozzle # None -> printer.nozzle
         [] OTHER -> IF 4 \in printer.supported THEN 4 ELSE None

NozzleAuthoritative(context) ==
    LET nozzle == NozzleLayer(context)
    IN nozzle # None /\ (context.printer.supported = {} \/ nozzle \in context.printer.supported)

-----------------------------------------------------------------------------
(* realize_setup() *)

\* The code is searched for in the error's text, which has the profile's name:
\* names with one of these words in them are left out.
MissingProfile ==
    [printer |-> "printer_profile_missing", process |-> "process_profile_missing",
     filament |-> "filament_profile_missing"]

Resolve(profiles, identity, kind) ==
    LET matching == Matching(profiles, identity)
    IN CASE matching = {} -> Failed(MissingProfile[kind])
         [] Several(matching) -> Failed("ambiguous_profile_resolution")
         [] OTHER -> Result(profiles[CHOOSE i \in matching : TRUE])

NativePlate ==
    [p \in {"cool_plate", "textured_pei_plate", "high_temp_plate"} |->
        CASE p = "cool_plate" -> "Cool Plate"
          [] p = "textured_pei_plate" -> "Textured PEI Plate"
          [] OTHER -> "High Temp Plate"]

\* Mutant: the material is not compared with the filament that was read.
UnprovenMaterial(setup, printer, process, filament) ==
    FirstReason(<< <<process.compatible # {} /\ printer.name \notin process.compatible, "incompatible_profiles">>,
                   <<setup.nozzle \notin NozzleValues(printer), "unsupported_nozzle">>,
                   <<setup.plate \notin DOMAIN NativePlate, "build_plate_not_representable">> >>)

\* Why the profiles that were read do not realize the setup.  Nothing asks
\* whether the filament is compatible with the printer.
Unproven(setup, printer, process, filament) ==
    LET material == Value(filament.keys, "filament_type")
    IN FirstReason(
        << <<process.compatible # {} /\ printer.name \notin process.compatible, "incompatible_profiles">>,
           <<Value(printer.keys, "nozzle_diameter") = None, "profile_content_invalid">>,
           <<setup.nozzle \notin NozzleValues(printer), "unsupported_nozzle">>,
           <<setup.plate \notin DOMAIN NativePlate, "build_plate_not_representable">>,
           <<material = None, "material_not_provable">>,
           <<material # setup.material, "material_profile_mismatch">> >>)

Reference(identity, profile) == [identity |-> identity, name |-> profile.name, content |-> profile.keys]

\* The printer's bed and nozzle are overlaid; the service selects no overrides.
EffectiveInputs(setup, printer, process, filament) ==
    [printer |-> Reference(setup.printer, printer), process |-> Reference(setup.process, process),
     filament |-> Reference(setup.filament, filament),
     overlay |-> [bed |-> NativePlate[setup.plate], nozzle |-> setup.nozzle],
     actual |-> setup]

=============================================================================
