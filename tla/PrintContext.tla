---------------------------- MODULE PrintContext ----------------------------
(***************************************************************************)
(* The printing environment of a request: PrintContextResolver picks the   *)
(* printer's profiles, the nozzle, the build plate and the process from    *)
(* the request, the configured defaults and what the store's reads return. *)
(* Diameters are tenths of a millimetre.                                   *)
(***************************************************************************)
EXTENDS ProfileStore

CONSTANTS
    DefaultPrinter, DefaultNozzle, DefaultPlate,    \* settings.recommend, None where unset
    Variants    \* <<name, spec>>: the name begins with the spec and a blank

Unresolved == Failed("unresolved_print_context")
Ambiguous == Failed("ambiguous_print_context")

PrinterSpec(intent) ==
    CASE intent.printer # None -> Result(intent.printer)
      [] intent.printer = None /\ ~intent.defaults -> Result(None)
      [] OTHER -> IF DefaultPrinter # None THEN Result(DefaultPrinter) ELSE Unresolved

ProfileModel(profile) == IF profile.model # None THEN profile.model ELSE profile.name

\* The profiles a spec names: those found already, else by the beginning of a
\* name.  They must be of one printer.
MatchSpec(profiles, found, spec) ==
    LET matched == IF found # <<>> THEN found
                   ELSE SelectSeq(profiles, LAMBDA p : p.name = spec \/ <<p.name, spec>> \in Variants)
    IN CASE matched = <<>> -> Unresolved
         [] matched # <<>> /\ Cardinality({ProfileModel(matched[i]) : i \in DOMAIN matched}) > 1 -> Ambiguous
         [] OTHER -> Result(matched)

\* prepare(): a profile of that very name comes before a model.
SelectPrinterSources(profiles, spec) ==
    LET exact == SelectSeq(profiles, LAMBDA p : p.name = spec)
        models == SelectSeq(profiles, LAMBDA p : ProfileModel(p) = spec)
    IN IF spec = None THEN Unresolved ELSE MatchSpec(profiles, IF exact # <<>> THEN exact ELSE models, spec)

\* The other tools, once no file has that name: a model must be declared.
MatchPrinters(profiles, spec) == MatchSpec(profiles, SelectSeq(profiles, LAMBDA p : p.model = spec), spec)

NozzleValues(profile) == IF Value(profile.keys, "nozzle_diameter") = None THEN {} ELSE profile.keys["nozzle_diameter"]

\* What several profiles of a printer say together: the last one that
\* declares a field gives it.
PrinterFromProfiles(profiles, spec) ==
    LET Last(has) == profiles[CHOOSE i \in has : \A j \in has : j <= i]
        modelled == {i \in DOMAIN profiles : profiles[i].model # None}
        defaulting == {i \in DOMAIN profiles : Value(profiles[i].keys, "default_print_profile") # None}
        supported == UNION {NozzleValues(profiles[i]) : i \in DOMAIN profiles}
    IN [name |-> IF modelled = {} THEN spec ELSE Last(modelled).model,
        supported |-> supported,
        nozzle |-> IF Cardinality(supported) = 1 THEN CHOOSE n \in supported : TRUE ELSE None,
        process |-> IF defaulting = {} THEN None ELSE Last(defaulting).keys["default_print_profile"]]

\* prepare() takes the configured default only if the printer supports it,
\* then 0.4 mm; the other tools take it unchecked.
ResolveNozzle(intent, printer, authoritative) ==
    LET Supported(n) == printer = None \/ n \in printer.supported
        usesDefault == /\ intent.defaults /\ DefaultNozzle # None
                       /\ authoritative => Supported(DefaultNozzle)
    IN CASE intent.nozzle # None ->
                IF Supported(intent.nozzle) \/ printer.supported = {} THEN Result(intent.nozzle) ELSE Unresolved
         [] intent.nozzle = None /\ printer # None /\ printer.nozzle # None -> Result(printer.nozzle)
         [] OTHER -> CASE usesDefault -> Result(DefaultNozzle)
                       [] ~usesDefault /\ authoritative /\ printer # None /\ 4 \in printer.supported -> Result(4)
                       [] OTHER -> Result(None)

\* Of several profiles those that declare the nozzle stay.
KeepWithNozzle(profiles, nozzle) ==
    IF nozzle = None \/ Len(profiles) <= 1 THEN profiles
    ELSE SelectSeq(profiles, LAMBDA p : nozzle \in NozzleValues(p))

ResolveBuildPlate(intent) ==
    IF intent.plate # None THEN intent.plate ELSE IF intent.defaults THEN DefaultPlate ELSE None

ProcessName(intent, printer) ==
    IF intent.process # None THEN intent.process ELSE IF printer = None THEN None ELSE printer.process

SelectProcessSource(profiles, name) ==
    LET named == SelectSeq(profiles, LAMBDA p : p.name = name)
    IN CASE named = <<>> -> Unresolved
         [] Len(named) = 1 -> Result(named[1])
         [] OTHER -> Ambiguous

\* A profile the request names must be there, the printer's default need not.
ReadNamed(store, kind, name, required, pinned) ==
    IF name = None THEN Result(None)
    ELSE Then(FindProfile(store, kind, name, pinned), LAMBDA found :
            IF found = None /\ required THEN Unresolved ELSE Result(found))

=============================================================================
