----------------------------- MODULE SetupTools -----------------------------
(***************************************************************************)
(* The state of the calls of the print tools, and the tools that select a  *)
(* setup: print.setup, print.filament_candidates, and print.prepare up to  *)
(* the realized setup.  Every read of the store is a step; between two     *)
(* reads the user, or the slicer, may change the files.                    *)
(***************************************************************************)
EXTENDS Realization, FilamentMatrix, RecommendationRules

CONSTANTS
    Calls,
    Workloads,      \* what the calls ask for: functions from Calls to requests or None
    Stores,         \* the stores a behaviour may begin with
    Edits,          \* <<file, document or None>>: what may happen to a file
    MaxEdits,       \* bound: changes of the store
    MaxClock,       \* bound: microseconds
    LLMSets,        \* answers of an LLM, beside the repetition of the candidates
    Statistics,     \* [time, weight] a slice may report
    AllowFallback   \* settings.recommend.allow_deterministic_fallback

Tools == {"prepare", "setup", "candidates", "recommend", "slice"}

\* A call asks one of the tools for something or is not made.
ASSUME ToolsAssumption ==
    /\ None \notin {"ok", "error", "raised", "invalid_profile"}
    /\ None \notin Calls \cup Nat
    /\ MaxEdits \in Nat
    /\ MaxClock \in Nat
    /\ \A workload \in Workloads : \A c \in Calls : workload[c] = None \/ workload[c].tool \in Tools

\* What an LLM answers has passed the schema of a recommendation.
ASSUME AnswersAssumption ==
    \A set \in LLMSets : \A i \in DOMAIN set.recs : {"setting", "change"} \subseteq DOMAIN set.recs[i]

\* None is no reason to refuse a setup, and no error of a scan.
ASSUME ReasonsAssumption ==
    None \notin {"OSError", "profile_authority_missing", "profile_authority_ambiguous", "profile_content_invalid",
                 "profile_materialization_failed", "ambiguous_profile_resolution", "printer_profile_missing",
                 "process_profile_missing", "filament_profile_missing", "incompatible_profiles", "unsupported_nozzle",
                 "build_plate_not_representable", "material_not_provable", "material_profile_mismatch"}

VARIABLES
    store, edits, clock,    \* the profile store; the wall clock
    pc, answer,             \* per call: its step, and what it returned or raised
    call,                   \* per call: what it asked for and has read
    builder,                \* per call: the rules' proposals and what became of them
    dir, jobs               \* per call: its job directory; the directories

world == <<store, edits, clock>>
slicing == <<dir, jobs>>
vars == <<world, pc, answer, call, builder, slicing>>

Order == <<"printer", "process", "filament">>
Reads == {"printers", "materialize printers", "find printer", "match printers", "process", "materialize process",
          "filament", "matrix", "judge", "authority", "resolve", "materialize"}
Computations == {"idle", "start", "rank", "narrate", "realize", "done", "evaluate", "add", "llm"}
Slicing == {"analyze", "read", "list", "job", "job profiles", "compatible", "directory", "write", "run", "collect"}
Steps == Reads \cup Computations \cup Slicing

Request(c) == call[c].request
Unmapped == {"OSError", "AttributeError"}
LLMErrors == {"llm_unavailable", "llm_timeout", "llm_invalid_response"}
NoAnswer == [status |-> None, code |-> None]
NoJob == [config |-> None, by |-> None, from |-> None]
Nothing == [k \in Kinds |-> None]
NoRules == [all |-> <<>>, next |-> 1, recs |-> <<>>, conflicts |-> {}]

NewCall(request) ==
    [request |-> request, at |-> 1, printers |-> <<>>, profiles |-> Nothing, context |-> None, todo |-> <<>>,
     candidates |-> <<>>, rejected |-> <<>>, setup |-> None, selectedAt |-> 0, sources |-> Nothing, inputs |-> None,
     sliced |-> Nothing, stats |-> None, artifact |-> NoJob, stamp |-> None, mode |-> "deterministic", final |-> {}]

Init ==
    /\ store \in Stores
    /\ edits = 0
    /\ clock = 0
    /\ \E workload \in Workloads :
        /\ pc = [c \in Calls |-> IF workload[c] = None THEN "idle" ELSE "start"]
        /\ call = [c \in Calls |-> NewCall(workload[c])]
    /\ answer = [c \in Calls |-> NoAnswer]
    /\ builder = [c \in Calls |-> NoRules]
    /\ dir = [c \in Calls |-> None]
    /\ jobs = [t \in 0..MaxClock |-> NoJob]

Goto(c, step) == pc' = [pc EXCEPT ![c] = step] /\ UNCHANGED answer

Reply(c, status, code) ==
    /\ pc' = [pc EXCEPT ![c] = "done"]
    /\ answer' = [answer EXCEPT ![c] = [status |-> status, code |-> code]]

\* The tools answer with SlicerErrors and LLMErrors, prepare() with what its
\* stages map; nothing maps an OSError of a scan.
Refuse(c, code) == Reply(c, IF code \in Unmapped THEN "raised" ELSE "error", code)

\* A step of a call: the error of the result, or the next step with record.
Move(c, result, step, record) ==
    /\ IF result.err # None
       THEN Refuse(c, result.err) /\ UNCHANGED call
       ELSE Goto(c, step) /\ call' = [call EXCEPT ![c] = record]
    /\ UNCHANGED <<world, builder, slicing>>

Finish(c, record) ==
    /\ Reply(c, "ok", None)
    /\ call' = [call EXCEPT ![c] = record]
    /\ UNCHANGED <<world, builder, slicing>>

Fail(c, code) == Refuse(c, code) /\ UNCHANGED <<world, call, builder, slicing>>

FirstStep(tool) ==
    IF tool = "prepare" THEN "printers" ELSE IF tool = "recommend" THEN "analyze"
    ELSE IF tool = "slice" THEN "list" ELSE "find printer"

\* The client of the LLM is built first; prepare() has none.
Start(c) ==
    /\ pc[c] = "start"
    /\ Move(c, IF Request(c).llm = "unsupported" THEN Failed("llm_unavailable") ELSE Result(None),
            FirstStep(Request(c).tool), call[c])

-----------------------------------------------------------------------------
(* The context: resolve_with_authority() and resolve() *)

\* Every result's value, or the first error.
AllOf(results) ==
    LET failing == {i \in DOMAIN results : results[i].err # None}
    IN IF failing = {} THEN Result([i \in DOMAIN results |-> results[i].val])
       ELSE results[CHOOSE i \in failing : \A j \in failing : i <= j]

SelectPrinters(c) ==
    LET spec == PrinterSpec(Request(c))
        sources == Then(spec, LAMBDA s :
            IF s = None THEN Unresolved
            ELSE Then(ListProfiles(store, "printer"), LAMBDA ps : SelectPrinterSources(ps, s)))
    IN /\ pc[c] = "printers"
       /\ Move(c, sources, "materialize printers", [call[c] EXCEPT !.printers = sources.val])

\* The nozzle decides which of several profiles of the printer remain.
MaterializePrinters(c) ==
    LET spec == PrinterSpec(Request(c)).val
        profiles == AllOf([i \in DOMAIN call[c].printers |-> MaterializeProfile(store, "printer", call[c].printers[i])])
        printer == PrinterFromProfiles(profiles.val, spec)
        nozzle == Then(profiles, LAMBDA ps : ResolveNozzle(Request(c), printer, TRUE))
        kept == KeepWithNozzle(profiles.val, nozzle.val)
    IN /\ pc[c] = "materialize printers"
       /\ Move(c, nozzle, "process",
               [call[c] EXCEPT !.printers = kept,
                               !.context = [printer |-> PrinterFromProfiles(kept, spec), nozzle |-> nozzle.val,
                                            plate |-> ResolveBuildPlate(Request(c))]])

\* resolve(): the printer, where one is asked for, then nozzle and plate.
WithPrinter(c, profiles, spec) ==
    LET printer == IF spec = None THEN None ELSE PrinterFromProfiles(profiles, spec)
        nozzle == ResolveNozzle(Request(c), printer, FALSE)
    IN Move(c, nozzle, "process",
            [call[c] EXCEPT !.context = [printer |-> printer, nozzle |-> nozzle.val,
                                         plate |-> ResolveBuildPlate(Request(c))]])

FindPrinter(c) ==
    LET spec == PrinterSpec(Request(c))
        found == Then(spec, LAMBDA s : IF s = None THEN Result(None) ELSE FindProfile(store, "printer", s, FALSE))
    IN /\ pc[c] = "find printer"
       /\ IF found.err # None \/ (spec.val # None /\ found.val = None)
          THEN Move(c, found, "match printers", call[c])
          ELSE WithPrinter(c, <<found.val>>, spec.val)

Present(profiles) == SelectSeq(profiles, LAMBDA p : p # None)

\* No file has the name: the listed profiles of that printer are read by name.
MatchListedPrinters(c) ==
    LET spec == PrinterSpec(Request(c)).val
        matched == Then(ListProfiles(store, "printer"), LAMBDA ps : MatchPrinters(ps, spec))
        found == Then(matched, LAMBDA ps : AllOf([i \in DOMAIN ps |-> FindProfile(store, "printer", ps[i].name, FALSE)]))
    IN /\ pc[c] = "match printers"
       /\ IF found.err # None THEN Fail(c, found.err)
          ELSE WithPrinter(c, Present(found.val), spec)

ResolveProcess(c) ==
    LET name == ProcessName(Request(c), call[c].context.printer)
        prepares == Request(c).tool = "prepare"
        source == IF ~prepares THEN ReadNamed(store, "process", name, Request(c).process # None, FALSE)
                  ELSE IF name = None THEN Result(None)
                  ELSE Then(ListProfiles(store, "process"), LAMBDA ps : SelectProcessSource(ps, name))
    IN /\ pc[c] = "process"
       /\ Move(c, source,
               IF ~prepares THEN "filament" ELSE IF source.val = None THEN "matrix" ELSE "materialize process",
               [call[c] EXCEPT !.profiles["process"] = source.val])

MaterializeProcess(c) ==
    LET process == MaterializeProfile(store, "process", call[c].profiles["process"])
    IN /\ pc[c] = "materialize process"
       /\ Move(c, process, "matrix", [call[c] EXCEPT !.profiles["process"] = process.val])

\* A filament the request names is read for its digest; a setup needs a printer.
ResolveFilament(c) ==
    LET filament == ReadNamed(store, "filament", Request(c).filament, TRUE, FALSE)
        usable == Then(filament, LAMBDA f : IF Request(c).tool = "setup" /\ call[c].context.printer = None
                                            THEN Unresolved ELSE filament)
    IN /\ pc[c] = "filament"
       /\ Move(c, usable, "matrix", [call[c] EXCEPT !.profiles["filament"] = filament.val])

-----------------------------------------------------------------------------
(* The matrix of the filaments and the setup *)

ListFilaments(c) ==
    LET listed == ListProfiles(store, "filament")
    IN /\ pc[c] = "matrix"
       /\ Move(c, listed, "judge", [call[c] EXCEPT !.todo = listed.val])

\* One profile: its name is resolved again.  An error ends the whole matrix.
JudgeFilament(c) ==
    LET raw == Head(call[c].todo)
        found == FindProfile(store, "filament", raw.name, Request(c).tool = "prepare")
        built == BuildOne(raw, found.val, call[c].context, Request(c))
    IN /\ pc[c] = "judge"
       /\ call[c].todo # <<>>
       /\ Move(c, found, "judge",
               [call[c] EXCEPT !.todo = Tail(call[c].todo),
                               !.candidates = IF built.candidate = None THEN @ ELSE Append(@, built.candidate),
                               !.rejected = IF built.rejected = None THEN @ ELSE Append(@, built.rejected)])

Top(candidates) == IF candidates = <<>> THEN None ELSE candidates[1]

RankFilaments(c) ==
    LET ranked == Ranked(call[c].candidates, Request(c).goal)
        record == [call[c] EXCEPT !.candidates = ranked]
    IN /\ pc[c] = "judge"
       /\ call[c].todo = <<>>
       /\ IF Request(c).tool = "prepare" THEN Move(c, Result(None), "rank", record)
          ELSE IF Request(c).tool = "candidates" \/ Request(c).llm = "off" THEN Finish(c, record)
          ELSE Move(c, Result(None), "narrate", record)

\* The narrative replaces the summary if it quotes a fact; of the errors only
\* an LLM that cannot be reached fails the call, where no fallback is allowed.
Narrate(c) ==
    /\ pc[c] = "narrate"
    /\ \/ Finish(c, [call[c] EXCEPT !.mode = "llm"])
       \/ \E code \in LLMErrors :
            IF code = "llm_unavailable" /\ ~AllowFallback THEN Fail(c, code) ELSE Finish(c, call[c])
       \/ Fail(c, "AttributeError")

\* _selected_setup(): what is selected, before its authority is read again.
SelectSetup(c) ==
    LET candidate == Top(call[c].candidates)
        gap == SelectionGap(call[c].context.plate, call[c].printers, call[c].profiles["process"], candidate)
    IN /\ pc[c] = "rank"
       /\ Move(c, IF gap = None THEN Result(None) ELSE Failed(gap), "authority",
               [call[c] EXCEPT !.at = 1, !.selectedAt = edits,
                               !.setup = SelectedSetup(call[c].printers[1], call[c].profiles["process"], candidate,
                                                       NozzleLayer(call[c].context), call[c].context.plate)])

\* The scans of _require_unique_profile_authority(), and the nozzle after them.
RequireAuthority(c) ==
    LET kind == Order[call[c].at]
        listed == Then(ListProfiles(store, kind), LAMBDA ps :
            LET gap == AuthorityGap(ps, call[c].setup[kind]) IN IF gap = None THEN Result(None) ELSE Failed(gap))
        last == call[c].at = 3
        required == Then(listed, LAMBDA x :
            IF last /\ ~NozzleAuthoritative(call[c].context) THEN Failed("nozzle_not_authoritative") ELSE Result(None))
    IN /\ pc[c] = "authority"
       /\ Move(c, required, IF last THEN "resolve" ELSE "authority",
               [call[c] EXCEPT !.at = IF last THEN 1 ELSE @ + 1])

-----------------------------------------------------------------------------
(* The realization of the setup *)

\* A scan that fails is content that is not valid.
ResolveIdentity(c) ==
    LET kind == Order[call[c].at]
        listed == ListProfiles(store, kind)
        readable == IF listed.err = "invalid_profile" THEN Failed("profile_content_invalid") ELSE listed
        source == Then(readable, LAMBDA ps : Resolve(ps, call[c].setup[kind], kind))
        last == call[c].at = 3
    IN /\ pc[c] = "resolve"
       /\ Move(c, source, IF last THEN "materialize" ELSE "resolve",
               [call[c] EXCEPT !.at = IF last THEN 1 ELSE @ + 1, !.sources[kind] = source.val])

MaterializeIdentity(c) ==
    LET kind == Order[call[c].at]
        made == MaterializeExact(store, kind, call[c].sources[kind])
        profile == IF made.err = "invalid_profile" THEN Failed("profile_materialization_failed") ELSE made
        last == call[c].at = 3
    IN /\ pc[c] = "materialize"
       /\ Move(c, profile, IF last THEN "realize" ELSE "materialize",
               [call[c] EXCEPT !.at = IF last THEN 1 ELSE @ + 1, !.profiles[kind] = profile.val])

RealizeSetup(c) ==
    LET setup == call[c].setup
        printer == call[c].profiles["printer"]
        process == call[c].profiles["process"]
        filament == call[c].profiles["filament"]
        reason == Unproven(setup, printer, process, filament)
    IN /\ pc[c] = "realize"
       /\ IF reason # None THEN Fail(c, reason)
          ELSE Finish(c, [call[c] EXCEPT !.inputs = EffectiveInputs(setup, printer, process, filament)])

=============================================================================
