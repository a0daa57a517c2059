----------------------------- MODULE PrintTools -----------------------------
(***************************************************************************)
(* All calls of the print tools over one profile store.  To SetupTools it  *)
(* adds slicer.slice, whose calls share the directory of the slicer's      *)
(* jobs, and print.recommend: analysis, profiles, a slice on demand, the   *)
(* rules added one proposal at a time, and the LLM.                        *)
(***************************************************************************)
EXTENDS SetupTools

JobOrder == <<"process", "filament", "printer">>
JobErrors == {"slicer_not_installed", "slicer_unavailable", "invalid_model", "version_mismatch"}
SliceErrors == {"version_mismatch", "invalid_profile", "slice_failed"}

-----------------------------------------------------------------------------
(* slicer.slice *)

RequestedName(c, kind) ==
    CASE kind = "printer" -> Request(c).printer
      [] kind = "process" -> Request(c).process
      [] OTHER -> Request(c).filament

\* The first listed profile of the name; a printer need not be named.
ListJobProfile(c) ==
    LET kind == JobOrder[call[c].at]
        name == RequestedName(c, kind)
        First(ps) == LET named == SelectSeq(ps, LAMBDA p : p.name = name)
                     IN IF named = <<>> THEN Failed("slicer_error") ELSE Result(named[1])
        source == IF name = None THEN Result(None) ELSE Then(ListProfiles(store, kind), First)
        last == call[c].at = 3
    IN /\ pc[c] = "list"
       /\ Move(c, source, IF last THEN "job" ELSE "list",
               [call[c] EXCEPT !.at = IF last THEN 1 ELSE @ + 1, !.profiles[kind] = source.val])

\* OrcaSlicerAdapter.slice(): a slicer that is there and can slice, a model it
\* may open, and a printer.
StartJob(c) ==
    /\ pc[c] = "job"
    /\ \/ \E code \in JobErrors : Fail(c, code)
       \/ Move(c, IF call[c].profiles["printer"] = None THEN InvalidProfile ELSE Result(None), "job profiles",
               [call[c] EXCEPT !.at = 1])

\* A listed profile is resolved by its name: its file may be another one.
MaterializeJobProfile(c) ==
    LET kind == JobOrder[call[c].at]
        profile == Materialize(store, kind, None, call[c].profiles[kind])
        last == call[c].at = 3
    IN /\ pc[c] = "job profiles"
       /\ Move(c, profile, IF last THEN "compatible" ELSE "job profiles",
               [call[c] EXCEPT !.at = IF last THEN 1 ELSE @ + 1, !.sliced[kind] = profile.val])

CheckCompatible(c) ==
    LET Fits(profile) == profile.compatible = {} \/ call[c].sliced["printer"].name \in profile.compatible
    IN /\ pc[c] = "compatible"
       /\ Move(c, IF Fits(call[c].sliced["process"]) /\ Fits(call[c].sliced["filament"]) THEN Result(None)
                  ELSE InvalidProfile,
               "directory", call[c])

\* Mutant: the stamp is coarser than the clock.
CoarseStamp(time) == time \div 2

\* Mutant: the stamp runs ahead of the clock.
NextStamp(time) == time + 1

\* The name of a job's directory is the time, in microseconds.
Stamp(time) == time

\* A directory that is there already is no error.
MakeJobDirectory(c) ==
    /\ pc[c] = "directory"
    /\ dir' = [dir EXCEPT ![c] = Stamp(clock)]
    /\ call' = [call EXCEPT ![c].stamp = clock]
    /\ Goto(c, "write")
    /\ UNCHANGED <<world, builder, jobs>>

WriteJobFiles(c) ==
    /\ pc[c] = "write"
    /\ jobs' = [jobs EXCEPT ![dir[c]].config = c]
    /\ Goto(c, "run")
    /\ UNCHANGED <<world, call, builder, dir>>

\* The slicer slices what the files of the directory hold, under one name for
\* all jobs of a model; or it writes nothing; or it is stopped or never runs.
RunSlicer(c) ==
    /\ pc[c] = "run"
    /\ \/ /\ jobs' = [jobs EXCEPT ![dir[c]].by = c, ![dir[c]].from = jobs[dir[c]].config]
          /\ \/ Goto(c, "collect")
             \/ Refuse(c, "slice_timeout")
       \/ /\ UNCHANGED jobs
          /\ \/ Goto(c, "collect")
             \/ \E code \in {"slice_timeout", "slicer_unavailable"} : Refuse(c, code)
    /\ UNCHANGED <<world, call, builder, dir>>

\* The artifacts of the directory are the job's, whatever the exit status.
CollectArtifacts(c) ==
    LET artifact == jobs[dir[c]]
    IN /\ pc[c] = "collect"
       /\ IF artifact.by = None THEN \E code \in SliceErrors : Fail(c, code)
          ELSE \E stats \in Statistics :
                LET record == [call[c] EXCEPT !.stats = stats, !.artifact = artifact]
                IN IF Request(c).tool = "slice" THEN Finish(c, record)
                   ELSE Move(c, Result(None), "evaluate", record)

-----------------------------------------------------------------------------
(* print.recommend *)

\* The model's analysis; a slicer that is not there fails a call that names
\* profiles, and leaves another one without them.
Analyze(c) ==
    LET named == \E kind \in Kinds : RequestedName(c, kind) # None
    IN /\ pc[c] = "analyze"
       /\ \/ Fail(c, "invalid_model")
          \/ Move(c, Result(None), "read", call[c])
          \/ Move(c, IF named THEN Failed("slicer_not_installed")
                     ELSE IF Request(c).slice THEN InvalidProfile ELSE Result(None), "evaluate", call[c])

\* What the call does not name the printer's profile may name.
DefaultName(c, kind) ==
    LET printer == call[c].profiles["printer"]
    IN CASE kind = "printer" \/ printer = None -> None
         [] kind = "process" /\ printer # None -> Value(printer.keys, "default_print_profile")
         [] OTHER -> Value(printer.keys, "default_filament_profile")

ReadProfile(c) ==
    LET kind == Order[call[c].at]
        requested == RequestedName(c, kind)
        name == IF requested # None THEN requested ELSE DefaultName(c, kind)
        found == IF name = None THEN Result(None) ELSE FindProfile(store, kind, name, FALSE)
        required == Then(found, LAMBDA p : IF p = None /\ requested # None THEN InvalidProfile ELSE found)
        last == call[c].at = 3
        complete == found.val # None /\ \A k \in {"printer", "process"} : call[c].profiles[k] # None
    IN /\ pc[c] = "read"
       /\ Move(c, Then(required, LAMBDA p : IF last /\ Request(c).slice /\ ~complete THEN InvalidProfile ELSE found),
               IF ~last THEN "read" ELSE IF Request(c).slice THEN "job" ELSE "evaluate",
               [call[c] EXCEPT !.at = IF last THEN 1 ELSE @ + 1, !.profiles[kind] = found.val])

Input(c) ==
    [goal |-> Request(c).goal, model |-> Request(c).model,
     process |-> ProcessDigest(call[c].profiles["process"]),
     filament |-> FilamentDigest(call[c].profiles["filament"]),
     printer |-> PrinterDigest(call[c].profiles["printer"]),
     stats |-> call[c].stats, maxTime |-> Request(c).maxTime, maxFilament |-> Request(c).maxFilament]

Evaluate(c) ==
    /\ pc[c] = "evaluate"
    /\ builder' = [builder EXCEPT ![c] = [NoRules EXCEPT !.all = Proposals(Input(c))]]
    /\ Goto(c, "add")
    /\ UNCHANGED <<world, call, slicing>>

AddProposal(c) ==
    LET rules == builder[c]
        added == Add(rules.recs, rules.conflicts, rules.all[rules.next])
    IN /\ pc[c] = "add"
       /\ rules.next \in DOMAIN rules.all
       /\ builder' = [builder EXCEPT ![c] = [rules EXCEPT !.next = @ + 1, !.recs = added.recs,
                                                          !.conflicts = added.conflicts]]
       /\ UNCHANGED <<world, pc, answer, call, slicing>>

\* What a recommendation is made of; their order, and how often an LLM repeats
\* one, are left out.
Candidates(c) == {builder[c].recs[i] : i \in DOMAIN builder[c].recs}

Conclude(c) ==
    /\ pc[c] = "add"
    /\ builder[c].next \notin DOMAIN builder[c].all
    /\ IF Request(c).llm = "off" THEN Finish(c, [call[c] EXCEPT !.final = Candidates(c)])
       ELSE Move(c, Result(None), "llm", call[c])

\* Every LLMError is fallen back from, if that is allowed.
LLMFails(c, code) ==
    IF AllowFallback THEN Finish(c, [call[c] EXCEPT !.final = Candidates(c)]) ELSE Fail(c, code)

\* The prompt asks for the candidates again; the LLM may answer something else.
Repetition(c) == [goal |-> Request(c).goal, recs |-> builder[c].recs]

AskLLM(c) ==
    /\ pc[c] = "llm"
    /\ \/ \E set \in LLMSets \cup {Repetition(c)} :
            IF ValidLLMSet(set, Input(c))
            THEN Finish(c, [call[c] EXCEPT !.mode = "llm", !.final = Merge(Candidates(c), set)])
            ELSE LLMFails(c, "llm_invalid_response")
       \/ \E code \in LLMErrors : LLMFails(c, code)
       \/ Fail(c, "AttributeError")

-----------------------------------------------------------------------------
(* The user, the slicer and the clock *)

EditFile ==
    /\ edits < MaxEdits
    /\ \E edit \in Edits :
        store' = [store EXCEPT !.files =
                    IF edit[2] = None THEN [f \in DOMAIN @ \ {edit[1]} |-> @[f]]
                    ELSE [f \in DOMAIN @ \cup {edit[1]} |-> IF f = edit[1] THEN edit[2] ELSE @[f]]]
    /\ edits' = edits + 1
    /\ UNCHANGED <<clock, pc, answer, call, builder, slicing>>

LoseUsers ==
    /\ edits < MaxEdits
    /\ store.usersReadable
    /\ store' = [store EXCEPT !.usersReadable = FALSE]
    /\ edits' = edits + 1
    /\ UNCHANGED <<clock, pc, answer, call, builder, slicing>>

Tick ==
    /\ clock < MaxClock
    /\ clock' = clock + 1
    /\ UNCHANGED <<store, edits, pc, answer, call, builder, slicing>>

SelectingSetup(c) ==
    \/ Start(c) \/ SelectPrinters(c) \/ MaterializePrinters(c) \/ FindPrinter(c) \/ MatchListedPrinters(c)
    \/ ResolveProcess(c) \/ MaterializeProcess(c) \/ ResolveFilament(c) \/ ListFilaments(c) \/ JudgeFilament(c)
    \/ RankFilaments(c) \/ Narrate(c) \/ SelectSetup(c) \/ RequireAuthority(c)
    \/ ResolveIdentity(c) \/ MaterializeIdentity(c) \/ RealizeSetup(c)

SlicingJob(c) ==
    \/ ListJobProfile(c) \/ StartJob(c) \/ MaterializeJobProfile(c) \/ CheckCompatible(c) \/ MakeJobDirectory(c)
    \/ WriteJobFiles(c) \/ RunSlicer(c) \/ CollectArtifacts(c)

Recommending(c) ==
    \/ Analyze(c) \/ ReadProfile(c) \/ Evaluate(c) \/ AddProposal(c) \/ Conclude(c) \/ AskLLM(c)

Working(c) == SelectingSetup(c) \/ SlicingJob(c) \/ Recommending(c)

Next == (\E c \in Calls : Working(c)) \/ EditFile \/ LoseUsers \/ Tick

Spec == Init /\ [][Next]_vars

-----------------------------------------------------------------------------
(* Properties *)

\* Every call is at a step of its tool, has an answer only when it is done, and
\* its reads, its rules and the jobs' directories have the shape they promise.
TypeOK ==
    /\ edits \in 0..MaxEdits
    /\ clock \in 0..MaxClock
    /\ pc \in [Calls -> Steps]
    /\ \A c \in Calls :
        /\ answer[c].status \in {None, "ok", "error", "raised"}
        /\ (answer[c].status = None) = (pc[c] # "done")
        /\ call[c].at \in 1..3
        /\ call[c].mode \in {"llm", "deterministic"}
        /\ builder[c].next \in 1..(Len(builder[c].all) + 1)
        /\ builder[c].conflicts \subseteq Recommendable
        /\ dir[c] \in (0..clock) \cup {None}
    /\ jobs \in [0..MaxClock -> [config : Calls \cup {None}, by : Calls \cup {None}, from : Calls \cup {None}]]

\* Inputs of three profiles that have the selected identities, the process made
\* for that printer, and nozzle, plate and material declared by them.
Proven(record) ==
    LET inputs == record.inputs
        setup == record.setup
    IN /\ \A kind \in Kinds : /\ Identity(record.sources[kind]) = setup[kind]
                              /\ inputs[kind].identity = setup[kind]
       /\ setup.nozzle \in inputs["printer"].content["nozzle_diameter"]
       /\ setup.material = inputs["filament"].content["filament_type"]
       /\ \/ CompatiblePrinters(inputs["process"].content) = {}
          \/ inputs["printer"].name \in inputs["process"].content["compatible_printers"]
       /\ setup.plate \in DOMAIN PlateFields

\* The inputs prepare() hands to the slicer rest on what the realization read
\* itself, whatever happened to the store since the selection.
RealizedIsProven == \A c \in Calls : call[c].inputs # None => Proven(call[c])

\* The authority prepare() requires of the selected profiles is decisive: as
\* long as nobody touches the store, the realization finds each of them, and
\* only one.
AuthorityIsDecisive ==
    [][\A c \in Calls : pc[c] = "resolve" /\ edits = call[c].selectedAt => answer'[c] = answer[c]]_vars

\* What becomes of proposals that are added in their order.
AddedInOrder(rules) ==
    LET all == rules.all
        past == 1..(rules.next - 1)
        recs == rules.recs
        Leading(i) == \A j \in 1..(i - 1) : all[j].setting # all[i].setting
    IN /\ \A i, j \in DOMAIN recs : recs[i].setting = recs[j].setting => i = j
       /\ {recs[i] : i \in DOMAIN recs} = {all[i] : i \in {i \in past : Leading(i)}}
       /\ rules.conflicts =
            {all[i].setting : i \in {i \in past : \E j \in 1..i : /\ all[j].setting = all[i].setting
                                                                  /\ all[j].change # all[i].change}}

\* Every setting gets one direction, that of the first rule that proposes a
\* change of it; a rule that wants another direction leaves a conflict, and
\* nothing else does.
RulesByPrecedence == \A c \in Calls : AddedInOrder(builder[c])

\* What the rules found is in every answer of print.recommend, with the rules'
\* values: the LLM may add to it, never drop or change it.
CandidatesKept ==
    \A c \in Calls : Request(c) # None /\ Request(c).tool = "recommend" /\ answer[c].status = "ok" =>
        /\ Candidates(c) \subseteq call[c].final
        /\ \A rec \in call[c].final, candidate \in Candidates(c) : Key(rec) = Key(candidate) => rec = candidate

\* The rules cite nothing the prompt does not state: an LLM that repeats the
\* candidates, as it is asked to, is never refused for it.
RepetitionIsValid ==
    \A c \in Calls : pc[c] = "llm" => ValidLLMSet(Repetition(c), Input(c))

\* The validator and the merge together (engine.py:352 and on): an LLM is not
\* refused for saying what the rules found, and whatever it says does not
\* displace it.
RulesSurviveLLM == RepetitionIsValid /\ CandidatesKept

\* Measured and configured values in one recommendation are of the same
\* profiles: the slice on demand uses the documents the digest was made of,
\* even if the files changed in between.
StatsOfDigest ==
    \A c \in Calls : Request(c) # None /\ Request(c).tool = "recommend" /\ call[c].stats # None =>
        \A kind \in Kinds : call[c].sliced[kind] = call[c].profiles[kind]

\* The parents of a profile never end.
Endless(kind, name) ==
    LET found == [n \in NameSet |-> FindSource(store, kind, n).val]
    IN \E path \in SUBSET DOMAIN found :
        name \in path /\ \A n \in path : found[n] # None /\ found[n].inherits \in path

\* No job of the slicer is made of profiles whose inheritance never ends.
NoEndlessInheritance ==
    [][\A c \in Calls : pc[c] = "job profiles" /\ call'[c].sliced # call[c].sliced =>
        LET profile == call[c].profiles[JobOrder[call[c].at]]
        IN profile.materialized \/ ~Endless(JobOrder[call[c].at], profile.name)]_vars

\* A job whose microsecond no other job has is alone in its directory: what it
\* reports, its own slicer has written from its own files.
JobsApart ==
    \A c \in Calls : call[c].artifact # NoJob /\ (\A d \in Calls \ {c} : call[d].stamp # call[c].stamp) =>
        call[c].artifact = [config |-> c, by |-> c, from |-> c]

=============================================================================
