----------------------------- MODULE Preparation -----------------------------
(***************************************************************************)
(* One request of PreparationService.prepare(): the model's identity, the  *)
(* setup's selection and realization (by their outcomes), SliceExecutor    *)
(* .execute(), the slicer run by run_cli(), and SliceFinalizer.finalize(). *)
(* Requests share nothing but the source model, which anybody may edit at  *)
(* any moment: each has a workspace of its own, named by its uuid.         *)
(*                                                                         *)
(* Every separate read of a file is a step.  Beside the service run the    *)
(* user, who edits the model; anything that changes files of a workspace;  *)
(* the slicer's process; and a helper process the slicer may start.        *)
(***************************************************************************)
EXTENDS Naturals, Sequences

CONSTANTS
    Versions,     \* contents of the source model; a digest is its content
    MaxEdits,     \* bound: edits of the source model
    MaxTampers    \* bound: foreign changes to the workspace

VARIABLES
    pc,         \* the step the request is at
    answer,     \* what prepare() returned or raised
    model,      \* the source model: a version, missing or locked
    identity,   \* ModelIdentity.sha256
    touched,    \* the model was edited since the executor verified it
    dir,        \* the workspace directory
    intact,     \* config files that hold the realized configuration
    candidate,  \* plate_1.gcode
    at,         \* index of the config file a loop is at
    slicer,     \* the slicer's process
    helper,     \* a process the slicer has started
    facts,      \* the candidate parse_gcode read
    digest,     \* the candidate the executor identified
    size,       \* the byte size the executor recorded
    artifact,   \* the candidate the finalizer verified
    edits,
    tampers

source == <<model, identity, touched>>
workspace == <<dir, intact, candidate>>
processes == <<slicer, helper>>
evidence == <<facts, digest, size, artifact>>
bounds == <<edits, tampers>>
vars == <<pc, answer, source, workspace, at, processes, evidence, bounds>>

Configs == <<"printer", "process", "filament">>
Kinds == {Configs[i] : i \in 1..3}

\* A candidate: the model it was sliced from, what is wrong with it, and
\* whether all configs were the realized ones when it was written.
Forms == {"good", "nolayers", "malformed", "empty"}
NoFile == [src |-> "none", form |-> "none", realized |-> FALSE]
Sliced == [src : Versions, form : Forms, realized : BOOLEAN]
Foreign == [src : {"foreign"}, form : Forms \cup {"locked"}, realized : {FALSE}]
Files == Sliced \cup Foreign
Readable(file) == file.form \notin {"none", "locked"}
WellFormed(file) == file.form \in {"good", "nolayers"}
HasLayers(file) == file.form \in {"good", "malformed"}
Size(file) == CASE file.form = "empty" -> 0 [] file.form = "malformed" -> 1 [] OTHER -> 2

Preparing == {"model", "select", "realize"}
BeforeWorkspace == {"resolve", "read", "mkdir"}
InWorkspace == {"write", "verify", "launch", "slice", "drain", "validate", "parse", "identify", "measure"}
Finalizing == {"workspace", "candidate", "configs"}

Stages == {"MODEL_INPUT", "SETUP_SELECTION", "REALIZATION", "SLICING", "FINAL_VERIFICATION"}
ModelCodes == {"model_missing", "model_hash_failed", "model_rejected"}
SetupCodes == {"setup_selection_failed", "realization_failed"}
SliceCodes ==
    {"invalid_source_model", "source_model_identity_mismatch", "workspace_creation_failed",
     "config_materialization_failed", "config_verification_failed", "slicer_unavailable",
     "slicer_timeout", "slicer_process_failed", "slice_output_missing", "slice_output_invalid",
     "slice_facts_invalid", "candidate_artifact_identity_failed"}
FinalCodes ==
    {"workspace_missing", "workspace_not_directory", "candidate_missing", "candidate_not_file",
     "candidate_empty", "candidate_size_mismatch", "candidate_hash_mismatch", "config_differs"}
Codes == ModelCodes \cup SetupCodes \cup SliceCodes \cup FinalCodes \cup {"OSError", "ValueError", "none"}

NoAnswer == [status |-> "none", stage |-> "none", code |-> "none"]
Answers ==
    [status : {"none", "READY", "NOT_READY", "raised"}, stage : Stages \cup {"none"}, code : Codes]

Init ==
    /\ pc = "model"
    /\ answer = NoAnswer
    /\ model \in Versions \cup {"missing", "locked"}
    /\ identity = "none"
    /\ touched = FALSE
    /\ dir = "none"
    /\ intact = {}
    /\ candidate = NoFile
    /\ at = 1
    /\ slicer = "none"
    /\ helper = "none"
    /\ facts = NoFile
    /\ digest = NoFile
    /\ size = 0
    /\ artifact = NoFile
    /\ edits = 0
    /\ tampers = 0

Continue(step) == pc' = step /\ UNCHANGED answer

Answer(status, stage, code) ==
    /\ pc' = "done"
    /\ answer' = [status |-> status, stage |-> stage, code |-> code]

NotReady(stage, code) == Answer("NOT_READY", stage, code)
Raise(stage, code) == Answer("raised", stage, code)

\* Mutant: rmdir() in place of rmtree(), which refuses a directory with files.
RemoveEmptyWorkspace ==
    IF dir = "present" /\ intact = {} /\ candidate = NoFile
    THEN dir' = "none" /\ UNCHANGED <<intact, candidate>>
    ELSE UNCHANGED workspace

\* A process of the slicer has files of the workspace open or writes them, or
\* somebody else had to do with it.
Obstructed == slicer = "running" \/ helper # "none" \/ tampers > 0

\* rmtree() raises at the first entry it cannot remove, and at once if the
\* workspace is no directory; the error is swallowed and the rest stays.
RemoveWorkspace ==
    IF dir = "present"
    THEN \/ /\ dir' = "none"
            /\ intact' = {}
            /\ candidate' = NoFile
         \/ /\ Obstructed
            /\ intact' \in SUBSET intact
            /\ candidate' \in {candidate, NoFile}
            /\ UNCHANGED dir
    ELSE UNCHANGED workspace

\* Every failing return and every mapped exception of execute() passes its
\* finally clause.
SliceFails(code) ==
    /\ NotReady("SLICING", code)
    /\ RemoveWorkspace
    /\ UNCHANGED <<source, at, evidence, bounds>>

-----------------------------------------------------------------------------
(* PreparationService *)

\* A path that is blank, a link, not a regular file, of another suffix or
\* beyond resolving is rejected whatever the file holds; a goal that is none,
\* or a path with a NUL, raises.
ReadModel ==
    /\ pc = "model"
    /\ \/ /\ model \in Versions
          /\ identity' = model
          /\ Continue("select")
       \/ /\ model = "missing"
          /\ NotReady("MODEL_INPUT", "model_missing")
          /\ UNCHANGED identity
       \/ /\ model = "locked"
          /\ NotReady("MODEL_INPUT", "model_hash_failed")
          /\ UNCHANGED identity
       \/ /\ NotReady("MODEL_INPUT", "model_rejected")
          /\ UNCHANGED identity
       \/ /\ Raise("MODEL_INPUT", "ValueError")
          /\ UNCHANGED identity
    /\ UNCHANGED <<model, touched, workspace, at, processes, evidence, bounds>>

\* An OSError of the profile directories is mapped neither here nor by
\* realize().
SelectSetup ==
    /\ pc = "select"
    /\ \/ Continue("realize")
       \/ NotReady("SETUP_SELECTION", "setup_selection_failed")
       \/ Raise("SETUP_SELECTION", "OSError")
    /\ UNCHANGED <<source, workspace, at, processes, evidence, bounds>>

RealizeSetup ==
    /\ pc = "realize"
    /\ \/ Continue("resolve")
       \/ NotReady("REALIZATION", "realization_failed")
       \/ Raise("REALIZATION", "OSError")
    /\ UNCHANGED <<source, workspace, at, processes, evidence, bounds>>

-----------------------------------------------------------------------------
(* SliceExecutor *)

ResolveSource ==
    /\ pc = "resolve"
    /\ \/ /\ model = "missing"
          /\ SliceFails("invalid_source_model")
       \/ /\ model # "missing"
          /\ Continue("read")
          /\ UNCHANGED <<source, workspace, at, evidence, bounds>>
    /\ UNCHANGED processes

\* Mutant: the digest is computed and not compared.
SourceReadable == model \in Versions

SourceVerified == model = identity

\* An error of this read is reported as the workspace's.
ReadSource ==
    /\ pc = "read"
    /\ \/ /\ model \notin Versions
          /\ SliceFails("workspace_creation_failed")
       \/ /\ model \in Versions
          /\ ~SourceVerified
          /\ SliceFails("source_model_identity_mismatch")
       \/ /\ SourceVerified
          /\ touched' = FALSE
          /\ Continue("mkdir")
          /\ UNCHANGED <<model, identity, workspace, at, evidence, bounds>>
    /\ UNCHANGED processes

MakeWorkspace ==
    /\ pc = "mkdir"
    /\ \/ SliceFails("workspace_creation_failed")
       \/ /\ dir' = "present"
          /\ Continue("write")
          /\ UNCHANGED <<source, intact, candidate, at, evidence, bounds>>
    /\ UNCHANGED processes

\* Files written before a failing one go with the workspace.
WriteConfigs ==
    /\ pc = "write"
    /\ \/ SliceFails("config_materialization_failed")
       \/ /\ dir = "present"
          /\ intact' = Kinds
          /\ at' = 1
          /\ Continue("verify")
          /\ UNCHANGED <<source, dir, candidate, evidence, bounds>>
    /\ UNCHANGED processes

\* Mutants: one file too many, one too few.
ConfigsPastLast == at <= Len(Configs)
ConfigsButLast == at < Len(Configs) - 1

MoreConfigs == at < Len(Configs)

VerifyConfig ==
    /\ pc = "verify"
    /\ \/ /\ Configs[at] \notin intact
          /\ SliceFails("config_verification_failed")
       \/ /\ Configs[at] \in intact
          /\ IF MoreConfigs
             THEN at' = at + 1 /\ Continue("verify")
             ELSE at' = 1 /\ Continue("launch")
          /\ UNCHANGED <<source, workspace, evidence, bounds>>
    /\ UNCHANGED processes

\* _slice_realized(): a slicer that is absent, unsupported or cannot be
\* started, a directory that is gone or holds a candidate, an error of these
\* checks; otherwise the process.
Launch ==
    /\ pc = "launch"
    /\ \/ /\ SliceFails("slicer_unavailable")
          /\ UNCHANGED processes
       \/ /\ dir # "present" \/ candidate # NoFile
          /\ SliceFails("slicer_process_failed")
          /\ UNCHANGED processes
       \/ /\ SliceFails("config_materialization_failed")
          /\ UNCHANGED processes
       \/ /\ dir = "present"
          /\ candidate = NoFile
          /\ slicer' = "running"
          /\ Continue("slice")
          /\ UNCHANGED <<source, workspace, at, helper, evidence, bounds>>

\* communicate() returns when the process has ended and nobody holds its pipes.
PipesOpen == slicer = "running" \/ helper = "piped"

\* Mutant: communicate() is called without its timeout.
NeverTimeOut == FALSE /\ UNCHANGED vars

\* What the kill achieves is not looked at: the whole tree, only the process
\* itself, or nothing (a taskkill that reports an error is taken for done).
TimeOut ==
    /\ pc = "slice"
    /\ PipesOpen
    /\ \/ /\ slicer = "running"
          /\ slicer' = "failed"
          /\ helper' \in {"none", helper}
       \/ UNCHANGED processes
    /\ Continue("drain")
    /\ UNCHANGED <<source, workspace, at, evidence, bounds>>

\* Mutant: nobody waits for the killed process.
DrainAtOnce ==
    /\ pc = "drain"
    /\ SliceFails("slicer_timeout")
    /\ UNCHANGED processes

\* The second communicate() has no timeout.
Drain ==
    /\ pc = "drain"
    /\ ~PipesOpen
    /\ SliceFails("slicer_timeout")
    /\ UNCHANGED processes

Collect ==
    /\ pc = "slice"
    /\ ~PipesOpen
    /\ \/ /\ slicer # "succeeded"
          /\ SliceFails("slicer_process_failed")
       \/ /\ slicer = "succeeded"
          /\ SliceFails("config_materialization_failed")
       \/ /\ slicer = "succeeded"
          /\ candidate = NoFile
          /\ SliceFails("slice_output_missing")
       \/ /\ slicer = "succeeded"
          /\ candidate # NoFile
          /\ Continue("validate")
          /\ UNCHANGED <<source, workspace, at, evidence, bounds>>
    /\ UNCHANGED processes

ValidateCandidate ==
    /\ pc = "validate"
    /\ \/ /\ ~WellFormed(candidate)
          /\ SliceFails("slice_output_invalid")
       \/ /\ WellFormed(candidate)
          /\ Continue("parse")
          /\ UNCHANGED <<source, workspace, at, evidence, bounds>>
    /\ UNCHANGED processes

\* parse_gcode() may fail on a file it cannot read, and on the comments of one
\* it can.
ParseFacts ==
    /\ pc = "parse"
    /\ \/ SliceFails("slice_output_invalid")
       \/ /\ Readable(candidate)
          /\ ~HasLayers(candidate)
          /\ SliceFails("slice_facts_invalid")
       \/ /\ HasLayers(candidate)
          /\ facts' = candidate
          /\ Continue("identify")
          /\ UNCHANGED <<source, workspace, at, digest, size, artifact, bounds>>
    /\ UNCHANGED processes

IdentifyCandidate ==
    /\ pc = "identify"
    /\ \/ /\ ~Readable(candidate)
          /\ SliceFails("candidate_artifact_identity_failed")
       \/ /\ Readable(candidate)
          /\ digest' = candidate
          /\ Continue("measure")
          /\ UNCHANGED <<source, workspace, at, facts, size, artifact, bounds>>
    /\ UNCHANGED processes

\* stat() of the candidate; a size of zero is refused by CandidateSliceArtifact.
\* The success keeps the workspace.
MeasureCandidate ==
    /\ pc = "measure"
    /\ \/ /\ candidate = NoFile \/ Size(candidate) = 0
          /\ SliceFails("candidate_artifact_identity_failed")
       \/ /\ candidate # NoFile
          /\ Size(candidate) > 0
          /\ size' = Size(candidate)
          /\ Continue("workspace")
          /\ UNCHANGED <<source, workspace, at, facts, digest, artifact, bounds>>
    /\ UNCHANGED processes

-----------------------------------------------------------------------------
(* SliceFinalizer: it deletes nothing *)

VerificationFails(code) ==
    /\ NotReady("FINAL_VERIFICATION", code)
    /\ UNCHANGED <<at, artifact>>

CheckWorkspace ==
    /\ pc = "workspace"
    /\ \/ dir = "present" /\ Continue("candidate") /\ UNCHANGED <<at, artifact>>
       \/ dir = "none" /\ VerificationFails("workspace_missing")
       \/ dir = "replaced" /\ VerificationFails("workspace_not_directory")
    /\ UNCHANGED <<source, workspace, processes, facts, digest, size, bounds>>

\* Mutant: the size is compared, the digest is not.
SizeMismatch ==
    CASE candidate = NoFile -> "candidate_missing"
      [] candidate.form = "locked" -> "candidate_not_file"
      [] Size(candidate) = 0 -> "candidate_empty"
      [] Size(candidate) # size -> "candidate_size_mismatch"
      [] OTHER -> "none"

\* The fresh read passes only with the recorded size and the recorded digest.
CandidateMismatch ==
    CASE candidate = NoFile -> "candidate_missing"
      [] candidate.form = "locked" -> "candidate_not_file"
      [] Size(candidate) = 0 -> "candidate_empty"
      [] Size(candidate) # size -> "candidate_size_mismatch"
      [] candidate # digest -> "candidate_hash_mismatch"
      [] OTHER -> "none"

RereadCandidate ==
    /\ pc = "candidate"
    /\ \/ /\ CandidateMismatch # "none"
          /\ VerificationFails(CandidateMismatch)
       \/ /\ CandidateMismatch = "none"
          /\ artifact' = candidate
          /\ at' = 1
          /\ Continue("configs")
    /\ UNCHANGED <<source, workspace, processes, facts, digest, size, bounds>>

\* "config_differs" stands for the missing, not_file, invalid and
\* identity_mismatch codes of each kind.
RereadConfig ==
    /\ pc = "configs"
    /\ \/ /\ Configs[at] \notin intact
          /\ VerificationFails("config_differs")
       \/ /\ Configs[at] \in intact
          /\ MoreConfigs
          /\ at' = at + 1
          /\ Continue("configs")
          /\ UNCHANGED artifact
       \/ /\ Configs[at] \in intact
          /\ ~MoreConfigs
          /\ Answer("READY", "FINAL_VERIFICATION", "none")
          /\ UNCHANGED <<at, artifact>>
    /\ UNCHANGED <<source, workspace, processes, facts, digest, size, bounds>>

\* Only _FinalizationFailure is caught: an OSError of lstat() or exists()
\* other than a missing file, or of resolve() of the workspace, ends prepare().
FinalizerRaises ==
    /\ pc \in Finalizing
    /\ Raise("FINAL_VERIFICATION", "OSError")
    /\ UNCHANGED <<source, workspace, at, processes, evidence, bounds>>

-----------------------------------------------------------------------------
(* The slicer, its helper and everybody else, until the request is answered *)

\* The slicer reads the model and the configs and writes what it makes of them.
SlicerWrites ==
    /\ pc # "done"
    /\ slicer = "running" \/ helper # "none"
    /\ dir = "present"
    /\ model \in Versions
    /\ \E form \in Forms :
          candidate' = [src |-> model, form |-> form, realized |-> intact = Kinds]
    /\ UNCHANGED <<pc, answer, source, dir, intact, at, processes, evidence, bounds>>

SlicerStartsHelper ==
    /\ pc # "done"
    /\ slicer = "running"
    /\ helper = "none"
    /\ helper' \in {"piped", "detached"}
    /\ UNCHANGED <<pc, answer, source, workspace, at, slicer, evidence, bounds>>

SlicerEnds ==
    /\ pc # "done"
    /\ slicer = "running"
    /\ slicer' \in {"succeeded", "failed"}
    /\ UNCHANGED <<pc, answer, source, workspace, at, helper, evidence, bounds>>

HelperEnds ==
    /\ pc # "done"
    /\ helper # "none"
    /\ helper' = "none"
    /\ UNCHANGED <<pc, answer, source, workspace, at, slicer, evidence, bounds>>

EditModel ==
    /\ pc # "done"
    /\ edits < MaxEdits
    /\ edits' = edits + 1
    /\ model' \in (Versions \cup {"missing", "locked"}) \ {model}
    /\ touched' = TRUE
    /\ UNCHANGED <<pc, answer, identity, workspace, at, processes, evidence, tampers>>

\* A file or the directory is replaced or removed, or somebody holds one open
\* (or the disk fails), which only its removal feels.  Nobody else knows how to
\* put a realized configuration back.
Tamper ==
    /\ pc # "done"
    /\ tampers < MaxTampers
    /\ tampers' = tampers + 1
    /\ dir = "present"
    /\ \/ /\ candidate' \in (Foreign \cup {NoFile}) \ {candidate}
          /\ UNCHANGED <<dir, intact>>
       \/ /\ \E kind \in intact : intact' = intact \ {kind}
          /\ UNCHANGED <<dir, candidate>>
       \/ /\ dir' \in {"none", "replaced"}
          /\ intact' = {}
          /\ candidate' = NoFile
       \/ UNCHANGED workspace
    /\ UNCHANGED <<pc, answer, source, at, processes, evidence, edits>>

-----------------------------------------------------------------------------

Service ==
    \/ ReadModel \/ SelectSetup \/ RealizeSetup
    \/ ResolveSource \/ ReadSource \/ MakeWorkspace \/ WriteConfigs \/ VerifyConfig
    \/ Launch \/ TimeOut \/ Drain \/ Collect
    \/ ValidateCandidate \/ ParseFacts \/ IdentifyCandidate \/ MeasureCandidate
    \/ CheckWorkspace \/ RereadCandidate \/ RereadConfig \/ FinalizerRaises

Environment ==
    SlicerWrites \/ SlicerStartsHelper \/ SlicerEnds \/ HelperEnds \/ EditModel \/ Tamper

Next == Service \/ Environment

Spec == Init /\ [][Next]_vars

\* The service goes on, and a timeout passes; nothing is asked of the slicer,
\* of the kill or of anybody else.
FairSpec == Spec /\ WF_vars(Service)

-----------------------------------------------------------------------------
(* Properties *)

TypeOK ==
    /\ pc \in Preparing \cup BeforeWorkspace \cup InWorkspace \cup Finalizing \cup {"done"}
    /\ answer \in Answers
    /\ model \in Versions \cup {"missing", "locked"}
    /\ identity \in Versions \cup {"none"}
    /\ touched \in BOOLEAN
    /\ dir \in {"none", "present", "replaced"}
    /\ intact \subseteq Kinds
    /\ candidate \in Files \cup {NoFile}
    /\ at \in 1..3
    /\ slicer \in {"none", "running", "succeeded", "failed"}
    /\ helper \in {"none", "piped", "detached"}
    /\ facts \in Files \cup {NoFile}
    /\ digest \in Files \cup {NoFile}
    /\ size \in 0..2
    /\ artifact \in Files \cup {NoFile}
    /\ edits \in Nat
    /\ tampers \in Nat

Ready == answer.status = "READY"

\* The model's digest is taken when the request arrives and checked when
\* slicing begins, and the slicer reads the file later still.  Unless the file
\* is edited after that check, what the slicer made and READY hands over was
\* made from the model whose digest READY names.
SlicedFromIdentity ==
    Ready /\ artifact.src # "foreign" /\ ~touched => artifact.src = identity

\* The configs are verified before the slicer starts and again at the end,
\* while anything may change them in between: an artifact of the slicer that
\* is READY was made when all of them were the realized ones.
SlicedWithRealizedConfigs ==
    Ready /\ artifact.src # "foreign" => artifact.realized

\* execute() owns the workspace until it succeeds.  An exit that fails, or comes
\* before there is one, leaves none, unless a process of the slicer outlives it
\* or somebody else had a hand in it: its own slicer never stops the removal.
\* After a success it is there to the end, and only others make it disappear.
WorkspaceOwned ==
    /\ pc = "done" /\ answer.stage # "FINAL_VERIFICATION" /\ helper = "none" /\ tampers = 0
       => dir = "none"
    /\ \/ pc \in Finalizing
       \/ pc = "done" /\ answer.stage = "FINAL_VERIFICATION"
       => dir = "present" \/ tampers > 0

\* No path leaves run_cli(), and so none reads, removes or hands over the
\* workspace, while the slicer's process runs or its pipes are held.
SlicerStopsFirst == PipesOpen => pc \in {"slice", "drain"}

\* READY delivers exactly the artifact the executor identified, a request that
\* is not READY names the stage it was in, and slicing always answers.
StageOf(step) ==
    CASE step = "model" -> "MODEL_INPUT"
      [] step = "select" -> "SETUP_SELECTION"
      [] step = "realize" -> "REALIZATION"
      [] step \in BeforeWorkspace \cup InWorkspace -> "SLICING"
      [] step \in Finalizing -> "FINAL_VERIFICATION"
      [] OTHER -> answer.stage

Contract == INSTANCE PreparationContract WITH
    Artifacts <- Files,
    None <- NoFile,
    stage <- StageOf(pc),
    status <- answer.status,
    sealed <- IF StageOf(pc) = "FINAL_VERIFICATION" THEN digest ELSE NoFile,
    delivered <- IF Ready THEN artifact ELSE NoFile

ImplementsContract == Contract!Spec

\* prepare() ends, except where the process outlives its kill and run_cli()
\* waits for it.
RequestsEnd == <>[](pc = "done" \/ (pc = "drain" /\ PipesOpen))

\* run_cli(): "Run *command* with a hard timeout, killing the process tree".
HardTimeout == <>(pc = "done")

\* "Fresh size plus exact SHA equality proves the reread bytes are the
\* I3-parsed bytes, so frozen facts are reused."
FactsOfArtifact == Ready => facts = artifact
=============================================================================
