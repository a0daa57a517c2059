-------------------------- MODULE PreparationProofs --------------------------
(***************************************************************************)
(* Preparation for every set of model contents and any number of edits and *)
(* foreign changes: its inductive invariant, the invariants that follow,   *)
(* and that it implements PreparationContract.                             *)
(***************************************************************************)
EXTENDS Preparation, TLAPS

\* A step that has no workspace yet has no directory and no candidate; one
\* that has it finds it, unless somebody else took it away.
WorkspaceInv ==
    /\ pc \in Preparing \cup BeforeWorkspace => dir = "none" /\ candidate = NoFile
    /\ pc \in InWorkspace \cup Finalizing => dir = "present" \/ tampers > 0
    /\ dir = "replaced" => tampers > 0
    /\ pc = "write" => candidate = NoFile \/ candidate.src = "foreign"
    /\ pc \notin {"slice", "drain"} => ~PipesOpen
    /\ pc \in Preparing \cup BeforeWorkspace \cup {"write", "verify", "launch"} => helper = "none"

\* The answer is there when the request is over, with the stage of its last
\* step.
AnswerInv ==
    /\ pc # "done" <=> answer.status = "none"
    /\ pc = "done" => /\ answer.stage = "FINAL_VERIFICATION" => dir = "present" \/ tampers > 0
                      /\ answer.stage # "FINAL_VERIFICATION" /\ helper = "none" /\ tampers = 0
                         => dir = "none"
    /\ Ready => answer.stage = "FINAL_VERIFICATION"

\* A file the slicer made stems from the identified model, if nobody edited it.
Faithful(file) == file = NoFile \/ file.src = "foreign" \/ touched \/ file.src = identity

SourceInv ==
    /\ pc \in {"mkdir"} \cup InWorkspace \cup Finalizing => touched \/ model = identity
    /\ Faithful(candidate)
    /\ Faithful(artifact)
    /\ pc \in Preparing \cup BeforeWorkspace => artifact = NoFile

\* A file made from other configs betrays itself: one config still differs.
Explained(file, differing) ==
    file = NoFile \/ file.src = "foreign" \/ file.realized \/ differing # {}

RealizedInv ==
    /\ Explained(candidate, Kinds \ intact)
    /\ pc = "configs" => Explained(artifact, {i \in at..3 : Configs[i] \notin intact})
    /\ Ready => Explained(artifact, {})

\* The executor's record and what the finalizer has verified of it.
EvidenceInv ==
    /\ pc \in {"measure"} \cup Finalizing => digest \in Files
    /\ pc = "configs" \/ Ready => artifact = digest /\ artifact \in Files

IInv ==
    /\ TypeOK
    /\ WorkspaceInv
    /\ AnswerInv
    /\ SourceInv
    /\ RealizedInv
    /\ EvidenceInv

-----------------------------------------------------------------------------
(* Proofs *)

USE DEF source, workspace, processes, evidence, bounds

\* Each action leaves every variable in its type.
LEMMA StepType == TypeOK /\ [Next]_vars => TypeOK'
<1> SUFFICES ASSUME TypeOK, [Next]_vars PROVE TypeOK'
  OBVIOUS
<1> USE DEF TypeOK, Answers, Stages, Codes, ModelCodes, SetupCodes, SliceCodes, FinalCodes,
           Preparing, BeforeWorkspace, InWorkspace, Finalizing
<1>1. CASE ReadModel \/ SelectSetup \/ RealizeSetup
  BY <1>1 DEF ReadModel, NotReady, Raise, Answer, Continue, SelectSetup, RealizeSetup
<1>2. CASE ResolveSource \/ MakeWorkspace \/ WriteConfigs
  BY <1>2 DEF ResolveSource, SliceFails, RemoveWorkspace, NotReady, Answer,
              Continue, MakeWorkspace, WriteConfigs, Configs
<1>3. CASE ReadSource
  <2>1. CASE SourceVerified
    BY <1>3, <2>1 DEF ReadSource, SliceFails, RemoveWorkspace, NotReady, Answer, SourceVerified, Continue
  <2>2. CASE ~SourceVerified
    BY <1>3, <2>2 DEF ReadSource, SliceFails, RemoveWorkspace, NotReady, Answer
  <2> QED
    BY <2>1, <2>2
<1>4. CASE VerifyConfig
  BY <1>4 DEF VerifyConfig, SliceFails, RemoveWorkspace, NotReady, Answer,
              MoreConfigs, Configs, Continue
<1>5. CASE Launch
  BY <1>5 DEF Launch, SliceFails, RemoveWorkspace, NotReady, Answer, Continue
<1>6. CASE TimeOut \/ Drain \/ Collect
  BY <1>6 DEF TimeOut, PipesOpen, Continue, Drain, SliceFails, RemoveWorkspace,
              NotReady, Answer, Collect
<1>7. CASE ValidateCandidate \/ ParseFacts
  BY <1>7 DEF ValidateCandidate, SliceFails, RemoveWorkspace, NotReady, Answer,
              WellFormed, Continue, ParseFacts, Readable, HasLayers
<1>8. CASE IdentifyCandidate \/ MeasureCandidate
  BY <1>8 DEF IdentifyCandidate, SliceFails, RemoveWorkspace, NotReady, Answer,
              Readable, Continue, MeasureCandidate, Size
<1>9. CASE CheckWorkspace \/ FinalizerRaises
  BY <1>9 DEF CheckWorkspace, VerificationFails, NotReady, Raise, Answer, Continue,
              FinalizerRaises
<1>10. CASE RereadCandidate
  BY <1>10 DEF RereadCandidate, VerificationFails, NotReady, Answer,
               CandidateMismatch, Configs, Continue
<1>11. CASE RereadConfig
  BY <1>11 DEF RereadConfig, MoreConfigs, Configs, Answer, VerificationFails,
               NotReady, Continue
<1>12. CASE SlicerWrites
  BY <1>12 DEF SlicerWrites, Files, Sliced, Kinds
<1>13. CASE SlicerStartsHelper \/ SlicerEnds \/ HelperEnds
  BY <1>13 DEF SlicerStartsHelper, SlicerEnds, HelperEnds
<1>14. CASE EditModel
  BY <1>14 DEF EditModel
<1>15. CASE Tamper
  BY <1>15 DEF Tamper, Files
<1>16. CASE UNCHANGED vars
  BY <1>16 DEF vars
<1> QED
  BY <1>1, <1>2, <1>3, <1>4, <1>5, <1>6, <1>7, <1>8, <1>9, <1>10, <1>11,
     <1>12, <1>13, <1>14, <1>15, <1>16 DEF Next, Service, Environment

\* The directory and the candidate come and go only as execute() has it; the
\* pipes are held in run_cli() only.
LEMMA StepWorkspace == TypeOK /\ WorkspaceInv /\ [Next]_vars => WorkspaceInv'
<1> SUFFICES ASSUME TypeOK, WorkspaceInv, [Next]_vars PROVE WorkspaceInv'
  OBVIOUS
<1> USE DEF TypeOK, WorkspaceInv, PipesOpen, Preparing, BeforeWorkspace, InWorkspace, Finalizing
<1>1. CASE ReadModel \/ SelectSetup \/ RealizeSetup
  BY <1>1 DEF ReadModel, NotReady, Raise, Answer, Continue, SelectSetup, RealizeSetup
<1>2. CASE ResolveSource \/ MakeWorkspace \/ WriteConfigs
  BY <1>2 DEF ResolveSource, SliceFails, RemoveWorkspace, NotReady, Answer,
              Continue, MakeWorkspace, WriteConfigs, Configs
<1>3. CASE ReadSource
  BY <1>3 DEF ReadSource, SliceFails, RemoveWorkspace, NotReady, Answer,
              SourceVerified, Continue
<1>4. CASE VerifyConfig
  BY <1>4 DEF VerifyConfig, SliceFails, RemoveWorkspace, NotReady, Answer,
              MoreConfigs, Configs, Continue
<1>5. CASE Launch
  BY <1>5 DEF Launch, SliceFails, RemoveWorkspace, NotReady, Answer, Continue
<1>6. CASE TimeOut \/ Drain \/ Collect
  BY <1>6 DEF TimeOut, PipesOpen, Continue, Drain, SliceFails, RemoveWorkspace,
              NotReady, Answer, Collect
<1>7. CASE ValidateCandidate \/ ParseFacts
  BY <1>7 DEF ValidateCandidate, SliceFails, RemoveWorkspace, NotReady, Answer,
              WellFormed, Continue, ParseFacts, Readable, HasLayers
<1>8. CASE IdentifyCandidate \/ MeasureCandidate
  BY <1>8 DEF IdentifyCandidate, SliceFails, RemoveWorkspace, NotReady, Answer,
              Readable, Continue, MeasureCandidate, Size
<1>9. CASE CheckWorkspace \/ FinalizerRaises
  BY <1>9 DEF CheckWorkspace, VerificationFails, NotReady, Raise, Answer, Continue,
              FinalizerRaises
<1>10. CASE RereadCandidate
  BY <1>10 DEF RereadCandidate, VerificationFails, NotReady, Answer,
               CandidateMismatch, Configs, Continue
<1>11. CASE RereadConfig
  BY <1>11 DEF RereadConfig, MoreConfigs, Configs, Answer, VerificationFails,
               NotReady, Continue
<1>12. CASE SlicerWrites
  BY <1>12 DEF SlicerWrites, Files, Sliced, Kinds
<1>13. CASE SlicerStartsHelper \/ SlicerEnds \/ HelperEnds
  BY <1>13 DEF SlicerStartsHelper, SlicerEnds, HelperEnds
<1>14. CASE EditModel
  BY <1>14 DEF EditModel
<1>15. CASE Tamper
  <2>1. \A file \in Foreign : file.src = "foreign"
    BY DEF Foreign
  <2> QED
    BY <1>15, <2>1 DEF Tamper
<1>16. CASE UNCHANGED vars
  BY <1>16 DEF vars
<1> QED
  BY <1>1, <1>2, <1>3, <1>4, <1>5, <1>6, <1>7, <1>8, <1>9, <1>10, <1>11,
     <1>12, <1>13, <1>14, <1>15, <1>16 DEF Next, Service, Environment

\* The answer is set by the last step, after the workspace's fate is decided.
LEMMA StepAnswer == TypeOK /\ WorkspaceInv /\ AnswerInv /\ [Next]_vars => AnswerInv'
<1> SUFFICES ASSUME TypeOK, WorkspaceInv, AnswerInv, [Next]_vars PROVE AnswerInv'
  OBVIOUS
<1> USE DEF TypeOK, WorkspaceInv, AnswerInv, Obstructed, PipesOpen, Ready, Preparing,
           BeforeWorkspace, InWorkspace, Finalizing
<1>1. CASE ReadModel \/ SelectSetup \/ RealizeSetup
  BY <1>1 DEF ReadModel, NotReady, Raise, Answer, Continue, SelectSetup, RealizeSetup
<1>2. CASE ResolveSource \/ MakeWorkspace \/ WriteConfigs
  BY <1>2 DEF ResolveSource, SliceFails, RemoveWorkspace, NotReady, Answer,
              Continue, MakeWorkspace, WriteConfigs, Configs
<1>3. CASE ReadSource
  BY <1>3 DEF ReadSource, SliceFails, RemoveWorkspace, NotReady, Answer,
              SourceVerified, Continue
<1>4. CASE VerifyConfig
  BY <1>4 DEF VerifyConfig, SliceFails, RemoveWorkspace, NotReady, Answer,
              MoreConfigs, Configs, Continue
<1>5. CASE Launch
  BY <1>5 DEF Launch, SliceFails, RemoveWorkspace, NotReady, Answer, Continue
<1>6. CASE TimeOut \/ Drain \/ Collect
  BY <1>6 DEF TimeOut, PipesOpen, Continue, Drain, SliceFails, RemoveWorkspace,
              NotReady, Answer, Collect
<1>7. CASE ValidateCandidate \/ ParseFacts
  BY <1>7 DEF ValidateCandidate, SliceFails, RemoveWorkspace, NotReady, Answer,
              WellFormed, Continue, ParseFacts, Readable, HasLayers
<1>8. CASE IdentifyCandidate \/ MeasureCandidate
  BY <1>8 DEF IdentifyCandidate, SliceFails, RemoveWorkspace, NotReady, Answer,
              Readable, Continue, MeasureCandidate, Size
<1>9. CASE CheckWorkspace \/ FinalizerRaises
  BY <1>9 DEF CheckWorkspace, VerificationFails, NotReady, Raise, Answer, Continue,
              FinalizerRaises
<1>10. CASE RereadCandidate
  BY <1>10 DEF RereadCandidate, VerificationFails, NotReady, Answer,
               CandidateMismatch, Configs, Continue
<1>11. CASE RereadConfig
  BY <1>11 DEF RereadConfig, MoreConfigs, Configs, Answer, VerificationFails,
               NotReady, Continue
<1>12. CASE SlicerWrites
  BY <1>12 DEF SlicerWrites, Files, Sliced, Kinds
<1>13. CASE SlicerStartsHelper \/ SlicerEnds \/ HelperEnds
  BY <1>13 DEF SlicerStartsHelper, SlicerEnds, HelperEnds
<1>14. CASE EditModel
  BY <1>14 DEF EditModel
<1>15. CASE Tamper
  BY <1>15 DEF Tamper, Files
<1>16. CASE UNCHANGED vars
  BY <1>16 DEF vars
<1> QED
  BY <1>1, <1>2, <1>3, <1>4, <1>5, <1>6, <1>7, <1>8, <1>9, <1>10, <1>11,
     <1>12, <1>13, <1>14, <1>15, <1>16 DEF Next, Service, Environment

\* What the slicer writes comes from the model of that moment, which is the
\* identified one unless it was edited after ReadSource.
LEMMA StepSource == TypeOK /\ WorkspaceInv /\ SourceInv /\ [Next]_vars => SourceInv'
<1> SUFFICES ASSUME TypeOK, WorkspaceInv, SourceInv, [Next]_vars PROVE SourceInv'
  OBVIOUS
<1> USE DEF TypeOK, WorkspaceInv, SourceInv, Faithful, PipesOpen,
           Preparing, BeforeWorkspace, InWorkspace, Finalizing
<1>1. CASE ReadModel \/ SelectSetup \/ RealizeSetup
  BY <1>1 DEF ReadModel, NotReady, Raise, Answer, Continue, SelectSetup, RealizeSetup
<1>2. CASE ResolveSource \/ MakeWorkspace \/ WriteConfigs
  BY <1>2 DEF ResolveSource, SliceFails, RemoveWorkspace, NotReady, Answer,
              Continue, MakeWorkspace, WriteConfigs, Configs
<1>3. CASE ReadSource
  BY <1>3 DEF ReadSource, SliceFails, RemoveWorkspace, NotReady, Answer,
              SourceVerified, Continue
<1>4. CASE VerifyConfig
  BY <1>4 DEF VerifyConfig, SliceFails, RemoveWorkspace, NotReady, Answer,
              MoreConfigs, Configs, Continue
<1>5. CASE Launch
  BY <1>5 DEF Launch, SliceFails, RemoveWorkspace, NotReady, Answer, Continue
<1>6. CASE TimeOut \/ Drain \/ Collect
  BY <1>6 DEF TimeOut, PipesOpen, Continue, Drain, SliceFails, RemoveWorkspace,
              NotReady, Answer, Collect
<1>7. CASE ValidateCandidate \/ ParseFacts
  BY <1>7 DEF ValidateCandidate, SliceFails, RemoveWorkspace, NotReady, Answer,
              WellFormed, Continue, ParseFacts, Readable, HasLayers
<1>8. CASE IdentifyCandidate \/ MeasureCandidate
  BY <1>8 DEF IdentifyCandidate, SliceFails, RemoveWorkspace, NotReady, Answer,
              Readable, Continue, MeasureCandidate, Size
<1>9. CASE CheckWorkspace \/ FinalizerRaises
  BY <1>9 DEF CheckWorkspace, VerificationFails, NotReady, Raise, Answer, Continue,
              FinalizerRaises
<1>10. CASE RereadCandidate
  BY <1>10 DEF RereadCandidate, VerificationFails, NotReady, Answer,
               CandidateMismatch, Configs, Continue
<1>11. CASE RereadConfig
  BY <1>11 DEF RereadConfig, MoreConfigs, Configs, Answer, VerificationFails,
               NotReady, Continue
<1>12. CASE SlicerWrites
  BY <1>12 DEF SlicerWrites, Files, Sliced, Kinds
<1>13. CASE SlicerStartsHelper \/ SlicerEnds \/ HelperEnds
  BY <1>13 DEF SlicerStartsHelper, SlicerEnds, HelperEnds
<1>14. CASE EditModel
  BY <1>14 DEF EditModel
<1>15. CASE Tamper
  BY <1>15 DEF Tamper, Files, Foreign
<1>16. CASE UNCHANGED vars
  BY <1>16 DEF vars
<1> QED
  BY <1>1, <1>2, <1>3, <1>4, <1>5, <1>6, <1>7, <1>8, <1>9, <1>10, <1>11,
     <1>12, <1>13, <1>14, <1>15, <1>16 DEF Next, Service, Environment

\* A file written from other configs keeps one config different: nobody puts it
\* back, and the finalizer's loop has that one still before it.
LEMMA StepRealized == TypeOK /\ WorkspaceInv /\ AnswerInv /\ RealizedInv /\ [Next]_vars => RealizedInv'
<1> SUFFICES ASSUME TypeOK, WorkspaceInv, AnswerInv, RealizedInv, [Next]_vars PROVE RealizedInv'
  OBVIOUS
<1> USE DEF TypeOK, WorkspaceInv, AnswerInv, RealizedInv, Explained, Ready,
           Preparing, BeforeWorkspace, InWorkspace, Finalizing
<1>1. CASE ReadModel \/ SelectSetup \/ RealizeSetup
  BY <1>1 DEF ReadModel, NotReady, Raise, Answer, Continue, SelectSetup, RealizeSetup
<1>2. CASE ResolveSource \/ MakeWorkspace \/ WriteConfigs
  BY <1>2 DEF ResolveSource, SliceFails, RemoveWorkspace, NotReady, Answer,
              Continue, MakeWorkspace, WriteConfigs, Configs
<1>3. CASE ReadSource
  BY <1>3 DEF ReadSource, SliceFails, RemoveWorkspace, NotReady, Answer,
              SourceVerified, Continue
<1>4. CASE VerifyConfig
  BY <1>4 DEF VerifyConfig, SliceFails, RemoveWorkspace, NotReady, Answer,
              MoreConfigs, Configs, Continue
<1>5. CASE Launch
  BY <1>5 DEF Launch, SliceFails, RemoveWorkspace, NotReady, Answer, Continue
<1>6. CASE TimeOut \/ Drain \/ Collect
  BY <1>6 DEF TimeOut, PipesOpen, Continue, Drain, SliceFails, RemoveWorkspace,
              NotReady, Answer, Collect
<1>7. CASE ValidateCandidate \/ ParseFacts
  BY <1>7 DEF ValidateCandidate, SliceFails, RemoveWorkspace, NotReady, Answer,
              WellFormed, Continue, ParseFacts, Readable, HasLayers
<1>8. CASE IdentifyCandidate \/ MeasureCandidate
  BY <1>8 DEF IdentifyCandidate, SliceFails, RemoveWorkspace, NotReady, Answer,
              Readable, Continue, MeasureCandidate, Size
<1>9. CASE CheckWorkspace \/ FinalizerRaises
  BY <1>9 DEF CheckWorkspace, VerificationFails, NotReady, Raise, Answer, Continue,
              FinalizerRaises
<1>10. CASE RereadCandidate
  <2>1. Kinds \ intact # {} => {i \in 1..3 : Configs[i] \notin intact} # {}
    BY DEF Kinds
  <2>2. CASE CandidateMismatch = "none"
    BY <1>10, <2>1, <2>2 DEF RereadCandidate, VerificationFails, NotReady, Answer, Continue
  <2>3. CASE CandidateMismatch # "none"
    BY <1>10, <2>3 DEF RereadCandidate, VerificationFails, NotReady, Answer
  <2> QED
    BY <2>2, <2>3
<1>11. CASE RereadConfig
  BY <1>11 DEF RereadConfig, MoreConfigs, Configs, Answer, VerificationFails,
               NotReady, Continue
<1>12. CASE SlicerWrites
  <2>1. PICK form \in Forms : candidate' = [src |-> model, form |-> form, realized |-> intact = Kinds]
    BY <1>12 DEF SlicerWrites
  <2>2. intact # Kinds => Kinds \ intact # {}
    OBVIOUS
  <2>3. Explained(candidate', Kinds \ intact)
    BY <2>1, <2>2
  <2> QED
    BY <1>12, <2>3 DEF SlicerWrites
<1>13. CASE SlicerStartsHelper \/ SlicerEnds \/ HelperEnds
  BY <1>13 DEF SlicerStartsHelper, SlicerEnds, HelperEnds
<1>14. CASE EditModel
  BY <1>14 DEF EditModel
<1>15. CASE Tamper
  BY <1>15 DEF Tamper, Files, Foreign
<1>16. CASE UNCHANGED vars
  BY <1>16 DEF vars
<1> QED
  BY <1>1, <1>2, <1>3, <1>4, <1>5, <1>6, <1>7, <1>8, <1>9, <1>10, <1>11,
     <1>12, <1>13, <1>14, <1>15, <1>16 DEF Next, Service, Environment

\* The candidate that passes its fresh read is the one the executor identified.
LEMMA StepEvidence == TypeOK /\ AnswerInv /\ EvidenceInv /\ [Next]_vars => EvidenceInv'
<1> SUFFICES ASSUME TypeOK, AnswerInv, EvidenceInv, [Next]_vars PROVE EvidenceInv'
  OBVIOUS
<1> USE DEF TypeOK, AnswerInv, EvidenceInv, Ready, Preparing, BeforeWorkspace, InWorkspace, Finalizing
<1>1. CASE ReadModel \/ SelectSetup \/ RealizeSetup
  BY <1>1 DEF ReadModel, NotReady, Raise, Answer, Continue, SelectSetup, RealizeSetup
<1>2. CASE ResolveSource \/ MakeWorkspace \/ WriteConfigs
  BY <1>2 DEF ResolveSource, SliceFails, RemoveWorkspace, NotReady, Answer,
              Continue, MakeWorkspace, WriteConfigs, Configs
<1>3. CASE ReadSource
  BY <1>3 DEF ReadSource, SliceFails, RemoveWorkspace, NotReady, Answer,
              SourceVerified, Continue
<1>4. CASE VerifyConfig
  BY <1>4 DEF VerifyConfig, SliceFails, RemoveWorkspace, NotReady, Answer,
              MoreConfigs, Configs, Continue
<1>5. CASE Launch
  BY <1>5 DEF Launch, SliceFails, RemoveWorkspace, NotReady, Answer, Continue
<1>6. CASE TimeOut \/ Drain \/ Collect
  BY <1>6 DEF TimeOut, PipesOpen, Continue, Drain, SliceFails, RemoveWorkspace,
              NotReady, Answer, Collect
<1>7. CASE ValidateCandidate \/ ParseFacts
  BY <1>7 DEF ValidateCandidate, SliceFails, RemoveWorkspace, NotReady, Answer,
              WellFormed, Continue, ParseFacts, Readable, HasLayers
<1>8. CASE IdentifyCandidate \/ MeasureCandidate
  BY <1>8 DEF IdentifyCandidate, SliceFails, RemoveWorkspace, NotReady, Answer,
              Readable, Continue, NoFile, MeasureCandidate, Size
<1>9. CASE CheckWorkspace \/ FinalizerRaises
  BY <1>9 DEF CheckWorkspace, VerificationFails, NotReady, Raise, Answer, Continue,
              FinalizerRaises
<1>10. CASE RereadCandidate
  BY <1>10 DEF RereadCandidate, VerificationFails, NotReady, Answer,
               CandidateMismatch, Configs, Continue
<1>11. CASE RereadConfig
  BY <1>11 DEF RereadConfig, MoreConfigs, Configs, Answer, VerificationFails,
               NotReady, Continue
<1>12. CASE SlicerWrites
  BY <1>12 DEF SlicerWrites, Files, Sliced, Kinds
<1>13. CASE SlicerStartsHelper \/ SlicerEnds \/ HelperEnds
  BY <1>13 DEF SlicerStartsHelper, SlicerEnds, HelperEnds
<1>14. CASE EditModel
  BY <1>14 DEF EditModel
<1>15. CASE Tamper
  BY <1>15 DEF Tamper, Files
<1>16. CASE UNCHANGED vars
  BY <1>16 DEF vars
<1> QED
  BY <1>1, <1>2, <1>3, <1>4, <1>5, <1>6, <1>7, <1>8, <1>9, <1>10, <1>11,
     <1>12, <1>13, <1>14, <1>15, <1>16 DEF Next, Service, Environment

\* The value of an absent file is not one of a file.
LEMMA NoFileIsNoFile == NoFile \notin Files
<1>1. \A file \in Files : file.form \in Forms \cup {"locked"}
  BY DEF Files, Sliced, Foreign
<1> QED
  BY <1>1 DEF NoFile, Forms

\* The inductive invariant holds in every reachable state.
LEMMA Invariant == Spec => []IInv
<1>1. Init => IInv
  <2> SUFFICES ASSUME Init PROVE IInv
    OBVIOUS
  <2>1. NoAnswer \in Answers
    BY DEF NoAnswer, Answers, Codes
  <2>2. pc \in Preparing /\ dir = "none" /\ intact \subseteq Kinds /\ answer \in Answers
    BY <2>1 DEF Init, Preparing
  <2>3. {candidate, facts, digest, artifact} \subseteq Files \cup {NoFile}
    BY DEF Init
  <2>4. at \in 1..3 /\ size \in 0..2 /\ edits \in Nat /\ tampers \in Nat
    BY DEF Init
  <2>5. TypeOK
    BY <2>2, <2>3, <2>4, Zenon DEF Init, TypeOK
  <2>6. WorkspaceInv /\ SourceInv
    BY DEF Init, WorkspaceInv, SourceInv, Faithful, PipesOpen, Preparing, InWorkspace, Finalizing
  <2>7. AnswerInv /\ RealizedInv /\ EvidenceInv
    BY DEF Init, AnswerInv, RealizedInv, EvidenceInv, NoAnswer, Ready, Explained, Finalizing
  <2> QED
    BY <2>5, <2>6, <2>7 DEF IInv
<1>2. IInv /\ [Next]_vars => IInv'
  BY StepType, StepWorkspace, StepAnswer, StepSource, StepRealized, StepEvidence DEF IInv
<1> QED
  BY <1>1, <1>2, PTL DEF Spec

\* Every variable keeps its type.
THEOREM TypeCorrect == Spec => []TypeOK
<1>1. IInv => TypeOK
  BY DEF IInv
<1> QED
  BY <1>1, Invariant, PTL

\* READY names the model its artifact was made from, unless the file was
\* edited after the executor's check.
THEOREM ReadyFromIdentity == Spec => []SlicedFromIdentity
<1>1. IInv => SlicedFromIdentity
  BY NoFileIsNoFile DEF IInv, SourceInv, EvidenceInv, SlicedFromIdentity, Faithful
<1> QED
  BY <1>1, Invariant, PTL

\* READY hands over what the slicer made of the realized configurations.
THEOREM ReadyWithRealizedConfigs == Spec => []SlicedWithRealizedConfigs
<1>1. IInv => SlicedWithRealizedConfigs
  BY NoFileIsNoFile DEF IInv, TypeOK, RealizedInv, EvidenceInv, SlicedWithRealizedConfigs, Explained
<1> QED
  BY <1>1, Invariant, PTL

\* Only a success, or others, make a workspace stay or go otherwise.
THEOREM WorkspaceOwnership == Spec => []WorkspaceOwned
<1>1. IInv => WorkspaceOwned
  BY DEF IInv, TypeOK, WorkspaceInv, AnswerInv, WorkspaceOwned, Preparing, BeforeWorkspace,
         InWorkspace, Finalizing
<1> QED
  BY <1>1, Invariant, PTL

\* Nothing is read or removed beside a running slicer.
THEOREM SlicerFirst == Spec => []SlicerStopsFirst
<1>1. IInv => SlicerStopsFirst
  BY DEF IInv, WorkspaceInv, SlicerStopsFirst
<1> QED
  BY <1>1, Invariant, PTL

\* Each step of the contract, in the terms of this module.
LEMMA StepRefines == IInv /\ IInv' /\ [Next]_vars => [Contract!Next]_(Contract!vars)
<1> SUFFICES ASSUME IInv, IInv', [Next]_vars PROVE [Contract!Next]_(Contract!vars)
  OBVIOUS
<1> USE DEF IInv, AnswerInv, EvidenceInv, Ready, Contract!Next, Contract!vars, Contract!Pass, Contract!Seal,
           Contract!Reject, Contract!Raise, Contract!Deliver, Contract!Following, StageOf,
           Preparing, BeforeWorkspace, InWorkspace, Finalizing
<1>1. CASE ReadModel \/ SelectSetup \/ RealizeSetup
  BY <1>1 DEF ReadModel, NotReady, Raise, Answer, Continue, SelectSetup, RealizeSetup
<1>2. CASE ResolveSource \/ MakeWorkspace \/ WriteConfigs
  BY <1>2 DEF ResolveSource, SliceFails, RemoveWorkspace, NotReady, Answer,
              Continue, MakeWorkspace, WriteConfigs, Configs
<1>3. CASE ReadSource
  BY <1>3 DEF ReadSource, SliceFails, RemoveWorkspace, NotReady, Answer,
              SourceVerified, Continue
<1>4. CASE VerifyConfig
  BY <1>4 DEF VerifyConfig, SliceFails, RemoveWorkspace, NotReady, Answer,
              MoreConfigs, Configs, Continue
<1>5. CASE Launch
  BY <1>5 DEF Launch, SliceFails, RemoveWorkspace, NotReady, Answer, Continue
<1>6. CASE TimeOut \/ Drain \/ Collect
  BY <1>6 DEF TimeOut, PipesOpen, Continue, Drain, SliceFails, RemoveWorkspace,
              NotReady, Answer, Collect
<1>7. CASE ValidateCandidate \/ ParseFacts
  BY <1>7 DEF ValidateCandidate, SliceFails, RemoveWorkspace, NotReady, Answer,
              WellFormed, Continue, ParseFacts, Readable, HasLayers
<1>8. CASE IdentifyCandidate \/ MeasureCandidate
  BY <1>8 DEF IdentifyCandidate, SliceFails, RemoveWorkspace, NotReady, Answer,
              Readable, Continue, MeasureCandidate, Size
<1>9. CASE CheckWorkspace \/ FinalizerRaises
  BY <1>9 DEF CheckWorkspace, VerificationFails, NotReady, Raise, Answer, Continue,
              FinalizerRaises
<1>10. CASE RereadCandidate
  BY <1>10 DEF RereadCandidate, VerificationFails, NotReady, Answer,
               CandidateMismatch, Configs, Continue
<1>11. CASE RereadConfig
  BY <1>11 DEF RereadConfig, MoreConfigs, Configs, Answer, VerificationFails,
               NotReady, Continue
<1>12. CASE SlicerWrites
  BY <1>12 DEF SlicerWrites, Files, Sliced, Kinds
<1>13. CASE SlicerStartsHelper \/ SlicerEnds \/ HelperEnds
  BY <1>13 DEF SlicerStartsHelper, SlicerEnds, HelperEnds
<1>14. CASE EditModel
  BY <1>14 DEF EditModel
<1>15. CASE Tamper
  BY <1>15 DEF Tamper, Files
<1>16. CASE UNCHANGED vars
  BY <1>16 DEF vars
<1> QED
  BY <1>1, <1>2, <1>3, <1>4, <1>5, <1>6, <1>7, <1>8, <1>9, <1>10, <1>11,
     <1>12, <1>13, <1>14, <1>15, <1>16 DEF Next, Service, Environment

\* print.prepare keeps its contract: the stages in order, one answer that names
\* the stage it ended in, and READY with the artifact slicing has sealed.
THEOREM Refinement == Spec => ImplementsContract
<1>1. Init => Contract!Init
  <2> SUFFICES ASSUME Init PROVE Contract!Init
    OBVIOUS
  <2>1. pc = "model" /\ answer.status = "none"
    BY DEF Init, NoAnswer
  <2>2. StageOf(pc) = "MODEL_INPUT"
    BY <2>1 DEF StageOf, BeforeWorkspace, InWorkspace, Finalizing
  <2>3. StageOf(pc) # "FINAL_VERIFICATION"
    BY <2>2
  <2>4. ~Ready
    BY <2>1 DEF Ready
  <2> QED
    BY <2>1, <2>2, <2>3, <2>4 DEF Contract!Init
<1> QED
  BY <1>1, StepRefines, Invariant, PTL DEF Spec, ImplementsContract, Contract!Spec
=============================================================================
