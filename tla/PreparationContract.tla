------------------------- MODULE PreparationContract -------------------------
(***************************************************************************)
(* What print.prepare promises its caller, without files or processes: a   *)
(* request goes through the stages in order; it is answered once, with the *)
(* stage it could not pass or with READY; slicing seals one artifact, and  *)
(* READY hands over that artifact and no other.                            *)
(***************************************************************************)
EXTENDS Naturals

CONSTANTS
    Artifacts,   \* what a slicer may have left as plate_1.gcode
    None         \* no artifact yet

Following ==
    [MODEL_INPUT |-> "SETUP_SELECTION",
     SETUP_SELECTION |-> "REALIZATION",
     REALIZATION |-> "SLICING"]

VARIABLES
    stage,      \* the stage the request is in, or was answered in
    status,     \* "none" until the request is answered
    sealed,     \* the artifact slicing has sealed
    delivered   \* the artifact of a READY answer

vars == <<stage, status, sealed, delivered>>

Init ==
    /\ stage = "MODEL_INPUT"
    /\ status = "none"
    /\ sealed = None
    /\ delivered = None

Pass ==
    /\ status = "none"
    /\ stage \in DOMAIN Following
    /\ stage' = Following[stage]
    /\ UNCHANGED <<status, sealed, delivered>>

Seal ==
    /\ status = "none"
    /\ stage = "SLICING"
    /\ stage' = "FINAL_VERIFICATION"
    /\ sealed' \in Artifacts
    /\ UNCHANGED <<status, delivered>>

Reject ==
    /\ status = "none"
    /\ status' = "NOT_READY"
    /\ UNCHANGED <<stage, sealed, delivered>>

\* Slicing, which owns files and a process, never ends in an exception.
Raise ==
    /\ status = "none"
    /\ stage # "SLICING"
    /\ status' = "raised"
    /\ UNCHANGED <<stage, sealed, delivered>>

Deliver ==
    /\ status = "none"
    /\ stage = "FINAL_VERIFICATION"
    /\ status' = "READY"
    /\ delivered' = sealed
    /\ UNCHANGED <<stage, sealed>>

Next == Pass \/ Seal \/ Reject \/ Raise \/ Deliver

Spec == Init /\ [][Next]_vars
=============================================================================
