-------------------------- MODULE StatusAccumulator --------------------------
(***************************************************************************)
(* _BambuStatusAccumulator of adapters/printer/bambu.py: the status known  *)
(* so far, assembled from sparse deltas, and what it should be, computed   *)
(* from all the deltas at once.                                            *)
(*                                                                         *)
(* A field of a delta is Absent, Invalid, Huge or holds a value its parser *)
(* accepts.  temp stands for the four temperatures, which are read before  *)
(* the percentage, and other for the fields read after it: AMS, layers,    *)
(* remaining time, HMS and print error.  All of them keep the last valid   *)
(* value; gcode_state and mc_percent are modelled by name.                 *)
(***************************************************************************)
EXTENDS Naturals, Sequences, FiniteSetsExt

CONSTANTS
    Readings,   \* parsed values of the fields
    Unknown,    \* None: nothing known of a field
    Absent,     \* the key is not in the delta
    Invalid,    \* the key's value is not one its parser accepts
    Huge        \* an integer literal that float() cannot represent

ASSUME MarkerAssumption == {Unknown, Absent, Invalid, Huge} \cap Readings = {}

\* _GCODE_STATE_MAP and _TERMINAL_GCODE_STATES.
GcodeState == [IDLE |-> "idle", RUNNING |-> "printing", PREPARE |-> "printing",
               PAUSE |-> "paused", FINISH |-> "idle", FAILED |-> "error", UNKNOWN |-> "unknown"]
Terminal == {"IDLE", "FINISH", "FAILED"}
PrinterStates == {"unknown", "idle", "printing", "paused", "error"}

\* A structurally valid delta; full marks the push_status with msg 0.
Delta == [gcode : DOMAIN GcodeState \cup {Absent, Invalid},
          temp : Readings \cup {Absent, Invalid, Huge},
          percent : Readings \cup {Absent, Invalid, Huge},
          other : Readings \cup {Absent, Invalid},
          full : BOOLEAN]

Status == [applied : BOOLEAN, observed : BOOLEAN, state : PrinterStates,
           temp : Readings \cup {Unknown}, progress : Readings \cup {Unknown},
           other : Readings \cup {Unknown}]

NothingKnown == [applied |-> FALSE, observed |-> FALSE, state |-> "unknown",
                 temp |-> Unknown, progress |-> Unknown, other |-> Unknown]

\* A setter that stores whatever it finds under the key.
KeepPresent(known, new) == IF new = Absent THEN known ELSE new

\* An absent or an invalid field keeps what is known.
Keep(known, new) == IF new \in Readings THEN new ELSE known

\* A recognized gcode_state is stored; a terminal one clears the progress.
WithState(s, d) ==
    IF d.gcode \in DOMAIN GcodeState
    THEN [s EXCEPT !.state = GcodeState[d.gcode], !.observed = TRUE,
                   !.progress = IF d.gcode \in Terminal THEN Unknown ELSE @]
    ELSE s

\* float() raises OverflowError on an integer it cannot represent, and nothing
\* catches it.
Overflows(d) == Huge \in {d.temp, d.percent}

\* An apply() that clears the progress after it has read the percentage.
ApplyClearsLast(s, d) ==
    WithState([s EXCEPT !.applied = TRUE,
                        !.temp = Keep(@, d.temp),
                        !.progress = Keep(@, d.percent),
                        !.other = Keep(@, d.other)], d)

\* apply(): state, temperatures, percentage, the rest, in that order; an
\* overflow leaves behind what was applied before it.
Apply(s, d) ==
    LET began == WithState([s EXCEPT !.applied = TRUE], d)
        heated == [began EXCEPT !.temp = Keep(@, d.temp)]
    IN  CASE d.temp = Huge -> began
          [] d.temp # Huge /\ d.percent = Huge -> heated
          [] OTHER -> [heated EXCEPT !.progress = Keep(@, d.percent),
                                     !.other = Keep(@, d.other)]

Ready(s) == s.applied /\ s.observed

-----------------------------------------------------------------------------
(* The reference: what a sequence of deltas says, field by field           *)

\* The delta as far as apply() gets with it.
Effective(d) ==
    CASE d.temp = Huge -> [d EXCEPT !.temp = Absent, !.percent = Absent, !.other = Absent]
      [] d.temp # Huge /\ d.percent = Huge -> [d EXCEPT !.percent = Absent, !.other = Absent]
      [] OTHER -> d

\* The positions of the deltas whose field holds a value.
Holding(deltas, field, values) ==
    {i \in DOMAIN deltas : Effective(deltas[i])[field] \in values}

LastHeld(deltas, field) ==
    LET held == Holding(deltas, field, Readings)
    IN  IF held = {} THEN Unknown ELSE deltas[Max(held)][field]

\* The last valid percentage, unless a print ended after it was reported.
LastProgress(deltas) ==
    LET held == Holding(deltas, "percent", Readings)
    IN  IF held = {} \/ \E i \in Holding(deltas, "gcode", Terminal) : i > Max(held)
        THEN Unknown ELSE deltas[Max(held)].percent

LastKnown(deltas) ==
    LET states == Holding(deltas, "gcode", DOMAIN GcodeState)
    IN  [applied |-> deltas # <<>>,
         observed |-> states # {},
         state |-> IF states = {} THEN "unknown" ELSE GcodeState[deltas[Max(states)].gcode],
         temp |-> LastHeld(deltas, "temp"),
         progress |-> LastProgress(deltas),
         other |-> LastHeld(deltas, "other")]
=============================================================================
