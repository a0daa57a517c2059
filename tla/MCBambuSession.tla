---------------------------- MODULE MCBambuSession ----------------------------
(***************************************************************************)
(* Instance for TLC: nine deltas that mix states, percentages and fields   *)
(* of every kind, three different ones on each connection.                 *)
(***************************************************************************)
EXTENDS BambuSession

CONSTANTS r1, r2

MCReadings == {r1, r2}

Sparse == [gcode |-> Absent, temp |-> Absent, percent |-> Absent, other |-> Absent, full |-> FALSE]

MCDeltas ==
    {[Sparse EXCEPT !.temp = r1],
     [Sparse EXCEPT !.gcode = "RUNNING", !.percent = r1, !.other = r2],
     [Sparse EXCEPT !.gcode = "FINISH", !.temp = Invalid],
     [Sparse EXCEPT !.gcode = "FINISH", !.percent = r2],
     [Sparse EXCEPT !.gcode = Invalid, !.percent = Invalid, !.other = r1],
     [Sparse EXCEPT !.percent = r1, !.full = TRUE],
     [Sparse EXCEPT !.gcode = "UNKNOWN", !.percent = Huge, !.other = r1],
     [Sparse EXCEPT !.temp = Huge, !.percent = r2],
     [Sparse EXCEPT !.percent = r2, !.other = Invalid]}
=============================================================================
