----------------------------- MODULE BambuSession -----------------------------
(***************************************************************************)
(* BambuPrinterAdapter of adapters/printer/bambu.py: connect(),            *)
(* get_status() on the retained client or on a client of its own, and      *)
(* disconnect(), over a transport that answers, times out or fails.  The   *)
(* transport is seen through MqttClient; the reports its queue holds are   *)
(* any deltas at all.                                                      *)
(***************************************************************************)
EXTENDS StatusAccumulator, SequencesExt

CONSTANTS
    Deltas,       \* the structurally valid deltas the printer may send
    MaxReports    \* bound: different reports of one connection

ASSUME DeltaAssumption == Deltas \subseteq Delta
ASSUME ReportBoundAssumption == MaxReports \in Nat \ {0}

VARIABLES
    pc,        \* where the call is, "idle" between calls
    op,        \* the call: connect or get_status
    warm,      \* the call is a warm read
    retained,  \* _client is not None
    acc,       \* _accumulator
    local,     \* the accumulator of a standalone get_status
    received,  \* received_in_call
    expired,   \* the call's deadline, or its one wait, has passed
    result,    \* what the last call returned or raised
    live,      \* transport clients that are connected
    history,   \* deltas applied since the connection in use was opened
    consumed   \* reports consumed by the call, counted up to 2

vars == <<pc, op, warm, retained, acc, local, received, expired, result, live, history, consumed>>
callVars == <<op, warm, retained>>

Errors == {"PrinterTimeout", "PrinterInvalidReport", "PrinterAuthFailed", "PrinterUnreachable"}
Leaks == {"MqttConnectionError", "OverflowError", "disconnectError"}

Results == {"none", "done", "status"} \cup Errors \cup Leaks
Steps == {"idle", "opening", "asking", "check", "fetch", "closing"}

TypeOK ==
    /\ pc \in Steps
    /\ op \in {"connect", "get_status"}
    /\ warm \in BOOLEAN
    /\ retained \in BOOLEAN
    /\ acc \in Status
    /\ local \in Status
    /\ received \in BOOLEAN
    /\ expired \in BOOLEAN
    /\ result \in Results
    /\ live \in Nat
    /\ history \in Seq(Deltas)
    /\ consumed \in 0..2

Init ==
    /\ pc = "idle"
    /\ op = "connect"
    /\ warm = FALSE
    /\ retained = FALSE
    /\ acc = NothingKnown
    /\ local = NothingKnown
    /\ received = FALSE
    /\ expired = FALSE
    /\ result = "none"
    /\ live = 0
    /\ history = <<>>
    /\ consumed = 0

\* The accumulator the call in progress works on.
Working == IF retained THEN acc ELSE local

\* The call ends here unless it is standalone: then the finally clause runs.
FinishEarly(r) ==
    /\ result' = r
    /\ pc' = IF r = "status" /\ ~retained THEN "closing" ELSE "idle"

Finish(r) ==
    /\ result' = r
    /\ pc' = IF retained THEN "idle" ELSE "closing"

StartReading == received' = FALSE /\ expired' = FALSE /\ consumed' = 0

-----------------------------------------------------------------------------
(* connect() and disconnect()                                              *)

\* A second connect() keeps the session; a first one starts cold.
Connect ==
    /\ pc = "idle"
    /\ op' = "connect"
    /\ \/ /\ retained
          /\ result' = "done"
          /\ UNCHANGED <<pc, acc>>
       \/ /\ ~retained
          /\ pc' = "opening"
          /\ acc' = NothingKnown
          /\ UNCHANGED result
    /\ UNCHANGED <<warm, retained, local, received, expired, live, history, consumed>>

\* client.connect() succeeds, in connect() or in a standalone get_status().
Opened ==
    /\ pc = "opening"
    /\ live' = live + 1
    /\ history' = <<>>
    /\ \/ /\ op = "connect"
          /\ retained' = TRUE
          /\ pc' = "idle"
          /\ result' = "done"
       \/ /\ op = "get_status"
          /\ pc' = "asking"
          /\ UNCHANGED <<retained, result>>
    /\ UNCHANGED <<op, warm, acc, local, received, expired, consumed>>

\* client.connect() raised MqttConnectionError and left nothing connected.
OpenFails ==
    /\ pc = "opening"
    /\ result' \in {"PrinterAuthFailed", "PrinterUnreachable"}
    /\ \/ /\ op = "connect"
          /\ acc' = NothingKnown
          /\ pc' = "idle"
       \/ /\ op = "get_status"
          /\ pc' = "closing"
          /\ UNCHANGED acc
    /\ UNCHANGED <<callVars, local, received, expired, live, history, consumed>>

\* disconnect(): whatever the client raises, the adapter lets go of it.
Disconnect ==
    /\ pc = "idle"
    /\ \/ /\ retained
          /\ live' = live - 1
          /\ history' = <<>>
          /\ result' \in {"done", "disconnectError"}
       \/ /\ ~retained
          /\ result' = "done"
          /\ UNCHANGED <<live, history>>
    /\ retained' = FALSE
    /\ acc' = NothingKnown
    /\ UNCHANGED <<pc, op, warm, local, received, expired, consumed>>

-----------------------------------------------------------------------------
(* get_status()                                                            *)

\* Without a client the call opens one of its own; with one it reads warm or
\* cold, as the reports seen so far decide.
GetStatus ==
    /\ pc = "idle"
    /\ op' = "get_status"
    /\ StartReading
    /\ warm' = (retained /\ acc.applied)
    /\ pc' = CASE ~retained -> "opening"
               [] retained /\ acc.applied -> "fetch"
               [] OTHER -> "check"
    /\ UNCHANGED <<retained, acc, local, result, live, history>>

\* request_status_refresh(): issued or not, the call goes on to read.
RefreshRequested ==
    /\ pc = "asking"
    /\ pc' = "check"
    /\ UNCHANGED <<callVars, acc, local, received, expired, result, live, history, consumed>>

RefreshFails ==
    /\ pc = "asking"
    /\ Finish("PrinterUnreachable")
    /\ UNCHANGED <<callVars, acc, local, received, expired, live, history, consumed>>

\* Time passes: the deadline of a cold read, the one wait of a warm read.
Expire ==
    /\ pc \in {"check", "fetch"}
    /\ ~expired
    /\ expired' = TRUE
    /\ UNCHANGED <<pc, callVars, acc, local, received, result, live, history, consumed>>

\* Out of time, or no report in time: a cold read returns what it received,
\* and every read that received nothing times out.
NothingMore == Finish(IF received THEN "status" ELSE "PrinterTimeout")

\* A loop that allows every report the whole timeout.
CheckPerReport ==
    /\ pc = "check"
    /\ pc' = "fetch"
    /\ expired' = FALSE
    /\ UNCHANGED <<callVars, acc, local, received, result, live, history, consumed>>

\* The head of the cold read's loop.
CheckDeadline ==
    /\ pc = "check"
    /\ \/ expired /\ NothingMore
       \/ ~expired /\ pc' = "fetch" /\ UNCHANGED result
    /\ UNCHANGED <<callVars, acc, local, received, expired, live, history, consumed>>

\* fetch_report() returns a structurally valid delta: it is applied, and ends
\* a warm read, and a cold one that knows the state or got a full snapshot.
\* The bound reached, the printer goes on repeating its last report.
FetchDelta ==
    /\ pc = "fetch"
    /\ \E d \in IF Len(history) < MaxReports THEN Deltas ELSE {Last(history)} :
        LET known == Apply(Working, d)
        IN  /\ history' = IF Len(history) < MaxReports THEN Append(history, d) ELSE history
            /\ acc' = IF retained THEN known ELSE acc
            /\ local' = IF retained THEN local ELSE known
            /\ \/ /\ Overflows(d)
                  /\ Finish("OverflowError")
                  /\ UNCHANGED received
               \/ /\ ~Overflows(d) /\ (warm \/ d.full \/ Ready(known))
                  /\ Finish("status")
                  /\ UNCHANGED received
               \/ /\ ~Overflows(d) /\ ~warm /\ ~d.full /\ ~Ready(known)
                  /\ received' = TRUE
                  /\ pc' = "check"
                  /\ UNCHANGED result
    /\ consumed' = IF consumed < 2 THEN consumed + 1 ELSE 2
    /\ UNCHANGED <<callVars, expired, live>>

\* _decode_report() rejects the payload before anything is applied.
FetchGarbage ==
    /\ pc = "fetch"
    /\ Finish("PrinterInvalidReport")
    /\ consumed' = IF consumed < 2 THEN consumed + 1 ELSE 2
    /\ UNCHANGED <<callVars, acc, local, received, expired, live, history>>

\* A read that answers from the accumulator when no report comes.
FetchNothingCached ==
    /\ pc = "fetch"
    /\ expired
    /\ Finish(IF Working.applied THEN "status" ELSE "PrinterTimeout")
    /\ UNCHANGED <<callVars, acc, local, received, expired, live, history, consumed>>

FetchNothing ==
    /\ pc = "fetch"
    /\ expired
    /\ NothingMore
    /\ UNCHANGED <<callVars, acc, local, received, expired, live, history, consumed>>

\* fetch_report() raised MqttConnectionError: only a standalone call maps it.
FetchFails ==
    /\ pc = "fetch"
    /\ Finish(IF retained THEN "MqttConnectionError" ELSE "PrinterUnreachable")
    /\ UNCHANGED <<callVars, acc, local, received, expired, live, history, consumed>>

\* The finally clause of a standalone call: its client is disconnected, if it
\* was connected, and its accumulator is dropped.
CloseOwn ==
    /\ pc = "closing"
    /\ pc' = "idle"
    /\ live' = IF live > 0 THEN live - 1 ELSE live
    /\ \/ UNCHANGED result
       \/ live > 0 /\ result' = "disconnectError"
    /\ local' = NothingKnown
    /\ history' = <<>>
    /\ UNCHANGED <<callVars, acc, received, expired, consumed>>

-----------------------------------------------------------------------------
Read == CheckDeadline \/ FetchDelta \/ FetchGarbage \/ FetchNothing \/ FetchFails

InsideCall ==
    \/ Opened \/ OpenFails \/ RefreshRequested \/ RefreshFails \/ Read \/ CloseOwn

Next == Connect \/ Disconnect \/ GetStatus \/ InsideCall \/ Expire

Spec == Init /\ [][Next]_vars

\* The transport answers every call and the clock goes on; the user owes
\* nothing, and no particular answer is owed.
FairSpec == Spec /\ WF_vars(InsideCall) /\ WF_vars(Expire)

-----------------------------------------------------------------------------
(* Properties                                                              *)

\* A snapshot says of every field the last valid value reported since its own
\* connection was opened, and nothing of an earlier connection (apply(), the
\* resets of connect() and disconnect(), the local accumulator).
SnapshotIsLastKnown ==
    /\ acc = LastKnown(IF retained THEN history ELSE <<>>)
    /\ local = LastKnown(IF retained THEN <<>> ELSE history)

\* A status is never an old one: its call consumed a report of the printer,
\* and a warm call consumed exactly one.
StatusIsFresh ==
    pc = "idle" /\ op = "get_status" /\ result = "status"
        => consumed > 0 /\ (warm => consumed = 1)

\* Between calls only the retained client is connected: a call that fails at
\* any point closes the client it opened.
NoClientLeaks ==
    /\ pc = "idle" => live = IF retained THEN 1 ELSE 0
    /\ live <= 1

\* Every call ends, however many sparse reports the printer keeps sending.
CallsEnd == (pc # "idle") ~> (pc = "idle")

\* The plan's error mapping: a connection failure reaches the caller as a
\* PrinterError, never as the transport's own exception.
ConnectionErrorsMapped == result # "MqttConnectionError"
=============================================================================
