---------------------------- MODULE ReportChannel ----------------------------
(***************************************************************************)
(* What PahoMqttClient promises to its user, without threads, locks,       *)
(* subscriptions or CONNACKs: while a connection is open the printer's     *)
(* reports wait in a bounded buffer and are handed out one at a time, the  *)
(* oldest first; only an arrival that finds the buffer full may cost a     *)
(* report, and then the oldest one waiting; closing forgets everything.    *)
(***************************************************************************)
EXTENDS Naturals, Sequences

CONSTANT Capacity      \* _REPORT_QUEUE_CAPACITY, at least 1

VARIABLES
    open,       \* a connection is usable by the caller
    arrived,    \* number of the newest report the printer has sent
    backlog,    \* numbers of the reports waiting for the caller
    spilling,   \* an arrival has found the backlog full
    handedOut   \* number of the report handed out last, 0 on a new connection

vars == <<open, arrived, backlog, spilling, handedOut>>

TypeOK ==
    /\ open \in BOOLEAN
    /\ arrived \in Nat
    /\ backlog \in Seq(Nat)
    /\ spilling \in BOOLEAN
    /\ handedOut \in Nat

Init ==
    /\ open = FALSE
    /\ arrived = 0
    /\ backlog = <<>>
    /\ spilling = FALSE
    /\ handedOut = 0

Open ==
    /\ ~open
    /\ open' = TRUE
    /\ UNCHANGED <<arrived, backlog, spilling, handedOut>>

\* A report that the caller has not asked for yet, or that the network lost.
Miss ==
    /\ ~spilling
    /\ arrived' = arrived + 1
    /\ UNCHANGED <<open, backlog, spilling, handedOut>>

\* A report arrives and there is room.
Accept ==
    /\ open
    /\ ~spilling
    /\ Len(backlog) < Capacity
    /\ arrived' = arrived + 1
    /\ backlog' = Append(backlog, arrived + 1)
    /\ UNCHANGED <<open, spilling, handedOut>>

\* A report arrives at a full backlog.
Overflow ==
    /\ open
    /\ ~spilling
    /\ Len(backlog) = Capacity
    /\ arrived' = arrived + 1
    /\ spilling' = TRUE
    /\ UNCHANGED <<open, backlog, handedOut>>

\* The report that found the backlog full is buffered.  The oldest one still
\* waiting is given up for it, even if the caller has made room meanwhile.
Spill ==
    /\ spilling
    /\ spilling' = FALSE
    /\ backlog' = IF backlog = <<>> THEN <<arrived>> ELSE Append(Tail(backlog), arrived)
    /\ UNCHANGED <<open, arrived, handedOut>>

HandOut ==
    /\ open
    /\ backlog # <<>>
    /\ handedOut' = Head(backlog)
    /\ backlog' = Tail(backlog)
    /\ UNCHANGED <<open, arrived, spilling>>

Close ==
    /\ open
    /\ ~spilling
    /\ open' = FALSE
    /\ backlog' = <<>>
    /\ handedOut' = 0
    /\ UNCHANGED <<arrived, spilling>>

Next == Open \/ Miss \/ Accept \/ Overflow \/ Spill \/ HandOut \/ Close

Spec == Init /\ [][Next]_vars

\* The caller sees reports in the order they were sent, each at most once,
\* and never one that is older than what it has seen.
InOrder ==
    /\ \A i, j \in 1..Len(backlog) : i < j => backlog[i] < backlog[j]
    /\ \A i \in 1..Len(backlog) : handedOut < backlog[i] /\ backlog[i] <= arrived
    /\ Len(backlog) <= Capacity
=============================================================================
