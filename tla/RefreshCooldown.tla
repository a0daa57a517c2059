--------------------------- MODULE RefreshCooldown ---------------------------
(***************************************************************************)
(* The process-local cooldown of the informational status refresh:         *)
(* adapters/printer/transport.py, _reserve_status_refresh and              *)
(* PahoMqttClient.request_status_refresh.                                  *)
(*                                                                         *)
(* Several callers (one standalone get_status() each) own a client of      *)
(* their own; all clients of a process share the eligibility table and its *)
(* lock.  The clock is read BEFORE the lock is taken and the publish       *)
(* happens AFTER it is released, so time may pass between the three.       *)
(***************************************************************************)
EXTENDS Naturals, FiniteSets

CONSTANTS
    Callers,     \* threads that ask for the status of a printer
    Serials,     \* configured printer serials
    SerialOf,    \* the serial each caller's adapter is configured with
    Cooldown,    \* _REFRESH_COOLDOWN_SECONDS, in clock ticks
    MaxTime,     \* bound on the clock of a checked instance
    MaxClients   \* bound on the clients one caller builds

ASSUME SerialAssumption == SerialOf \in [Callers -> Serials]
ASSUME CooldownAssumption == Cooldown \in Nat \ {0}
ASSUME BoundAssumption == MaxTime \in Nat /\ MaxClients \in Nat

VARIABLES
    now,          \* monotonic()
    nextEligible, \* _refresh_next_eligible, 0 when the serial has no entry
    pc,           \* where each caller is inside get_status()
    client,       \* how many clients the caller has built
    attempted,    \* _refresh_attempted of the caller's current client
    seen,         \* the clock value the caller read before the lock
    grants,       \* history: every reservation that returned True
    attempts,     \* history: every publish attempt, failed ones included
    denials       \* history: every reservation that returned False

vars == <<now, nextEligible, pc, client, attempted, seen, grants, attempts, denials>>
history == <<grants, attempts, denials>>

\* The steps of a call: no client; a connected client; inside
\* request_status_refresh before the subscription, the clock, the lock and
\* the publish.
Steps == {"idle", "connected", "subscribe", "clock", "reserve", "publish"}

Grant(c) == [serial |-> SerialOf[c], by |-> c, client |-> client[c], at |-> seen[c]]

GrantType == [serial : Serials, by : Callers, client : Nat, at : Nat]
AttemptType == [grant : GrantType, at : Nat]

TypeOK ==
    /\ now \in Nat
    /\ nextEligible \in [Serials -> Nat]
    /\ pc \in [Callers -> Steps]
    /\ client \in [Callers -> Nat]
    /\ attempted \in [Callers -> BOOLEAN]
    /\ seen \in [Callers -> Nat]
    /\ grants \subseteq GrantType
    /\ attempts \subseteq AttemptType
    /\ denials \subseteq GrantType

Init ==
    /\ now = 0
    /\ nextEligible = [s \in Serials |-> 0]
    /\ pc = [c \in Callers |-> "idle"]
    /\ client = [c \in Callers |-> 0]
    /\ attempted = [c \in Callers |-> FALSE]
    /\ seen = [c \in Callers |-> 0]
    /\ grants = {}
    /\ attempts = {}
    /\ denials = {}

Goto(c, step) == pc' = [pc EXCEPT ![c] = step]

-----------------------------------------------------------------------------
(* Actions                                                                 *)

\* Mutant of Tick: a wall clock, which an adjustment may set back.
WallClockTick ==
    /\ now < MaxTime
    /\ \/ now' = now + 1
       \/ now > 0 /\ now' = now - 1
    /\ UNCHANGED <<nextEligible, pc, client, attempted, seen, history>>

\* The clock advances whatever the callers are doing.
Tick ==
    /\ now < MaxTime
    /\ now' = now + 1
    /\ UNCHANGED <<nextEligible, pc, client, attempted, seen, history>>

\* BambuPrinterAdapter.get_status without a retained client: a new client is
\* built and connected.  A connection that fails leaves no trace here.
BuildClient(c) ==
    /\ pc[c] = "idle"
    /\ client[c] < MaxClients
    /\ client' = [client EXCEPT ![c] = @ + 1]
    /\ attempted' = [attempted EXCEPT ![c] = FALSE]
    /\ Goto(c, "connected")
    /\ UNCHANGED <<now, nextEligible, seen, history>>

\* Mutant of RequestRefresh: the client does not remember that it asked.
ForgetfulRequest(c) ==
    /\ pc[c] = "connected"
    /\ ~attempted[c]
    /\ Goto(c, "subscribe")
    /\ UNCHANGED <<now, nextEligible, client, attempted, seen, history>>

\* request_status_refresh: the first call of a client marks it; a later call
\* on the same client returns False at once.
RequestRefresh(c) ==
    /\ pc[c] = "connected"
    /\ ~attempted[c]
    /\ attempted' = [attempted EXCEPT ![c] = TRUE]
    /\ Goto(c, "subscribe")
    /\ UNCHANGED <<now, nextEligible, client, seen, history>>

\* _ensure_subscription succeeds, or raises before anything is reserved.
Subscribe(c) ==
    /\ pc[c] = "subscribe"
    /\ \/ Goto(c, "clock")
       \/ Goto(c, "connected")
    /\ UNCHANGED <<now, nextEligible, client, attempted, seen, history>>

\* _reserve_status_refresh reads the clock before it takes the lock.
ReadClock(c) ==
    /\ pc[c] = "clock"
    /\ seen' = [seen EXCEPT ![c] = now]
    /\ Goto(c, "reserve")
    /\ UNCHANGED <<now, nextEligible, client, attempted, history>>

\* Mutant of Eligible: the table is read by another key than it is written.
EligibleEverywhere(c) == \A s \in Serials : seen[c] >= nextEligible[s]

\* Mutant of OpenWindow: an off-by-one in the window's end.
ShortWindow(c) ==
    nextEligible' = [nextEligible EXCEPT ![SerialOf[c]] = seen[c] + Cooldown - 1]

\* Mutant of OpenWindow: the cooldown is subtracted.
BackwardWindow(c) ==
    nextEligible' = [nextEligible EXCEPT ![SerialOf[c]] = seen[c] - Cooldown]

\* The comparison under the lock, with the clock value the caller brought.
Eligible(c) == seen[c] >= nextEligible[SerialOf[c]]

\* The window a winning caller opens for its serial.
OpenWindow(c) ==
    nextEligible' = [nextEligible EXCEPT ![SerialOf[c]] = seen[c] + Cooldown]

\* The section under _refresh_eligibility_lock.
Reserve(c) ==
    /\ pc[c] = "reserve"
    /\ \/ /\ ~Eligible(c)
          /\ denials' = denials \cup {Grant(c)}
          /\ Goto(c, "connected")
          /\ UNCHANGED <<nextEligible, grants>>
       \/ /\ Eligible(c)
          /\ OpenWindow(c)
          /\ grants' = grants \cup {Grant(c)}
          /\ Goto(c, "publish")
          /\ UNCHANGED denials
    /\ UNCHANGED <<now, client, attempted, seen, attempts>>

\* The one publish call.  Paho may accept it, refuse it or raise: all three
\* leave the reservation spent, so the outcome is not told apart here.
Publish(c) ==
    /\ pc[c] = "publish"
    /\ attempts' = attempts \cup {[grant |-> Grant(c), at |-> now]}
    /\ Goto(c, "connected")
    /\ UNCHANGED <<now, nextEligible, client, attempted, seen, grants, denials>>

\* get_status returns or raises; the finally clause disconnects the client.
Finish(c) ==
    /\ pc[c] = "connected"
    /\ Goto(c, "idle")
    /\ UNCHANGED <<now, nextEligible, client, attempted, seen, history>>

CallerStep(c) ==
    \/ BuildClient(c) \/ RequestRefresh(c) \/ Subscribe(c) \/ ReadClock(c)
    \/ Reserve(c) \/ Publish(c) \/ Finish(c)

Next == Tick \/ \E c \in Callers : CallerStep(c)

Spec == Init /\ [][Next]_vars

-----------------------------------------------------------------------------
(* Properties                                                              *)

\* Any two reservations one serial was granted carry clock readings at least
\* one cooldown apart, whichever callers won them and however long each
\* caller waited between reading the clock and taking the lock.
GrantsSpaced ==
    \A g, h \in grants :
        (g.serial = h.serial /\ g # h) =>
            \/ g.at + Cooldown <= h.at
            \/ h.at + Cooldown <= g.at

\* A window is spent on exactly one publish attempt: every reservation was
\* used by its winner or is about to be, nothing is published without one,
\* and no client publishes twice, even when a window passes while it is open.
WindowsSpentOnce ==
    /\ grants = {a.grant : a \in attempts} \cup {Grant(c) : c \in {d \in Callers : pc[d] = "publish"}}
    /\ \A a, b \in attempts :
           (a.grant.by = b.grant.by /\ a.grant.client = b.grant.client) => a = b

\* A caller is only turned away inside the window of a reservation that its
\* own serial was granted: printers do not block each other, and a denial
\* opens no window.
DeniedOnlyInsideAWindow ==
    \A d \in denials : \E g \in grants : g.serial = d.serial /\ d.at < g.at + Cooldown

\* What the code does guarantee of the publishes themselves: the later one
\* comes a cooldown after the clock READING of the earlier one, so the gap
\* shrinks only by the time the earlier caller spent before it published.
SpacingUpToDelay ==
    \A a, b \in attempts :
        (a.grant.serial = b.grant.serial /\ a # b) =>
            \/ a.grant.at + Cooldown <= b.at
            \/ b.grant.at + Cooldown <= a.at

\* What the design document states: no two informational refreshes of one
\* printer within the cooldown.  The code does not guarantee it.
PublishesSpaced ==
    \A a, b \in attempts :
        (a.grant.serial = b.grant.serial /\ a # b) =>
            \/ a.at + Cooldown <= b.at
            \/ b.at + Cooldown <= a.at
=============================================================================
