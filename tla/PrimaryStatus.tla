---------------------------- MODULE PrimaryStatus ----------------------------
(***************************************************************************)
(* readPrimaryStatus(): the questions a controller asks the app server of  *)
(* the primary subscription before it picks a provider.  The server's      *)
(* lines, a deadline, a shutdown timer and the exit and error events of    *)
(* the child race to settle one status.                                    *)
(*                                                                         *)
(* The server (external) answers what it was asked, once, with anything;   *)
(* every other line it may write is noise.                                 *)
(***************************************************************************)
EXTENDS Naturals

CONSTANTS
    Accounts,   \* the accounts the server may report
    Rates,      \* the rate limits it may report
    PageLimit,  \* 100 pages of models in the code
    MaxNoise    \* bound on the lines that are not an answer

ASSUME BoundsAssumption == PageLimit \in Nat \ {0} /\ MaxNoise \in Nat

\* A window of a rate limit is absent, below its limit, full, or out of range.
Windows == {"absent", "below", "full", "invalid"}

ASSUME RatesAssumption ==
    Rates \subseteq [codex : BOOLEAN, reached : {"no", "documented", "undocumented"},
                     spend : {"clear", "reached", "absent"}, primary : Windows, secondary : Windows]

Tri == {"yes", "no", "unknown"}
Status == [auth : Tri, planSupported : Tri, quota : Tri, preferredModel : Tri]

Unknown == [auth |-> "unknown", planSupported |-> "unknown", quota |-> "unknown", preferredModel |-> "unknown"]
Verdict(condition) == IF condition THEN "yes" ELSE "no"

\* Stands for an answer that was never given.
NoRate == [codex |-> FALSE, reached |-> "no", spend |-> "absent", primary |-> "absent", secondary |-> "absent"]
NoAccount == [type |-> "none", requires |-> FALSE, plan |-> "none"]

SubscriptionPlans == {"go", "plus", "pro"}

\* Used up when anything says so; available only when everything does.
QuotaOf(rate) ==
    LET windows == {rate.primary, rate.secondary} \ {"absent"}
        used == \/ rate.reached = "documented" \/ rate.spend = "reached"
                \/ "full" \in windows /\ "invalid" \notin windows
        left == rate.spend = "clear" /\ rate.primary # "absent" /\ windows = {"below"}
    IN IF ~rate.codex \/ rate.reached = "undocumented" THEN "unknown"
       ELSE IF used THEN "no"
       ELSE IF left THEN "yes"
       ELSE "unknown"

ClassifyPrimary(account, rate, preferred) ==
    IF account.type # "chatgpt" \/ ~account.requires
    THEN [Unknown EXCEPT !.auth = "no", !.planSupported = "no"]
    ELSE IF account.plan \notin SubscriptionPlans
    THEN [Unknown EXCEPT !.auth = "yes", !.planSupported = "no"]
    ELSE IF ~rate.codex
    THEN [Unknown EXCEPT !.auth = "yes", !.planSupported = "yes"]
    ELSE [auth |-> "yes", planSupported |-> "yes", quota |-> QuotaOf(rate), preferredModel |-> Verdict(preferred)]

Safe(status) == \A fact \in DOMAIN status : status[fact] = "yes"

\* Mutant: without a definite refusal the primary provider is used.
DecideOptimistic(mode, status) ==
    IF mode = "openrouter-free" \/ \E fact \in DOMAIN status : status[fact] = "no" THEN "openrouter-free" ELSE "primary"

\* "refused" is the error that mode "primary" answers with.
DecideProvider(mode, status) ==
    IF mode = "openrouter-free" THEN mode
    ELSE IF Safe(status) THEN "primary"
    ELSE IF mode = "auto" THEN "openrouter-free"
    ELSE "refused"

-----------------------------------------------------------------------------
(* One reading: what was asked and heard, the candidate and the timers *)

CONSTANT NoStatus  \* no candidate yet

ASSUME NoStatusIsNoStatus == NoStatus \notin Status

VARIABLE client

Timers == {"unset", "armed", "fired"}

\* asked is the question without an answer, 0 when there is none.
NewClient ==
    [asked |-> 1, account |-> NoAccount, rate |-> NoRate, preferred |-> FALSE, pages |-> 0, noise |-> 0,
     candidate |-> NoStatus, settled |-> FALSE, deadline |-> "armed", shutdown |-> "unset"]

Clients ==
    [asked : 0..4, account : Accounts \cup {NoAccount}, rate : Rates \cup {NoRate}, preferred : BOOLEAN,
     pages : 0..PageLimit, noise : 0..MaxNoise, candidate : Status \cup {NoStatus}, settled : BOOLEAN,
     deadline : Timers, shutdown : Timers]

\* Nothing is sent once there is a candidate.
Ask(k, question) == [k EXCEPT !.asked = IF k.candidate = NoStatus THEN question ELSE 0]

\* Mutant: the deadline is cleared and nothing takes its place.
CompleteOnExit(k, status) == [k EXCEPT !.candidate = status, !.deadline = "unset"]

\* complete(): the last one counts; the child gets a while to end.
Complete(k, status) ==
    [k EXCEPT !.candidate = status, !.deadline = "unset",
              !.shutdown = IF @ = "unset" THEN "armed" ELSE @]

ProtocolError(k) == Complete(k, Unknown)

Heard(k) == [k EXCEPT !.asked = 0]

Settle(k, status) == [k EXCEPT !.candidate = status, !.settled = TRUE, !.deadline = "unset"]

Becomes(r, k) == client' = [client EXCEPT ![r] = k]

-----------------------------------------------------------------------------
(* The lines of the server *)

InitializeReply(r) ==
    LET k == client[r]
    IN /\ ~k.settled /\ k.asked = 1
       /\ \/ Becomes(r, Ask(k, 2))
          \/ Becomes(r, ProtocolError(Heard(k)))

\* An account of another type ends the exchange.
AccountReply(r) ==
    LET k == client[r]
    IN /\ ~k.settled /\ k.asked = 2
       /\ \/ Becomes(r, ProtocolError(Heard(k)))
          \/ \E account \in Accounts :
                LET known == [Heard(k) EXCEPT !.account = account]
                IN Becomes(r, IF account.type = "chatgpt" THEN Ask(known, 3)
                              ELSE Complete(known, ClassifyPrimary(account, NoRate, FALSE)))

\* A quota that is used up does not end the exchange, one that is unknown does.
RateReply(r) ==
    LET k == client[r]
    IN /\ ~k.settled /\ k.asked = 3
       /\ \/ Becomes(r, ProtocolError(Heard(k)))
          \/ \E rate \in Rates :
                LET known == [Heard(k) EXCEPT !.rate = rate]
                IN Becomes(r, IF ClassifyPrimary(k.account, rate, FALSE).quota # "unknown" THEN Ask(known, 4)
                              ELSE ProtocolError(known))

\* Mutant: one page more.
OneMorePage(k) == k.pages <= PageLimit

MorePages(k) == k.pages < PageLimit

\* A page without a cursor is the last one; a cursor may not come twice.
ModelsReply(r) ==
    LET k == client[r]
        counted == [Heard(k) EXCEPT !.pages = @ + 1]
    IN /\ ~k.settled /\ k.asked = 4
       /\ \/ Becomes(r, ProtocolError(counted))
          \/ \E preferred \in BOOLEAN, last \in BOOLEAN :
                LET known == [counted EXCEPT !.preferred = @ \/ preferred]
                IN Becomes(r, IF last THEN Complete(known, ClassifyPrimary(k.account, k.rate, known.preferred))
                              ELSE IF MorePages(known) THEN Ask(known, 4)
                              ELSE ProtocolError(known))

\* A line that is no JSON object, or answers nothing that was asked.  It may
\* follow the verdict and replace it.
Noise(r) ==
    LET k == client[r]
    IN /\ ~k.settled /\ k.noise < MaxNoise
       /\ Becomes(r, ProtocolError([k EXCEPT !.noise = @ + 1]))

-----------------------------------------------------------------------------
(* The events that settle the status *)

Deadline(r) ==
    /\ ~client[r].settled /\ client[r].deadline = "armed"
    /\ Becomes(r, Settle(client[r], Unknown))

ShutdownTimer(r) ==
    /\ ~client[r].settled /\ client[r].shutdown = "armed"
    /\ Becomes(r, [client[r] EXCEPT !.shutdown = "fired"])

ResolveAfterKill(r) ==
    /\ ~client[r].settled /\ client[r].shutdown = "fired"
    /\ Becomes(r, Settle(client[r], client[r].candidate))

ChildExits(r) ==
    /\ ~client[r].settled
    /\ Becomes(r, Settle(client[r], IF client[r].candidate = NoStatus THEN Unknown ELSE client[r].candidate))

ChildFails(r) ==
    /\ ~client[r].settled
    /\ Becomes(r, Settle(client[r], Unknown))

ReadStatus(r) ==
    \/ InitializeReply(r) \/ AccountReply(r) \/ RateReply(r) \/ ModelsReply(r) \/ Noise(r)
    \/ Deadline(r) \/ ShutdownTimer(r) \/ ResolveAfterKill(r) \/ ChildExits(r) \/ ChildFails(r)
=============================================================================
