---------------------------- MODULE PrimaryProofs ----------------------------
(***************************************************************************)
(* The primary provider is used on evidence only: for any number of calls, *)
(* whatever accounts, limits and pages the app server reports, and in any  *)
(* order of its lines, the timers and the end of the child.                *)
(***************************************************************************)
EXTENDS Controller, TLAPS

\* What the server must have reported.
Evidence(k) ==
    /\ k.account.type = "chatgpt" /\ k.account.requires /\ k.account.plan \in SubscriptionPlans
    /\ k.rate.codex /\ k.rate.reached = "no" /\ k.rate.spend = "clear"
    /\ k.rate.primary = "below" /\ k.rate.secondary \in {"below", "absent"}
    /\ k.preferred /\ k.pages > 0

\* A candidate that speaks for the primary provider was the last answer: there
\* is none to come that could replace what it rests on.
ClientInv(k) ==
    /\ k \in Clients
    /\ k.asked # 0 => k.pages < PageLimit
    /\ k.candidate # NoStatus /\ Safe(k.candidate) => k.asked = 0 /\ Evidence(k)
    /\ k.settled \/ k.shutdown # "unset" => k.candidate # NoStatus

LEMMA UnknownIsNotSafe == Unknown \in Status /\ ~Safe(Unknown)
  BY DEF Unknown, Status, Tri, Safe

LEMMA ClassifyIsStatus ==
    ASSUME NEW account, NEW rate, NEW preferred
    PROVE  ClassifyPrimary(account, rate, preferred) \in Status
  <1>1. QuotaOf(rate) \in Tri
    BY DEF QuotaOf, Tri
  <1>2. Verdict(preferred) \in Tri
    BY DEF Verdict, Tri
  <1> QED BY <1>1, <1>2 DEF ClassifyPrimary, Unknown, Status, Tri

\* What a safe classification rests on.
LEMMA ClassifySafe ==
    ASSUME NEW account, NEW rate \in Rates \cup {NoRate}, NEW preferred \in BOOLEAN,
           Safe(ClassifyPrimary(account, rate, preferred))
    PROVE  /\ account.type = "chatgpt" /\ account.requires /\ account.plan \in SubscriptionPlans
           /\ rate.codex /\ rate.reached = "no" /\ rate.spend = "clear"
           /\ rate.primary = "below" /\ rate.secondary \in {"below", "absent"}
           /\ preferred
  <1>1. /\ account.type = "chatgpt" /\ account.requires /\ account.plan \in SubscriptionPlans
        /\ rate.codex /\ QuotaOf(rate) = "yes" /\ Verdict(preferred) = "yes"
    BY DEF ClassifyPrimary, Safe, Unknown
  <1>2. rate \in Rates
    BY <1>1 DEF NoRate
  <1>3. rate.reached \in {"no", "documented", "undocumented"} /\ rate.primary \in Windows /\ rate.secondary \in Windows
    BY <1>2, RatesAssumption
  <1>4. rate.reached = "no" /\ rate.spend = "clear" /\ rate.primary # "absent"
        /\ {rate.primary, rate.secondary} \ {"absent"} = {"below"}
    BY <1>1, <1>3 DEF QuotaOf
  <1>5. rate.primary = "below" /\ rate.secondary \in {"below", "absent"}
    BY <1>4
  <1> QED BY <1>1, <1>4, <1>5 DEF Verdict

\* complete() with a candidate that rests on what was heard.
LEMMA CompleteInv ==
    ASSUME NEW k \in Clients, NEW status \in Status,
           k.asked # 0 => k.pages < PageLimit,
           Safe(status) => k.asked = 0 /\ Evidence(k)
    PROVE  ClientInv(Complete(k, status))
  <1>1. Complete(k, status) \in Clients
    BY DEF Complete, Clients, Timers
  <1>2. /\ Complete(k, status).asked = k.asked /\ Complete(k, status).pages = k.pages
        /\ Complete(k, status).candidate = status /\ Evidence(Complete(k, status)) = Evidence(k)
    BY DEF Complete, Clients, Evidence
  <1> QED BY <1>1, <1>2, NoStatusIsNoStatus DEF ClientInv

LEMMA ProtocolErrorInv ==
    ASSUME NEW k \in Clients, k.asked # 0 => k.pages < PageLimit
    PROVE  ClientInv(ProtocolError(k))
  BY CompleteInv, UnknownIsNotSafe DEF ProtocolError

\* The next question, if there is no candidate that forbids it.
LEMMA AskInv ==
    ASSUME NEW k, ClientInv(k), k.asked # 0, NEW question \in 1..4,
           NEW known \in Clients, known.candidate = k.candidate, known.settled = k.settled,
           known.shutdown = k.shutdown, known.pages < PageLimit
    PROVE  ClientInv(Ask(known, question))
  <1>1. Ask(known, question) \in Clients
    BY DEF Ask, Clients
  <1>2. /\ Ask(known, question).candidate = k.candidate /\ Ask(known, question).settled = k.settled
        /\ Ask(known, question).shutdown = k.shutdown /\ Ask(known, question).pages < PageLimit
    BY DEF Ask, Clients
  <1>3. ~(k.candidate # NoStatus /\ Safe(k.candidate))
    BY DEF ClientInv
  <1> QED BY <1>1, <1>2, <1>3 DEF ClientInv

\* A status that is settled is final.
LEMMA SettleInv ==
    ASSUME NEW k, ClientInv(k), NEW status \in Status, status = k.candidate \/ status = Unknown
    PROVE  ClientInv(Settle(k, status))
  <1>1. Settle(k, status) \in Clients
    BY DEF Settle, Clients, Timers, ClientInv
  <1>2. /\ Settle(k, status).asked = k.asked /\ Settle(k, status).pages = k.pages
        /\ Settle(k, status).candidate = status /\ Evidence(Settle(k, status)) = Evidence(k)
    BY DEF Settle, Clients, Evidence, ClientInv
  <1> QED BY <1>1, <1>2, NoStatusIsNoStatus, UnknownIsNotSafe DEF ClientInv

LEMMA NewClientInv == ClientInv(NewClient)
  BY BoundsAssumption DEF ClientInv, NewClient, Clients, Timers

\* What an answer is noted on, and the fields that does not change.
SameCourse(known, k) ==
    /\ known \in Clients /\ known.asked = 0
    /\ known.candidate = k.candidate /\ known.settled = k.settled /\ known.shutdown = k.shutdown

LEMMA HeardKeeps ==
    ASSUME NEW k \in Clients
    PROVE  SameCourse(Heard(k), k) /\ Heard(k).pages = k.pages
           /\ Heard(k).account = k.account /\ Heard(k).rate = k.rate
  BY DEF Heard, Clients, SameCourse

\* Every line and every event keeps the invariant of the client it is for.
LEMMA ReadStatusInv ==
    ASSUME NEW r, ClientInv(client[r]), r \in DOMAIN client, ReadStatus(r)
    PROVE  \E k : ClientInv(k) /\ Becomes(r, k) /\ ~client[r].settled
  <1> DEFINE k == client[r]
  <1>0. ClientInv(k) /\ k \in Clients /\ (k.asked # 0 => k.pages < PageLimit)
    BY DEF ClientInv
  <1> HIDE DEF k
  <1>00. SameCourse(Heard(k), k) /\ Heard(k).pages = k.pages
         /\ Heard(k).account = k.account /\ Heard(k).rate = k.rate
    BY <1>0, HeardKeeps
  <1>1. CASE InitializeReply(r)
    <2>1. Heard(k) \in Clients /\ Heard(k).asked = 0
      BY <1>00 DEF SameCourse
    <2>2. k.asked # 0 /\ k.pages < PageLimit
      BY <1>0, <1>1 DEF InitializeReply, k
    <2>3. ClientInv(Ask(k, 2)) /\ ClientInv(ProtocolError(Heard(k)))
      BY <2>2, <1>0, <1>1, <2>1, AskInv, ProtocolErrorInv DEF InitializeReply, k
    <2> QED BY <1>1, <2>3 DEF InitializeReply, k
  <1>2. CASE AccountReply(r)
    <2>1. Heard(k) \in Clients /\ Heard(k).asked = 0
      BY <1>00 DEF SameCourse
    <2>2. ClientInv(ProtocolError(Heard(k)))
      BY <2>1, ProtocolErrorInv
    <2>3. ASSUME NEW account \in Accounts
          PROVE  LET known == [Heard(k) EXCEPT !.account = account]
                 IN /\ ClientInv(Ask(known, 3))
                    /\ account.type # "chatgpt" =>
                          ClientInv(Complete(known, ClassifyPrimary(account, NoRate, FALSE)))
      <3> DEFINE known == [Heard(k) EXCEPT !.account = account]
      <3>1. SameCourse(known, k) /\ known.pages = k.pages
        BY <1>00 DEF SameCourse, Clients
      <3> HIDE DEF known
      <3>2. ClientInv(Ask(known, 3))
        <4>1. ClientInv(k) /\ k.asked # 0 /\ known.pages < PageLimit
          BY <1>0, <1>2, <3>1 DEF AccountReply, k
        <4> QED BY <3>1, <4>1, AskInv DEF SameCourse
      <3>3. ASSUME account.type # "chatgpt"
            PROVE  ~Safe(ClassifyPrimary(account, NoRate, FALSE))
        BY <3>3, ClassifySafe
      <3>4. account.type # "chatgpt" => ClientInv(Complete(known, ClassifyPrimary(account, NoRate, FALSE)))
        BY <3>1, <3>3, CompleteInv, ClassifyIsStatus DEF SameCourse
      <3> QED BY <3>2, <3>4 DEF known
    <2> QED BY <1>2, <2>2, <2>3 DEF AccountReply, k
  <1>3. CASE RateReply(r)
    <2>1. Heard(k) \in Clients /\ Heard(k).asked = 0
      BY <1>00 DEF SameCourse
    <2>2. ClientInv(ProtocolError(Heard(k)))
      BY <2>1, ProtocolErrorInv
    <2>3. ASSUME NEW rate \in Rates
          PROVE  LET known == [Heard(k) EXCEPT !.rate = rate]
                 IN ClientInv(Ask(known, 4)) /\ ClientInv(ProtocolError(known))
      <3> DEFINE known == [Heard(k) EXCEPT !.rate = rate]
      <3>1. SameCourse(known, k) /\ known.pages = k.pages
        BY <1>00 DEF SameCourse, Clients
      <3> HIDE DEF known
      <3>2. ClientInv(Ask(known, 4))
        <4>1. ClientInv(k) /\ k.asked # 0 /\ known.pages < PageLimit
          BY <1>0, <1>3, <3>1 DEF RateReply, k
        <4> QED BY <3>1, <4>1, AskInv DEF SameCourse
      <3> QED BY <3>1, <3>2, ProtocolErrorInv DEF SameCourse, known
    <2> QED BY <1>3, <2>2, <2>3 DEF RateReply, k
  <1>4. CASE ModelsReply(r)
    <2> DEFINE counted == [Heard(k) EXCEPT !.pages = @ + 1]
    <2>0. ClientInv(k) /\ k.asked # 0 /\ k.pages < PageLimit
      <3>1. k.asked = 4
        BY <1>4, Zenon DEF ModelsReply, k
      <3> QED BY <1>0, <3>1
    <2>1. SameCourse(counted, k) /\ counted.pages > 0
          /\ counted.account = k.account /\ counted.rate = k.rate
      BY <1>00, <2>0, BoundsAssumption DEF SameCourse, Clients
    <2>2. ClientInv(ProtocolError(counted))
      BY <2>1, ProtocolErrorInv DEF SameCourse
    <2>3. ASSUME NEW preferred \in BOOLEAN
          PROVE  LET known == [counted EXCEPT !.preferred = @ \/ preferred]
                 IN /\ ClientInv(Complete(known, ClassifyPrimary(k.account, k.rate, known.preferred)))
                    /\ MorePages(known) => ClientInv(Ask(known, 4))
                    /\ ClientInv(ProtocolError(known))
      <3> DEFINE known == [counted EXCEPT !.preferred = @ \/ preferred]
      <3> HIDE DEF counted
      <3>1. SameCourse(known, k) /\ known.pages = counted.pages
            /\ known.account = k.account /\ known.rate = k.rate /\ known.preferred \in BOOLEAN
            /\ k.rate \in Rates \cup {NoRate}
        BY <1>0, <2>1 DEF SameCourse, Clients
      <3> HIDE DEF known
      <3>2. Safe(ClassifyPrimary(k.account, k.rate, known.preferred)) => Evidence(known)
        BY <2>1, <3>1, ClassifySafe DEF Evidence
      <3>3. ClientInv(Complete(known, ClassifyPrimary(k.account, k.rate, known.preferred)))
        BY <3>1, <3>2, CompleteInv, ClassifyIsStatus DEF SameCourse
      <3>4. MorePages(known) => ClientInv(Ask(known, 4))
        BY <2>0, <3>1, AskInv DEF SameCourse, MorePages
      <3> QED BY <3>1, <3>3, <3>4, ProtocolErrorInv DEF SameCourse, known
    <2> QED BY <1>4, <2>2, <2>3 DEF ModelsReply, k
  <1>5. CASE Noise(r)
    <2>1. [k EXCEPT !.noise = @ + 1] \in Clients
      BY <1>0, <1>5, BoundsAssumption DEF Noise, Clients, k
    <2>2. [k EXCEPT !.noise = @ + 1].asked = k.asked /\ [k EXCEPT !.noise = @ + 1].pages = k.pages
      BY <1>0 DEF Clients
    <2>3. ClientInv(ProtocolError([k EXCEPT !.noise = @ + 1]))
      BY <1>0, <2>1, <2>2, ProtocolErrorInv
    <2> QED BY <1>5, <2>3 DEF Noise, k
  <1>6. CASE Deadline(r) \/ ChildFails(r)
    BY <1>6, SettleInv, UnknownIsNotSafe DEF Deadline, ChildFails
  <1>7. CASE ShutdownTimer(r)
    <2>1. ClientInv([k EXCEPT !.shutdown = "fired"])
      BY <1>0, <1>7 DEF ShutdownTimer, k, ClientInv, Clients, Timers, Evidence
    <2> QED BY <1>7, <2>1 DEF ShutdownTimer, k
  <1>8. CASE ResolveAfterKill(r) \/ ChildExits(r)
    <2>1. k.candidate # NoStatus => k.candidate \in Status
      BY <1>0 DEF Clients
    <2>2. k.shutdown = "fired" => k.candidate # NoStatus
      BY <1>0 DEF ClientInv
    <2> QED BY <1>8, <2>1, <2>2, SettleInv, UnknownIsNotSafe DEF ResolveAfterKill, ChildExits, k
  <1> QED BY <1>1, <1>2, <1>3, <1>4, <1>5, <1>6, <1>7, <1>8 DEF ReadStatus

(***************************************************************************)
(* The calls: who uses the primary provider has a settled status that      *)
(* speaks for it, and its client is not touched again.                     *)
(***************************************************************************)
CallInv ==
    /\ client \in [Calls -> Clients] /\ DOMAIN pc = Calls /\ DOMAIN run = Calls
    /\ \A c \in Calls :
          /\ ClientInv(client[c])
          /\ DOMAIN run[c] = RunFields
          /\ run[c].provider = "primary" =>
                /\ pc[c] # "idle"
                /\ client[c].settled /\ Safe(client[c].candidate)

\* A step of a call that neither asks the server nor decides.
Elsewhere(c) ==
    /\ UNCHANGED client
    /\ UNCHANGED pc \/ \E place \in Places \ {"idle"} : Goto(c, place)
    /\ \/ UNCHANGED run
       \/ \E r : /\ run' = [run EXCEPT ![c] = r]
                  /\ DOMAIN r = RunFields /\ r.provider = run[c].provider

LEMMA ElsewhereStep ==
    ASSUME CallInv, NEW c \in Calls, Elsewhere(c)
    PROVE  CallInv'
  <1>1. client' \in [Calls -> Clients] /\ DOMAIN pc' = Calls /\ DOMAIN run' = Calls
    BY DEF CallInv, Elsewhere, Goto
  <1>2. ASSUME NEW d \in Calls
        PROVE  /\ ClientInv(client'[d]) /\ DOMAIN run'[d] = RunFields
               /\ client'[d] = client[d] /\ run'[d].provider = run[d].provider
               /\ pc'[d] = "idle" => pc[d] = "idle"
    BY DEF CallInv, Elsewhere, Goto
  <1> QED BY <1>1, <1>2 DEF CallInv

LEMMA RunChange ==
    ASSUME NEW r, DOMAIN r = RunFields, NEW field \in RunFields \ {"provider"}, NEW value
    PROVE  DOMAIN [r EXCEPT ![field] = value] = RunFields /\ [r EXCEPT ![field] = value].provider = r.provider
  BY DEF RunFields

LEMMA EndChange ==
    ASSUME NEW c \in Calls, NEW place, End(c, place)
    PROVE  \E r : run' = [run EXCEPT ![c] = r] /\ DOMAIN r = RunFields /\ r.provider = run[c].provider
  <1> DEFINE r == [NewRun EXCEPT !.provider = run[c].provider, !.model = run[c].model]
  <1>1. DOMAIN NewRun = RunFields
    BY DEF NewRun
  <1>2. DOMAIN r = RunFields /\ r.provider = run[c].provider
    BY <1>1 DEF RunFields
  <1>3. run' = [run EXCEPT ![c] = r]
    BY DEF End
  <1> QED BY <1>2, <1>3

LEMMA FailElsewhere ==
    ASSUME CallInv, NEW c \in Calls, NEW code, Fail(c, code), UNCHANGED client
    PROVE  Elsewhere(c)
  <1>1. CASE pc[c] \in Finally
    <2>1. Goto(c, "release") /\ run' = [run EXCEPT ![c].error = code]
      BY <1>1 DEF Fail
    <2>2. DOMAIN run[c] = RunFields /\ "error" \in RunFields \ {"provider"}
      BY DEF CallInv, RunFields
    <2>3. "release" \in Places \ {"idle"}
      BY DEF Places, Producing
    <2> DEFINE r == [run[c] EXCEPT !.error = code]
    <2>4. DOMAIN r = RunFields /\ r.provider = run[c].provider
      BY <2>2, RunChange
    <2>5. run' = [run EXCEPT ![c] = r]
      BY <2>1
    <2> HIDE DEF r
    <2> QED BY <2>1, <2>3, <2>4, <2>5 DEF Elsewhere
  <1>2. CASE pc[c] \notin Finally
    <2>1. End(c, "failed") /\ "failed" \in Places \ {"idle"}
      BY <1>2 DEF Fail, Places, Ended
    <2> QED BY <2>1, EndChange DEF End, Elsewhere
  <1> QED BY <1>1, <1>2

LEMMA EndElsewhere ==
    ASSUME CallInv, NEW c \in Calls, NEW place \in Ended, End(c, place), UNCHANGED client
    PROVE  Elsewhere(c)
  <1>1. place \in Places \ {"idle"}
    BY DEF Places, Ended
  <1> QED BY <1>1, EndChange DEF End, Elsewhere

LEMMA KnowsElsewhere ==
    ASSUME CallInv, NEW c \in Calls, NEW r, NEW place \in Places \ {"idle"}, Knows(c, r, place), UNCHANGED client,
           DOMAIN r = RunFields, r.provider = run[c].provider
    PROVE  Elsewhere(c)
  BY DEF Knows, Elsewhere

LEMMA GotoElsewhere ==
    ASSUME NEW c \in Calls, NEW place \in Places \ {"idle"}, Goto(c, place), UNCHANGED <<client, run>>
    PROVE  Elsewhere(c)
  BY DEF Elsewhere

\* The steps that neither ask the server nor decide.
LEMMA StepElsewhere ==
    ASSUME CallInv, NEW c \in Calls,
           \/ LoadState(c) \/ EnsureWorktree(c) \/ ReadArtifacts(c) \/ LoadProducer(c) \/ Select(c) \/ Preflight(c)
           \/ BeginTask(c) \/ AcquireExecutionLock(c) \/ ReadBefore(c) \/ CodexEdits(c) \/ CodexEnds(c)
           \/ ReadAfter(c) \/ WriteRecord(c) \/ Release(c) \/ GuardReadOnly(c) \/ Persist(c)
           \/ CommitAndPush(c) \/ SavePullRequest(c) \/ Kill(c)
    PROVE  Elsewhere(c)
  <1>0. Places \ {"idle"} = {"status", "load", "worktree", "select", "producer", "catalog", "preflight", "begin",
            "acquire", "execute", "guard", "persist", "publish", "pull request", "before", "produce", "after",
            "record", "release", "done", "failed", "killed"}
        /\ Ended = {"done", "failed", "killed"}
    BY DEF Places, Producing, Ended
  <1>r. DOMAIN run[c] = RunFields
    BY DEF CallInv
  <1>e. \A code : Fail(c, code) /\ UNCHANGED client => Elsewhere(c)
    BY FailElsewhere
  <1>g. \A place \in Places \ {"idle"} : Goto(c, place) /\ UNCHANGED <<client, run>> => Elsewhere(c)
    BY GotoElsewhere
  <1>n. \A place \in Ended : End(c, place) /\ UNCHANGED client => Elsewhere(c)
    BY EndElsewhere
  <1>1. CASE LoadState(c)
    <2>1. UNCHANGED client
      BY <1>1 DEF LoadState, files
    <2>2. \/ (\E code : Fail(c, code))
          \/ \E value : Knows(c, [run[c] EXCEPT !.threads = value], "worktree")
          \/ \E value : Knows(c, [run[c] EXCEPT !.threads = value], "begin")
      BY <1>1 DEF LoadState
    <2>3. ASSUME NEW value, NEW place \in Places \ {"idle"}, Knows(c, [run[c] EXCEPT !.threads = value], place)
          PROVE  Elsewhere(c)
      <3>1. DOMAIN [run[c] EXCEPT !.threads = value] = RunFields
            /\ [run[c] EXCEPT !.threads = value].provider = run[c].provider
        BY <1>r DEF RunFields
      <3> QED BY <2>1, <2>3, <3>1, KnowsElsewhere
    <2> QED BY <1>0, <1>e, <1>g, <2>1, <2>2, <2>3
  <1>2. CASE EnsureWorktree(c) \/ Preflight(c) \/ GuardReadOnly(c)
    BY <1>0, <1>e, <1>g, <1>2 DEF EnsureWorktree, AfterWorktree, Preflight, AfterSelection, GuardReadOnly, files
  <1>3. CASE ReadArtifacts(c)
    <2>1. UNCHANGED client
      BY <1>3 DEF ReadArtifacts, files
    <2>2. \/ (\E code : Fail(c, code))
          \/ (UNCHANGED run /\ Goto(c, "catalog"))
          \/ \E value : Knows(c, [run[c] EXCEPT !.judged = value], "producer")
          \/ \E value : Knows(c, [run[c] EXCEPT !.judged = value], "catalog")
      BY <1>3 DEF ReadArtifacts
    <2>3. ASSUME NEW value, NEW place \in Places \ {"idle"}, Knows(c, [run[c] EXCEPT !.judged = value], place)
          PROVE  Elsewhere(c)
      <3>1. DOMAIN [run[c] EXCEPT !.judged = value] = RunFields
            /\ [run[c] EXCEPT !.judged = value].provider = run[c].provider
        BY <1>r DEF RunFields
      <3> QED BY <2>1, <2>3, <3>1, KnowsElsewhere
    <2> QED BY <1>0, <1>e, <1>g, <2>1, <2>2, <2>3
  <1>4. CASE LoadProducer(c)
    <2>1. UNCHANGED client
      BY <1>4 DEF LoadProducer, files
    <2>2. \/ (\E code : Fail(c, code))
          \/ \E value : Knows(c, [run[c] EXCEPT !.excluded = value], "catalog")
      BY <1>4 DEF LoadProducer
    <2>3. ASSUME NEW value, NEW place \in Places \ {"idle"}, Knows(c, [run[c] EXCEPT !.excluded = value], place)
          PROVE  Elsewhere(c)
      <3>1. DOMAIN [run[c] EXCEPT !.excluded = value] = RunFields
            /\ [run[c] EXCEPT !.excluded = value].provider = run[c].provider
        BY <1>r DEF RunFields
      <3> QED BY <2>1, <2>3, <3>1, KnowsElsewhere
    <2> QED BY <1>0, <1>e, <1>g, <2>1, <2>2, <2>3
  <1>5. CASE Select(c)
    <2>1. UNCHANGED client
      BY <1>5 DEF Select, files
    <2>2. \/ (\E code : Fail(c, code))
          \/ \E value : Knows(c, [run[c] EXCEPT !.model = value], "preflight")
      BY <1>5 DEF Select
    <2>3. ASSUME NEW value, NEW place \in Places \ {"idle"}, Knows(c, [run[c] EXCEPT !.model = value], place)
          PROVE  Elsewhere(c)
      <3>1. DOMAIN [run[c] EXCEPT !.model = value] = RunFields
            /\ [run[c] EXCEPT !.model = value].provider = run[c].provider
        BY <1>r DEF RunFields
      <3> QED BY <2>1, <2>3, <3>1, KnowsElsewhere
    <2> QED BY <1>0, <1>e, <1>g, <2>1, <2>2, <2>3
  <1>6. CASE BeginTask(c)
    <2>1. ASSUME NEW thread, NEW shape
          PROVE  LET r == [run[c] EXCEPT !.resumed = thread, !.shape = shape]
                 IN DOMAIN r = RunFields /\ r.provider = run[c].provider
      BY <1>r DEF RunFields
    <2>2. /\ \E thread, shape : \/ Knows(c, [run[c] EXCEPT !.resumed = thread, !.shape = shape], "acquire")
                               \/ Knows(c, [run[c] EXCEPT !.resumed = thread, !.shape = shape], "execute")
          /\ UNCHANGED client
      BY <1>6 DEF BeginTask
    <2> QED BY <1>0, <2>1, <2>2, KnowsElsewhere
  <1>7. CASE AcquireExecutionLock(c)
    BY <1>0, <1>e, <1>g, <1>7 DEF AcquireExecutionLock
  <1>8. CASE ReadBefore(c)
    <2>1. UNCHANGED client
      BY <1>8 DEF ReadBefore, files
    <2>2. \/ (\E code : Fail(c, code))
          \/ \E value : Knows(c, [run[c] EXCEPT !.before = value], "produce")
      BY <1>8 DEF ReadBefore
    <2>3. ASSUME NEW value, NEW place \in Places \ {"idle"}, Knows(c, [run[c] EXCEPT !.before = value], place)
          PROVE  Elsewhere(c)
      <3>1. DOMAIN [run[c] EXCEPT !.before = value] = RunFields
            /\ [run[c] EXCEPT !.before = value].provider = run[c].provider
        BY <1>r DEF RunFields
      <3> QED BY <2>1, <2>3, <3>1, KnowsElsewhere
    <2> QED BY <1>0, <1>e, <1>g, <2>1, <2>2, <2>3
  <1>9. CASE CodexEdits(c)
    BY <1>9 DEF CodexEdits, Elsewhere
  <1>10. CASE CodexEnds(c)
    <2>1. UNCHANGED client
      BY <1>10 DEF CodexEnds, files
    <2>2. \/ (\E code : Fail(c, code))
          \/ \E value : Knows(c, [run[c] EXCEPT !.thread = value], "after")
          \/ \E value : Knows(c, [run[c] EXCEPT !.thread = value], "guard")
          \/ \E value : Knows(c, [run[c] EXCEPT !.thread = value], "persist")
      BY <1>10 DEF CodexEnds
    <2>3. ASSUME NEW value, NEW place \in Places \ {"idle"}, Knows(c, [run[c] EXCEPT !.thread = value], place)
          PROVE  Elsewhere(c)
      <3>1. DOMAIN [run[c] EXCEPT !.thread = value] = RunFields
            /\ [run[c] EXCEPT !.thread = value].provider = run[c].provider
        BY <1>r DEF RunFields
      <3> QED BY <2>1, <2>3, <3>1, KnowsElsewhere
    <2> QED BY <1>0, <1>e, <1>g, <2>1, <2>2, <2>3
  <1>11. CASE ReadAfter(c)
    <2>1. UNCHANGED client
      BY <1>11 DEF ReadAfter, files
    <2>2. \/ (\E code : Fail(c, code))
          \/ \E value : Knows(c, [run[c] EXCEPT !.after = value], "record")
      BY <1>11 DEF ReadAfter
    <2>3. ASSUME NEW value, NEW place \in Places \ {"idle"}, Knows(c, [run[c] EXCEPT !.after = value], place)
          PROVE  Elsewhere(c)
      <3>1. DOMAIN [run[c] EXCEPT !.after = value] = RunFields
            /\ [run[c] EXCEPT !.after = value].provider = run[c].provider
        BY <1>r DEF RunFields
      <3> QED BY <2>1, <2>3, <3>1, KnowsElsewhere
    <2> QED BY <1>0, <1>e, <1>g, <2>1, <2>2, <2>3
  <1>12. CASE WriteRecord(c)
    BY <1>0, <1>e, <1>g, <1>12 DEF WriteRecord
  <1>13. CASE Release(c)
    BY <1>0, <1>g, <1>n, <1>13 DEF Release
  <1>14. CASE Persist(c)
    <2>1. \/ (\E code : Fail(c, code))
          \/ AfterTask(c, run[c])
          \/ \E saved : AfterTask(c, [run[c] EXCEPT !.threads = saved])
      BY <1>14 DEF Persist
    <2>2. UNCHANGED client
      BY <1>14 DEF Persist
    <2>3. ASSUME NEW r, AfterTask(c, r), DOMAIN r = RunFields, r.provider = run[c].provider PROVE Elsewhere(c)
      BY <1>0, <1>n, <2>2, <2>3, KnowsElsewhere DEF AfterTask
    <2>4. ASSUME NEW saved
          PROVE  LET r == [run[c] EXCEPT !.threads = saved]
                 IN DOMAIN r = RunFields /\ r.provider = run[c].provider
      BY <1>r DEF RunFields
    <2> QED BY <1>e, <1>r, <2>1, <2>2, <2>3, <2>4
  <1>15. CASE CommitAndPush(c) \/ SavePullRequest(c) \/ Kill(c)
    BY <1>0, <1>e, <1>g, <1>n, <1>15 DEF CommitAndPush, SavePullRequest, Kill, files
  <1> QED BY <1>1, <1>2, <1>3, <1>4, <1>5, <1>6, <1>7, <1>8, <1>9, <1>10, <1>11, <1>12, <1>13, <1>14, <1>15

\* The step that names a provider before the server was asked.
LEMMA StartKeeps ==
    ASSUME CallInv, NEW c \in Calls, Start(c)
    PROVE  CallInv'
  <1>1. pc[c] = "idle" /\ run[c].provider # "primary" /\ DOMAIN run[c] = RunFields
    BY DEF CallInv, Start
  <1>2. CASE request[c].mode = "openrouter-free"
    <2> DEFINE r == [run[c] EXCEPT !.provider = "openrouter-free"]
    <2>1. UNCHANGED client /\ Knows(c, r, AfterProvider(c))
      BY <1>2 DEF Start
    <2>2. DOMAIN r = RunFields /\ r.provider = "openrouter-free"
      BY <1>1 DEF RunFields
    <2> HIDE DEF r
    <2>3. ASSUME NEW d \in Calls
          PROVE  /\ ClientInv(client'[d]) /\ DOMAIN run'[d] = RunFields
                 /\ run'[d].provider = "primary" => d # c /\ run[d].provider = "primary"
      BY <2>1, <2>2 DEF CallInv, Knows
    <2>4. /\ client' \in [Calls -> Clients] /\ DOMAIN pc' = Calls /\ DOMAIN run' = Calls
          /\ \A d \in Calls \ {c} : pc'[d] = pc[d] /\ client'[d] = client[d]
      BY <2>1 DEF CallInv, Knows, Goto
    <2>5. ASSUME NEW d \in Calls, run'[d].provider = "primary"
          PROVE  pc'[d] # "idle" /\ client'[d].settled /\ Safe(client'[d].candidate)
      <3>1. d # c /\ run[d].provider = "primary"
        BY <2>3, <2>5
      <3>2. pc[d] # "idle" /\ client[d].settled /\ Safe(client[d].candidate)
        BY <3>1 DEF CallInv
      <3> QED BY <2>4, <3>1, <3>2
    <2> QED BY <2>3, <2>4, <2>5 DEF CallInv
  <1>3. CASE request[c].mode # "openrouter-free"
    <2>1. Goto(c, "status") /\ Becomes(c, NewClient) /\ UNCHANGED run
      BY <1>3 DEF Start
    <2>2. client' \in [Calls -> Clients]
      BY <2>1, NewClientInv DEF CallInv, ClientInv, Becomes
    <2> QED BY <1>1, <2>1, <2>2, NewClientInv DEF CallInv, Goto, Becomes
  <1> QED BY <1>2, <1>3

\* What the server writes after a decision is not heard.
LEMMA ExchangeKeeps ==
    ASSUME CallInv, NEW c \in Calls, Exchange(c)
    PROVE  CallInv'
  <1>1. PICK k : ClientInv(k) /\ Becomes(c, k) /\ ~client[c].settled
    <2>1. ClientInv(client[c]) /\ c \in DOMAIN client /\ ReadStatus(c)
      BY DEF CallInv, Exchange
    <2> QED BY <2>1, ReadStatusInv
  <1>2. run[c].provider # "primary"
    BY <1>1 DEF CallInv
  <1>3. UNCHANGED <<pc, run>>
    BY DEF Exchange
  <1>4. client' \in [Calls -> Clients]
    BY <1>1 DEF CallInv, ClientInv, Becomes
  <1> QED BY <1>1, <1>2, <1>3, <1>4 DEF CallInv, Becomes

\* The decision rests on a status that will not change.
LEMMA DecideKeeps ==
    ASSUME CallInv, NEW c \in Calls, Decide(c)
    PROVE  CallInv'
  <1> DEFINE provider == DecideProvider(request[c].mode, client[c].candidate)
             r == [run[c] EXCEPT !.provider = provider, !.model = IF provider = "primary" THEN PreferredModel ELSE None]
  <1>1. UNCHANGED client /\ client[c].settled
    BY DEF Decide, files
  <1>2. CASE provider = "refused"
    <2>1. Fail(c, "PRIMARY_UNAVAILABLE")
      BY <1>2 DEF Decide
    <2> QED BY <1>1, <2>1, FailElsewhere, ElsewhereStep
  <1>3. CASE provider # "refused"
    <2>1. Knows(c, r, AfterProvider(c))
      BY <1>3 DEF Decide
    <2>2. DOMAIN run[c] = RunFields
      BY DEF CallInv
    <2>3. DOMAIN r = RunFields /\ r.provider = provider
      BY <2>2 DEF RunFields
    <2>4. provider = "primary" => Safe(client[c].candidate)
      BY DEF DecideProvider
    <2>5. AfterProvider(c) # "idle"
      BY DEF AfterProvider
    <2> HIDE DEF r, provider
    <2>6. /\ \A d \in Calls \ {c} : run'[d] = run[d] /\ pc'[d] = pc[d]
          /\ run'[c] = r /\ pc'[c] = AfterProvider(c)
          /\ DOMAIN run' = Calls /\ DOMAIN pc' = Calls /\ client' \in [Calls -> Clients]
      BY <1>1, <2>1 DEF CallInv, Knows, Goto
    <2>7. ASSUME NEW d \in Calls
          PROVE  /\ ClientInv(client'[d]) /\ DOMAIN run'[d] = RunFields
                 /\ run'[d].provider = "primary" =>
                       pc'[d] # "idle" /\ client'[d].settled /\ Safe(client'[d].candidate)
      <3>1. CASE d = c
        BY <1>1, <2>3, <2>4, <2>5, <2>6, <3>1 DEF CallInv
      <3>2. CASE d # c
        BY <1>1, <2>6, <3>2 DEF CallInv
      <3> QED BY <3>1, <3>2
    <2> QED BY <2>6, <2>7 DEF CallInv
  <1> QED BY <1>2, <1>3

LEMMA CallInvStep ==
    ASSUME CallInv, [Next]_vars
    PROVE  CallInv'
  <1>1. ASSUME NEW c \in Calls, Step(c) PROVE CallInv'
    <2>1. CASE Start(c)
      BY <2>1, StartKeeps
    <2>2. CASE Exchange(c)
      BY <2>2, ExchangeKeeps
    <2>3. CASE Decide(c)
      BY <2>3, DecideKeeps
    <2>4. CASE ~(Start(c) \/ Exchange(c) \/ Decide(c))
      BY <1>1, <2>4, StepElsewhere, ElsewhereStep DEF Step
    <2> QED BY <2>1, <2>2, <2>3, <2>4
  <1>2. ASSUME NEW t \in Tasks, Approve(t) PROVE CallInv'
    BY <1>2 DEF Approve, CallInv
  <1>3. CASE UNCHANGED vars
    BY <1>3 DEF vars, CallInv
  <1> QED BY <1>1, <1>2, <1>3 DEF Next

LEMMA CallInvAlways == Spec => []CallInv
  <1>1. Init => CallInv
    <2> SUFFICES ASSUME Init PROVE CallInv
      OBVIOUS
    <2>1. /\ client \in [Calls -> Clients] /\ DOMAIN pc = Calls /\ DOMAIN run = Calls
          /\ \A c \in Calls : client[c] = NewClient /\ run[c] = NewRun
      BY NewClientInv DEF Init, ClientInv
    <2>2. DOMAIN NewRun = RunFields /\ NewRun.provider = None
      BY DEF NewRun, RunFields
    <2> QED BY <2>1, <2>2, NewClientInv, NoneIsNoString DEF CallInv
  <1>2. CallInv /\ [Next]_vars => CallInv'
    BY CallInvStep
  <1> QED BY <1>1, <1>2, PTL DEF Spec

\* The primary provider is used only if the app server reported a signed-in
\* subscription, quota left in every window and the preferred model, in
\* whatever order lines, timers and the end of the child came
\* (codex-app-server-client.ts:17 and 20, provider-decision.ts:23).
THEOREM PrimaryIsProvenHolds == Spec => []PrimaryIsProven
  <1>1. CallInv => PrimaryIsProven
    BY NoStatusIsNoStatus DEF CallInv, ClientInv, Evidence, PrimaryIsProven, Safe
  <1> QED BY <1>1, CallInvAlways, PTL
==============================================================================
