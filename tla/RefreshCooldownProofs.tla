------------------------ MODULE RefreshCooldownProofs ------------------------
(***************************************************************************)
(* The cooldown's safety properties for every set of callers and serials,  *)
(* every length of the window and every clock.                             *)
(***************************************************************************)
EXTENDS RefreshCooldown, TLAPS

\* What is true of the call a caller is inside of: the clock it read is not in
\* the future; a client that has not asked, or has not won, holds no grant;
\* a winner's grant is recorded and not yet spent.
CallInv ==
    \A c \in Callers :
        /\ pc[c] \in {"reserve", "publish"} => seen[c] <= now
        /\ (~attempted[c] \/ pc[c] \in {"subscribe", "clock", "reserve"}) =>
               \A g \in grants : ~(g.by = c /\ g.client = client[c])
        /\ pc[c] = "publish" =>
               /\ Grant(c) \in grants
               /\ \A a \in attempts : ~(a.grant.by = c /\ a.grant.client = client[c])
        /\ pc[c] \in {"subscribe", "clock", "reserve", "publish"} => attempted[c]

\* What is true of every recorded reservation: the table already excludes its
\* window, and it belongs to a client built before.
GrantInv ==
    \A g \in grants :
        /\ g.at + Cooldown <= nextEligible[g.serial]
        /\ g.client <= client[g.by]
        /\ g.serial = SerialOf[g.by]

\* A table entry is the end of some reservation's window.
TableInv ==
    \A s \in Serials :
        nextEligible[s] = 0
            \/ \E g \in grants : g.serial = s /\ nextEligible[s] = g.at + Cooldown

\* No publish precedes the clock reading of its reservation.
AttemptInv == \A a \in attempts : a.grant \in grants /\ a.grant.at <= a.at

IInv ==
    /\ TypeOK
    /\ CallInv
    /\ GrantInv
    /\ TableInv
    /\ AttemptInv
    /\ GrantsSpaced
    /\ WindowsSpentOnce
    /\ DeniedOnlyInsideAWindow

\* The publishes are spaced from the earlier clock reading because their
\* reservations are spaced and no publish precedes its own reading.
LEMMA SpacingFromInv == IInv => SpacingUpToDelay
<1> SUFFICES ASSUME IInv,
                    NEW a \in attempts, NEW b \in attempts,
                    a.grant.serial = b.grant.serial, a # b
             PROVE  \/ a.grant.at + Cooldown <= b.at
                    \/ b.grant.at + Cooldown <= a.at
  BY DEF SpacingUpToDelay
<1>1. a.grant # b.grant
  BY DEF IInv, WindowsSpentOnce
<1>2. a.grant \in grants /\ b.grant \in grants /\ a.grant.at <= a.at /\ b.grant.at <= b.at
  BY DEF IInv, AttemptInv
<1>3. \/ a.grant.at + Cooldown <= b.grant.at
      \/ b.grant.at + Cooldown <= a.grant.at
  BY <1>1, <1>2 DEF IInv, GrantsSpaced
<1>4. a.at \in Nat /\ b.at \in Nat /\ a.grant.at \in Nat /\ b.grant.at \in Nat
  BY DEF IInv, TypeOK, AttemptType, GrantType
<1> QED BY <1>2, <1>3, <1>4, CooldownAssumption

LEMMA InitInv == Init => IInv
BY SerialAssumption, CooldownAssumption
   DEF Init, IInv, TypeOK, Steps, CallInv, GrantInv, TableInv, AttemptInv,
       GrantsSpaced, WindowsSpentOnce, DeniedOnlyInsideAWindow

\* Every step of the system keeps the invariant.
LEMMA StepInv == IInv /\ [Next]_vars => IInv'
<1> SUFFICES ASSUME IInv, [Next]_vars PROVE IInv'
  OBVIOUS
<1> USE SerialAssumption, CooldownAssumption DEF history, Goto, Grant, Steps
<1>1. CASE UNCHANGED vars
  <2>1. TypeOK' BY <1>1 DEF vars, IInv, TypeOK
  <2>2. CallInv' BY <1>1 DEF vars, IInv, CallInv
  <2>3. GrantInv' BY <1>1 DEF vars, IInv, GrantInv
  <2>4. TableInv' BY <1>1 DEF vars, IInv, TableInv
  <2>5. AttemptInv' BY <1>1 DEF vars, IInv, AttemptInv
  <2>6. GrantsSpaced' BY <1>1 DEF vars, IInv, GrantsSpaced
  <2>7. WindowsSpentOnce' BY <1>1 DEF vars, IInv, WindowsSpentOnce
  <2>8. DeniedOnlyInsideAWindow' BY <1>1 DEF vars, IInv, DeniedOnlyInsideAWindow
  <2> QED BY <2>1, <2>2, <2>3, <2>4, <2>5, <2>6, <2>7, <2>8 DEF IInv
<1>2. CASE Tick
  <2>1. TypeOK' BY <1>2 DEF Tick, IInv, TypeOK
  <2>2. CallInv' BY <1>2 DEF Tick, IInv, TypeOK, CallInv
  <2>3. GrantInv' BY <1>2 DEF Tick, IInv, GrantInv
  <2>4. TableInv' BY <1>2 DEF Tick, IInv, TableInv
  <2>5. AttemptInv' BY <1>2 DEF Tick, IInv, AttemptInv
  <2>6. GrantsSpaced' BY <1>2 DEF Tick, IInv, GrantsSpaced
  <2>7. WindowsSpentOnce' BY <1>2 DEF Tick, IInv, WindowsSpentOnce
  <2>8. DeniedOnlyInsideAWindow' BY <1>2 DEF Tick, IInv, DeniedOnlyInsideAWindow
  <2> QED BY <2>1, <2>2, <2>3, <2>4, <2>5, <2>6, <2>7, <2>8 DEF IInv
<1>3. ASSUME NEW c \in Callers, CallerStep(c)
      PROVE  IInv'
  <2>1. CASE BuildClient(c)
    <3>1. TypeOK'
      BY <2>1 DEF BuildClient, IInv, GrantType, AttemptType, TypeOK
    <3>2. CallInv'
      BY <2>1 DEF BuildClient, IInv, TypeOK, GrantInv, AttemptInv, WindowsSpentOnce, CallInv
    <3>3. GrantInv'
      BY <2>1 DEF BuildClient, IInv, TypeOK, GrantType, GrantInv
    <3>4. TableInv'
      BY <2>1 DEF BuildClient, IInv, TypeOK, TableInv
    <3>5. AttemptInv'
      BY <2>1 DEF BuildClient, IInv, TypeOK, AttemptInv
    <3>6. GrantsSpaced'
      BY <2>1 DEF BuildClient, IInv, TypeOK, GrantInv, GrantsSpaced
    <3>7. WindowsSpentOnce'
      BY <2>1 DEF BuildClient, IInv, TypeOK, CallInv, AttemptInv, WindowsSpentOnce
    <3>8. DeniedOnlyInsideAWindow'
      BY <2>1 DEF BuildClient, IInv, TypeOK, TableInv, GrantType, DeniedOnlyInsideAWindow
    <3> QED BY <3>1, <3>2, <3>3, <3>4, <3>5, <3>6, <3>7, <3>8 DEF IInv
  <2>2. CASE RequestRefresh(c)
    <3>1. TypeOK'
      BY <2>2 DEF RequestRefresh, IInv, GrantType, AttemptType, TypeOK
    <3>2. CallInv'
      BY <2>2 DEF RequestRefresh, IInv, TypeOK, GrantInv, AttemptInv, WindowsSpentOnce, CallInv
    <3>3. GrantInv'
      BY <2>2 DEF RequestRefresh, IInv, TypeOK, GrantInv
    <3>4. TableInv'
      BY <2>2 DEF RequestRefresh, IInv, TypeOK, TableInv
    <3>5. AttemptInv'
      BY <2>2 DEF RequestRefresh, IInv, TypeOK, AttemptInv
    <3>6. GrantsSpaced'
      BY <2>2 DEF RequestRefresh, IInv, TypeOK, GrantInv, GrantsSpaced
    <3>7. WindowsSpentOnce'
      BY <2>2 DEF RequestRefresh, IInv, TypeOK, CallInv, AttemptInv, WindowsSpentOnce
    <3>8. DeniedOnlyInsideAWindow'
      BY <2>2 DEF RequestRefresh, IInv, TypeOK, TableInv, GrantType, DeniedOnlyInsideAWindow
    <3> QED BY <3>1, <3>2, <3>3, <3>4, <3>5, <3>6, <3>7, <3>8 DEF IInv
  <2>3. CASE Subscribe(c)
    <3>1. TypeOK'
      BY <2>3 DEF Subscribe, IInv, GrantType, AttemptType, TypeOK
    <3>2. CallInv'
      BY <2>3 DEF Subscribe, IInv, TypeOK, GrantInv, AttemptInv, WindowsSpentOnce, CallInv
    <3>3. GrantInv'
      BY <2>3 DEF Subscribe, IInv, TypeOK, GrantInv
    <3>4. TableInv'
      BY <2>3 DEF Subscribe, IInv, TypeOK, TableInv
    <3>5. AttemptInv'
      BY <2>3 DEF Subscribe, IInv, TypeOK, AttemptInv
    <3>6. GrantsSpaced'
      BY <2>3 DEF Subscribe, IInv, TypeOK, GrantInv, GrantsSpaced
    <3>7. WindowsSpentOnce'
      BY <2>3 DEF Subscribe, IInv, TypeOK, CallInv, AttemptInv, WindowsSpentOnce
    <3>8. DeniedOnlyInsideAWindow'
      BY <2>3 DEF Subscribe, IInv, TypeOK, TableInv, GrantType, DeniedOnlyInsideAWindow
    <3> QED BY <3>1, <3>2, <3>3, <3>4, <3>5, <3>6, <3>7, <3>8 DEF IInv
  <2>4. CASE ReadClock(c)
    <3>1. TypeOK'
      BY <2>4 DEF ReadClock, IInv, GrantType, AttemptType, TypeOK
    <3>2. CallInv'
      BY <2>4 DEF ReadClock, IInv, TypeOK, GrantInv, AttemptInv, WindowsSpentOnce, CallInv
    <3>3. GrantInv'
      BY <2>4 DEF ReadClock, IInv, TypeOK, GrantInv
    <3>4. TableInv'
      BY <2>4 DEF ReadClock, IInv, TypeOK, TableInv
    <3>5. AttemptInv'
      BY <2>4 DEF ReadClock, IInv, TypeOK, AttemptInv
    <3>6. GrantsSpaced'
      BY <2>4 DEF ReadClock, IInv, TypeOK, GrantInv, GrantsSpaced
    <3>7. WindowsSpentOnce'
      BY <2>4 DEF ReadClock, IInv, TypeOK, CallInv, AttemptInv, WindowsSpentOnce
    <3>8. DeniedOnlyInsideAWindow'
      BY <2>4 DEF ReadClock, IInv, TypeOK, TableInv, GrantType, DeniedOnlyInsideAWindow
    <3> QED BY <3>1, <3>2, <3>3, <3>4, <3>5, <3>6, <3>7, <3>8 DEF IInv
  <2>5. CASE Reserve(c)
    <3>1. TypeOK'
      BY <2>5 DEF Reserve, Eligible, OpenWindow, IInv, GrantType, AttemptType, TypeOK
    <3>2. CallInv'
      BY <2>5 DEF Reserve, Eligible, OpenWindow, IInv, TypeOK, GrantInv, AttemptInv, WindowsSpentOnce, CallInv
    <3>0. SerialOf[c] \in Serials /\ seen[c] \in Nat /\ client[c] \in Nat
      BY DEF IInv, TypeOK
    <3>a. ASSUME Eligible(c), OpenWindow(c), grants' = grants \cup {Grant(c)}
          PROVE  GrantInv' /\ TableInv' /\ GrantsSpaced'
      <4>1. \A s \in Serials : nextEligible'[s] =
               IF s = SerialOf[c] THEN seen[c] + Cooldown ELSE nextEligible[s]
        BY <3>a DEF OpenWindow, IInv, TypeOK
      <4>2. client' = client /\ seen' = seen
        BY <2>5 DEF Reserve
      <4>3. \A g \in grants : /\ g.at \in Nat
                              /\ g.at + Cooldown <= nextEligible[g.serial]
                              /\ g.serial \in Serials /\ nextEligible[g.serial] \in Nat
                              /\ g.serial = SerialOf[c] => g.at + Cooldown <= seen[c]
        BY <3>a, <3>0 DEF Eligible, IInv, TypeOK, GrantType, GrantInv
      <4>4. GrantInv'
        <5> SUFFICES ASSUME NEW g \in grants'
                     PROVE  /\ g.at + Cooldown <= nextEligible'[g.serial]
                            /\ g.client <= client[g.by]
                            /\ g.serial = SerialOf[g.by]
          BY <4>2 DEF GrantInv
        <5>1. CASE g = Grant(c)
          BY <5>1, <4>1, <3>0
        <5>2. CASE g \in grants
          BY <5>2, <4>1, <4>3, <3>0 DEF IInv, GrantInv
        <5> QED BY <5>1, <5>2, <3>a
      <4>5. TableInv'
        <5> SUFFICES ASSUME NEW s \in Serials
                     PROVE  \/ nextEligible'[s] = 0
                            \/ \E g \in grants' : g.serial = s /\ nextEligible'[s] = g.at + Cooldown
          BY DEF TableInv
        <5>1. CASE s = SerialOf[c]
          <6>1. Grant(c) \in grants' /\ Grant(c).serial = s
                   /\ nextEligible'[s] = Grant(c).at + Cooldown
            BY <5>1, <4>1, <3>a
          <6> QED BY <6>1
        <5>2. CASE s # SerialOf[c]
          BY <5>2, <4>1, <3>a DEF IInv, TableInv
        <5> QED BY <5>1, <5>2
      <4>6. GrantsSpaced'
        <5> SUFFICES ASSUME NEW g \in grants', NEW h \in grants', g.serial = h.serial, g # h
                     PROVE  g.at + Cooldown <= h.at \/ h.at + Cooldown <= g.at
          BY DEF GrantsSpaced
        <5>1. CASE g \in grants /\ h \in grants
          BY <5>1 DEF IInv, GrantsSpaced
        <5>2. CASE g \in grants /\ h = Grant(c)
          BY <5>2, <4>3
        <5>3. CASE h \in grants /\ g = Grant(c)
          BY <5>3, <4>3
        <5> QED BY <5>1, <5>2, <5>3, <3>a
      <4> QED BY <4>4, <4>5, <4>6
    <3>b. ASSUME UNCHANGED <<nextEligible, grants>>
          PROVE  GrantInv' /\ TableInv' /\ GrantsSpaced'
      <4>1. client' = client /\ nextEligible' = nextEligible /\ grants' = grants
        BY <2>5, <3>b DEF Reserve
      <4>2. GrantInv'
        BY <4>1 DEF IInv, GrantInv
      <4>3. TableInv'
        BY <4>1 DEF IInv, TableInv
      <4>4. GrantsSpaced'
        BY <4>1 DEF IInv, GrantsSpaced
      <4> QED BY <4>2, <4>3, <4>4
    <3>c. GrantInv' /\ TableInv' /\ GrantsSpaced'
      <4>1. \/ Eligible(c) /\ OpenWindow(c) /\ grants' = grants \cup {Grant(c)}
            \/ UNCHANGED <<nextEligible, grants>>
        BY <2>5 DEF Reserve
      <4> QED BY <4>1, <3>a, <3>b
    <3>5. AttemptInv'
      BY <2>5 DEF Reserve, Eligible, OpenWindow, IInv, TypeOK, AttemptInv
    <3>7. WindowsSpentOnce'
      BY <2>5 DEF Reserve, Eligible, OpenWindow, IInv, TypeOK, CallInv, AttemptInv, WindowsSpentOnce
    <3>8. DeniedOnlyInsideAWindow'
      BY <2>5 DEF Reserve, Eligible, OpenWindow, IInv, TypeOK, TableInv, GrantType, DeniedOnlyInsideAWindow
    <3> QED BY <3>1, <3>2, <3>c, <3>5, <3>7, <3>8 DEF IInv
  <2>6. CASE Publish(c)
    <3>1. TypeOK'
      BY <2>6 DEF Publish, IInv, GrantType, AttemptType, TypeOK
    <3>2. CallInv'
      BY <2>6 DEF Publish, IInv, TypeOK, GrantInv, AttemptInv, WindowsSpentOnce, CallInv
    <3>3. GrantInv'
      BY <2>6 DEF Publish, IInv, TypeOK, GrantInv
    <3>4. TableInv'
      BY <2>6 DEF Publish, IInv, TypeOK, TableInv
    <3>5. AttemptInv'
      BY <2>6 DEF Publish, IInv, TypeOK, CallInv, AttemptInv
    <3>6. GrantsSpaced'
      BY <2>6 DEF Publish, IInv, TypeOK, GrantInv, GrantsSpaced
    <3>7. WindowsSpentOnce'
      <4> DEFINE new == [grant |-> Grant(c), at |-> now]
                 winners == {d \in Callers : pc[d] = "publish"}
                 spent == {a.grant : a \in attempts}
      <4>1. attempts' = attempts \cup {new} /\ UNCHANGED <<grants, client, seen>>
        BY <2>6 DEF Publish
      <4>2. {a.grant : a \in attempts'} = spent \cup {Grant(c)}
        <5>1. new.grant = Grant(c)
          OBVIOUS
        <5> QED BY <5>1, <4>1
      <4>3. winners = winners' \cup {c} /\ c \notin winners'
        BY <2>6 DEF Publish, IInv, TypeOK
      <4>4. {Grant(d) : d \in winners} = {Grant(d) : d \in winners'} \cup {Grant(c)}
        BY <4>3
      <4>5. {Grant(d) : d \in winners'} = {Grant(d)' : d \in winners'}
        BY <4>1
      <4>6. grants = spent \cup {Grant(d) : d \in winners}
        BY DEF IInv, WindowsSpentOnce
      <4>7. grants' = {a.grant : a \in attempts'} \cup {Grant(d)' : d \in winners'}
        BY <4>1, <4>2, <4>4, <4>5, <4>6
      <4>8. \A a \in attempts : ~(a.grant.by = c /\ a.grant.client = client[c])
        BY <2>6 DEF Publish, IInv, CallInv
      <4>9. \A a, b \in attempts' :
               (a.grant.by = b.grant.by /\ a.grant.client = b.grant.client) => a = b
        BY <4>1, <4>8 DEF IInv, WindowsSpentOnce
      <4> QED BY <4>7, <4>9 DEF WindowsSpentOnce
    <3>8. DeniedOnlyInsideAWindow'
      BY <2>6 DEF Publish, IInv, TypeOK, TableInv, GrantType, DeniedOnlyInsideAWindow
    <3> QED BY <3>1, <3>2, <3>3, <3>4, <3>5, <3>6, <3>7, <3>8 DEF IInv
  <2>7. CASE Finish(c)
    <3>1. TypeOK'
      BY <2>7 DEF Finish, IInv, GrantType, AttemptType, TypeOK
    <3>2. CallInv'
      BY <2>7 DEF Finish, IInv, TypeOK, GrantInv, AttemptInv, WindowsSpentOnce, CallInv
    <3>3. GrantInv'
      BY <2>7 DEF Finish, IInv, TypeOK, GrantInv
    <3>4. TableInv'
      BY <2>7 DEF Finish, IInv, TypeOK, TableInv
    <3>5. AttemptInv'
      BY <2>7 DEF Finish, IInv, TypeOK, AttemptInv
    <3>6. GrantsSpaced'
      BY <2>7 DEF Finish, IInv, TypeOK, GrantInv, GrantsSpaced
    <3>7. WindowsSpentOnce'
      BY <2>7 DEF Finish, IInv, TypeOK, CallInv, AttemptInv, WindowsSpentOnce
    <3>8. DeniedOnlyInsideAWindow'
      BY <2>7 DEF Finish, IInv, TypeOK, TableInv, GrantType, DeniedOnlyInsideAWindow
    <3> QED BY <3>1, <3>2, <3>3, <3>4, <3>5, <3>6, <3>7, <3>8 DEF IInv
  <2> QED BY <1>3, <2>1, <2>2, <2>3, <2>4, <2>5, <2>6, <2>7 DEF CallerStep
<1> QED BY <1>1, <1>2, <1>3 DEF Next

\* Every variable keeps its type.
THEOREM TypeCorrect == Spec => []TypeOK
<1>1. IInv => TypeOK
  BY DEF IInv
<1> QED BY InitInv, StepInv, <1>1, PTL DEF Spec

\* Clock readings that won a window of one serial are a cooldown apart, for
\* every number of callers and every delay around the lock.
THEOREM CooldownRespected == Spec => []GrantsSpaced
<1>1. IInv => GrantsSpaced
  BY DEF IInv
<1> QED BY InitInv, StepInv, <1>1, PTL DEF Spec

\* Each window pays for exactly one publish attempt and no client makes two.
THEOREM OneAttemptPerWindow == Spec => []WindowsSpentOnce
<1>1. IInv => WindowsSpentOnce
  BY DEF IInv
<1> QED BY InitInv, StepInv, <1>1, PTL DEF Spec

\* No caller is turned away outside a window of its own printer.
THEOREM NoSpuriousDenial == Spec => []DeniedOnlyInsideAWindow
<1>1. IInv => DeniedOnlyInsideAWindow
  BY DEF IInv
<1> QED BY InitInv, StepInv, <1>1, PTL DEF Spec

\* Publishes are a cooldown apart up to the delay of the earlier caller.
THEOREM PublishGap == Spec => []SpacingUpToDelay
BY InitInv, StepInv, SpacingFromInv, PTL DEF Spec
=============================================================================
