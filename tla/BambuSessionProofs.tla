-------------------------- MODULE BambuSessionProofs --------------------------
(***************************************************************************)
(* BambuSession for any readings, any deltas and any number of reports:    *)
(* types, client ownership, freshness, and what a snapshot says.           *)
(***************************************************************************)
EXTENDS BambuSession, TLAPS, WellFoundedInduction

\* The call at each program counter, and who owns the one live client there.
OwnershipInv ==
    /\ pc = "idle" => live = IF retained THEN 1 ELSE 0
    /\ pc = "opening" => ~retained /\ live = 0
    /\ pc = "asking" => ~retained /\ live = 1
    /\ pc \in {"check", "fetch"} => live = 1
    /\ pc = "closing" => ~retained /\ live \in {0, 1}

\* What a read has consumed at each program counter.
FreshnessInv ==
    /\ pc \notin {"idle", "opening"} => op = "get_status"
    /\ pc = "opening" /\ op = "get_status" => ~warm
    /\ pc \in {"asking", "check", "closing"} => ~warm
    /\ pc = "fetch" /\ warm => retained /\ consumed = 0 /\ ~received
    /\ received => consumed > 0
    /\ pc = "closing" /\ result = "status" => consumed > 0
    /\ StatusIsFresh

IInv == TypeOK /\ OwnershipInv /\ FreshnessInv

\* A setter that keeps the known value of an absent or invalid field, a
\* recognized state and an apply() that stops half way all yield a status.
LEMMA ApplyType ==
    ASSUME NEW s \in Status, NEW d \in Delta
    PROVE  Apply(s, d) \in Status
<1> DEFINE began == WithState([s EXCEPT !.applied = TRUE], d)
           heated == [began EXCEPT !.temp = Keep(@, d.temp)]
           finished == [heated EXCEPT !.progress = Keep(@, d.percent), !.other = Keep(@, d.other)]
<1>1. \A k \in Readings \cup {Unknown} : \A n : Keep(k, n) \in Readings \cup {Unknown}
  BY DEF Keep
<1>2. \A g \in DOMAIN GcodeState : GcodeState[g] \in PrinterStates
  BY DEF GcodeState, PrinterStates
<1>3. [s EXCEPT !.applied = TRUE] \in Status
  BY DEF Status
<1>4. began \in Status
  <2>1. CASE d.gcode \in DOMAIN GcodeState
    BY <1>2, <1>3, <2>1 DEF WithState, Status
  <2>2. CASE d.gcode \notin DOMAIN GcodeState
    BY <1>3, <2>2 DEF WithState
  <2> QED
    BY <2>1, <2>2
<1>5. heated \in Status
  BY <1>1, <1>4 DEF Status
<1>6. finished \in Status
  BY <1>1, <1>5 DEF Status
<1> QED
  BY <1>4, <1>5, <1>6 DEF Apply

\* The accumulator of a new session is a status, its history a sequence.
LEMMA NothingTyped == NothingKnown \in Status
  BY DEF NothingKnown, Status, PrinterStates

LEMMA NoHistory == <<>> \in Seq(Deltas)
  OBVIOUS

\* Every step keeps the types.
LEMMA StepTypeOK == IInv /\ [Next]_vars => TypeOK'
<1> SUFFICES ASSUME IInv, [Next]_vars PROVE TypeOK'
  OBVIOUS
<1> USE NothingTyped, NoHistory DEF IInv, TypeOK, OwnershipInv, Steps, Results, Errors, Leaks, callVars
<1>1. CASE Connect
  BY <1>1 DEF Connect
<1>2. CASE Opened
  <2>1. pc' \in Steps /\ op' \in {"connect", "get_status"}
    BY <1>2 DEF Opened
  <2>2. warm' \in BOOLEAN /\ retained' \in BOOLEAN /\ received' \in BOOLEAN /\ expired' \in BOOLEAN
    BY <1>2 DEF Opened, Status
  <2>3. acc' \in Status /\ local' \in Status /\ history' \in Seq(Deltas)
    BY <1>2 DEF Opened
  <2>4. live' \in Nat /\ consumed' \in 0..2
    BY <1>2 DEF Opened
  <2>5. result' \in Results
    BY <1>2 DEF Opened
  <2> QED
    BY <2>1, <2>2, <2>3, <2>4, <2>5
<1>3. CASE OpenFails
  BY <1>3 DEF OpenFails
<1>4. CASE Disconnect
  <2>1. pc' \in Steps /\ op' \in {"connect", "get_status"}
    BY <1>4 DEF Disconnect
  <2>2. warm' \in BOOLEAN /\ retained' \in BOOLEAN /\ received' \in BOOLEAN /\ expired' \in BOOLEAN
    BY <1>4 DEF Disconnect, Status
  <2>3. acc' \in Status /\ local' \in Status /\ history' \in Seq(Deltas)
    BY <1>4 DEF Disconnect
  <2>4. live' \in Nat /\ consumed' \in 0..2
    BY <1>4 DEF Disconnect
  <2>5. result' \in Results
    BY <1>4 DEF Disconnect
  <2> QED
    BY <2>1, <2>2, <2>3, <2>4, <2>5
<1>5. CASE GetStatus
  <2>1. pc' \in Steps /\ op' \in {"connect", "get_status"}
    BY <1>5 DEF GetStatus, StartReading
  <2>2. warm' \in BOOLEAN /\ retained' \in BOOLEAN /\ received' \in BOOLEAN /\ expired' \in BOOLEAN
    BY <1>5 DEF GetStatus, StartReading, Status
  <2>3. acc' \in Status /\ local' \in Status /\ history' \in Seq(Deltas)
    BY <1>5 DEF GetStatus, StartReading
  <2>4. live' \in Nat /\ consumed' \in 0..2
    BY <1>5 DEF GetStatus, StartReading
  <2>5. result' \in Results
    BY <1>5 DEF GetStatus, StartReading
  <2> QED
    BY <2>1, <2>2, <2>3, <2>4, <2>5
<1>6. CASE RefreshRequested
  BY <1>6 DEF RefreshRequested
<1>7. CASE RefreshFails
  BY <1>7 DEF RefreshFails, Finish
<1>8. CASE Expire
  BY <1>8 DEF Expire
<1>9. CASE CheckDeadline
  BY <1>9 DEF CheckDeadline, NothingMore, Finish
<1>10. CASE FetchDelta
  <2>1. PICK d \in (IF Len(history) < MaxReports THEN Deltas ELSE {Last(history)}) :
            /\ history' = IF Len(history) < MaxReports THEN Append(history, d) ELSE history
            /\ acc' = IF retained THEN Apply(Working, d) ELSE acc
            /\ local' = IF retained THEN local ELSE Apply(Working, d)
    BY <1>10 DEF FetchDelta
  <2>2. d \in Deltas
    BY <2>1, ReportBoundAssumption DEF Last
  <2>3. acc' \in Status /\ local' \in Status /\ history' \in Seq(Deltas)
    BY <2>1, <2>2, ApplyType, DeltaAssumption DEF Working
  <2>4. consumed' \in 0..2 /\ live' \in Nat
    BY <1>10 DEF FetchDelta
  <2>5. /\ result' \in Results
        /\ pc' \in Steps
        /\ received' \in BOOLEAN
    BY <1>10 DEF FetchDelta, Finish
  <2> QED
    BY <1>10, <2>3, <2>4, <2>5 DEF FetchDelta
<1>11. CASE FetchGarbage
  BY <1>11 DEF FetchGarbage, Finish
<1>12. CASE FetchNothing
  BY <1>12 DEF FetchNothing, NothingMore, Finish
<1>13. CASE FetchFails
  BY <1>13 DEF FetchFails, Finish
<1>14. CASE CloseOwn
  BY <1>14 DEF CloseOwn
<1>15. CASE UNCHANGED vars
  BY <1>15 DEF vars
<1> QED
  BY <1>1, <1>2, <1>3, <1>4, <1>5, <1>6, <1>7, <1>8, <1>9, <1>10, <1>11, <1>12, <1>13, <1>14, <1>15
     DEF Next, InsideCall, Read

\* Every step keeps track of who owns the live client.
LEMMA StepOwnership == IInv /\ [Next]_vars => OwnershipInv'
<1> SUFFICES ASSUME IInv, [Next]_vars PROVE OwnershipInv'
  OBVIOUS
<1> USE DEF IInv, TypeOK, OwnershipInv, callVars
<1>1. CASE Connect
  BY <1>1 DEF Connect
<1>2. CASE Opened
  BY <1>2 DEF Opened
<1>3. CASE OpenFails
  BY <1>3 DEF OpenFails
<1>4. CASE Disconnect
  BY <1>4 DEF Disconnect
<1>5. CASE GetStatus
  BY <1>5 DEF GetStatus, StartReading
<1>6. CASE RefreshRequested
  BY <1>6 DEF RefreshRequested
<1>7. CASE RefreshFails
  BY <1>7 DEF RefreshFails, Finish
<1>8. CASE Expire
  BY <1>8 DEF Expire
<1>9. CASE CheckDeadline
  BY <1>9 DEF CheckDeadline, NothingMore, Finish
<1>10. CASE FetchDelta
  BY <1>10 DEF FetchDelta, Finish
<1>11. CASE FetchGarbage
  BY <1>11 DEF FetchGarbage, Finish
<1>12. CASE FetchNothing
  BY <1>12 DEF FetchNothing, NothingMore, Finish
<1>13. CASE FetchFails
  BY <1>13 DEF FetchFails, Finish
<1>14. CASE CloseOwn
  BY <1>14 DEF CloseOwn
<1>15. CASE UNCHANGED vars
  BY <1>15 DEF vars
<1> QED
  BY <1>1, <1>2, <1>3, <1>4, <1>5, <1>6, <1>7, <1>8, <1>9, <1>10, <1>11, <1>12, <1>13, <1>14, <1>15
     DEF Next, InsideCall, Read

\* Every step keeps the account of what a read consumed.
LEMMA StepFreshness == IInv /\ [Next]_vars => FreshnessInv'
<1> SUFFICES ASSUME IInv, [Next]_vars PROVE FreshnessInv'
  OBVIOUS
<1> USE DEF IInv, TypeOK, OwnershipInv, FreshnessInv, StatusIsFresh, callVars
<1>1. CASE Connect
  BY <1>1 DEF Connect
<1>2. CASE Opened
  BY <1>2 DEF Opened
<1>3. CASE OpenFails
  BY <1>3 DEF OpenFails
<1>4. CASE Disconnect
  BY <1>4 DEF Disconnect
<1>5. CASE GetStatus
  BY <1>5 DEF GetStatus, StartReading
<1>6. CASE RefreshRequested
  BY <1>6 DEF RefreshRequested
<1>7. CASE RefreshFails
  BY <1>7 DEF RefreshFails, Finish
<1>8. CASE Expire
  BY <1>8 DEF Expire
<1>9. CASE CheckDeadline
  BY <1>9 DEF CheckDeadline, NothingMore, Finish
<1>10. CASE FetchDelta
  BY <1>10 DEF FetchDelta, Finish
<1>11. CASE FetchGarbage
  BY <1>11 DEF FetchGarbage, Finish
<1>12. CASE FetchNothing
  BY <1>12 DEF FetchNothing, NothingMore, Finish
<1>13. CASE FetchFails
  BY <1>13 DEF FetchFails, Finish
<1>14. CASE CloseOwn
  BY <1>14 DEF CloseOwn
<1>15. CASE UNCHANGED vars
  BY <1>15 DEF vars
<1> QED
  BY <1>1, <1>2, <1>3, <1>4, <1>5, <1>6, <1>7, <1>8, <1>9, <1>10, <1>11, <1>12, <1>13, <1>14, <1>15
     DEF Next, InsideCall, Read

\* The invariant holds of every reachable state.
LEMMA Invariant == Spec => []IInv
<1>1. Init => IInv
  <2> SUFFICES ASSUME Init PROVE IInv
    OBVIOUS
  <2>1. TypeOK
    <3>1. acc \in Status /\ local \in Status /\ history \in Seq(Deltas)
      BY NothingTyped, NoHistory DEF Init
    <3>2. pc \in Steps /\ result \in Results /\ live \in Nat /\ consumed \in 0..2
      BY DEF Init, Steps, Results
    <3> QED
      BY <3>1, <3>2 DEF Init, TypeOK
  <2>2. OwnershipInv
    BY DEF Init, OwnershipInv
  <2>3. FreshnessInv
    BY DEF Init, FreshnessInv, StatusIsFresh
  <2> QED
    BY <2>1, <2>2, <2>3 DEF IInv
<1>2. IInv /\ [Next]_vars => IInv'
  BY StepTypeOK, StepOwnership, StepFreshness DEF IInv
<1> QED
  BY <1>1, <1>2, PTL DEF Spec

\* Every variable keeps its type, whatever the printer sends.
THEOREM TypeCorrect == Spec => []TypeOK
  BY Invariant, PTL DEF IInv

\* No call of the adapter, however it ends, leaves a connected client behind
\* that is not the retained one.
THEOREM NothingLeaks == Spec => []NoClientLeaks
<1>1. IInv => NoClientLeaks
  BY DEF IInv, TypeOK, Steps, OwnershipInv, NoClientLeaks
<1> QED
  BY Invariant, <1>1, PTL

\* No status is returned without a report consumed by its own call.
THEOREM EveryStatusFresh == Spec => []StatusIsFresh
<1>1. IInv => StatusIsFresh
  BY DEF IInv, FreshnessInv
<1> QED
  BY Invariant, <1>1, PTL

-----------------------------------------------------------------------------
(* What a delta more makes of all that was said before *)

\* A set of positions has a last one.
LEMMA MaxWithin ==
    ASSUME NEW n \in Nat, NEW S \in SUBSET (1..n), S # {}
    PROVE  Max(S) \in S /\ \A y \in S : y <= Max(S)
<1> DEFINE R == {ss \in Nat \X Nat : ss[1] < ss[2]}
           left == {n - y : y \in S}
<1>1. IsWellFoundedOn(R, Nat)
  BY NatLessThanWellFounded, Zenon DEF OpToRel
<1>2. \A x, y \in Nat : y < x => <<y, x>> \in R
  OBVIOUS
<1>3. left \in SUBSET Nat /\ left # {}
  <2>1. \A y \in S : n - y \in Nat
    OBVIOUS
  <2> QED
    BY <2>1
<1> HIDE DEF R, left
<1>4. PICK least \in left : \A y \in left : <<y, least>> \notin R
  BY <1>1, <1>3, WFMin
<1>5. PICK x \in S : least = n - x
  BY <1>4 DEF left
<1>6. ASSUME NEW y \in S PROVE y <= x
  <2>1. n - y \in left /\ n - y \in Nat /\ least \in Nat
    BY <1>3, <1>4 DEF left
  <2>2. ~(n - y < least)
    BY <1>2, <1>4, <2>1
  <2> QED
    BY <1>5, <2>2
<1> QED
  BY <1>6 DEF Max

\* The last of the positions once there is a new one.
LEMMA MaxOfNew ==
    ASSUME NEW n \in Nat, NEW S \in SUBSET (1..n)
    PROVE  Max(S \cup {n + 1}) = n + 1
<1> DEFINE T == S \cup {n + 1}
<1>1. T \in SUBSET (1..(n + 1)) /\ n + 1 \in T
  OBVIOUS
<1> HIDE DEF T
<1>2. Max(T) \in 1..(n + 1) /\ n + 1 <= Max(T)
  <2>1. n + 1 \in Nat /\ T # {}
    BY <1>1
  <2>2. Max(T) \in T /\ \A y \in T : y <= Max(T)
    BY <1>1, <2>1, MaxWithin
  <2> QED
    BY <1>1, <2>2
<1>3. Max(T) = n + 1
  BY <1>2
<1> QED
  BY <1>3 DEF T

\* The positions that hold a value of a field, with one delta more.
LEMMA HoldingAppend ==
    ASSUME NEW h \in Seq(Delta), NEW d \in Delta, NEW field, NEW values
    PROVE  /\ Holding(h, field, values) \in SUBSET (1..Len(h))
           /\ Holding(Append(h, d), field, values) =
                 IF Effective(d)[field] \in values THEN Holding(h, field, values) \cup {Len(h) + 1}
                 ELSE Holding(h, field, values)
<1>1. Len(h) \in Nat /\ DOMAIN h = 1..Len(h) /\ DOMAIN Append(h, d) = 1..(Len(h) + 1)
  OBVIOUS
<1>2. Append(h, d)[Len(h) + 1] = d /\ \A i \in 1..Len(h) : Append(h, d)[i] = h[i]
  OBVIOUS
<1> QED
  BY <1>1, <1>2 DEF Holding

\* The last value of a field, with one delta more.
LEMMA LastAppend ==
    ASSUME NEW h \in Seq(Delta), NEW d \in Delta, NEW field, NEW values
    PROVE  LET before == Holding(h, field, values)
               after == Holding(Append(h, d), field, values)
           IN IF Effective(d)[field] \in values
              THEN after # {} /\ Max(after) = Len(h) + 1 /\ Append(h, d)[Max(after)] = d
              ELSE /\ after = before
                   /\ before # {} => Max(before) \in 1..Len(h) /\ Append(h, d)[Max(before)] = h[Max(before)]
<1> DEFINE before == Holding(h, field, values)
           after == Holding(Append(h, d), field, values)
<1>1. /\ before \in SUBSET (1..Len(h)) /\ Len(h) \in Nat
      /\ after = IF Effective(d)[field] \in values THEN before \cup {Len(h) + 1} ELSE before
  BY HoldingAppend
<1>2. Append(h, d)[Len(h) + 1] = d /\ \A i \in 1..Len(h) : Append(h, d)[i] = h[i]
  OBVIOUS
<1>3. Effective(d)[field] \in values => Max(after) = Len(h) + 1
  BY <1>1, MaxOfNew
<1>4. before # {} => Max(before) \in before
  BY <1>1, MaxWithin
<1> QED
  BY <1>1, <1>2, <1>3, <1>4

\* A field of a delta counts as far as apply() gets with it.
LEMMA EffectiveFields ==
    ASSUME NEW d \in Delta
    PROVE  /\ Effective(d).gcode = d.gcode
           /\ Effective(d).temp \in Readings <=> d.temp \in Readings
           /\ Effective(d).percent \in Readings <=> d.percent \in Readings /\ d.temp # Huge
           /\ Effective(d).other \in Readings <=> d.other \in Readings /\ d.temp # Huge /\ d.percent # Huge
<1>1. Absent \notin Readings /\ Huge \notin Readings
  BY MarkerAssumption
<1>2. CASE d.temp = Huge
  <2>1. Effective(d) = [d EXCEPT !.temp = Absent, !.percent = Absent, !.other = Absent]
    BY <1>2 DEF Effective
  <2> QED
    BY <1>1, <1>2, <2>1 DEF Delta
<1>3. CASE d.temp # Huge /\ d.percent = Huge
  <2>1. Effective(d) = [d EXCEPT !.percent = Absent, !.other = Absent]
    BY <1>3 DEF Effective
  <2> QED
    BY <1>1, <1>3, <2>1 DEF Delta
<1>4. CASE d.temp # Huge /\ d.percent # Huge
  <2>1. Effective(d) = d
    BY <1>4 DEF Effective
  <2> QED
    BY <1>4, <2>1
<1> QED
  BY <1>2, <1>3, <1>4

\* Two statuses that agree in every field.
LEMMA SameStatus ==
    ASSUME NEW s \in Status, NEW t \in Status,
           s.applied = t.applied, s.observed = t.observed, s.state = t.state,
           s.temp = t.temp, s.progress = t.progress, s.other = t.other
    PROVE  s = t
  BY DEF Status

\* What apply() makes of every field.
LEMMA ApplyFields ==
    ASSUME NEW s \in Status, NEW d \in Delta
    PROVE  LET e == Effective(d)
               known == e.gcode \in DOMAIN GcodeState
           IN /\ Apply(s, d).applied
              /\ Apply(s, d).observed = IF known THEN TRUE ELSE s.observed
              /\ Apply(s, d).state = IF known THEN GcodeState[d.gcode] ELSE s.state
              /\ Apply(s, d).temp = IF e.temp \in Readings THEN d.temp ELSE s.temp
              /\ Apply(s, d).progress = IF e.percent \in Readings THEN d.percent
                                        ELSE IF e.gcode \in Terminal THEN Unknown ELSE s.progress
              /\ Apply(s, d).other = IF e.other \in Readings THEN d.other ELSE s.other
<1> DEFINE known == d.gcode \in DOMAIN GcodeState
           began == WithState([s EXCEPT !.applied = TRUE], d)
           heated == [began EXCEPT !.temp = Keep(@, d.temp)]
           finished == [heated EXCEPT !.progress = Keep(@, d.percent), !.other = Keep(@, d.other)]
<1>1. Terminal \subseteq DOMAIN GcodeState /\ Huge \notin Readings
  BY MarkerAssumption DEF Terminal, GcodeState
<1>2. /\ began.applied /\ began.observed = (IF known THEN TRUE ELSE s.observed)
      /\ began.state = (IF known THEN GcodeState[d.gcode] ELSE s.state)
      /\ began.temp = s.temp /\ began.other = s.other
      /\ began.progress = IF d.gcode \in Terminal THEN Unknown ELSE s.progress
      /\ DOMAIN began = {"applied", "observed", "state", "temp", "progress", "other"}
  <2>1. CASE known
    BY <2>1 DEF WithState, Status
  <2>2. CASE ~known
    BY <1>1, <2>2 DEF WithState, Status
  <2> QED
    BY <2>1, <2>2
<1> HIDE DEF began, known
<1>3. /\ heated.applied /\ heated.observed = began.observed /\ heated.state = began.state
      /\ heated.temp = Keep(s.temp, d.temp) /\ heated.other = s.other /\ heated.progress = began.progress
      /\ DOMAIN heated = DOMAIN began
  BY <1>2
<1> HIDE DEF heated
<1>4. /\ finished.applied /\ finished.observed = began.observed /\ finished.state = began.state
      /\ finished.temp = heated.temp /\ finished.other = Keep(s.other, d.other)
      /\ finished.progress = Keep(began.progress, d.percent)
  BY <1>2, <1>3
<1> HIDE DEF finished
<1>5. Apply(s, d) = CASE d.temp = Huge -> began
                      [] d.temp # Huge /\ d.percent = Huge -> heated
                      [] OTHER -> finished
  BY DEF Apply, began, heated, finished
<1>6. /\ Effective(d).gcode = d.gcode
      /\ Effective(d).temp \in Readings <=> d.temp \in Readings
      /\ Effective(d).percent \in Readings <=> d.percent \in Readings /\ d.temp # Huge
      /\ Effective(d).other \in Readings <=> d.other \in Readings /\ d.temp # Huge /\ d.percent # Huge
  BY EffectiveFields
<1>7. CASE d.temp = Huge
  BY <1>1, <1>2, <1>5, <1>6, <1>7 DEF known
<1>8. CASE d.temp # Huge /\ d.percent = Huge
  BY <1>1, <1>2, <1>3, <1>5, <1>6, <1>8 DEF Keep, known
<1>9. CASE d.temp # Huge /\ d.percent # Huge
  BY <1>2, <1>3, <1>4, <1>5, <1>6, <1>9 DEF Keep, known
<1> QED
  BY <1>7, <1>8, <1>9

\* The last value of a field that keeps it, and of the percentage, which a
\* print that ended after it takes away, with one delta more.
LEMMA HeldAppend ==
    ASSUME NEW h \in Seq(Delta), NEW d \in Delta, NEW field
    PROVE  LastHeld(Append(h, d), field) =
              IF Effective(d)[field] \in Readings THEN d[field] ELSE LastHeld(h, field)
<1> DEFINE before == Holding(h, field, Readings)
           after == Holding(Append(h, d), field, Readings)
<1>1. IF Effective(d)[field] \in Readings
      THEN after # {} /\ Append(h, d)[Max(after)] = d
      ELSE after = before /\ (before # {} => Append(h, d)[Max(before)] = h[Max(before)])
  BY LastAppend
<1> HIDE DEF before, after
<1>2. /\ LastHeld(h, field) = IF before = {} THEN Unknown ELSE h[Max(before)][field]
      /\ LastHeld(Append(h, d), field) = IF after = {} THEN Unknown ELSE Append(h, d)[Max(after)][field]
  BY DEF LastHeld, before, after
<1> QED
  BY <1>1, <1>2

LEMMA ProgressAppend ==
    ASSUME NEW h \in Seq(Delta), NEW d \in Delta
    PROVE  LastProgress(Append(h, d)) =
              IF Effective(d).percent \in Readings THEN d.percent
              ELSE IF Effective(d).gcode \in Terminal THEN Unknown ELSE LastProgress(h)
<1> DEFINE before == Holding(h, "percent", Readings)
           after == Holding(Append(h, d), "percent", Readings)
           ends == Holding(h, "gcode", Terminal)
           endsAfter == Holding(Append(h, d), "gcode", Terminal)
<1>0. Len(h) \in Nat
  OBVIOUS
<1>1. IF Effective(d).percent \in Readings
      THEN after # {} /\ Max(after) = Len(h) + 1 /\ Append(h, d)[Max(after)] = d
      ELSE /\ after = before
           /\ before # {} => Max(before) \in 1..Len(h) /\ Append(h, d)[Max(before)] = h[Max(before)]
  BY LastAppend
<1>2. /\ ends \in SUBSET (1..Len(h))
      /\ endsAfter = IF Effective(d).gcode \in Terminal THEN ends \cup {Len(h) + 1} ELSE ends
  BY HoldingAppend
<1> HIDE DEF before, after, ends, endsAfter
<1>3. /\ LastProgress(h) = IF before = {} \/ \E i \in ends : i > Max(before)
                           THEN Unknown ELSE h[Max(before)].percent
      /\ LastProgress(Append(h, d)) = IF after = {} \/ \E i \in endsAfter : i > Max(after)
                                      THEN Unknown ELSE Append(h, d)[Max(after)].percent
  BY DEF LastProgress, before, after, ends, endsAfter
<1>4. CASE Effective(d).percent \in Readings
  <2>1. \A i \in endsAfter : ~(i > Max(after))
    BY <1>0, <1>1, <1>2, <1>4
  <2> QED
    BY <1>1, <1>3, <1>4, <2>1
<1>5. CASE Effective(d).percent \notin Readings /\ Effective(d).gcode \in Terminal
  <2>1. before # {} => \E i \in endsAfter : i > Max(before)
    BY <1>0, <1>1, <1>2, <1>5
  <2> QED
    BY <1>1, <1>3, <1>5, <2>1
<1>6. CASE Effective(d).percent \notin Readings /\ Effective(d).gcode \notin Terminal
  BY <1>1, <1>2, <1>3, <1>6
<1> QED
  BY <1>4, <1>5, <1>6

\* What is known after one delta more is what apply() makes of what was known.
LEMMA LastKnownAppend ==
    ASSUME NEW h \in Seq(Delta), NEW d \in Delta, LastKnown(h) \in Status
    PROVE  LastKnown(Append(h, d)) = Apply(LastKnown(h), d)
<1> DEFINE s == LastKnown(h)
           a == Apply(s, d)
           g == Append(h, d)
           before == Holding(h, "gcode", DOMAIN GcodeState)
           after == Holding(g, "gcode", DOMAIN GcodeState)
           known == Effective(d).gcode \in DOMAIN GcodeState
<1>1. a \in Status
  BY ApplyType
<1>2. a = [applied |-> a.applied, observed |-> a.observed, state |-> a.state,
           temp |-> a.temp, progress |-> a.progress, other |-> a.other]
  <2> HIDE DEF a
  <2> QED
    BY <1>1 DEF Status
<1>3. /\ a.applied /\ a.observed = (IF known THEN TRUE ELSE s.observed)
      /\ a.state = (IF known THEN GcodeState[d.gcode] ELSE s.state)
      /\ a.temp = (IF Effective(d).temp \in Readings THEN d.temp ELSE s.temp)
      /\ a.progress = (IF Effective(d).percent \in Readings THEN d.percent
                       ELSE IF Effective(d).gcode \in Terminal THEN Unknown ELSE s.progress)
      /\ a.other = (IF Effective(d).other \in Readings THEN d.other ELSE s.other)
  BY ApplyFields
<1>4. /\ s.observed = (before # {})
      /\ s.state = (IF before = {} THEN "unknown" ELSE GcodeState[h[Max(before)].gcode])
      /\ s.temp = LastHeld(h, "temp") /\ s.progress = LastProgress(h) /\ s.other = LastHeld(h, "other")
  BY DEF LastKnown
<1>5. /\ g # <<>>
      /\ LastHeld(g, "temp") = (IF Effective(d).temp \in Readings THEN d.temp ELSE LastHeld(h, "temp"))
      /\ LastHeld(g, "other") = (IF Effective(d).other \in Readings THEN d.other ELSE LastHeld(h, "other"))
      /\ LastProgress(g) = (IF Effective(d).percent \in Readings THEN d.percent
                            ELSE IF Effective(d).gcode \in Terminal THEN Unknown ELSE LastProgress(h))
  BY HeldAppend, ProgressAppend
<1>6. IF known THEN after # {} /\ g[Max(after)] = d
      ELSE after = before /\ (before # {} => g[Max(before)] = h[Max(before)])
  BY LastAppend
<1>7. LastKnown(g) = [applied |-> g # <<>>, observed |-> after # {},
                      state |-> IF after = {} THEN "unknown" ELSE GcodeState[g[Max(after)].gcode],
                      temp |-> LastHeld(g, "temp"), progress |-> LastProgress(g), other |-> LastHeld(g, "other")]
  BY DEF LastKnown
<1>8. a.applied = (g # <<>>) /\ a.observed = (after # {})
  <2>1. a.applied \in BOOLEAN /\ a.observed \in BOOLEAN
    BY <1>1 DEF Status
  <2> HIDE DEF a, s, g, known, before, after
  <2> QED
    BY <1>3, <1>4, <1>5, <1>6, <2>1
<1> HIDE DEF a, s, g, known, before, after
<1>9. a.state = IF after = {} THEN "unknown" ELSE GcodeState[g[Max(after)].gcode]
  BY <1>3, <1>4, <1>6
<1>10. a.temp = LastHeld(g, "temp") /\ a.progress = LastProgress(g) /\ a.other = LastHeld(g, "other")
  BY <1>3, <1>4, <1>5
<1> QED
  BY <1>2, <1>7, <1>8, <1>9, <1>10 DEF a, s, g

\* What is known of any deltas is a status.
LEMMA LastKnownTyped ==
    ASSUME NEW h \in Seq(Delta)
    PROVE  LastKnown(h) \in Status
<1>1. ASSUME NEW field, NEW values, Holding(h, field, values) # {}
      PROVE  /\ h[Max(Holding(h, field, values))] \in Delta
             /\ Effective(h[Max(Holding(h, field, values))])[field] \in values
  <2> DEFINE held == Holding(h, field, values)
  <2>1. held \in SUBSET (1..Len(h)) /\ Len(h) \in Nat
    BY DEF Holding
  <2>2. Max(held) \in held
    <3> HIDE DEF held
    <3> QED
      BY <1>1, <2>1, MaxWithin DEF held
  <2>3. \A i \in held : h[i] \in Delta /\ Effective(h[i])[field] \in values
    <3> DEFINE Reports == Delta
    <3>1. h \in Seq(Reports)
      OBVIOUS
    <3> HIDE DEF Reports
    <3>2. \A i \in DOMAIN h : h[i] \in Reports
      BY <3>1
    <3> QED
      BY <3>2 DEF Holding, Reports
  <2> QED
    BY <2>2, <2>3
<1>2. \A field \in {"temp", "other"} : LastHeld(h, field) \in Readings \cup {Unknown}
  BY <1>1, EffectiveFields DEF LastHeld
<1>3. LastProgress(h) \in Readings \cup {Unknown}
  BY <1>1, EffectiveFields DEF LastProgress
<1> DEFINE states == Holding(h, "gcode", DOMAIN GcodeState)
<1>4. (IF states = {} THEN "unknown" ELSE GcodeState[h[Max(states)].gcode]) \in PrinterStates
  <2>1. \A g \in DOMAIN GcodeState : GcodeState[g] \in PrinterStates
    BY DEF GcodeState, PrinterStates
  <2>2. states # {} => h[Max(states)].gcode \in DOMAIN GcodeState
    BY <1>1, EffectiveFields
  <2> HIDE DEF states
  <2> QED
    BY <2>1, <2>2 DEF PrinterStates
<1>5. (h # <<>>) \in BOOLEAN /\ (states # {}) \in BOOLEAN
  OBVIOUS
<1> HIDE DEF states
<1> QED
  BY <1>2, <1>3, <1>4, <1>5 DEF LastKnown, Status, states

\* A report that comes once more says nothing new.
LEMMA ApplyTwice ==
    ASSUME NEW s \in Status, NEW d \in Delta
    PROVE  Apply(Apply(s, d), d) = Apply(s, d)
<1> DEFINE once == Apply(s, d)
           twice == Apply(once, d)
           e == Effective(d)
           known == e.gcode \in DOMAIN GcodeState
<1>1. once \in Status
  BY ApplyType
<1>2. /\ once.applied /\ once.observed = (IF known THEN TRUE ELSE s.observed)
      /\ once.state = (IF known THEN GcodeState[d.gcode] ELSE s.state)
      /\ once.temp = (IF e.temp \in Readings THEN d.temp ELSE s.temp)
      /\ once.progress = (IF e.percent \in Readings THEN d.percent
                          ELSE IF e.gcode \in Terminal THEN Unknown ELSE s.progress)
      /\ once.other = (IF e.other \in Readings THEN d.other ELSE s.other)
  BY ApplyFields
<1> HIDE DEF once
<1>3. twice \in Status
  BY <1>1, ApplyType
<1>4. /\ twice.applied /\ twice.observed = (IF known THEN TRUE ELSE once.observed)
      /\ twice.state = (IF known THEN GcodeState[d.gcode] ELSE once.state)
      /\ twice.temp = (IF e.temp \in Readings THEN d.temp ELSE once.temp)
      /\ twice.progress = (IF e.percent \in Readings THEN d.percent
                           ELSE IF e.gcode \in Terminal THEN Unknown ELSE once.progress)
      /\ twice.other = (IF e.other \in Readings THEN d.other ELSE once.other)
  BY <1>1, ApplyFields
<1> HIDE DEF twice, e, known
<1>5. twice.applied = once.applied /\ twice.observed = once.observed
  BY <1>1, <1>2, <1>3, <1>4 DEF Status
<1>6. /\ twice.state = once.state /\ twice.temp = once.temp
      /\ twice.progress = once.progress /\ twice.other = once.other
  BY <1>2, <1>4
<1> QED
  BY <1>1, <1>3, <1>5, <1>6, SameStatus DEF once, twice

LEMMA LastAgain ==
    ASSUME NEW h \in Seq(Delta), Len(h) > 0
    PROVE  Last(h) \in Delta /\ Apply(LastKnown(h), Last(h)) = LastKnown(h)
<1> DEFINE f == SubSeq(h, 1, Len(h) - 1)
           Reports == Delta
<1>1. h \in Seq(Reports)
  OBVIOUS
<1> HIDE DEF Reports
<1>2. f \in Seq(Reports) /\ Last(h) \in Reports /\ h = Append(f, Last(h))
  BY <1>1 DEF Last
<1> HIDE DEF f
<1>3. f \in Seq(Delta) /\ Last(h) \in Delta
  BY <1>2 DEF Reports
<1>4. LastKnown(f) \in Status
  BY <1>3, LastKnownTyped
<1>5. LastKnown(h) = Apply(LastKnown(f), Last(h))
  BY <1>2, <1>3, <1>4, LastKnownAppend
<1> QED
  BY <1>3, <1>4, <1>5, ApplyTwice

LEMMA NothingSaid == LastKnown(<<>>) = NothingKnown
<1>1. \A field, values : Holding(<<>>, field, values) = {}
  BY DEF Holding
<1> QED
  BY <1>1 DEF LastKnown, LastHeld, LastProgress, NothingKnown

-----------------------------------------------------------------------------
(* The snapshot *)

\* A connection that is not open yet, or a client that is gone, has no history.
SnapshotInv ==
    /\ SnapshotIsLastKnown
    /\ ~retained /\ pc \in {"idle", "opening"} => history = <<>>

LEMMA StepSnapshot == IInv /\ SnapshotInv /\ [Next]_vars => SnapshotInv'
<1> SUFFICES ASSUME IInv, SnapshotInv, [Next]_vars PROVE SnapshotInv'
  OBVIOUS
<1> USE NothingSaid DEF IInv, OwnershipInv, SnapshotInv, SnapshotIsLastKnown, callVars
<1>1. CASE Connect
  BY <1>1 DEF Connect
<1>2. CASE Opened
  BY <1>2 DEF Opened
<1>3. CASE OpenFails
  BY <1>3 DEF OpenFails
<1>4. CASE Disconnect
  BY <1>4 DEF Disconnect
<1>5. CASE GetStatus
  BY <1>5 DEF GetStatus, StartReading
<1>6. CASE RefreshRequested \/ RefreshFails
  BY <1>6 DEF RefreshRequested, RefreshFails, Finish
<1>7. CASE Expire
  BY <1>7 DEF Expire
<1>8. CASE CheckDeadline \/ FetchGarbage \/ FetchNothing \/ FetchFails
  BY <1>8 DEF CheckDeadline, FetchGarbage, FetchNothing, NothingMore, FetchFails, Finish
<1>9. CASE FetchDelta
  <2>1. PICK d \in (IF Len(history) < MaxReports THEN Deltas ELSE {Last(history)}) :
            /\ history' = IF Len(history) < MaxReports THEN Append(history, d) ELSE history
            /\ acc' = IF retained THEN Apply(Working, d) ELSE acc
            /\ local' = IF retained THEN local ELSE Apply(Working, d)
    BY <1>9 DEF FetchDelta
  <2>2. Working = LastKnown(history)
    BY DEF Working
  <2>3. history \in Seq(Delta)
    BY DeltaAssumption DEF TypeOK
  <2>4. Apply(Working, d) = LastKnown(history')
    <3>1. CASE Len(history) < MaxReports
      BY <2>1, <2>2, <2>3, <3>1, LastKnownAppend, LastKnownTyped, DeltaAssumption
    <3>2. CASE ~(Len(history) < MaxReports)
      <4>1. Len(history) > 0
        BY <2>3, <3>2, ReportBoundAssumption
      <4> QED
        BY <2>1, <2>2, <2>3, <3>2, <4>1, LastAgain
    <3> QED
      BY <3>1, <3>2
  <2>5. /\ UNCHANGED retained
        /\ ~retained => pc' \notin {"idle", "opening"}
    BY <1>9 DEF FetchDelta, Finish
  <2> QED
    BY <2>1, <2>4, <2>5
<1>10. CASE CloseOwn
  BY <1>10 DEF CloseOwn
<1>11. CASE UNCHANGED vars
  BY <1>11 DEF vars
<1> QED
  BY <1>1, <1>2, <1>3, <1>4, <1>5, <1>6, <1>7, <1>8, <1>9, <1>10, <1>11 DEF Next, InsideCall, Read

\* However many reports come, in whatever order, malformed, sparse or cut
\* short by an overflow: what the adapter holds is what the reports of the
\* connection in use say, field by field, and nothing of an earlier one
\* (apply(), connect(), disconnect()).
THEOREM SnapshotHolds == Spec => []SnapshotIsLastKnown
<1>1. Init => SnapshotInv
  BY NothingSaid DEF Init, SnapshotInv, SnapshotIsLastKnown
<1>2. SnapshotInv => SnapshotIsLastKnown
  BY DEF SnapshotInv
<1> QED
  BY Invariant, <1>1, <1>2, StepSnapshot, PTL DEF Spec
=============================================================================
