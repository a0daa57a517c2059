------------------------- MODULE ReportChannelProofs -------------------------
(***************************************************************************)
(* A ReportChannel of any capacity hands reports out in order.             *)
(***************************************************************************)
EXTENDS ReportChannel, TLAPS

\* A report that found the backlog full is newer than everything in it.
SpillIsNewest ==
    spilling => /\ handedOut < arrived
                /\ \A i \in 1..Len(backlog) : backlog[i] < arrived

\* TypeOK and InOrder are inductive with the fate of a spilling report.
IInv == TypeOK /\ InOrder /\ SpillIsNewest /\ handedOut <= arrived

\* Nothing is buffered at first.
LEMMA InitIInv == Capacity \in Nat \ {0} /\ Init => IInv
<1> SUFFICES ASSUME Capacity \in Nat \ {0}, Init PROVE IInv
  OBVIOUS
<1>1. backlog \in Seq(Nat) /\ Len(backlog) = 0
  BY DEF Init
<1>2. TypeOK
  BY <1>1 DEF Init, TypeOK
<1>3. InOrder
  BY <1>1 DEF Init, InOrder
<1>4. SpillIsNewest
  BY DEF Init, SpillIsNewest
<1> QED
  BY <1>2, <1>3, <1>4 DEF Init, IInv

\* Every step of the channel keeps the invariant.
LEMMA StepIInv == Capacity \in Nat \ {0} /\ IInv /\ [Next]_vars => IInv'
<1> SUFFICES ASSUME Capacity \in Nat \ {0}, IInv, [Next]_vars PROVE IInv'
  OBVIOUS
<1> USE DEF IInv, TypeOK, InOrder, SpillIsNewest
<1>1. CASE Open
  BY <1>1 DEF Open
<1>2. CASE Miss
  BY <1>2 DEF Miss
<1>3. CASE Accept
  <2>1. backlog' \in Seq(Nat) /\ Len(backlog') = Len(backlog) + 1
    BY <1>3 DEF Accept
  <2>2. \A i \in 1..Len(backlog') :
            backlog'[i] = IF i = Len(backlog) + 1 THEN arrived + 1 ELSE backlog[i]
    BY <1>3 DEF Accept
  <2> QED
    BY <1>3, <2>1, <2>2 DEF Accept
<1>4. CASE Overflow
  BY <1>4 DEF Overflow
<1>5. CASE Spill
  <2>1. CASE backlog = <<>>
    <3>1. backlog' = <<arrived>> /\ backlog' \in Seq(Nat) /\ Len(backlog') = 1
      BY <1>5, <2>1 DEF Spill
    <3>2. backlog'[1] = arrived
      BY <3>1
    <3>3. TypeOK'
      BY <1>5, <3>1 DEF Spill
    <3>4. InOrder'
      BY <1>5, <3>1, <3>2 DEF Spill
    <3> QED
      BY <1>5, <3>3, <3>4 DEF Spill
  <2>2. CASE backlog # <<>>
    <3>1. backlog' \in Seq(Nat) /\ Len(backlog') = Len(backlog)
      BY <1>5, <2>2 DEF Spill
    <3>2. \A i \in 1..Len(backlog') :
              backlog'[i] = IF i = Len(backlog) THEN arrived ELSE backlog[i + 1]
      BY <1>5, <2>2 DEF Spill
    <3>3. \A i \in 1..Len(backlog) : backlog[i] < arrived
      BY <1>5 DEF Spill
    <3>4. \A i, j \in 1..Len(backlog') : i < j => backlog'[i] < backlog'[j]
      <4> SUFFICES ASSUME NEW i \in 1..Len(backlog'), NEW j \in 1..Len(backlog'), i < j
                   PROVE  backlog'[i] < backlog'[j]
        OBVIOUS
      <4>1. i + 1 \in 1..Len(backlog) /\ i # Len(backlog) /\ backlog'[i] = backlog[i + 1]
        BY <3>1, <3>2
      <4>2. CASE j = Len(backlog)
        BY <3>2, <3>3, <4>1, <4>2
      <4>3. CASE j # Len(backlog)
        <5>1. j + 1 \in 1..Len(backlog) /\ backlog'[j] = backlog[j + 1] /\ i + 1 < j + 1
          BY <3>1, <3>2, <4>3
        <5> QED
          BY <4>1, <5>1
      <4> QED
        BY <4>2, <4>3
    <3>5. \A i \in 1..Len(backlog') : handedOut < backlog'[i] /\ backlog'[i] <= arrived
      BY <1>5, <3>1, <3>2, <3>3 DEF Spill
    <3>6. TypeOK'
      BY <1>5, <3>1 DEF Spill
    <3>7. Len(backlog') <= Capacity
      BY <3>1
    <3>8. handedOut' <= arrived'
      BY <1>5 DEF Spill
    <3> QED
      BY <1>5, <3>4, <3>5, <3>6, <3>7, <3>8 DEF Spill
  <2> QED
    BY <2>1, <2>2
<1>6. CASE HandOut
  <2>1. backlog' \in Seq(Nat) /\ Len(backlog') = Len(backlog) - 1 /\ 1 \in 1..Len(backlog)
    BY <1>6 DEF HandOut
  <2>2. \A i \in 1..Len(backlog') : backlog'[i] = backlog[i + 1]
    BY <1>6 DEF HandOut
  <2>3. handedOut' = backlog[1] /\ handedOut' \in Nat
    BY <1>6, <2>1 DEF HandOut
  <2> QED
    BY <1>6, <2>1, <2>2, <2>3 DEF HandOut
<1>7. CASE Close
  <2>1. backlog' \in Seq(Nat) /\ Len(backlog') = 0
    BY <1>7 DEF Close
  <2>2. TypeOK'
    BY <1>7, <2>1 DEF Close
  <2>3. InOrder'
    BY <1>7, <2>1 DEF Close
  <2> QED
    BY <1>7, <2>2, <2>3 DEF Close
<1>8. CASE UNCHANGED vars
  BY <1>8 DEF vars
<1> HIDE DEF IInv, TypeOK, InOrder, SpillIsNewest
<1> QED
  BY <1>1, <1>2, <1>3, <1>4, <1>5, <1>6, <1>7, <1>8 DEF Next

\* The channel never reorders, repeats or buffers beyond its capacity, for
\* every capacity: what fetch_report promises its caller.
THEOREM HandsOutInOrder ==
    ASSUME Capacity \in Nat \ {0}
    PROVE  Spec => []InOrder
<1>1. Init => IInv
  BY InitIInv
<1>2. IInv /\ [Next]_vars => IInv'
  BY StepIInv
<1>3. IInv => InOrder
  BY DEF IInv
<1> QED
  BY <1>1, <1>2, <1>3, PTL DEF Spec
=============================================================================
