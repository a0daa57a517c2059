------------------------- MODULE PahoTransportProofs -------------------------
(***************************************************************************)
(* PahoTransport for every queue capacity and every number of reports,     *)
(* connections and losses: its inductive invariant, the invariants that    *)
(* follow, and that it implements ReportChannel.                           *)
(***************************************************************************)
EXTENDS PahoTransport, TLAPS

ConnectSteps == {"tcp", "wait", "timedOut", "refused"}
OpenSteps == {"subscribe", "take", "refreshSubscribe", "publish", "stopping"}

\* Where the caller stands agrees with _is_connected; only a connected wrapper
\* has receive state or a callback in progress, and before it counts as
\* connected its network thread can receive nothing.
ConnectionInv ==
    /\ pc \in ConnectSteps => ~isConnected
    /\ pc \in OpenSteps => isConnected
    /\ ~isConnected => /\ net = "poll"
                       /\ queue = <<>> /\ ~marker
                       /\ dropped = 0 /\ handedOut = 0 /\ queued = 0 /\ taken = 0
    /\ ~isConnected /\ loop => ~brokerSub
    /\ ~isConnected /\ pc \in {"idle", "tcp"} => ~loop

\* How full the queue is at each step of _on_message: between Full and
\* get_nowait at most one report goes, to a fetch_report already waiting.
QueueInv ==
    /\ Len(queue) <= Capacity
    /\ net = "offer" => sent > 0
    /\ net = "evict" => Len(queue) = Capacity \/ (Len(queue) + 1 = Capacity /\ pc \in {"idle", "stopping"})
    /\ net = "reoffer" => Len(queue) < Capacity
    /\ queued = taken + Len(queue) + dropped

\* The event, read while connect() waits, is of this connect().
AckInv ==
    /\ pc = "tcp" => ~acked
    /\ pc = "wait" /\ acked /\ failure = "none" => ackedIn = connects
    /\ isConnected => ackedIn = connects

\* A connection that was never lost is up once its CONNACK is accepted, and
\* then the broker knows every subscription the wrapper has marked.
SteadyInv ==
    /\ steady => link # "lost"
    /\ steady /\ isConnected => link = "up"
    /\ steady /\ pc = "wait" /\ acked /\ failure = "none" => link = "up"
    /\ MarkedIsSubscribed

IInv == TypeOK /\ ConnectionInv /\ QueueInv /\ AckInv /\ SteadyInv

\* The queue of a new connection has its type.
LEMMA EmptyQueue == <<>> \in Seq(Nat)
  OBVIOUS

\* Every step keeps the types.
LEMMA StepTypeOK == IInv /\ [Next]_vars => TypeOK'
<1> SUFFICES ASSUME IInv, [Next]_vars PROVE TypeOK'
  OBVIOUS
<1> USE CapacityAssumption, BoundAssumption, EmptyQueue DEF IInv, TypeOK, Steps, Failures, Results, NetSteps, Links,
       callerVars, sharedVars, netVars, brokerVars, histVars, receiveVars
<1>1. CASE Connect
  <2>1. CASE isConnected
    BY <1>1, <2>1 DEF Connect, ResetReceiveState, LockFree, Return
  <2>2. CASE ~isConnected
    <3>1. pc' \in Steps /\ result' \in Results /\ failure' \in Failures
      BY <1>1, <2>2 DEF Connect, ResetReceiveState, LockFree, Return
    <3>2. link' \in Links /\ net' \in NetSteps /\ queue' \in Seq(Nat)
      BY <1>1, <2>2 DEF Connect, ResetReceiveState, LockFree, Return
    <3>3. /\ sent' \in Nat /\ losses' \in Nat /\ connects' \in Nat /\ ackedIn' \in Nat
          /\ dropped' \in Nat /\ handedOut' \in Nat /\ queued' \in Nat /\ taken' \in Nat
      BY <1>1, <2>2 DEF Connect, ResetReceiveState, LockFree, Return
    <3>4. /\ acked' \in BOOLEAN /\ hasQueue' \in BOOLEAN /\ marker' \in BOOLEAN
          /\ loop' \in BOOLEAN /\ brokerSub' \in BOOLEAN /\ steady' \in BOOLEAN
          /\ isConnected' \in BOOLEAN /\ refreshTried' \in BOOLEAN
      BY <1>1, <2>2 DEF Connect, ResetReceiveState, LockFree, Return
    <3> QED
      BY <3>1, <3>2, <3>3, <3>4
  <2> QED
    BY <2>1, <2>2
<1>2. CASE TcpConnect
  <2>1. pc' \in Steps /\ result' \in Results /\ failure' \in Failures
    BY <1>2 DEF TcpConnect
  <2>2. link' \in Links /\ net' \in NetSteps /\ queue' \in Seq(Nat)
    BY <1>2 DEF TcpConnect
  <2>3. /\ sent' \in Nat /\ losses' \in Nat /\ connects' \in Nat /\ ackedIn' \in Nat
        /\ dropped' \in Nat /\ handedOut' \in Nat /\ queued' \in Nat /\ taken' \in Nat
    BY <1>2 DEF TcpConnect
  <2>4. /\ acked' \in BOOLEAN /\ hasQueue' \in BOOLEAN /\ marker' \in BOOLEAN
        /\ loop' \in BOOLEAN /\ brokerSub' \in BOOLEAN /\ steady' \in BOOLEAN
        /\ isConnected' \in BOOLEAN /\ refreshTried' \in BOOLEAN
    BY <1>2 DEF TcpConnect
  <2> QED
    BY <2>1, <2>2, <2>3, <2>4
<1>3. CASE TcpFails
  BY <1>3 DEF TcpFails, ResetReceiveState, LockFree, Return
<1>4. CASE WaitTimesOut
  BY <1>4 DEF WaitTimesOut
<1>5. CASE Acknowledged
  <2>1. CASE failure = "none"
    BY <1>5, <2>1 DEF Acknowledged, Return
  <2>2. CASE failure # "none"
    BY <1>5, <2>2 DEF Acknowledged, Return
  <2> QED
    BY <2>1, <2>2
<1>6. CASE GiveUp
  BY <1>6 DEF GiveUp, StopLoop, ResetReceiveState, LockFree, Return
<1>7. CASE FetchReport
  BY <1>7 DEF FetchReport, EnsureSubscription, LockFree
<1>8. CASE RequestRefresh
  <2>1. CASE refreshTried
    BY <1>8, <2>1 DEF RequestRefresh, EnsureSubscription, LockFree, Return
  <2>2. CASE ~refreshTried
    <3>1. pc' \in Steps /\ result' \in Results /\ failure' \in Failures
      BY <1>8, <2>2 DEF RequestRefresh, EnsureSubscription, LockFree, Return
    <3>2. link' \in Links /\ net' \in NetSteps /\ queue' \in Seq(Nat)
      BY <1>8, <2>2 DEF RequestRefresh, EnsureSubscription, LockFree, Return
    <3>3. /\ sent' \in Nat /\ losses' \in Nat /\ connects' \in Nat /\ ackedIn' \in Nat
          /\ dropped' \in Nat /\ handedOut' \in Nat /\ queued' \in Nat /\ taken' \in Nat
      BY <1>8, <2>2 DEF RequestRefresh, EnsureSubscription, LockFree, Return
    <3>4. /\ acked' \in BOOLEAN /\ hasQueue' \in BOOLEAN /\ marker' \in BOOLEAN
          /\ loop' \in BOOLEAN /\ brokerSub' \in BOOLEAN /\ steady' \in BOOLEAN
          /\ isConnected' \in BOOLEAN /\ refreshTried' \in BOOLEAN
      BY <1>8, <2>2 DEF RequestRefresh, EnsureSubscription, LockFree, Return
    <3> QED
      BY <3>1, <3>2, <3>3, <3>4
  <2> QED
    BY <2>1, <2>2
<1>9. CASE SubscribeSent
  BY <1>9 DEF SubscribeSent
<1>10. CASE SubscribeFails
  BY <1>10 DEF SubscribeFails, LockFree, Return
<1>11. CASE PublishRefresh
  BY <1>11 DEF PublishRefresh, Return
<1>12. CASE TakeReport
  BY <1>12 DEF TakeReport, Return
<1>13. CASE TakeTimesOut
  BY <1>13 DEF TakeTimesOut, Return
<1>14. CASE Disconnect
  <2>1. CASE isConnected
    BY <1>14, <2>1 DEF Disconnect, ResetReceiveState, LockFree, Return
  <2>2. CASE ~isConnected
    <3>1. pc' \in Steps /\ result' \in Results /\ failure' \in Failures
      BY <1>14, <2>2 DEF Disconnect, ResetReceiveState, LockFree, Return
    <3>2. link' \in Links /\ net' \in NetSteps /\ queue' \in Seq(Nat)
      BY <1>14, <2>2 DEF Disconnect, ResetReceiveState, LockFree, Return
    <3>3. /\ sent' \in Nat /\ losses' \in Nat /\ connects' \in Nat /\ ackedIn' \in Nat
          /\ dropped' \in Nat /\ handedOut' \in Nat /\ queued' \in Nat /\ taken' \in Nat
      BY <1>14, <2>2 DEF Disconnect, ResetReceiveState, LockFree, Return
    <3>4. /\ acked' \in BOOLEAN /\ hasQueue' \in BOOLEAN /\ marker' \in BOOLEAN
          /\ loop' \in BOOLEAN /\ brokerSub' \in BOOLEAN /\ steady' \in BOOLEAN
          /\ isConnected' \in BOOLEAN /\ refreshTried' \in BOOLEAN
      BY <1>14, <2>2 DEF Disconnect, ResetReceiveState, LockFree, Return
    <3> QED
      BY <3>1, <3>2, <3>3, <3>4
  <2> QED
    BY <2>1, <2>2
<1>15. CASE FinishDisconnect
  BY <1>15 DEF FinishDisconnect, StopLoop, ResetReceiveState, LockFree
<1>16. CASE ConnackAccepted
  BY <1>16 DEF ConnackAccepted
<1>17. CASE ConnackRefused
  <2>1. pc' \in Steps /\ result' \in Results /\ failure' \in Failures
    BY <1>17 DEF ConnackRefused
  <2>2. link' \in Links /\ net' \in NetSteps /\ queue' \in Seq(Nat)
    BY <1>17 DEF ConnackRefused
  <2>3. /\ sent' \in Nat /\ losses' \in Nat /\ connects' \in Nat /\ ackedIn' \in Nat
        /\ dropped' \in Nat /\ handedOut' \in Nat /\ queued' \in Nat /\ taken' \in Nat
    BY <1>17 DEF ConnackRefused
  <2>4. /\ acked' \in BOOLEAN /\ hasQueue' \in BOOLEAN /\ marker' \in BOOLEAN
        /\ loop' \in BOOLEAN /\ brokerSub' \in BOOLEAN /\ steady' \in BOOLEAN
        /\ isConnected' \in BOOLEAN /\ refreshTried' \in BOOLEAN
    BY <1>17 DEF ConnackRefused
  <2> QED
    BY <2>1, <2>2, <2>3, <2>4
<1>18. CASE ReconnectFails
  BY <1>18 DEF ReconnectFails
<1>19. CASE ReceiveReport
  BY <1>19 DEF ReceiveReport
<1>20. CASE OfferReport
  <2>1. CASE Len(queue) < Capacity
    BY <1>20, <2>1 DEF OfferReport
  <2>2. CASE Len(queue) >= Capacity
    BY <1>20, <2>2 DEF OfferReport
  <2> QED
    BY <2>1, <2>2
<1>21. CASE EvictOldest
  BY <1>21 DEF EvictOldest
<1>22. CASE ReofferReport
  BY <1>22 DEF ReofferReport
<1>23. CASE LinkLost
  <2>1. pc' \in Steps /\ result' \in Results /\ failure' \in Failures
    BY <1>23 DEF LinkLost
  <2>2. link' \in Links /\ net' \in NetSteps /\ queue' \in Seq(Nat)
    BY <1>23 DEF LinkLost
  <2>3. /\ sent' \in Nat /\ losses' \in Nat /\ connects' \in Nat /\ ackedIn' \in Nat
        /\ dropped' \in Nat /\ handedOut' \in Nat /\ queued' \in Nat /\ taken' \in Nat
    BY <1>23 DEF LinkLost
  <2>4. /\ acked' \in BOOLEAN /\ hasQueue' \in BOOLEAN /\ marker' \in BOOLEAN
        /\ loop' \in BOOLEAN /\ brokerSub' \in BOOLEAN /\ steady' \in BOOLEAN
        /\ isConnected' \in BOOLEAN /\ refreshTried' \in BOOLEAN
    BY <1>23 DEF LinkLost
  <2> QED
    BY <2>1, <2>2, <2>3, <2>4
<1>24. CASE Reconnect
  BY <1>24 DEF Reconnect
<1>25. CASE UNCHANGED vars
  BY <1>25 DEF vars
<1> QED
  BY <1>1, <1>2, <1>3, <1>4, <1>5, <1>6, <1>7, <1>8, <1>9, <1>10, <1>11, <1>12, <1>13, <1>14, <1>15, <1>16, <1>17, <1>18, <1>19, <1>20, <1>21, <1>22, <1>23, <1>24, <1>25
     DEF Next, Caller, Network, Environment, InsideCall, InsideOnMessage

\* Every step keeps the caller's position and the connection in agreement.
LEMMA StepConnectionInv == IInv /\ [Next]_vars => ConnectionInv'
<1> SUFFICES ASSUME IInv, [Next]_vars PROVE ConnectionInv'
  OBVIOUS
<1> USE DEF IInv, ConnectionInv, ConnectSteps, OpenSteps,
       callerVars, sharedVars, netVars, brokerVars, histVars, receiveVars
<1>1. CASE Connect
  BY <1>1 DEF Connect, ResetReceiveState, LockFree, Return
<1>2. CASE TcpConnect
  BY <1>2 DEF TcpConnect
<1>3. CASE TcpFails
  BY <1>3 DEF TcpFails, ResetReceiveState, LockFree, Return
<1>4. CASE WaitTimesOut
  BY <1>4 DEF WaitTimesOut
<1>5. CASE Acknowledged
  BY <1>5 DEF Acknowledged, Return
<1>6. CASE GiveUp
  BY <1>6 DEF GiveUp, StopLoop, ResetReceiveState, LockFree, Return
<1>7. CASE FetchReport
  BY <1>7 DEF FetchReport, EnsureSubscription, LockFree
<1>8. CASE RequestRefresh
  BY <1>8 DEF RequestRefresh, EnsureSubscription, LockFree, Return
<1>9. CASE SubscribeSent
  <2>1. isConnected /\ isConnected' = isConnected /\ pc' \in {"take", "publish"}
    BY <1>9 DEF SubscribeSent
  <2> QED
    BY <2>1
<1>10. CASE SubscribeFails
  BY <1>10 DEF SubscribeFails, LockFree, Return
<1>11. CASE PublishRefresh
  BY <1>11 DEF PublishRefresh, Return
<1>12. CASE TakeReport
  BY <1>12 DEF TakeReport, Return
<1>13. CASE TakeTimesOut
  BY <1>13 DEF TakeTimesOut, Return
<1>14. CASE Disconnect
  BY <1>14 DEF Disconnect, ResetReceiveState, LockFree, Return
<1>15. CASE FinishDisconnect
  BY <1>15 DEF FinishDisconnect, StopLoop, ResetReceiveState, LockFree
<1>16. CASE ConnackAccepted
  BY <1>16 DEF ConnackAccepted
<1>17. CASE ConnackRefused
  BY <1>17 DEF ConnackRefused
<1>18. CASE ReconnectFails
  BY <1>18 DEF ReconnectFails
<1>19. CASE ReceiveReport
  BY <1>19 DEF ReceiveReport
<1>20. CASE OfferReport
  BY <1>20 DEF OfferReport
<1>21. CASE EvictOldest
  BY <1>21 DEF EvictOldest
<1>22. CASE ReofferReport
  BY <1>22 DEF ReofferReport
<1>23. CASE LinkLost
  BY <1>23 DEF LinkLost
<1>24. CASE Reconnect
  BY <1>24 DEF Reconnect
<1>25. CASE UNCHANGED vars
  BY <1>25 DEF vars
<1> QED
  BY <1>1, <1>2, <1>3, <1>4, <1>5, <1>6, <1>7, <1>8, <1>9, <1>10, <1>11, <1>12, <1>13, <1>14, <1>15, <1>16, <1>17, <1>18, <1>19, <1>20, <1>21, <1>22, <1>23, <1>24, <1>25
     DEF Next, Caller, Network, Environment, InsideCall, InsideOnMessage

\* Every step keeps the queue within its capacity and its account.
LEMMA StepQueueInv == IInv /\ [Next]_vars => QueueInv'
<1> SUFFICES ASSUME IInv, [Next]_vars PROVE QueueInv'
  OBVIOUS
<1> USE CapacityAssumption DEF IInv, TypeOK, ConnectionInv, QueueInv, ConnectSteps, OpenSteps,
       callerVars, sharedVars, netVars, brokerVars, histVars, receiveVars
<1>1. CASE Connect
  BY <1>1 DEF Connect, ResetReceiveState, LockFree, Return
<1>2. CASE TcpConnect
  BY <1>2 DEF TcpConnect
<1>3. CASE TcpFails
  BY <1>3 DEF TcpFails, ResetReceiveState, LockFree, Return
<1>4. CASE WaitTimesOut
  BY <1>4 DEF WaitTimesOut
<1>5. CASE Acknowledged
  BY <1>5 DEF Acknowledged, Return
<1>6. CASE GiveUp
  BY <1>6 DEF GiveUp, StopLoop, ResetReceiveState, LockFree, Return
<1>7. CASE FetchReport
  BY <1>7 DEF FetchReport, EnsureSubscription, LockFree
<1>8. CASE RequestRefresh
  BY <1>8 DEF RequestRefresh, EnsureSubscription, LockFree, Return
<1>9. CASE SubscribeSent
  BY <1>9 DEF SubscribeSent
<1>10. CASE SubscribeFails
  BY <1>10 DEF SubscribeFails, LockFree, Return
<1>11. CASE PublishRefresh
  BY <1>11 DEF PublishRefresh, Return
<1>12. CASE TakeReport
  BY <1>12 DEF TakeReport, Return
<1>13. CASE TakeTimesOut
  BY <1>13 DEF TakeTimesOut, Return
<1>14. CASE Disconnect
  BY <1>14 DEF Disconnect, ResetReceiveState, LockFree, Return
<1>15. CASE FinishDisconnect
  BY <1>15 DEF FinishDisconnect, StopLoop, ResetReceiveState, LockFree
<1>16. CASE ConnackAccepted
  BY <1>16 DEF ConnackAccepted
<1>17. CASE ConnackRefused
  BY <1>17 DEF ConnackRefused
<1>18. CASE ReconnectFails
  BY <1>18 DEF ReconnectFails
<1>19. CASE ReceiveReport
  BY <1>19 DEF ReceiveReport
<1>20. CASE OfferReport
  <2>1. net = "offer" /\ isConnected /\ pc' = pc /\ sent' = sent
    BY <1>20 DEF OfferReport
  <2>2. CASE Len(queue) < Capacity
    <3>1. Len(queue') = Len(queue) + 1
      BY <1>20, <2>2 DEF OfferReport
    <3> QED
      BY <1>20, <2>1, <2>2, <3>1 DEF OfferReport
  <2>3. CASE Len(queue) >= Capacity
    BY <1>20, <2>1, <2>3 DEF OfferReport
  <2> QED
    BY <2>2, <2>3
<1>21. CASE EvictOldest
  BY <1>21 DEF EvictOldest
<1>22. CASE ReofferReport
  BY <1>22 DEF ReofferReport
<1>23. CASE LinkLost
  BY <1>23 DEF LinkLost
<1>24. CASE Reconnect
  BY <1>24 DEF Reconnect
<1>25. CASE UNCHANGED vars
  BY <1>25 DEF vars
<1> QED
  BY <1>1, <1>2, <1>3, <1>4, <1>5, <1>6, <1>7, <1>8, <1>9, <1>10, <1>11, <1>12, <1>13, <1>14, <1>15, <1>16, <1>17, <1>18, <1>19, <1>20, <1>21, <1>22, <1>23, <1>24, <1>25
     DEF Next, Caller, Network, Environment, InsideCall, InsideOnMessage

\* Every step keeps the event of an earlier connect() out of this one.
LEMMA StepAckInv == IInv /\ [Next]_vars => AckInv'
<1> SUFFICES ASSUME IInv, [Next]_vars PROVE AckInv'
  OBVIOUS
<1> USE DEF IInv, TypeOK, ConnectionInv, AckInv, ConnectSteps, OpenSteps,
       callerVars, sharedVars, netVars, brokerVars, histVars, receiveVars
<1>1. CASE Connect
  BY <1>1 DEF Connect, ResetReceiveState, LockFree, Return
<1>2. CASE TcpConnect
  BY <1>2 DEF TcpConnect
<1>3. CASE TcpFails
  BY <1>3 DEF TcpFails, ResetReceiveState, LockFree, Return
<1>4. CASE WaitTimesOut
  BY <1>4 DEF WaitTimesOut
<1>5. CASE Acknowledged
  BY <1>5 DEF Acknowledged, Return
<1>6. CASE GiveUp
  BY <1>6 DEF GiveUp, StopLoop, ResetReceiveState, LockFree, Return
<1>7. CASE FetchReport
  BY <1>7 DEF FetchReport, EnsureSubscription, LockFree
<1>8. CASE RequestRefresh
  BY <1>8 DEF RequestRefresh, EnsureSubscription, LockFree, Return
<1>9. CASE SubscribeSent
  BY <1>9 DEF SubscribeSent
<1>10. CASE SubscribeFails
  BY <1>10 DEF SubscribeFails, LockFree, Return
<1>11. CASE PublishRefresh
  BY <1>11 DEF PublishRefresh, Return
<1>12. CASE TakeReport
  BY <1>12 DEF TakeReport, Return
<1>13. CASE TakeTimesOut
  BY <1>13 DEF TakeTimesOut, Return
<1>14. CASE Disconnect
  BY <1>14 DEF Disconnect, ResetReceiveState, LockFree, Return
<1>15. CASE FinishDisconnect
  BY <1>15 DEF FinishDisconnect, StopLoop, ResetReceiveState, LockFree
<1>16. CASE ConnackAccepted
  BY <1>16 DEF ConnackAccepted
<1>17. CASE ConnackRefused
  BY <1>17 DEF ConnackRefused
<1>18. CASE ReconnectFails
  BY <1>18 DEF ReconnectFails
<1>19. CASE ReceiveReport
  BY <1>19 DEF ReceiveReport
<1>20. CASE OfferReport
  BY <1>20 DEF OfferReport
<1>21. CASE EvictOldest
  BY <1>21 DEF EvictOldest
<1>22. CASE ReofferReport
  BY <1>22 DEF ReofferReport
<1>23. CASE LinkLost
  BY <1>23 DEF LinkLost
<1>24. CASE Reconnect
  BY <1>24 DEF Reconnect
<1>25. CASE UNCHANGED vars
  BY <1>25 DEF vars
<1> QED
  BY <1>1, <1>2, <1>3, <1>4, <1>5, <1>6, <1>7, <1>8, <1>9, <1>10, <1>11, <1>12, <1>13, <1>14, <1>15, <1>16, <1>17, <1>18, <1>19, <1>20, <1>21, <1>22, <1>23, <1>24, <1>25
     DEF Next, Caller, Network, Environment, InsideCall, InsideOnMessage

\* Every step keeps the marks and the subscriptions of an unbroken connection
\* in agreement.
LEMMA StepSteadyInv == IInv /\ [Next]_vars => SteadyInv'
<1> SUFFICES ASSUME IInv, [Next]_vars PROVE SteadyInv'
  OBVIOUS
<1> USE DEF IInv, TypeOK, ConnectionInv, AckInv, SteadyInv, MarkedIsSubscribed, ConnectSteps, OpenSteps,
       callerVars, sharedVars, netVars, brokerVars, histVars, receiveVars
<1>1. CASE Connect
  BY <1>1 DEF Connect, ResetReceiveState, LockFree, Return
<1>2. CASE TcpConnect
  BY <1>2 DEF TcpConnect
<1>3. CASE TcpFails
  BY <1>3 DEF TcpFails, ResetReceiveState, LockFree, Return
<1>4. CASE WaitTimesOut
  BY <1>4 DEF WaitTimesOut
<1>5. CASE Acknowledged
  BY <1>5 DEF Acknowledged, Return
<1>6. CASE GiveUp
  BY <1>6 DEF GiveUp, StopLoop, ResetReceiveState, LockFree, Return
<1>7. CASE FetchReport
  BY <1>7 DEF FetchReport, EnsureSubscription, LockFree
<1>8. CASE RequestRefresh
  BY <1>8 DEF RequestRefresh, EnsureSubscription, LockFree, Return
<1>9. CASE SubscribeSent
  BY <1>9 DEF SubscribeSent
<1>10. CASE SubscribeFails
  BY <1>10 DEF SubscribeFails, LockFree, Return
<1>11. CASE PublishRefresh
  BY <1>11 DEF PublishRefresh, Return
<1>12. CASE TakeReport
  BY <1>12 DEF TakeReport, Return
<1>13. CASE TakeTimesOut
  BY <1>13 DEF TakeTimesOut, Return
<1>14. CASE Disconnect
  BY <1>14 DEF Disconnect, ResetReceiveState, LockFree, Return
<1>15. CASE FinishDisconnect
  BY <1>15 DEF FinishDisconnect, StopLoop, ResetReceiveState, LockFree
<1>16. CASE ConnackAccepted
  BY <1>16 DEF ConnackAccepted
<1>17. CASE ConnackRefused
  BY <1>17 DEF ConnackRefused
<1>18. CASE ReconnectFails
  BY <1>18 DEF ReconnectFails
<1>19. CASE ReceiveReport
  BY <1>19 DEF ReceiveReport
<1>20. CASE OfferReport
  BY <1>20 DEF OfferReport
<1>21. CASE EvictOldest
  BY <1>21 DEF EvictOldest
<1>22. CASE ReofferReport
  BY <1>22 DEF ReofferReport
<1>23. CASE LinkLost
  BY <1>23 DEF LinkLost
<1>24. CASE Reconnect
  BY <1>24 DEF Reconnect
<1>25. CASE UNCHANGED vars
  BY <1>25 DEF vars
<1> QED
  BY <1>1, <1>2, <1>3, <1>4, <1>5, <1>6, <1>7, <1>8, <1>9, <1>10, <1>11, <1>12, <1>13, <1>14, <1>15, <1>16, <1>17, <1>18, <1>19, <1>20, <1>21, <1>22, <1>23, <1>24, <1>25
     DEF Next, Caller, Network, Environment, InsideCall, InsideOnMessage

\* The invariant holds of every reachable state, whatever the bounds.
LEMMA Invariant == Spec => []IInv
<1>1. Init => IInv
  <2> SUFFICES ASSUME Init PROVE IInv
    OBVIOUS
  <2>1. TypeOK
    BY EmptyQueue DEF Init, TypeOK, Steps, Failures, Results, NetSteps, Links
  <2>2. ConnectionInv
    BY DEF Init, ConnectionInv, ConnectSteps, OpenSteps
  <2>3. QueueInv
    <3>1. Len(queue) = 0
      BY DEF Init
    <3> QED
      BY <3>1, CapacityAssumption DEF Init, QueueInv
  <2>4. AckInv
    BY DEF Init, AckInv
  <2>5. SteadyInv
    BY DEF Init, SteadyInv, MarkedIsSubscribed
  <2> QED
    BY <2>1, <2>2, <2>3, <2>4, <2>5 DEF IInv
<1>2. IInv /\ [Next]_vars => IInv'
  BY StepTypeOK, StepConnectionInv, StepQueueInv, StepAckInv, StepSteadyInv DEF IInv
<1> QED
  BY <1>1, <1>2, PTL DEF Spec

\* Every variable keeps its type.
THEOREM TypeCorrect == Spec => []TypeOK
  BY Invariant, PTL DEF IInv

\* No report of a connection is lost without being counted, and the second
\* put_nowait of _on_message cannot raise Full, whatever the capacity.
THEOREM NoReportUnaccounted == Spec => []ReportsAccounted
<1>1. IInv => ReportsAccounted
  <2> SUFFICES ASSUME IInv PROVE ReportsAccounted
    OBVIOUS
  <2>1. queue \in Seq(Nat) /\ (queue = <<>> => Len(queue) = 0)
    BY DEF IInv, TypeOK
  <2> QED
    BY <2>1, CapacityAssumption DEF IInv, QueueInv, ReportsAccounted
<1> QED
  BY Invariant, <1>1, PTL

\* connect() never takes the CONNACK of an earlier attempt for its own.
THEOREM OwnConnack == Spec => []ConnectedByOwnConnack
<1>1. IInv => ConnectedByOwnConnack
  BY DEF IInv, AckInv, ConnectedByOwnConnack
<1> QED
  BY Invariant, <1>1, PTL

\* Whichever way connect() failed or disconnect() ended, no network thread, no
\* callback and no receive state is left (the MQTT connection may be).
THEOREM NothingRunsOn == Spec => []QuietWhenClosed
<1>1. IInv => QuietWhenClosed
  BY DEF IInv, ConnectionInv, QuietWhenClosed
<1> QED
  BY Invariant, <1>1, PTL

\* On a connection that was never lost the broker has a subscription for every
\* marked topic, whatever subscriptions failed and whenever they were sent.
THEOREM MarksAreSubscribed == Spec => []MarkedIsSubscribed
  BY Invariant, PTL DEF IInv, SteadyInv

-----------------------------------------------------------------------------

\* A step of the callers, the network thread or the connection is a step of
\* the channel, or leaves it as it is.
LEMMA StepRefines == IInv /\ [Next]_vars => [Channel!Next]_(Channel!vars)
<1> SUFFICES ASSUME IInv, [Next]_vars PROVE [Channel!Next]_(Channel!vars)
  OBVIOUS
<1> USE CapacityAssumption
    DEF IInv, TypeOK, ConnectionInv, QueueInv, ConnectSteps, OpenSteps, Channel!vars,
        callerVars, sharedVars, netVars, brokerVars, histVars, receiveVars
<1>1. CASE Connect
  <2>1. UNCHANGED Channel!vars
    BY <1>1 DEF Connect, ResetReceiveState, LockFree, Return
  <2> QED
    BY <2>1
<1>2. CASE TcpConnect
  <2>1. UNCHANGED Channel!vars
    BY <1>2 DEF TcpConnect
  <2> QED
    BY <2>1
<1>3. CASE TcpFails
  <2>1. UNCHANGED Channel!vars
    BY <1>3 DEF TcpFails, ResetReceiveState, LockFree, Return
  <2> QED
    BY <2>1
<1>4. CASE WaitTimesOut
  <2>1. UNCHANGED Channel!vars
    BY <1>4 DEF WaitTimesOut
  <2> QED
    BY <2>1
<1>5. CASE GiveUp
  <2>1. UNCHANGED Channel!vars
    BY <1>5 DEF GiveUp, StopLoop, ResetReceiveState, LockFree, Return
  <2> QED
    BY <2>1
<1>6. CASE FetchReport
  <2>1. UNCHANGED Channel!vars
    BY <1>6 DEF FetchReport, EnsureSubscription, LockFree
  <2> QED
    BY <2>1
<1>7. CASE RequestRefresh
  <2>1. UNCHANGED Channel!vars
    BY <1>7 DEF RequestRefresh, EnsureSubscription, LockFree, Return
  <2> QED
    BY <2>1
<1>8. CASE SubscribeSent
  <2>1. UNCHANGED Channel!vars
    BY <1>8 DEF SubscribeSent
  <2> QED
    BY <2>1
<1>9. CASE SubscribeFails
  <2>1. UNCHANGED Channel!vars
    BY <1>9 DEF SubscribeFails, LockFree, Return
  <2> QED
    BY <2>1
<1>10. CASE PublishRefresh
  <2>1. UNCHANGED Channel!vars
    BY <1>10 DEF PublishRefresh, Return
  <2> QED
    BY <2>1
<1>11. CASE TakeTimesOut
  <2>1. UNCHANGED Channel!vars
    BY <1>11 DEF TakeTimesOut, Return
  <2> QED
    BY <2>1
<1>12. CASE Disconnect
  <2>1. UNCHANGED Channel!vars
    BY <1>12 DEF Disconnect, ResetReceiveState, LockFree, Return
  <2> QED
    BY <2>1
<1>13. CASE ConnackAccepted
  <2>1. UNCHANGED Channel!vars
    BY <1>13 DEF ConnackAccepted
  <2> QED
    BY <2>1
<1>14. CASE ConnackRefused
  <2>1. UNCHANGED Channel!vars
    BY <1>14 DEF ConnackRefused
  <2> QED
    BY <2>1
<1>15. CASE ReconnectFails
  <2>1. UNCHANGED Channel!vars
    BY <1>15 DEF ReconnectFails
  <2> QED
    BY <2>1
<1>16. CASE LinkLost
  <2>1. UNCHANGED Channel!vars
    BY <1>16 DEF LinkLost
  <2> QED
    BY <2>1
<1>17. CASE Reconnect
  <2>1. UNCHANGED Channel!vars
    BY <1>17 DEF Reconnect
  <2> QED
    BY <2>1
<1>18. CASE UNCHANGED vars
  <2>1. UNCHANGED Channel!vars
    BY <1>18 DEF vars
  <2> QED
    BY <2>1
<1>19. CASE Acknowledged
  <2>1. Channel!Open \/ UNCHANGED Channel!vars
    BY <1>19 DEF Acknowledged, Return, Channel!Open
  <2> QED
    BY <2>1 DEF Channel!Next
<1>20. CASE FinishDisconnect
  <2>1. Channel!Close
    BY <1>20 DEF FinishDisconnect, StopLoop, ResetReceiveState, LockFree, Channel!Close
  <2> QED
    BY <2>1 DEF Channel!Next
<1>21. CASE ReceiveReport
  <2>1. Channel!Miss \/ UNCHANGED Channel!vars
    BY <1>21 DEF ReceiveReport, Channel!Miss
  <2> QED
    BY <2>1 DEF Channel!Next
<1>22. CASE OfferReport
  <2>1. isConnected
    BY <1>22 DEF OfferReport
  <2>2. CASE Len(queue) < Capacity
    <3>1. Channel!Accept
      BY <1>22, <2>1, <2>2 DEF OfferReport, Channel!Accept
    <3> QED
      BY <3>1 DEF Channel!Next
  <2>3. CASE Len(queue) >= Capacity
    <3>1. Channel!Overflow
      BY <1>22, <2>1, <2>3 DEF OfferReport, Channel!Overflow
    <3> QED
      BY <3>1 DEF Channel!Next
  <2> QED
    BY <2>2, <2>3
<1>23. CASE EvictOldest
  <2>1. isConnected /\ queue' = (IF queue = <<>> THEN queue ELSE Tail(queue))
    BY <1>23 DEF EvictOldest
  <2>2. Append(<<>>, sent) = <<sent>>
    OBVIOUS
  <2>3. Channel!Spill
    BY <1>23, <2>1, <2>2 DEF EvictOldest, Channel!Spill
  <2> QED
    BY <2>3 DEF Channel!Next
<1>24. CASE ReofferReport
  <2>1. UNCHANGED Channel!vars
    BY <1>24 DEF ReofferReport
  <2> QED
    BY <2>1
<1>25. CASE TakeReport
  <2>1. isConnected /\ queue # <<>>
    BY <1>25 DEF TakeReport
  <2>2. /\ Append(queue, sent) # <<>>
        /\ Head(Append(queue, sent)) = Head(queue)
        /\ Tail(Append(queue, sent)) = Append(Tail(queue), sent)
    BY <2>1
  <2>3. Channel!HandOut
    BY <1>25, <2>1, <2>2 DEF TakeReport, Return, Channel!HandOut
  <2> QED
    BY <2>3 DEF Channel!Next
<1> QED
  BY <1>1, <1>2, <1>3, <1>4, <1>5, <1>6, <1>7, <1>8, <1>9, <1>10, <1>11, <1>12, <1>13, <1>14, <1>15, <1>16, <1>17, <1>18, <1>19, <1>20, <1>21, <1>22, <1>23, <1>24, <1>25
     DEF Next, Caller, Network, Environment, InsideCall, InsideOnMessage

\* PahoMqttClient implements the channel: its threads, lock, event and
\* subscriptions are invisible to its caller.
THEOREM Refinement == Spec => ImplementsChannel
<1>1. Init => Channel!Init
  BY DEF Init, Channel!Init
<1> QED
  BY <1>1, StepRefines, Invariant, PTL DEF Spec, ImplementsChannel, Channel!Spec

\* The theorems of the channel, of this channel.
ChannelTheorems == INSTANCE ReportChannelProofs WITH
    open <- isConnected,
    arrived <- IF net = "offer" THEN sent - 1 ELSE sent,
    backlog <- IF net = "reoffer" THEN Append(queue, sent) ELSE queue,
    spilling <- net = "evict",
    handedOut <- handedOut

\* fetch_report() never reorders or repeats a report: it inherits this from
\* the channel it implements.
THEOREM InheritedOrder == Spec => []FetchesInOrder
<1>1. Channel!Init => ChannelTheorems!IInv
  BY ChannelTheorems!InitIInv, CapacityAssumption DEF Channel!Init, ChannelTheorems!Init
<1>2. [Channel!Next]_(Channel!vars) => [ChannelTheorems!Next]_(ChannelTheorems!vars)
  BY DEF Channel!Next, Channel!vars, Channel!Open, Channel!Miss, Channel!Accept,
         Channel!Overflow, Channel!Spill, Channel!HandOut, Channel!Close,
         ChannelTheorems!Next, ChannelTheorems!vars, ChannelTheorems!Open,
         ChannelTheorems!Miss, ChannelTheorems!Accept, ChannelTheorems!Overflow,
         ChannelTheorems!Spill, ChannelTheorems!HandOut, ChannelTheorems!Close
<1>3. ChannelTheorems!IInv /\ [Channel!Next]_(Channel!vars) => ChannelTheorems!IInv'
  BY <1>2, ChannelTheorems!StepIInv, CapacityAssumption
<1>4. ChannelTheorems!IInv => Channel!InOrder
  BY DEF ChannelTheorems!IInv, ChannelTheorems!InOrder, Channel!InOrder
<1> QED
  BY <1>1, <1>3, <1>4, Refinement, PTL DEF ImplementsChannel, FetchesInOrder, Channel!Spec
=============================================================================
