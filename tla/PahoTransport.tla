---------------------------- MODULE PahoTransport ----------------------------
(***************************************************************************)
(* PahoMqttClient of adapters/printer/transport.py: one caller thread that *)
(* connects, requests a refresh, fetches reports and disconnects, and      *)
(* paho's network thread that runs the three callbacks.                    *)
(*                                                                         *)
(* The two share _connected, _connack_failure, the report queue and the    *)
(* receive lock.  A section of the caller under the lock is one step that  *)
(* waits until the network thread does not hold it; _on_message is split   *)
(* into its queue operations, because fetch_report takes from the queue    *)
(* without the lock.  The production client uses one topic.                *)
(***************************************************************************)
EXTENDS Naturals, Sequences

CONSTANTS
    Capacity,      \* _REPORT_QUEUE_CAPACITY
    MaxReports,    \* bound: reports the printer sends
    MaxConnects,   \* bound: connect() calls on the wrapper
    MaxLosses      \* bound: connections lost under the wrapper

ASSUME CapacityAssumption == Capacity \in Nat \ {0}
ASSUME BoundAssumption == MaxReports \in Nat /\ MaxConnects \in Nat /\ MaxLosses \in Nat

VARIABLES
    \* the caller thread
    pc,           \* where the caller is inside the wrapper, "idle" outside
    result,       \* what the last call returned or raised
    isConnected,  \* _is_connected
    refreshTried, \* _refresh_attempted
    \* shared by the threads
    acked,        \* _connected, the event
    failure,      \* _connack_failure
    hasQueue,     \* the topic has an entry in _report_queues
    queue,        \* the queued reports, by number
    marker,       \* the topic is in _subscribed_topics
    dropped,      \* _dropped_report_count
    \* the network thread
    loop,         \* loop_start() has run and loop_stop() has not
    net,          \* where the network thread is inside _on_message
    \* the broker, external
    link,         \* state of the MQTT connection
    brokerSub,    \* the broker holds the subscription
    sent,         \* number of the newest report delivered to the client
    \* history and bounds
    handedOut,    \* number of the report fetched last on this connection
    queued,       \* reports put into the queue on this connection
    taken,        \* reports fetched on this connection
    ackedIn,      \* the connect() call during which a CONNACK accepted last
    steady,       \* the connection opened by the last connect() was never lost
    connects,     \* connect() calls so far
    losses        \* connections lost so far

callerVars == <<pc, result, isConnected, refreshTried>>
sharedVars == <<acked, failure, hasQueue, queue, marker, dropped>>
netVars == <<loop, net>>
brokerVars == <<link, brokerSub, sent>>
histVars == <<handedOut, queued, taken, ackedIn, steady, connects, losses>>
vars == <<callerVars, sharedVars, netVars, brokerVars, histVars>>

\* connect(): tcp, wait, timedOut, refused; fetch_report(): subscribe, take;
\* request_status_refresh(): refreshSubscribe, publish; disconnect(): stopping.
Steps == {"idle", "tcp", "wait", "timedOut", "refused", "subscribe", "take",
          "refreshSubscribe", "publish", "stopping"}
Failures == {"none", "auth", "unreachable"}
Results == {"none", "ok", "report", "nothing", "issued", "notIssued", "auth", "unreachable",
            "closed", "raised"}
NetSteps == {"poll", "offer", "evict", "reoffer"}
Links == {"down", "pending", "up", "lost"}

TypeOK ==
    /\ pc \in Steps
    /\ result \in Results
    /\ isConnected \in BOOLEAN
    /\ refreshTried \in BOOLEAN
    /\ acked \in BOOLEAN
    /\ failure \in Failures
    /\ hasQueue \in BOOLEAN
    /\ queue \in Seq(Nat)
    /\ marker \in BOOLEAN
    /\ dropped \in Nat
    /\ loop \in BOOLEAN
    /\ net \in NetSteps
    /\ link \in Links
    /\ brokerSub \in BOOLEAN
    /\ sent \in Nat
    /\ handedOut \in Nat
    /\ queued \in Nat
    /\ taken \in Nat
    /\ ackedIn \in Nat
    /\ steady \in BOOLEAN
    /\ connects \in Nat
    /\ losses \in Nat

Init ==
    /\ pc = "idle"
    /\ result = "none"
    /\ isConnected = FALSE
    /\ refreshTried = FALSE
    /\ acked = FALSE
    /\ failure = "none"
    /\ hasQueue = FALSE
    /\ queue = <<>>
    /\ marker = FALSE
    /\ dropped = 0
    /\ loop = FALSE
    /\ net = "poll"
    /\ link = "down"
    /\ brokerSub = FALSE
    /\ sent = 0
    /\ handedOut = 0
    /\ queued = 0
    /\ taken = 0
    /\ ackedIn = 0
    /\ steady = FALSE
    /\ connects = 0
    /\ losses = 0

\* The receive lock is free for the caller.
LockFree == net = "poll"

Return(r) == pc' = "idle" /\ result' = r

\* A reset that forgets the count of dropped reports.
ResetKeepsCount ==
    /\ LockFree
    /\ hasQueue' = FALSE
    /\ queue' = <<>>
    /\ marker' = FALSE
    /\ dropped' = dropped
    /\ handedOut' = 0
    /\ queued' = 0
    /\ taken' = 0

\* _reset_receive_state, one section under the receive lock; the history of
\* the connection ends with it.
ResetReceiveState ==
    /\ LockFree
    /\ hasQueue' = FALSE
    /\ queue' = <<>>
    /\ marker' = FALSE
    /\ dropped' = 0
    /\ handedOut' = 0
    /\ queued' = 0
    /\ taken' = 0

receiveVars == <<hasQueue, queue, marker, dropped, handedOut, queued, taken>>

\* loop_stop() ends and joins the network thread, so a callback in progress
\* ends first.  It closes no socket: the connection stays as it is.
StopLoop ==
    /\ LockFree
    /\ loop' = FALSE

-----------------------------------------------------------------------------
(* connect()                                                               *)

\* A connect() that does not clear the event of the attempt before it.
ConnectKeepsEvent ==
    /\ pc = "idle"
    /\ ~isConnected
    /\ connects < MaxConnects
    /\ connects' = connects + 1
    /\ ResetReceiveState
    /\ failure' = "none"
    /\ pc' = "tcp"
    /\ UNCHANGED <<result, acked, isConnected, refreshTried, netVars, brokerVars,
                   ackedIn, steady, losses>>

\* An active connection makes connect() a no-op; otherwise the receive state,
\* the event and the failure of an earlier attempt are cleared first.  tls_set
\* may refuse a client that has its TLS context already, as paho's does (the
\* client of the tests accepts it); that ValueError is not mapped.
Connect ==
    /\ pc = "idle"
    /\ \/ /\ isConnected
          /\ Return("ok")
          /\ UNCHANGED <<receiveVars, acked, failure, connects>>
       \/ /\ ~isConnected
          /\ ResetReceiveState
          /\ acked' = FALSE
          /\ failure' = "none"
          /\ \/ /\ connects < MaxConnects
                /\ connects' = connects + 1
                /\ pc' = "tcp"
                /\ UNCHANGED result
             \/ /\ connects > 0
                /\ Return("raised")
                /\ UNCHANGED connects
    /\ UNCHANGED <<isConnected, refreshTried, netVars, brokerVars, ackedIn, steady, losses>>

\* _client.connect() closes the socket of an earlier connection, opens a new
\* one and sends CONNECT; loop_start() follows.
TcpConnect ==
    /\ pc = "tcp"
    /\ pc' = "wait"
    /\ link' = "pending"
    /\ brokerSub' = FALSE
    /\ steady' = TRUE
    /\ loop' = TRUE
    /\ UNCHANGED <<result, isConnected, refreshTried, sharedVars, net, sent,
                   handedOut, queued, taken, ackedIn, connects, losses>>

\* The new socket does not open; the old one is closed all the same.
TcpFails ==
    /\ pc = "tcp"
    /\ link' = "down"
    /\ brokerSub' = FALSE
    /\ ResetReceiveState
    /\ Return("unreachable")
    /\ UNCHANGED <<isConnected, refreshTried, acked, failure, netVars, sent,
                   ackedIn, steady, connects, losses>>

\* _connected.wait() ran into its timeout: the event was not set by then.
WaitTimesOut ==
    /\ pc = "wait"
    /\ ~acked
    /\ pc' = "timedOut"
    /\ UNCHANGED <<result, isConnected, refreshTried, sharedVars, netVars, brokerVars, histVars>>

\* The event is set: the connection counts unless a failure was recorded.
Acknowledged ==
    /\ pc = "wait"
    /\ acked
    /\ \/ /\ failure = "none"
          /\ isConnected' = TRUE
          /\ Return("ok")
       \/ /\ failure # "none"
          /\ pc' = "refused"
          /\ UNCHANGED <<isConnected, result>>
    /\ UNCHANGED <<refreshTried, sharedVars, netVars, brokerVars, histVars>>

\* A connect() that times out and leaves the loop running.
GiveUpLoopRunning ==
    /\ pc = "timedOut"
    /\ ResetReceiveState
    /\ Return("unreachable")
    /\ UNCHANGED <<isConnected, refreshTried, acked, failure, netVars, brokerVars,
                   ackedIn, steady, connects, losses>>

\* Both failures stop the loop and reset, and leave the MQTT connection open;
\* the refusal raises whatever failure is recorded by then.
GiveUp ==
    /\ \/ pc = "timedOut" /\ Return("unreachable")
       \/ pc = "refused" /\ Return(failure)
    /\ StopLoop
    /\ ResetReceiveState
    /\ UNCHANGED <<isConnected, refreshTried, acked, failure, net, brokerVars,
                   ackedIn, steady, connects, losses>>

-----------------------------------------------------------------------------
(* fetch_report(), request_status_refresh(), disconnect()                  *)

\* The lock section of _ensure_subscription: the queue exists and the topic is
\* marked before the subscription is sent.
EnsureSubscription(subscribing, subscribed) ==
    /\ LockFree
    /\ hasQueue' = TRUE
    /\ marker' = TRUE
    /\ pc' = IF marker THEN subscribed ELSE subscribing
    /\ UNCHANGED <<queue, dropped, acked, failure>>

FetchReport ==
    /\ pc = "idle"
    /\ isConnected
    /\ EnsureSubscription("subscribe", "take")
    /\ UNCHANGED <<result, isConnected, refreshTried, netVars, brokerVars, histVars>>

\* A client asks for a refresh once, whatever becomes of it.
RequestRefresh ==
    /\ pc = "idle"
    /\ isConnected
    /\ \/ /\ refreshTried
          /\ Return("notIssued")
          /\ UNCHANGED <<refreshTried, sharedVars>>
       \/ /\ ~refreshTried
          /\ refreshTried' = TRUE
          /\ EnsureSubscription("refreshSubscribe", "publish")
          /\ UNCHANGED result
    /\ UNCHANGED <<isConnected, netVars, brokerVars, histVars>>

\* subscribe() reports success once the packet is written; on a connection
\* that is broken or not acknowledged yet it never reaches the broker.
SubscribeSent ==
    /\ pc \in {"subscribe", "refreshSubscribe"}
    /\ brokerSub' = (link = "up")
    /\ pc' = IF pc = "subscribe" THEN "take" ELSE "publish"
    /\ UNCHANGED <<result, isConnected, refreshTried, sharedVars, netVars, link, sent, histVars>>

\* A failed subscription whose mark stays.
SubscribeFailsMarked ==
    /\ pc \in {"subscribe", "refreshSubscribe"}
    /\ LockFree
    /\ Return("unreachable")
    /\ UNCHANGED <<isConnected, refreshTried, sharedVars, netVars, brokerVars, histVars>>

\* subscribe() raised or returned an error code: the mark is taken back, the
\* queue stays.
SubscribeFails ==
    /\ pc \in {"subscribe", "refreshSubscribe"}
    /\ LockFree
    /\ marker' = FALSE
    /\ Return("unreachable")
    /\ UNCHANGED <<isConnected, refreshTried, acked, failure, hasQueue, queue, dropped,
                   netVars, brokerVars, histVars>>

\* The reservation is refused, or the one publish is issued or fails.
PublishRefresh ==
    /\ pc = "publish"
    /\ \/ Return("notIssued")
       \/ Return("issued")
       \/ Return("unreachable")
    /\ UNCHANGED <<isConnected, refreshTried, sharedVars, netVars, brokerVars, histVars>>

\* A LifoQueue in place of the Queue.
TakeNewest ==
    /\ pc = "take"
    /\ queue # <<>>
    /\ handedOut' = queue[Len(queue)]
    /\ queue' = SubSeq(queue, 1, Len(queue) - 1)
    /\ taken' = taken + 1
    /\ Return("report")
    /\ UNCHANGED <<isConnected, refreshTried, acked, failure, hasQueue, marker, dropped,
                   netVars, brokerVars, queued, ackedIn, steady, connects, losses>>

\* Queue.get() takes the oldest report without the receive lock.
TakeReport ==
    /\ pc = "take"
    /\ queue # <<>>
    /\ handedOut' = Head(queue)
    /\ queue' = Tail(queue)
    /\ taken' = taken + 1
    /\ Return("report")
    /\ UNCHANGED <<isConnected, refreshTried, acked, failure, hasQueue, marker, dropped,
                   netVars, brokerVars, queued, ackedIn, steady, connects, losses>>

\* A get() without a timeout.
TakeWaitsForever == pc = "take" /\ FALSE /\ UNCHANGED vars

TakeTimesOut ==
    /\ pc = "take"
    /\ queue = <<>>
    /\ Return("nothing")
    /\ UNCHANGED <<isConnected, refreshTried, sharedVars, netVars, brokerVars, histVars>>

\* disconnect(): without a connection only the receive state is reset.
Disconnect ==
    /\ pc = "idle"
    /\ \/ /\ ~isConnected
          /\ ResetReceiveState
          /\ Return("closed")
       \/ /\ isConnected
          /\ pc' = "stopping"
          /\ result' \in {"closed", "raised"}
          /\ UNCHANGED receiveVars
    /\ UNCHANGED <<isConnected, refreshTried, acked, failure, netVars, brokerVars,
                   ackedIn, steady, connects, losses>>

\* The finally clauses: the loop stops, then the wrapper forgets everything.
\* Only a disconnect() that did not raise is sure to have closed the socket.
FinishDisconnect ==
    /\ pc = "stopping"
    /\ StopLoop
    /\ isConnected' = FALSE
    /\ ResetReceiveState
    /\ pc' = "idle"
    /\ \/ link' = "down" /\ brokerSub' = FALSE
       \/ result = "raised" /\ UNCHANGED <<link, brokerSub>>
    /\ UNCHANGED <<result, refreshTried, acked, failure, net, sent,
                   ackedIn, steady, connects, losses>>

-----------------------------------------------------------------------------
(* The network thread's callbacks                                          *)

\* _on_connect with a success code, on the first or on a later connection.
ConnackAccepted ==
    /\ loop /\ net = "poll" /\ link = "pending"
    /\ link' = "up"
    /\ acked' = TRUE
    /\ ackedIn' = connects
    /\ UNCHANGED <<callerVars, failure, hasQueue, queue, marker, dropped, netVars, brokerSub,
                   sent, handedOut, queued, taken, steady, connects, losses>>

\* A refusal recorded under a reason the callers do not know.
ConnackUnclassified ==
    /\ loop /\ net = "poll" /\ link = "pending"
    /\ link' = "lost"
    /\ acked' = TRUE
    /\ failure' = "refused"
    /\ steady' = FALSE
    /\ UNCHANGED <<callerVars, hasQueue, queue, marker, dropped, netVars, brokerSub, sent,
                   handedOut, queued, taken, ackedIn, connects, losses>>

\* _on_connect with a failure code.
ConnackRefused ==
    /\ loop /\ net = "poll" /\ link = "pending"
    /\ link' = "lost"
    /\ acked' = TRUE
    /\ failure' \in {"auth", "unreachable"}
    /\ steady' = FALSE
    /\ UNCHANGED <<callerVars, hasQueue, queue, marker, dropped, netVars, brokerSub, sent,
                   handedOut, queued, taken, ackedIn, connects, losses>>

\* _on_connect_fail: paho's own attempt to reconnect failed.
ReconnectFails ==
    /\ loop /\ net = "poll" /\ link = "lost" /\ pc # "stopping"
    /\ acked' = TRUE
    /\ failure' = "unreachable"
    /\ UNCHANGED <<callerVars, hasQueue, queue, marker, dropped, netVars, brokerVars, histVars>>

\* _on_message takes the receive lock; a topic without a queue is ignored.
ReceiveReport ==
    /\ loop /\ net = "poll" /\ link = "up" /\ brokerSub
    /\ sent < MaxReports
    /\ sent' = sent + 1
    /\ net' = IF hasQueue THEN "offer" ELSE "poll"
    /\ UNCHANGED <<callerVars, sharedVars, loop, link, brokerSub, histVars>>

\* The first put_nowait: the report fits, or the queue is Full.
OfferReport ==
    /\ net = "offer"
    /\ \/ /\ Len(queue) < Capacity
          /\ queue' = Append(queue, sent)
          /\ queued' = queued + 1
          /\ net' = "poll"
       \/ /\ Len(queue) >= Capacity
          /\ net' = "evict"
          /\ UNCHANGED <<queue, queued>>
    /\ UNCHANGED <<callerVars, acked, failure, hasQueue, marker, dropped, loop, brokerVars,
                   handedOut, taken, ackedIn, steady, connects, losses>>

\* A second get_nowait that gives up the newest report in place of the oldest.
EvictNewest ==
    /\ net = "evict"
    /\ net' = "reoffer"
    /\ queue # <<>>
    /\ queue' = SubSeq(queue, 1, Len(queue) - 1)
    /\ dropped' = dropped + 1
    /\ UNCHANGED <<callerVars, acked, failure, hasQueue, marker, loop, brokerVars, histVars>>

\* get_nowait: the oldest report is dropped and counted, unless the queue is
\* Empty.  A fetch_report in progress can have taken one report since it was
\* full, so only a queue of one can be.
EvictOldest ==
    /\ net = "evict"
    /\ net' = "reoffer"
    /\ queue' = IF queue = <<>> THEN queue ELSE Tail(queue)
    /\ dropped' = IF queue = <<>> THEN dropped ELSE dropped + 1
    /\ UNCHANGED <<callerVars, acked, failure, hasQueue, marker, loop, brokerVars, histVars>>

\* The second put_nowait, with no handler for Full around it.
ReofferReport ==
    /\ net = "reoffer"
    /\ Len(queue) < Capacity
    /\ queue' = Append(queue, sent)
    /\ queued' = queued + 1
    /\ net' = "poll"
    /\ UNCHANGED <<callerVars, acked, failure, hasQueue, marker, dropped, loop, brokerVars,
                   handedOut, taken, ackedIn, steady, connects, losses>>

-----------------------------------------------------------------------------
(* The connection under the wrapper, external                              *)

\* The connection breaks, whether the loop runs or not; the broker forgets a
\* clean session's subscriptions.
LinkLost ==
    /\ net = "poll" /\ link \in {"pending", "up"}
    /\ losses < MaxLosses
    /\ losses' = losses + 1
    /\ link' = "lost"
    /\ brokerSub' = FALSE
    /\ steady' = FALSE
    /\ UNCHANGED <<callerVars, sharedVars, netVars, sent, handedOut, queued, taken, ackedIn, connects>>

\* paho's loop reconnects on its own until disconnect() is called.
Reconnect ==
    /\ loop /\ net = "poll" /\ link = "lost" /\ pc # "stopping"
    /\ link' = "pending"
    /\ UNCHANGED <<callerVars, sharedVars, netVars, brokerSub, sent, histVars>>

-----------------------------------------------------------------------------
InsideCall ==
    \/ TcpConnect \/ TcpFails \/ WaitTimesOut \/ Acknowledged \/ GiveUp
    \/ SubscribeSent \/ SubscribeFails \/ PublishRefresh
    \/ TakeReport \/ TakeTimesOut \/ FinishDisconnect

InsideOnMessage == OfferReport \/ EvictOldest \/ ReofferReport

Caller == Connect \/ FetchReport \/ RequestRefresh \/ Disconnect \/ InsideCall
Network == ConnackAccepted \/ ConnackRefused \/ ReconnectFails \/ ReceiveReport \/ InsideOnMessage
Environment == LinkLost \/ Reconnect

Next == Caller \/ Network \/ Environment

Spec == Init /\ [][Next]_vars

\* Both threads keep running once they are inside a call or a callback; every
\* wait of the caller has a timeout.  The user, the broker and the network
\* owe nothing.
FairSpec == Spec /\ WF_vars(InsideCall) /\ WF_vars(InsideOnMessage)
-----------------------------------------------------------------------------
(* Properties                                                              *)

\* The report queue is a ReportChannel.  A report the callback is about to
\* offer has not arrived in the channel yet, and one it is about to offer
\* again already waits there.
Channel == INSTANCE ReportChannel WITH
    open <- isConnected,
    arrived <- IF net = "offer" THEN sent - 1 ELSE sent,
    backlog <- IF net = "reoffer" THEN Append(queue, sent) ELSE queue,
    spilling <- net = "evict",
    handedOut <- handedOut

\* Whatever the two threads, the CONNACKs and the subscriptions do, the caller
\* sees a ReportChannel (connect, fetch_report, _on_message, disconnect).
ImplementsChannel == Channel!Spec

\* fetch_report() hands out reports in the order the printer sent them, each
\* at most once, and at most Capacity wait.
FetchesInOrder == Channel!InOrder

\* Every report queued on this connection was fetched, waits or is counted in
\* _dropped_report_count; and the second put_nowait of _on_message, which has
\* no handler, never meets a full queue, nor the get_nowait an empty one.
ReportsAccounted ==
    /\ queued = taken + Len(queue) + dropped
    /\ net = "reoffer" => Len(queue) < Capacity
    /\ net = "evict" /\ Capacity > 1 => queue # <<>>

\* A connection counts as open only if a CONNACK accepted it during this
\* connect(); what an attempt before it left in the event does not count.
ConnectedByOwnConnack == isConnected => ackedIn = connects

\* Outside its calls a closed wrapper has no network thread, no callback in
\* progress and no memory of a connection, whichever way connect() failed or
\* disconnect() ended.  (The MQTT connection itself may be left open.)
QuietWhenClosed ==
    pc = "idle" /\ ~isConnected
        => ~loop /\ net = "poll" /\ queue = <<>> /\ ~marker /\ dropped = 0

\* As long as the connection that connect() opened is not lost, a topic marked
\* in _subscribed_topics is one the broker has a subscription for: a failed or
\* premature subscription never leaves a mark that later fetches rely on.
MarkedIsSubscribed ==
    steady /\ isConnected /\ marker /\ pc \notin {"subscribe", "refreshSubscribe"}
        => brokerSub

\* Every call of the wrapper ends, with a result or an error: each of its waits
\* has a timeout and each join waits for a callback that ends.
CallsReturn == (pc # "idle") ~> (pc = "idle")

\* What the plan of the passive receiver says of disconnect(): it owns the final
\* MQTT cleanup, so that a call that returns leaves no MQTT connection open.
ClosedByDisconnect == pc = "idle" /\ result = "closed" => link \notin {"pending", "up"}

\* What the plan of the passive receiver asks of reconnects: on a live
\* connection a marked topic is one the broker has a subscription for.
MarkerMatchesBroker ==
    isConnected /\ marker /\ link = "up" /\ pc \notin {"subscribe", "refreshSubscribe"}
        => brokerSub
=============================================================================
