----------------------------- MODULE Connector ------------------------------
(***************************************************************************)
(* A TcpClient (net/TcpClient.cc) and its Connector (net/Connector.cc) on   *)
(* one loop: connect, retries by timer, the hand-over of the socket to a    *)
(* TcpConnection, reconnection when that one closes, stop, disconnect and   *)
(* destruction.  A poll reports a set of events, which are handled in any   *)
(* order before the functors queued so far are run; what a functor queues   *)
(* waits for the next iteration.                                            *)
(*                                                                         *)
(* The application calls connect() once, and stop() and disconnect() from    *)
(* any thread, also between the two steps of removeConnection.  The         *)
(* TcpConnection is reduced to what the client sees of it: up, closed,      *)
(* destroyed.  A timer fires some time after it is armed, which is what     *)
(* TimerQueue provides, and not so soon (500 ms, or the second for which    *)
(* ~TcpClient keeps the connector) that a functor queued with it still       *)
(* waits.                                                                    *)
(*                                                                         *)
(* The functors and handlers of a Connector hold a raw pointer, but for its  *)
(* retry timers.  ~TcpClient keeps it only if there is no connection; with   *)
(* one, a client that is destroyed in its own connection callback, or with a *)
(* stop() still queued, leaves functors that are called on a dead object.    *)
(***************************************************************************)
EXTENDS Integers, Sequences, FiniteSets, SequencesExt

CONSTANTS
  Sockets,            \* descriptors; connect() takes a free one
  kInitRetryDelayMs,
  kMaxRetryDelayMs,
  MaxStops            \* bound on the calls of stop()

ASSUME ConnectorAssumption ==
  /\ kInitRetryDelayMs \in Nat \ {0}
  /\ kMaxRetryDelayMs \in Nat /\ kInitRetryDelayMs <= kMaxRetryDelayMs
  /\ MaxStops \in Nat
  /\ 0 \notin Sockets   \* standard input stays open

VARIABLES
  state,        \* Connector::state_
  wanted,       \* Connector::connect_
  channel,      \* channel_: its descriptor, or NoSocket
  registered,   \* the channel is in the poller
  retryDelayMs, \* retryDelayMs_
  retryTimers,  \* delays of the retry timers that are armed
  clientWants,  \* TcpClient::connect_
  retry,        \* TcpClient::retry_
  connection,   \* connection_: its descriptor, or NoSocket
  client,       \* "new", "used", or "destroyed" after ~TcpClient
  orphan,       \* a connection that outlived its client
  kept,         \* the timer of ~TcpClient that holds the connector is armed
  open,         \* open descriptors
  polled,       \* events of this iteration still to be handled
  phase,        \* where the loop is: "poll", "events" or "functors"
  queue, left,  \* functors, and how many of them this iteration runs
  leaving,      \* removeConnection has decided to restart the connector
  stops,        \* calls of stop() so far
  misused,      \* history: a failed assertion or a call to a dead client
  hasty         \* history: ~TcpClient took its connector along while that was at work

connectorVars == <<state, wanted, channel, registered, retryDelayMs, retryTimers>>
clientVars == <<clientWants, retry, connection, client, orphan, kept>>
connLoopVars == <<phase, polled, queue, left, leaving>>
connVars == <<connectorVars, clientVars, open, connLoopVars, stops, misused,
             hasty>>

NoSocket == 0
F(name, s) == [call |-> name, sock |-> s]
Queued(name) == {i \in DOMAIN queue : queue[i].call = name}

\* The connector has a channel, or functors that will be called on it.
AtWork ==
  \/ channel # NoSocket
  \/ \E name \in {"startInLoop", "stopInLoop", "resetChannel"} : Queued(name) # {}

\* The client, its removal timer and the retry timers hold the connector.
ConnectorGone == client = "destroyed" /\ ~kept /\ retryTimers = <<>>

\* The process has failed an assertion (~Connector has one on channel_), or is
\* bound to call a dead object: nothing more is said of it.
ClientFailed == misused \/ (ConnectorGone /\ AtWork)


-----------------------------------------------------------------------------
(* Connector: the steps its functions are made of *)

\* retry.
Retry(sock) ==
  /\ open' = open \ {sock}
  /\ state' = "kDisconnected"
  /\ IF wanted
     THEN /\ retryTimers' = Append(retryTimers, retryDelayMs)
          /\ retryDelayMs' = IF retryDelayMs * 2 < kMaxRetryDelayMs
                             THEN retryDelayMs * 2 ELSE kMaxRetryDelayMs
     ELSE UNCHANGED <<retryTimers, retryDelayMs>>

\* removeAndResetChannel: the channel leaves the poller, and is destroyed by a
\* functor since this may be one of its own handlers.
RemoveAndResetChannel(q) ==
  /\ registered' = FALSE
  /\ queue' = Append(q, F("resetChannel", NoSocket))

\* connect and connecting: what the kernel answers for a free descriptor.
Connect(delay, armed) ==
  \E s \in Sockets \ open :
    \/ /\ state' = "kConnecting"                     \* 0, EINPROGRESS, EINTR
       /\ misused' = (misused \/ channel # NoSocket)
       /\ channel' = s /\ registered' = TRUE
       /\ open' = open \cup {s}
       /\ retryDelayMs' = delay /\ retryTimers' = armed
    \/ /\ state' = "kDisconnected"                   \* EAGAIN, ECONNREFUSED ...
       /\ retryTimers' = Append(armed, delay)
       /\ retryDelayMs' = IF delay * 2 < kMaxRetryDelayMs
                          THEN delay * 2 ELSE kMaxRetryDelayMs
       /\ UNCHANGED <<channel, registered, open, misused>>
    \/ /\ state' = "kDisconnected"                   \* EACCES, EBADF ...
       /\ retryDelayMs' = delay /\ retryTimers' = armed
       /\ UNCHANGED <<channel, registered, open, misused>>

\* Faulty: a timer armed before stop() connects all the same.
StillWanted == TRUE

StartWanted == wanted

\* startInLoop.
StartInLoop(armed) ==
  /\ IF state # "kDisconnected"
     THEN /\ misused' = TRUE
          /\ retryTimers' = armed
          /\ UNCHANGED <<state, channel, registered, retryDelayMs, open>>
     ELSE IF StartWanted
          THEN Connect(retryDelayMs, armed)
          ELSE /\ retryTimers' = armed
               /\ UNCHANGED <<state, channel, registered, retryDelayMs, open, misused>>
  /\ UNCHANGED <<wanted, clientVars>>

-----------------------------------------------------------------------------
(* Calls by the application *)

\* TcpClient::connect, Connector::start.
CallConnect(withRetry) ==
  /\ client = "new"
  /\ client' = "used"
  /\ retry' = withRetry
  /\ clientWants' = TRUE /\ wanted' = TRUE
  /\ queue' = Append(queue, F("startInLoop", NoSocket))
  /\ UNCHANGED <<state, channel, registered, retryDelayMs, retryTimers, connection,
                 orphan, kept, open, phase, polled, left, leaving, stops,
                 misused, hasty>>

\* TcpClient::stop, Connector::stop.  The retry timer stays armed.
CallStop ==
  /\ client = "used" /\ stops < MaxStops
  /\ stops' = stops + 1
  /\ clientWants' = FALSE /\ wanted' = FALSE
  /\ queue' = Append(queue, F("stopInLoop", NoSocket))
  /\ UNCHANGED <<state, channel, registered, retryDelayMs, retryTimers, retry,
                 connection, client, orphan, kept, open, phase, polled, left, leaving,
                 misused, hasty>>

\* TcpClient::disconnect; the shutdown shows as a close by the peer.
CallDisconnect ==
  /\ client = "used"
  /\ clientWants' = FALSE
  /\ UNCHANGED <<connectorVars, retry, connection, client, orphan, kept, open,
                 connLoopVars, stops, misused, hasty>>

\* ~TcpClient in the loop thread, also in a callback.  A connection is told to
\* close itself without the client and, unless somebody else holds it, closed;
\* the connector goes with the client, whatever it is at.  Without a connection
\* the connector is stopped, and kept for a second.
Destroy(unique) ==
  /\ client = "used" /\ ~leaving
  /\ client' = "destroyed"
  /\ IF connection # NoSocket
     THEN /\ orphan' = connection
          /\ connection' = NoSocket
          /\ queue' = IF unique THEN Append(queue, F("forceCloseInLoop", connection))
                      ELSE queue
          /\ hasty' = AtWork
          /\ UNCHANGED <<wanted, kept>>
     ELSE /\ unique
          /\ wanted' = FALSE
          /\ queue' = Append(queue, F("stopInLoop", NoSocket))
          /\ kept' = TRUE
          /\ UNCHANGED <<orphan, connection, hasty>>
  /\ UNCHANGED <<state, channel, registered, retryDelayMs, retryTimers, clientWants,
                 retry, open, phase, polled, left, leaving, stops,
                 misused>>

-----------------------------------------------------------------------------
(* The loop *)

\* poll: any events that can be reported.  An error comes with writability.
Reported == SUBSET {"write", "error", "timer", "release", "close"}
Poll(events) ==
  /\ phase = "poll" /\ ~ClientFailed
  /\ phase' = "events"
  /\ events \subseteq
       (IF registered THEN {"write", "error"} ELSE {})
         \cup (IF retryTimers # <<>> /\ Queued("resetChannel") = {} THEN {"timer"} ELSE {})
         \cup (IF kept /\ \A name \in {"startInLoop", "stopInLoop", "resetChannel"} :
                             Queued(name) = {} THEN {"release"} ELSE {})
         \cup (IF connection # NoSocket \/ orphan # NoSocket THEN {"close"} ELSE {})
  /\ "error" \in events => "write" \in events
  /\ polled' = events
  /\ UNCHANGED <<connectorVars, clientVars, open, queue, left, leaving, stops, misused,
                 hasty>>

\* The timer queue calls startInLoop.
TimerFires(i) ==
  /\ "timer" \in polled /\ ~leaving
  /\ polled' = polled \ {"timer"}
  /\ StartInLoop(RemoveAt(retryTimers, i))
  /\ UNCHANGED <<phase, queue, left, leaving, stops, hasty>>

\* detail::removeConnector, a second after ~TcpClient: the timer drops the connector.
RemoveConnector ==
  /\ "release" \in polled /\ ~leaving
  /\ polled' = polled \ {"release"}
  /\ kept' = FALSE
  /\ UNCHANGED <<connectorVars, clientWants, retry, connection, client, orphan, open,
                 phase, queue, left, leaving, stops, misused, hasty>>

\* TcpClient::newConnection.
NewConnection(sock) ==
  /\ connection' = sock
  /\ misused' = (misused \/ client = "destroyed" \/ connection # NoSocket)

\* Faulty: the socket is handed over although stop() was called.
HandOverAnyway(sock) == NewConnection(sock) /\ UNCHANGED open

HandOver(sock) ==
  IF wanted
  THEN NewConnection(sock) /\ UNCHANGED open
  ELSE open' = open \ {sock} /\ UNCHANGED <<connection, misused>>

\* handleWrite: the socket has an error or is connected to itself, or is
\* handed over, or is no longer wanted.
HandleWrite ==
  /\ "write" \in polled /\ "error" \notin polled /\ ~leaving
  /\ polled' = polled \ {"write"}
  /\ IF state = "kConnecting"
     THEN /\ RemoveAndResetChannel(queue)
          /\ \/ Retry(channel) /\ UNCHANGED <<connection, misused>>
             \/ /\ state' = "kConnected"
                /\ HandOver(channel)
                /\ UNCHANGED <<retryTimers, retryDelayMs>>
     ELSE /\ misused' = (misused \/ state # "kDisconnected")
          /\ UNCHANGED <<state, registered, retryTimers, retryDelayMs, queue, open,
                         connection>>
  /\ UNCHANGED <<wanted, channel, clientWants, retry, client, orphan, kept, phase, left,
                 leaving, stops, hasty>>

\* handleError, called before handleWrite for the same event.
HandleError ==
  /\ "error" \in polled /\ ~leaving
  /\ polled' = polled \ {"error"}
  /\ IF state = "kConnecting"
     THEN RemoveAndResetChannel(queue) /\ Retry(channel)
     ELSE UNCHANGED <<state, registered, retryTimers, retryDelayMs, queue, open>>
  /\ UNCHANGED <<wanted, channel, clientVars, phase, left, leaving, stops, misused, hasty>>

\* The connection closes: TcpClient::removeConnection up to its decision to
\* reconnect, or detail::removeConnection once the client is gone.
RemoveConnection(sock, functors) ==
  /\ queue' = Append(functors, F("connectDestroyed", sock))
  /\ IF sock = connection
     THEN connection' = NoSocket /\ leaving' = (retry /\ clientWants) /\ UNCHANGED orphan
     ELSE orphan' = NoSocket /\ UNCHANGED <<connection, leaving>>
  /\ UNCHANGED <<connectorVars, clientWants, retry, client, kept, open, stops, misused,
                 hasty>>

HandleClose ==
  /\ "close" \in polled /\ ~leaving
  /\ polled' = polled \ {"close"}
  /\ IF connection # NoSocket \/ orphan # NoSocket
     THEN /\ RemoveConnection(IF connection # NoSocket THEN connection ELSE orphan, queue)
     ELSE UNCHANGED <<connectorVars, clientVars, open, queue, leaving, stops, misused,
                      hasty>>
  /\ UNCHANGED <<phase, left>>

\* Connector::restart, the rest of removeConnection.
Restart ==
  /\ leaving
  /\ leaving' = FALSE
  /\ wanted' = TRUE
  /\ Connect(kInitRetryDelayMs, retryTimers)
  /\ UNCHANGED <<clientVars, phase, polled, queue, left, stops, hasty>>

\* doPendingFunctors, once the events are handled.
SwapFunctors ==
  /\ phase = "events" /\ polled = {} /\ ~leaving
  /\ phase' = "functors"
  /\ left' = Len(queue)
  /\ UNCHANGED <<connectorVars, clientVars, open, polled, queue, leaving, stops, misused,
                 hasty>>

Running(name) ==
  /\ phase = "functors" /\ left > 0 /\ ~leaving
  /\ Head(queue).call = name
  /\ left' = left - 1
  /\ UNCHANGED <<phase, polled>>

BatchDone ==
  /\ phase = "functors" /\ left = 0
  /\ phase' = "poll"
  /\ UNCHANGED <<connectorVars, clientVars, open, polled, queue, left, leaving, stops,
                 misused, hasty>>

RunStart ==
  /\ Running("startInLoop")
  /\ queue' = Tail(queue)
  /\ StartInLoop(retryTimers)
  /\ UNCHANGED <<leaving, stops, hasty>>

\* stopInLoop.
RunStop ==
  /\ Running("stopInLoop")
  /\ IF state = "kConnecting"
     THEN RemoveAndResetChannel(Tail(queue)) /\ Retry(channel)
     ELSE /\ queue' = Tail(queue)
          /\ UNCHANGED <<state, registered, retryTimers, retryDelayMs, open>>
  /\ UNCHANGED <<wanted, channel, clientVars, leaving, stops, misused, hasty>>

RunResetChannel ==
  /\ Running("resetChannel")
  /\ queue' = Tail(queue)
  /\ channel' = NoSocket
  /\ UNCHANGED <<state, wanted, registered, retryDelayMs, retryTimers, clientVars,
                 open, leaving, stops, misused, hasty>>

\* forceCloseInLoop of an orphan that has not closed by itself.
RunForceClose ==
  /\ Running("forceCloseInLoop")
  /\ IF orphan = Head(queue).sock
     THEN RemoveConnection(orphan, Tail(queue))
     ELSE /\ queue' = Tail(queue)
          /\ UNCHANGED <<connectorVars, clientVars, open, leaving, stops, misused, hasty>>

\* connectDestroyed drops the last reference: the socket is closed.
RunConnectDestroyed ==
  /\ Running("connectDestroyed")
  /\ queue' = Tail(queue)
  /\ open' = open \ {Head(queue).sock}
  /\ UNCHANGED <<connectorVars, clientVars, leaving, stops, misused, hasty>>

-----------------------------------------------------------------------------
ConnInit ==
  /\ state = "kDisconnected" /\ wanted = FALSE
  /\ channel = NoSocket /\ registered = FALSE
  /\ retryDelayMs = kInitRetryDelayMs /\ retryTimers = <<>>
  /\ clientWants = TRUE /\ retry = FALSE /\ connection = NoSocket
  /\ client = "new" /\ orphan = NoSocket /\ kept = FALSE
  /\ open = {} /\ phase = "poll" /\ polled = {} /\ queue = <<>> /\ left = 0 /\ leaving = FALSE
  /\ stops = 0 /\ misused = FALSE /\ hasty = FALSE

Functors ==
  /\ ~ClientFailed
  /\ \/ SwapFunctors \/ BatchDone
     \/ RunStart \/ RunStop \/ RunResetChannel \/ RunForceClose \/ RunConnectDestroyed

Handlers ==
  /\ ~ClientFailed
  /\ \/ \E i \in DOMAIN retryTimers : TimerFires(i)
     \/ RemoveConnector
     \/ HandleWrite \/ HandleError \/ HandleClose \/ Restart

ClientCalls ==
  /\ ~ClientFailed
  /\ \/ \E r \in BOOLEAN : CallConnect(r)
     \/ CallStop
     \/ CallDisconnect
     \/ \E u \in BOOLEAN : Destroy(u)

PollReturns == \E ev \in Reported : Poll(ev)

ConnNext == ClientCalls \/ PollReturns \/ Handlers \/ Functors

\* The loop keeps going, its handlers and functors return, and an armed timer
\* is reported at last.  Nothing is assumed of the network.
TimerDue == \E ev \in Reported : "timer" \in ev /\ Poll(ev)
ConnSpec ==
  /\ ConnInit /\ [][ConnNext]_connVars
  /\ WF_connVars(Handlers)
  /\ WF_connVars(Functors)
  /\ WF_connVars(PollReturns)
  /\ SF_connVars(TimerDue)

-----------------------------------------------------------------------------
(* Properties *)

\* No assertion of Connector.cc or TcpClient.cc fails (connection attempts do
\* not overlap, a channel is gone before the next and before its connector) and
\* neither a dead connector nor a destroyed client is called, whatever the order
\* of retries, closes, stop and destruction, unless the client was destroyed
\* with its connection while its connector was still at work.
AssertionsHold == ClientFailed => hasty

\* Every open descriptor belongs to the attempt under way or to a connection
\* that is up or about to be destroyed: no path leaks one.
SocketsOwned ==
  open = (({connection, orphan} \cup (IF registered THEN {channel} ELSE {})
            \cup {queue[i].sock : i \in Queued("connectDestroyed")}) \ {NoSocket})

\* The connector and its client use each other correctly and leak nothing.
ConnectorSound == AssertionsHold /\ SocketsOwned

\* After stop() (Connector.h: "can be called in any thread") the client settles:
\* no attempt is made and no retry timer is armed any more.  Only a stop() of
\* another thread between the decision of removeConnection to reconnect and
\* restart() is forgotten: restart() sets connect_ again.
StopIsFinal ==
  (stops > 0 /\ ~wanted /\ ~leaving) ~>
    [](ClientFailed \/ (retryTimers = <<>> /\ ~registered /\ ~leaving))
=============================================================================
