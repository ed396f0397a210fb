--------------------------- MODULE TcpConnection ---------------------------
(***************************************************************************)
(* One TcpConnection (net/TcpConnection.cc) from TcpServer::newConnection  *)
(* to its destruction, with its Channel, its slot in the epoll set and the *)
(* functors of its loop.  IMServer runs its TcpServer without IO threads,  *)
(* so the acceptor, the connections and the server's map share one loop.   *)
(* Other threads only send: they test state_, then push sendInLoop with a  *)
(* raw pointer.                                                            *)
(*                                                                         *)
(* A message is MsgLen bytes; a byte is <<sender, number, position>>.  The *)
(* kernel takes any prefix of a write, and refuses every write once the    *)
(* peer has reset the connection or this side has shut it down.  IMServer  *)
(* sets no write-complete and no high-water callback.                      *)
(***************************************************************************)
EXTENDS Integers, Sequences, FiniteSets

CONSTANTS
  Senders,           \* threads other than the loop's
  LoopThread,        \* the loop's thread
  MsgLen,            \* bytes of a message
  MaxSends,          \* bound on the messages of a thread
  MaxForceCloses,    \* bound on the forceClose calls queued at a time
  StopAnytime        \* whether reading is also stopped with nothing to write

ASSUME TcpAssumption ==
  /\ LoopThread \notin Senders
  /\ MsgLen \in Nat \ {0}
  /\ MaxSends \in Nat /\ MaxForceCloses \in Nat
  /\ StopAnytime \in BOOLEAN

VARIABLES
  state,        \* state_
  events,       \* Channel::events_: subset of {"read", "write"}
  index,        \* Channel::index_, the channel's standing with the poller
  outputBuffer, \* outputBuffer_
  listed,       \* TcpServer::connections_ holds the connection
  wire,         \* bytes the kernel took
  fin,          \* shutdownWrite was called
  reset,        \* the peer reset the connection
  phase,        \* where the loop is; "crashed" once undefined behaviour ended it
  todo,         \* events of this channel still to be handled
  functors,     \* pendingFunctors_ and the batch being run
  left,         \* functors left in the batch
  pc,           \* a sender's position in send()
  sends,        \* messages a thread has passed to sendInLoop
  took,         \* history: messages sendInLoop took, in order
  ups, downs    \* history: connection callbacks

channelVars == <<events, index>>
streamVars == <<outputBuffer, wire, took>>
kernelVars == <<fin, reset>>
loopVars == <<phase, todo, left>>
serverVars == <<listed, ups, downs>>
senderVars == <<pc, sends>>
vars == <<state, channelVars, streamVars, kernelVars, loopVars, functors,
          serverVars, senderVars>>

Threads == Senders \cup {LoopThread}
States == {"kConnecting", "kConnected", "kDisconnecting", "kDisconnected"}
Messages == Threads \X (1..MaxSends)
Bytes(m) == [i \in 1..MsgLen |-> <<m[1], m[2], i>>]

Functor(f) == [call |-> f]
SendFunctor(m) == [call |-> "sendInLoop", msg |-> m]

\* Somebody holds a shared_ptr: the server's map, a functor bound to one, a
\* sender inside send().  sendInLoop functors hold a raw pointer.
Alive ==
  \/ state # "kDisconnected"
  \/ listed
  \/ \E i \in DOMAIN functors : functors[i].call # "sendInLoop"
  \/ \E t \in Senders : pc[t] = "checked"

-----------------------------------------------------------------------------
(* Channel and EPollPoller *)

\* Channel::update, EPollPoller::updateChannel: a channel that is not in the
\* epoll set is added whatever its events, one without events is taken out.
Update(ev) ==
  /\ events' = ev
  /\ index' = IF index = "added" /\ ev = {} THEN "deleted" ELSE "added"

-----------------------------------------------------------------------------
(* Sending, in the loop thread *)

isWriting == "write" \in events
Refused == reset \/ fin

\* Faulty: the write is tried even when bytes are waiting.
SendInLoopOvertakes(m) ==
  IF state = "kDisconnected" \/ Refused
  THEN UNCHANGED <<channelVars, streamVars>>
  ELSE /\ took' = Append(took, m)
       /\ \E k \in 0..MsgLen :
            /\ wire' = wire \o SubSeq(Bytes(m), 1, k)
            /\ outputBuffer' = outputBuffer \o SubSeq(Bytes(m), k + 1, MsgLen)
            /\ IF k < MsgLen /\ ~isWriting THEN Update(events \cup {"write"})
               ELSE UNCHANGED channelVars

\* sendInLoop: give up when closed; write directly when nothing waits, dropping
\* the message on EPIPE or ECONNRESET; buffer what the kernel did not take.
SendInLoop(m) ==
  IF state = "kDisconnected" \/ (~isWriting /\ outputBuffer = <<>> /\ Refused)
  THEN UNCHANGED <<channelVars, streamVars>>
  ELSE /\ took' = Append(took, m)
       /\ \E k \in IF ~isWriting /\ outputBuffer = <<>> THEN 0..MsgLen ELSE {0} :
            /\ wire' = wire \o SubSeq(Bytes(m), 1, k)
            /\ outputBuffer' = outputBuffer \o SubSeq(Bytes(m), k + 1, MsgLen)
            /\ IF k < MsgLen /\ ~isWriting THEN Update(events \cup {"write"})
               ELSE UNCHANGED channelVars

\* Faulty: the FIN does not wait for the buffer.
ShutdownInLoopNow(ev) == fin' = TRUE

\* shutdownInLoop, with the channel's events as they are when it is called.
ShutdownInLoop(ev) == fin' = (fin \/ "write" \notin ev)

-----------------------------------------------------------------------------
(* Closing *)

\* Faulty: the close callback is not run.
HandleCloseUnlisted(rest) ==
  /\ state' = "kDisconnected"
  /\ Update({})
  /\ downs' = downs + 1
  /\ functors' = rest
  /\ UNCHANGED <<listed, ups>>

\* TcpServer's close callback: connectDestroyed is queued behind rest.
RemoveConnection(rest) ==
  /\ listed' = FALSE
  /\ functors' = Append(rest, Functor("connectDestroyed"))

\* handleClose: the connection callback, then the close callback.
HandleClose(rest) ==
  /\ state' = "kDisconnected"
  /\ Update({})
  /\ downs' = downs + 1
  /\ RemoveConnection(rest)
  /\ UNCHANGED ups

-----------------------------------------------------------------------------
(* Calls of the application in the loop thread.  It stops using the          *)
(* connection with the callback that says it is down.  Unless StopAnytime,   *)
(* it stops reading only to let waiting output drain, and does not force a   *)
(* connection closed that it has stopped.                                    *)

CallSend ==
  /\ sends[LoopThread] < MaxSends
  /\ state = "kConnected"
  /\ sends' = [sends EXCEPT ![LoopThread] = @ + 1]
  /\ SendInLoop(<<LoopThread, sends[LoopThread] + 1>>)
  /\ UNCHANGED <<state, kernelVars, functors, pc>>

CallShutdown ==
  /\ state = "kConnected"
  /\ state' = "kDisconnecting"
  /\ ShutdownInLoop(events)
  /\ UNCHANGED <<channelVars, streamVars, reset, functors, senderVars>>

CallForceClose ==
  /\ state \in {"kConnected", "kDisconnecting"}
  /\ Cardinality({i \in DOMAIN functors : functors[i].call = "forceCloseInLoop"})
       < MaxForceCloses
  /\ "read" \in events \/ StopAnytime
  /\ state' = "kDisconnecting"
  /\ functors' = Append(functors, Functor("forceCloseInLoop"))
  /\ UNCHANGED <<channelVars, streamVars, kernelVars, senderVars>>

CallStopRead ==
  /\ state = "kConnected"
  /\ isWriting \/ StopAnytime
  /\ "read" \in events
  /\ Update(events \ {"read"})
  /\ UNCHANGED <<state, streamVars, kernelVars, functors, senderVars>>

CallStartRead ==
  /\ state \in {"kConnected", "kDisconnecting"}
  /\ "read" \notin events
  /\ Update(events \cup {"read"})
  /\ UNCHANGED <<state, streamVars, kernelVars, functors, senderVars>>

NoCall ==
  UNCHANGED <<state, channelVars, streamVars, kernelVars, functors, senderVars>>

Call == CallSend \/ CallShutdown \/ CallForceClose \/ CallStopRead \/ CallStartRead

-----------------------------------------------------------------------------
(* One iteration of the loop: poll, the other channels that became active     *)
(* before this one, this channel, the ones after it, the batch of functors.   *)

\* The acceptor's handler: newConnection and connectEstablished.
NewConnection ==
  /\ phase = "others"
  /\ state = "kConnecting"
  /\ state' = "kConnected"
  /\ listed' = TRUE
  /\ Update({"read"})
  /\ ups' = ups + 1
  /\ UNCHANGED <<streamVars, kernelVars, loopVars, functors, downs, senderVars>>

\* The kernel reports what the channel asked for, and a hang-up unasked.  TCP
\* makes a hung-up socket readable, so a channel that reads sees both, and
\* handleEventWithGuard then leaves the hang-up to handleRead.
Poll(revents) ==
  /\ phase = "poll"
  /\ revents # {} => index = "added"
  /\ "hup" \in revents => Refused /\ "read" \notin events
  /\ revents \subseteq events \cup {"hup"}
  /\ phase' = "others"
  /\ todo' = revents
  /\ UNCHANGED <<state, channelVars, streamVars, kernelVars, left, functors,
                 serverVars, senderVars>>

\* A callback of another channel, or a timer, uses this connection.
OtherHandler ==
  /\ phase = "others" \/ (phase = "channel" /\ todo = {})
  /\ Call
  /\ UNCHANGED <<loopVars, serverVars>>

OthersDone ==
  /\ phase = "others"
  /\ phase' = "channel"
  /\ UNCHANGED <<state, channelVars, streamVars, kernelVars, todo, left, functors,
                 serverVars, senderVars>>

Handling == phase = "channel" /\ UNCHANGED <<phase, left>>

\* A hang-up without data to read.
HandleHup ==
  /\ Handling
  /\ "hup" \in todo
  /\ todo' = todo \ {"hup"}
  /\ HandleClose(functors)
  /\ UNCHANGED <<streamVars, kernelVars, senderVars>>

\* handleRead with data: the message callback may use the connection.  An error
\* is only logged, like data the callback keeps for later.
HandleRead ==
  /\ Handling
  /\ "read" \in todo
  /\ todo' = todo \ {"read"}
  /\ Call \/ NoCall
  /\ UNCHANGED serverVars

\* handleRead at the end of the stream.
HandleReadEnd ==
  /\ Handling
  /\ "read" \in todo
  /\ todo' = todo \ {"read"}
  /\ HandleClose(functors)
  /\ UNCHANGED <<streamVars, kernelVars, senderVars>>

\* Faulty: the shutdown is forgotten when the buffer drains.
HandleWriteNoShutdown(k) ==
  /\ Handling
  /\ "write" \in todo /\ "hup" \notin todo /\ "read" \notin todo
  /\ todo' = todo \ {"write"}
  /\ isWriting /\ ~Refused
  /\ k \in 1..Len(outputBuffer)
  /\ wire' = wire \o SubSeq(outputBuffer, 1, k)
  /\ outputBuffer' = SubSeq(outputBuffer, k + 1, Len(outputBuffer))
  /\ IF outputBuffer' = <<>> THEN Update(events \ {"write"}) ELSE UNCHANGED channelVars
  /\ UNCHANGED <<state, took, kernelVars, functors, serverVars, senderVars>>

\* handleWrite: k bytes leave the buffer; the last ones stop the writing and let
\* a shutdown that waited for them go on.
HandleWrite(k) ==
  /\ Handling
  /\ "write" \in todo /\ "hup" \notin todo /\ "read" \notin todo
  /\ todo' = todo \ {"write"}
  /\ isWriting /\ ~Refused
  /\ k \in 1..Len(outputBuffer)
  /\ wire' = wire \o SubSeq(outputBuffer, 1, k)
  /\ outputBuffer' = SubSeq(outputBuffer, k + 1, Len(outputBuffer))
  /\ IF outputBuffer' = <<>> THEN Update(events \ {"write"}) ELSE UNCHANGED channelVars
  /\ IF outputBuffer' = <<>> /\ state = "kDisconnecting"
     THEN ShutdownInLoop(events') ELSE UNCHANGED fin
  /\ UNCHANGED <<state, took, reset, functors, serverVars, senderVars>>

\* handleWrite when the kernel takes nothing, or when an earlier handler of this
\* iteration has closed the connection.
HandleWriteNothing ==
  /\ Handling
  /\ "write" \in todo /\ "hup" \notin todo /\ "read" \notin todo
  /\ todo' = todo \ {"write"}
  /\ UNCHANGED <<state, channelVars, streamVars, kernelVars, functors,
                 serverVars, senderVars>>

\* doPendingFunctors swaps the queue: what is pushed from now on waits.
SwapFunctors ==
  /\ phase = "channel"
  /\ todo = {}
  /\ phase' = "functors"
  /\ left' = Len(functors)
  /\ UNCHANGED <<state, channelVars, streamVars, kernelVars, todo, functors,
                 serverVars, senderVars>>

BatchDone ==
  /\ phase = "functors"
  /\ left = 0
  /\ phase' = "poll"
  /\ UNCHANGED <<state, channelVars, streamVars, kernelVars, todo, left, functors,
                 serverVars, senderVars>>

Running(f) ==
  /\ phase = "functors"
  /\ left > 0
  /\ Head(functors).call = f
  /\ left' = left - 1
  /\ UNCHANGED todo

RunSend ==
  /\ Running("sendInLoop")
  /\ Alive
  /\ SendInLoop(Head(functors).msg)
  /\ functors' = Tail(functors)
  /\ UNCHANGED <<phase, state, kernelVars, serverVars, senderVars>>

\* sendInLoop through a pointer to a connection that is gone: nothing comes of
\* it, or the process ends.
RunDanglingSend ==
  /\ Running("sendInLoop")
  /\ ~Alive
  /\ phase' \in {"functors", "crashed"}
  /\ functors' = Tail(functors)
  /\ UNCHANGED <<state, channelVars, streamVars, kernelVars, serverVars, senderVars>>

\* Faulty: forceCloseInLoop does not look at state_.
RunForceCloseUnchecked ==
  /\ Running("forceCloseInLoop")
  /\ HandleClose(Tail(functors))
  /\ UNCHANGED <<phase, streamVars, kernelVars, senderVars>>

RunForceClose ==
  /\ Running("forceCloseInLoop")
  /\ IF state \in {"kConnected", "kDisconnecting"}
     THEN HandleClose(Tail(functors))
     ELSE functors' = Tail(functors) /\ UNCHANGED <<state, channelVars, serverVars>>
  /\ UNCHANGED <<phase, streamVars, kernelVars, senderVars>>

\* connectDestroyed after a close: the channel leaves the poller.  The case of a
\* connection that is still up belongs to ~TcpServer.
RunConnectDestroyed ==
  /\ Running("connectDestroyed")
  /\ index' = "new"
  /\ functors' = Tail(functors)
  /\ UNCHANGED <<phase, state, events, streamVars, kernelVars, serverVars, senderVars>>

-----------------------------------------------------------------------------
(* Other threads and the peer *)

\* send() in another thread: state_ is read ...
SendChecks(t) ==
  /\ pc[t] = "idle"
  /\ sends[t] < MaxSends
  /\ state = "kConnected"
  /\ pc' = [pc EXCEPT ![t] = "checked"]
  /\ UNCHANGED <<state, channelVars, streamVars, kernelVars, loopVars, functors,
                 serverVars, sends>>

\* Faulty: the functor goes in front of the queue.
SendPushesInFront(t) ==
  /\ phase # "crashed"
  /\ pc[t] = "checked"
  /\ pc' = [pc EXCEPT ![t] = "idle"]
  /\ sends' = [sends EXCEPT ![t] = @ + 1]
  /\ functors' = SubSeq(functors, 1, left) \o
                 <<SendFunctor(<<t, sends[t] + 1>>)>> \o
                 SubSeq(functors, left + 1, Len(functors))
  /\ UNCHANGED <<state, channelVars, streamVars, kernelVars, loopVars, serverVars>>

\* ... and later the functor is pushed.
SendPushes(t) ==
  /\ phase # "crashed"
  /\ pc[t] = "checked"
  /\ pc' = [pc EXCEPT ![t] = "idle"]
  /\ sends' = [sends EXCEPT ![t] = @ + 1]
  /\ functors' = Append(functors, SendFunctor(<<t, sends[t] + 1>>))
  /\ UNCHANGED <<state, channelVars, streamVars, kernelVars, loopVars, serverVars>>

PeerResets ==
  /\ phase # "crashed"
  /\ ~reset
  /\ state # "kConnecting"
  /\ reset' = TRUE
  /\ UNCHANGED <<state, channelVars, streamVars, fin, loopVars, functors,
                 serverVars, senderVars>>

-----------------------------------------------------------------------------
Init ==
  /\ state = "kConnecting"
  /\ events = {}
  /\ index = "new"
  /\ outputBuffer = <<>>
  /\ listed = FALSE
  /\ wire = <<>>
  /\ fin = FALSE
  /\ reset = FALSE
  /\ phase = "poll"
  /\ todo = {}
  /\ functors = <<>>
  /\ left = 0
  /\ pc = [t \in Senders |-> "idle"]
  /\ sends = [t \in Threads |-> 0]
  /\ took = <<>>
  /\ ups = 0
  /\ downs = 0

PollNext == \E revents \in SUBSET {"read", "write", "hup"} : Poll(revents)
WriteNext == \E k \in 1..Len(outputBuffer) : HandleWrite(k)

\* The steps that take the loop on, whatever the callbacks do.
LoopAdvances ==
  \/ PollNext
  \/ OthersDone
  \/ HandleHup
  \/ HandleRead
  \/ HandleReadEnd
  \/ WriteNext
  \/ HandleWriteNothing
  \/ SwapFunctors
  \/ RunSend
  \/ RunDanglingSend
  \/ RunForceClose
  \/ RunConnectDestroyed
  \/ BatchDone

Next ==
  \/ LoopAdvances
  \/ NewConnection
  \/ OtherHandler
  \/ \E t \in Senders : SendChecks(t) \/ SendPushes(t)
  \/ PeerResets

Spec == Init /\ [][Next]_vars

\* The loop keeps turning; while the peer reads, a socket the channel wants to
\* write to is again and again reported writable and takes bytes.
FairSpec ==
  /\ Spec
  /\ WF_vars(LoopAdvances)
  /\ SF_vars(PollNext /\ "write" \in todo')
  /\ SF_vars(WriteNext)
  /\ \A t \in Senders : WF_vars(SendPushes(t))

-----------------------------------------------------------------------------
(* Properties *)

\* Type invariant: the states of the connection, the channel, the poller and the
\* functors bound to the connection.
TypeOK ==
  /\ state \in States
  /\ events \subseteq {"read", "write"}
  /\ index \in {"new", "added", "deleted"}
  /\ outputBuffer \in Seq(Threads \X (1..MaxSends) \X (1..MsgLen))
  /\ wire \in Seq(Threads \X (1..MaxSends) \X (1..MsgLen))
  /\ listed \in BOOLEAN /\ fin \in BOOLEAN /\ reset \in BOOLEAN
  /\ phase \in {"poll", "others", "channel", "functors", "crashed"}
  /\ todo \subseteq {"read", "write", "hup"}
  /\ functors \in Seq([call : {"forceCloseInLoop", "connectDestroyed"}] \cup
                      [call : {"sendInLoop"}, msg : Messages])
  /\ left \in 0..Len(functors)
  /\ pc \in [Senders -> {"idle", "checked"}]
  /\ sends \in [Threads -> 0..MaxSends]
  /\ took \in Seq(Messages)
  /\ ups \in Nat /\ downs \in Nat

\* What the kernel took followed by what waits is the messages sendInLoop took,
\* whole and in order: direct writes, partial writes and the buffer never lose,
\* repeat or reorder a byte.
StreamIntact ==
  /\ Len(wire \o outputBuffer) = MsgLen * Len(took)
  /\ \A i \in DOMAIN took, j \in 1..MsgLen :
       (wire \o outputBuffer)[MsgLen * (i - 1) + j] = Bytes(took[i])[j]

\* The messages of one thread enter the stream in the order of its send() calls
\* and without a gap: once one is dropped, all later ones are.
SendersInOrder ==
  \A i \in DOMAIN took :
    /\ \A j \in 1..(i - 1) : took[j][1] = took[i][1] => took[j][2] < took[i][2]
    /\ \A n \in 1..(took[i][2] - 1) : \E j \in 1..(i - 1) : took[j] = <<took[i][1], n>>

\* shutdown() lets everything taken go out first, also what another thread's
\* send(), checked before the shutdown, adds after it: with the FIN sent, no byte
\* waits.
FinAfterDrain == fin => outputBuffer = <<>>

\* One callback up and one down, in this order, and the entry in the server's map
\* between them: neither a close by the peer that meets a forceClose() nor two
\* forceClose() calls run handleClose twice (the asserts at TcpConnection.cc:412
\* and TcpServer.cc:113).
CloseOnce ==
  /\ ups = (IF state = "kConnecting" THEN 0 ELSE 1)
  /\ downs = (IF state = "kDisconnected" THEN 1 ELSE 0)
  /\ listed <=> ups > downs

\* A closed connection asks for no events, whatever functors or events of the
\* same iteration still reach it, so Channel::remove and the destructor find the
\* channel quiet, and nothing puts it back into the epoll set.
ClosedIsQuiet ==
  state = "kDisconnected" =>
    /\ events = {}
    /\ index # "added"
    /\ index = "deleted" <=>
         \E i \in DOMAIN functors : functors[i].call = "connectDestroyed"

\* A connection is closed once, and for good.
ClosedForGood == CloseOnce /\ ClosedIsQuiet

\* Every closed connection is taken from the poller in the end.
ClosedIsDestroyed == state = "kDisconnected" ~> index = "new" \/ phase = "crashed"

\* After shutdown(), if the peer keeps reading, the buffer drains and the FIN goes
\* out, or the connection closes first.
ShutdownDrains ==
  state = "kDisconnecting" ~> fin \/ reset \/ state = "kDisconnected" \/ phase = "crashed"

\* The assert in handleClose (TcpConnection.cc:412).  It does not hold when
\* handleClose runs on a channel that stopRead() has taken out of the epoll set
\* (StopAnytime): disableAll() then puts the channel back, and a hang-up is
\* handled before connectDestroyed.
HandleCloseAssert ==
  [][downs' # downs => state \in {"kConnected", "kDisconnecting"}]_vars

=============================================================================
