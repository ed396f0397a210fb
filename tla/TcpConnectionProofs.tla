------------------------ MODULE TcpConnectionProofs ------------------------
(***************************************************************************)
(* Proofs about TcpConnection for any number of senders, any length of a    *)
(* message and any number of messages.                                     *)
(*                                                                         *)
(* The stream, the order of the senders and the FIN rest on one fact: while *)
(* the connection is not closed, the channel asks for write events exactly  *)
(* when bytes wait.  For the order, a message is dropped only in a state    *)
(* that drops every later one, so without such a state each message a       *)
(* thread has passed on is in the stream or in the queue.                   *)
(*                                                                         *)
(* That a connection closes once is proved for an application that stops    *)
(* reading only while output waits (~StopAnytime).  What the proof needs is *)
(* that the channel is in the epoll set at every handleClose, so that       *)
(* disableAll takes it out: whatever can still close the connection, an     *)
(* event to be handled or a queued forceCloseInLoop, keeps it there.        *)
(***************************************************************************)
EXTENDS TcpConnection, SequenceTheorems, TLAPS

TByte == Threads \X (1..MaxSends) \X (1..MsgLen)
TFunctor == [call : {"forceCloseInLoop", "connectDestroyed"}] \cup
            [call : {"sendInLoop"}, msg : Messages]

\* A sender that found the connection up has a message left to send.
CheckedMaySend == \A t \in Senders : pc[t] = "checked" => sends[t] < MaxSends

\* Before newConnection nothing reaches the connection.
NothingBefore ==
  state = "kConnecting" =>
    /\ events = {} /\ index = "new" /\ todo = {} /\ functors = <<>>
    /\ \A t \in Senders : pc[t] = "idle"

\* The channel asks for write events exactly when bytes wait.
WritingWhatWaits == state # "kDisconnected" => (isWriting <=> outputBuffer # <<>>)

StreamInv ==
  /\ TypeOK /\ CheckedMaySend /\ NothingBefore /\ WritingWhatWaits /\ FinAfterDrain

\* The functor at i of the queue f is a sendInLoop for message m.
IsSend(f, i, m) == f[i].call = "sendInLoop" /\ f[i].msg = m

\* The messages l in the stream are in the order of the calls, without a gap.
InOrder(l) ==
  \A i \in DOMAIN l :
    /\ \A j \in 1..(i - 1) : l[j][1] = l[i][1] => l[j][2] < l[i][2]
    /\ \A n \in 1..(l[i][2] - 1) : \E j \in 1..(i - 1) : l[j] = <<l[i][1], n>>

\* With l in the stream, f in the queue and c messages passed on by each thread:
\* the queue goes on where the stream ends, and unless everything is dropped,
\* every message passed on is in one of them.
OrderOK(l, f, c, dropping) ==
  /\ InOrder(l)
  /\ \A i \in DOMAIN l : l[i][2] <= c[l[i][1]]
  /\ \A i \in DOMAIN f, m \in Messages : IsSend(f, i, m) =>
       /\ m[1] \in Senders /\ m[2] <= c[m[1]]
       /\ \A j \in DOMAIN l : l[j][1] = m[1] => l[j][2] < m[2]
       /\ \A j \in 1..(i - 1), k \in Messages : IsSend(f, j, k) /\ k[1] = m[1] => k[2] < m[2]
  /\ ~dropping => \A m \in Messages : m[2] <= c[m[1]] =>
       \/ \E i \in DOMAIN l : l[i] = m
       \/ \E i \in DOMAIN f : IsSend(f, i, m)

\* Every message passed to sendInLoop from now on is dropped.
Dropping == state = "kDisconnected" \/ (outputBuffer = <<>> /\ Refused)

OrderInv == OrderOK(took, functors, sends, Dropping)

\* Events are handled in one phase of the loop, and a hang-up comes alone.
EventsInPhase ==
  /\ phase \notin {"others", "channel"} => todo = {}
  /\ ~("hup" \in todo /\ "read" \in todo)

\* Whatever may still close the connection finds its channel in the epoll set.
ClosesInSet ==
  state \in {"kConnected", "kDisconnecting"} =>
    /\ events # {} => index = "added"
    /\ todo \cap {"hup", "read"} # {} => index = "added"
    /\ \A i \in DOMAIN functors :
         functors[i].call = "forceCloseInLoop" => state = "kDisconnecting" /\ "read" \in events

\* connectDestroyed is queued once, by the close.
DestroyedOnce ==
  /\ \A i, j \in DOMAIN functors :
       functors[i].call = "connectDestroyed" /\ functors[j].call = "connectDestroyed" => i = j
  /\ state # "kDisconnected" => \A i \in DOMAIN functors : functors[i].call # "connectDestroyed"

\* No event that closes the connection is left after it is closed.
NothingAfter == state = "kDisconnected" => todo \subseteq {"write"}

CloseInv ==
  ClosedForGood /\ EventsInPhase /\ ClosesInSet /\ DestroyedOnce /\ NothingAfter

-----------------------------------------------------------------------------
(* Types, the write events and the FIN *)

\* The bytes of a message.
LEMMA BytesType ==
  ASSUME NEW m \in Messages
  PROVE  Bytes(m) \in Seq(TByte) /\ Len(Bytes(m)) = MsgLen
         /\ \A j \in 1..MsgLen : Bytes(m)[j] = <<m[1], m[2], j>>
<1>0. MsgLen \in Nat /\ m[1] \in Threads /\ m[2] \in 1..MaxSends
  BY TcpAssumption DEF Messages
<1>1. Bytes(m) \in [1..MsgLen -> TByte]
  BY <1>0 DEF Bytes, TByte
<1> QED
  BY <1>0, <1>1 DEF Bytes

\* What a write of k bytes leaves of a sequence.
LEMMA SplitType ==
  ASSUME NEW S, NEW s \in Seq(S), NEW k \in 0..Len(s)
  PROVE  /\ SubSeq(s, 1, k) \in Seq(S) /\ Len(SubSeq(s, 1, k)) = k
         /\ \A i \in 1..k : SubSeq(s, 1, k)[i] = s[i]
         /\ SubSeq(s, k + 1, Len(s)) \in Seq(S)
         /\ Len(SubSeq(s, k + 1, Len(s))) = Len(s) - k
         /\ \A i \in 1..(Len(s) - k) : SubSeq(s, k + 1, Len(s))[i] = s[k + i]
<1>0. Len(s) \in Nat /\ k \in Nat /\ k <= Len(s) /\ DOMAIN s = 1..Len(s)
  BY LenProperties
<1>1. \A i \in 1..k : s[i] \in S
  BY <1>0, ElementOfSeq
<1>2. \A i \in (k + 1)..Len(s) : s[i] \in S
  BY <1>0, ElementOfSeq
<1> DEFINE N == Len(s)
           a == SubSeq(s, 1, k)
           b == SubSeq(s, k + 1, N)
<1>3. /\ a \in Seq(S) /\ Len(a) = IF 1 <= k THEN k - 1 + 1 ELSE 0
      /\ \A i \in 1..(k - 1 + 1) : a[i] = s[1 + i - 1]
  BY <1>0, <1>1, SubSeqProperties
<1>4. /\ b \in Seq(S) /\ Len(b) = IF k + 1 <= N THEN N - (k + 1) + 1 ELSE 0
      /\ \A i \in 1..(N - (k + 1) + 1) : b[i] = s[k + 1 + i - 1]
  BY <1>0, <1>2, SubSeqProperties
<1>5. N \in Nat /\ k <= N
  BY <1>0
<1> HIDE DEF N, a, b
<1>6. Len(a) = k /\ \A i \in 1..k : a[i] = s[i]
  BY <1>0, <1>3
<1>7. Len(b) = N - k /\ \A i \in 1..(N - k) : b[i] = s[k + i]
  BY <1>0, <1>4, <1>5
<1> QED
  BY <1>3, <1>4, <1>6, <1>7 DEF N, a, b

\* sendInLoop drops the message, or takes it and hands k bytes to the kernel.
Drops == state = "kDisconnected" \/ (~isWriting /\ outputBuffer = <<>> /\ Refused)
Takes(m, k) ==
  /\ (isWriting \/ outputBuffer # <<>>) => k = 0
  /\ took' = Append(took, m)
  /\ wire' = wire \o SubSeq(Bytes(m), 1, k)
  /\ outputBuffer' = outputBuffer \o SubSeq(Bytes(m), k + 1, MsgLen)
  /\ IF k < MsgLen /\ ~isWriting THEN Update(events \cup {"write"})
     ELSE UNCHANGED channelVars

\* The two outcomes of sendInLoop.
LEMMA SendInLoopOutcomes ==
  ASSUME NEW m, SendInLoop(m)
  PROVE  \/ Drops /\ UNCHANGED <<channelVars, streamVars>>
         \/ ~Drops /\ \E k \in 0..MsgLen : Takes(m, k)
<1>1. CASE Drops
  BY <1>1 DEF SendInLoop, Drops
<1>2. CASE ~Drops
  <2> DEFINE K == IF ~isWriting /\ outputBuffer = <<>> THEN 0..MsgLen ELSE {0}
  <2>1. took' = Append(took, m)
    BY <1>2 DEF SendInLoop, Drops
  <2>2. PICK k \in K :
          /\ wire' = wire \o SubSeq(Bytes(m), 1, k)
          /\ outputBuffer' = outputBuffer \o SubSeq(Bytes(m), k + 1, MsgLen)
          /\ IF k < MsgLen /\ ~isWriting THEN Update(events \cup {"write"})
             ELSE UNCHANGED channelVars
    BY <1>2, Zenon DEF SendInLoop, Drops
  <2>3. k \in 0..MsgLen /\ ((isWriting \/ outputBuffer # <<>>) => k = 0)
    BY TcpAssumption
  <2>4. Takes(m, k)
    BY <2>1, <2>2, <2>3, Zenon DEF Takes
  <2> QED
    BY <1>2, <2>3, <2>4
<1> QED
  BY <1>1, <1>2

\* sendInLoop on a connection that is up keeps the types, asks for write events
\* when the kernel did not take all, and after the FIN buffers nothing.
LEMMA SendInLoopKeeps ==
  ASSUME StreamInv, NEW m \in Messages, SendInLoop(m), UNCHANGED <<state, fin>>
  PROVE  /\ events' \subseteq {"read", "write"} /\ index' \in {"new", "added", "deleted"}
         /\ outputBuffer' \in Seq(TByte) /\ wire' \in Seq(TByte) /\ took' \in Seq(Messages)
         /\ WritingWhatWaits' /\ FinAfterDrain'
<1>t. /\ outputBuffer \in Seq(TByte) /\ wire \in Seq(TByte) /\ took \in Seq(Messages)
      /\ events \subseteq {"read", "write"} /\ index \in {"new", "added", "deleted"}
      /\ WritingWhatWaits /\ FinAfterDrain
  BY DEF StreamInv, TypeOK, TByte
<1>1. CASE UNCHANGED <<channelVars, streamVars>>
  BY <1>1, <1>t DEF channelVars, streamVars, WritingWhatWaits, FinAfterDrain, isWriting
<1>2. ASSUME ~Drops, NEW k \in 0..MsgLen, Takes(m, k)
      PROVE  /\ events' \subseteq {"read", "write"} /\ index' \in {"new", "added", "deleted"}
             /\ outputBuffer' \in Seq(TByte) /\ wire' \in Seq(TByte) /\ took' \in Seq(Messages)
             /\ WritingWhatWaits' /\ FinAfterDrain'
  <2>0. ~Drops
    BY <1>2
  <2>1. Takes(m, k)
    BY <1>2
  <2> DEFINE a == SubSeq(Bytes(m), 1, k)
             b == SubSeq(Bytes(m), k + 1, MsgLen)
  <2>2. a \in Seq(TByte) /\ Len(a) = k /\ b \in Seq(TByte) /\ Len(b) = MsgLen - k
    <3> DEFINE c == Bytes(m)
    <3>1. c \in Seq(TByte) /\ Len(c) = MsgLen
      BY BytesType
    <3> HIDE DEF c
    <3>2. k \in 0..Len(c)
      BY <3>1
    <3>3. /\ SubSeq(c, 1, k) \in Seq(TByte) /\ Len(SubSeq(c, 1, k)) = k
          /\ SubSeq(c, k + 1, Len(c)) \in Seq(TByte)
          /\ Len(SubSeq(c, k + 1, Len(c))) = Len(c) - k
      BY <3>1, <3>2, SplitType
    <3> QED
      BY <3>1, <3>3 DEF c
  <2> HIDE DEF a, b
  <2>3. outputBuffer' = outputBuffer \o b /\ wire' = wire \o a
    BY <2>1 DEF Takes, a, b
  <2>4. outputBuffer' \in Seq(TByte) /\ wire' \in Seq(TByte) /\ took' \in Seq(Messages)
    <3>1. took' = Append(took, m)
      BY <2>1 DEF Takes
    <3> QED
      BY <1>t, <3>1, <2>2, <2>3, ConcatProperties, AppendProperties
  <2>5. Len(outputBuffer') = Len(outputBuffer) + MsgLen - k /\ Len(outputBuffer) \in Nat
    BY <1>t, <2>2, <2>3, ConcatProperties, LenProperties, TcpAssumption, ZenonT(30)
  <2>6. events' \subseteq {"read", "write"} /\ index' \in {"new", "added", "deleted"}
    BY <1>t, <2>1 DEF Takes, Update, channelVars
  <2>7. isWriting' <=> (isWriting \/ k < MsgLen)
    BY <2>1 DEF Takes, Update, channelVars, isWriting
  <2>8. outputBuffer' = <<>> => k = MsgLen /\ outputBuffer = <<>>
    <3> SUFFICES ASSUME outputBuffer' = <<>> PROVE k = MsgLen /\ outputBuffer = <<>>
      OBVIOUS
    <3>1. Len(outputBuffer') = 0
      OBVIOUS
    <3>2. Len(outputBuffer) = 0 /\ k = MsgLen
      BY <3>1, <2>5, TcpAssumption
    <3> QED
      BY <3>2, <1>t, EmptySeq
  <2>9. WritingWhatWaits'
    <3>1. isWriting <=> outputBuffer # <<>>
      BY <1>t, <2>0 DEF WritingWhatWaits, Drops
    <3>2. CASE outputBuffer' = <<>>
      BY <3>1, <3>2, <2>7, <2>8, TcpAssumption DEF WritingWhatWaits
    <3>3. CASE outputBuffer' # <<>>
      <4>1. isWriting \/ k < MsgLen
        <5> SUFFICES ASSUME ~isWriting, k = MsgLen PROVE FALSE
          BY TcpAssumption
        <5>1. Len(outputBuffer') = 0
          BY <3>1, <2>5, TcpAssumption
        <5> QED
          BY <5>1, <3>3, <2>4, EmptySeq
      <4> QED
        BY <3>3, <4>1, <2>7 DEF WritingWhatWaits
    <3> QED
      BY <3>2, <3>3
  <2>10. FinAfterDrain'
    BY <1>t, <2>0 DEF FinAfterDrain, WritingWhatWaits, Refused, Drops
  <2> QED
    BY <2>4, <2>6, <2>9, <2>10
<1> QED
  BY <1>1, <1>2, SendInLoopOutcomes

\* What a call of the application, or a handler, may leave behind.
ConnOK ==
  /\ state \in States \ {"kConnecting"}
  /\ events \subseteq {"read", "write"} /\ index \in {"new", "added", "deleted"}
  /\ outputBuffer \in Seq(TByte) /\ wire \in Seq(TByte) /\ took \in Seq(Messages)
  /\ fin \in BOOLEAN /\ functors \in Seq(TFunctor)
  /\ sends \in [Threads -> 0..MaxSends]
  /\ WritingWhatWaits /\ FinAfterDrain

\* The parts of the invariant an action that leaves the others alone restores.
LEMMA ConnRestores ==
  ASSUME StreamInv, ConnOK', UNCHANGED pc, \A t \in Senders : sends'[t] = sends[t],
         listed' \in BOOLEAN, reset' \in BOOLEAN,
         phase' \in {"poll", "others", "channel", "functors", "crashed"},
         todo' \subseteq {"read", "write", "hup"}, left' \in 0..Len(functors'),
         ups' \in Nat, downs' \in Nat
  PROVE  StreamInv'
<1>1. TypeOK'
  BY DEF StreamInv, ConnOK, TypeOK, TByte, TFunctor
<1>2. CheckedMaySend'
  BY DEF StreamInv, CheckedMaySend
<1>3. NothingBefore'
  BY DEF ConnOK, NothingBefore
<1> QED
  BY <1>1, <1>2, <1>3 DEF StreamInv, ConnOK

\* The functors after queueInLoop.
LEMMA FunctorPush ==
  ASSUME NEW s \in Seq(TFunctor), NEW x \in TFunctor
  PROVE  /\ Append(s, x) \in Seq(TFunctor) /\ Len(Append(s, x)) = Len(s) + 1
         /\ Len(s) \in Nat /\ DOMAIN s = 1..Len(s) /\ DOMAIN Append(s, x) = 1..(Len(s) + 1)
         /\ Append(s, x)[Len(s) + 1] = x
         /\ \A i \in 1..Len(s) : Append(s, x)[i] = s[i]
  BY AppendProperties, LenProperties

\* What doPendingFunctors leaves after the functor in front.
LEMMA FunctorPop ==
  ASSUME NEW s \in Seq(TFunctor), Len(s) > 0
  PROVE  /\ Tail(s) \in Seq(TFunctor) /\ Len(Tail(s)) = Len(s) - 1 /\ Len(s) \in Nat
         /\ Head(s) = s[1] /\ Head(s) \in TFunctor
         /\ DOMAIN s = 1..Len(s) /\ DOMAIN Tail(s) = 1..(Len(s) - 1)
         /\ \A i \in 1..(Len(s) - 1) : Tail(s)[i] = s[i + 1]
<1>1. Len(s) \in Nat /\ DOMAIN s = 1..Len(s) /\ s # <<>>
  BY LenProperties, EmptySeq
<1>2. Tail(s) \in Seq(TFunctor) /\ Len(Tail(s)) = Len(s) - 1 /\ Head(s) = s[1] /\ Head(s) \in TFunctor
      /\ \A i \in 1..Len(Tail(s)) : Tail(s)[i] = s[i + 1]
  BY <1>1, HeadTailProperties
<1> QED
  BY <1>1, <1>2, LenProperties

\* A call of the application in the loop thread.
LEMMA CallKeeps ==
  ASSUME StreamInv, Call
  PROVE  /\ ConnOK' /\ UNCHANGED <<pc, reset>>
         /\ \A t \in Senders : sends'[t] = sends[t]
         /\ Len(functors') \in Nat /\ Len(functors') >= Len(functors)
<1>t. /\ state \in States
      /\ outputBuffer \in Seq(TByte) /\ wire \in Seq(TByte) /\ took \in Seq(Messages)
      /\ events \subseteq {"read", "write"} /\ index \in {"new", "added", "deleted"}
      /\ WritingWhatWaits /\ FinAfterDrain
      /\ fin \in BOOLEAN /\ functors \in Seq(TFunctor) /\ Len(functors) \in Nat
      /\ sends \in [Threads -> 0..MaxSends]
  BY LenProperties DEF StreamInv, TypeOK, TByte, TFunctor
<1>1. CASE CallSend
  <2>1. /\ sends[LoopThread] < MaxSends /\ state = "kConnected"
        /\ sends' = [sends EXCEPT ![LoopThread] = @ + 1]
        /\ SendInLoop(<<LoopThread, sends[LoopThread] + 1>>)
        /\ UNCHANGED <<state, kernelVars, functors, pc>>
    BY <1>1 DEF CallSend
  <2>2. LoopThread \in Threads /\ MaxSends \in Nat
    BY TcpAssumption DEF Threads
  <2>3. <<LoopThread, sends[LoopThread] + 1>> \in Messages
    BY <1>t, <2>1, <2>2 DEF Messages
  <2>4. /\ events' \subseteq {"read", "write"} /\ index' \in {"new", "added", "deleted"}
        /\ outputBuffer' \in Seq(TByte) /\ wire' \in Seq(TByte) /\ took' \in Seq(Messages)
        /\ WritingWhatWaits' /\ FinAfterDrain'
    BY <2>1, <2>3, SendInLoopKeeps DEF kernelVars
  <2>5. sends' \in [Threads -> 0..MaxSends] /\ \A t \in Senders : sends'[t] = sends[t]
    BY <1>t, <2>1, <2>2, TcpAssumption DEF Threads
  <2>6. state' \in States \ {"kConnecting"} /\ fin' \in BOOLEAN /\ functors' = functors
        /\ UNCHANGED <<pc, reset>>
    BY <1>t, <2>1 DEF States, kernelVars
  <2> QED
    BY <1>t, <2>4, <2>5, <2>6 DEF ConnOK
<1>2. CASE CallShutdown
  <2>1. /\ state = "kConnected" /\ state' = "kDisconnecting" /\ fin' = (fin \/ "write" \notin events)
        /\ UNCHANGED <<channelVars, streamVars, reset, functors, senderVars>>
    BY <1>2 DEF CallShutdown, ShutdownInLoop
  <2>2. fin' \in BOOLEAN
    BY <2>1, Zenon
  <2>3. WritingWhatWaits' /\ FinAfterDrain'
    BY <1>t, <2>1 DEF WritingWhatWaits, FinAfterDrain, isWriting, channelVars, streamVars
  <2> QED
    BY <1>t, <2>1, <2>2, <2>3 DEF ConnOK, States, channelVars, streamVars, senderVars
<1>3. CASE CallForceClose
  <2>1. /\ state' = "kDisconnecting" /\ state # "kDisconnected"
        /\ functors' = Append(functors, Functor("forceCloseInLoop"))
        /\ UNCHANGED <<channelVars, streamVars, kernelVars, senderVars>>
    BY <1>3 DEF CallForceClose
  <2>2. Functor("forceCloseInLoop") \in TFunctor
    BY DEF Functor, TFunctor
  <2>3. functors' \in Seq(TFunctor) /\ Len(functors') = Len(functors) + 1
    BY <1>t, <2>1, <2>2, FunctorPush
  <2>4. WritingWhatWaits' /\ FinAfterDrain'
    BY <1>t, <2>1 DEF WritingWhatWaits, FinAfterDrain, isWriting, channelVars, streamVars, kernelVars
  <2> QED
    BY <1>t, <2>1, <2>3, <2>4 DEF ConnOK, States, channelVars, streamVars, kernelVars, senderVars
<1>4. CASE CallStopRead
  <2>1. /\ state = "kConnected" /\ Update(events \ {"read"})
        /\ UNCHANGED <<state, streamVars, kernelVars, functors, senderVars>>
    BY <1>4 DEF CallStopRead
  <2>2. WritingWhatWaits' /\ FinAfterDrain'
    BY <1>t, <2>1 DEF WritingWhatWaits, FinAfterDrain, isWriting, Update, streamVars, kernelVars
  <2> QED
    BY <1>t, <2>1, <2>2 DEF ConnOK, States, Update, streamVars, kernelVars, senderVars
<1>5. CASE CallStartRead
  <2>1. /\ state \in {"kConnected", "kDisconnecting"} /\ Update(events \cup {"read"})
        /\ UNCHANGED <<state, streamVars, kernelVars, functors, senderVars>>
    BY <1>5 DEF CallStartRead
  <2>2. WritingWhatWaits' /\ FinAfterDrain'
    BY <1>t, <2>1 DEF WritingWhatWaits, FinAfterDrain, isWriting, Update, streamVars, kernelVars
  <2> QED
    BY <1>t, <2>1, <2>2 DEF ConnOK, States, Update, streamVars, kernelVars, senderVars
<1> QED
  BY <1>1, <1>2, <1>3, <1>4, <1>5 DEF Call

\* handleClose, with rest the functors that stay queued.
LEMMA CloseKeeps ==
  ASSUME StreamInv, NEW rest \in Seq(TFunctor), HandleClose(rest),
         UNCHANGED <<streamVars, kernelVars, senderVars>>
  PROVE  /\ ConnOK' /\ Len(functors') = Len(rest) + 1
         /\ listed' \in BOOLEAN /\ ups' \in Nat /\ downs' \in Nat
<1>t. /\ outputBuffer \in Seq(TByte) /\ wire \in Seq(TByte) /\ took \in Seq(Messages)
      /\ fin \in BOOLEAN /\ ups \in Nat /\ downs \in Nat /\ FinAfterDrain
      /\ sends \in [Threads -> 0..MaxSends]
  BY DEF StreamInv, TypeOK, TByte
<1>1. /\ state' = "kDisconnected" /\ events' = {} /\ index' \in {"added", "deleted"}
      /\ downs' = downs + 1 /\ listed' = FALSE /\ ups' = ups
      /\ functors' = Append(rest, Functor("connectDestroyed"))
  BY DEF HandleClose, Update, RemoveConnection
<1>2. Functor("connectDestroyed") \in TFunctor
  BY DEF Functor, TFunctor
<1>3. functors' \in Seq(TFunctor) /\ Len(functors') = Len(rest) + 1
  BY <1>1, <1>2, FunctorPush
<1>4. WritingWhatWaits' /\ FinAfterDrain'
  BY <1>t, <1>1 DEF WritingWhatWaits, FinAfterDrain, streamVars, kernelVars
<1>5. ConnOK'
  BY <1>t, <1>1, <1>3, <1>4 DEF ConnOK, States, streamVars, kernelVars, senderVars
<1>6. listed' \in BOOLEAN
  BY <1>1, Zenon
<1> QED
  BY <1>t, <1>1, <1>3, <1>5, <1>6

\* A connection to which nothing happens but that phase, events to handle and
\* functors move on.
LEMMA ConnUntouched ==
  ASSUME StreamInv, state # "kConnecting", functors' \in Seq(TFunctor), index' \in {"new", "added", "deleted"},
         UNCHANGED <<state, events, streamVars, fin, sends>>
  PROVE  ConnOK'
  BY DEF ConnOK, StreamInv, TypeOK, TByte, streamVars, WritingWhatWaits, FinAfterDrain, isWriting

\* handleWrite with k bytes taken: what it leaves of the buffer, and the FIN that
\* waited for the last of them.
LEMMA WriteKeeps ==
  ASSUME StreamInv, NEW k \in 1..Len(outputBuffer), HandleWrite(k)
  PROVE  ConnOK'
<1>t. /\ outputBuffer \in Seq(TByte) /\ wire \in Seq(TByte) /\ took \in Seq(Messages)
      /\ events \subseteq {"read", "write"} /\ index \in {"new", "added", "deleted"}
      /\ WritingWhatWaits /\ FinAfterDrain /\ state \in States
      /\ fin \in BOOLEAN /\ functors \in Seq(TFunctor) /\ Len(outputBuffer) \in Nat
      /\ sends \in [Threads -> 0..MaxSends]
  BY LenProperties DEF StreamInv, TypeOK, TByte, TFunctor
<1>1. /\ isWriting /\ ~Refused
      /\ wire' = wire \o SubSeq(outputBuffer, 1, k)
      /\ outputBuffer' = SubSeq(outputBuffer, k + 1, Len(outputBuffer))
      /\ IF outputBuffer' = <<>> THEN Update(events \ {"write"}) ELSE UNCHANGED channelVars
      /\ IF outputBuffer' = <<>> /\ state = "kDisconnecting"
         THEN ShutdownInLoop(events') ELSE UNCHANGED fin
      /\ UNCHANGED <<state, took, reset, functors, serverVars, senderVars>>
  BY DEF HandleWrite
<1>2. wire' \in Seq(TByte) /\ outputBuffer' \in Seq(TByte)
  <2>1. k \in 0..Len(outputBuffer)
    BY <1>t
  <2>2. SubSeq(outputBuffer, 1, k) \in Seq(TByte) /\ outputBuffer' \in Seq(TByte)
    BY <1>t, <1>1, <2>1, SplitType
  <2> QED
    BY <1>t, <1>1, <2>2, ConcatProperties
<1>3. state # "kConnecting"
  BY <1>1 DEF StreamInv, NothingBefore, isWriting
<1>4. fin' \in BOOLEAN
  <2>1. fin' = (fin \/ "write" \notin events') \/ fin' = fin
    BY <1>1 DEF ShutdownInLoop
  <2>2. fin \in BOOLEAN
    BY <1>t
  <2> QED
    BY <2>1, <2>2, Zenon
<1>5. events' \subseteq {"read", "write"} /\ index' \in {"new", "added", "deleted"}
  BY <1>t, <1>1 DEF Update, channelVars
<1>6. FinAfterDrain'
  BY <1>t, <1>1 DEF FinAfterDrain, Refused
<1>7. WritingWhatWaits'
  <2>1. CASE outputBuffer' = <<>>
    BY <1>1, <2>1 DEF WritingWhatWaits, isWriting, Update
  <2>2. CASE outputBuffer' # <<>>
    BY <1>1, <2>2 DEF WritingWhatWaits, isWriting, channelVars
  <2> QED
    BY <2>1, <2>2
<1> QED
  BY <1>t, <1>1, <1>2, <1>3, <1>4, <1>5, <1>6, <1>7 DEF ConnOK, senderVars

\* Initially the invariant holds.
LEMMA StreamInvInit == Init => StreamInv
<1> SUFFICES ASSUME Init PROVE StreamInv
  OBVIOUS
<1>0. MaxSends \in Nat
  BY TcpAssumption
<1>1. listed \in BOOLEAN /\ fin \in BOOLEAN /\ reset \in BOOLEAN
  BY Zenon DEF Init
<1>2. TypeOK
  BY <1>0, <1>1 DEF Init, TypeOK, States
<1> QED
  BY <1>2 DEF Init, StreamInv, CheckedMaySend, NothingBefore, WritingWhatWaits, FinAfterDrain, isWriting

\* Every step keeps the invariant.
LEMMA StreamInvStep == StreamInv /\ [Next]_vars => StreamInv'
<1> SUFFICES ASSUME StreamInv, [Next]_vars PROVE StreamInv'
  OBVIOUS
<1>t. /\ TypeOK /\ NothingBefore /\ functors \in Seq(TFunctor) /\ Len(functors) \in Nat
      /\ listed \in BOOLEAN /\ reset \in BOOLEAN /\ ups \in Nat /\ downs \in Nat
      /\ left \in 0..Len(functors) /\ todo \subseteq {"read", "write", "hup"}
      /\ index \in {"new", "added", "deleted"}
      /\ phase \in {"poll", "others", "channel", "functors", "crashed"}
  BY LenProperties DEF StreamInv, TypeOK, TFunctor
<1>h. todo # {} \/ functors # <<>> => state # "kConnecting"
  BY <1>t DEF NothingBefore
<1>p. ASSUME left > 0 PROVE /\ state # "kConnecting" /\ Len(functors) > 0
                            /\ Tail(functors) \in Seq(TFunctor) /\ Len(Tail(functors)) = Len(functors) - 1
                            /\ left - 1 \in 0..(Len(functors) - 1) /\ Head(functors) \in TFunctor
  <2>1. Len(functors) > 0 /\ left - 1 \in 0..(Len(functors) - 1)
    BY <1>t, <1>p
  <2>2. functors # <<>>
    BY <2>1
  <2> QED
    BY <1>h, <1>t, <2>1, <2>2, FunctorPop
<1>s. ASSUME UNCHANGED <<state, channelVars, streamVars, kernelVars, functors, serverVars, senderVars>>,
             left' \in 0..Len(functors), phase' \in {"poll", "others", "channel", "functors"},
             todo' \subseteq {"read", "write", "hup"}, state = "kConnecting" => todo' = {}
      PROVE  StreamInv'
  <2>1. TypeOK'
    BY <1>t, <1>s DEF TypeOK, channelVars, streamVars, kernelVars, serverVars, senderVars
  <2>2. CheckedMaySend' /\ NothingBefore'
    BY <1>s DEF StreamInv, CheckedMaySend, NothingBefore, channelVars, senderVars
  <2>3. WritingWhatWaits' /\ FinAfterDrain'
    BY <1>s DEF StreamInv, WritingWhatWaits, FinAfterDrain, isWriting, channelVars, streamVars, kernelVars
  <2> QED
    BY <2>1, <2>2, <2>3 DEF StreamInv
<1>1. ASSUME NEW revents \in SUBSET {"read", "write", "hup"}, Poll(revents) PROVE StreamInv'
  <2>1. state = "kConnecting" => revents = {}
    BY <1>1, <1>t DEF Poll, NothingBefore
  <2> QED
    BY <1>1, <1>s, <1>t, <2>1 DEF Poll
<1>2. CASE OthersDone
  BY <1>2, <1>s, <1>t DEF OthersDone, NothingBefore
<1>3. CASE SwapFunctors
  BY <1>3, <1>s, <1>t DEF SwapFunctors
<1>4. CASE BatchDone
  BY <1>4, <1>s, <1>t DEF BatchDone, NothingBefore
<1>5. CASE HandleHup
  <2>1. /\ HandleClose(functors) /\ todo' \subseteq todo /\ UNCHANGED <<phase, left>>
        /\ UNCHANGED <<streamVars, kernelVars, senderVars>>
    BY <1>5 DEF HandleHup, Handling
  <2>2. /\ ConnOK' /\ Len(functors') = Len(functors) + 1
        /\ listed' \in BOOLEAN /\ ups' \in Nat /\ downs' \in Nat
    BY <1>t, <2>1, CloseKeeps
  <2>3. /\ UNCHANGED <<pc, sends, reset>> /\ left' \in 0..Len(functors')
        /\ todo' \subseteq {"read", "write", "hup"}
    BY <1>t, <2>1, <2>2 DEF kernelVars, senderVars
  <2> QED
    BY <1>t, <2>1, <2>2, <2>3, ConnRestores
<1>6. CASE HandleRead
  <2>1. /\ Call \/ NoCall
        /\ "read" \in todo /\ todo' \subseteq todo /\ UNCHANGED <<phase, left, serverVars>>
    BY <1>6 DEF HandleRead, Handling
  <2>2. CASE Call
    <3>1. /\ ConnOK' /\ UNCHANGED <<pc, reset>>
          /\ \A t \in Senders : sends'[t] = sends[t]
          /\ Len(functors') \in Nat /\ Len(functors') >= Len(functors)
      BY <2>2, CallKeeps
    <3>2. /\ left' \in 0..Len(functors') /\ todo' \subseteq {"read", "write", "hup"}
          /\ UNCHANGED <<listed, ups, downs>>
      BY <1>t, <2>1, <3>1 DEF serverVars
    <3> QED
      BY <1>t, <2>1, <3>1, <3>2, ConnRestores
  <2>3. CASE NoCall
    BY <1>h, <1>s, <1>t, <1>6, <2>1, <2>3 DEF NoCall, HandleRead, Handling
  <2> QED
    BY <2>1, <2>2, <2>3
<1>7. CASE HandleReadEnd
  <2>1. /\ HandleClose(functors) /\ todo' \subseteq todo /\ UNCHANGED <<phase, left>>
        /\ UNCHANGED <<streamVars, kernelVars, senderVars>>
    BY <1>7 DEF HandleReadEnd, Handling
  <2>2. /\ ConnOK' /\ Len(functors') = Len(functors) + 1
        /\ listed' \in BOOLEAN /\ ups' \in Nat /\ downs' \in Nat
    BY <1>t, <2>1, CloseKeeps
  <2>3. /\ UNCHANGED <<pc, sends, reset>> /\ left' \in 0..Len(functors')
        /\ todo' \subseteq {"read", "write", "hup"}
    BY <1>t, <2>1, <2>2 DEF kernelVars, senderVars
  <2> QED
    BY <1>t, <2>1, <2>2, <2>3, ConnRestores
<1>8. ASSUME NEW k \in 1..Len(outputBuffer), HandleWrite(k) PROVE StreamInv'
  <2>1. ConnOK'
    BY <1>8, WriteKeeps
  <2>2. /\ todo' \subseteq todo /\ UNCHANGED <<phase, left, reset, functors, listed, ups, downs, pc, sends>>
    BY <1>8 DEF HandleWrite, Handling, serverVars, senderVars
  <2> QED
    BY <1>t, <2>1, <2>2, ConnRestores
<1>9. CASE HandleWriteNothing
  BY <1>h, <1>s, <1>t, <1>9 DEF HandleWriteNothing, Handling
<1>10. CASE RunSend
  <2>1. /\ left > 0 /\ left' = left - 1 /\ UNCHANGED todo /\ Head(functors).call = "sendInLoop"
        /\ SendInLoop(Head(functors).msg) /\ functors' = Tail(functors)
        /\ UNCHANGED <<phase, state, kernelVars, serverVars, senderVars>>
    BY <1>10 DEF RunSend, Running
  <2>2. Head(functors).msg \in Messages
    BY <1>p, <2>1 DEF TFunctor
  <2>3. /\ events' \subseteq {"read", "write"} /\ index' \in {"new", "added", "deleted"}
        /\ outputBuffer' \in Seq(TByte) /\ wire' \in Seq(TByte) /\ took' \in Seq(Messages)
        /\ WritingWhatWaits' /\ FinAfterDrain'
    BY <2>1, <2>2, SendInLoopKeeps DEF kernelVars
  <2>4. ConnOK'
    BY <1>p, <2>1, <2>3 DEF ConnOK, StreamInv, TypeOK, kernelVars, senderVars
  <2>5. left' \in 0..Len(functors') /\ UNCHANGED <<reset, listed, ups, downs, pc, sends>>
    BY <1>p, <2>1 DEF kernelVars, serverVars, senderVars
  <2> QED
    BY <1>t, <2>1, <2>4, <2>5, ConnRestores
<1>11. CASE RunDanglingSend
  <2>1. /\ left > 0 /\ left' = left - 1 /\ UNCHANGED todo /\ phase' \in {"functors", "crashed"}
        /\ functors' = Tail(functors)
        /\ UNCHANGED <<state, channelVars, streamVars, kernelVars, serverVars, senderVars>>
    BY <1>11 DEF RunDanglingSend, Running
  <2>2. ConnOK'
    BY <1>p, <1>t, <2>1, ConnUntouched DEF channelVars, kernelVars, senderVars
  <2>3. left' \in 0..Len(functors') /\ UNCHANGED <<reset, listed, ups, downs, pc, sends>>
    BY <1>p, <2>1 DEF kernelVars, serverVars, senderVars
  <2> QED
    BY <1>t, <2>1, <2>2, <2>3, ConnRestores
<1>12. CASE RunForceClose
  <2>1. /\ left > 0 /\ left' = left - 1 /\ UNCHANGED todo
        /\ UNCHANGED <<phase, streamVars, kernelVars, senderVars>>
    BY <1>12 DEF RunForceClose, Running
  <2>2. CASE state \in {"kConnected", "kDisconnecting"}
    <3>1. /\ ConnOK' /\ Len(functors') = Len(Tail(functors)) + 1
          /\ listed' \in BOOLEAN /\ ups' \in Nat /\ downs' \in Nat
      BY <1>12, <1>p, <2>1, <2>2, CloseKeeps DEF RunForceClose
    <3>2. left' \in 0..Len(functors') /\ UNCHANGED <<reset, pc, sends>>
      BY <1>p, <1>t, <2>1, <3>1 DEF kernelVars, senderVars
    <3> QED
      BY <1>t, <2>1, <3>1, <3>2, ConnRestores
  <2>3. CASE state \notin {"kConnected", "kDisconnecting"}
    <3>1. functors' = Tail(functors) /\ UNCHANGED <<state, channelVars, serverVars>>
      BY <1>12, <2>3 DEF RunForceClose
    <3>2. ConnOK'
      BY <1>p, <1>t, <2>1, <3>1, ConnUntouched DEF channelVars, kernelVars, senderVars
    <3>3. left' \in 0..Len(functors') /\ UNCHANGED <<reset, listed, ups, downs, pc, sends>>
      BY <1>p, <2>1, <3>1 DEF kernelVars, serverVars, senderVars
    <3> QED
      BY <1>t, <2>1, <3>2, <3>3, ConnRestores
  <2> QED
    BY <2>2, <2>3
<1>13. CASE RunConnectDestroyed
  <2>1. /\ left > 0 /\ left' = left - 1 /\ UNCHANGED todo /\ index' = "new"
        /\ functors' = Tail(functors)
        /\ UNCHANGED <<phase, state, events, streamVars, kernelVars, serverVars, senderVars>>
    BY <1>13 DEF RunConnectDestroyed, Running
  <2>2. ConnOK'
    BY <1>p, <2>1, ConnUntouched DEF kernelVars, senderVars
  <2>3. left' \in 0..Len(functors') /\ UNCHANGED <<reset, listed, ups, downs, pc, sends>>
    BY <1>p, <2>1 DEF kernelVars, serverVars, senderVars
  <2> QED
    BY <1>t, <2>1, <2>2, <2>3, ConnRestores
<1>14. CASE NewConnection
  <2>1. /\ state = "kConnecting" /\ state' = "kConnected" /\ events' = {"read"} /\ index' = "added"
        /\ ups' = ups + 1 /\ listed' = TRUE
        /\ UNCHANGED <<streamVars, kernelVars, loopVars, functors, downs, senderVars>>
    BY <1>14 DEF NewConnection, Update
  <2>2. WritingWhatWaits' /\ FinAfterDrain'
    BY <1>t, <2>1 DEF StreamInv, NothingBefore, WritingWhatWaits, FinAfterDrain, isWriting, streamVars, kernelVars
  <2>3. listed' \in BOOLEAN
    BY <2>1, Zenon
  <2>4. ConnOK'
    BY <1>t, <2>1, <2>2 DEF ConnOK, TypeOK, TByte, States, streamVars, kernelVars, senderVars
  <2>5. UNCHANGED <<phase, todo, left, functors, reset, downs, pc, sends>>
    BY <2>1 DEF loopVars, kernelVars, senderVars
  <2> QED
    BY <1>t, <2>1, <2>3, <2>4, <2>5, ConnRestores
<1>15. CASE OtherHandler
  <2>1. Call /\ UNCHANGED <<phase, todo, left, listed, ups, downs>>
    BY <1>15 DEF OtherHandler, loopVars, serverVars
  <2>2. /\ ConnOK' /\ UNCHANGED <<pc, reset>>
        /\ \A t \in Senders : sends'[t] = sends[t]
        /\ Len(functors') \in Nat /\ Len(functors') >= Len(functors)
    BY <2>1, CallKeeps
  <2>3. left' \in 0..Len(functors')
    BY <1>t, <2>1, <2>2
  <2> QED
    BY <1>t, <2>1, <2>2, <2>3, ConnRestores
<1>16. ASSUME NEW t \in Senders, SendChecks(t) PROVE StreamInv'
  <2>1. /\ sends[t] < MaxSends /\ state = "kConnected" /\ pc' = [pc EXCEPT ![t] = "checked"]
        /\ UNCHANGED <<state, channelVars, streamVars, kernelVars, loopVars, functors, serverVars, sends>>
    BY <1>16 DEF SendChecks
  <2>2. TypeOK' /\ CheckedMaySend'
    BY <1>t, <2>1 DEF StreamInv, CheckedMaySend, TypeOK, channelVars, streamVars, kernelVars, loopVars, serverVars
  <2>3. NothingBefore' /\ WritingWhatWaits' /\ FinAfterDrain'
    BY <2>1 DEF StreamInv, NothingBefore, WritingWhatWaits, FinAfterDrain, isWriting, channelVars, streamVars, kernelVars
  <2> QED
    BY <2>2, <2>3 DEF StreamInv
<1>17. ASSUME NEW t \in Senders, SendPushes(t) PROVE StreamInv'
  <2>1. /\ pc[t] = "checked" /\ pc' = [pc EXCEPT ![t] = "idle"]
        /\ sends' = [sends EXCEPT ![t] = @ + 1]
        /\ functors' = Append(functors, SendFunctor(<<t, sends[t] + 1>>))
        /\ UNCHANGED <<state, channelVars, streamVars, kernelVars, loopVars, serverVars>>
    BY <1>17 DEF SendPushes
  <2>2. /\ t \in Threads /\ sends[t] \in 0..MaxSends /\ sends[t] < MaxSends /\ MaxSends \in Nat
        /\ sends \in [Threads -> 0..MaxSends] /\ pc \in [Senders -> {"idle", "checked"}]
    BY <1>t, <2>1, TcpAssumption DEF StreamInv, CheckedMaySend, TypeOK, Threads
  <2>3. SendFunctor(<<t, sends[t] + 1>>) \in TFunctor
    BY <2>2 DEF SendFunctor, TFunctor, Messages
  <2>4. functors' \in Seq(TFunctor) /\ Len(functors') = Len(functors) + 1
    BY <1>t, <2>1, <2>3, FunctorPush
  <2>5. sends' \in [Threads -> 0..MaxSends] /\ pc' \in [Senders -> {"idle", "checked"}] /\ CheckedMaySend'
    BY <2>1, <2>2 DEF StreamInv, CheckedMaySend
  <2>6. left' \in 0..Len(functors')
    BY <1>t, <2>1, <2>4 DEF loopVars
  <2>7. TypeOK'
    BY <1>t, <2>1, <2>4, <2>5, <2>6 DEF TypeOK, TFunctor, channelVars, streamVars, kernelVars, loopVars, serverVars
  <2>8. NothingBefore' /\ WritingWhatWaits' /\ FinAfterDrain'
    BY <2>1 DEF StreamInv, NothingBefore, WritingWhatWaits, FinAfterDrain, isWriting, channelVars, streamVars, kernelVars
  <2> QED
    BY <2>5, <2>7, <2>8 DEF StreamInv
<1>18. CASE PeerResets
  <2>1. /\ reset' = TRUE
        /\ UNCHANGED <<state, channelVars, streamVars, fin, loopVars, functors, serverVars, senderVars>>
    BY <1>18 DEF PeerResets
  <2>2. reset' \in BOOLEAN
    BY <2>1, Zenon
  <2>3. TypeOK' /\ CheckedMaySend'
    BY <1>t, <2>1, <2>2 DEF StreamInv, CheckedMaySend, TypeOK, channelVars, streamVars, loopVars, serverVars, senderVars
  <2>4. NothingBefore' /\ WritingWhatWaits' /\ FinAfterDrain'
    BY <2>1 DEF StreamInv, NothingBefore, WritingWhatWaits, FinAfterDrain, isWriting, channelVars, streamVars, loopVars, senderVars
  <2> QED
    BY <2>3, <2>4 DEF StreamInv
<1>19. CASE UNCHANGED vars
  BY <1>19 DEF vars, channelVars, streamVars, kernelVars, loopVars, serverVars, senderVars,
     StreamInv, TypeOK, CheckedMaySend, NothingBefore, WritingWhatWaits, FinAfterDrain, isWriting
<1> QED
  BY <1>1, <1>2, <1>3, <1>4, <1>5, <1>6, <1>7, <1>8, <1>9, <1>10, <1>11, <1>12, <1>13, <1>14,
     <1>15, <1>16, <1>17, <1>18, <1>19 DEF Next, LoopAdvances, PollNext, WriteNext

\* For any senders, message length and numbers of calls, the state of the
\* connection, of its channel and of its functors keeps its type.
THEOREM TypeCorrect == Spec => []TypeOK
<1>1. StreamInv => TypeOK
  BY DEF StreamInv
<1> QED
  BY <1>1, StreamInvInit, StreamInvStep, PTL DEF Spec

\* The FIN never overtakes bytes that wait: a shutdown() goes out in handleWrite,
\* with the buffer empty, and a send() checked before it is dropped after it.
THEOREM FinNeverOvertakes == Spec => []FinAfterDrain
<1>1. StreamInv => FinAfterDrain
  BY DEF StreamInv
<1> QED
  BY <1>1, StreamInvInit, StreamInvStep, PTL DEF Spec

-----------------------------------------------------------------------------
(* The stream *)

\* k waiting bytes go to the kernel.
Moves(k) ==
  /\ took' = took
  /\ wire' = wire \o SubSeq(outputBuffer, 1, k)
  /\ outputBuffer' = SubSeq(outputBuffer, k + 1, Len(outputBuffer))

\* What a step does to the stream, and which message it takes.
LEMMA StreamSteps ==
  ASSUME StreamInv, [Next]_vars
  PROVE  \/ UNCHANGED streamVars
         \/ \E m \in Messages, k \in 0..MsgLen : Takes(m, k) /\ ~Drops
         \/ \E k \in 1..Len(outputBuffer) : Moves(k)
<1>s. ASSUME NEW m \in Messages, SendInLoop(m)
      PROVE  UNCHANGED streamVars \/ \E n \in Messages, k \in 0..MsgLen : Takes(n, k) /\ ~Drops
  BY <1>s, SendInLoopOutcomes
<1>c. ASSUME Call
      PROVE  UNCHANGED streamVars \/ \E n \in Messages, k \in 0..MsgLen : Takes(n, k) /\ ~Drops
  <2>1. CASE CallSend
    <3>1. <<LoopThread, sends[LoopThread] + 1>> \in Messages
      BY <2>1, TcpAssumption DEF CallSend, StreamInv, TypeOK, Messages, Threads
    <3> QED
      BY <2>1, <3>1, <1>s DEF CallSend
  <2> QED
    BY <1>c, <2>1 DEF Call, CallShutdown, CallForceClose, CallStopRead, CallStartRead
<1>1. CASE HandleRead
  BY <1>1, <1>c DEF HandleRead, NoCall
<1>2. CASE OtherHandler
  BY <1>2, <1>c DEF OtherHandler
<1>3. CASE RunSend
  <2>1. Head(functors).msg \in Messages
    <3>1. functors \in Seq(TFunctor) /\ left \in 0..Len(functors) /\ left > 0 /\ Len(functors) \in Nat
      BY <1>3, LenProperties DEF RunSend, Running, StreamInv, TypeOK, TFunctor
    <3>2. Head(functors) \in TFunctor
      BY <3>1, FunctorPop
    <3> QED
      BY <3>2, <1>3 DEF RunSend, Running, TFunctor
  <2> QED
    BY <1>3, <2>1, <1>s DEF RunSend
<1>4. ASSUME NEW k \in 1..Len(outputBuffer), HandleWrite(k) PROVE Moves(k)
  BY <1>4 DEF HandleWrite, Moves
<1> QED
  BY <1>1, <1>2, <1>3, <1>4 DEF Next, LoopAdvances, PollNext, WriteNext, Poll, OthersDone,
     HandleHup, HandleReadEnd, HandleWriteNothing, SwapFunctors, RunDanglingSend, RunForceClose,
     RunConnectDestroyed, BatchDone, NewConnection, SendChecks, SendPushes, PeerResets, vars

\* Where the bytes of n messages of L bytes end.
LEMMA MessageBounds ==
  ASSUME NEW L \in Nat, NEW n \in Nat
  PROVE  /\ L * n \in Nat /\ L * (n + 1) = L * n + L
         /\ \A i \in 1..n, j \in 1..L : L * (i - 1) + j \in 1..(L * n)
<1>1. L * n \in Nat /\ L * (n + 1) = L * n + L
  OBVIOUS
<1>2. ASSUME NEW i \in 1..n, NEW j \in 1..L PROVE L * (i - 1) + j \in 1..(L * n)
  <2>1. PICK d \in Nat : n = i + d
    <3>1. n - i \in Nat /\ n = i + (n - i)
      OBVIOUS
    <3> QED
      BY <3>1
  <2>2. L * n = L * (i - 1) + L + L * d
    BY <2>1
  <2>3. L * d \in Nat /\ L * (i - 1) \in Nat
    <3>1. i - 1 \in Nat
      OBVIOUS
    <3> QED
      BY <3>1
  <2> DEFINE x == L * n
             y == L * (i - 1)
             z == L * d
  <2>4. x = y + L + z /\ z \in Nat /\ y \in Nat
    BY <2>2, <2>3
  <2> HIDE DEF x, y, z
  <2>5. y + j \in 1..x
    BY <2>4
  <2> QED
    BY <2>5 DEF x, y
<1> QED
  BY <1>1, <1>2

\* w holds the bytes of the messages l, one after the other.
Holds(w, l) ==
  /\ Len(w) = MsgLen * Len(l)
  /\ \A i \in DOMAIN l, j \in 1..MsgLen : w[MsgLen * (i - 1) + j] = Bytes(l[i])[j]

\* One more message at the end of both.
LEMMA HoldsOneMore ==
  ASSUME NEW w \in Seq(TByte), NEW l \in Seq(Messages), NEW m \in Messages, Holds(w, l)
  PROVE  Holds(w \o Bytes(m), Append(l, m))
<1> DEFINE c == Bytes(m)
           v == w \o c
           k == Append(l, m)
           n == Len(l)
           N == MsgLen * n
<1>0. MsgLen \in Nat /\ n \in Nat /\ DOMAIN l = 1..n
  BY TcpAssumption, LenProperties
<1>1. c \in Seq(TByte) /\ Len(c) = MsgLen
  BY BytesType
<1>2. /\ k \in Seq(Messages) /\ Len(k) = n + 1 /\ k[n + 1] = m
      /\ \A i \in 1..n : k[i] = l[i]
  BY AppendProperties
<1>3. DOMAIN k = 1..(n + 1)
  BY <1>2, LenProperties
<1>4. Len(w) = N /\ \A i \in 1..n, j \in 1..MsgLen : w[MsgLen * (i - 1) + j] = Bytes(l[i])[j]
  BY <1>0 DEF Holds
<1>5. N \in Nat /\ MsgLen * (n + 1) = N + MsgLen
      /\ \A i \in 1..n, j \in 1..MsgLen : MsgLen * (i - 1) + j \in 1..N
  BY <1>0, MessageBounds
<1> HIDE DEF c, k, n
<1>6. /\ Len(v) = Len(w) + Len(c)
      /\ \A p \in 1..(Len(w) + Len(c)) : v[p] = IF p <= Len(w) THEN w[p] ELSE c[p - Len(w)]
  BY <1>1, ConcatProperties
<1> HIDE DEF v
<1>7. Len(v) = MsgLen * Len(k)
  BY <1>1, <1>2, <1>4, <1>5, <1>6
<1>8. ASSUME NEW i \in 1..(n + 1), NEW j \in 1..MsgLen
      PROVE  v[MsgLen * (i - 1) + j] = Bytes(k[i])[j]
  <2>1. CASE i \in 1..n
    <3> DEFINE p == MsgLen * (i - 1) + j
    <3>1. p \in 1..N /\ w[p] = Bytes(l[i])[j]
      BY <2>1, <1>4, <1>5
    <3> HIDE DEF p, N
    <3>2. v[p] = w[p]
      BY <3>1, <1>0, <1>1, <1>4, <1>5, <1>6
    <3> QED
      BY <3>1, <3>2, <2>1, <1>2 DEF p
  <2>2. CASE i = n + 1
    <3>1. MsgLen * (i - 1) = N
      BY <2>2, <1>0
    <3> HIDE DEF N
    <3>2. v[N + j] = c[j]
      <4> DEFINE q == N + j
      <4>1. N \in Nat /\ Len(w) = N /\ Len(c) = MsgLen /\ MsgLen \in Nat
        BY <1>0, <1>1, <1>4, <1>5
      <4>2. q \in 1..(Len(w) + Len(c)) /\ ~(q <= Len(w)) /\ q - Len(w) = j
        BY <4>1
      <4> HIDE DEF q
      <4>3. v[q] = c[q - Len(w)]
        BY <4>2, <1>6
      <4> QED
        BY <4>2, <4>3 DEF q
    <3> QED
      BY <3>1, <3>2, <2>2, <1>2 DEF c
  <2> QED
    BY <1>0, <2>1, <2>2
<1> QED
  BY <1>3, <1>7, <1>8 DEF Holds, v, k, c

\* The two parts of a sequence cut after k.
LEMMA CutAndJoin ==
  ASSUME NEW S, NEW s \in Seq(S), NEW k \in 0..Len(s)
  PROVE  SubSeq(s, 1, k) \o SubSeq(s, k + 1, Len(s)) = s
<1>0. Len(s) \in Nat
  BY LenProperties
<1>1. 1 \in 1..(Len(s) + 1) /\ k \in (1 - 1)..Len(s) /\ Len(s) \in k..Len(s)
  BY <1>0
<1>2. SubSeq(s, 1, k) \o SubSeq(s, k + 1, Len(s)) = SubSeq(s, 1, Len(s))
  BY <1>1, ConcatAdjacentSubSeq
<1> QED
  BY <1>2, SubSeqFull

\* Three pieces of the stream may be joined in either order.
LEMMA JoinThree ==
  ASSUME NEW r \in Seq(TByte), NEW s \in Seq(TByte), NEW t \in Seq(TByte)
  PROVE  (r \o s) \o t = r \o (s \o t)
  BY ConcatAssociative

\* Every step keeps the stream whole.
LEMMA StreamIntactStep == StreamInv /\ StreamIntact /\ [Next]_vars => StreamIntact'
<1> SUFFICES ASSUME StreamInv, StreamIntact, [Next]_vars PROVE StreamIntact'
  OBVIOUS
<1>t. outputBuffer \in Seq(TByte) /\ wire \in Seq(TByte) /\ took \in Seq(Messages)
  BY DEF StreamInv, TypeOK, TByte
<1>1. CASE UNCHANGED streamVars
  BY <1>1 DEF StreamIntact, streamVars
<1>2. ASSUME NEW m \in Messages, NEW k \in 0..MsgLen, Takes(m, k) PROVE StreamIntact'
  <2> DEFINE c == Bytes(m)
             a == SubSeq(c, 1, k)
             b == SubSeq(c, k + 1, Len(c))
             w == wire
             o == outputBuffer
  <2>1. c \in Seq(TByte) /\ Len(c) = MsgLen
    BY BytesType
  <2>2. wire' = w \o a /\ outputBuffer' = o \o b /\ took' = Append(took, m) /\ (o # <<>> => k = 0)
    BY <1>2, <2>1 DEF Takes
  <2> HIDE DEF c
  <2>3. a \in Seq(TByte) /\ Len(a) = k /\ b \in Seq(TByte) /\ a \o b = c
    BY <2>1, SplitType, CutAndJoin
  <2> HIDE DEF a, b
  <2>4. (w \o a) \o (o \o b) = (w \o o) \o c
    <3>1. CASE o = <<>>
      <4>1. o \o b = b /\ w \o o = w
        BY <3>1, <1>t, <2>3, ConcatEmptySeq
      <4>2. (w \o a) \o b = w \o (a \o b)
        BY <1>t, <2>3, JoinThree
      <4> QED
        BY <4>1, <4>2, <2>3
    <3>2. CASE o # <<>>
      <4>1. a = <<>>
        BY <2>2, <2>3, <3>2, EmptySeq
      <4>2. w \o a = w /\ c = b
        BY <4>1, <1>t, <2>3, ConcatEmptySeq
      <4>3. (w \o o) \o b = w \o (o \o b)
        BY <1>t, <2>3, JoinThree
      <4> QED
        BY <4>2, <4>3
    <3> QED
      BY <3>1, <3>2
  <2>5. Holds(w \o o, took) /\ w \o o \in Seq(TByte)
    BY <1>t, ConcatProperties DEF StreamIntact, Holds
  <2>6. Holds((w \o o) \o c, Append(took, m))
    BY <1>t, <2>5, HoldsOneMore DEF c
  <2>7. Holds(wire' \o outputBuffer', took')
    BY <2>2, <2>4, <2>6
  <2> QED
    BY <2>7 DEF StreamIntact, Holds
<1>3. ASSUME NEW k \in 1..Len(outputBuffer), Moves(k) PROVE StreamIntact'
  <2> DEFINE a == SubSeq(outputBuffer, 1, k)
             b == SubSeq(outputBuffer, k + 1, Len(outputBuffer))
  <2>1. k \in 0..Len(outputBuffer)
    BY <1>t, LenProperties
  <2>2. a \in Seq(TByte) /\ b \in Seq(TByte) /\ a \o b = outputBuffer
    BY <1>t, <2>1, SplitType, CutAndJoin
  <2>3. wire' = wire \o a /\ outputBuffer' = b /\ took' = took
    BY <1>3 DEF Moves
  <2> HIDE DEF a, b
  <2>4. (wire \o a) \o b = wire \o outputBuffer
    <3>1. (wire \o a) \o b = wire \o (a \o b)
      BY <1>t, <2>2, JoinThree
    <3> QED
      BY <3>1, <2>2
  <2> QED
    BY <2>3, <2>4 DEF StreamIntact
<1> QED
  BY <1>1, <1>2, <1>3, StreamSteps

\* Whatever the kernel takes of each write, the bytes it took and those that wait
\* are the messages sendInLoop took, whole and in order.
THEOREM StreamAlwaysIntact == Spec => []StreamIntact
<1>1. Init => StreamIntact
  BY TcpAssumption DEF Init, StreamIntact
<1> QED
  BY <1>1, StreamInvInit, StreamInvStep, StreamIntactStep, PTL DEF Spec

-----------------------------------------------------------------------------
(* The order of the senders *)

\* A functor that sends nothing is queued.
LEMMA OrderPush ==
  ASSUME NEW l \in Seq(Messages), NEW f \in Seq(TFunctor), NEW c, NEW d \in BOOLEAN,
         OrderOK(l, f, c, d), NEW x \in TFunctor, x.call # "sendInLoop"
  PROVE  OrderOK(l, Append(f, x), c, d)
<1> DEFINE g == Append(f, x)
           n == Len(f)
<1>1. /\ n \in Nat /\ DOMAIN f = 1..n /\ DOMAIN g = 1..(n + 1) /\ g[n + 1] = x
      /\ \A i \in 1..n : g[i] = f[i]
  BY FunctorPush
<1> HIDE DEF g, n
<1>2. \A i \in DOMAIN g, m \in Messages : IsSend(g, i, m) => i \in DOMAIN f /\ IsSend(f, i, m)
  BY <1>1 DEF IsSend
<1>3. \A i \in DOMAIN f, m \in Messages : IsSend(f, i, m) => i \in DOMAIN g /\ IsSend(g, i, m)
  BY <1>1 DEF IsSend
<1>4. ASSUME NEW i \in DOMAIN g, NEW m \in Messages, IsSend(g, i, m)
      PROVE  /\ m[1] \in Senders /\ m[2] <= c[m[1]]
             /\ \A j \in DOMAIN l : l[j][1] = m[1] => l[j][2] < m[2]
             /\ \A j \in 1..(i - 1), k \in Messages : IsSend(g, j, k) /\ k[1] = m[1] => k[2] < m[2]
  <2>1. i \in DOMAIN f /\ IsSend(f, i, m)
    BY <1>2, <1>4
  <2>2. \A j \in 1..(i - 1) : j \in DOMAIN g
    BY <1>1, <2>1
  <2> QED
    BY <1>2, <2>1, <2>2 DEF OrderOK
<1>5. ~d => \A m \in Messages : m[2] <= c[m[1]] =>
             \/ \E i \in DOMAIN l : l[i] = m
             \/ \E i \in DOMAIN g : IsSend(g, i, m)
  BY <1>3 DEF OrderOK
<1> QED
  BY <1>4, <1>5 DEF OrderOK, g

\* A functor leaves the front of the queue that sends nothing, or whose message
\* is dropped.
LEMMA OrderPop ==
  ASSUME NEW l \in Seq(Messages), NEW f \in Seq(TFunctor), NEW c, NEW d \in BOOLEAN,
         OrderOK(l, f, c, d), Len(f) > 0, d \/ Head(f).call # "sendInLoop"
  PROVE  OrderOK(l, Tail(f), c, d)
<1> DEFINE g == Tail(f)
           n == Len(f)
<1>1. /\ n \in Nat /\ DOMAIN f = 1..n /\ DOMAIN g = 1..(n - 1) /\ Head(f) = f[1]
      /\ \A i \in 1..(n - 1) : g[i] = f[i + 1]
  BY FunctorPop
<1> HIDE DEF g, n
<1>2. \A i \in DOMAIN g : i + 1 \in DOMAIN f /\ i \in Int
  BY <1>1
<1>3. \A i \in DOMAIN g, m \in Messages : IsSend(g, i, m) <=> IsSend(f, i + 1, m)
  BY <1>1 DEF IsSend
<1>4. ASSUME NEW i \in DOMAIN g, NEW m \in Messages, IsSend(g, i, m)
      PROVE  /\ m[1] \in Senders /\ m[2] <= c[m[1]]
             /\ \A j \in DOMAIN l : l[j][1] = m[1] => l[j][2] < m[2]
             /\ \A j \in 1..(i - 1), k \in Messages : IsSend(g, j, k) /\ k[1] = m[1] => k[2] < m[2]
  <2>0. PICK q \in DOMAIN f : q = i + 1
    BY <1>2
  <2>1. IsSend(f, q, m)
    BY <1>3, <1>4, <2>0
  <2>2. \A j \in 1..(i - 1) : j \in DOMAIN g /\ j + 1 \in 1..(q - 1)
    BY <1>1, <1>4, <2>0
  <2>3. /\ m[1] \in Senders /\ m[2] <= c[m[1]]
        /\ \A j \in DOMAIN l : l[j][1] = m[1] => l[j][2] < m[2]
        /\ \A j \in 1..(q - 1), k \in Messages : IsSend(f, j, k) /\ k[1] = m[1] => k[2] < m[2]
    BY <2>1 DEF OrderOK
  <2> QED
    BY <1>3, <2>2, <2>3
<1>5. ASSUME ~d, NEW m \in Messages, m[2] <= c[m[1]]
      PROVE  \/ \E i \in DOMAIN l : l[i] = m
             \/ \E i \in DOMAIN g : IsSend(g, i, m)
  <2>1. CASE \E i \in DOMAIN l : l[i] = m
    BY <2>1
  <2>2. ASSUME NEW i \in DOMAIN f, IsSend(f, i, m) PROVE \E j \in DOMAIN g : IsSend(g, j, m)
    <3>1. i # 1
      BY <1>1, <1>5, <2>2 DEF IsSend
    <3>2. i - 1 \in DOMAIN g /\ i - 1 + 1 = i
      BY <1>1, <3>1
    <3> QED
      BY <1>3, <2>2, <3>2
  <2> QED
    BY <1>5, <2>1, <2>2 DEF OrderOK
<1> QED
  BY <1>4, <1>5 DEF OrderOK, g

\* The message at the front of the queue is the next of its thread.
LEMMA OrderTake ==
  ASSUME NEW l \in Seq(Messages), NEW f \in Seq(TFunctor), NEW c \in [Threads -> 0..MaxSends],
         OrderOK(l, f, c, FALSE), Len(f) > 0, NEW m \in Messages, IsSend(f, 1, m)
  PROVE  OrderOK(Append(l, m), Tail(f), c, FALSE)
<1> DEFINE g == Tail(f)
           n == Len(f)
           k == Append(l, m)
           N == Len(l)
<1>1. /\ n \in Nat /\ DOMAIN f = 1..n /\ DOMAIN g = 1..(n - 1) /\ 1 \in DOMAIN f
      /\ \A i \in 1..(n - 1) : g[i] = f[i + 1]
  BY FunctorPop
<1>2. /\ k \in Seq(Messages) /\ Len(k) = N + 1 /\ k[N + 1] = m /\ N \in Nat /\ DOMAIN l = 1..N
      /\ \A i \in 1..N : k[i] = l[i]
  BY AppendProperties, LenProperties
<1>3. DOMAIN k = 1..(N + 1)
  BY <1>2, LenProperties
<1>m. m[1] \in Threads /\ m[2] \in 1..MaxSends /\ MaxSends \in Nat /\ m = <<m[1], m[2]>>
  BY TcpAssumption DEF Messages
<1> HIDE DEF g, n, k, N
<1>4. /\ m[1] \in Senders /\ m[2] <= c[m[1]]
      /\ \A j \in DOMAIN l : l[j][1] = m[1] => l[j][2] < m[2]
  BY <1>1 DEF OrderOK
<1>5. ASSUME NEW i \in DOMAIN f, NEW x \in Messages, IsSend(f, i, x), i # 1
      PROVE  /\ x[1] \in Senders /\ x[2] <= c[x[1]]
             /\ \A j \in DOMAIN l : l[j][1] = x[1] => l[j][2] < x[2]
             /\ \A j \in 1..(i - 1), y \in Messages : IsSend(f, j, y) /\ y[1] = x[1] => y[2] < x[2]
             /\ m[1] = x[1] => m[2] < x[2]
  <2>1. 1 \in 1..(i - 1)
    BY <1>1, <1>5
  <2> QED
    BY <1>5, <2>1 DEF OrderOK
<1>6. InOrder(k)
  <2>1. ASSUME NEW i \in 1..N
        PROVE  /\ \A j \in 1..(i - 1) : k[j][1] = k[i][1] => k[j][2] < k[i][2]
               /\ \A x \in 1..(k[i][2] - 1) : \E j \in 1..(i - 1) : k[j] = <<k[i][1], x>>
    <3>1. k[i] = l[i] /\ \A j \in 1..(i - 1) : k[j] = l[j]
      BY <1>2
    <3>2. /\ \A j \in 1..(i - 1) : l[j][1] = l[i][1] => l[j][2] < l[i][2]
          /\ \A x \in 1..(l[i][2] - 1) : \E j \in 1..(i - 1) : l[j] = <<l[i][1], x>>
      BY <1>2 DEF OrderOK, InOrder
    <3> QED
      BY <3>1, <3>2
  <2>2. \A j \in 1..N : k[j][1] = m[1] => k[j][2] < m[2]
    BY <1>2, <1>4
  <2>3. ASSUME NEW x \in 1..(m[2] - 1) PROVE \E j \in 1..N : k[j] = <<m[1], x>>
    <3> DEFINE y == <<m[1], x>>
    <3>1. y \in Messages /\ y[1] = m[1] /\ y[2] = x /\ x < m[2]
      BY <1>m DEF Messages
    <3>2. y[2] <= c[y[1]]
      BY <1>4, <1>m, <3>1
    <3>3. (\E i \in DOMAIN l : l[i] = y) \/ \E i \in DOMAIN f : IsSend(f, i, y)
      BY <3>1, <3>2 DEF OrderOK
    <3> HIDE DEF y
    <3>4. ASSUME NEW i \in DOMAIN f, IsSend(f, i, y) PROVE FALSE
      <4>1. CASE i = 1
        <5>1. y = m
          BY <3>4, <4>1 DEF IsSend
        <5> QED
          BY <5>1, <3>1, <1>m
      <4>2. CASE i # 1
        BY <1>5, <1>m, <3>1, <3>4, <4>2
      <4> QED
        BY <4>1, <4>2
    <3> QED
      BY <1>2, <3>3, <3>4 DEF y
  <2>4. ASSUME NEW i, i = N + 1
        PROVE  /\ \A j \in 1..(i - 1) : k[j][1] = k[i][1] => k[j][2] < k[i][2]
               /\ \A x \in 1..(k[i][2] - 1) : \E j \in 1..(i - 1) : k[j] = <<k[i][1], x>>
    <3>1. i - 1 = N /\ k[i] = m
      BY <1>2, <2>4
    <3> QED
      BY <2>2, <2>3, <3>1
  <2>5. \A i \in DOMAIN k : i \in 1..N \/ i = N + 1
    BY <1>2, <1>3
  <2> QED
    BY <2>1, <2>4, <2>5 DEF InOrder
<1>7. \A i \in DOMAIN k : k[i][2] <= c[k[i][1]]
  <2>1. \A i \in DOMAIN l : l[i][2] <= c[l[i][1]]
    BY DEF OrderOK
  <2> QED
    BY <2>1, <1>2, <1>3, <1>4
<1>8. ASSUME NEW i \in DOMAIN g, NEW x \in Messages, IsSend(g, i, x)
      PROVE  /\ x[1] \in Senders /\ x[2] <= c[x[1]]
             /\ \A j \in DOMAIN k : k[j][1] = x[1] => k[j][2] < x[2]
             /\ \A j \in 1..(i - 1), y \in Messages : IsSend(g, j, y) /\ y[1] = x[1] => y[2] < x[2]
  <2>0. PICK q \in DOMAIN f : q = i + 1
    BY <1>1
  <2>1. q # 1 /\ IsSend(f, q, x)
    BY <1>1, <1>8, <2>0 DEF IsSend
  <2>2. /\ x[1] \in Senders /\ x[2] <= c[x[1]]
        /\ \A j \in DOMAIN l : l[j][1] = x[1] => l[j][2] < x[2]
        /\ \A j \in 1..(q - 1), y \in Messages : IsSend(f, j, y) /\ y[1] = x[1] => y[2] < x[2]
        /\ m[1] = x[1] => m[2] < x[2]
    BY <1>5, <2>1
  <2>3. ASSUME NEW j \in DOMAIN k, k[j][1] = x[1] PROVE k[j][2] < x[2]
    <3>1. CASE j = N + 1
      BY <1>2, <2>2, <2>3, <3>1
    <3>2. CASE j \in 1..N
      <4>1. j \in DOMAIN l /\ k[j] = l[j]
        BY <1>2, <3>2
      <4> QED
        BY <2>2, <2>3, <4>1
    <3> QED
      BY <1>2, <1>3, <3>1, <3>2
  <2>4. ASSUME NEW j \in 1..(i - 1), NEW y \in Messages, IsSend(g, j, y), y[1] = x[1]
        PROVE  y[2] < x[2]
    <3>1. j + 1 \in 1..(q - 1) /\ IsSend(f, j + 1, y)
      BY <1>1, <2>0, <2>4 DEF IsSend
    <3> QED
      BY <2>2, <2>4, <3>1
  <2> QED
    BY <2>2, <2>3, <2>4
<1>9. ASSUME NEW x \in Messages, x[2] <= c[x[1]]
      PROVE  \/ \E i \in DOMAIN k : k[i] = x
             \/ \E i \in DOMAIN g : IsSend(g, i, x)
  <2>1. (\E i \in DOMAIN l : l[i] = x) \/ \E i \in DOMAIN f : IsSend(f, i, x)
    BY <1>9 DEF OrderOK
  <2>2. CASE \E i \in DOMAIN l : l[i] = x
    BY <1>2, <1>3, <2>2
  <2>3. ASSUME NEW i \in DOMAIN f, IsSend(f, i, x), i = 1 PROVE \E j \in DOMAIN k : k[j] = x
    <3>1. x = m
      BY <2>3 DEF IsSend
    <3> QED
      BY <3>1, <1>2, <1>3
  <2>4. ASSUME NEW i \in DOMAIN f, IsSend(f, i, x), i # 1 PROVE \E j \in DOMAIN g : IsSend(g, j, x)
    <3>1. i - 1 \in DOMAIN g /\ g[i - 1] = f[i]
      BY <1>1, <2>4
    <3> QED
      BY <2>4, <3>1 DEF IsSend
  <2> QED
    BY <2>1, <2>2, <2>3, <2>4
<1> QED
  BY <1>6, <1>7, <1>8, <1>9 DEF OrderOK, g, k

\* send() in another thread queues its next message.
LEMMA OrderSend ==
  ASSUME NEW l \in Seq(Messages), NEW f \in Seq(TFunctor), NEW c \in [Threads -> 0..MaxSends],
         NEW d \in BOOLEAN, OrderOK(l, f, c, d), NEW t \in Senders, c[t] < MaxSends
  PROVE  OrderOK(l, Append(f, SendFunctor(<<t, c[t] + 1>>)), [c EXCEPT ![t] = @ + 1], d)
<1> DEFINE p == <<t, c[t] + 1>>
           x == SendFunctor(p)
           g == Append(f, x)
           n == Len(f)
           e == [c EXCEPT ![t] = @ + 1]
<1>0. t \in Threads /\ c[t] \in Nat /\ MaxSends \in Nat
  BY TcpAssumption DEF Threads
<1>p. p \in Messages /\ p[1] = t /\ p[2] = c[t] + 1 /\ x.call = "sendInLoop" /\ x.msg = p
  BY <1>0 DEF Messages, SendFunctor
<1>x. x \in TFunctor
  BY <1>p DEF TFunctor, SendFunctor
<1>e. \A u \in Threads : c[u] \in Nat /\ e[u] = IF u = t THEN c[u] + 1 ELSE c[u]
  BY <1>0
<1>1. /\ n \in Nat /\ DOMAIN f = 1..n /\ DOMAIN g = 1..(n + 1) /\ g[n + 1] = x
      /\ \A i \in 1..n : g[i] = f[i]
  BY <1>x, FunctorPush
<1>l. \A i \in DOMAIN l : l[i] \in Messages
  BY LenProperties
<1>m. \A m \in Messages : m[1] \in Threads /\ m[2] \in Nat /\ m = <<m[1], m[2]>>
  BY TcpAssumption DEF Messages
<1> HIDE DEF p, x, g, n, e
<1>2. \A i \in DOMAIN f : i \in DOMAIN g /\ \A m \in Messages : IsSend(g, i, m) <=> IsSend(f, i, m)
  BY <1>1 DEF IsSend
<1>3. \A m \in Messages : IsSend(g, n + 1, m) <=> m = p
  BY <1>1, <1>p DEF IsSend
<1>4. \A i \in DOMAIN l : l[i][2] <= c[l[i][1]] /\ l[i][2] <= e[l[i][1]]
  <2>1. ASSUME NEW i \in DOMAIN l PROVE l[i][2] <= c[l[i][1]] /\ l[i][2] <= e[l[i][1]]
    <3>1. l[i][2] <= c[l[i][1]] /\ l[i][1] \in Threads /\ l[i][2] \in Nat
      BY <1>l, <1>m DEF OrderOK
    <3> QED
      BY <3>1, <1>e
  <2> QED
    BY <2>1
<1>5. ASSUME NEW i \in DOMAIN g, NEW m \in Messages, IsSend(g, i, m)
      PROVE  /\ m[1] \in Senders /\ m[2] <= e[m[1]]
             /\ \A j \in DOMAIN l : l[j][1] = m[1] => l[j][2] < m[2]
             /\ \A j \in 1..(i - 1), k \in Messages : IsSend(g, j, k) /\ k[1] = m[1] => k[2] < m[2]
  <2>1. CASE i \in DOMAIN f
    <3>1. IsSend(f, i, m) /\ \A j \in 1..(i - 1) : j \in DOMAIN f
      BY <1>1, <1>2, <1>5, <2>1
    <3>2. /\ m[1] \in Senders /\ m[2] <= c[m[1]]
          /\ \A j \in DOMAIN l : l[j][1] = m[1] => l[j][2] < m[2]
          /\ \A j \in 1..(i - 1), k \in Messages : IsSend(f, j, k) /\ k[1] = m[1] => k[2] < m[2]
      BY <2>1, <3>1 DEF OrderOK
    <3>3. m[2] <= e[m[1]]
      BY <1>e, <1>m, <3>2
    <3> QED
      BY <1>2, <3>1, <3>2, <3>3
  <2>2. CASE i = n + 1
    <3>1. m = p
      BY <1>3, <1>5, <2>2
    <3>2. m[1] \in Senders /\ m[2] <= e[m[1]]
      BY <1>0, <1>e, <1>p, <3>1
    <3>3. \A j \in DOMAIN l : l[j][1] = m[1] => l[j][2] < m[2]
      BY <1>0, <1>4, <1>l, <1>m, <1>p, <3>1
    <3>4. ASSUME NEW j \in 1..(i - 1), NEW k \in Messages, IsSend(g, j, k), k[1] = m[1]
          PROVE  k[2] < m[2]
      <4>1. j \in DOMAIN f
        BY <1>1, <2>2
      <4>2. IsSend(f, j, k)
        BY <1>2, <3>4, <4>1
      <4>3. k[2] <= c[k[1]]
        BY <4>1, <4>2 DEF OrderOK
      <4> QED
        BY <1>0, <1>m, <1>p, <3>1, <3>4, <4>3
    <3> QED
      BY <3>2, <3>3, <3>4
  <2> QED
    BY <1>1, <2>1, <2>2
<1>6. ASSUME ~d, NEW m \in Messages, m[2] <= e[m[1]]
      PROVE  \/ \E i \in DOMAIN l : l[i] = m
             \/ \E i \in DOMAIN g : IsSend(g, i, m)
  <2>1. CASE m[2] <= c[m[1]]
    <3>1. (\E i \in DOMAIN l : l[i] = m) \/ \E i \in DOMAIN f : IsSend(f, i, m)
      BY <1>6, <2>1 DEF OrderOK
    <3> QED
      BY <1>2, <3>1
  <2>2. CASE ~(m[2] <= c[m[1]])
    <3>1. m[1] = t /\ m[2] = c[t] + 1
      BY <1>6, <1>e, <1>m, <2>2
    <3>2. m = p
      BY <1>m, <3>1 DEF p
    <3>3. n + 1 \in DOMAIN g
      BY <1>1
    <3> QED
      BY <1>3, <3>2, <3>3
  <2> QED
    BY <2>1, <2>2
<1>7. InOrder(l)
  BY DEF OrderOK
<1> QED
  BY <1>4, <1>5, <1>6, <1>7 DEF OrderOK, p, x, g, e

\* send() in the loop thread: its message is the next of its thread in the stream,
\* or it is dropped.
LEMMA OrderCall ==
  ASSUME NEW l \in Seq(Messages), NEW f \in Seq(TFunctor), NEW c \in [Threads -> 0..MaxSends],
         NEW d \in BOOLEAN, OrderOK(l, f, c, d), NEW t \in Threads \ Senders, c[t] < MaxSends
  PROVE  /\ OrderOK(l, f, [c EXCEPT ![t] = @ + 1], TRUE)
         /\ ~d => OrderOK(Append(l, <<t, c[t] + 1>>), f, [c EXCEPT ![t] = @ + 1], FALSE)
<1> DEFINE p == <<t, c[t] + 1>>
           k == Append(l, p)
           N == Len(l)
           e == [c EXCEPT ![t] = @ + 1]
<1>0. c[t] \in Nat /\ MaxSends \in Nat
  BY TcpAssumption
<1>p. p \in Messages /\ p[1] = t /\ p[2] = c[t] + 1
  BY <1>0 DEF Messages
<1>e. \A u \in Threads : c[u] \in Nat /\ e[u] = IF u = t THEN c[u] + 1 ELSE c[u]
  BY <1>0
<1>m. \A m \in Messages : m[1] \in Threads /\ m[2] \in Nat /\ m = <<m[1], m[2]>>
  BY TcpAssumption DEF Messages
<1>1. /\ k \in Seq(Messages) /\ Len(k) = N + 1 /\ k[N + 1] = p /\ N \in Nat /\ DOMAIN l = 1..N
      /\ \A i \in 1..N : k[i] = l[i] /\ l[i] \in Messages
  BY <1>p, AppendProperties, LenProperties
<1>2. DOMAIN k = 1..(N + 1)
  BY <1>1, LenProperties
<1> HIDE DEF p, k, N, e
<1>3. ASSUME NEW i \in DOMAIN l PROVE l[i][2] <= c[l[i][1]] /\ l[i][2] <= e[l[i][1]]
  <2>1. l[i][2] <= c[l[i][1]] /\ l[i][1] \in Threads /\ l[i][2] \in Nat
    BY <1>1, <1>m DEF OrderOK
  <2> QED
    BY <2>1, <1>e
<1>4. ASSUME NEW i \in DOMAIN f, NEW m \in Messages, IsSend(f, i, m)
      PROVE  /\ m[1] \in Senders /\ m[1] # t /\ m[2] <= e[m[1]]
             /\ \A j \in DOMAIN l : l[j][1] = m[1] => l[j][2] < m[2]
             /\ \A j \in 1..(i - 1), y \in Messages : IsSend(f, j, y) /\ y[1] = m[1] => y[2] < m[2]
  <2>1. /\ m[1] \in Senders /\ m[2] <= c[m[1]]
        /\ \A j \in DOMAIN l : l[j][1] = m[1] => l[j][2] < m[2]
        /\ \A j \in 1..(i - 1), y \in Messages : IsSend(f, j, y) /\ y[1] = m[1] => y[2] < m[2]
    BY <1>4 DEF OrderOK
  <2> QED
    BY <1>e, <1>m, <2>1
<1>5. OrderOK(l, f, e, TRUE)
  BY <1>3, <1>4 DEF OrderOK
<1>6. ASSUME ~d PROVE OrderOK(k, f, e, FALSE)
  <2>0. \A m \in Messages : m[2] <= c[m[1]] =>
          (\E i \in DOMAIN l : l[i] = m) \/ \E i \in DOMAIN f : IsSend(f, i, m)
    BY <1>6 DEF OrderOK
  <2>1. ASSUME NEW i \in 1..N
        PROVE  /\ \A j \in 1..(i - 1) : k[j][1] = k[i][1] => k[j][2] < k[i][2]
               /\ \A x \in 1..(k[i][2] - 1) : \E j \in 1..(i - 1) : k[j] = <<k[i][1], x>>
    <3>1. k[i] = l[i] /\ \A j \in 1..(i - 1) : k[j] = l[j]
      BY <1>1
    <3>2. /\ \A j \in 1..(i - 1) : l[j][1] = l[i][1] => l[j][2] < l[i][2]
          /\ \A x \in 1..(l[i][2] - 1) : \E j \in 1..(i - 1) : l[j] = <<l[i][1], x>>
      BY <1>1 DEF OrderOK, InOrder
    <3> QED
      BY <3>1, <3>2
  <2>2. \A j \in 1..N : k[j][1] = t => k[j][2] < p[2]
    BY <1>0, <1>1, <1>3, <1>m, <1>p
  <2>3. ASSUME NEW x \in 1..(p[2] - 1) PROVE \E j \in 1..N : k[j] = <<t, x>>
    <3> DEFINE y == <<t, x>>
    <3>1. y \in Messages /\ y[1] = t /\ y[2] = x /\ y[2] <= c[y[1]]
      BY <1>0, <1>p DEF Messages
    <3> HIDE DEF y
    <3>2. \A i \in DOMAIN f : ~IsSend(f, i, y)
      BY <1>4, <3>1
    <3>3. PICK i \in DOMAIN l : l[i] = y
      BY <2>0, <3>1, <3>2
    <3> QED
      BY <1>1, <3>3 DEF y
  <2>4. ASSUME NEW i, i = N + 1
        PROVE  /\ \A j \in 1..(i - 1) : k[j][1] = k[i][1] => k[j][2] < k[i][2]
               /\ \A x \in 1..(k[i][2] - 1) : \E j \in 1..(i - 1) : k[j] = <<k[i][1], x>>
    <3>1. i - 1 = N /\ k[i] = p
      BY <1>1, <2>4
    <3> QED
      BY <1>p, <2>2, <2>3, <3>1
  <2>5. InOrder(k)
    <3>1. \A i \in DOMAIN k : i \in 1..N \/ i = N + 1
      BY <1>1, <1>2
    <3> QED
      BY <2>1, <2>4, <3>1 DEF InOrder
  <2>6. \A i \in DOMAIN k : k[i][2] <= e[k[i][1]]
    BY <1>0, <1>1, <1>2, <1>3, <1>e, <1>p
  <2>7. ASSUME NEW i \in DOMAIN f, NEW m \in Messages, IsSend(f, i, m)
        PROVE  \A j \in DOMAIN k : k[j][1] = m[1] => k[j][2] < m[2]
    BY <1>1, <1>2, <1>4, <1>p, <2>7, SMTT(30)
  <2>8. ASSUME NEW m \in Messages, m[2] <= e[m[1]]
        PROVE  (\E i \in DOMAIN k : k[i] = m) \/ \E i \in DOMAIN f : IsSend(f, i, m)
    <3>1. CASE m[2] <= c[m[1]]
      BY <1>1, <1>2, <2>0, <3>1
    <3>2. CASE ~(m[2] <= c[m[1]])
      <4>1. m[1] = t /\ m[2] = c[t] + 1
        BY <1>e, <1>m, <2>8, <3>2
      <4>2. m = p
        BY <1>m, <4>1 DEF p
      <4> QED
        BY <1>1, <1>2, <4>2
    <3> QED
      BY <3>1, <3>2
  <2> QED
    BY <1>4, <2>5, <2>6, <2>7, <2>8 DEF OrderOK
<1> QED
  BY <1>5, <1>6 DEF p, k, e

\* From the first message dropped on, every message is.
LEMMA DroppingStays == StreamInv /\ [Next]_vars /\ Dropping => Dropping'
<1> SUFFICES ASSUME StreamInv, [Next]_vars, Dropping PROVE Dropping'
  OBVIOUS
<1>1. state = "kDisconnected" => state' = "kDisconnected"
  BY DEF Next, LoopAdvances, PollNext, WriteNext, Poll, OthersDone, HandleHup, HandleRead, NoCall,
     Call, CallSend, CallShutdown, CallForceClose, CallStopRead, CallStartRead, OtherHandler,
     HandleReadEnd, HandleClose, HandleWrite, HandleWriteNothing, SwapFunctors, RunSend,
     RunDanglingSend, RunForceClose, RunConnectDestroyed, BatchDone, NewConnection, SendChecks,
     SendPushes, PeerResets, vars
<1>2. Refused => Refused'
  BY DEF Next, LoopAdvances, PollNext, WriteNext, Poll, OthersDone, HandleHup, HandleRead, NoCall,
     Call, CallSend, CallShutdown, CallForceClose, CallStopRead, CallStartRead, OtherHandler,
     HandleReadEnd, HandleWrite, HandleWriteNothing, SwapFunctors, RunSend,
     RunDanglingSend, RunForceClose, RunConnectDestroyed, BatchDone, NewConnection, SendChecks,
     SendPushes, PeerResets, vars, kernelVars, ShutdownInLoop, Refused
<1>3. ASSUME outputBuffer = <<>>, Refused, state # "kDisconnected" PROVE outputBuffer' = <<>>
  <2>1. Drops
    BY <1>3 DEF StreamInv, WritingWhatWaits, Drops
  <2>2. 1..Len(outputBuffer) = {}
    BY <1>3
  <2> QED
    BY <1>3, <2>1, <2>2, StreamSteps DEF streamVars
<1> QED
  BY <1>1, <1>2, <1>3 DEF Dropping

\* What is right with nothing dropped is right with messages dropped.
LEMMA OrderDrop ==
  ASSUME NEW l, NEW f, NEW c, NEW d \in BOOLEAN, NEW e \in BOOLEAN, OrderOK(l, f, c, d), d => e
  PROVE  OrderOK(l, f, c, e)
  BY DEF OrderOK

\* Every step keeps the order.
LEMMA OrderInvStep == StreamInv /\ OrderInv /\ [Next]_vars => OrderInv'
<1> SUFFICES ASSUME StreamInv, OrderInv, [Next]_vars PROVE OrderInv'
  OBVIOUS
<1>t. /\ took \in Seq(Messages) /\ functors \in Seq(TFunctor) /\ Len(functors) \in Nat
      /\ sends \in [Threads -> 0..MaxSends] /\ left \in 0..Len(functors)
  BY LenProperties DEF StreamInv, TypeOK, TFunctor
<1>b. Dropping \in BOOLEAN /\ Dropping' \in BOOLEAN
  BY Zenon DEF Dropping
<1>d. Dropping => Dropping'
  BY DroppingStays
<1>o. OrderOK(took, functors, sends, Dropping)
  BY DEF OrderInv
<1>w. ~Drops => ~Dropping
  BY DEF Drops, Dropping, StreamInv, WritingWhatWaits
<1>z. Drops => Dropping
  BY DEF Drops, Dropping
<1> HIDE DEF Dropping, OrderInv
<1>s. ASSUME UNCHANGED <<took, functors, sends>> PROVE OrderInv'
  BY <1>b, <1>d, <1>o, <1>s, OrderDrop DEF OrderInv
<1>q. ASSUME NEW x \in TFunctor, x.call # "sendInLoop", functors' = Append(functors, x),
             UNCHANGED <<took, sends>>
      PROVE  OrderInv'
  <2>1. OrderOK(took, Append(functors, x), sends, Dropping)
    BY <1>b, <1>o, <1>q, <1>t, OrderPush
  <2> QED
    BY <1>b, <1>d, <1>q, <2>1, OrderDrop DEF OrderInv
<1>f. /\ Functor("forceCloseInLoop") \in TFunctor /\ Functor("connectDestroyed") \in TFunctor
      /\ Functor("forceCloseInLoop").call # "sendInLoop"
      /\ Functor("connectDestroyed").call # "sendInLoop"
  BY DEF Functor, TFunctor
<1>r. ASSUME left > 0
      PROVE  Len(functors) > 0 /\ Tail(functors) \in Seq(TFunctor) /\ Head(functors) \in TFunctor
             /\ Head(functors) = functors[1]
  <2>1. Len(functors) > 0
    BY <1>r, <1>t
  <2> QED
    BY <1>t, <2>1, FunctorPop
<1>1. CASE Call
  <2>1. CASE CallSend
    <3> DEFINE m == <<LoopThread, sends[LoopThread] + 1>>
    <3>1. /\ sends[LoopThread] < MaxSends /\ SendInLoop(m) /\ functors' = functors
          /\ sends' = [sends EXCEPT ![LoopThread] = @ + 1]
      BY <2>1 DEF CallSend
    <3>2. LoopThread \in Threads \ Senders
      BY TcpAssumption DEF Threads
    <3>3. /\ OrderOK(took, functors, sends', TRUE)
          /\ ~Dropping => OrderOK(Append(took, m), functors, sends', FALSE)
      BY <1>b, <1>o, <1>t, <3>1, <3>2, OrderCall
    <3>4. CASE Drops /\ UNCHANGED streamVars
      <4>1. Dropping' = TRUE /\ took' = took
        BY <1>b, <1>d, <1>z, <3>4 DEF streamVars
      <4> QED
        BY <3>1, <3>3, <4>1 DEF OrderInv
    <3>5. ASSUME ~Drops, NEW k \in 0..MsgLen, Takes(m, k) PROVE OrderInv'
      <4>1. took' = Append(took, m) /\ OrderOK(took', functors', sends', FALSE)
        BY <1>w, <3>1, <3>3, <3>5 DEF Takes
      <4> QED
        BY <1>b, <4>1, OrderDrop DEF OrderInv
    <3> QED
      BY <3>1, <3>4, <3>5, SendInLoopOutcomes
  <2>2. CASE CallForceClose
    BY <1>f, <1>q, <2>2 DEF CallForceClose, streamVars, senderVars
  <2>3. CASE CallShutdown \/ CallStopRead \/ CallStartRead
    BY <1>s, <2>3 DEF CallShutdown, CallStopRead, CallStartRead, streamVars, senderVars
  <2> QED
    BY <1>1, <2>1, <2>2, <2>3 DEF Call
<1>2. CASE HandleRead
  <2>1. CASE NoCall
    BY <1>s, <2>1 DEF NoCall, streamVars, senderVars
  <2> QED
    BY <1>1, <1>2, <2>1 DEF HandleRead
<1>3. CASE OtherHandler
  BY <1>1, <1>3 DEF OtherHandler
<1>4. CASE HandleHup \/ HandleReadEnd
  BY <1>f, <1>q, <1>4 DEF HandleHup, HandleReadEnd, HandleClose, RemoveConnection, streamVars, senderVars
<1>5. CASE RunSend
  <2> DEFINE m == Head(functors).msg
  <2>1. /\ left > 0 /\ Head(functors).call = "sendInLoop" /\ SendInLoop(m)
        /\ functors' = Tail(functors) /\ sends' = sends
    BY <1>5 DEF RunSend, Running, senderVars
  <2>2. m \in Messages /\ IsSend(functors, 1, m) /\ Len(functors) > 0
    BY <1>r, <2>1 DEF TFunctor, IsSend
  <2> HIDE DEF m
  <2>3. CASE Drops /\ UNCHANGED streamVars
    <3>1. Dropping
      BY <1>z, <2>3
    <3>2. OrderOK(took, Tail(functors), sends, Dropping)
      BY <1>b, <1>o, <1>t, <2>2, <3>1, OrderPop
    <3> QED
      BY <1>b, <1>d, <2>1, <2>3, <3>2, OrderDrop DEF OrderInv, streamVars
  <2>4. ASSUME ~Drops, NEW k \in 0..MsgLen, Takes(m, k) PROVE OrderInv'
    <3>1. Dropping = FALSE
      BY <1>b, <1>w, <2>4
    <3>2. OrderOK(Append(took, m), Tail(functors), sends, FALSE)
      BY <1>o, <1>t, <2>2, <3>1, OrderTake
    <3> QED
      BY <1>b, <2>1, <2>4, <3>2, OrderDrop DEF OrderInv, Takes
  <2> QED
    BY <2>1, <2>3, <2>4, SendInLoopOutcomes
<1>6. CASE RunDanglingSend
  <2>1. /\ left > 0 /\ ~Alive /\ functors' = Tail(functors) /\ UNCHANGED <<took, sends>>
    BY <1>6 DEF RunDanglingSend, Running, streamVars, senderVars
  <2>2. Dropping
    BY <2>1 DEF Alive, Dropping
  <2>3. OrderOK(took, Tail(functors), sends, Dropping)
    BY <1>b, <1>o, <1>r, <1>t, <2>1, <2>2, OrderPop
  <2> QED
    BY <1>b, <1>d, <2>1, <2>3, OrderDrop DEF OrderInv
<1>p. ASSUME left > 0, Head(functors).call # "sendInLoop"
      PROVE  OrderOK(took, Tail(functors), sends, Dropping)
  BY <1>b, <1>o, <1>p, <1>r, <1>t, OrderPop
<1>7. CASE RunForceClose
  <2>1. left > 0 /\ Head(functors).call = "forceCloseInLoop" /\ UNCHANGED <<took, sends>>
    BY <1>7 DEF RunForceClose, Running, streamVars, senderVars
  <2>2. OrderOK(took, Tail(functors), sends, Dropping)
    BY <1>p, <2>1
  <2>3. CASE functors' = Tail(functors)
    BY <1>b, <1>d, <2>1, <2>2, <2>3, OrderDrop DEF OrderInv
  <2>4. CASE functors' = Append(Tail(functors), Functor("connectDestroyed"))
    <3>1. OrderOK(took, functors', sends, Dropping)
      BY <1>b, <1>f, <1>r, <1>t, <2>1, <2>2, <2>4, OrderPush
    <3> QED
      BY <1>b, <1>d, <2>1, <3>1, OrderDrop DEF OrderInv
  <2> QED
    BY <1>7, <2>3, <2>4 DEF RunForceClose, HandleClose, RemoveConnection
<1>8. CASE RunConnectDestroyed
  <2>1. /\ left > 0 /\ Head(functors).call = "connectDestroyed" /\ functors' = Tail(functors)
        /\ UNCHANGED <<took, sends>>
    BY <1>8 DEF RunConnectDestroyed, Running, streamVars, senderVars
  <2>2. OrderOK(took, Tail(functors), sends, Dropping)
    BY <1>p, <2>1
  <2> QED
    BY <1>b, <1>d, <2>1, <2>2, OrderDrop DEF OrderInv
<1>9. ASSUME NEW t \in Senders, SendPushes(t) PROVE OrderInv'
  <2>1. /\ sends' = [sends EXCEPT ![t] = @ + 1] /\ took' = took
        /\ functors' = Append(functors, SendFunctor(<<t, sends[t] + 1>>))
    BY <1>9 DEF SendPushes, streamVars
  <2>2. sends[t] < MaxSends
    BY <1>9 DEF SendPushes, StreamInv, CheckedMaySend
  <2>3. OrderOK(took, functors', sends', Dropping)
    BY <1>b, <1>o, <1>t, <2>1, <2>2, OrderSend
  <2> QED
    BY <1>b, <1>d, <2>1, <2>3, OrderDrop DEF OrderInv
<1>10. CASE NewConnection \/ OthersDone \/ SwapFunctors \/ BatchDone \/ HandleWriteNothing
            \/ PeerResets \/ PollNext \/ WriteNext \/ (\E t \in Senders : SendChecks(t))
  BY <1>s, <1>10 DEF NewConnection, OthersDone, SwapFunctors, BatchDone, HandleWriteNothing,
     PeerResets, PollNext, Poll, WriteNext, HandleWrite, SendChecks, streamVars, senderVars
<1>11. CASE UNCHANGED vars
  BY <1>s, <1>11 DEF vars, streamVars, senderVars
<1> QED
  BY <1>2, <1>3, <1>4, <1>5, <1>6, <1>7, <1>8, <1>9, <1>10, <1>11 DEF Next, LoopAdvances

\* For any number of threads that send: the messages of each enter the stream in
\* the order of its calls and without a gap, through the queue of the loop as
\* well as directly, until the connection drops all that follow.
THEOREM SendersAlwaysInOrder == Spec => []SendersInOrder
<1>1. Init => OrderInv
  <2> SUFFICES ASSUME Init PROVE OrderInv
    OBVIOUS
  <2>1. \A m \in Messages : ~(m[2] <= sends[m[1]])
    BY TcpAssumption DEF Init, Messages
  <2> QED
    BY <2>1 DEF Init, OrderInv, OrderOK, InOrder
<1>2. OrderInv => SendersInOrder
  BY DEF OrderInv, OrderOK, InOrder, SendersInOrder
<1> QED
  BY <1>1, <1>2, StreamInvInit, StreamInvStep, OrderInvStep, PTL DEF Spec

-----------------------------------------------------------------------------
(* Closing *)

\* handleClose on a connection that is up and in the epoll set.
LEMMA CloseStep ==
  ASSUME StreamInv, CloseInv, state \in {"kConnected", "kDisconnecting"}, index = "added",
         NEW rest \in Seq(TFunctor), HandleClose(rest),
         \A i \in DOMAIN rest : rest[i].call # "connectDestroyed",
         todo' \subseteq {"write"}, EventsInPhase'
  PROVE  CloseInv'
<1> DEFINE x == Functor("connectDestroyed")
           n == Len(rest)
<1>1. /\ state' = "kDisconnected" /\ events' = {} /\ index' = "deleted"
      /\ downs' = downs + 1 /\ listed' = FALSE /\ ups' = ups
      /\ functors' = Append(rest, x)
  BY DEF HandleClose, Update, RemoveConnection
<1>2. x \in TFunctor /\ x.call = "connectDestroyed"
  BY DEF Functor, TFunctor
<1> HIDE DEF x
<1>3. /\ n \in Nat /\ DOMAIN rest = 1..n /\ DOMAIN functors' = 1..(n + 1)
      /\ functors'[n + 1] = x /\ \A i \in 1..n : functors'[i] = rest[i]
  BY <1>1, <1>2, FunctorPush
<1> HIDE DEF n
<1>4. ups = 1 /\ downs = 0
  BY DEF CloseInv, ClosedForGood, CloseOnce
<1>5. CloseOnce'
  BY <1>1, <1>4 DEF CloseOnce
<1>6. n + 1 \in DOMAIN functors'
      /\ \A i \in DOMAIN functors' : functors'[i].call = "connectDestroyed" => i = n + 1
  BY <1>2, <1>3
<1>7. ClosedIsQuiet' /\ DestroyedOnce'
  BY <1>1, <1>2, <1>3, <1>6 DEF ClosedIsQuiet, DestroyedOnce
<1> QED
  BY <1>1, <1>5, <1>7 DEF CloseInv, ClosedForGood, ClosesInSet, NothingAfter

\* What sendInLoop does to the channel of a connection that is up.
LEMMA SendWatches ==
  ASSUME NEW m, SendInLoop(m)
  PROVE  \/ UNCHANGED <<events, index>>
         \/ /\ state # "kDisconnected"
            /\ events' = events \cup {"write"} /\ index' = "added"
<1>1. ASSUME ~Drops, NEW k \in 0..MsgLen, Takes(m, k)
      PROVE  \/ UNCHANGED <<events, index>>
             \/ events' = events \cup {"write"} /\ index' = "added"
  BY <1>1 DEF Takes, Update, channelVars
<1> QED
  BY <1>1, SendInLoopOutcomes DEF Drops, channelVars

\* A step that only sends, starts to watch events or leaves the channel alone,
\* while the functors lose their head, gain one that does not close, or stay.
LEMMA QuietStep ==
  ASSUME StreamInv, CloseInv, UNCHANGED <<state, listed, ups, downs>>,
         \/ UNCHANGED <<events, index>>
         \/ state # "kDisconnected" /\ events \subseteq events' /\ index' = "added",
         state # "kConnecting" \/ UNCHANGED <<events, index>>,
         \/ UNCHANGED functors
         \/ /\ Len(functors) > 0 /\ functors' = Tail(functors)
            /\ Head(functors).call # "connectDestroyed"
         \/ \E x \in TFunctor : x.call = "sendInLoop" /\ functors' = Append(functors, x),
         todo' \subseteq todo, EventsInPhase'
  PROVE  CloseInv'
<1>t. functors \in Seq(TFunctor) /\ Len(functors) \in Nat /\ DOMAIN functors = 1..Len(functors)
  BY LenProperties DEF StreamInv, TypeOK, TFunctor
<1>1. CloseOnce'
  BY DEF CloseInv, ClosedForGood, CloseOnce
<1>2. /\ (\E i \in DOMAIN functors' : functors'[i].call = "connectDestroyed")
           <=> \E i \in DOMAIN functors : functors[i].call = "connectDestroyed"
      /\ (\E i \in DOMAIN functors' : functors'[i].call = "forceCloseInLoop")
           => \E i \in DOMAIN functors : functors[i].call = "forceCloseInLoop"
      /\ (\A i, j \in DOMAIN functors' : functors'[i].call = "connectDestroyed"
             /\ functors'[j].call = "connectDestroyed" => i = j)
  <2>0. \A i, j \in DOMAIN functors : functors[i].call = "connectDestroyed"
             /\ functors[j].call = "connectDestroyed" => i = j
    BY DEF CloseInv, DestroyedOnce
  <2>1. CASE UNCHANGED functors
    BY <2>0, <2>1
  <2>2. CASE /\ Len(functors) > 0 /\ functors' = Tail(functors)
             /\ Head(functors).call # "connectDestroyed"
    <3> DEFINE n == Len(functors)
               g == functors'
    <3>1. /\ DOMAIN g = 1..(n - 1) /\ Head(functors) = functors[1]
          /\ \A i \in 1..(n - 1) : g[i] = functors[i + 1]
      BY <1>t, <2>2, FunctorPop
    <3>2. n \in Nat /\ n > 0 /\ DOMAIN functors = 1..n /\ functors[1].call # "connectDestroyed"
      BY <1>t, <2>2, <3>1
    <3> HIDE DEF n, g
    <3>3. \A i \in DOMAIN g : i + 1 \in DOMAIN functors /\ g[i] = functors[i + 1] /\ i \in Int
      BY <3>1, <3>2
    <3>4. \A i \in DOMAIN functors : i # 1 => i - 1 \in DOMAIN g /\ g[i - 1] = functors[i]
      BY <3>1, <3>2
    <3>5. ASSUME NEW i \in DOMAIN g, NEW j \in DOMAIN g, g[i].call = "connectDestroyed",
                 g[j].call = "connectDestroyed"
          PROVE  i = j
      <4>1. i + 1 = j + 1 /\ i \in Int /\ j \in Int
        BY <2>0, <3>3, <3>5
      <4> QED
        BY <4>1
    <3>6. (\E i \in DOMAIN g : g[i].call = "connectDestroyed")
           <=> \E i \in DOMAIN functors : functors[i].call = "connectDestroyed"
      BY <3>2, <3>3, <3>4
    <3>7. (\E i \in DOMAIN g : g[i].call = "forceCloseInLoop")
           => \E i \in DOMAIN functors : functors[i].call = "forceCloseInLoop"
      BY <3>3
    <3> QED
      BY <3>5, <3>6, <3>7 DEF g
  <2>3. CASE \E x \in TFunctor : x.call = "sendInLoop" /\ functors' = Append(functors, x)
    <3> DEFINE n == Len(functors)
    <3>0. PICK x \in TFunctor : x.call = "sendInLoop" /\ functors' = Append(functors, x)
      BY <2>3
    <3>n. /\ n \in Nat /\ DOMAIN functors = 1..n /\ DOMAIN functors' = 1..(n + 1)
          /\ functors'[n + 1] = x /\ \A i \in 1..n : functors'[i] = functors[i]
      BY <1>t, <3>0, FunctorPush
    <3> HIDE DEF n
    <3>1. \A i \in DOMAIN functors' : functors'[i].call # "sendInLoop" =>
                 i \in DOMAIN functors /\ functors'[i] = functors[i]
      BY <3>0, <3>n
    <3>2. \A i \in DOMAIN functors : i \in DOMAIN functors' /\ functors'[i] = functors[i]
      BY <3>n
    <3> QED
      BY <2>0, <3>1, <3>2
  <2> QED
    BY <2>1, <2>2, <2>3
<1>3. ClosedIsQuiet' /\ DestroyedOnce'
  BY <1>2 DEF CloseInv, ClosedForGood, ClosedIsQuiet, DestroyedOnce
<1>4. NothingAfter'
  BY DEF CloseInv, NothingAfter
<1>5. ClosesInSet'
  <2> SUFFICES ASSUME state \in {"kConnected", "kDisconnecting"}
               PROVE  /\ events' # {} => index' = "added"
                      /\ todo' \cap {"hup", "read"} # {} => index' = "added"
                      /\ \A i \in DOMAIN functors' : functors'[i].call = "forceCloseInLoop" =>
                           state = "kDisconnecting" /\ "read" \in events'
    BY DEF ClosesInSet
  <2>1. /\ events # {} => index = "added"
        /\ todo \cap {"hup", "read"} # {} => index = "added"
        /\ \A i \in DOMAIN functors : functors[i].call = "forceCloseInLoop" =>
             state = "kDisconnecting" /\ "read" \in events
    BY DEF CloseInv, ClosesInSet
  <2> QED
    BY <1>2, <2>1
<1> QED
  BY <1>1, <1>3, <1>4, <1>5 DEF CloseInv, ClosedForGood

\* A call of the application, in a handler that goes on with the events todo'.
LEMMA CallStep ==
  ASSUME ~StopAnytime, StreamInv, CloseInv, Call, UNCHANGED <<listed, ups, downs>>,
         todo' \subseteq todo, EventsInPhase'
  PROVE  CloseInv'
<1>t. functors \in Seq(TFunctor) /\ Len(functors) \in Nat /\ DOMAIN functors = 1..Len(functors)
  BY LenProperties DEF StreamInv, TypeOK, TFunctor
<1>o. CloseOnce /\ ClosesInSet /\ DestroyedOnce
  BY DEF CloseInv, ClosedForGood
<1>1. CASE CallSend
  <2>1. /\ state = "kConnected" /\ UNCHANGED <<state, functors>>
        /\ \/ UNCHANGED <<events, index>>
           \/ events' = events \cup {"write"} /\ index' = "added"
    BY <1>1, SendWatches DEF CallSend
  <2> QED
    BY <2>1, QuietStep
<1>2. CASE CallShutdown
  <2>1. state = "kConnected" /\ state' = "kDisconnecting" /\ UNCHANGED <<events, index, functors>>
    BY <1>2 DEF CallShutdown, channelVars
  <2>2. CloseOnce' /\ ClosedIsQuiet' /\ NothingAfter'
    BY <1>o, <2>1 DEF CloseOnce, ClosedIsQuiet, NothingAfter
  <2>3. ClosesInSet' /\ DestroyedOnce'
    BY <1>o, <2>1 DEF ClosesInSet, DestroyedOnce
  <2> QED
    BY <2>2, <2>3 DEF CloseInv, ClosedForGood
<1>3. CASE CallForceClose
  <2> DEFINE x == Functor("forceCloseInLoop")
             n == Len(functors)
  <2>1. /\ state \in {"kConnected", "kDisconnecting"} /\ state' = "kDisconnecting"
        /\ "read" \in events /\ UNCHANGED <<events, index>> /\ functors' = Append(functors, x)
    BY <1>3 DEF CallForceClose, channelVars
  <2>2. x \in TFunctor /\ x.call = "forceCloseInLoop"
    BY DEF Functor, TFunctor
  <2> HIDE DEF x
  <2>3. /\ n \in Nat /\ DOMAIN functors = 1..n /\ DOMAIN functors' = 1..(n + 1)
        /\ functors'[n + 1] = x /\ \A i \in 1..n : functors'[i] = functors[i]
    BY <1>t, <2>1, <2>2, FunctorPush
  <2> HIDE DEF n
  <2>4. CloseOnce' /\ ClosedIsQuiet' /\ NothingAfter'
    BY <1>o, <2>1 DEF CloseOnce, ClosedIsQuiet, NothingAfter
  <2>5. \A i \in DOMAIN functors' : functors'[i].call # "connectDestroyed"
    BY <1>o, <2>1, <2>2, <2>3 DEF DestroyedOnce
  <2>6. DestroyedOnce'
    BY <2>5 DEF DestroyedOnce
  <2>7. ClosesInSet'
    BY <1>o, <2>1 DEF ClosesInSet
  <2> QED
    BY <2>4, <2>6, <2>7 DEF CloseInv, ClosedForGood
<1>4. CASE CallStopRead
  <2>1. /\ state = "kConnected" /\ "write" \in events /\ UNCHANGED <<state, functors>>
        /\ events' = events \ {"read"} /\ index' = "added"
    BY <1>4 DEF CallStopRead, isWriting, Update
  <2>2. CloseOnce' /\ ClosedIsQuiet' /\ NothingAfter'
    BY <1>o, <2>1 DEF CloseOnce, ClosedIsQuiet, NothingAfter
  <2>3. ClosesInSet' /\ DestroyedOnce'
    BY <1>o, <2>1 DEF ClosesInSet, DestroyedOnce
  <2> QED
    BY <2>2, <2>3 DEF CloseInv, ClosedForGood
<1>5. CASE CallStartRead
  <2>1. /\ state \in {"kConnected", "kDisconnecting"} /\ UNCHANGED <<state, functors>>
        /\ events' = events \cup {"read"} /\ index' = "added"
    BY <1>5 DEF CallStartRead, Update
  <2> QED
    BY <2>1, QuietStep
<1> QED
  BY <1>1, <1>2, <1>3, <1>4, <1>5 DEF Call

\* Every step keeps the invariant.
LEMMA CloseInvStep ==
  ASSUME ~StopAnytime, StreamInv, CloseInv, [Next]_vars
  PROVE  CloseInv'
<1>t. /\ functors \in Seq(TFunctor) /\ Len(functors) \in Nat /\ DOMAIN functors = 1..Len(functors)
      /\ left \in 0..Len(functors) /\ state \in States
  BY LenProperties DEF StreamInv, TypeOK, TFunctor
<1>o. CloseOnce /\ ClosedIsQuiet /\ EventsInPhase /\ ClosesInSet /\ DestroyedOnce /\ NothingAfter
  BY DEF CloseInv, ClosedForGood
<1>n. NothingBefore
  BY DEF StreamInv
<1>r. ASSUME left > 0
      PROVE  /\ Len(functors) > 0 /\ Tail(functors) \in Seq(TFunctor) /\ Head(functors) = functors[1]
             /\ 1 \in DOMAIN functors /\ Head(functors) \in TFunctor /\ state # "kConnecting"
  <2>1. Len(functors) > 0 /\ 1 \in DOMAIN functors
    BY <1>r, <1>t
  <2>2. functors # <<>>
    BY <2>1
  <2> QED
    BY <1>n, <1>t, <2>1, <2>2, FunctorPop DEF NothingBefore
<1>s. ASSUME UNCHANGED <<state, channelVars, functors, serverVars>>, todo' \subseteq todo, EventsInPhase'
      PROVE  CloseInv'
  BY <1>s, QuietStep DEF channelVars, serverVars
<1>u. ASSUME state \in {"kConnected", "kDisconnecting"}
      PROVE  \A i \in DOMAIN functors : functors[i].call # "connectDestroyed"
  BY <1>o, <1>u DEF DestroyedOnce
<1>1. ASSUME NEW revents \in SUBSET {"read", "write", "hup"}, Poll(revents) PROVE CloseInv'
  <2>1. /\ phase' = "others" /\ todo' = revents /\ (revents # {} => index = "added")
        /\ ("hup" \in revents => "read" \notin events) /\ revents \subseteq events \cup {"hup"}
        /\ UNCHANGED <<state, events, index, functors, listed, ups, downs>>
    BY <1>1 DEF Poll, channelVars, serverVars
  <2>2. CloseOnce' /\ ClosedIsQuiet' /\ DestroyedOnce'
    BY <1>o, <2>1 DEF CloseOnce, ClosedIsQuiet, DestroyedOnce
  <2>3. EventsInPhase'
    BY <2>1 DEF EventsInPhase
  <2>4. NothingAfter'
    BY <1>o, <2>1 DEF ClosedIsQuiet, NothingAfter
  <2>5. ClosesInSet'
    BY <1>o, <2>1 DEF ClosesInSet
  <2> QED
    BY <2>2, <2>3, <2>4, <2>5 DEF CloseInv, ClosedForGood
<1>2. CASE OthersDone
  BY <1>2, <1>o, <1>s DEF OthersDone, EventsInPhase
<1>3. CASE SwapFunctors
  BY <1>3, <1>o, <1>s DEF SwapFunctors, EventsInPhase
<1>4. CASE BatchDone
  BY <1>4, <1>o, <1>s DEF BatchDone, EventsInPhase
<1>5. CASE HandleHup
  <2>1. "hup" \in todo /\ todo' = todo \ {"hup"} /\ HandleClose(functors) /\ phase = "channel" /\ phase' = phase
    BY <1>5 DEF HandleHup, Handling
  <2>2. state \in {"kConnected", "kDisconnecting"}
    BY <1>n, <1>o, <1>t, <2>1 DEF NothingBefore, NothingAfter, States
  <2>3. index = "added"
    BY <1>o, <2>1, <2>2 DEF ClosesInSet
  <2>4. todo' \subseteq {"write"} /\ EventsInPhase'
    BY <1>o, <2>1 DEF EventsInPhase, StreamInv, TypeOK
  <2> QED
    BY <1>t, <1>u, <2>1, <2>2, <2>3, <2>4, CloseStep
<1>6. CASE HandleReadEnd
  <2>1. "read" \in todo /\ todo' = todo \ {"read"} /\ HandleClose(functors) /\ phase = "channel" /\ phase' = phase
    BY <1>6 DEF HandleReadEnd, Handling
  <2>2. state \in {"kConnected", "kDisconnecting"}
    BY <1>n, <1>o, <1>t, <2>1 DEF NothingBefore, NothingAfter, States
  <2>3. index = "added"
    BY <1>o, <2>1, <2>2 DEF ClosesInSet
  <2>4. todo' \subseteq {"write"} /\ EventsInPhase'
    BY <1>o, <2>1 DEF EventsInPhase, StreamInv, TypeOK
  <2> QED
    BY <1>t, <1>u, <2>1, <2>2, <2>3, <2>4, CloseStep
<1>7. CASE HandleRead
  <2>1. /\ Call \/ NoCall
        /\ todo' \subseteq todo /\ UNCHANGED <<phase, serverVars>>
    BY <1>7 DEF HandleRead, Handling
  <2>2. EventsInPhase'
    BY <1>o, <2>1 DEF EventsInPhase
  <2>3. CASE Call
    BY <2>1, <2>2, <2>3, CallStep DEF serverVars
  <2>4. CASE NoCall
    BY <1>s, <2>1, <2>2, <2>4 DEF NoCall
  <2> QED
    BY <2>1, <2>3, <2>4
<1>8. CASE OtherHandler
  <2>1. Call /\ UNCHANGED <<phase, todo, listed, ups, downs>>
    BY <1>8 DEF OtherHandler, loopVars, serverVars
  <2>2. EventsInPhase'
    BY <1>o, <2>1 DEF EventsInPhase
  <2> QED
    BY <2>1, <2>2, CallStep
<1>9. ASSUME NEW k \in 1..Len(outputBuffer), HandleWrite(k) PROVE CloseInv'
  <2>1. /\ "hup" \notin todo /\ "read" \notin todo /\ todo' \subseteq todo /\ "write" \in events
        /\ UNCHANGED <<phase, state, functors, listed, ups, downs>>
        /\ \/ UNCHANGED <<events, index>>
           \/ /\ events' = events \ {"write"}
              /\ index' = IF index = "added" /\ events' = {} THEN "deleted" ELSE "added"
    BY <1>9 DEF HandleWrite, Handling, isWriting, Update, channelVars, serverVars
  <2>2. EventsInPhase'
    BY <1>o, <2>1 DEF EventsInPhase
  <2>3. state \in {"kConnected", "kDisconnecting"}
    BY <1>n, <1>o, <1>t, <2>1 DEF NothingBefore, ClosedIsQuiet, States
  <2>4. CloseOnce' /\ ClosedIsQuiet' /\ NothingAfter' /\ DestroyedOnce'
    BY <1>o, <2>1, <2>3 DEF CloseOnce, ClosedIsQuiet, NothingAfter, DestroyedOnce
  <2>5. ClosesInSet'
    BY <1>o, <2>1, <2>3 DEF ClosesInSet
  <2> QED
    BY <2>2, <2>4, <2>5 DEF CloseInv, ClosedForGood
<1>10. CASE HandleWriteNothing
  BY <1>10, <1>o, <1>s DEF HandleWriteNothing, Handling, EventsInPhase
<1>11. CASE RunSend
  <2>1. /\ left > 0 /\ Head(functors).call = "sendInLoop" /\ SendInLoop(Head(functors).msg)
        /\ functors' = Tail(functors) /\ UNCHANGED <<phase, todo, state, listed, ups, downs>>
    BY <1>11 DEF RunSend, Running, serverVars
  <2>2. EventsInPhase'
    BY <1>o, <2>1 DEF EventsInPhase
  <2>3. \/ UNCHANGED <<events, index>>
        \/ state # "kDisconnected" /\ events \subseteq events' /\ index' = "added"
    BY <2>1, SendWatches
  <2> QED
    BY <1>r, <2>1, <2>2, <2>3, QuietStep
<1>12. CASE RunDanglingSend
  <2>1. /\ left > 0 /\ Head(functors).call = "sendInLoop" /\ phase = "functors"
        /\ phase' \in {"functors", "crashed"}
        /\ functors' = Tail(functors) /\ UNCHANGED <<todo, state, events, index, listed, ups, downs>>
    BY <1>12 DEF RunDanglingSend, Running, channelVars, serverVars
  <2>2. EventsInPhase'
    BY <1>o, <2>1 DEF EventsInPhase
  <2> QED
    BY <1>r, <2>1, <2>2, QuietStep
<1>13. CASE RunForceClose
  <2>1. /\ phase = "functors" /\ left > 0 /\ Head(functors).call = "forceCloseInLoop"
        /\ UNCHANGED <<phase, todo>>
    BY <1>13 DEF RunForceClose, Running
  <2>2. EventsInPhase' /\ todo' = {}
    BY <1>o, <2>1 DEF EventsInPhase
  <2>3. CASE state \in {"kConnected", "kDisconnecting"}
    <3>1. HandleClose(Tail(functors)) /\ index = "added"
      BY <1>13, <1>o, <1>r, <2>1, <2>3 DEF RunForceClose, ClosesInSet
    <3>2. \A i \in DOMAIN Tail(functors) : Tail(functors)[i].call # "connectDestroyed"
      <4> DEFINE n == Len(functors)
                 g == Tail(functors)
      <4>1. /\ n \in Nat /\ DOMAIN functors = 1..n /\ DOMAIN g = 1..(n - 1)
            /\ \A i \in 1..(n - 1) : g[i] = functors[i + 1]
        BY <1>r, <1>t, <2>1, FunctorPop
      <4> HIDE DEF n, g
      <4>2. \A i \in DOMAIN g : i + 1 \in DOMAIN functors /\ g[i] = functors[i + 1]
        BY <4>1
      <4> QED
        BY <1>u, <2>3, <4>2 DEF g
    <3> QED
      BY <1>r, <2>1, <2>2, <2>3, <3>1, <3>2, CloseStep
  <2>4. CASE state \notin {"kConnected", "kDisconnecting"}
    <3>1. functors' = Tail(functors) /\ UNCHANGED <<state, events, index, listed, ups, downs>>
      BY <1>13, <2>4 DEF RunForceClose, channelVars, serverVars
    <3> QED
      BY <1>r, <2>1, <2>2, <3>1, QuietStep
  <2> QED
    BY <2>3, <2>4
<1>14. CASE RunConnectDestroyed
  <2> DEFINE n == Len(functors)
             g == functors'
  <2>1. /\ left > 0 /\ Head(functors).call = "connectDestroyed" /\ index' = "new"
        /\ functors' = Tail(functors) /\ UNCHANGED <<phase, todo, state, events, listed, ups, downs>>
    BY <1>14 DEF RunConnectDestroyed, Running, serverVars
  <2>2. /\ n \in Nat /\ DOMAIN functors = 1..n /\ DOMAIN g = 1..(n - 1) /\ Head(functors) = functors[1]
        /\ \A i \in 1..(n - 1) : g[i] = functors[i + 1]
    BY <1>r, <1>t, <2>1, FunctorPop
  <2>3. 1 \in DOMAIN functors /\ functors[1].call = "connectDestroyed"
    BY <1>r, <2>1
  <2> HIDE DEF n, g
  <2>4. \A i \in DOMAIN g : i + 1 \in DOMAIN functors /\ i + 1 # 1 /\ g[i] = functors[i + 1]
    BY <2>2
  <2>5. \A i \in DOMAIN g : g[i].call # "connectDestroyed"
    BY <1>o, <2>3, <2>4 DEF DestroyedOnce
  <2>6. state = "kDisconnected"
    BY <1>o, <2>3 DEF DestroyedOnce
  <2>7. CloseOnce' /\ NothingAfter' /\ EventsInPhase'
    BY <1>o, <2>1 DEF CloseOnce, NothingAfter, EventsInPhase
  <2>8. ClosedIsQuiet' /\ DestroyedOnce' /\ ClosesInSet'
    BY <1>o, <2>1, <2>5, <2>6 DEF ClosedIsQuiet, DestroyedOnce, ClosesInSet, g
  <2> QED
    BY <2>7, <2>8 DEF CloseInv, ClosedForGood
<1>15. CASE NewConnection
  <2>1. /\ state = "kConnecting" /\ state' = "kConnected" /\ events' = {"read"} /\ index' = "added"
        /\ ups' = ups + 1 /\ listed' = TRUE /\ UNCHANGED <<phase, todo, functors, downs>>
    BY <1>15 DEF NewConnection, Update, loopVars
  <2>2. functors = <<>>
    BY <1>n, <2>1 DEF NothingBefore
  <2>3. CloseOnce' /\ NothingAfter' /\ EventsInPhase'
    BY <1>o, <2>1 DEF CloseOnce, NothingAfter, EventsInPhase
  <2>4. ClosedIsQuiet' /\ DestroyedOnce' /\ ClosesInSet'
    BY <2>1, <2>2 DEF ClosedIsQuiet, DestroyedOnce, ClosesInSet
  <2> QED
    BY <2>3, <2>4 DEF CloseInv, ClosedForGood
<1>16. ASSUME NEW t \in Senders, SendPushes(t) PROVE CloseInv'
  <2> DEFINE x == SendFunctor(<<t, sends[t] + 1>>)
  <2>1. /\ pc[t] = "checked" /\ functors' = Append(functors, x)
        /\ UNCHANGED <<phase, todo, state, events, index, listed, ups, downs>>
    BY <1>16 DEF SendPushes, channelVars, loopVars, serverVars
  <2>2. t \in Threads /\ sends[t] \in 0..MaxSends /\ sends[t] < MaxSends /\ MaxSends \in Nat
    BY <2>1, TcpAssumption DEF StreamInv, CheckedMaySend, TypeOK, Threads
  <2>3. x \in TFunctor /\ x.call = "sendInLoop"
    BY <2>2 DEF SendFunctor, TFunctor, Messages
  <2>4. EventsInPhase'
    BY <1>o, <2>1 DEF EventsInPhase
  <2> QED
    BY <2>1, <2>3, <2>4, QuietStep
<1>17. CASE PeerResets \/ (\E t \in Senders : SendChecks(t)) \/ UNCHANGED vars
  BY <1>17, <1>o, <1>s DEF PeerResets, SendChecks, vars, loopVars, EventsInPhase
<1> QED
  BY <1>1, <1>2, <1>3, <1>4, <1>5, <1>6, <1>7, <1>8, <1>9, <1>10, <1>11, <1>12, <1>13, <1>14,
     <1>15, <1>16, <1>17 DEF Next, LoopAdvances, PollNext, WriteNext

\* An application that stops reading only while output waits: the connection
\* comes up once and closes once, however a hang-up, the end of the stream and
\* queued forceClose() calls meet, and a closed connection stays out of the epoll
\* set, whatever functors still reach it.
THEOREM ClosedOnceForGood ==
  ASSUME ~StopAnytime
  PROVE  Spec => []ClosedForGood
<1>1. Init => CloseInv
  BY DEF Init, CloseInv, ClosedForGood, CloseOnce, ClosedIsQuiet, EventsInPhase, ClosesInSet,
     DestroyedOnce, NothingAfter
<1>2. StreamInv /\ CloseInv /\ [Next]_vars => CloseInv'
  BY CloseInvStep
<1>3. CloseInv => ClosedForGood
  BY DEF CloseInv
<1> QED
  BY <1>1, <1>2, <1>3, StreamInvInit, StreamInvStep, PTL DEF Spec

\* The assert in handleClose (TcpConnection.cc:412) holds for such an application:
\* handleClose runs on a connection that is up and not yet closed.
THEOREM HandleCloseAsserted ==
  ASSUME ~StopAnytime
  PROVE  Spec => HandleCloseAssert
<1>1. Init => CloseInv
  BY DEF Init, CloseInv, ClosedForGood, CloseOnce, ClosedIsQuiet, EventsInPhase, ClosesInSet,
     DestroyedOnce, NothingAfter
<1>2. StreamInv /\ CloseInv /\ [Next]_vars => CloseInv'
  BY CloseInvStep
<1>3. StreamInv /\ CloseInv /\ [Next]_vars =>
        [downs' # downs => state \in {"kConnected", "kDisconnecting"}]_vars
  <2> SUFFICES ASSUME StreamInv, CloseInv, [Next]_vars, downs' # downs
               PROVE  state \in {"kConnected", "kDisconnecting"}
    OBVIOUS
  <2>1. HandleHup \/ HandleReadEnd \/ RunForceClose
    BY DEF Next, LoopAdvances, PollNext, WriteNext, Poll, OthersDone, HandleRead, OtherHandler,
       HandleWrite, HandleWriteNothing, SwapFunctors, RunSend, RunDanglingSend,
       RunConnectDestroyed, BatchDone, NewConnection, SendChecks, SendPushes, PeerResets, vars,
       serverVars
  <2>2. CASE HandleHup \/ HandleReadEnd
    BY <2>2 DEF HandleHup, HandleReadEnd, StreamInv, TypeOK, NothingBefore, CloseInv, NothingAfter, States
  <2>3. CASE RunForceClose
    BY <2>3 DEF RunForceClose, serverVars
  <2> QED
    BY <2>1, <2>2, <2>3
<1> QED
  BY <1>1, <1>2, <1>3, StreamInvInit, StreamInvStep, PTL DEF Spec, HandleCloseAssert
=============================================================================
