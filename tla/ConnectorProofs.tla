-------------------------- MODULE ConnectorProofs ---------------------------
(***************************************************************************)
(* Proofs about Connector, for any set of descriptors, any delays and any   *)
(* number of calls of stop(): every open descriptor has exactly one owner,   *)
(* and the assertions of Connector.cc and TcpClient.cc fail, or a dead       *)
(* connector is called, only after the client was destroyed with its         *)
(* connection while its connector was still at work.                         *)
(***************************************************************************)
EXTENDS Connector, SequenceTheorems, TLAPS

-----------------------------------------------------------------------------
(* The queue of functors *)

Calls == {"startInLoop", "stopInLoop", "resetChannel", "forceCloseInLoop",
          "connectDestroyed"}
Functor == [call : Calls, sock : Sockets \cup {NoSocket}]

\* A functor of the queue q calls name.
Has(q, name) == \E i \in DOMAIN q : q[i].call = name

\* The sockets that functors of q will close.
Doomed(q) == {q[i].sock : i \in {j \in DOMAIN q : q[j].call = "connectDestroyed"}}

\* A functor that names a connection names a socket; start() is queued once,
\* and a socket is closed once.
QueueOK(q) ==
  /\ q \in Seq(Functor)
  /\ \A i \in DOMAIN q :
       q[i].call \in {"forceCloseInLoop", "connectDestroyed"} => q[i].sock \in Sockets
  /\ \A i, j \in DOMAIN q : q[i].call = "startInLoop" /\ q[j].call = "startInLoop" => i = j
  /\ \A i, j \in DOMAIN q :
       q[i].call = "connectDestroyed" /\ q[j].call = "connectDestroyed" /\ q[i].sock = q[j].sock
         => i = j

\* The functors of q that destroy the channel are among the first n.
ResetWithin(q, n) == \A i \in DOMAIN q : q[i].call = "resetChannel" => i <= n

-----------------------------------------------------------------------------
(* The inductive invariant *)

\* The variables the invariants speak of have their types.
ConnTypes ==
  /\ state \in {"kDisconnected", "kConnecting", "kConnected"}
  /\ channel \in Sockets \cup {NoSocket}
  /\ connection \in Sockets \cup {NoSocket} /\ orphan \in Sockets \cup {NoSocket}
  /\ client \in {"new", "used", "destroyed"}
  /\ phase \in {"poll", "events", "functors"}
  /\ polled \subseteq {"write", "error", "timer", "release", "close"} /\ left \in Nat
  /\ retryTimers \in Seq(Nat) /\ retryDelayMs \in Nat
  /\ QueueOK(queue)

\* There is one way on at a time: connect() waits for the loop, ...
StartAlone ==
  Has(queue, "startInLoop") =>
    /\ state = "kDisconnected" /\ retryTimers = <<>> /\ channel = NoSocket
    /\ ~Has(queue, "resetChannel") /\ client # "new"

\* ... or one retry timer is armed, ...
TimerAlone ==
  retryTimers # <<>> => Len(retryTimers) = 1 /\ state = "kDisconnected" /\ client # "new"

\* ... or an attempt is under way, which owns the channel, ...
AttemptAlone ==
  /\ registered <=> state = "kConnecting"
  /\ registered => channel # NoSocket /\ ~Has(queue, "resetChannel") /\ client # "new"
  /\ channel # NoSocket /\ ~registered => Has(queue, "resetChannel")
  /\ Has(queue, "resetChannel") => client # "new"

\* ... or there is a connection, also one without a client, or the restart after
\* it has closed.
ConnectionAlone ==
  /\ connection # NoSocket => state = "kConnected" /\ client = "used" /\ orphan = NoSocket
  /\ orphan # NoSocket => state = "kConnected" /\ client = "destroyed"
  /\ leaving => /\ state = "kConnected" /\ client = "used" /\ phase = "events"
                /\ connection = NoSocket /\ polled \subseteq {"release"}
                /\ channel = NoSocket /\ ~Has(queue, "resetChannel")
  /\ state = "kConnected" => client # "new"

\* The channel of a socket that was handed over is destroyed before the next
\* poll, so before the connection can close.
ResetBeforePoll ==
  state = "kConnected" =>
    /\ phase = "poll" => ~Has(queue, "resetChannel")
    /\ phase = "functors" => ResetWithin(queue, left)
BatchInQueue == phase = "functors" => left <= Len(queue)

\* What a poll reported is handled in the state it was reported for, but for
\* the writability of a socket whose error was handled first.
EventsFit ==
  /\ polled # {} => phase = "events"
  /\ "write" \in polled =>
       /\ state # "kConnected" /\ "timer" \notin polled /\ "close" \notin polled
  /\ "error" \in polled => "write" \in polled
  /\ "timer" \in polled =>
       /\ retryTimers # <<>> /\ channel = NoSocket /\ ~Has(queue, "resetChannel")
       /\ "close" \notin polled
  /\ "close" \in polled =>
       /\ connection # NoSocket \/ orphan # NoSocket
       /\ channel = NoSocket /\ ~Has(queue, "resetChannel")

\* A connector without a client connects no more.
DestroyedIsQuiet == client = "destroyed" => ~wanted \/ state = "kConnected"

\* An open descriptor has one owner.
OwnedOnce ==
  /\ open = (({connection, orphan} \cup (IF registered THEN {channel} ELSE {})
               \cup Doomed(queue)) \ {NoSocket})
  /\ connection \notin Doomed(queue) /\ orphan \notin Doomed(queue)
  /\ registered => channel \notin Doomed(queue)

ConnInv ==
  /\ ConnTypes /\ StartAlone /\ TimerAlone /\ AttemptAlone /\ ConnectionAlone
  /\ ResetBeforePoll /\ BatchInQueue /\ EventsFit /\ DestroyedIsQuiet /\ OwnedOnce
  /\ ~misused

-----------------------------------------------------------------------------
(* Facts about the queue *)

\* queueInLoop puts the functor at the end.
LEMMA AppendQueue ==
  ASSUME NEW q, QueueOK(q), NEW f \in Functor,
         f.call \in {"forceCloseInLoop", "connectDestroyed"} => f.sock \in Sockets,
         f.call = "startInLoop" => ~Has(q, "startInLoop"),
         f.call = "connectDestroyed" => f.sock \notin Doomed(q)
  PROVE  /\ QueueOK(Append(q, f)) /\ Len(Append(q, f)) = Len(q) + 1
         /\ \A n : Has(Append(q, f), n) <=> Has(q, n) \/ f.call = n
         /\ f.call = "connectDestroyed" => Doomed(Append(q, f)) = Doomed(q) \cup {f.sock}
         /\ f.call # "connectDestroyed" => Doomed(Append(q, f)) = Doomed(q)
         /\ f.call # "resetChannel" =>
              \A k \in Nat : ResetWithin(q, k) => ResetWithin(Append(q, f), k)
<1> DEFINE p == Append(q, f)
           k == Len(q)
<1>1. q \in Seq(Functor) /\ DOMAIN q = 1..k /\ k \in Nat
  BY DEF QueueOK
<1>2. /\ p \in Seq(Functor) /\ Len(p) = k + 1 /\ DOMAIN p = 1..(k + 1)
      /\ p[k + 1] = f /\ \A i \in 1..k : p[i] = q[i]
  BY <1>1, AppendProperties
<1>3. 1..(k + 1) = (1..k) \cup {k + 1} /\ k + 1 \notin 1..k
  BY <1>1
<1> HIDE DEF p, k
<1>4. \A n : Has(p, n) <=> Has(q, n) \/ f.call = n
  BY <1>1, <1>2, <1>3 DEF Has
<1>5. f.call = "connectDestroyed" => Doomed(p) = Doomed(q) \cup {f.sock}
  BY <1>1, <1>2, <1>3 DEF Doomed
<1>6. f.call # "connectDestroyed" => Doomed(p) = Doomed(q)
  BY <1>1, <1>2, <1>3 DEF Doomed
<1>7. ASSUME f.call # "resetChannel", NEW m \in Nat, ResetWithin(q, m)
      PROVE  ResetWithin(p, m)
  BY <1>1, <1>2, <1>3, <1>7 DEF ResetWithin
<1>8. \A i \in DOMAIN p :
        p[i].call \in {"forceCloseInLoop", "connectDestroyed"} => p[i].sock \in Sockets
  BY <1>1, <1>2, <1>3 DEF QueueOK
<1>9. \A i, j \in DOMAIN p : p[i].call = "startInLoop" /\ p[j].call = "startInLoop" => i = j
  BY <1>1, <1>2, <1>3 DEF QueueOK, Has
<1>10. \A i, j \in DOMAIN p :
         p[i].call = "connectDestroyed" /\ p[j].call = "connectDestroyed" /\ p[i].sock = p[j].sock
           => i = j
  BY <1>1, <1>2, <1>3 DEF QueueOK, Doomed
<1>11. QueueOK(p)
  BY <1>2, <1>8, <1>9, <1>10 DEF QueueOK
<1> QED BY <1>2, <1>4, <1>5, <1>6, <1>7, <1>11 DEF p, k

\* doPendingFunctors takes the first.
LEMMA TailQueue ==
  ASSUME NEW q, QueueOK(q), q # <<>>
  PROVE  /\ Head(q) \in Functor /\ QueueOK(Tail(q)) /\ Len(Tail(q)) = Len(q) - 1
         /\ \A n : Has(q, n) <=> Has(Tail(q), n) \/ Head(q).call = n
         /\ Head(q).call = "startInLoop" => ~Has(Tail(q), "startInLoop")
         /\ Head(q).call \in {"forceCloseInLoop", "connectDestroyed"} => Head(q).sock \in Sockets
         /\ Head(q).call = "connectDestroyed" =>
              Head(q).sock \in Doomed(q) /\ Doomed(Tail(q)) = Doomed(q) \ {Head(q).sock}
         /\ Head(q).call # "connectDestroyed" => Doomed(Tail(q)) = Doomed(q)
         /\ \A k \in Nat : ResetWithin(q, k) => ResetWithin(Tail(q), k - 1)
<1> DEFINE p == Tail(q)
           h == Head(q)
           k == Len(q) - 1
<1>1. q \in Seq(Functor) /\ DOMAIN q = 1..(k + 1) /\ k \in Nat
  BY EmptySeq, LenProperties DEF QueueOK
<1>2. /\ p \in Seq(Functor) /\ Len(p) = k /\ DOMAIN p = 1..k
      /\ h \in Functor /\ h = q[1] /\ \A i \in 1..k : p[i] = q[i + 1]
  BY <1>1, HeadTailProperties DEF QueueOK
<1>3. \A i \in 1..(k + 1) : q[i] = h \/ \E j \in 1..k : q[i] = p[j]
  <2> SUFFICES ASSUME NEW i \in 1..(k + 1), i # 1 PROVE \E j \in 1..k : q[i] = p[j]
    BY <1>2
  <2>1. PICK j \in 1..k : i = j + 1
    <3>1. i - 1 \in 1..k /\ i = (i - 1) + 1
      BY <1>1
    <3> QED BY <3>1
  <2> QED BY <1>2, <2>1
<1>4. \A j \in 1..k : j + 1 \in 1..(k + 1) /\ j + 1 # 1
  BY <1>1
<1>5. \A i, j \in 1..k : i + 1 = j + 1 => i = j
  BY <1>1
<1>6. 1 \in 1..(k + 1)
  BY <1>1
<1> HIDE DEF p, h, k
<1>7. \A n : Has(q, n) <=> Has(p, n) \/ h.call = n
  <2>1. ASSUME NEW n, Has(q, n) PROVE Has(p, n) \/ h.call = n
    <3>1. PICK i \in 1..(k + 1) : q[i].call = n
      BY <1>1, <2>1 DEF Has
    <3>2. CASE q[i] = h
      BY <3>1, <3>2
    <3>3. CASE \E j \in 1..k : q[i] = p[j]
      BY <1>2, <3>1, <3>3 DEF Has
    <3> QED BY <1>3, <3>2, <3>3
  <2>2. ASSUME NEW n, Has(p, n) \/ h.call = n PROVE Has(q, n)
    BY <1>1, <1>2, <1>4, <1>6, <2>2 DEF Has
  <2> QED BY <2>1, <2>2
<1>8. h.call = "startInLoop" => ~Has(p, "startInLoop")
  BY <1>1, <1>2, <1>4, <1>6 DEF QueueOK, Has
<1>9. h.call \in {"forceCloseInLoop", "connectDestroyed"} => h.sock \in Sockets
  BY <1>1, <1>2, <1>6 DEF QueueOK
<1>10. Doomed(p) \subseteq Doomed(q)
  BY <1>1, <1>2, <1>4 DEF Doomed
<1>11. \A s \in Doomed(q) : s \in Doomed(p) \/ (h.call = "connectDestroyed" /\ s = h.sock)
  <2> SUFFICES ASSUME NEW s \in Doomed(q)
               PROVE  s \in Doomed(p) \/ (h.call = "connectDestroyed" /\ s = h.sock)
    OBVIOUS
  <2>1. PICK i \in 1..(k + 1) : q[i].call = "connectDestroyed" /\ q[i].sock = s
    BY <1>1 DEF Doomed
  <2>2. CASE q[i] = h
    BY <2>1, <2>2
  <2>3. CASE \E j \in 1..k : q[i] = p[j]
    BY <1>2, <2>1, <2>3 DEF Doomed
  <2> QED BY <1>3, <2>2, <2>3
<1>12. h.call = "connectDestroyed" => h.sock \in Doomed(q) /\ h.sock \notin Doomed(p)
  <2> SUFFICES ASSUME h.call = "connectDestroyed" PROVE h.sock \in Doomed(q) /\ h.sock \notin Doomed(p)
    OBVIOUS
  <2>1. h.sock \in Doomed(q)
    BY <1>1, <1>2, <1>6 DEF Doomed
  <2>2. ASSUME NEW i \in 1..k, p[i].call = "connectDestroyed", p[i].sock = h.sock PROVE FALSE
    BY <1>1, <1>2, <1>4, <1>6, <2>2 DEF QueueOK
  <2> QED BY <1>2, <2>1, <2>2 DEF Doomed
<1>13. ASSUME NEW m \in Nat, ResetWithin(q, m) PROVE ResetWithin(p, m - 1)
  <2> SUFFICES ASSUME NEW i \in 1..k, p[i].call = "resetChannel" PROVE i <= m - 1
    BY <1>2 DEF ResetWithin
  <2>1. PICK j \in 1..(k + 1) : j = i + 1 /\ q[j] = p[i]
    BY <1>2, <1>4
  <2>2. j <= m
    BY <1>1, <1>13, <2>1 DEF ResetWithin
  <2> QED BY <1>1, <2>1, <2>2
<1>14. QueueOK(p)
  <2>1. \A i \in 1..k :
          p[i].call \in {"forceCloseInLoop", "connectDestroyed"} => p[i].sock \in Sockets
    BY <1>1, <1>2, <1>4 DEF QueueOK
  <2>2. \A i, j \in 1..k : p[i].call = "startInLoop" /\ p[j].call = "startInLoop" => i = j
    <3> SUFFICES ASSUME NEW i \in 1..k, NEW j \in 1..k,
                        p[i].call = "startInLoop", p[j].call = "startInLoop"
                 PROVE  i = j
      OBVIOUS
    <3>1. PICK a \in 1..(k + 1), b \in 1..(k + 1) :
            a = i + 1 /\ b = j + 1 /\ q[a] = p[i] /\ q[b] = p[j]
      BY <1>2, <1>4
    <3>2. a = b
      BY <1>1, <3>1 DEF QueueOK
    <3> QED BY <1>5, <3>1, <3>2
  <2>3. \A i, j \in 1..k :
          p[i].call = "connectDestroyed" /\ p[j].call = "connectDestroyed" /\ p[i].sock = p[j].sock
            => i = j
    <3> SUFFICES ASSUME NEW i \in 1..k, NEW j \in 1..k, p[i].sock = p[j].sock,
                        p[i].call = "connectDestroyed", p[j].call = "connectDestroyed"
                 PROVE  i = j
      OBVIOUS
    <3>1. PICK a \in 1..(k + 1), b \in 1..(k + 1) :
            a = i + 1 /\ b = j + 1 /\ q[a] = p[i] /\ q[b] = p[j]
      BY <1>2, <1>4
    <3>2. a = b
      BY <1>1, <3>1 DEF QueueOK
    <3> QED BY <1>5, <3>1, <3>2
  <2> QED BY <1>2, <2>1, <2>2, <2>3 DEF QueueOK
<1>15. Len(p) = k /\ k = Len(q) - 1
  BY <1>2 DEF k
<1> QED BY <1>2, <1>7, <1>8, <1>9, <1>10, <1>11, <1>12, <1>13, <1>14, <1>15 DEF p, h

\* The whole queue is within itself, and nothing is within no functors.
LEMMA WithinFacts ==
  ASSUME NEW q, QueueOK(q)
  PROVE  /\ Len(q) \in Nat /\ ResetWithin(q, Len(q))
         /\ ResetWithin(q, 0) => ~Has(q, "resetChannel")
         /\ q = <<>> <=> Len(q) = 0
         /\ Doomed(q) \subseteq Sockets
<1>1. q \in Seq(Functor) /\ DOMAIN q = 1..Len(q) /\ Len(q) \in Nat
  BY DEF QueueOK
<1>2. q = <<>> <=> Len(q) = 0
  BY <1>1, EmptySeq
<1>3. ResetWithin(q, Len(q))
  BY <1>1 DEF ResetWithin
<1>4. ResetWithin(q, 0) => ~Has(q, "resetChannel")
  BY <1>1 DEF ResetWithin, Has
<1>5. Doomed(q) \subseteq Sockets
  BY DEF Doomed, QueueOK
<1> QED BY <1>1, <1>2, <1>3, <1>4, <1>5

\* The queue as the model asks about it.
LEMMA QueuedHas ==
  /\ \A n : Queued(n) = {} <=> ~Has(queue, n)
  /\ {queue[i].sock : i \in Queued("connectDestroyed")} = Doomed(queue)
  BY DEF Queued, Has, Doomed

-----------------------------------------------------------------------------
(* Calls by the application *)

\* The functors the code queues are functors.
LEMMA FunctorFacts ==
  /\ \A n \in Calls : F(n, NoSocket) \in Functor
  /\ \A n \in Calls, s \in Sockets : F(n, s) \in Functor
  /\ \A n, s : F(n, s).call = n /\ F(n, s).sock = s
  BY DEF F, Functor

\* connect() of a new client: nothing has happened before.
LEMMA CallConnectInv ==
  ASSUME ConnInv, NEW r \in BOOLEAN, CallConnect(r)
  PROVE  ConnInv'
<1> USE DEF ConnInv
<1>1. /\ client = "new" /\ client' = "used"
      /\ queue' = Append(queue, F("startInLoop", NoSocket))
      /\ UNCHANGED <<state, channel, registered, retryDelayMs, retryTimers, connection,
                     orphan, open, phase, polled, left, leaving, misused>>
  BY DEF CallConnect
<1>2. /\ QueueOK(queue) /\ ~Has(queue, "startInLoop") /\ ~Has(queue, "resetChannel")
      /\ state = "kDisconnected" /\ retryTimers = <<>> /\ channel = NoSocket
  BY <1>1 DEF ConnTypes, StartAlone, TimerAlone, AttemptAlone, ConnectionAlone
<1>3. /\ QueueOK(queue') /\ Len(queue') = Len(queue) + 1
      /\ \A n : Has(queue', n) <=> Has(queue, n) \/ n = "startInLoop"
      /\ Doomed(queue') = Doomed(queue)
  BY <1>1, <1>2, FunctorFacts, AppendQueue DEF Calls
<1>4. Len(queue) \in Nat
  BY <1>2, WithinFacts
<1>5. ConnTypes' /\ StartAlone' /\ TimerAlone' /\ AttemptAlone'
  BY <1>1, <1>2, <1>3 DEF ConnTypes, StartAlone, TimerAlone, AttemptAlone
<1>6. ConnectionAlone' /\ ResetBeforePoll' /\ BatchInQueue' /\ EventsFit'
  BY <1>1, <1>2, <1>3, <1>4 DEF ConnTypes, ConnectionAlone, ResetBeforePoll, BatchInQueue, EventsFit
<1>7. DestroyedIsQuiet' /\ OwnedOnce'
  BY <1>1, <1>3 DEF DestroyedIsQuiet, OwnedOnce
<1> QED BY <1>1, <1>5, <1>6, <1>7

\* A functor that neither starts nor resets nor destroys changes nothing that
\* the invariants depend on.
LEMMA HarmlessFunctor ==
  ASSUME ConnInv, NEW n \in {"stopInLoop", "forceCloseInLoop"},
         NEW s \in Sockets \cup {NoSocket}, n = "forceCloseInLoop" => s \in Sockets
  PROVE  LET q == Append(queue, F(n, s))
         IN /\ QueueOK(q) /\ Len(q) = Len(queue) + 1 /\ Len(queue) \in Nat
            /\ Has(q, "startInLoop") <=> Has(queue, "startInLoop")
            /\ Has(q, "resetChannel") <=> Has(queue, "resetChannel")
            /\ Doomed(q) = Doomed(queue)
            /\ \A k \in Nat : ResetWithin(queue, k) => ResetWithin(q, k)
<1>1. QueueOK(queue)
  BY DEF ConnInv, ConnTypes
<1>2. /\ F(n, s) \in Functor /\ F(n, s).call = n /\ F(n, s).sock = s
  BY FunctorFacts DEF Calls
<1>3. n \notin {"startInLoop", "resetChannel", "connectDestroyed"}
  OBVIOUS
<1> QED BY <1>1, <1>2, <1>3, AppendQueue, WithinFacts

\* stop(), from any thread and at any time.
LEMMA CallStopInv ==
  ASSUME ConnInv, CallStop
  PROVE  ConnInv'
<1> USE DEF ConnInv
<1>1. /\ wanted' = FALSE
      /\ queue' = Append(queue, F("stopInLoop", NoSocket))
      /\ UNCHANGED <<state, channel, registered, retryDelayMs, retryTimers, connection,
                     client, orphan, open, phase, polled, left, leaving, misused>>
  BY DEF CallStop
<1>2. /\ QueueOK(queue') /\ Len(queue') = Len(queue) + 1 /\ Len(queue) \in Nat
      /\ Has(queue', "startInLoop") <=> Has(queue, "startInLoop")
      /\ Has(queue', "resetChannel") <=> Has(queue, "resetChannel")
      /\ Doomed(queue') = Doomed(queue)
      /\ \A k \in Nat : ResetWithin(queue, k) => ResetWithin(queue', k)
  BY <1>1, HarmlessFunctor
<1>3. ConnTypes' /\ StartAlone' /\ TimerAlone' /\ AttemptAlone'
  BY <1>1, <1>2 DEF ConnTypes, StartAlone, TimerAlone, AttemptAlone
<1>4. ConnectionAlone' /\ ResetBeforePoll' /\ BatchInQueue' /\ EventsFit'
  BY <1>1, <1>2 DEF ConnTypes, ConnectionAlone, ResetBeforePoll, BatchInQueue, EventsFit
<1>5. DestroyedIsQuiet' /\ OwnedOnce'
  BY <1>1, <1>2 DEF DestroyedIsQuiet, OwnedOnce
<1> QED BY <1>1, <1>3, <1>4, <1>5

\* ~TcpClient: the connection, if there is one, becomes an orphan.
LEMMA DestroyInv ==
  ASSUME ConnInv, NEW u \in BOOLEAN, Destroy(u)
  PROVE  ConnInv'
<1> USE DEF ConnInv
<1>1. /\ client = "used" /\ client' = "destroyed" /\ ~leaving
      /\ UNCHANGED <<state, channel, registered, retryDelayMs, retryTimers, open, phase,
                     polled, left, leaving, misused>>
  BY DEF Destroy
<1>2. /\ QueueOK(queue') /\ Len(queue') >= Len(queue)
      /\ Has(queue', "startInLoop") <=> Has(queue, "startInLoop")
      /\ Has(queue', "resetChannel") <=> Has(queue, "resetChannel")
      /\ Doomed(queue') = Doomed(queue)
      /\ \A k \in Nat : ResetWithin(queue, k) => ResetWithin(queue', k)
      /\ Len(queue) \in Nat /\ Len(queue') \in Nat
  <2>1. CASE queue' = queue
    BY <2>1, WithinFacts DEF ConnTypes
  <2>2. CASE queue' = Append(queue, F("stopInLoop", NoSocket))
    BY <2>2, HarmlessFunctor
  <2>3. CASE queue' = Append(queue, F("forceCloseInLoop", connection)) /\ connection # NoSocket
    <3>1. connection \in Sockets
      BY <2>3 DEF ConnTypes
    <3> QED BY <2>3, <3>1, HarmlessFunctor
  <2> QED BY <2>1, <2>2, <2>3 DEF Destroy
<1>3. \/ /\ connection # NoSocket /\ orphan' = connection /\ connection' = NoSocket
         /\ wanted' = wanted
      \/ connection = NoSocket /\ wanted' = FALSE /\ UNCHANGED <<orphan, connection>>
  BY DEF Destroy
<1>4. ConnTypes' /\ StartAlone' /\ TimerAlone' /\ AttemptAlone'
  BY <1>1, <1>2, <1>3 DEF ConnTypes, StartAlone, TimerAlone, AttemptAlone
<1>5. ConnectionAlone' /\ EventsFit' /\ DestroyedIsQuiet'
  BY <1>1, <1>2, <1>3 DEF ConnectionAlone, EventsFit, DestroyedIsQuiet
<1>6. ResetBeforePoll' /\ BatchInQueue'
  BY <1>1, <1>2 DEF ConnTypes, ResetBeforePoll, BatchInQueue
<1>7. OwnedOnce'
  <2>1. connection # NoSocket => orphan = NoSocket
    BY DEF ConnectionAlone
  <2>2. NoSocket \notin Doomed(queue)
    BY WithinFacts, ConnectorAssumption DEF ConnTypes, NoSocket
  <2> QED BY <1>1, <1>2, <1>3, <2>1, <2>2 DEF OwnedOnce
<1> QED BY <1>1, <1>4, <1>5, <1>6, <1>7

-----------------------------------------------------------------------------
(* The events of a poll *)

\* poll() reports what can happen in the present state.
LEMMA PollInv ==
  ASSUME ConnInv, NEW ev \in Reported, Poll(ev)
  PROVE  ConnInv'
<1> USE DEF ConnInv, Reported
<1>1. /\ phase = "poll" /\ phase' = "events" /\ polled' = ev
      /\ "error" \in ev => "write" \in ev
      /\ UNCHANGED <<state, wanted, channel, registered, retryDelayMs, retryTimers, connection,
                     client, orphan, open, queue, left, leaving, misused>>
  BY DEF Poll, connectorVars, clientVars
<1>2. /\ "write" \in ev => registered
      /\ "timer" \in ev => retryTimers # <<>> /\ ~Has(queue, "resetChannel")
      /\ "close" \in ev => connection # NoSocket \/ orphan # NoSocket
  BY QueuedHas DEF Poll
<1>3. EventsFit'
  BY <1>1, <1>2 DEF EventsFit, AttemptAlone, ConnectionAlone, TimerAlone, ResetBeforePoll
<1>4. ConnectionAlone'
  BY <1>1 DEF ConnectionAlone
<1>5. ConnTypes' /\ StartAlone' /\ TimerAlone' /\ AttemptAlone'
  BY <1>1 DEF ConnTypes, StartAlone, TimerAlone, AttemptAlone
<1>6. ResetBeforePoll' /\ BatchInQueue' /\ DestroyedIsQuiet' /\ OwnedOnce'
  BY <1>1 DEF ResetBeforePoll, BatchInQueue, DestroyedIsQuiet, OwnedOnce
<1> QED BY <1>1, <1>3, <1>4, <1>5, <1>6

\* What connect() does once it has a socket.
LEMMA ConnectFacts ==
  ASSUME NEW delay \in Nat, Connect(delay, <<>>), channel = NoSocket, ~registered, ~misused
  PROVE  /\ state' \in {"kDisconnected", "kConnecting"}
         /\ registered' <=> state' = "kConnecting"
         /\ registered' => /\ channel' \in Sockets \ open /\ open' = open \cup {channel'}
                           /\ retryTimers' = <<>>
         /\ ~registered' => channel' = NoSocket /\ open' = open
         /\ retryTimers' \in Seq(Nat) /\ retryDelayMs' \in Nat
         /\ retryTimers' # <<>> => Len(retryTimers') = 1
         /\ ~misused'
<1>1. PICK s \in Sockets \ open :
        \/ /\ state' = "kConnecting"
           /\ misused' = (misused \/ channel # NoSocket)
           /\ channel' = s /\ registered' = TRUE
           /\ open' = open \cup {s}
           /\ retryDelayMs' = delay /\ retryTimers' = <<>>
        \/ /\ state' = "kDisconnected"
           /\ retryTimers' = Append(<<>>, delay)
           /\ retryDelayMs' = IF delay * 2 < kMaxRetryDelayMs
                              THEN delay * 2 ELSE kMaxRetryDelayMs
           /\ channel' = channel /\ registered' = registered
           /\ open' = open /\ misused' = misused
        \/ /\ state' = "kDisconnected"
           /\ retryDelayMs' = delay /\ retryTimers' = <<>>
           /\ channel' = channel /\ registered' = registered
           /\ open' = open /\ misused' = misused
  BY DEF Connect
<1>2. /\ Append(<<>>, delay) \in Seq(Nat) /\ Len(Append(<<>>, delay)) = 1
      /\ <<>> \in Seq(Nat)
  OBVIOUS
<1>3. delay * 2 \in Nat /\ kMaxRetryDelayMs \in Nat
  BY ConnectorAssumption
<1>4. "kDisconnected" # "kConnecting"
  OBVIOUS
<1>5. ~misused' /\ (registered' <=> state' = "kConnecting")
  <2>1. CASE misused' = (misused \/ channel # NoSocket) /\ registered' = TRUE /\ state' = "kConnecting"
    <3>1. (misused \/ channel # NoSocket) = FALSE
      BY Zenon
    <3>2. ~misused'
      BY <2>1, <3>1, Zenon
    <3> QED BY <2>1, <3>2
  <2>2. CASE registered' = registered /\ misused' = misused /\ state' = "kDisconnected"
    BY <1>4, <2>2
  <2> QED BY <1>1, <2>1, <2>2
<1>6. retryDelayMs' \in Nat /\ retryTimers' \in Seq(Nat)
  BY <1>1, <1>2, <1>3
<1>7. /\ state' = "kConnecting" => /\ channel' \in Sockets \ open /\ open' = open \cup {channel'}
                                   /\ retryTimers' = <<>>
      /\ state' # "kConnecting" => channel' = NoSocket /\ open' = open
      /\ retryTimers' # <<>> => Len(retryTimers') = 1
      /\ state' \in {"kDisconnected", "kConnecting"}
  BY <1>1, <1>2
<1> QED BY <1>5, <1>6, <1>7

\* connect() keeps the invariant wherever there is neither an attempt nor a
\* connection nor a timer, and the client lives.
LEMMA ConnectInv ==
  ASSUME ConnInv, NEW delay \in Nat, Connect(delay, <<>>),
         channel = NoSocket, ~registered, connection = NoSocket, orphan = NoSocket,
         client = "used", ~leaving', polled' \subseteq {"release"}, phase' = phase, left' \in Nat,
         polled' # {} => phase = "events",
         UNCHANGED <<connection, orphan, client>>,
         QueueOK(queue'), ~Has(queue', "startInLoop"), ~Has(queue', "resetChannel"),
         Doomed(queue') = Doomed(queue), phase = "functors" => left' <= Len(queue')
  PROVE  ConnInv'
<1> USE DEF ConnInv
<1>1. /\ state' \in {"kDisconnected", "kConnecting"}
      /\ registered' <=> state' = "kConnecting"
      /\ registered' => /\ channel' \in Sockets \ open /\ open' = open \cup {channel'}
                        /\ retryTimers' = <<>>
      /\ ~registered' => channel' = NoSocket /\ open' = open
      /\ retryTimers' \in Seq(Nat) /\ retryDelayMs' \in Nat
      /\ retryTimers' # <<>> => Len(retryTimers') = 1
      /\ ~misused'
  BY ConnectFacts
<1>2. NoSocket \notin Sockets
  BY ConnectorAssumption DEF NoSocket
<1>3. ConnTypes'
  BY <1>1 DEF ConnTypes
<1>4. StartAlone' /\ TimerAlone' /\ AttemptAlone' /\ ConnectionAlone'
  BY <1>1, <1>2 DEF StartAlone, TimerAlone, AttemptAlone, ConnectionAlone
<1>5. ResetBeforePoll' /\ BatchInQueue' /\ EventsFit' /\ DestroyedIsQuiet'
  BY <1>1 DEF ResetBeforePoll, BatchInQueue, EventsFit, DestroyedIsQuiet
<1>6. OwnedOnce'
  <2>1. Doomed(queue) \subseteq open \cup {NoSocket} /\ NoSocket \notin Doomed(queue)
    BY <1>2, WithinFacts DEF OwnedOnce, ConnTypes
  <2>2. CASE registered'
    BY <1>1, <1>2, <2>1, <2>2 DEF OwnedOnce
  <2>3. CASE ~registered'
    BY <1>1, <2>3 DEF OwnedOnce
  <2> QED BY <2>2, <2>3
<1> QED BY <1>1, <1>3, <1>4, <1>5, <1>6

\* The removal timer changes nothing but what is reported.
LEMMA RemoveConnectorInv ==
  ASSUME ConnInv, RemoveConnector
  PROVE  ConnInv'
<1> USE DEF ConnInv
<1>1. /\ "release" \in polled /\ polled' = polled \ {"release"}
      /\ UNCHANGED <<state, wanted, channel, registered, retryDelayMs, retryTimers, connection,
                     client, orphan, open, phase, queue, left, leaving, misused>>
  BY DEF RemoveConnector, connectorVars
<1>2. ConnTypes' /\ StartAlone' /\ TimerAlone' /\ AttemptAlone' /\ ConnectionAlone'
  BY <1>1 DEF ConnTypes, StartAlone, TimerAlone, AttemptAlone, ConnectionAlone
<1>3. ResetBeforePoll' /\ BatchInQueue' /\ EventsFit'
  BY <1>1 DEF ResetBeforePoll, BatchInQueue, EventsFit
<1>4. DestroyedIsQuiet' /\ OwnedOnce'
  BY <1>1 DEF DestroyedIsQuiet, OwnedOnce
<1> QED BY <1>1, <1>2, <1>3, <1>4

\* Taking the only timer out leaves none.
LEMMA LastTimer ==
  ASSUME NEW s \in Seq(Nat), Len(s) = 1, NEW i \in DOMAIN s
  PROVE  RemoveAt(s, i) = <<>>
<1>1. i = 1
  BY LenProperties
<1>2. SubSeq(s, 1, 0) = <<>> /\ SubSeq(s, 2, 1) = <<>>
  BY SubSeqProperties, EmptySeq
<1> QED BY <1>1, <1>2 DEF RemoveAt

\* A retry timer fires: there is no other, and the channel before is gone.
LEMMA TimerFiresInv ==
  ASSUME ConnInv, NEW i \in DOMAIN retryTimers, TimerFires(i)
  PROVE  ConnInv'
<1> USE DEF ConnInv
<1>1. /\ "timer" \in polled /\ ~leaving /\ polled' = polled \ {"timer"}
      /\ StartInLoop(RemoveAt(retryTimers, i))
      /\ UNCHANGED <<phase, queue, left, leaving>>
  BY DEF TimerFires
<1>2. /\ Len(retryTimers) = 1 /\ state = "kDisconnected" /\ client # "new" /\ phase = "events"
      /\ channel = NoSocket /\ ~Has(queue, "resetChannel")
      /\ retryTimers # <<>> /\ polled' \subseteq {"release"}
  BY <1>1 DEF EventsFit, TimerAlone, ConnTypes
<1>3. /\ ~registered /\ connection = NoSocket /\ orphan = NoSocket
      /\ ~Has(queue, "startInLoop")
  BY <1>2 DEF AttemptAlone, ConnectionAlone, StartAlone
<1>4. RemoveAt(retryTimers, i) = <<>>
  BY <1>2, LastTimer DEF ConnTypes
<1>5. /\ \/ wanted /\ Connect(retryDelayMs, <<>>)
         \/ /\ retryTimers' = <<>>
            /\ UNCHANGED <<state, channel, registered, retryDelayMs, open, misused>>
      /\ UNCHANGED <<wanted, connection, client, orphan>>
  BY <1>1, <1>2, <1>4 DEF StartInLoop, StartWanted, clientVars
<1>6. CASE wanted /\ Connect(retryDelayMs, <<>>)
  <2>1. client = "used"
    BY <1>2, <1>6 DEF DestroyedIsQuiet, ConnTypes
  <2>2. retryDelayMs \in Nat /\ QueueOK(queue) /\ left \in Nat
    BY DEF ConnTypes
  <2> QED BY <1>1, <1>2, <1>3, <1>5, <1>6, <2>1, <2>2, ConnectInv
<1>7. CASE /\ retryTimers' = <<>>
           /\ UNCHANGED <<state, channel, registered, retryDelayMs, open, misused>>
  <2>1. ConnTypes' /\ StartAlone' /\ TimerAlone' /\ AttemptAlone'
    BY <1>1, <1>2, <1>5, <1>7 DEF ConnTypes, StartAlone, TimerAlone, AttemptAlone
  <2>2. ConnectionAlone' /\ ResetBeforePoll' /\ BatchInQueue' /\ EventsFit'
    BY <1>1, <1>2, <1>5, <1>7 DEF ConnectionAlone, ResetBeforePoll, BatchInQueue, EventsFit
  <2>3. DestroyedIsQuiet' /\ OwnedOnce'
    BY <1>1, <1>5, <1>7 DEF DestroyedIsQuiet, OwnedOnce
  <2> QED BY <1>7, <2>1, <2>2, <2>3
<1> QED BY <1>5, <1>6, <1>7

\* retry() closes the socket and arms at most one timer.
LEMMA RetryFacts ==
  ASSUME ConnTypes, retryTimers = <<>>, NEW sock, Retry(sock)
  PROVE  /\ open' = open \ {sock} /\ state' = "kDisconnected"
         /\ retryTimers' \in Seq(Nat) /\ retryDelayMs' \in Nat
         /\ retryTimers' # <<>> => Len(retryTimers') = 1
<1>1. retryDelayMs \in Nat /\ retryDelayMs * 2 \in Nat /\ kMaxRetryDelayMs \in Nat
  BY ConnectorAssumption DEF ConnTypes
<1>2. /\ Append(<<>>, retryDelayMs) \in Seq(Nat) /\ Len(Append(<<>>, retryDelayMs)) = 1
      /\ <<>> \in Seq(Nat)
  BY <1>1
<1>3. \/ retryTimers' = Append(<<>>, retryDelayMs) /\ retryDelayMs' \in Nat
      \/ retryTimers' = <<>> /\ retryDelayMs' \in Nat
  BY <1>1 DEF Retry
<1> QED BY <1>2, <1>3 DEF Retry

\* removeAndResetChannel queues the end of the channel.
LEMMA ResetFacts ==
  ASSUME NEW q, QueueOK(q), RemoveAndResetChannel(q)
  PROVE  /\ ~registered' /\ QueueOK(queue') /\ Len(queue') = Len(q) + 1
         /\ Has(queue', "resetChannel")
         /\ Has(queue', "startInLoop") => Has(q, "startInLoop")
         /\ Doomed(queue') = Doomed(q)
<1>1. queue' = Append(q, F("resetChannel", NoSocket))
  BY DEF RemoveAndResetChannel
<1>2. /\ F("resetChannel", NoSocket) \in Functor
      /\ F("resetChannel", NoSocket).call = "resetChannel"
  BY FunctorFacts DEF Calls
<1>3. ~registered'
  BY DEF RemoveAndResetChannel
<1> QED BY <1>1, <1>2, <1>3, AppendQueue

\* An attempt that ends in retry() leaves its channel to the functor.
LEMMA AttemptEnds ==
  ASSUME ConnInv, state = "kConnecting", Retry(channel), ~registered',
         QueueOK(queue'), ~Has(queue', "startInLoop"), Has(queue', "resetChannel"),
         Doomed(queue') = Doomed(queue),
         UNCHANGED <<channel, wanted, client, orphan, connection, misused, leaving, phase>>,
         polled' \subseteq polled, "error" \in polled' => "write" \in polled',
         left' \in Nat, phase = "functors" => left' <= Len(queue')
  PROVE  ConnInv'
<1> USE DEF ConnInv
<1>1. /\ registered /\ retryTimers = <<>> /\ connection = NoSocket /\ orphan = NoSocket
      /\ channel # NoSocket /\ ~leaving /\ client # "new"
      /\ "timer" \notin polled /\ "close" \notin polled
  BY DEF AttemptAlone, TimerAlone, ConnectionAlone, EventsFit
<1>2. /\ open' = open \ {channel} /\ state' = "kDisconnected"
      /\ retryTimers' \in Seq(Nat) /\ retryDelayMs' \in Nat
      /\ retryTimers' # <<>> => Len(retryTimers') = 1
  BY <1>1, RetryFacts
<1>3. ConnTypes'
  BY <1>2 DEF ConnTypes
<1>4. StartAlone' /\ TimerAlone' /\ AttemptAlone' /\ ConnectionAlone'
  BY <1>1, <1>2 DEF StartAlone, TimerAlone, AttemptAlone, ConnectionAlone
<1>5. ResetBeforePoll' /\ BatchInQueue' /\ EventsFit' /\ DestroyedIsQuiet'
  BY <1>1, <1>2 DEF ResetBeforePoll, BatchInQueue, EventsFit, DestroyedIsQuiet
<1>6. OwnedOnce'
  BY <1>1, <1>2 DEF OwnedOnce
<1> QED BY <1>3, <1>4, <1>5, <1>6

\* handleWrite: the socket is given up, handed over, or closed because nobody
\* wants it; or the event is stale, and then the connector is disconnected.
LEMMA HandleWriteInv ==
  ASSUME ConnInv, HandleWrite
  PROVE  ConnInv'
<1> USE DEF ConnInv
<1>1. /\ "write" \in polled /\ "error" \notin polled /\ ~leaving
      /\ polled' = polled \ {"write"}
      /\ UNCHANGED <<wanted, channel, client, orphan, phase, left, leaving>>
  BY DEF HandleWrite
<1>2. /\ state # "kConnected" /\ phase = "events"
      /\ "timer" \notin polled /\ "close" \notin polled
      /\ polled' \subseteq {"release"}
  BY <1>1 DEF EventsFit, ConnTypes
<1>3. CASE state # "kConnecting"
  <2>1. state = "kDisconnected"
    BY <1>2, <1>3 DEF ConnTypes
  <2>2. UNCHANGED <<state, registered, retryTimers, retryDelayMs, queue, open, connection>>
    BY <1>3 DEF HandleWrite
  <2>3. ~misused'
    <3>1. misused' = (misused \/ state # "kDisconnected")
      BY <1>3 DEF HandleWrite
    <3>2. (misused \/ state # "kDisconnected") = FALSE
      BY <2>1, Zenon
    <3> QED BY <3>1, <3>2, Zenon
  <2>4. ConnTypes' /\ StartAlone' /\ TimerAlone' /\ AttemptAlone'
    BY <1>1, <1>2, <2>2 DEF ConnTypes, StartAlone, TimerAlone, AttemptAlone
  <2>5. ConnectionAlone' /\ ResetBeforePoll' /\ BatchInQueue' /\ EventsFit'
    BY <1>1, <1>2, <2>2 DEF ConnectionAlone, ResetBeforePoll, BatchInQueue, EventsFit
  <2>6. DestroyedIsQuiet' /\ OwnedOnce'
    BY <1>1, <2>2 DEF DestroyedIsQuiet, OwnedOnce
  <2> QED BY <2>3, <2>4, <2>5, <2>6
<1>4. CASE state = "kConnecting"
  <2>1. /\ registered /\ retryTimers = <<>> /\ connection = NoSocket /\ orphan = NoSocket
        /\ channel # NoSocket /\ channel \in Sockets /\ client # "new"
        /\ ~Has(queue, "startInLoop") /\ QueueOK(queue) /\ left \in Nat
    BY <1>4 DEF AttemptAlone, TimerAlone, ConnectionAlone, StartAlone, ConnTypes
  <2>2. RemoveAndResetChannel(queue)
    BY <1>4 DEF HandleWrite
  <2>3. /\ ~registered' /\ QueueOK(queue') /\ Has(queue', "resetChannel")
        /\ ~Has(queue', "startInLoop") /\ Doomed(queue') = Doomed(queue)
    BY <2>1, <2>2, ResetFacts
  <2>4. CASE Retry(channel) /\ UNCHANGED <<connection, misused>>
    BY <1>1, <1>2, <1>4, <2>1, <2>3, <2>4, AttemptEnds
  <2>5. CASE /\ state' = "kConnected" /\ HandOver(channel)
             /\ UNCHANGED <<retryTimers, retryDelayMs>>
    <3>1. /\ \/ wanted /\ connection' = channel /\ open' = open
             \/ ~wanted /\ open' = open \ {channel} /\ connection' = NoSocket
          /\ wanted => client = "used"
      BY <1>4, <2>1, <2>5 DEF HandOver, NewConnection, DestroyedIsQuiet, ConnTypes
    <3>2. ~misused'
      <4>1. CASE wanted
        <5>1. misused' = (misused \/ client = "destroyed" \/ connection # NoSocket)
          BY <2>5, <4>1 DEF HandOver, NewConnection
        <5>2. client # "destroyed"
          BY <3>1, <4>1
        <5>3. (misused \/ client = "destroyed" \/ connection # NoSocket) = FALSE
          BY <2>1, <5>2, Zenon
        <5> QED BY <5>1, <5>3, Zenon
      <4>2. CASE ~wanted
        BY <2>5, <4>2 DEF HandOver
      <4> QED BY <4>1, <4>2
    <3>3. ConnTypes' /\ StartAlone' /\ TimerAlone' /\ AttemptAlone'
      BY <1>1, <1>2, <2>1, <2>3, <2>5, <3>1 DEF ConnTypes, StartAlone, TimerAlone, AttemptAlone
    <3>4. ConnectionAlone' /\ ResetBeforePoll' /\ BatchInQueue' /\ EventsFit' /\ DestroyedIsQuiet'
      BY <1>1, <1>2, <2>1, <2>5, <3>1
      DEF ConnectionAlone, ResetBeforePoll, BatchInQueue, EventsFit, DestroyedIsQuiet
    <3>5. OwnedOnce'
      <4>1. NoSocket \notin Doomed(queue)
        BY <2>1, WithinFacts, ConnectorAssumption DEF NoSocket
      <4> QED BY <1>1, <2>1, <2>3, <3>1, <4>1 DEF OwnedOnce
    <3> QED BY <3>2, <3>3, <3>4, <3>5
  <2> QED BY <1>4, <2>4, <2>5 DEF HandleWrite
<1> QED BY <1>3, <1>4

\* handleError: an attempt ends, or the event is stale.
LEMMA HandleErrorInv ==
  ASSUME ConnInv, HandleError
  PROVE  ConnInv'
<1> USE DEF ConnInv
<1>1. /\ "error" \in polled /\ ~leaving /\ polled' = polled \ {"error"}
      /\ UNCHANGED <<wanted, channel, connection, client, orphan, phase, left, leaving, misused>>
  BY DEF HandleError, clientVars
<1>2. /\ phase = "events" /\ "write" \in polled
      /\ "timer" \notin polled /\ "close" \notin polled
  BY <1>1 DEF EventsFit, ConnTypes
<1>3. CASE state = "kConnecting"
  <2>1. ~Has(queue, "startInLoop") /\ QueueOK(queue) /\ left \in Nat
    BY <1>3 DEF StartAlone, ConnTypes
  <2>2. RemoveAndResetChannel(queue) /\ Retry(channel)
    BY <1>3 DEF HandleError
  <2>3. /\ ~registered' /\ QueueOK(queue') /\ Has(queue', "resetChannel")
        /\ ~Has(queue', "startInLoop") /\ Doomed(queue') = Doomed(queue)
    BY <2>1, <2>2, ResetFacts
  <2> QED BY <1>1, <1>2, <1>3, <2>1, <2>2, <2>3, AttemptEnds
<1>4. CASE state # "kConnecting"
  <2>1. UNCHANGED <<state, registered, retryTimers, retryDelayMs, queue, open>>
    BY <1>4 DEF HandleError
  <2>2. ConnTypes' /\ StartAlone' /\ TimerAlone' /\ AttemptAlone'
    BY <1>1, <2>1 DEF ConnTypes, StartAlone, TimerAlone, AttemptAlone
  <2>3. ConnectionAlone' /\ ResetBeforePoll' /\ BatchInQueue' /\ EventsFit'
    BY <1>1, <1>2, <2>1 DEF ConnectionAlone, ResetBeforePoll, BatchInQueue, EventsFit
  <2>4. DestroyedIsQuiet' /\ OwnedOnce'
    BY <1>1, <2>1 DEF DestroyedIsQuiet, OwnedOnce
  <2> QED BY <1>1, <2>2, <2>3, <2>4
<1> QED BY <1>3, <1>4

\* removeConnection: the socket passes from the connection to the functor that
\* destroys it.  The functors run before are those of q.
LEMMA RemoveFacts ==
  ASSUME ConnInv, NEW q, QueueOK(q), Doomed(q) = Doomed(queue),
         NEW sock \in Sockets, sock = connection \/ (connection = NoSocket /\ sock = orphan),
         RemoveConnection(sock, q)
  PROVE  /\ QueueOK(queue') /\ Len(queue') = Len(q) + 1
         /\ \A n : Has(queue', n) <=> Has(q, n) \/ n = "connectDestroyed"
         /\ \A k \in Nat : ResetWithin(q, k) => ResetWithin(queue', k)
         /\ connection' = NoSocket /\ orphan' = NoSocket
         /\ leaving' => leaving \/ sock = connection
         /\ OwnedOnce'
         /\ UNCHANGED <<state, wanted, channel, registered, retryDelayMs, retryTimers, client,
                        open, misused>>
<1> USE DEF ConnInv
<1>1. /\ queue' = Append(q, F("connectDestroyed", sock))
      /\ UNCHANGED <<state, wanted, channel, registered, retryDelayMs, retryTimers, client,
                     open, misused>>
  BY DEF RemoveConnection, connectorVars
<1>2. NoSocket \notin Sockets /\ sock # NoSocket
  BY ConnectorAssumption DEF NoSocket
<1>3. sock \notin Doomed(q) /\ ~registered
  BY <1>2 DEF OwnedOnce, AttemptAlone, ConnectionAlone
<1>4. /\ F("connectDestroyed", sock) \in Functor
      /\ F("connectDestroyed", sock).call = "connectDestroyed"
      /\ F("connectDestroyed", sock).sock = sock
  BY FunctorFacts DEF Calls
<1>5. /\ QueueOK(queue') /\ Len(queue') = Len(q) + 1
      /\ \A n : Has(queue', n) <=> Has(q, n) \/ n = "connectDestroyed"
      /\ Doomed(queue') = Doomed(queue) \cup {sock}
      /\ \A k \in Nat : ResetWithin(q, k) => ResetWithin(queue', k)
  BY <1>1, <1>3, <1>4, AppendQueue
<1>6. /\ connection' = NoSocket /\ orphan' = NoSocket
      /\ leaving' => leaving \/ sock = connection
  BY <1>2 DEF RemoveConnection, ConnectionAlone
<1>7. OwnedOnce'
  <2>1. NoSocket \notin Doomed(queue')
    BY <1>2, <1>5, WithinFacts
  <2>2. {connection, orphan} \ {NoSocket} = {sock}
    BY <1>2 DEF ConnectionAlone
  <2>3. open = Doomed(queue')
    BY <1>2, <1>3, <1>5, <2>2, <2>1 DEF OwnedOnce
  <2> QED BY <1>1, <1>3, <1>6, <2>1, <2>3 DEF OwnedOnce
<1> QED BY <1>1, <1>5, <1>6, <1>7

\* The connection closes.
LEMMA HandleCloseInv ==
  ASSUME ConnInv, HandleClose
  PROVE  ConnInv'
<1> USE DEF ConnInv
<1> DEFINE sock == IF connection # NoSocket THEN connection ELSE orphan
<1>1. /\ "close" \in polled /\ ~leaving /\ polled' = polled \ {"close"}
      /\ UNCHANGED <<phase, left>>
  BY DEF HandleClose
<1>2. /\ phase = "events" /\ channel = NoSocket /\ ~Has(queue, "resetChannel")
      /\ connection # NoSocket \/ orphan # NoSocket
      /\ state = "kConnected" /\ polled' \subseteq {"release"}
  BY <1>1 DEF EventsFit, ConnTypes, ConnectionAlone
<1>3. RemoveConnection(sock, queue)
  BY <1>2 DEF HandleClose
<1>4. /\ QueueOK(queue) /\ sock \in Sockets /\ left \in Nat
      /\ sock = connection \/ (connection = NoSocket /\ sock = orphan)
      /\ sock = connection => connection # NoSocket
  BY <1>2 DEF ConnTypes
<1> HIDE DEF sock
<1>5. /\ QueueOK(queue')
      /\ \A n : Has(queue', n) <=> Has(queue, n) \/ n = "connectDestroyed"
      /\ connection' = NoSocket /\ orphan' = NoSocket
      /\ leaving' => leaving \/ sock = connection
      /\ OwnedOnce'
      /\ UNCHANGED <<state, wanted, channel, registered, retryDelayMs, retryTimers, client,
                     open, misused>>
  BY <1>3, <1>4, RemoveFacts
<1>6. leaving' => client = "used"
  BY <1>1, <1>4, <1>5 DEF ConnectionAlone
<1>7. ConnTypes' /\ StartAlone' /\ TimerAlone' /\ AttemptAlone'
  BY <1>1, <1>2, <1>4, <1>5 DEF ConnTypes, StartAlone, TimerAlone, AttemptAlone
<1>8. ConnectionAlone' /\ ResetBeforePoll' /\ BatchInQueue' /\ EventsFit' /\ DestroyedIsQuiet'
  BY <1>1, <1>2, <1>5, <1>6
  DEF ConnectionAlone, ResetBeforePoll, BatchInQueue, EventsFit, DestroyedIsQuiet
<1> QED BY <1>5, <1>7, <1>8

\* restart() after a close: the channel of the attempt before is gone.
LEMMA RestartInv ==
  ASSUME ConnInv, Restart
  PROVE  ConnInv'
<1> USE DEF ConnInv
<1>1. /\ leaving /\ ~leaving' /\ Connect(kInitRetryDelayMs, retryTimers)
      /\ UNCHANGED <<connection, client, orphan, phase, polled, queue, left>>
  BY DEF Restart, clientVars
<1>2. /\ state = "kConnected" /\ client = "used" /\ phase = "events" /\ polled \subseteq {"release"}
      /\ connection = NoSocket /\ channel = NoSocket /\ ~Has(queue, "resetChannel")
  BY <1>1 DEF ConnectionAlone
<1>3. /\ retryTimers = <<>> /\ ~registered /\ orphan = NoSocket /\ ~Has(queue, "startInLoop")
  BY <1>2 DEF TimerAlone, AttemptAlone, ConnectionAlone, StartAlone
<1>4. kInitRetryDelayMs \in Nat /\ QueueOK(queue) /\ left \in Nat
  BY ConnectorAssumption DEF ConnTypes
<1> QED BY <1>1, <1>2, <1>3, <1>4, ConnectInv

-----------------------------------------------------------------------------
(* doPendingFunctors *)

\* The functors of this iteration are those queued by now.
LEMMA SwapFunctorsInv ==
  ASSUME ConnInv, SwapFunctors
  PROVE  ConnInv'
<1> USE DEF ConnInv
<1>1. /\ phase = "events" /\ polled = {} /\ ~leaving
      /\ phase' = "functors" /\ left' = Len(queue)
      /\ UNCHANGED <<state, wanted, channel, registered, retryDelayMs, retryTimers, connection,
                     client, orphan, open, polled, queue, leaving, misused>>
  BY DEF SwapFunctors, connectorVars, clientVars
<1>2. Len(queue) \in Nat /\ ResetWithin(queue, Len(queue))
  BY WithinFacts DEF ConnTypes
<1>3. ConnTypes' /\ StartAlone' /\ TimerAlone' /\ AttemptAlone' /\ ConnectionAlone'
  BY <1>1, <1>2 DEF ConnTypes, StartAlone, TimerAlone, AttemptAlone, ConnectionAlone
<1>4. ResetBeforePoll' /\ BatchInQueue' /\ EventsFit'
  BY <1>1, <1>2 DEF ResetBeforePoll, BatchInQueue, EventsFit
<1>5. DestroyedIsQuiet' /\ OwnedOnce'
  BY <1>1 DEF DestroyedIsQuiet, OwnedOnce
<1> QED BY <1>1, <1>3, <1>4, <1>5

\* Once they are done, none of a connected client is left to reset the channel.
LEMMA BatchDoneInv ==
  ASSUME ConnInv, BatchDone
  PROVE  ConnInv'
<1> USE DEF ConnInv
<1>1. /\ phase = "functors" /\ left = 0 /\ phase' = "poll"
      /\ UNCHANGED <<state, wanted, channel, registered, retryDelayMs, retryTimers, connection,
                     client, orphan, open, polled, queue, left, leaving, misused>>
  BY DEF BatchDone, connectorVars, clientVars
<1>2. ResetWithin(queue, 0) => ~Has(queue, "resetChannel")
  BY WithinFacts DEF ConnTypes
<1>3. ConnTypes' /\ StartAlone' /\ TimerAlone' /\ AttemptAlone' /\ ConnectionAlone'
  BY <1>1 DEF ConnTypes, StartAlone, TimerAlone, AttemptAlone, ConnectionAlone
<1>4. ResetBeforePoll' /\ BatchInQueue' /\ EventsFit'
  BY <1>1, <1>2 DEF ResetBeforePoll, BatchInQueue, EventsFit
<1>5. DestroyedIsQuiet' /\ OwnedOnce'
  BY <1>1 DEF DestroyedIsQuiet, OwnedOnce
<1> QED BY <1>1, <1>3, <1>4, <1>5

\* The functor at the front of the queue is called.
LEMMA RunningFacts ==
  ASSUME ConnInv, NEW name, Running(name)
  PROVE  /\ phase = "functors" /\ ~leaving /\ polled = {} /\ UNCHANGED <<phase, polled>>
         /\ queue # <<>> /\ QueueOK(queue) /\ Head(queue).call = name
         /\ left' \in Nat /\ left' <= Len(Tail(queue)) /\ Len(Tail(queue)) \in Nat
         /\ state = "kConnected" => ResetWithin(Tail(queue), left')
<1> USE DEF ConnInv
<1>1. /\ phase = "functors" /\ left > 0 /\ ~leaving /\ left' = left - 1
      /\ Head(queue).call = name /\ UNCHANGED <<phase, polled>>
  BY DEF Running
<1>2. QueueOK(queue) /\ left \in Nat /\ left <= Len(queue) /\ polled = {}
  BY <1>1 DEF ConnTypes, BatchInQueue, EventsFit
<1>3. Len(queue) \in Nat /\ queue # <<>>
  BY <1>1, <1>2, WithinFacts
<1>4. /\ Len(Tail(queue)) = Len(queue) - 1
      /\ ResetWithin(queue, left) => ResetWithin(Tail(queue), left - 1)
  BY <1>2, <1>3, TailQueue
<1>5. left' \in Nat /\ left' <= Len(Tail(queue)) /\ Len(Tail(queue)) \in Nat
  BY <1>1, <1>2, <1>3, <1>4
<1> QED BY <1>1, <1>2, <1>3, <1>4, <1>5 DEF ResetBeforePoll

\* A functor that does nothing but leave the queue, and destroys no channel or
\* connection.
LEMMA FunctorDone ==
  ASSUME ConnInv, NEW name, Running(name), name \notin {"resetChannel", "connectDestroyed"},
         queue' = Tail(queue),
         UNCHANGED <<state, wanted, channel, registered, retryDelayMs, retryTimers, connection,
                     client, orphan, open, leaving, misused>>
  PROVE  ConnInv'
<1> USE DEF ConnInv
<1>1. /\ phase = "functors" /\ ~leaving /\ polled = {} /\ phase' = phase /\ polled' = polled
      /\ queue # <<>> /\ QueueOK(queue) /\ Head(queue).call = name
      /\ left' \in Nat /\ left' <= Len(queue')
      /\ state = "kConnected" => ResetWithin(queue', left')
  BY RunningFacts
<1>2. /\ QueueOK(queue')
      /\ Has(queue', "startInLoop") => Has(queue, "startInLoop")
      /\ Has(queue', "resetChannel") <=> Has(queue, "resetChannel")
      /\ Doomed(queue') = Doomed(queue)
  BY <1>1, TailQueue
<1>3. ConnTypes' /\ StartAlone' /\ TimerAlone' /\ AttemptAlone' /\ ConnectionAlone'
  BY <1>1, <1>2 DEF ConnTypes, StartAlone, TimerAlone, AttemptAlone, ConnectionAlone
<1>4. ResetBeforePoll' /\ BatchInQueue' /\ EventsFit'
  BY <1>1, <1>2 DEF ResetBeforePoll, BatchInQueue, EventsFit
<1>5. DestroyedIsQuiet' /\ OwnedOnce'
  BY <1>1, <1>2 DEF DestroyedIsQuiet, OwnedOnce
<1> QED BY <1>3, <1>4, <1>5

\* startInLoop of connect().
LEMMA RunStartInv ==
  ASSUME ConnInv, RunStart
  PROVE  ConnInv'
<1> USE DEF ConnInv
<1>1. /\ Running("startInLoop") /\ queue' = Tail(queue) /\ StartInLoop(retryTimers)
      /\ leaving' = leaving
  BY DEF RunStart
<1>2. /\ phase = "functors" /\ ~leaving /\ polled = {} /\ phase' = phase /\ polled' = polled
      /\ queue # <<>> /\ QueueOK(queue) /\ Head(queue).call = "startInLoop"
      /\ left' \in Nat /\ left' <= Len(queue')
  BY <1>1, RunningFacts
<1>3. /\ QueueOK(queue') /\ Has(queue, "startInLoop") /\ ~Has(queue', "startInLoop")
      /\ Has(queue', "resetChannel") => Has(queue, "resetChannel")
      /\ Doomed(queue') = Doomed(queue)
  BY <1>1, <1>2, TailQueue
<1>4. /\ state = "kDisconnected" /\ retryTimers = <<>> /\ channel = NoSocket
      /\ ~Has(queue, "resetChannel") /\ client # "new"
  BY <1>3 DEF StartAlone
<1>5. /\ ~registered /\ connection = NoSocket /\ orphan = NoSocket
  BY <1>4 DEF AttemptAlone, ConnectionAlone
<1>6. /\ \/ wanted /\ Connect(retryDelayMs, <<>>)
         \/ UNCHANGED <<state, channel, registered, retryDelayMs, retryTimers, open, misused>>
      /\ UNCHANGED <<wanted, connection, client, orphan>>
  BY <1>1, <1>4 DEF StartInLoop, StartWanted, clientVars
<1>7. CASE wanted /\ Connect(retryDelayMs, <<>>)
  <2>1. client = "used"
    BY <1>4, <1>7 DEF DestroyedIsQuiet, ConnTypes
  <2>2. retryDelayMs \in Nat
    BY DEF ConnTypes
  <2> QED BY <1>1, <1>2, <1>3, <1>4, <1>5, <1>6, <1>7, <2>1, <2>2, ConnectInv
<1>8. CASE UNCHANGED <<state, channel, registered, retryDelayMs, retryTimers, open, misused>>
  BY <1>1, <1>6, <1>8, FunctorDone
<1> QED BY <1>6, <1>7, <1>8

\* stopInLoop gives up an attempt.
LEMMA RunStopInv ==
  ASSUME ConnInv, RunStop
  PROVE  ConnInv'
<1> USE DEF ConnInv
<1>1. /\ Running("stopInLoop")
      /\ UNCHANGED <<wanted, channel, connection, client, orphan, leaving, misused>>
  BY DEF RunStop, clientVars
<1>2. CASE state = "kConnecting"
  <2>1. RemoveAndResetChannel(Tail(queue)) /\ Retry(channel)
    BY <1>2 DEF RunStop
  <2>2. /\ phase = "functors" /\ ~leaving /\ polled = {} /\ phase' = phase /\ polled' = polled
        /\ queue # <<>> /\ QueueOK(queue) /\ Head(queue).call = "stopInLoop"
        /\ left' \in Nat /\ left' <= Len(Tail(queue)) /\ Len(Tail(queue)) \in Nat
    BY <1>1, RunningFacts
  <2>3. /\ QueueOK(Tail(queue)) /\ Doomed(Tail(queue)) = Doomed(queue)
        /\ Has(Tail(queue), "startInLoop") => Has(queue, "startInLoop")
    BY <2>2, TailQueue
  <2>4. /\ ~registered' /\ QueueOK(queue') /\ Len(queue') = Len(Tail(queue)) + 1
        /\ Has(queue', "resetChannel")
        /\ Has(queue', "startInLoop") => Has(Tail(queue), "startInLoop")
        /\ Doomed(queue') = Doomed(Tail(queue))
    BY <2>1, <2>3, ResetFacts
  <2>5. ~Has(queue, "startInLoop")
    BY <1>2 DEF StartAlone
  <2>6. left' <= Len(queue')
    BY <2>2, <2>4
  <2> QED BY <1>1, <1>2, <2>1, <2>2, <2>3, <2>4, <2>5, <2>6, AttemptEnds
<1>3. CASE state # "kConnecting"
  <2>1. queue' = Tail(queue) /\ UNCHANGED <<state, registered, retryTimers, retryDelayMs, open>>
    BY <1>3 DEF RunStop
  <2> QED BY <1>1, <2>1, FunctorDone
<1> QED BY <1>2, <1>3

\* resetChannel destroys a channel that is out of the poller.
LEMMA RunResetChannelInv ==
  ASSUME ConnInv, RunResetChannel
  PROVE  ConnInv'
<1> USE DEF ConnInv
<1>1. /\ Running("resetChannel") /\ queue' = Tail(queue) /\ channel' = NoSocket
      /\ UNCHANGED <<state, wanted, registered, retryDelayMs, retryTimers, connection, client,
                     orphan, open, leaving, misused>>
  BY DEF RunResetChannel, clientVars
<1>2. /\ phase = "functors" /\ ~leaving /\ polled = {} /\ phase' = phase /\ polled' = polled
      /\ queue # <<>> /\ QueueOK(queue) /\ Head(queue).call = "resetChannel"
      /\ left' \in Nat /\ left' <= Len(queue')
      /\ state = "kConnected" => ResetWithin(queue', left')
  BY <1>1, RunningFacts
<1>3. /\ QueueOK(queue')
      /\ Has(queue', "startInLoop") => Has(queue, "startInLoop")
      /\ Has(queue, "resetChannel") /\ Doomed(queue') = Doomed(queue)
  BY <1>1, <1>2, TailQueue
<1>4. ~registered /\ ~Has(queue, "startInLoop") /\ client # "new"
  BY <1>3 DEF AttemptAlone, StartAlone
<1>5. ConnTypes' /\ StartAlone' /\ TimerAlone' /\ AttemptAlone' /\ ConnectionAlone'
  BY <1>1, <1>2, <1>3, <1>4 DEF ConnTypes, StartAlone, TimerAlone, AttemptAlone, ConnectionAlone
<1>6. ResetBeforePoll' /\ BatchInQueue' /\ EventsFit'
  BY <1>1, <1>2 DEF ResetBeforePoll, BatchInQueue, EventsFit
<1>7. DestroyedIsQuiet' /\ OwnedOnce'
  BY <1>1, <1>3, <1>4 DEF DestroyedIsQuiet, OwnedOnce
<1> QED BY <1>1, <1>5, <1>6, <1>7

\* forceCloseInLoop of an orphan.
LEMMA RunForceCloseInv ==
  ASSUME ConnInv, RunForceClose
  PROVE  ConnInv'
<1> USE DEF ConnInv
<1>1. Running("forceCloseInLoop")
  BY DEF RunForceClose
<1>2. CASE orphan # Head(queue).sock
  <2>1. /\ queue' = Tail(queue)
        /\ UNCHANGED <<state, wanted, channel, registered, retryDelayMs, retryTimers, connection,
                       client, orphan, open, leaving, misused>>
    BY <1>2 DEF RunForceClose, connectorVars, clientVars
  <2> QED BY <1>1, <2>1, FunctorDone
<1>3. CASE orphan = Head(queue).sock
  <2>1. RemoveConnection(orphan, Tail(queue))
    BY <1>3 DEF RunForceClose
  <2>2. /\ phase = "functors" /\ ~leaving /\ polled = {} /\ phase' = phase /\ polled' = polled
        /\ queue # <<>> /\ QueueOK(queue) /\ Head(queue).call = "forceCloseInLoop"
        /\ left' \in Nat /\ left' <= Len(Tail(queue)) /\ Len(Tail(queue)) \in Nat
        /\ state = "kConnected" => ResetWithin(Tail(queue), left')
    BY <1>1, RunningFacts
  <2>3. /\ QueueOK(Tail(queue)) /\ Doomed(Tail(queue)) = Doomed(queue)
        /\ \A n : Has(queue, n) <=> Has(Tail(queue), n) \/ Head(queue).call = n
        /\ Head(queue).sock \in Sockets
    BY <2>2, TailQueue
  <2>4. orphan \in Sockets /\ orphan # NoSocket /\ connection = NoSocket
    BY <1>3, <2>3, ConnectorAssumption DEF NoSocket, ConnectionAlone
  <2>5. /\ QueueOK(queue') /\ Len(queue') = Len(Tail(queue)) + 1
        /\ \A n : Has(queue', n) <=> Has(Tail(queue), n) \/ n = "connectDestroyed"
        /\ \A k \in Nat : ResetWithin(Tail(queue), k) => ResetWithin(queue', k)
        /\ connection' = NoSocket /\ orphan' = NoSocket
        /\ leaving' => leaving \/ orphan = connection
        /\ OwnedOnce'
        /\ UNCHANGED <<state, wanted, channel, registered, retryDelayMs, retryTimers, client,
                       open, misused>>
    BY <2>1, <2>3, <2>4, RemoveFacts
  <2>6. /\ Has(queue', "startInLoop") <=> Has(queue, "startInLoop")
        /\ Has(queue', "resetChannel") <=> Has(queue, "resetChannel")
        /\ left' <= Len(queue') /\ ~leaving'
        /\ state = "kConnected" => ResetWithin(queue', left')
    BY <2>2, <2>3, <2>4, <2>5
  <2>7. ConnTypes' /\ StartAlone' /\ TimerAlone' /\ AttemptAlone' /\ ConnectionAlone'
    BY <2>2, <2>5, <2>6 DEF ConnTypes, StartAlone, TimerAlone, AttemptAlone, ConnectionAlone
  <2>8. ResetBeforePoll' /\ BatchInQueue' /\ EventsFit' /\ DestroyedIsQuiet'
    BY <2>2, <2>5, <2>6 DEF ResetBeforePoll, BatchInQueue, EventsFit, DestroyedIsQuiet
  <2> QED BY <2>5, <2>7, <2>8
<1> QED BY <1>2, <1>3

\* connectDestroyed closes a socket that nothing else owns.
LEMMA RunConnectDestroyedInv ==
  ASSUME ConnInv, RunConnectDestroyed
  PROVE  ConnInv'
<1> USE DEF ConnInv
<1>1. /\ Running("connectDestroyed") /\ queue' = Tail(queue) /\ open' = open \ {Head(queue).sock}
      /\ UNCHANGED <<state, wanted, channel, registered, retryDelayMs, retryTimers, connection,
                     client, orphan, leaving, misused>>
  BY DEF RunConnectDestroyed, connectorVars, clientVars
<1>2. /\ phase = "functors" /\ ~leaving /\ polled = {} /\ phase' = phase /\ polled' = polled
      /\ queue # <<>> /\ QueueOK(queue) /\ Head(queue).call = "connectDestroyed"
      /\ left' \in Nat /\ left' <= Len(queue')
      /\ state = "kConnected" => ResetWithin(queue', left')
  BY <1>1, RunningFacts
<1>3. /\ QueueOK(queue')
      /\ Has(queue', "startInLoop") => Has(queue, "startInLoop")
      /\ Has(queue', "resetChannel") <=> Has(queue, "resetChannel")
      /\ Head(queue).sock \in Doomed(queue) /\ Doomed(queue') = Doomed(queue) \ {Head(queue).sock}
  BY <1>1, <1>2, TailQueue
<1>4. ConnTypes' /\ StartAlone' /\ TimerAlone' /\ AttemptAlone' /\ ConnectionAlone'
  BY <1>1, <1>2, <1>3 DEF ConnTypes, StartAlone, TimerAlone, AttemptAlone, ConnectionAlone
<1>5. ResetBeforePoll' /\ BatchInQueue' /\ EventsFit' /\ DestroyedIsQuiet'
  BY <1>1, <1>2 DEF ResetBeforePoll, BatchInQueue, EventsFit, DestroyedIsQuiet
<1>6. OwnedOnce'
  BY <1>1, <1>3 DEF OwnedOnce
<1> QED BY <1>1, <1>4, <1>5, <1>6

-----------------------------------------------------------------------------
(* The connector of a destroyed client *)

\* Nothing will call the connector but its retry timers: no channel, no functor.
Idle(q) == ~Has(q, "startInLoop") /\ ~Has(q, "stopInLoop") /\ ~Has(q, "resetChannel")
Quiet == channel = NoSocket /\ Idle(queue)

\* An attempt of a destroyed client is about to be stopped.
AttemptIsStopped == ~wanted /\ (state = "kConnecting" => Has(queue, "stopInLoop"))

\* Unless the client was destroyed with its connection while its connector was
\* at work, the connector is kept until that work is done: the attempt is given
\* up, and the timer that lets the connector go is late enough.
WorkIsKept ==
  /\ hasty => client = "destroyed"
  /\ kept => client = "destroyed" /\ ~hasty /\ AttemptIsStopped
  /\ client = "destroyed" /\ ~hasty => kept \/ Quiet
  /\ "release" \in polled => kept /\ Quiet

\* What a step of a client that is already destroyed has to see to: the work
\* of its connector does not grow.
LEMMA WorkDone ==
  ASSUME ConnInv, WorkIsKept, UNCHANGED <<client, kept, hasty>>,
         "release" \in polled' => "release" \in polled,
         client = "destroyed" /\ Quiet => Quiet',
         client = "destroyed" /\ AttemptIsStopped => AttemptIsStopped'
  PROVE  WorkIsKept'
  BY DEF WorkIsKept

\* So it is where what the connector has to do stays as it is, ...
LEMMA WorkUntouched ==
  ASSUME ConnInv, WorkIsKept,
         UNCHANGED <<client, kept, hasty, wanted, channel, queue>>,
         state' = "kConnecting" => state = "kConnecting",
         "release" \in polled' => "release" \in polled
  PROVE  WorkIsKept'
<1>1. client = "destroyed" /\ Quiet => Quiet'
  BY DEF Quiet, Idle, Has
<1>2. client = "destroyed" /\ AttemptIsStopped => AttemptIsStopped'
  BY DEF AttemptIsStopped, Has
<1> QED BY <1>1, <1>2, WorkDone

\* ... and where it alone is stopped.
LEMMA WorkStopped ==
  ASSUME ConnInv, WorkIsKept, UNCHANGED <<client, kept, hasty, wanted, channel>>,
         state' # "kConnecting",
         channel = NoSocket /\ Idle(queue) => Idle(queue'),
         "release" \in polled' => "release" \in polled
  PROVE  WorkIsKept'
<1>1. client = "destroyed" /\ Quiet => Quiet'
  BY DEF Quiet, Idle, Has
<1>2. client = "destroyed" /\ AttemptIsStopped => AttemptIsStopped'
  BY DEF AttemptIsStopped, Has
<1> QED BY <1>1, <1>2, WorkDone

\* An attempt has a channel, and what was destroyed wants none.
LEMMA WorkFacts ==
  ASSUME ConnInv
  PROVE  /\ state = "kConnecting" => channel # NoSocket
         /\ client = "destroyed" /\ state # "kConnected" => ~wanted
         /\ connection # NoSocket \/ leaving => client = "used"
         /\ QueueOK(queue)
  BY DEF ConnInv, ConnTypes, AttemptAlone, ConnectionAlone, DestroyedIsQuiet

\* connect() and stop() are calls of a living client.
LEMMA CallsWork ==
  ASSUME ConnInv, WorkIsKept, CallStop \/ \E r \in BOOLEAN : CallConnect(r)
  PROVE  WorkIsKept'
<1>1. client # "destroyed" /\ client' = "used" /\ UNCHANGED <<kept, hasty, polled>>
  BY DEF CallStop, CallConnect
<1> QED BY <1>1 DEF WorkIsKept

\* ~TcpClient.
LEMMA DestroyWork ==
  ASSUME ConnInv, WorkIsKept, NEW u \in BOOLEAN, Destroy(u)
  PROVE  WorkIsKept'
<1>1. /\ client = "used" /\ client' = "destroyed"
      /\ UNCHANGED <<state, channel, polled>> /\ ~hasty /\ ~kept
  BY DEF Destroy, WorkIsKept
<1>2. "release" \notin polled'
  BY <1>1 DEF WorkIsKept
<1>3. CASE connection # NoSocket
  <2>1. hasty' = AtWork /\ ~kept' /\ connection \in Sockets
        /\ (queue' = queue \/ queue' = Append(queue, F("forceCloseInLoop", connection)))
    BY <1>1, <1>3 DEF Destroy, ConnInv, ConnTypes
  <2>2. ~AtWork => Quiet
    BY QueuedHas DEF AtWork, Quiet, Idle
  <2>3. Idle(queue) => Idle(queue')
    <3>1. CASE queue' = queue
      BY <3>1 DEF Idle, Has
    <3>2. CASE queue' = Append(queue, F("forceCloseInLoop", connection))
      <4>1. /\ F("forceCloseInLoop", connection) \in Functor
            /\ F("forceCloseInLoop", connection).call = "forceCloseInLoop"
            /\ F("forceCloseInLoop", connection).sock \in Sockets
        BY <2>1, FunctorFacts DEF Calls
      <4>2. \A n : Has(queue', n) <=> Has(queue, n) \/ n = "forceCloseInLoop"
        BY <3>2, <4>1, AppendQueue, WorkFacts
      <4> QED BY <4>2 DEF Idle
    <3> QED BY <2>1, <3>1, <3>2
  <2>4. Quiet => Quiet'
    BY <1>1, <2>3 DEF Quiet, Idle, Has
  <2> QED BY <1>1, <1>2, <2>1, <2>2, <2>4, Zenon DEF WorkIsKept
<1>4. CASE connection = NoSocket
  <2>1. /\ ~wanted' /\ kept' /\ hasty' = hasty
        /\ queue' = Append(queue, F("stopInLoop", NoSocket))
    BY <1>4 DEF Destroy
  <2>2. /\ F("stopInLoop", NoSocket) \in Functor
        /\ F("stopInLoop", NoSocket).call = "stopInLoop"
    BY FunctorFacts DEF Calls
  <2>3. Has(queue', "stopInLoop")
    BY <2>1, <2>2, AppendQueue, WorkFacts
  <2>4. AttemptIsStopped'
    BY <2>1, <2>3 DEF AttemptIsStopped, Has
  <2> QED BY <1>1, <1>2, <2>1, <2>4 DEF WorkIsKept
<1> QED BY <1>3, <1>4

\* The removal timer is due only when nothing queued with it is left.
LEMMA PollWork ==
  ASSUME ConnInv, WorkIsKept, NEW ev \in Reported, Poll(ev)
  PROVE  WorkIsKept'
<1>1. /\ polled' = ev
      /\ UNCHANGED <<state, wanted, channel, client, kept, hasty, queue>>
  BY DEF Poll, connectorVars, clientVars
<1>2. "release" \in ev => kept /\ Idle(queue)
  BY QueuedHas DEF Poll, Idle
<1>3. "release" \in ev => Quiet
  BY <1>2 DEF WorkIsKept, AttemptIsStopped, Quiet, Idle, ConnInv, ConnTypes, AttemptAlone
<1>4. Quiet' = Quiet /\ AttemptIsStopped' = AttemptIsStopped
  BY <1>1 DEF Quiet, Idle, Has, AttemptIsStopped
<1> QED BY <1>1, <1>2, <1>3, <1>4 DEF WorkIsKept

\* A retry timer finds a connector that no longer wants to connect.
LEMMA TimerFiresWork ==
  ASSUME ConnInv, WorkIsKept, NEW i \in DOMAIN retryTimers, TimerFires(i)
  PROVE  WorkIsKept'
<1>1. /\ "timer" \in polled /\ polled' = polled \ {"timer"}
      /\ StartInLoop(RemoveAt(retryTimers, i)) /\ UNCHANGED <<queue, hasty>>
  BY DEF TimerFires
<1>2. state = "kDisconnected"
  BY <1>1 DEF ConnInv, EventsFit, TimerAlone
<1>3. UNCHANGED <<client, kept, wanted>>
  BY <1>1 DEF StartInLoop, clientVars
<1>4. client = "destroyed" => UNCHANGED <<state, channel>>
  BY <1>1, <1>2, WorkFacts DEF StartInLoop, StartWanted
<1>5. client = "destroyed" /\ Quiet => Quiet'
  BY <1>1, <1>4 DEF Quiet, Idle, Has
<1>6. client = "destroyed" /\ AttemptIsStopped => AttemptIsStopped'
  BY <1>1, <1>3, <1>4 DEF AttemptIsStopped, Has
<1>7. "release" \in polled' => "release" \in polled
  BY <1>1
<1> QED BY <1>1, <1>3, <1>5, <1>6, <1>7, WorkDone

\* removeConnector: by then the connector is idle.
LEMMA RemoveConnectorWork ==
  ASSUME ConnInv, WorkIsKept, RemoveConnector
  PROVE  WorkIsKept'
<1>1. /\ "release" \in polled /\ polled' = polled \ {"release"} /\ ~kept'
      /\ UNCHANGED <<channel, client, hasty, queue>>
  BY DEF RemoveConnector, connectorVars
<1>2. Quiet' = Quiet
  BY <1>1 DEF Quiet, Idle, Has
<1> QED BY <1>1, <1>2 DEF WorkIsKept

\* handleWrite and handleError end an attempt.
LEMMA HandlersWork ==
  ASSUME ConnInv, WorkIsKept, HandleWrite \/ HandleError
  PROVE  WorkIsKept'
<1>1. /\ UNCHANGED <<wanted, channel, client, kept, hasty>> /\ polled' \subseteq polled
      /\ state = "kConnecting" => state' # "kConnecting"
      /\ state # "kConnecting" => UNCHANGED <<state, queue>>
  BY DEF HandleWrite, HandleError, clientVars, Retry
<1>2. CASE state = "kConnecting"
  BY <1>1, <1>2, WorkStopped, WorkFacts
<1>3. CASE state # "kConnecting"
  BY <1>1, <1>3, WorkUntouched
<1> QED BY <1>2, <1>3

\* The close of a connection gives the connector nothing to do, but for restart().
LEMMA RemoveConnectionWork ==
  ASSUME ConnInv, WorkIsKept, NEW sock \in Sockets, NEW q, QueueOK(q),
         sock = connection \/ (connection = NoSocket /\ sock = orphan),
         Doomed(q) = Doomed(queue), Idle(queue) => Idle(q), state # "kConnecting",
         RemoveConnection(sock, q), polled' \subseteq polled
  PROVE  WorkIsKept'
<1>1. UNCHANGED <<state, wanted, channel, client, kept, hasty>>
  BY DEF RemoveConnection, connectorVars
<1>2. \A n : Has(queue', n) <=> Has(q, n) \/ n = "connectDestroyed"
  BY RemoveFacts
<1>3. Idle(queue) => Idle(queue')
  BY <1>2 DEF Idle
<1> QED BY <1>1, <1>3, WorkStopped

LEMMA HandleCloseWork ==
  ASSUME ConnInv, WorkIsKept, HandleClose
  PROVE  WorkIsKept'
<1> DEFINE sock == IF connection # NoSocket THEN connection ELSE orphan
<1>1. "close" \in polled /\ polled' = polled \ {"close"}
  BY DEF HandleClose
<1>2. /\ connection # NoSocket \/ orphan # NoSocket
      /\ state = "kConnected"
  BY <1>1 DEF ConnInv, EventsFit, ConnectionAlone
<1>3. RemoveConnection(sock, queue)
  BY <1>2 DEF HandleClose
<1>4. /\ sock \in Sockets
      /\ sock = connection \/ (connection = NoSocket /\ sock = orphan)
  BY <1>2 DEF ConnInv, ConnTypes
<1> HIDE DEF sock
<1>5. polled' \subseteq polled /\ state # "kConnecting"
  BY <1>1, <1>2
<1> QED BY <1>3, <1>4, <1>5, WorkFacts, RemoveConnectionWork

\* restart() is called for a client that lives.
LEMMA RestartWork ==
  ASSUME ConnInv, WorkIsKept, Restart
  PROVE  WorkIsKept'
<1>1. leaving /\ UNCHANGED <<client, kept, hasty, polled>>
  BY DEF Restart, clientVars
<1>2. client = "used"
  BY <1>1, WorkFacts
<1> QED BY <1>1, <1>2 DEF WorkIsKept

\* The functors: what the connector has to do gets less.
LEMMA FunctorsWork ==
  ASSUME ConnInv, WorkIsKept, Functors
  PROVE  WorkIsKept'
<1>1. CASE SwapFunctors \/ BatchDone
  <2>1. UNCHANGED <<client, kept, hasty, wanted, channel, queue, state, polled>>
    BY <1>1 DEF SwapFunctors, BatchDone, connectorVars, clientVars
  <2> QED BY <2>1, WorkUntouched
<1>2. ASSUME NEW n, Running(n)
      PROVE  /\ QueueOK(queue) /\ QueueOK(Tail(queue)) /\ Head(queue).call = n
             /\ polled' = polled /\ polled = {}
             /\ \A m : Has(queue, m) <=> Has(Tail(queue), m) \/ n = m
             /\ n \in {"forceCloseInLoop", "connectDestroyed"} => Head(queue).sock \in Sockets
             /\ n # "connectDestroyed" => Doomed(Tail(queue)) = Doomed(queue)
  <2>1. /\ QueueOK(queue) /\ queue # <<>> /\ Head(queue).call = n
        /\ polled' = polled /\ polled = {}
    BY <1>2, RunningFacts
  <2> QED BY <2>1, TailQueue
<1>3. CASE RunStart
  <2>1. /\ Running("startInLoop") /\ queue' = Tail(queue) /\ StartInLoop(retryTimers)
        /\ hasty' = hasty
    BY <1>3 DEF RunStart
  <2>2. \A m : Has(queue, m) <=> Has(Tail(queue), m) \/ "startInLoop" = m
    BY <1>2, <2>1
  <2>3. state = "kDisconnected" /\ polled' = polled
    BY <1>2, <2>1, <2>2 DEF ConnInv, StartAlone
  <2>4. UNCHANGED <<client, kept, wanted>>
    BY <2>1 DEF StartInLoop, clientVars
  <2>5. client = "destroyed" => UNCHANGED <<state, channel>>
    BY <2>1, <2>3, WorkFacts DEF StartInLoop, StartWanted
  <2>6. client = "destroyed" /\ Quiet => Quiet'
    BY <2>2 DEF Quiet, Idle
  <2>7. client = "destroyed" /\ AttemptIsStopped => AttemptIsStopped'
    BY <2>3, <2>4, <2>5 DEF AttemptIsStopped
  <2> QED BY <2>1, <2>3, <2>4, <2>6, <2>7, WorkDone
<1>4. CASE RunStop
  <2>1. /\ Running("stopInLoop") /\ UNCHANGED <<wanted, channel, client, kept, hasty>>
        /\ state' # "kConnecting"
    BY <1>4 DEF RunStop, clientVars, Retry
  <2>2. Has(queue, "stopInLoop") /\ polled' = polled
    BY <1>2, <2>1
  <2> QED BY <2>1, <2>2, WorkStopped DEF Idle
<1>5. CASE RunResetChannel
  <2>1. /\ Running("resetChannel") /\ queue' = Tail(queue)
        /\ UNCHANGED <<state, wanted, client, kept, hasty>>
    BY <1>5 DEF RunResetChannel, clientVars
  <2>2. \A m : Has(queue, m) <=> Has(queue', m) \/ "resetChannel" = m
    BY <1>2, <2>1
  <2>3. polled' = polled
    BY <1>2, <2>1
  <2>4. client = "destroyed" /\ Quiet => Quiet'
    BY <2>2 DEF Quiet, Idle
  <2>5. client = "destroyed" /\ AttemptIsStopped => AttemptIsStopped'
    BY <2>1, <2>2 DEF AttemptIsStopped
  <2> QED BY <2>1, <2>3, <2>4, <2>5, WorkDone
<1>6. CASE RunForceClose
  <2>1. Running("forceCloseInLoop")
    BY <1>6 DEF RunForceClose
  <2>2. /\ QueueOK(Tail(queue)) /\ Doomed(Tail(queue)) = Doomed(queue)
        /\ Head(queue).sock \in Sockets /\ polled' = polled /\ polled = {}
        /\ \A m : Has(queue, m) <=> Has(Tail(queue), m) \/ "forceCloseInLoop" = m
    BY <1>2, <2>1
  <2>3. CASE orphan = Head(queue).sock
    <3>1. RemoveConnection(orphan, Tail(queue))
      BY <1>6, <2>3 DEF RunForceClose
    <3>2. orphan \in Sockets /\ orphan # NoSocket
      BY <2>2, <2>3, ConnectorAssumption DEF NoSocket
    <3>3. connection = NoSocket /\ state # "kConnecting"
      BY <3>2 DEF ConnInv, ConnectionAlone
    <3>4. Idle(queue) => Idle(Tail(queue))
      BY <2>2 DEF Idle
    <3> QED BY <2>2, <3>1, <3>2, <3>3, <3>4, RemoveConnectionWork
  <2>4. CASE orphan # Head(queue).sock
    <3>1. /\ queue' = Tail(queue)
          /\ UNCHANGED <<state, channel, wanted, client, kept, hasty>>
      BY <1>6, <2>4 DEF RunForceClose, connectorVars, clientVars
    <3>2. client = "destroyed" /\ Quiet => Quiet'
      BY <2>2, <3>1 DEF Quiet, Idle
    <3>3. client = "destroyed" /\ AttemptIsStopped => AttemptIsStopped'
      BY <2>2, <3>1 DEF AttemptIsStopped
    <3> QED BY <2>2, <3>1, <3>2, <3>3, WorkDone
  <2> QED BY <2>3, <2>4
<1>7. CASE RunConnectDestroyed
  <2>1. /\ Running("connectDestroyed") /\ queue' = Tail(queue)
        /\ UNCHANGED <<state, channel, wanted, client, kept, hasty>>
    BY <1>7 DEF RunConnectDestroyed, connectorVars, clientVars
  <2>2. /\ polled' = polled
        /\ \A m : Has(queue, m) <=> Has(Tail(queue), m) \/ "connectDestroyed" = m
    BY <1>2, <2>1
  <2>3. client = "destroyed" /\ Quiet => Quiet'
    BY <2>1, <2>2 DEF Quiet, Idle
  <2>4. client = "destroyed" /\ AttemptIsStopped => AttemptIsStopped'
    BY <2>1, <2>2 DEF AttemptIsStopped
  <2> QED BY <2>1, <2>2, <2>3, <2>4, WorkDone
<1> QED BY <1>1, <1>3, <1>4, <1>5, <1>6, <1>7 DEF Functors

\* Every step keeps it.
LEMMA WorkNext == ConnInv /\ WorkIsKept /\ [ConnNext]_connVars => WorkIsKept'
<1> SUFFICES ASSUME ConnInv, WorkIsKept, [ConnNext]_connVars PROVE WorkIsKept'
  OBVIOUS
<1>1. CASE ClientCalls
  <2>1. CASE CallDisconnect
    <3>1. UNCHANGED <<client, kept, hasty, wanted, channel, queue, state, polled>>
      BY <2>1 DEF CallDisconnect, connectorVars, connLoopVars
    <3> QED BY <3>1, WorkUntouched
  <2> QED BY <1>1, <2>1, CallsWork, DestroyWork DEF ClientCalls
<1>2. CASE PollReturns
  BY <1>2, PollWork DEF PollReturns
<1>3. CASE Handlers
  BY <1>3, TimerFiresWork, RemoveConnectorWork, HandlersWork, HandleCloseWork, RestartWork
  DEF Handlers
<1>4. CASE Functors
  BY <1>4, FunctorsWork
<1>5. CASE UNCHANGED connVars
  <2>1. UNCHANGED <<client, kept, hasty, wanted, channel, queue, state, polled>>
    BY <1>5 DEF connVars, connectorVars, clientVars, connLoopVars
  <2> QED BY <2>1, WorkUntouched
<1> QED BY <1>1, <1>2, <1>3, <1>4, <1>5 DEF ConnNext

\* A new client keeps its connector itself.
LEMMA WorkInit == ConnInit => WorkIsKept
  BY DEF ConnInit, WorkIsKept

-----------------------------------------------------------------------------
(* The theorems *)

\* A client that was just made has done nothing.
LEMMA ConnInitInv == ConnInit => ConnInv
<1> SUFFICES ASSUME ConnInit PROVE ConnInv
  OBVIOUS
<1> USE DEF ConnInit
<1>1. /\ QueueOK(queue) /\ \A n : ~Has(queue, n)
      /\ Doomed(queue) = {}
  BY DEF QueueOK, Has, Doomed
<1>2. ConnTypes
  BY <1>1, ConnectorAssumption DEF ConnTypes
<1>3. ~registered /\ ~leaving /\ ~misused
  BY Zenon
<1>4. StartAlone /\ TimerAlone /\ AttemptAlone /\ ConnectionAlone
  BY <1>1, <1>3 DEF StartAlone, TimerAlone, AttemptAlone, ConnectionAlone
<1>5. ResetBeforePoll /\ BatchInQueue /\ EventsFit /\ DestroyedIsQuiet /\ OwnedOnce
  BY <1>1, <1>3 DEF ResetBeforePoll, BatchInQueue, EventsFit, DestroyedIsQuiet, OwnedOnce
<1> QED BY <1>2, <1>3, <1>4, <1>5 DEF ConnInv

\* Every step keeps the invariant.
LEMMA ConnNextInv == ConnInv /\ [ConnNext]_connVars => ConnInv'
<1> SUFFICES ASSUME ConnInv, [ConnNext]_connVars PROVE ConnInv'
  OBVIOUS
<1>1. CASE \E r \in BOOLEAN : CallConnect(r)
  BY <1>1, CallConnectInv
<1>2. CASE CallStop
  BY <1>2, CallStopInv
<1>3. CASE \E u \in BOOLEAN : Destroy(u)
  BY <1>3, DestroyInv
<1>4. CASE PollReturns
  BY <1>4, PollInv DEF PollReturns
<1>5. CASE Handlers
  BY <1>5, TimerFiresInv, RemoveConnectorInv, HandleWriteInv, HandleErrorInv, HandleCloseInv,
     RestartInv
  DEF Handlers
<1>6. CASE Functors
  BY <1>6, SwapFunctorsInv, BatchDoneInv, RunStartInv, RunStopInv, RunResetChannelInv,
     RunForceCloseInv, RunConnectDestroyedInv DEF Functors
<1>7. CASE CallDisconnect \/ UNCHANGED connVars
  <2>1. UNCHANGED <<state, wanted, channel, registered, retryDelayMs, retryTimers, connection,
                    client, orphan, open, phase, polled, queue, left, leaving, misused>>
    BY <1>7 DEF CallDisconnect, connVars, connectorVars, clientVars, connLoopVars
  <2>2. ConnTypes' /\ StartAlone' /\ TimerAlone' /\ AttemptAlone' /\ ConnectionAlone'
    BY <2>1 DEF ConnInv, ConnTypes, StartAlone, TimerAlone, AttemptAlone, ConnectionAlone
  <2>3. ResetBeforePoll' /\ BatchInQueue' /\ EventsFit' /\ DestroyedIsQuiet' /\ OwnedOnce'
    BY <2>1 DEF ConnInv, ResetBeforePoll, BatchInQueue, EventsFit, DestroyedIsQuiet, OwnedOnce
  <2> QED BY <2>1, <2>2, <2>3 DEF ConnInv
<1> QED BY <1>1, <1>2, <1>3, <1>4, <1>5, <1>6, <1>7 DEF ConnNext, ClientCalls

\* TcpClient and Connector, in whatever order retries, closes, stop(), restart()
\* and the destructor come: attempts do not overlap, a channel is gone before the
\* next and before its connector, and neither a dead connector nor a destroyed
\* client is called, unless the client was destroyed with its connection while
\* its connector was still at work; and every open descriptor belongs to the
\* attempt, to the connection or to a connection about to be destroyed.
THEOREM ConnectorAlwaysSound == ConnSpec => []ConnectorSound
<1>1. ConnInv /\ WorkIsKept => ConnectorSound
  <2> SUFFICES ASSUME ConnInv, WorkIsKept PROVE ConnectorSound
    OBVIOUS
  <2>1. AtWork <=> ~Quiet
    BY QueuedHas DEF AtWork, Quiet, Idle
  <2>2. AssertionsHold
    BY <2>1 DEF ConnInv, WorkIsKept, AssertionsHold, ClientFailed, ConnectorGone
  <2>3. SocketsOwned
    BY QueuedHas DEF ConnInv, OwnedOnce, SocketsOwned
  <2> QED BY <2>2, <2>3 DEF ConnectorSound
<1> QED BY <1>1, ConnInitInv, ConnNextInv, WorkInit, WorkNext, PTL DEF ConnSpec
=============================================================================
