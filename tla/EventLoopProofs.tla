-------------------------- MODULE EventLoopProofs --------------------------
(***************************************************************************)
(* Proofs about EventLoop for any number of threads and functors, and about *)
(* its pollers for any set of descriptors.                                 *)
(*                                                                         *)
(* NoLostWakeup speaks of a blocked poll only.  What makes it inductive is *)
(* that it already holds from the swap on: between the swap and the next   *)
(* handleRead nobody resets the eventfd, and every push in between, from   *)
(* another thread or from a functor, brings its own wakeup.                *)
(*                                                                         *)
(* The pollers need that a channel's index_ finds its own entry, also      *)
(* after removeChannel has moved the last entry into a gap.                *)
(***************************************************************************)
EXTENDS EventLoop, Poller, SequenceTheorems, TLAPS

\* Before the loop starts, and from the swap to the end of the poll, a queued
\* functor has its wakeup.
WakeupUnderWay ==
  (phase \in {"new", "functors", "check", "poll"} /\ pending # <<>>) =>
    readable \/ \E t \in Threads : pc[t] = "pushed"

\* The flag is up exactly while doPendingFunctors runs.
CallingMeansFunctors == calling <=> phase \in {"swap", "functors"}

WakeupInv == TypeOK /\ CallingMeansFunctors /\ WakeupUnderWay /\ NoLostQuit

-----------------------------------------------------------------------------

\* Every step keeps the types.
LEMMA TypeStep == TypeOK /\ [Next]_vars => TypeOK'
<1> SUFFICES ASSUME TypeOK, [Next]_vars PROVE TypeOK'
  OBVIOUS
<1>0. Count \in Nat
  BY DEF TypeOK, Count
<1>q. ASSUME LoopThreadQueues PROVE pending' \in Seq(Nat) /\ readable' \in BOOLEAN /\ quit' \in BOOLEAN
  BY <1>0, <1>q DEF LoopThreadQueues, TypeOK
<1>c. ASSUME Callback PROVE pending' \in Seq(Nat) /\ readable' \in BOOLEAN /\ quit' \in BOOLEAN
  BY <1>q, <1>c DEF Callback, LoopThreadQuits, TypeOK
<1>1. ASSUME NEW t \in Threads, QueueInLoop(t) PROVE TypeOK'
  BY <1>0, <1>1 DEF QueueInLoop, TypeOK, loopVars
<1>2. ASSUME NEW t \in Threads, Quit(t) PROVE TypeOK'
  BY <1>2 DEF Quit, TypeOK, loopVars
<1>3. ASSUME NEW t \in Threads, Wakeup(t) PROVE TypeOK'
  BY <1>3 DEF Wakeup, TypeOK, loopVars
<1>4. CASE Loop
  BY <1>4 DEF Loop, TypeOK, Phases
<1>5. CASE CheckQuit
  BY <1>5 DEF CheckQuit, TypeOK, Phases
<1>6. ASSUME NEW others \in {{}, {"io"}}, PollReturn(others) PROVE TypeOK'
  BY <1>6 DEF PollReturn, TypeOK, Phases
<1>7. CASE HandleRead
  BY <1>7 DEF HandleRead, TypeOK
<1>8. CASE HandleEvent
  BY <1>8, <1>c DEF HandleEvent, TypeOK
<1>9. CASE EventsDone
  BY <1>9 DEF EventsDone, TypeOK, Phases
<1>10. CASE SwapPending
  BY <1>10 DEF SwapPending, TypeOK, Phases
<1>11. CASE CallFunctor
  <2>1. Head(functors) \in Nat /\ Tail(functors) \in Seq(Nat)
    BY <1>11 DEF CallFunctor, TypeOK
  <2>2. ran' \in Seq(Nat) /\ functors' \in Seq(Nat)
    BY <2>1, <1>11 DEF CallFunctor, TypeOK
  <2> QED
    BY <2>2, <1>11, <1>c DEF CallFunctor, TypeOK
<1>12. CASE FunctorsDone
  BY <1>12 DEF FunctorsDone, TypeOK, Phases
<1>13. CASE UNCHANGED vars
  BY <1>13 DEF vars, TypeOK
<1> QED
  BY <1>1, <1>2, <1>3, <1>4, <1>5, <1>6, <1>7, <1>8, <1>9, <1>10, <1>11, <1>12, <1>13
     DEF Next, LoopThread

\* Every step keeps the wakeup invariant.
LEMMA WakeupStep == WakeupInv /\ [Next]_vars => WakeupInv'
<1> SUFFICES ASSUME WakeupInv, [Next]_vars PROVE WakeupInv'
  OBVIOUS
<1>0. TypeOK'
  BY TypeStep DEF WakeupInv
<1> USE DEF WakeupInv, CallingMeansFunctors, WakeupUnderWay, NoLostQuit
<1>1. ASSUME NEW t \in Threads, QueueInLoop(t) PROVE WakeupInv'
  BY <1>0, <1>1 DEF QueueInLoop, TypeOK, loopVars
<1>2. ASSUME NEW t \in Threads, Quit(t) PROVE WakeupInv'
  BY <1>0, <1>2 DEF Quit, TypeOK, loopVars
<1>3. ASSUME NEW t \in Threads, Wakeup(t) PROVE WakeupInv'
  BY <1>0, <1>3 DEF Wakeup, TypeOK, loopVars
<1>4. CASE Loop
  BY <1>0, <1>4 DEF Loop, TypeOK
<1>5. CASE CheckQuit
  BY <1>0, <1>5 DEF CheckQuit, TypeOK
<1>6. ASSUME NEW others \in {{}, {"io"}}, PollReturn(others) PROVE WakeupInv'
  BY <1>0, <1>6 DEF PollReturn, TypeOK
<1>7. CASE HandleRead
  BY <1>0, <1>7 DEF HandleRead, TypeOK
<1>8. CASE HandleEvent
  BY <1>0, <1>8 DEF HandleEvent, TypeOK
<1>9. CASE EventsDone
  BY <1>0, <1>9 DEF EventsDone, TypeOK
<1>10. CASE SwapPending
  BY <1>0, <1>10 DEF SwapPending, TypeOK
<1>11. CASE CallFunctor
  BY <1>0, <1>11 DEF CallFunctor, Callback, LoopThreadQueues, LoopThreadQuits, TypeOK
<1>12. CASE FunctorsDone
  BY <1>0, <1>12 DEF FunctorsDone, TypeOK
<1>13. CASE UNCHANGED vars
  BY <1>0, <1>13 DEF vars, TypeOK
<1> QED
  BY <1>1, <1>2, <1>3, <1>4, <1>5, <1>6, <1>7, <1>8, <1>9, <1>10, <1>11, <1>12, <1>13
     DEF Next, LoopThread

\* The wakeup invariant holds initially.
LEMMA InitWakeup == Init => WakeupInv
<1> SUFFICES ASSUME Init PROVE WakeupInv
  OBVIOUS
<1>1. quit \in BOOLEAN /\ readable \in BOOLEAN /\ calling \in BOOLEAN
  BY Zenon DEF Init
<1>2. pending \in Seq(Nat) /\ functors \in Seq(Nat) /\ ran \in Seq(Nat)
  BY EmptySeq DEF Init
<1>3. pc \in [Threads -> {"idle", "pushed", "quitSet"}]
  BY DEF Init
<1>4. phase \in Phases /\ active \subseteq {"wakeup", "io"}
  BY DEF Init, Phases
<1>5. TypeOK
  BY <1>1, <1>2, <1>3, <1>4 DEF TypeOK
<1>6. CallingMeansFunctors /\ WakeupUnderWay /\ NoLostQuit
  BY DEF Init, CallingMeansFunctors, WakeupUnderWay, NoLostQuit
<1> QED
  BY <1>5, <1>6 DEF WakeupInv

\* The wakeup invariant holds in every reachable state.
THEOREM WakeupInvariant == Spec => []WakeupInv
<1> QED
  BY InitWakeup, WakeupStep, PTL DEF Spec

\* The loop's fields and the callers keep their types.
THEOREM TypeCorrect == Spec => []TypeOK
<1>1. WakeupInv => TypeOK
  BY DEF WakeupInv
<1> QED
  BY <1>1, WakeupInvariant, PTL

\* queueInLoop never leaves the loop blocked over a functor without a wakeup.
THEOREM WakeupsNeverLost == Spec => []NoLostWakeup
<1>1. WakeupInv => NoLostWakeup
  BY DEF WakeupInv, WakeupUnderWay, NoLostWakeup
<1> QED
  BY <1>1, WakeupInvariant, PTL

\* quit() never leaves the loop blocked in the poll without a wakeup.
THEOREM QuitsNeverLost == Spec => []NoLostQuit
<1>1. WakeupInv => NoLostQuit
  BY DEF WakeupInv
<1> QED
  BY <1>1, WakeupInvariant, PTL

-----------------------------------------------------------------------------
(* Order: the numbers of the three sequences, position by position.        *)

Numbered ==
  /\ \A i \in 1..Len(ran) : ran[i] = i
  /\ \A i \in 1..Len(functors) : functors[i] = Len(ran) + i
  /\ \A i \in 1..Len(pending) : pending[i] = Len(ran) + Len(functors) + i

\* Outside the batch loop no functor is left over for the swap to drop.
BatchEmpty == phase # "functors" => functors = <<>>

OrderInv == TypeOK /\ BatchEmpty /\ Numbered

\* A push by any thread keeps the numbers.
LEMMA PushNumbered ==
  ASSUME TypeOK, Numbered, pending' = Append(pending, Count + 1),
         UNCHANGED <<functors, ran>>
  PROVE  Numbered'
<1>1. Len(ran) \in Nat /\ Len(functors) \in Nat /\ Len(pending) \in Nat /\ Count \in Nat
  BY DEF TypeOK, Count
<1>2. /\ Len(pending') = Len(pending) + 1
      /\ \A i \in 1..Len(pending) : pending'[i] = pending[i]
      /\ pending'[Len(pending) + 1] = Count + 1
  BY <1>1, AppendProperties DEF TypeOK
<1>3. ASSUME NEW i \in 1..Len(pending')
      PROVE  pending'[i] = Len(ran) + Len(functors) + i
  <2>1. CASE i = Len(pending) + 1
    BY <1>1, <1>2, <2>1 DEF Count
  <2>2. CASE i \in 1..Len(pending)
    BY <1>1, <1>2, <2>2 DEF Numbered
  <2> QED
    BY <1>1, <1>2, <2>1, <2>2
<1> QED
  BY <1>3 DEF Numbered

\* Every step keeps the order invariant.
LEMMA OrderStep == OrderInv /\ [Next]_vars => OrderInv'
<1> SUFFICES ASSUME OrderInv, [Next]_vars PROVE OrderInv'
  OBVIOUS
<1>0. TypeOK'
  BY TypeStep DEF OrderInv
<1> USE DEF OrderInv
<1>1. ASSUME NEW t \in Threads, QueueInLoop(t) PROVE OrderInv'
  BY <1>0, <1>1, PushNumbered DEF QueueInLoop, loopVars, BatchEmpty
<1>2. ASSUME NEW t \in Threads, Quit(t) \/ Wakeup(t) PROVE OrderInv'
  BY <1>0, <1>2 DEF Quit, Wakeup, loopVars, BatchEmpty, Numbered
<1>3. CASE Loop \/ CheckQuit \/ HandleRead \/ EventsDone
  BY <1>0, <1>3 DEF Loop, CheckQuit, HandleRead, EventsDone, BatchEmpty, Numbered
<1>4. ASSUME NEW others \in {{}, {"io"}}, PollReturn(others) PROVE OrderInv'
  BY <1>0, <1>4 DEF PollReturn, BatchEmpty, Numbered
<1>5. CASE HandleEvent
  <2>1. Numbered'
    BY <1>5, PushNumbered
       DEF HandleEvent, Callback, LoopThreadQueues, LoopThreadQuits, Numbered
  <2> QED
    BY <1>0, <1>5, <2>1 DEF HandleEvent, BatchEmpty
<1>6. CASE SwapPending
  <2>1. Len(functors) = 0 /\ Len(pending') = 0 /\ functors' = pending /\ ran' = ran
    BY <1>6 DEF SwapPending, BatchEmpty
  <2>2. Numbered'
    BY <2>1 DEF Numbered, TypeOK
  <2> QED
    BY <1>0, <1>6, <2>2 DEF SwapPending, BatchEmpty
<1>7. CASE CallFunctor
  <2> DEFINE r == Len(ran)
             f == Len(functors)
             p == Len(pending)
  <2>1. r \in Nat /\ f \in Nat \ {0} /\ p \in Nat
    BY <1>7, EmptySeq DEF CallFunctor, TypeOK
  <2>2. /\ Len(functors') = f - 1
        /\ \A i \in 1..(f - 1) : functors'[i] = functors[i + 1]
        /\ Head(functors) = functors[1]
        /\ Head(functors) \in Nat
    BY <1>7, <2>1, HeadTailProperties DEF CallFunctor, TypeOK
  <2>3. Head(functors) = r + 1
    BY <2>1, <2>2 DEF Numbered
  <2>4. /\ Len(ran') = r + 1
        /\ \A i \in 1..r : ran'[i] = ran[i]
        /\ ran'[r + 1] = r + 1
    BY <1>7, <2>2, <2>3, AppendProperties DEF CallFunctor, TypeOK
  <2>5. ASSUME NEW i \in 1..Len(ran') PROVE ran'[i] = i
    <3>1. CASE i = r + 1
      BY <2>4, <3>1
    <3>2. CASE i # r + 1
      <4>1. i \in 1..r
        BY <2>1, <2>4, <3>2
      <4> QED BY <2>4, <4>1 DEF Numbered
    <3> QED BY <3>1, <3>2
  <2>6. \A i \in 1..Len(functors') : functors'[i] = Len(ran') + i
    BY <2>1, <2>2, <2>4 DEF Numbered
  <2>7. \A i \in 1..Len(pending') : pending'[i] = Len(ran') + Len(functors') + i
    <3>1. Len(ran') + Len(functors') = r + f
      BY <2>1, <2>2, <2>4
    <3>2. CASE pending' = pending
      BY <3>1, <3>2 DEF Numbered
    <3>3. CASE pending' = Append(pending, Count + 1)
      <4>1. /\ Len(pending') = p + 1
            /\ \A i \in 1..p : pending'[i] = pending[i]
            /\ pending'[p + 1] = r + f + p + 1
        BY <2>1, <3>3, AppendProperties DEF TypeOK, Count
      <4>2. ASSUME NEW i \in 1..Len(pending')
            PROVE  pending'[i] = r + f + i
        <5>1. CASE i = p + 1
          BY <2>1, <4>1, <5>1
        <5>2. CASE i \in 1..p
          BY <2>1, <4>1, <5>2 DEF Numbered
        <5> QED
          BY <2>1, <4>1, <5>1, <5>2
      <4> QED
        BY <3>1, <4>2
    <3> QED
      BY <1>7, <3>2, <3>3
         DEF CallFunctor, Callback, LoopThreadQueues, LoopThreadQuits
  <2>8. Numbered'
    BY <2>5, <2>6, <2>7 DEF Numbered
  <2> QED
    BY <1>0, <1>7, <2>8 DEF CallFunctor, BatchEmpty
<1>8. CASE FunctorsDone
  BY <1>0, <1>8 DEF FunctorsDone, BatchEmpty, Numbered
<1>9. CASE UNCHANGED vars
  BY <1>0, <1>9 DEF vars, BatchEmpty, Numbered
<1> QED
  BY <1>1, <1>2, <1>3, <1>4, <1>5, <1>6, <1>7, <1>8, <1>9 DEF Next, LoopThread

\* Position by position gives the equality of sequences.
LEMMA NumberedInOrder == OrderInv => CalledInOrder
<1> SUFFICES ASSUME OrderInv PROVE CalledInOrder
  OBVIOUS
<1> DEFINE s == ran \o functors \o pending
           r == Len(ran)
           f == Len(functors)
           p == Len(pending)
<1>1. r \in Nat /\ f \in Nat /\ p \in Nat
  BY DEF OrderInv, TypeOK
<1>2. /\ ran \o functors \in Seq(Nat)
      /\ Len(ran \o functors) = r + f
      /\ \A i \in 1..(r + f) : (ran \o functors)[i] =
           IF i <= r THEN ran[i] ELSE functors[i - r]
  BY ConcatProperties DEF OrderInv, TypeOK
<1>3. /\ s \in Seq(Nat)
      /\ Len(s) = r + f + p
      /\ \A i \in 1..(r + f + p) : s[i] =
           IF i <= r + f THEN (ran \o functors)[i] ELSE pending[i - (r + f)]
  BY <1>2, ConcatProperties DEF OrderInv, TypeOK
<1>4. ASSUME NEW i \in 1..(r + f + p) PROVE s[i] = i
  <2>1. CASE i <= r
    BY <1>1, <1>2, <1>3, <2>1 DEF OrderInv, Numbered
  <2>2. CASE r < i /\ i <= r + f
    BY <1>1, <1>2, <1>3, <2>2 DEF OrderInv, Numbered
  <2>3. CASE r + f < i
    BY <1>1, <1>2, <1>3, <2>3 DEF OrderInv, Numbered
  <2> QED
    BY <1>1, <2>1, <2>2, <2>3
<1>5. s \in [1..(r + f + p) -> Nat]
  BY <1>3, LenProperties
<1> HIDE DEF s, r, f, p
<1>6. s = [i \in 1..(r + f + p) |-> i]
  BY <1>4, <1>5
<1> QED
  BY <1>6 DEF CalledInOrder, Count, s, r, f, p

\* Functors are called once each and in the order they were queued.
THEOREM FunctorsInOrder == Spec => []CalledInOrder
<1>1. Init => OrderInv
  <2> SUFFICES ASSUME Init PROVE OrderInv
    OBVIOUS
  <2>1. TypeOK
    BY InitWakeup DEF WakeupInv
  <2>2. BatchEmpty /\ Numbered
    BY DEF Init, BatchEmpty, Numbered
  <2> QED
    BY <2>1, <2>2 DEF OrderInv
<1> QED
  BY <1>1, OrderStep, NumberedInOrder, PTL DEF Spec

-----------------------------------------------------------------------------
(* Poller *)

\* The entry of a channel in pollfds_.
EntryOf(c) == Pfd(IF events[c] = {} THEN Ignored(c) ELSE c, events[c])

\* The variables have their types.
PollerTypeOK ==
  /\ events \in [Fds -> Interest] /\ chans \subseteq Fds
  /\ pollfds \in Seq([fd : Int, events : Interest])
  /\ index \in [Fds -> Int]
  /\ epIndex \in [Fds -> {kNew, kAdded, kDeleted}]

\* index_ finds the entry of each channel, and every entry is one of them.
EntriesFound ==
  /\ \A c \in chans : /\ index[c] + 1 \in DOMAIN pollfds
                      /\ pollfds[index[c] + 1] = EntryOf(c)
  /\ \A i \in DOMAIN pollfds : \E c \in chans : i = index[c] + 1

\* The epoll set follows epIndex, and the events of the channels.
EpollFollows ==
  /\ \A c \in Fds : epIndex[c] = kAdded <=> c \in DOMAIN epoll
  /\ \A c \in Fds \ chans : epIndex[c] = kNew
  /\ \A c \in chans : epIndex[c] # kAdded => events[c] = {}
  /\ DOMAIN epoll \subseteq chans
  /\ \A c \in DOMAIN epoll : epoll[c] = events[c]

\* A channel that is in channels_ has an index_ other than kNew.
EpollKnows == ~epAsserted /\ \A c \in chans : epIndex[c] # kNew

\* The last poll made every reported channel active once.
ActiveOnce == Range(activeChannels) = ready /\ IsInjective(activeChannels)

PollerInv ==
  PollerTypeOK /\ EntriesFound /\ EpollFollows /\ EpollKnows /\ ActiveOnce /\ ~asserted

\* Channels have entries of their own.
LEMMA IndexApart ==
  ASSUME PollerTypeOK, EntriesFound, NEW c \in chans, NEW d \in chans, index[c] = index[d]
  PROVE  c = d
<1>1. EntryOf(c) = EntryOf(d)
  BY DEF EntriesFound
<1>2. c \in Nat /\ d \in Nat
  BY PollerAssumption DEF PollerTypeOK
<1>3. EntryOf(c).fd = EntryOf(d).fd
  BY <1>1
<1> QED BY <1>2, <1>3 DEF EntryOf, Pfd, Ignored

\* An entry is a record of its type.
LEMMA EntryType ==
  ASSUME NEW c \in Nat, NEW ev \in Interest
  PROVE  /\ Pfd(c, ev) \in [fd : Int, events : Interest]
         /\ Pfd(Ignored(c), ev) \in [fd : Int, events : Interest]
BY DEF Pfd, Ignored

\* The initial states: nothing is watched.
LEMMA PollerInitInv ==
  PollerInit => PollerInv
<1> SUFFICES ASSUME PollerInit PROVE PollerInv
  OBVIOUS
<1>1. PollerTypeOK
  BY EmptySeq DEF PollerInit, PollerTypeOK, Interest, kNew
<1>2. EntriesFound
  BY DEF PollerInit, EntriesFound
<1>3. DOMAIN epoll = {} /\ DOMAIN activeChannels = {}
  BY DEF PollerInit
<1>4. EpollFollows
  BY <1>3 DEF PollerInit, EpollFollows, kNew, kAdded
<1>6. EpollKnows
  BY DEF PollerInit, EpollKnows
<1>5. ActiveOnce
  BY <1>3 DEF PollerInit, ActiveOnce, Range, IsInjective
<1> QED BY <1>1, <1>2, <1>4, <1>5, <1>6 DEF PollerInv, PollerInit

\* EPollPoller::updateChannel brings the epoll set to the channel's events.
LEMMA EpollUpdateKeeps ==
  ASSUME PollerTypeOK, EpollFollows, NEW c \in Fds, NEW ev \in Interest,
         c \in chans \/ ev # {},
         events' = [events EXCEPT ![c] = ev], chans' = chans \cup {c},
         EpollUpdate(c, ev)
  PROVE  EpollFollows' /\ epIndex' \in [Fds -> {kNew, kAdded, kDeleted}]
<1>0. kNew # kAdded /\ kDeleted # kAdded
  BY DEF kNew, kAdded, kDeleted
<1>1. /\ events'[c] = ev
      /\ \A d \in Fds \ {c} : events'[d] = events[d]
  BY DEF PollerTypeOK
<1>2. CASE epIndex[c] \in {kNew, kDeleted} \/ ev # {}
  <2>1. /\ epoll' = With(epoll, c, ev)
        /\ epIndex' \in [Fds -> {kNew, kAdded, kDeleted}]
        /\ epIndex'[c] = kAdded
        /\ \A d \in Fds \ {c} : epIndex'[d] = epIndex[d]
    <3>1. CASE epIndex[c] \in {kNew, kDeleted}
      <4>1. /\ epoll' = With(epoll, c, ev)
            /\ epIndex' = [epIndex EXCEPT ![c] = kAdded]
        BY <1>0, <3>1 DEF EpollUpdate
      <4> QED BY <4>1 DEF PollerTypeOK
    <3>2. CASE epIndex[c] \notin {kNew, kDeleted}
      <4>1. epoll' = With(epoll, c, ev) /\ epIndex' = epIndex /\ epIndex[c] = kAdded
        BY <1>0, <1>2, <3>2 DEF EpollUpdate
      <4> QED BY <4>1 DEF PollerTypeOK
    <3> QED BY <3>1, <3>2
  <2>2. /\ DOMAIN epoll' = DOMAIN epoll \cup {c}
        /\ epoll'[c] = ev
        /\ \A d \in DOMAIN epoll \ {c} : epoll'[d] = epoll[d]
    BY <2>1 DEF With
  <2> QED BY <1>1, <2>1, <2>2 DEF EpollFollows, PollerTypeOK
<1>3. CASE epIndex[c] = kAdded /\ ev = {}
  <2>1. /\ epoll' = Without(epoll, c)
        /\ epIndex' \in [Fds -> {kNew, kAdded, kDeleted}]
        /\ epIndex'[c] = kDeleted
        /\ \A d \in Fds \ {c} : epIndex'[d] = epIndex[d]
    <3>1. /\ epoll' = Without(epoll, c)
          /\ epIndex' = [epIndex EXCEPT ![c] = kDeleted]
      BY <1>0, <1>3 DEF EpollUpdate
    <3> QED BY <3>1 DEF PollerTypeOK
  <2>2. /\ DOMAIN epoll' = DOMAIN epoll \ {c}
        /\ \A d \in DOMAIN epoll \ {c} : epoll'[d] = epoll[d]
    BY <2>1 DEF Without
  <2>3. c \in chans /\ chans' = chans
    BY <1>3
  <2>4. \A d \in Fds : epIndex'[d] = kAdded <=> d \in DOMAIN epoll'
    BY <1>0, <2>1, <2>2 DEF EpollFollows
  <2>5. \A d \in Fds \ chans' : epIndex'[d] = kNew
    BY <2>1, <2>3 DEF EpollFollows
  <2>6. \A d \in chans' : epIndex'[d] # kAdded => events'[d] = {}
    BY <1>1, <1>3, <2>1, <2>3 DEF EpollFollows, PollerTypeOK
  <2>7. DOMAIN epoll' \subseteq chans' /\ \A d \in DOMAIN epoll' : epoll'[d] = events'[d]
    BY <1>1, <2>2, <2>3 DEF EpollFollows, PollerTypeOK
  <2> QED BY <2>1, <2>4, <2>5, <2>6, <2>7 DEF EpollFollows
<1> QED BY <1>2, <1>3 DEF PollerTypeOK

\* EPollPoller::removeChannel takes the channel out of the epoll set.
LEMMA EpollRemoveKeeps ==
  ASSUME PollerTypeOK, EpollFollows, NEW c \in chans,
         events' = events, chans' = chans \ {c}, EpollRemove(c)
  PROVE  EpollFollows' /\ epIndex' \in [Fds -> {kNew, kAdded, kDeleted}]
<1>1. /\ epIndex' \in [Fds -> {kNew, kAdded, kDeleted}]
      /\ epIndex'[c] = kNew
      /\ \A d \in Fds \ {c} : epIndex'[d] = epIndex[d]
  BY DEF EpollRemove, PollerTypeOK
<1>2. /\ DOMAIN epoll' = DOMAIN epoll \ {c}
      /\ \A d \in DOMAIN epoll \ {c} : epoll'[d] = epoll[d]
  <2>1. CASE epIndex[c] = kAdded
    BY <2>1 DEF EpollRemove, Without
  <2>2. CASE epIndex[c] # kAdded
    BY <2>2 DEF EpollRemove, EpollFollows, PollerTypeOK
  <2> QED BY <2>1, <2>2
<1>3. kNew # kAdded
  BY DEF kNew, kAdded
<1> QED BY <1>1, <1>2, <1>3 DEF EpollFollows, PollerTypeOK

\* The assertions of the EPollPoller: a channel is known where its index_ says so.
LEMMA EpollUpdateKnows ==
  ASSUME PollerTypeOK, EpollFollows, EpollKnows, NEW c \in Fds, NEW ev \in Interest,
         chans' = chans \cup {c}, EpollUpdate(c, ev)
  PROVE  EpollKnows'
<1>1. (epIndex[c] = kNew) <=> (c \notin chans)
  BY DEF EpollFollows, EpollKnows
<1>2. ~epAsserted'
  <2>1. epAsserted' = (epAsserted \/ ((epIndex[c] = kNew) <=> (c \in chans)))
    BY DEF EpollUpdate
  <2>2. (epAsserted \/ ((epIndex[c] = kNew) <=> (c \in chans))) = FALSE
    BY <1>1, Zenon DEF EpollKnows
  <2> QED BY <2>1, <2>2, Zenon
<1>3. /\ epIndex'[c] # kNew
      /\ \A d \in Fds \ {c} : epIndex'[d] = epIndex[d]
  BY DEF EpollUpdate, PollerTypeOK, kNew, kAdded, kDeleted
<1>4. \A d \in chans' : epIndex'[d] # kNew
  BY <1>3 DEF EpollKnows, PollerTypeOK
<1> QED BY <1>2, <1>4 DEF EpollKnows

LEMMA EpollRemoveKnows ==
  ASSUME PollerTypeOK, EpollKnows, NEW c \in chans, chans' = chans \ {c}, EpollRemove(c)
  PROVE  EpollKnows'
<1>1. ~epAsserted'
  <2>1. epAsserted' = (epAsserted \/ c \notin chans \/ epIndex[c] \notin {kAdded, kDeleted})
    BY DEF EpollRemove
  <2>2. epIndex[c] \in {kAdded, kDeleted}
    BY DEF EpollKnows, PollerTypeOK
  <2>3. (epAsserted \/ c \notin chans \/ epIndex[c] \notin {kAdded, kDeleted}) = FALSE
    BY <2>2, Zenon DEF EpollKnows
  <2> QED BY <2>1, <2>3, Zenon
<1>2. \A d \in chans' : epIndex'[d] # kNew
  BY DEF EpollRemove, EpollKnows, PollerTypeOK
<1> QED BY <1>1, <1>2 DEF EpollKnows

\* A channel that is new to the PollPoller gets an entry at the end.
LEMMA PollAppendKeeps ==
  ASSUME PollerInv, NEW c \in Fds, NEW ev \in Interest, UpdateChannel(c, ev), index[c] < 0
  PROVE  PollerTypeOK' /\ EntriesFound' /\ ~asserted'
<1> DEFINE n == Len(pollfds)
           Entries == [fd : Int, events : Interest]
<1>0. /\ PollerTypeOK /\ EntriesFound /\ EpollFollows /\ ~asserted
      /\ pollfds \in Seq(Entries)
  BY DEF PollerInv, PollerTypeOK
<1>1. c \notin chans /\ ev # {} /\ c \in Nat
  <2>1. c \notin chans
    BY <1>0 DEF EntriesFound, PollerTypeOK
  <2> QED BY <2>1, PollerAssumption DEF UpdateChannel
<1>2. /\ events' = [events EXCEPT ![c] = ev] /\ chans' = chans \cup {c}
      /\ pollfds' = Append(pollfds, Pfd(c, ev))
      /\ index' = [index EXCEPT ![c] = n]
      /\ asserted' = (asserted \/ c \in chans)
      /\ EpollUpdate(c, ev)
  BY DEF UpdateChannel, PollUpdate
<1>3. epIndex' \in [Fds -> {kNew, kAdded, kDeleted}]
  BY <1>0, <1>1, <1>2, EpollUpdateKeeps
<1>4. Pfd(c, ev) \in Entries
  BY <1>1, EntryType
<1>5. /\ pollfds' \in Seq(Entries) /\ Len(pollfds') = n + 1
      /\ DOMAIN pollfds' = 1..(n + 1) /\ DOMAIN pollfds = 1..n /\ n \in Nat
      /\ \A i \in 1..n : pollfds'[i] = pollfds[i]
      /\ pollfds'[n + 1] = Pfd(c, ev)
  BY <1>0, <1>2, <1>4, AppendProperties, LenProperties
<1>6. /\ index'[c] = n /\ \A d \in Fds \ {c} : index'[d] = index[d]
      /\ events'[c] = ev /\ \A d \in Fds \ {c} : events'[d] = events[d]
  BY <1>0, <1>2 DEF PollerTypeOK
<1> HIDE DEF n, Entries
<1>7. PollerTypeOK'
  <2>1. index' \in [Fds -> Int] /\ events' \in [Fds -> Interest]
    BY <1>0, <1>2, <1>5 DEF PollerTypeOK
  <2> QED BY <1>0, <1>2, <1>3, <1>5, <2>1 DEF PollerTypeOK, Entries
<1>8. EntryOf(c)' = Pfd(c, ev) /\ \A d \in chans : EntryOf(d)' = EntryOf(d)
  BY <1>0, <1>1, <1>6 DEF EntryOf, PollerTypeOK
<1>9. EntriesFound'
  <2>1. ASSUME NEW d \in chans'
        PROVE  /\ index'[d] + 1 \in DOMAIN pollfds'
               /\ pollfds'[index'[d] + 1] = EntryOf(d)'
    <3>1. CASE d = c
      BY <1>5, <1>6, <1>8, <3>1
    <3>2. CASE d # c
      <4>1. d \in chans /\ index'[d] = index[d] /\ index[d] + 1 \in 1..n
        BY <1>0, <1>2, <1>5, <1>6, <3>2 DEF EntriesFound, PollerTypeOK
      <4>2. PICK q : q = index[d] + 1
        OBVIOUS
      <4>3. pollfds[q] = EntryOf(d) /\ q \in 1..n
        BY <1>0, <4>1, <4>2 DEF EntriesFound
      <4> QED BY <1>5, <1>8, <4>1, <4>2, <4>3
    <3> QED BY <3>1, <3>2
  <2>2. ASSUME NEW i \in DOMAIN pollfds'
        PROVE  \E d \in chans' : i = index'[d] + 1
    <3>1. CASE i = n + 1
      BY <1>2, <1>6, <3>1
    <3>2. CASE i # n + 1
      <4>1. i \in 1..n
        BY <1>5, <3>2
      <4>2. PICK d \in chans : i = index[d] + 1
        BY <1>0, <1>5, <4>1 DEF EntriesFound
      <4> QED BY <1>0, <1>1, <1>2, <1>6, <4>2 DEF PollerTypeOK
    <3> QED BY <3>1, <3>2
  <2> QED BY <2>1, <2>2 DEF EntriesFound
<1>10. ~asserted'
  BY <1>0, <1>1, <1>2, Zenon
<1> QED BY <1>7, <1>9, <1>10

\* An update of a channel that has an entry changes that entry.
LEMMA PollChangeKeeps ==
  ASSUME PollerInv, NEW c \in Fds, NEW ev \in Interest, UpdateChannel(c, ev), ~(index[c] < 0)
  PROVE  PollerTypeOK' /\ EntriesFound' /\ ~asserted'
<1> DEFINE k == index[c] + 1
           Entries == [fd : Int, events : Interest]
           new == Pfd(IF ev = {} THEN Ignored(c) ELSE c, ev)
           held == index[c] < Len(pollfds) /\ pollfds[index[c] + 1].fd \in {c, Ignored(c)}
<1>0. /\ PollerTypeOK /\ EntriesFound /\ EpollFollows /\ ~asserted
      /\ pollfds \in Seq(Entries)
  BY DEF PollerInv, PollerTypeOK
<1>1. c \in chans /\ c \in Nat /\ index[c] \in Int
  BY <1>0, PollerAssumption DEF UpdateChannel, kNew, PollerTypeOK
<1>2. /\ events' = [events EXCEPT ![c] = ev] /\ chans' = chans \cup {c}
      /\ index' = index
      /\ pollfds' = IF held THEN [pollfds EXCEPT ![k] = new] ELSE pollfds
      /\ asserted' = (asserted \/ c \notin chans \/ ~held)
      /\ EpollUpdate(c, ev)
  BY DEF UpdateChannel, PollUpdate
<1>3. epIndex' \in [Fds -> {kNew, kAdded, kDeleted}]
  BY <1>0, <1>1, <1>2, EpollUpdateKeeps
<1>4. k \in DOMAIN pollfds /\ pollfds[k] = EntryOf(c)
  BY <1>0, <1>1 DEF EntriesFound
<1>5. held
  <2>1. index[c] < Len(pollfds)
    BY <1>0, <1>1, <1>4, LenProperties
  <2>2. EntryOf(c).fd \in {c, Ignored(c)}
    BY DEF EntryOf, Pfd
  <2> QED BY <1>4, <2>1, <2>2
<1>6. pollfds' = [pollfds EXCEPT ![k] = new]
  BY <1>2, <1>5
<1>7. new \in Entries
  BY <1>1, EntryType
<1> HIDE DEF held, new, Entries
<1>8. /\ pollfds' \in Seq(Entries) /\ DOMAIN pollfds' = DOMAIN pollfds
      /\ pollfds'[k] = new
      /\ \A i \in DOMAIN pollfds \ {k} : pollfds'[i] = pollfds[i]
  BY <1>0, <1>4, <1>6, <1>7, ExceptSeq
<1>9. events'[c] = ev /\ \A d \in Fds \ {c} : events'[d] = events[d]
  BY <1>0, <1>2 DEF PollerTypeOK
<1>10. PollerTypeOK'
  BY <1>0, <1>2, <1>3, <1>8 DEF PollerTypeOK, Entries
<1>11. EntryOf(c)' = new /\ \A d \in chans \ {c} : EntryOf(d)' = EntryOf(d)
  BY <1>0, <1>9 DEF EntryOf, PollerTypeOK, new
<1>12. EntriesFound'
  <2>1. chans' = chans
    BY <1>1, <1>2
  <2>2. ASSUME NEW d \in chans
        PROVE  /\ index[d] + 1 \in DOMAIN pollfds'
               /\ pollfds'[index[d] + 1] = EntryOf(d)'
    <3>1. CASE d = c
      BY <1>4, <1>8, <1>11, <3>1
    <3>2. CASE d # c
      <4>1. index[d] # index[c] /\ index[d] \in Int
        BY <1>0, <1>1, <3>2, IndexApart DEF PollerTypeOK
      <4>2. PICK q : q = index[d] + 1
        OBVIOUS
      <4>3. q \in DOMAIN pollfds /\ pollfds[q] = EntryOf(d) /\ q # k
        BY <1>0, <1>1, <4>1, <4>2, SMTT(30) DEF EntriesFound
      <4> QED BY <1>8, <1>11, <3>2, <4>2, <4>3
    <3> QED BY <3>1, <3>2
  <2> QED BY <1>0, <1>2, <1>8, <2>1, <2>2 DEF EntriesFound
<1>13. ~asserted'
  BY <1>0, <1>1, <1>2, <1>5, Zenon
<1> QED BY <1>10, <1>12, <1>13

\* The removed entry is replaced by the last one, whose channel learns of it.
LEMMA PollRemoveKeeps ==
  ASSUME PollerInv, NEW c \in Fds, RemoveChannel(c)
  PROVE  PollerTypeOK' /\ EntriesFound' /\ ~asserted'
<1> DEFINE k == index[c] + 1
           n == Len(pollfds)
           Entries == [fd : Int, events : Interest]
           held == index[c] < n /\ pollfds[index[c] + 1] = Pfd(Ignored(c), {})
           atEnd == ChannelAtEnd(pollfds[n].fd)
<1>0. /\ PollerTypeOK /\ EntriesFound /\ EpollFollows /\ ~asserted
      /\ pollfds \in Seq(Entries)
  BY DEF PollerInv, PollerTypeOK
<1>1. c \in chans /\ events[c] = {} /\ index[c] \in Int
  BY <1>0 DEF RemoveChannel, PollerTypeOK
<1>2. /\ events' = events /\ chans' = chans \ {c}
      /\ asserted' = (asserted \/ c \notin chans \/ ~held)
      /\ IF held /\ k < n
         THEN /\ pollfds' = SubSeq([pollfds EXCEPT ![k] = pollfds[n]], 1, n - 1)
              /\ index' = IF atEnd \in Fds THEN [index EXCEPT ![atEnd] = index[c]] ELSE index
         ELSE pollfds' = Front(pollfds) /\ index' = index
      /\ EpollRemove(c)
  BY DEF RemoveChannel, PollRemove
<1>3. epIndex' \in [Fds -> {kNew, kAdded, kDeleted}]
  BY <1>0, <1>1, <1>2, EpollRemoveKeeps
<1>4. /\ n \in Nat /\ DOMAIN pollfds = 1..n /\ k \in 1..n
      /\ pollfds[k] = EntryOf(c)
  BY <1>0, <1>1, LenProperties DEF EntriesFound
<1>5. held
  <2>1. EntryOf(c) = Pfd(Ignored(c), {})
    BY <1>1 DEF EntryOf
  <2> QED BY <1>1, <1>4, <2>1
<1>6. ~asserted'
  BY <1>0, <1>1, <1>2, <1>5, Zenon
<1>7. PICK e \in chans : n = index[e] + 1
  <2>1. n \in DOMAIN pollfds
    BY <1>4
  <2> QED BY <1>0, <2>1 DEF EntriesFound
<1>8. e \in Fds /\ e \in Nat /\ index[e] \in Int
  BY <1>0, PollerAssumption DEF PollerTypeOK
<1>9. pollfds[n] = EntryOf(e)
  BY <1>0, <1>7 DEF EntriesFound
<1>10. atEnd = e
  <2>1. EntryOf(e).fd = Ignored(e) \/ EntryOf(e).fd = e
    BY DEF EntryOf, Pfd
  <2> QED BY <1>8, <1>9, <2>1 DEF ChannelAtEnd, Ignored
<1> HIDE DEF held, atEnd
<1>11. \A d \in chans : EntryOf(d)' = EntryOf(d)
  BY <1>2 DEF EntryOf
<1>12. \A d \in chans : index[d] \in Int /\ index[d] + 1 \in 1..n
  BY <1>0, <1>4 DEF EntriesFound, PollerTypeOK
<1>13. CASE k < n
  <2> DEFINE moved == [pollfds EXCEPT ![k] = pollfds[n]]
  <2>1. pollfds' = SubSeq(moved, 1, n - 1) /\ index' = [index EXCEPT ![e] = index[c]]
    BY <1>2, <1>5, <1>8, <1>10, <1>13
  <2>2. pollfds[n] \in Entries
    <3>1. n \in 1..Len(pollfds)
      BY <1>4
    <3> HIDE DEF n, Entries
    <3> QED BY <1>0, <3>1, ElementOfSeq
  <2>3. /\ moved \in Seq(Entries) /\ Len(moved) = n
        /\ moved[k] = pollfds[n] /\ \A i \in 1..n : i # k => moved[i] = pollfds[i]
    <3>1. moved \in Seq(Entries) /\ DOMAIN moved = DOMAIN pollfds
      BY <1>0, <1>4, <2>2, ExceptSeq
    <3>2. Len(moved) = n
      BY <1>4, <3>1, LenProperties
    <3> QED BY <1>4, <3>1, <3>2
  <2> HIDE DEF moved, Entries, n, k
  <2>4. /\ pollfds' \in Seq(Entries) /\ DOMAIN pollfds' = 1..(n - 1)
        /\ \A i \in 1..(n - 1) : pollfds'[i] = moved[i]
    <3>1. \A i \in 1..(n - 1) : i \in 1..Len(moved)
      BY <1>4, <2>3
    <3>2. /\ pollfds' \in Seq(Entries)
          /\ Len(pollfds') = IF 1 <= n - 1 THEN n - 1 - 1 + 1 ELSE 0
          /\ \A i \in 1..(n - 1 - 1 + 1) : pollfds'[i] = moved[1 + i - 1]
      BY <1>4, <2>1, <2>3, <3>1, SubSeqProperties
    <3>3. Len(pollfds') = n - 1
      BY <1>4, <1>13, <3>2
    <3> QED BY <1>4, <3>2, <3>3, LenProperties
  <2>5. index' \in [Fds -> Int] /\ index'[e] = index[c] /\ \A d \in Fds \ {e} : index'[d] = index[d]
    BY <1>0, <1>1, <1>8, <2>1 DEF PollerTypeOK
  <2>6. PollerTypeOK'
    BY <1>0, <1>2, <1>3, <2>4, <2>5 DEF PollerTypeOK, Entries
  <2>7. e # c
    BY <1>7, <1>13 DEF k
  <2>8. ASSUME NEW d \in chans'
        PROVE  /\ index'[d] + 1 \in DOMAIN pollfds'
               /\ pollfds'[index'[d] + 1] = EntryOf(d)'
    <3>0. d \in chans /\ d # c /\ d \in Fds
      BY <1>0, <1>2 DEF PollerTypeOK
    <3>1. CASE d = e
      <4>1. index'[d] + 1 = k /\ k \in 1..(n - 1)
        BY <1>4, <1>13, <2>5, <3>1 DEF k
      <4>2. pollfds'[k] = EntryOf(e)
        BY <1>4, <1>9, <2>3, <2>4, <4>1
      <4> QED BY <1>11, <2>4, <3>0, <3>1, <4>1, <4>2
    <3>2. CASE d # e
      <4>1. index'[d] = index[d] /\ index[d] # index[c] /\ index[d] # index[e]
        BY <1>0, <1>1, <2>5, <3>0, <3>2, IndexApart
      <4>2. PICK q : q = index[d] + 1
        OBVIOUS
      <4>3. q \in 1..n /\ pollfds[q] = EntryOf(d)
        BY <1>0, <1>12, <3>0, <4>2 DEF EntriesFound
      <4>4. q # k /\ q # n
        BY <1>1, <1>7, <1>8, <1>12, <3>0, <4>1, <4>2 DEF k
      <4>5. q \in 1..(n - 1)
        BY <1>4, <4>3, <4>4
      <4>6. pollfds'[q] = pollfds[q]
        BY <2>3, <2>4, <4>3, <4>4, <4>5
      <4> QED BY <1>11, <2>4, <3>0, <4>1, <4>2, <4>3, <4>5, <4>6
    <3> QED BY <3>1, <3>2
  <2>9. ASSUME NEW i \in DOMAIN pollfds'
        PROVE  \E d \in chans' : i = index'[d] + 1
    <3>0. i \in 1..n /\ i # n
      BY <1>4, <2>4
    <3>1. CASE i = k
      BY <1>2, <2>5, <2>7, <3>1 DEF k
    <3>2. CASE i # k
      <4>1. PICK d \in chans : i = index[d] + 1
        BY <1>0, <1>4, <3>0 DEF EntriesFound
      <4>2. d # c /\ d # e /\ d \in Fds
        BY <1>0, <1>7, <3>0, <3>2, <4>1 DEF k, PollerTypeOK
      <4> QED BY <1>2, <2>5, <4>1, <4>2
    <3> QED BY <3>1, <3>2
  <2> QED BY <1>6, <2>6, <2>8, <2>9 DEF EntriesFound
<1>14. CASE ~(k < n)
  <2>1. k = n /\ pollfds' = SubSeq(pollfds, 1, n - 1) /\ index' = index
    BY <1>2, <1>4, <1>14 DEF Front
  <2> HIDE DEF Entries, n, k
  <2>2. /\ pollfds' \in Seq(Entries) /\ DOMAIN pollfds' = 1..(n - 1)
        /\ \A i \in 1..(n - 1) : pollfds'[i] = pollfds[i]
    <3>1. \A i \in 1..(n - 1) : i \in 1..Len(pollfds)
      BY <1>4 DEF n
    <3>2. /\ pollfds' \in Seq(Entries)
          /\ Len(pollfds') = IF 1 <= n - 1 THEN n - 1 - 1 + 1 ELSE 0
          /\ \A i \in 1..(n - 1 - 1 + 1) : pollfds'[i] = pollfds[1 + i - 1]
      BY <1>0, <1>4, <2>1, <3>1, SubSeqProperties
    <3>3. Len(pollfds') = n - 1
      BY <1>4, <2>1, <3>2
    <3> QED BY <1>4, <3>2, <3>3, LenProperties
  <2>3. PollerTypeOK'
    BY <1>0, <1>2, <1>3, <2>1, <2>2 DEF PollerTypeOK, Entries
  <2>4. ASSUME NEW d \in chans'
        PROVE  /\ index'[d] + 1 \in DOMAIN pollfds'
               /\ pollfds'[index'[d] + 1] = EntryOf(d)'
    <3>1. d \in chans /\ d # c
      BY <1>2
    <3>2. index[d] # index[c]
      BY <1>0, <1>1, <3>1, IndexApart
    <3>3. PICK q : q = index[d] + 1
      OBVIOUS
    <3>4. q \in 1..n /\ pollfds[q] = EntryOf(d) /\ q # n
      <4>1. q \in 1..n /\ pollfds[q] = EntryOf(d)
        BY <1>0, <1>12, <3>1, <3>3 DEF EntriesFound
      <4>2. q # k
        BY <1>1, <1>12, <3>1, <3>2, <3>3 DEF k
      <4> QED BY <2>1, <4>1, <4>2
    <3>5. q \in 1..(n - 1)
      BY <1>4, <3>4
    <3> QED BY <1>11, <2>1, <2>2, <3>1, <3>3, <3>4, <3>5
  <2>5. ASSUME NEW i \in DOMAIN pollfds'
        PROVE  \E d \in chans' : i = index'[d] + 1
    <3>0. i \in 1..n /\ i # n
      BY <1>4, <2>2
    <3>1. PICK d \in chans : i = index[d] + 1
      BY <1>0, <1>4, <3>0 DEF EntriesFound
    <3>2. d # c
      BY <2>1, <3>0, <3>1 DEF k
    <3> QED BY <1>2, <2>1, <3>1, <3>2
  <2> QED BY <1>6, <2>3, <2>4, <2>5 DEF EntriesFound
<1> QED BY <1>13, <1>14

\* The channels a poll makes active are the reported ones, each once.
LEMMA PollChannelsActive ==
  ASSUME PollerInv, NEW reported \in SUBSET Watched, PollChannels(reported)
  PROVE  ActiveOnce' /\ ~asserted'
<1> DEFINE hits == {j \in DOMAIN pollfds : pollfds[j].fd \in reported}
<1>0. PollerTypeOK /\ EntriesFound /\ ~asserted
  BY DEF PollerInv
<1>1. activeChannels' = [i \in hits |-> pollfds[i].fd] /\ ready' = reported
  BY DEF PollChannels, FillActiveChannels
<1>2. \A c \in reported : c \in chans /\ events[c] # {}
  BY DEF Watched
<1>3. ASSUME NEW c \in reported
      PROVE  index[c] + 1 \in hits /\ pollfds[index[c] + 1].fd = c
  <2>1. PICK q : q = index[c] + 1
    OBVIOUS
  <2>2. q \in DOMAIN pollfds /\ pollfds[q] = EntryOf(c)
    BY <1>0, <1>2, <2>1 DEF EntriesFound
  <2>3. EntryOf(c).fd = c
    BY <1>2 DEF EntryOf, Pfd
  <2> QED BY <2>1, <2>2, <2>3
<1>4. ASSUME NEW i \in hits PROVE i = index[pollfds[i].fd] + 1
  <2>1. PICK d \in chans : i = index[d] + 1
    BY <1>0 DEF EntriesFound
  <2>2. pollfds[i].fd \in {d, Ignored(d)}
    <3>1. pollfds[i] = EntryOf(d)
      BY <1>0, <2>1 DEF EntriesFound
    <3> QED BY <3>1 DEF EntryOf, Pfd
  <2>3. d \in Nat /\ pollfds[i].fd \in Nat
    BY <1>0, <1>2, PollerAssumption DEF PollerTypeOK
  <2>4. pollfds[i].fd = d
    BY <2>2, <2>3 DEF Ignored
  <2> QED BY <2>1, <2>4
<1> HIDE DEF hits
<1>5. \A i \in hits : pollfds[i].fd \in reported
  BY DEF hits
<1>6. Range(activeChannels') = reported
  BY <1>1, <1>3, <1>5 DEF Range
<1>7. IsInjective(activeChannels')
  <2> SUFFICES ASSUME NEW i \in hits, NEW j \in hits, pollfds[i].fd = pollfds[j].fd
               PROVE  i = j
    BY <1>1 DEF IsInjective
  <2> QED BY <1>4
<1>8. ~asserted'
  <2>1. reported \subseteq chans
    BY <1>2
  <2>2. asserted' = (asserted \/ ~(reported \subseteq chans))
    BY DEF PollChannels
  <2> QED BY <1>0, <2>1, <2>2, Zenon
<1> QED BY <1>1, <1>6, <1>7, <1>8 DEF ActiveOnce

\* Every step keeps the invariant.
LEMMA PollerNextInv ==
  PollerInv /\ [PollerNext]_pollerVars => PollerInv'
<1> SUFFICES ASSUME PollerInv, [PollerNext]_pollerVars PROVE PollerInv'
  OBVIOUS
<1>1. ASSUME NEW c \in Fds, NEW ev \in Interest, UpdateChannel(c, ev) PROVE PollerInv'
  <2>1. PollerTypeOK' /\ EntriesFound' /\ ~asserted'
    BY <1>1, PollAppendKeeps, PollChangeKeeps
  <2>2. EpollFollows'
    <3>1. /\ events' = [events EXCEPT ![c] = ev] /\ chans' = chans \cup {c}
          /\ EpollUpdate(c, ev) /\ (c \in chans \/ ev # {})
      BY <1>1 DEF UpdateChannel
    <3> QED BY <3>1, EpollUpdateKeeps DEF PollerInv
  <2>3. ActiveOnce'
    BY <1>1 DEF UpdateChannel, PollerInv, ActiveOnce
  <2>4. EpollKnows'
    BY <1>1, EpollUpdateKnows DEF UpdateChannel, PollerInv
  <2> QED BY <2>1, <2>2, <2>3, <2>4 DEF PollerInv
<1>2. ASSUME NEW c \in Fds, RemoveChannel(c) PROVE PollerInv'
  <2>1. PollerTypeOK' /\ EntriesFound' /\ ~asserted'
    BY <1>2, PollRemoveKeeps
  <2>2. EpollFollows'
    <3>1. events' = events /\ chans' = chans \ {c} /\ EpollRemove(c) /\ c \in chans
      BY <1>2 DEF RemoveChannel
    <3> QED BY <3>1, EpollRemoveKeeps DEF PollerInv
  <2>3. ActiveOnce'
    BY <1>2 DEF RemoveChannel, PollerInv, ActiveOnce
  <2>4. EpollKnows'
    BY <1>2, EpollRemoveKnows DEF RemoveChannel, PollerInv
  <2> QED BY <2>1, <2>2, <2>3, <2>4 DEF PollerInv
<1>3. ASSUME NEW c \in Fds, ReopenChannel(c) PROVE PollerInv'
  <2>1. /\ c \notin chans /\ index' = [index EXCEPT ![c] = kNew]
        /\ events' = events /\ chans' = chans /\ pollfds' = pollfds
        /\ epIndex' = epIndex /\ epoll' = epoll /\ activeChannels' = activeChannels
        /\ ready' = ready /\ asserted' = asserted /\ epAsserted' = epAsserted
    BY <1>3 DEF ReopenChannel
  <2>2. index' \in [Fds -> Int] /\ \A d \in chans : index'[d] = index[d]
    BY <2>1 DEF PollerInv, PollerTypeOK, kNew
  <2>3. PollerTypeOK'
    BY <2>1, <2>2 DEF PollerInv, PollerTypeOK
  <2>4. EntriesFound'
    BY <2>1, <2>2 DEF PollerInv, EntriesFound, EntryOf
  <2>5. EpollFollows' /\ EpollKnows' /\ ActiveOnce'
    BY <2>1 DEF PollerInv, EpollFollows, EpollKnows, ActiveOnce
  <2>6. ~asserted'
    BY <2>1 DEF PollerInv
  <2> QED BY <2>3, <2>4, <2>5, <2>6 DEF PollerInv
<1>4. ASSUME NEW reported \in SUBSET Watched, PollChannels(reported) PROVE PollerInv'
  <2>1. ActiveOnce' /\ ~asserted'
    BY <1>4, PollChannelsActive
  <2>2. PollerTypeOK' /\ EntriesFound' /\ EpollFollows'
    BY <1>4 DEF PollChannels, PollerInv, PollerTypeOK, EntriesFound, EpollFollows, EntryOf
  <2>3. reported \subseteq chans /\ epIndex' = epIndex /\ chans' = chans
        /\ epAsserted' = (epAsserted \/ ~(reported \subseteq chans))
    BY <1>4 DEF PollChannels, Watched
  <2>4. (epAsserted \/ ~(reported \subseteq chans)) = FALSE
    BY <2>3, Zenon DEF PollerInv, EpollKnows
  <2>5. ~epAsserted'
    BY <2>3, <2>4, Zenon
  <2>6. EpollKnows'
    BY <2>3, <2>5 DEF PollerInv, EpollKnows
  <2> QED BY <2>1, <2>2, <2>6 DEF PollerInv
<1>5. ASSUME UNCHANGED pollerVars PROVE PollerInv'
  BY <1>5 DEF pollerVars, PollerInv, PollerTypeOK, EntriesFound, EpollFollows, EpollKnows, EntryOf,
     ActiveOnce
<1> QED BY <1>1, <1>2, <1>3, <1>4, <1>5 DEF PollerNext

\* PollPoller and EPollPoller, for any set of descriptors: through every
\* sequence of updates, removals and reuses of descriptors, both watch what the
\* channels asked for, index_ finds each channel's entry, no assertion of
\* either fails and a poll makes each reported channel active exactly once.
THEOREM PollersAlwaysWatch ==
  PollerSpec => []PollersWatchInterest
<1>1. PollerInv => PollersWatchInterest
  <2> SUFFICES ASSUME PollerInv PROVE PollersWatchInterest
    OBVIOUS
  <2>0. PollerTypeOK /\ EntriesFound /\ EpollFollows /\ EpollKnows /\ ActiveOnce /\ ~asserted
    BY DEF PollerInv
  <2>1. \A c \in chans : c \in Nat /\ index[c] \in Int
    BY <2>0, PollerAssumption DEF PollerTypeOK
  <2>2. \A c \in chans : EntryOf(c).fd \in {c, Ignored(c)}
    BY DEF EntryOf, Pfd
  <2>3. \A c \in chans : EntryOf(c).fd >= 0 <=> c \in Watched
    BY <2>1 DEF EntryOf, Pfd, Ignored, Watched
  <2>4. \A c \in Watched : EntryOf(c) = Pfd(c, events[c])
    BY DEF EntryOf, Watched
  <2>5. {pollfds[i] : i \in {j \in DOMAIN pollfds : pollfds[j].fd >= 0}}
          = {Pfd(c, events[c]) : c \in Watched}
    <3>1. ASSUME NEW i \in DOMAIN pollfds, pollfds[i].fd >= 0
          PROVE  \E c \in Watched : pollfds[i] = Pfd(c, events[c])
      <4>1. PICK c \in chans : i = index[c] + 1
        BY <2>0 DEF EntriesFound
      <4>2. pollfds[i] = EntryOf(c)
        BY <2>0, <4>1 DEF EntriesFound
      <4> QED BY <2>3, <2>4, <3>1, <4>2
    <3>2. ASSUME NEW c \in Watched
          PROVE  \E i \in DOMAIN pollfds : pollfds[i].fd >= 0 /\ pollfds[i] = Pfd(c, events[c])
      <4>1. c \in chans
        BY DEF Watched
      <4> QED BY <2>0, <2>3, <2>4, <4>1 DEF EntriesFound
    <3> QED BY <3>1, <3>2
  <2>6. \A c \in chans : /\ index[c] < Len(pollfds)
                         /\ pollfds[index[c] + 1].fd \in {c, Ignored(c)}
    <3> SUFFICES ASSUME NEW c \in chans
                 PROVE  /\ index[c] < Len(pollfds)
                        /\ pollfds[index[c] + 1].fd \in {c, Ignored(c)}
      OBVIOUS
    <3>1. Len(pollfds) \in Nat /\ DOMAIN pollfds = 1..Len(pollfds)
      BY <2>0, LenProperties DEF PollerTypeOK
    <3>2. index[c] + 1 \in DOMAIN pollfds /\ pollfds[index[c] + 1] = EntryOf(c)
      BY <2>0 DEF EntriesFound
    <3> QED BY <2>1, <2>2, <3>1, <3>2
  <2>7. Watched \subseteq DOMAIN epoll /\ DOMAIN epoll \subseteq chans
    BY <2>0 DEF EpollFollows, Watched, PollerTypeOK
  <2> QED BY <2>0, <2>5, <2>6, <2>7
          DEF PollersWatchInterest, EntriesFound, EpollFollows, EpollKnows, ActiveOnce
<1> QED BY <1>1, PollerInitInv, PollerNextInv, PTL DEF PollerSpec
=============================================================================
