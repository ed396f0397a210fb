----------------------------- MODULE TimerQueue -----------------------------
(***************************************************************************)
(* TimerQueue (net/TimerQueue.cc, Timer.cc): the timers of one loop, kept   *)
(* twice (by expiration in timers_, by identity in activeTimers_) and woken *)
(* by one timerfd.  Other threads add and cancel through timerFunctors; callbacks *)
(* add and cancel directly, in the middle of the batch being called.        *)
(*                                                                         *)
(* Times are ticks relative to the present: a Tick lowers them all, and a   *)
(* timer late by MaxLate or more counts as MaxLate late.  A Timer* is an    *)
(* address, which the allocator may hand out again after delete; a TimerId  *)
(* pairs it with the sequence number of the timer.  On another thread        *)
(* addTimer reads that number only after it has queued the timer, when the   *)
(* loop may have run and deleted it: the TimerId it returns then holds        *)
(* whatever is at the address.                                               *)
(***************************************************************************)
EXTENDS Integers, Sequences, FiniteSets

CONSTANTS
  Addrs,        \* heap cells for Timer objects
  Kinds,        \* pairs of delay and interval of new timers, in ticks; interval 0
                \* for a timer that runs once
  MaxTimers,    \* bound on the timers created
  MaxPending,   \* bound on the functors waiting in the loop, and on the calls of
                \* addTimer under way at a time
  Residue,      \* sequence numbers that the memory of a deleted Timer may hold
                \* besides the one it had
  MaxLate       \* lateness beyond which expirations are not told apart

ASSUME TimerAssumption ==
  /\ Kinds \subseteq Nat \X Nat
  /\ Residue \subseteq Nat
  /\ MaxTimers \in Nat /\ MaxPending \in Nat /\ MaxLate \in Nat \ {0}

VARIABLES
  heap,         \* the Timer objects
  timers,       \* timers_: entries <<expiration, address>>
  activeTimers, \* activeTimers_: identities <<address, sequence>>
  canceling,    \* cancelingTimers_
  callingExpired, \* callingExpiredTimers_
  batch,        \* expired, the vector of handleRead, which is in the order of timers_
  toRun,        \* entries of the batch not called yet
  elapsed,      \* ticks since handleRead took the time, while callbacks run
  fd,           \* ticks until the timerfd expires, 0 once readable
  timerFunctors, \* functors queued by other threads
  created,      \* s_numCreated_
  adding,       \* timers queued by calls of addTimer that did not return yet
  known,        \* history: what addTimer returned, each TimerId with the timer
                \* it was returned for
  inserted,     \* history: timers addTimerInLoop has seen
  cancelled,    \* history: inserted timers a cancel of theirs has reached
  called        \* history: TimerIds whose callback was called

queueVars == <<timers, activeTimers, canceling, fd>>
readVars == <<callingExpired, batch, toRun, elapsed>>
idVars == <<created, adding, known>>
timerVars == <<heap, queueVars, readVars, timerFunctors, idVars, inserted,
               cancelled, called>>

Free == [when |-> 0, interval |-> 0, seq |-> 0]
Disarmed == -1
Late(t) == IF t < -MaxLate THEN -MaxLate ELSE t
DueAt(timer, when) == [timer EXCEPT !.when = when]

\* std::set order of the entries; addresses are small numbers.
Before(e, f) == e[1] < f[1] \/ (e[1] = f[1] /\ e[2] < f[2])
Earliest(ts) == CHOOSE e \in ts : \A f \in ts \ {e} : Before(e, f)
TimerId(a, n) == <<a, n>>
IdOf(e) == TimerId(e[2], heap[e[2]].seq)

\* resetTimerfd: timerfd_settime to the expiration, at least 100 us from now
\* (howMuchTimeFromNow), here one tick.
ResetTimerfd(when) == IF when < 1 THEN 1 ELSE when

-----------------------------------------------------------------------------
(* addTimer and cancel *)

\* new Timer, with its sequence number.
New(a, kind) ==
  /\ created < MaxTimers
  /\ heap[a] = Free
  /\ created' = created + 1
  /\ heap' = [heap EXCEPT ![a] = [when |-> kind[1], interval |-> kind[2],
                                  seq |-> created + 1]]

\* addTimerInLoop, with insert.
AddTimerInLoop(a, timer) ==
  LET earliestChanged == timers = {} \/ timer.when < Earliest(timers)[1]
  IN /\ timers' = timers \cup {<<timer.when, a>>}
     /\ activeTimers' = activeTimers \cup {TimerId(a, timer.seq)}
     /\ fd' = IF earliestChanged THEN ResetTimerfd(timer.when) ELSE fd
     /\ inserted' = inserted \cup {TimerId(a, timer.seq)}
     /\ UNCHANGED <<canceling, cancelled>>

\* Faulty: a cancel in the middle of the batch is not remembered.
ForgetCancel(id) == canceling

\* cancelInLoop.  A cancel that overtakes the functor adding the timer finds
\* nothing and is forgotten, which is why it is not counted in cancelled.
RememberCancel(id) == IF callingExpired THEN canceling \cup {id} ELSE canceling
IsActive(id) == id \in activeTimers
CancelInLoop(id, own) ==
  /\ cancelled' = cancelled \cup ({own} \cap inserted)
  /\ IF IsActive(id)
     THEN /\ timers' = timers \ {<<heap[id[1]].when, id[1]>>}
          /\ activeTimers' = activeTimers \ {TimerId(id[1], heap[id[1]].seq)}
          /\ heap' = [heap EXCEPT ![id[1]] = Free]
          /\ UNCHANGED canceling
     ELSE /\ canceling' = RememberCancel(id)
          /\ UNCHANGED <<timers, activeTimers, heap>>
  /\ UNCHANGED <<fd, inserted>>

\* Another thread calls addTimer: runInLoop queues a functor.
AddTimer(a, kind) ==
  LET own == TimerId(a, created + 1)
  IN /\ Len(timerFunctors) < MaxPending /\ Cardinality(adding) < MaxPending
     /\ New(a, kind)
     /\ timerFunctors' = Append(timerFunctors, [add |-> TRUE, id |-> own, own |-> own])
     /\ adding' = adding \cup {own}
     /\ UNCHANGED <<queueVars, readVars, known, inserted, cancelled, called>>

\* The rest of addTimer: the TimerId gets the sequence number now at the
\* address, which is that of a later timer there, or whatever is left in the
\* memory when there is none.
SequenceAt(own) ==
  IF heap[own[1]] # Free THEN {heap[own[1]].seq} ELSE {own[2]} \cup Residue
AddTimerReturns(own) ==
  /\ adding' = adding \ {own}
  /\ \E n \in SequenceAt(own) :
       known' = known \cup {[id |-> TimerId(own[1], n), own |-> own]}
  /\ UNCHANGED <<heap, queueVars, readVars, timerFunctors, created, inserted,
                 cancelled, called>>

\* Another thread cancels the timer of k.
Cancel(k) ==
  /\ Len(timerFunctors) < MaxPending
  /\ timerFunctors' = Append(timerFunctors, [add |-> FALSE, id |-> k.id, own |-> k.own])
  /\ UNCHANGED <<heap, queueVars, readVars, idVars, inserted, cancelled, called>>

\* The loop thread calls a queued functor, outside handleRead.
RunAdd ==
  /\ ~callingExpired /\ timerFunctors # <<>> /\ Head(timerFunctors).add
  /\ timerFunctors' = Tail(timerFunctors)
  /\ LET a == Head(timerFunctors).id[1] IN AddTimerInLoop(a, heap[a])
  /\ UNCHANGED <<heap, readVars, idVars, called>>

RunCancel ==
  /\ ~callingExpired /\ timerFunctors # <<>> /\ ~Head(timerFunctors).add
  /\ timerFunctors' = Tail(timerFunctors)
  /\ CancelInLoop(Head(timerFunctors).id, Head(timerFunctors).own)
  /\ UNCHANGED <<readVars, idVars, called>>

-----------------------------------------------------------------------------
(* handleRead *)

\* handleRead up to the callbacks: readTimerfd, getExpired.
HandleTimerfd ==
  LET expired == {e \in timers : e[1] <= 0}
  IN /\ ~callingExpired
     /\ fd = 0
     /\ fd' = Disarmed
     /\ elapsed' = 0
     /\ batch' = expired /\ toRun' = expired
     /\ timers' = timers \ expired
     /\ activeTimers' = activeTimers \ {IdOf(e) : e \in expired}
     /\ callingExpired' = TRUE
     /\ canceling' = {}
     /\ UNCHANGED <<heap, timerFunctors, idVars, inserted, cancelled, called>>

\* run() of the next timer, whose callback may add or cancel a timer.
RunNext ==
  /\ callingExpired /\ toRun # {}
  /\ toRun' = toRun \ {Earliest(toRun)}
  /\ called' = called \cup {IdOf(Earliest(toRun))}
  /\ UNCHANGED <<callingExpired, batch, elapsed, timerFunctors>>

RunTimer == RunNext /\ UNCHANGED <<heap, queueVars, idVars, inserted, cancelled>>
RunTimerThatAdds(a, kind) ==
  /\ RunNext
  /\ New(a, kind)
  /\ LET own == TimerId(a, created + 1)
     IN known' = known \cup {[id |-> own, own |-> own]} /\ UNCHANGED adding
  /\ AddTimerInLoop(a, heap'[a])
RunTimerThatCancels(k) == RunNext /\ CancelInLoop(k.id, k.own) /\ UNCHANGED idVars

\* Faulty: the timerfd is left to the next addTimer.
RearmNever(ts) == fd

Rearm(ts) == IF ts = {} THEN fd ELSE ResetTimerfd(Earliest(ts)[1])

\* reset: a repeating timer that was not cancelled meanwhile is restarted from
\* the time of handleRead and inserted, the others are deleted, and the timerfd
\* is armed for the earliest entry.
Reset ==
  LET Again(e) == heap[e[2]].interval > 0 /\ IdOf(e) \notin canceling
      again == {e \in batch : Again(e)}
      Restarted(a) == Late(heap[a].interval - elapsed)
  IN /\ callingExpired /\ toRun = {}
     /\ callingExpired' = FALSE
     /\ heap' = [a \in Addrs |->
                   CASE \E e \in again : e[2] = a ->
                          DueAt(heap[a], Restarted(a))
                     [] \E e \in batch \ again : e[2] = a -> Free
                     [] OTHER -> heap[a]]
     /\ timers' = timers \cup {<<Restarted(e[2]), e[2]>> : e \in again}
     /\ activeTimers' = activeTimers \cup {IdOf(e) : e \in again}
     /\ fd' = Rearm(timers')
     /\ batch' = {} /\ elapsed' = 0
     /\ UNCHANGED <<toRun, canceling, timerFunctors, idVars, inserted,
                    cancelled, called>>

\* The clock.  The timerfd becomes readable when its time has come.
Tick ==
  /\ heap' = [a \in Addrs |->
                IF heap[a] = Free THEN Free
                ELSE DueAt(heap[a], Late(heap[a].when - 1))]
  /\ timers' = {<<Late(e[1] - 1), e[2]>> : e \in timers}
  /\ fd' = IF fd <= 0 THEN fd ELSE fd - 1
  /\ elapsed' = IF callingExpired /\ elapsed < MaxLate THEN elapsed + 1 ELSE elapsed
  /\ UNCHANGED <<activeTimers, canceling, callingExpired, batch, toRun, timerFunctors,
                 idVars, inserted, cancelled, called>>

-----------------------------------------------------------------------------
TimerInit ==
  /\ heap = [a \in Addrs |-> Free]
  /\ timers = {} /\ activeTimers = {} /\ canceling = {}
  /\ callingExpired = FALSE /\ batch = {} /\ toRun = {} /\ elapsed = 0
  /\ fd = Disarmed
  /\ timerFunctors = <<>>
  /\ created = 0 /\ adding = {} /\ known = {}
  /\ inserted = {} /\ cancelled = {} /\ called = {}

Callbacks ==
  \/ RunTimer
  \/ \E a \in Addrs, k \in Kinds : RunTimerThatAdds(a, k)
  \/ \E k \in known : RunTimerThatCancels(k)
  \/ Reset

TimerNext ==
  \/ \E a \in Addrs, k \in Kinds : AddTimer(a, k)
  \/ \E own \in adding : AddTimerReturns(own)
  \/ \E k \in known : Cancel(k)
  \/ RunAdd
  \/ RunCancel
  \/ HandleTimerfd
  \/ Callbacks
  \/ Tick

\* The loop handles a readable timerfd in its next iteration, callbacks return,
\* and time passes.  Nothing is assumed of the
\* callers.
TimerSpec ==
  /\ TimerInit /\ [][TimerNext]_timerVars
  /\ WF_timerVars(HandleTimerfd)
  /\ WF_timerVars(Callbacks)
  /\ WF_timerVars(Tick)

-----------------------------------------------------------------------------
(* Properties *)

\* timers_ and activeTimers_ hold the same timers, each under the expiration
\* its Timer object has (what the assertions of TimerQueue.cc and the erase of
\* cancelInLoop rely on) through adds, restarts, cancels and address reuse; and
\* no Timer of the batch is deleted while its callbacks run.
TimersConsistent ==
  /\ \A e \in timers : heap[e[2]] # Free /\ heap[e[2]].when = e[1]
  /\ activeTimers = {IdOf(e) : e \in timers}
  /\ \A e \in batch : heap[e[2]] # Free

\* The timers addTimer has returned the TimerId of to the caller that added
\* another one.
Mistaken == {k.id : k \in {j \in known : j.id # j.own}}

\* A cancelled timer is out of the queue for good, also when the cancel comes
\* from a callback of its own batch (cancelingTimers_).  And what leaves
\* activeTimers_ other than by expiring was cancelled itself: a cancel with the
\* TimerId of a deleted timer takes out no other timer at the same address,
\* unless addTimer read that TimerId when its own timer was deleted already.
CancelIsExact ==
  /\ cancelled \cap activeTimers = {}
  /\ \A id \in inserted :
       id \in activeTimers \/ id \in cancelled \/ id \in called
         \/ id \in Mistaken \/ \E e \in toRun : IdOf(e) = id

\* A TimerId names another timer than the one it was returned for only when
\* that one is deleted: whoever added a timer that is still there can cancel it.
MistakenIsGone == \A k \in known : k.id = k.own \/ heap[k.own[1]].seq # k.own[2]

\* The queue is consistent, and cancelling does what it says, no more and no
\* less, where addTimer returned the TimerId of the timer it added.
TimersSound == TimersConsistent /\ CancelIsExact /\ MistakenIsGone

\* Every timer that was added runs, unless it was cancelled, by the caller that
\* added it or by one that got its TimerId by mistake: the timerfd is never
\* left armed for a later one only, nor not at all.
TimerRuns ==
  LET Has(ids, n) == \E id \in ids : id[2] = n
  IN \A n \in 1..MaxTimers : Has(inserted, n) ~> Has(called \cup cancelled \cup Mistaken, n)
=============================================================================
