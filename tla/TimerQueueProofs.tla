-------------------------- MODULE TimerQueueProofs --------------------------
(***************************************************************************)
(* Proofs about TimerQueue, for any heap, any delays and intervals and any  *)
(* number of timers: the two sets of timers agree, no timer is deleted      *)
(* while its batch runs, and cancelling is exact, up to the TimerIds that    *)
(* addTimer read when their timer was deleted.                              *)
(***************************************************************************)
EXTENDS TimerQueue, SequenceTheorems, TLAPS

Timer == [when : Int, interval : Nat, seq : Nat]
Ids == Addrs \X Nat
Entries == Int \X Addrs
Returned == [id : Ids, own : Ids]
Functor == [add : BOOLEAN, id : Ids, own : Ids]

\* The variables the invariants speak of have their types.
TimerTypes ==
  /\ heap \in [Addrs -> Timer]
  /\ timers \subseteq Entries /\ batch \subseteq Entries /\ toRun \subseteq batch
  /\ timerFunctors \in Seq(Functor)
  /\ created \in Nat /\ elapsed \in Nat
  /\ callingExpired \in BOOLEAN
  /\ adding \subseteq Ids /\ known \subseteq Returned /\ inserted \subseteq Ids

\* Sequence numbers tell timers apart: a live one has a number, and those of the
\* timers added so far are no greater than the last one given out.
Given(n, last) == 0 < n /\ n <= last
Numbered ==
  /\ \A a \in Addrs : heap[a] # Free => 0 < heap[a].seq
  /\ \A id \in adding \cup inserted : Given(id[2], created)
  /\ \A k \in known : Given(k.own[2], created)
  /\ cancelled \subseteq inserted

\* An entry of timers_ or of the batch is a live timer that was inserted, and
\* no timer is twice among them.
EntriesLive ==
  /\ \A e \in timers \cup batch : heap[e[2]] # Free /\ IdOf(e) \in inserted
  /\ \A e \in timers : heap[e[2]].when = e[1]
  /\ \A e, f \in batch : e[2] = f[2] => e = f
  /\ \A e \in timers, f \in batch : e[2] # f[2]
  /\ ~callingExpired => batch = {}

\* activeTimers_ holds the identities of timers_.
ActiveAgrees ==
  /\ \A e \in timers : IdOf(e) \in activeTimers
  /\ \A id \in activeTimers : \E e \in timers : id = IdOf(e)

\* Of the functors fs, those that add a timer carry a live one that is not
\* inserted, each another one, and the others carry what addTimer returned.
Carried(fs) ==
  /\ \A i \in DOMAIN fs : fs[i].add =>
       /\ fs[i].id \notin inserted /\ Given(fs[i].id[2], created)
       /\ heap[fs[i].id[1]].seq = fs[i].id[2]
  /\ \A i, j \in DOMAIN fs : fs[i].add /\ fs[j].add /\ fs[i].id = fs[j].id => i = j
  /\ \A i \in DOMAIN fs : ~fs[i].add =>
       \E k \in known : k.id = fs[i].id /\ k.own = fs[i].own
AddsPending == Carried(timerFunctors)

\* A cancelled timer is out of timers_, and if the batch has it, remembered.
CancelRemembered ==
  /\ \A e \in timers : IdOf(e) \notin cancelled
  /\ \A e \in batch : IdOf(e) \in cancelled => IdOf(e) \in canceling

\* An inserted timer is in the queue, was cancelled or ran, or is about to.
InsertedAccounted ==
  \A id \in inserted : \/ id \in activeTimers \/ id \in cancelled \/ id \in called
                       \/ id \in Mistaken
                       \/ \E e \in toRun : IdOf(e) = id

\* The inductive invariant.
TimerInv ==
  /\ TimerTypes /\ Numbered /\ EntriesLive /\ ActiveAgrees /\ AddsPending
  /\ CancelRemembered /\ InsertedAccounted /\ MistakenIsGone

-----------------------------------------------------------------------------
(* Facts about the operators *)

\* A free cell is a Timer without a number.
LEMMA FreeFacts == Free \in Timer /\ Free.seq = 0
  BY DEF Free, Timer

\* Lateness is cut off at an integer.
LEMMA LateInt == \A t \in Int : Late(t) \in Int
  BY TimerAssumption DEF Late

\* The addresses of entries and identities.
LEMMA Parts ==
  ASSUME TimerTypes
  PROVE  /\ \A e \in timers \cup batch : e \in Entries /\ e[2] \in Addrs /\ e = <<e[1], e[2]>>
         /\ \A id \in adding \cup inserted : id[1] \in Addrs /\ id[2] \in Nat /\ id = <<id[1], id[2]>>
         /\ \A k \in known : /\ k.id \in Ids /\ k.own \in Ids
                              /\ k.own[1] \in Addrs /\ k.own[2] \in Nat
                              /\ k.own = <<k.own[1], k.own[2]>>
         /\ \A i \in DOMAIN timerFunctors :
              /\ timerFunctors[i] \in Functor
              /\ timerFunctors[i].id \in Ids /\ timerFunctors[i].own \in Ids
              /\ timerFunctors[i].id[1] \in Addrs /\ timerFunctors[i].id[2] \in Nat
              /\ timerFunctors[i].id = <<timerFunctors[i].id[1], timerFunctors[i].id[2]>>
<1>1. \A e \in timers \cup batch : e \in Entries /\ e[2] \in Addrs /\ e = <<e[1], e[2]>>
  BY DEF TimerTypes, Entries
<1>2. \A id \in Ids : id[1] \in Addrs /\ id[2] \in Nat /\ id = <<id[1], id[2]>>
  BY DEF Ids
<1>3. \A i \in DOMAIN timerFunctors : timerFunctors[i] \in Functor
  BY ElementOfSeq, LenProperties DEF TimerTypes
<1>4. \A i \in DOMAIN timerFunctors : timerFunctors[i].id \in Ids /\ timerFunctors[i].own \in Ids
  BY <1>3 DEF Functor
<1>5. \A k \in known : k.id \in Ids /\ k.own \in Ids
  BY DEF TimerTypes, Returned
<1>6. \A id \in adding \cup inserted : id \in Ids
  BY DEF TimerTypes
<1> QED BY <1>1, <1>2, <1>3, <1>4, <1>5, <1>6

\* Timers that keep their numbers or are deleted leave the mistaken TimerIds
\* mistaken.
LEMMA GoneStays ==
  ASSUME TimerInv, known' = known,
         \A a \in Addrs : heap'[a].seq = heap[a].seq \/ heap'[a] = Free
  PROVE  MistakenIsGone'
<1> SUFFICES ASSUME NEW k \in known, k.id # k.own, heap'[k.own[1]].seq = k.own[2]
             PROVE  FALSE
  BY DEF MistakenIsGone
<1>1. heap[k.own[1]].seq # k.own[2]
  BY DEF TimerInv, MistakenIsGone
<1>2. 0 < k.own[2] /\ k.own[1] \in Addrs
  BY Parts DEF TimerInv, Numbered, Given
<1> QED BY <1>1, <1>2, FreeFacts

\* new Timer takes a cell that no entry and no pending add names, and a number
\* that no TimerId has.
LEMMA NewFacts ==
  ASSUME TimerInv, NEW a \in Addrs, NEW kind \in Kinds, New(a, kind)
  PROVE  /\ heap' \in [Addrs -> Timer]
         /\ created' = created + 1 /\ created' \in Nat
         /\ <<a, created + 1>> \in Ids
         /\ <<a, created + 1>> \notin adding \cup inserted
         /\ \A b \in Addrs : b # a => heap'[b] = heap[b]
         /\ heap'[a].seq = created + 1 /\ heap'[a] # Free
         /\ \A e \in timers \cup batch : e[2] # a
         /\ \A i \in DOMAIN timerFunctors : timerFunctors[i].add => timerFunctors[i].id[1] # a
         /\ \A b \in Addrs : heap'[b] # Free => 0 < heap'[b].seq
         /\ \A n \in Nat : Given(n, created) => Given(n, created') /\ n # created + 1
         /\ Given(created + 1, created')
         /\ known' \ known \subseteq {k \in Returned : k.id = k.own /\ k.own = <<a, created + 1>>}
              => MistakenIsGone'
<1> USE DEF TimerInv, TimerTypes
<1>1. /\ heap[a] = Free
      /\ created' = created + 1
      /\ heap' = [heap EXCEPT ![a] = [when |-> kind[1], interval |-> kind[2],
                                      seq |-> created + 1]]
  BY DEF New
<1>2. kind[1] \in Nat /\ kind[2] \in Nat
  BY TimerAssumption
<1>3. [when |-> kind[1], interval |-> kind[2], seq |-> created + 1] \in Timer
  BY <1>2 DEF Timer
<1>4. /\ heap' \in [Addrs -> Timer]
      /\ heap'[a] = [when |-> kind[1], interval |-> kind[2], seq |-> created + 1]
      /\ \A b \in Addrs : b # a => heap'[b] = heap[b]
  BY <1>1, <1>3
<1>5. heap'[a].seq = created + 1
  BY <1>4
<1>6. created + 1 \in Nat /\ 0 < created + 1 /\ created + 1 # created
  OBVIOUS
<1>7. heap'[a] # Free
  BY <1>5, <1>6, FreeFacts
<1>8. <<a, created + 1>> \in Ids /\ <<a, created + 1>> \notin adding \cup inserted
  <2>1. ~Given(created + 1, created) /\ <<a, created + 1>>[2] = created + 1
    BY DEF Given
  <2> QED BY <2>1 DEF Ids, Numbered
<1>9. \A e \in timers \cup batch : e[2] # a
  BY <1>1 DEF EntriesLive
<1>10. \A i \in DOMAIN timerFunctors : timerFunctors[i].add => timerFunctors[i].id[1] # a
  <2> SUFFICES ASSUME NEW i \in DOMAIN timerFunctors, timerFunctors[i].add, timerFunctors[i].id[1] = a
               PROVE  FALSE
    OBVIOUS
  <2>1. heap[a].seq = timerFunctors[i].id[2] /\ Given(timerFunctors[i].id[2], created)
    BY DEF AddsPending, Carried
  <2> QED BY <1>1, <2>1, FreeFacts DEF Given
<1>11. \A b \in Addrs : heap'[b] # Free => 0 < heap'[b].seq
  BY <1>4, <1>5, <1>6 DEF Numbered
<1>12. (\A n \in Nat : Given(n, created) => Given(n, created') /\ n # created + 1) /\ Given(created + 1, created')
  <2>1. created \in Nat /\ created' = created + 1
    BY <1>1
  <2>2. \A n \in Nat : n <= created => n <= created' /\ n # created + 1
    BY <2>1
  <2>3. 0 < created + 1 /\ created + 1 <= created'
    BY <2>1
  <2> QED BY <2>2, <2>3 DEF Given
<1>13. ASSUME known' \ known \subseteq {k \in Returned : k.id = k.own /\ k.own = <<a, created + 1>>}
       PROVE  MistakenIsGone'
  <2> SUFFICES ASSUME NEW k \in known', k.id # k.own, heap'[k.own[1]].seq = k.own[2]
               PROVE  FALSE
    BY DEF MistakenIsGone
  <2>1. k \in known
    BY <1>13
  <2>2. heap[k.own[1]].seq # k.own[2] /\ Given(k.own[2], created) /\ k.own[1] \in Addrs /\ k.own[2] \in Nat
    BY <2>1, Parts DEF MistakenIsGone, Numbered
  <2> QED BY <1>4, <1>5, <1>12, <2>2
<1> QED BY <1>1, <1>4, <1>5, <1>6, <1>7, <1>8, <1>9, <1>10, <1>11, <1>12, <1>13

-----------------------------------------------------------------------------
(* Each step keeps the invariant *)

\* A timer is created and its functor queued.
LEMMA AddTimerInv ==
  ASSUME TimerInv, NEW a \in Addrs, NEW kind \in Kinds, AddTimer(a, kind)
  PROVE  TimerInv'
<1> USE DEF TimerInv
<1> DEFINE id0 == <<a, created + 1>>
           x == [add |-> TRUE, id |-> id0, own |-> id0]
           k == Len(timerFunctors)
<1>1. /\ New(a, kind)
      /\ timerFunctors' = Append(timerFunctors, x)
      /\ adding' = adding \cup {id0}
      /\ UNCHANGED <<timers, activeTimers, canceling, callingExpired, batch, toRun, elapsed,
                     known, inserted, cancelled, called>>
  BY DEF AddTimer, queueVars, readVars, TimerId
<1>2. /\ heap' \in [Addrs -> Timer]
      /\ created' = created + 1 /\ created' \in Nat
      /\ id0 \in Ids /\ id0 \notin adding \cup inserted
      /\ \A b \in Addrs : b # a => heap'[b] = heap[b]
      /\ heap'[a].seq = created + 1 /\ heap'[a] # Free
      /\ \A e \in timers \cup batch : e[2] # a
      /\ \A i \in DOMAIN timerFunctors : timerFunctors[i].add => timerFunctors[i].id[1] # a
      /\ \A b \in Addrs : heap'[b] # Free => 0 < heap'[b].seq
      /\ \A n \in Nat : Given(n, created) => Given(n, created') /\ n # created + 1
      /\ Given(created + 1, created')
      /\ MistakenIsGone'
  BY <1>1, NewFacts
<1>3. x \in Functor /\ x.add = TRUE /\ x.id = id0 /\ id0[1] = a /\ id0[2] = created + 1
  <2>1. TRUE \in BOOLEAN
    BY Zenon
  <2> QED BY <1>2, <2>1 DEF Functor
<1>4. /\ k \in Nat /\ timerFunctors' \in Seq(Functor) /\ DOMAIN timerFunctors' = 1..(k + 1)
      /\ DOMAIN timerFunctors = 1..k
      /\ \A i \in 1..k : timerFunctors'[i] = timerFunctors[i]
      /\ timerFunctors'[k + 1] = x
  BY <1>1, <1>3, AppendProperties, LenProperties DEF TimerTypes
<1> HIDE DEF id0, x, k
<1>5. TimerTypes'
  BY <1>1, <1>2, <1>4 DEF TimerTypes
<1>6. Numbered'
  <2>1. \A id \in adding' \cup inserted : Given(id[2], created')
    <3>1. \A id \in adding \cup inserted : Given(id[2], created')
      BY <1>2, Parts DEF Numbered
    <3>2. Given(id0[2], created')
      BY <1>2, <1>3 DEF Given
    <3> QED BY <1>1, <3>1, <3>2
  <2>2. \A j \in known : Given(j.own[2], created')
    BY <1>2, Parts DEF Numbered
  <2> QED BY <1>1, <1>2, <2>1, <2>2 DEF Numbered
<1>7. \A e \in timers \cup batch : e[2] \in Addrs /\ e[2] # a /\ heap'[e[2]] = heap[e[2]]
                                   /\ IdOf(e)' = IdOf(e)
  BY <1>2, Parts DEF IdOf, TimerId
<1>8. EntriesLive'
  BY <1>1, <1>7 DEF EntriesLive
<1>9. ActiveAgrees'
  BY <1>1, <1>7 DEF ActiveAgrees
<1>10. AddsPending'
  <2>1. \A i \in 1..k : timerFunctors[i].add =>
          /\ timerFunctors[i].id \notin inserted /\ timerFunctors[i].id # id0
          /\ Given(timerFunctors[i].id[2], created')
          /\ heap'[timerFunctors[i].id[1]].seq = timerFunctors[i].id[2]
    BY <1>2, <1>3, <1>4, Parts DEF AddsPending, Carried
  <2>2. \A i \in 1..(k + 1) : i \in 1..k \/ i = k + 1
    BY <1>4
  <2>3. \A i \in 1..(k + 1) : timerFunctors'[i].add =>
          /\ timerFunctors'[i].id \notin inserted'
          /\ Given(timerFunctors'[i].id[2], created')
          /\ heap'[timerFunctors'[i].id[1]].seq = timerFunctors'[i].id[2]
    <3> SUFFICES ASSUME NEW i \in 1..(k + 1), timerFunctors'[i].add
                 PROVE  /\ timerFunctors'[i].id \notin inserted'
                        /\ Given(timerFunctors'[i].id[2], created')
                        /\ heap'[timerFunctors'[i].id[1]].seq = timerFunctors'[i].id[2]
      OBVIOUS
    <3>1. CASE i \in 1..k
      BY <1>1, <1>4, <2>1, <3>1 DEF Given
    <3>2. CASE i = k + 1
      BY <1>1, <1>2, <1>3, <1>4, <3>2 DEF Given
    <3> QED BY <2>2, <3>1, <3>2
  <2>4. \A i, j \in 1..(k + 1) : timerFunctors'[i].add /\ timerFunctors'[j].add
                                  /\ timerFunctors'[i].id = timerFunctors'[j].id => i = j
    BY <1>3, <1>4, <2>1, <2>2 DEF AddsPending, Carried
  <2>5. \A i \in 1..(k + 1) : ~timerFunctors'[i].add =>
          \E j \in known' : j.id = timerFunctors'[i].id /\ j.own = timerFunctors'[i].own
    BY <1>1, <1>3, <1>4, <2>2 DEF AddsPending, Carried
  <2> QED BY <1>4, <2>3, <2>4, <2>5 DEF AddsPending, Carried, Given
<1>11. CancelRemembered'
  BY <1>1, <1>7 DEF CancelRemembered
<1>12. InsertedAccounted'
  <2>1. Mistaken' = Mistaken
    BY <1>1 DEF Mistaken
  <2> QED BY <1>1, <1>7, <2>1 DEF InsertedAccounted, TimerTypes
<1> QED BY <1>2, <1>5, <1>6, <1>8, <1>9, <1>10, <1>11, <1>12

\* addTimer returns the TimerId of its timer, or a mistaken one when that timer
\* is deleted.
LEMMA AddTimerReturnsInv ==
  ASSUME TimerInv, NEW own \in adding, AddTimerReturns(own)
  PROVE  TimerInv'
<1> USE DEF TimerInv
<1>1. PICK n \in SequenceAt(own) :
        known' = known \cup {[id |-> <<own[1], n>>, own |-> own]}
  BY DEF AddTimerReturns, TimerId
<1>2. /\ adding' = adding \ {own}
      /\ UNCHANGED <<heap, timers, activeTimers, canceling, fd, callingExpired, batch, toRun,
                     elapsed, timerFunctors, created, inserted, cancelled, called>>
  BY DEF AddTimerReturns, queueVars, readVars
<1> DEFINE new == [id |-> <<own[1], n>>, own |-> own]
<1>3. own[1] \in Addrs /\ own[2] \in Nat /\ own = <<own[1], own[2]>> /\ Given(own[2], created)
  BY Parts DEF Numbered
<1>4. n \in Nat /\ (n = own[2] \/ heap[own[1]].seq # own[2])
  <2>1. CASE heap[own[1]] # Free
    BY <1>3, <2>1 DEF SequenceAt, TimerTypes, Timer
  <2>2. CASE heap[own[1]] = Free
    BY <1>3, <2>2, FreeFacts, TimerAssumption DEF SequenceAt, Given
  <2> QED BY <2>1, <2>2
<1>5. new \in Returned /\ new.own = own /\ (new.id = own \/ heap[own[1]].seq # own[2])
  <2>1. <<own[1], n>> \in Ids
    BY <1>3, <1>4 DEF Ids
  <2>2. own \in Ids
    BY DEF TimerTypes
  <2>3. n = own[2] => <<own[1], n>> = own
    BY <1>3
  <2> QED BY <1>4, <2>1, <2>2, <2>3 DEF Returned
<1> HIDE DEF new
<1>6. known' = known \cup {new} /\ known \subseteq known'
  BY <1>1 DEF new
<1>7. \A e : IdOf(e)' = IdOf(e)
  BY <1>2 DEF IdOf, TimerId
<1>8. created' = created
  BY <1>2
<1>9. TimerTypes'
  BY <1>2, <1>5, <1>6 DEF TimerTypes
<1>10. Numbered'
  BY <1>2, <1>3, <1>5, <1>6, <1>8 DEF Numbered
<1>11. EntriesLive' /\ ActiveAgrees' /\ CancelRemembered'
  BY <1>2, <1>7 DEF EntriesLive, ActiveAgrees, CancelRemembered
<1>12. AddsPending'
  BY <1>2, <1>6, <1>8 DEF AddsPending, Carried
<1>13. InsertedAccounted'
  <2>1. Mistaken \subseteq Mistaken'
    BY <1>6 DEF Mistaken
  <2> QED BY <1>2, <1>7, <2>1 DEF InsertedAccounted
<1>14. MistakenIsGone'
  BY <1>2, <1>5, <1>6 DEF MistakenIsGone
<1> QED BY <1>9, <1>10, <1>11, <1>12, <1>13, <1>14

\* A cancel is queued.
LEMMA CancelInv ==
  ASSUME TimerInv, NEW k \in known, Cancel(k)
  PROVE  TimerInv'
<1> USE DEF TimerInv
<1> DEFINE x == [add |-> FALSE, id |-> k.id, own |-> k.own]
           m == Len(timerFunctors)
<1>1. /\ timerFunctors' = Append(timerFunctors, x)
      /\ UNCHANGED <<heap, timers, activeTimers, canceling, fd, callingExpired, batch, toRun,
                     elapsed, created, adding, known, inserted, cancelled, called>>
  BY DEF Cancel, queueVars, readVars, idVars
<1>2. x \in Functor /\ x.add = FALSE /\ x.id = k.id /\ x.own = k.own
  <2>1. FALSE \in BOOLEAN
    BY Zenon
  <2> QED BY <2>1, Parts DEF Functor
<1>3. /\ m \in Nat /\ timerFunctors' \in Seq(Functor) /\ DOMAIN timerFunctors' = 1..(m + 1)
      /\ DOMAIN timerFunctors = 1..m
      /\ \A i \in 1..m : timerFunctors'[i] = timerFunctors[i]
      /\ timerFunctors'[m + 1] = x
  BY <1>1, <1>2, AppendProperties, LenProperties DEF TimerTypes
<1> HIDE DEF x, m
<1>4. \A i \in 1..(m + 1) : i \in 1..m \/ i = m + 1
  BY <1>3
<1>5. TimerTypes'
  BY <1>1, <1>3 DEF TimerTypes
<1>7. (\A e : IdOf(e)' = IdOf(e)) /\ created' = created /\ Mistaken' = Mistaken
  BY <1>1 DEF IdOf, TimerId, Mistaken
<1>6. AddsPending'
  <2>1. \A i \in 1..(m + 1) : timerFunctors'[i].add => i \in 1..m
    BY <1>2, <1>3, <1>4
  <2>2. \A i \in 1..(m + 1) : ~timerFunctors'[i].add =>
          \E j \in known : j.id = timerFunctors'[i].id /\ j.own = timerFunctors'[i].own
    BY <1>2, <1>3, <1>4 DEF AddsPending, Carried
  <2> QED BY <1>1, <1>3, <1>7, <2>1, <2>2 DEF AddsPending, Carried
<1>8. Numbered' /\ EntriesLive' /\ ActiveAgrees' /\ CancelRemembered' /\ InsertedAccounted'
  BY <1>1, <1>7 DEF Numbered, EntriesLive, ActiveAgrees, CancelRemembered, InsertedAccounted
<1>9. MistakenIsGone'
  BY <1>1 DEF MistakenIsGone
<1> QED BY <1>5, <1>6, <1>8, <1>9

\* The first functor leaves the queue.
LEMMA FunctorTaken ==
  ASSUME TimerInv, timerFunctors # <<>>
  PROVE  /\ Head(timerFunctors) = timerFunctors[1] /\ 1 \in DOMAIN timerFunctors
         /\ Tail(timerFunctors) \in Seq(Functor)
         /\ Carried(Tail(timerFunctors))
         /\ \A i \in DOMAIN Tail(timerFunctors) :
              timerFunctors[1].add /\ Tail(timerFunctors)[i].add => Tail(timerFunctors)[i].id # timerFunctors[1].id
<1>1. timerFunctors \in Seq(Functor)
  BY DEF TimerInv, TimerTypes
<1>2. /\ Tail(timerFunctors) \in Seq(Functor)
      /\ Len(Tail(timerFunctors)) = Len(timerFunctors) - 1
      /\ \A i \in 1..Len(Tail(timerFunctors)) : Tail(timerFunctors)[i] = timerFunctors[i + 1]
      /\ Head(timerFunctors) = timerFunctors[1]
  BY <1>1, HeadTailProperties
<1>3. Len(timerFunctors) \in Nat /\ Len(timerFunctors) # 0 /\ DOMAIN timerFunctors = 1..Len(timerFunctors)
  BY <1>1, LenProperties, EmptySeq
<1>4. DOMAIN Tail(timerFunctors) = 1..Len(Tail(timerFunctors))
  BY <1>2, LenProperties
<1> DEFINE t == Tail(timerFunctors)
           k == Len(timerFunctors)
           m == Len(t)
<1>5. m = k - 1 /\ k \in Nat /\ k # 0
  BY <1>2, <1>3
<1>6. DOMAIN t = 1..m /\ DOMAIN timerFunctors = 1..k /\ \A i \in 1..m : t[i] = timerFunctors[i + 1]
  BY <1>2, <1>3, <1>4
<1> HIDE DEF t, k, m
<1>7. /\ 1 \in 1..k
      /\ \A i \in 1..m : i + 1 \in 1..k /\ i + 1 # 1
      /\ \A i, j \in 1..m : i + 1 = j + 1 => i = j
  BY <1>5
<1>8. AddsPending
  BY DEF TimerInv
<1>9. /\ \A i \in 1..m : t[i].add =>
           /\ t[i].id \notin inserted /\ Given(t[i].id[2], created)
           /\ heap[t[i].id[1]].seq = t[i].id[2]
      /\ \A i \in 1..m : ~t[i].add => \E j \in known : j.id = t[i].id /\ j.own = t[i].own
  BY <1>6, <1>7, <1>8 DEF AddsPending, Carried
<1>10. \A i, j \in 1..m : t[i].add /\ t[j].add /\ t[i].id = t[j].id => i = j
  BY <1>6, <1>7, <1>8 DEF AddsPending, Carried
<1>11. \A i \in 1..m : timerFunctors[1].add /\ t[i].add => t[i].id # timerFunctors[1].id
  BY <1>6, <1>7, <1>8 DEF AddsPending, Carried
<1>12. Carried(t)
  BY <1>6, <1>9, <1>10 DEF Carried
<1> QED BY <1>2, <1>6, <1>7, <1>11, <1>12 DEF t

\* A queued add: the timer enters timers_ and activeTimers_.
LEMMA RunAddInv ==
  ASSUME TimerInv, RunAdd
  PROVE  TimerInv'
<1> USE DEF TimerInv
<1>1. /\ ~callingExpired /\ timerFunctors # <<>> /\ Head(timerFunctors).add
      /\ timerFunctors' = Tail(timerFunctors)
      /\ UNCHANGED <<heap, callingExpired, batch, toRun, elapsed, created, adding, known, called>>
  BY DEF RunAdd, readVars, idVars
<1>2. /\ Head(timerFunctors) = timerFunctors[1] /\ 1 \in DOMAIN timerFunctors
      /\ timerFunctors' \in Seq(Functor)
      /\ Carried(timerFunctors')
      /\ \A i \in DOMAIN timerFunctors' : timerFunctors'[i].add => timerFunctors'[i].id # timerFunctors[1].id
  BY <1>1, FunctorTaken
<1>3. PICK id0 \in Ids : /\ id0 = timerFunctors[1].id /\ id0 \notin inserted /\ Given(id0[2], created)
                         /\ heap[id0[1]].seq = id0[2]
  BY <1>1, <1>2, Parts DEF AddsPending, Carried
<1>4. PICK a \in Addrs : a = id0[1] /\ id0 = <<a, heap[a].seq>> /\ heap[a].seq > 0
  BY <1>1, <1>2, <1>3, Parts DEF Given, TimerTypes, Timer
<1>5. /\ timers' = timers \cup {<<heap[a].when, a>>}
      /\ activeTimers' = activeTimers \cup {id0}
      /\ inserted' = inserted \cup {id0}
      /\ UNCHANGED <<canceling, cancelled>>
  BY <1>2, <1>3, <1>4 DEF RunAdd, AddTimerInLoop, TimerId
<1>6. heap[a] # Free /\ heap[a].when \in Int
  BY <1>4, FreeFacts DEF TimerTypes, Timer
<1> DEFINE new == <<heap[a].when, a>>
<1>7. new \in Entries /\ new[1] = heap[a].when /\ new[2] = a /\ IdOf(new) = id0
  BY <1>4, <1>6 DEF Entries, IdOf, TimerId
<1> HIDE DEF new
<1>8. timers' = timers \cup {new}
  BY <1>5 DEF new
<1>9. /\ \A e : IdOf(e)' = IdOf(e)
      /\ created' = created
      /\ Mistaken' = Mistaken
  BY <1>1 DEF IdOf, TimerId, Mistaken
<1>10. batch = {}
  BY <1>1 DEF EntriesLive
<1>11. TimerTypes'
  BY <1>1, <1>2, <1>3, <1>5, <1>7, <1>8 DEF TimerTypes
<1>12. Numbered'
  BY <1>1, <1>3, <1>5, <1>9 DEF Numbered
<1>13. EntriesLive'
  BY <1>1, <1>5, <1>6, <1>7, <1>8, <1>9, <1>10 DEF EntriesLive
<1>14. ActiveAgrees'
  BY <1>5, <1>7, <1>8, <1>9 DEF ActiveAgrees
<1>15. AddsPending'
  BY <1>1, <1>2, <1>3, <1>5, <1>9 DEF AddsPending, Carried
<1>16. CancelRemembered'
  <2>1. id0 \notin cancelled
    BY <1>3 DEF Numbered
  <2> QED BY <1>1, <1>5, <1>7, <1>8, <1>9, <1>10, <2>1 DEF CancelRemembered
<1>17. InsertedAccounted'
  BY <1>1, <1>5, <1>9 DEF InsertedAccounted
<1>18. MistakenIsGone'
  BY <1>1 DEF MistakenIsGone
<1> QED BY <1>11, <1>12, <1>13, <1>14, <1>15, <1>16, <1>17, <1>18

\* cancelInLoop, from a functor or from a callback that takes its timer off the
\* rest of the batch: a timer in the queue is taken out and deleted, one of the
\* batch is remembered, any other is left alone.
LEMMA CancelInLoopInv ==
  ASSUME TimerInv, NEW k \in known, CancelInLoop(k.id, k.own),
         UNCHANGED <<callingExpired, batch, elapsed, created, adding, known>>,
         timerFunctors' \in Seq(Functor), Carried(timerFunctors'),
         toRun' \subseteq toRun, called \subseteq called',
         \A e \in toRun \ toRun' : IdOf(e) \in called'
  PROVE  TimerInv'
<1> USE DEF TimerInv
<1> DEFINE id == k.id
           own == k.own
<1>1. UNCHANGED inserted /\ cancelled' = cancelled \cup ({own} \cap inserted)
  BY DEF CancelInLoop
<1>2. Numbered /\ cancelled' \subseteq inserted
  BY <1>1 DEF Numbered
<1>14. \A i \in DOMAIN timerFunctors' : timerFunctors'[i] \in Functor
  BY ElementOfSeq, LenProperties
<1>10. created' = created /\ Mistaken' = Mistaken /\ (id = own \/ id \in Mistaken)
  BY DEF Mistaken
<1>11. id \in Ids /\ own \in Ids
  BY Parts
<1>12. CancelInLoop(id, own) /\ (id = own \/ heap[own[1]].seq # own[2])
  BY DEF MistakenIsGone
<1> HIDE DEF id, own
<1>13. \A e \in timers \cup batch : IdOf(e) = own => id = own
  <2>1. \A e : IdOf(e)[1] = e[2] /\ IdOf(e)[2] = heap[e[2]].seq
    BY DEF IdOf, TimerId
  <2> QED BY <1>12, <2>1
<1>3. CASE IsActive(id)
  <2>1. PICK e0 \in timers : id = IdOf(e0)
    BY <1>3 DEF IsActive, ActiveAgrees
  <2>2. PICK a \in Addrs : a = e0[2]
    BY Parts
  <2>3. id = <<a, heap[a].seq>> /\ id[1] = a /\ heap[a].when = e0[1] /\ e0 = <<heap[a].when, a>>
    BY <2>1, <2>2, Parts DEF IdOf, TimerId, EntriesLive
  <2>4. id \in inserted
    BY <2>1 DEF EntriesLive
  <2>5. /\ timers' = timers \ {e0}
        /\ activeTimers' = activeTimers \ {id}
        /\ heap' = [heap EXCEPT ![a] = Free]
        /\ canceling' = canceling
        /\ id = own => cancelled' = cancelled \cup {id}
    BY <1>1, <1>3, <1>12, <2>3, <2>4 DEF CancelInLoop, TimerId
  <2>6. \A e \in timers : e[2] = a => e = e0
    BY <2>3, Parts DEF EntriesLive
  <2>7. \A e \in timers' \cup batch : e[2] # a
    BY <2>2, <2>5, <2>6 DEF EntriesLive
  <2>8. /\ heap' \in [Addrs -> Timer] /\ heap'[a] = Free
        /\ \A b \in Addrs : b # a => heap'[b] = heap[b]
    BY <2>5, FreeFacts DEF TimerTypes
  <2>9. \A e \in timers' \cup batch : /\ e[2] \in Addrs /\ heap'[e[2]] = heap[e[2]]
                                      /\ IdOf(e)' = IdOf(e) /\ IdOf(e) # id
    BY <2>3, <2>5, <2>7, <2>8, Parts DEF IdOf, TimerId
  <2>10. TimerTypes'
    BY <1>1, <2>5, <2>8 DEF TimerTypes
  <2>11. Numbered'
    BY <1>1, <1>2, <1>10, <2>8 DEF Numbered
  <2>12. EntriesLive'
    BY <1>1, <2>5, <2>9 DEF EntriesLive
  <2>13. ActiveAgrees'
    <3>1. \A e \in timers' : IdOf(e)' \in activeTimers'
      BY <2>5, <2>9 DEF ActiveAgrees
    <3>2. ASSUME NEW i \in activeTimers' PROVE \E e \in timers' : i = IdOf(e)'
      <4>1. PICK e \in timers : i = IdOf(e)
        BY <2>5 DEF ActiveAgrees
      <4>2. e # e0
        BY <2>1, <2>5, <4>1
      <4> QED BY <2>5, <2>9, <4>1, <4>2
    <3> QED BY <3>1, <3>2 DEF ActiveAgrees
  <2>14. AddsPending'
    <3>1. \A i \in DOMAIN timerFunctors' : timerFunctors'[i].add => timerFunctors'[i].id[1] # a
      <4> SUFFICES ASSUME NEW i \in DOMAIN timerFunctors', timerFunctors'[i].add,
                          timerFunctors'[i].id[1] = a
                   PROVE  FALSE
        OBVIOUS
      <4>1. /\ timerFunctors'[i].id \notin inserted
            /\ heap[a].seq = timerFunctors'[i].id[2]
        BY DEF Carried
      <4>2. timerFunctors'[i].id \in Ids
        BY <1>14 DEF Functor
      <4>3. timerFunctors'[i].id = <<a, heap[a].seq>>
        BY <4>1, <4>2 DEF Ids
      <4> QED BY <2>3, <2>4, <4>1, <4>3
    <3>2. \A i \in DOMAIN timerFunctors' : timerFunctors'[i].id[1] \in Addrs
      BY <1>14 DEF Functor, Ids
    <3>3. \A i \in DOMAIN timerFunctors' : timerFunctors'[i].add =>
            heap'[timerFunctors'[i].id[1]].seq = heap[timerFunctors'[i].id[1]].seq
      BY <2>8, <3>1, <3>2
    <3> QED BY <1>1, <1>10, <3>3 DEF AddsPending, Carried
  <2>15. CancelRemembered'
    <3>1. \A e \in timers' \cup batch : IdOf(e) # own
      BY <1>13, <2>5, <2>9
    <3> QED BY <1>1, <2>5, <2>9, <3>1 DEF CancelRemembered
  <2>16. InsertedAccounted'
    <3>1. toRun \subseteq batch
      BY DEF TimerTypes
    <3>2. id \in cancelled' \/ id \in Mistaken
      BY <1>10, <2>5
    <3> QED BY <1>1, <1>10, <2>5, <2>9, <3>1, <3>2 DEF InsertedAccounted
  <2>17. MistakenIsGone'
    BY <2>8, GoneStays
  <2> QED BY <2>10, <2>11, <2>12, <2>13, <2>14, <2>15, <2>16, <2>17
<1>4. CASE ~IsActive(id)
  <2>1. canceling' = RememberCancel(id) /\ UNCHANGED <<timers, activeTimers, heap>>
    BY <1>4, <1>12 DEF CancelInLoop
  <2>2. \A e : IdOf(e)' = IdOf(e)
    BY <2>1 DEF IdOf, TimerId
  <2>3. TimerTypes' /\ Numbered' /\ EntriesLive' /\ ActiveAgrees'
    BY <1>1, <1>2, <1>10, <2>1, <2>2 DEF TimerTypes, Numbered, EntriesLive, ActiveAgrees
  <2>4. AddsPending'
    BY <1>1, <1>10, <2>1 DEF AddsPending, Carried
  <2>5. CancelRemembered'
    <3>1. \A e \in timers : IdOf(e) # id
      BY <1>4 DEF IsActive, ActiveAgrees
    <3>2. batch # {} => canceling' = canceling \cup {id}
      BY <2>1 DEF RememberCancel, EntriesLive
    <3> QED BY <1>1, <1>13, <2>1, <2>2, <3>1, <3>2 DEF CancelRemembered
  <2>6. InsertedAccounted'
    BY <1>1, <1>10, <2>1, <2>2 DEF InsertedAccounted
  <2>7. MistakenIsGone'
    BY <2>1 DEF MistakenIsGone
  <2> QED BY <2>3, <2>4, <2>5, <2>6, <2>7
<1> QED BY <1>3, <1>4

\* A queued cancel.
LEMMA RunCancelInv ==
  ASSUME TimerInv, RunCancel
  PROVE  TimerInv'
<1>1. /\ timerFunctors # <<>> /\ ~Head(timerFunctors).add /\ timerFunctors' = Tail(timerFunctors)
      /\ UNCHANGED <<callingExpired, batch, toRun, elapsed, created, adding, known, called>>
  BY DEF RunCancel, readVars, idVars
<1>2. /\ Head(timerFunctors) = timerFunctors[1] /\ 1 \in DOMAIN timerFunctors
      /\ timerFunctors' \in Seq(Functor)
      /\ Carried(timerFunctors')
  BY <1>1, FunctorTaken
<1>3. PICK k \in known : k.id = Head(timerFunctors).id /\ k.own = Head(timerFunctors).own
  BY <1>1, <1>2 DEF TimerInv, AddsPending, Carried
<1>4. CancelInLoop(k.id, k.own)
  BY <1>3 DEF RunCancel
<1>5. toRun' \subseteq toRun /\ called \subseteq called' /\ toRun \ toRun' = {}
  BY <1>1
<1> QED BY <1>1, <1>2, <1>4, <1>5, CancelInLoopInv

\* handleRead takes the expired entries out of both sets.
LEMMA HandleTimerfdInv ==
  ASSUME TimerInv, HandleTimerfd
  PROVE  TimerInv'
<1> USE DEF TimerInv
<1> DEFINE expired == {e \in timers : e[1] <= 0}
<1>1. /\ ~callingExpired /\ callingExpired' = TRUE /\ elapsed' = 0
      /\ batch' = expired /\ toRun' = expired
      /\ timers' = timers \ expired
      /\ activeTimers' = activeTimers \ {IdOf(e) : e \in expired}
      /\ UNCHANGED <<heap, timerFunctors, created, adding, known, inserted, cancelled, called>>
  BY DEF HandleTimerfd, idVars
<1>2. expired \subseteq timers
  OBVIOUS
<1> HIDE DEF expired
<1>3. (\A e : IdOf(e)' = IdOf(e)) /\ created' = created /\ Mistaken' = Mistaken
  BY <1>1 DEF IdOf, TimerId, Mistaken
<1>4. \A e, f \in timers : IdOf(e) = IdOf(f) \/ e[2] = f[2] => e = f
  <2>1. \A e, f \in timers : IdOf(e) = IdOf(f) => e[2] = f[2]
    BY DEF IdOf, TimerId
  <2> QED BY <2>1, Parts DEF EntriesLive
<1>5. TimerTypes'
  <2>1. callingExpired' \in BOOLEAN
    BY <1>1, Zenon
  <2> QED BY <1>1, <1>2, <2>1 DEF TimerTypes
<1>6. Numbered'
  BY <1>1, <1>3 DEF Numbered
<1>7. EntriesLive'
  BY <1>1, <1>2, <1>3, <1>4 DEF EntriesLive
<1>8. ActiveAgrees'
  <2>1. \A e \in timers' : IdOf(e)' \in activeTimers'
    BY <1>1, <1>2, <1>3, <1>4 DEF ActiveAgrees
  <2>2. \A id \in activeTimers' : \E e \in timers' : id = IdOf(e)'
    BY <1>1, <1>3 DEF ActiveAgrees
  <2> QED BY <2>1, <2>2 DEF ActiveAgrees
<1>9. AddsPending'
  BY <1>1, <1>3 DEF AddsPending, Carried
<1>10. CancelRemembered'
  BY <1>1, <1>2, <1>3 DEF CancelRemembered
<1>11. InsertedAccounted'
  <2>1. toRun = {}
    BY <1>1 DEF EntriesLive, TimerTypes
  <2> QED BY <1>1, <1>3, <2>1 DEF InsertedAccounted
<1>12. MistakenIsGone'
  BY <1>1 DEF MistakenIsGone
<1> QED BY <1>12, <1>5, <1>6, <1>7, <1>8, <1>9, <1>10, <1>11

\* A callback is called, and its timer is one that ran.
LEMMA RunNextFacts ==
  ASSUME RunNext
  PROVE  /\ callingExpired /\ toRun' \subseteq toRun /\ called \subseteq called'
         /\ \A e \in toRun \ toRun' : IdOf(e) \in called'
         /\ UNCHANGED <<callingExpired, batch, elapsed, timerFunctors>>
  BY DEF RunNext

\* A callback that does nothing with timers.
LEMMA RunTimerInv ==
  ASSUME TimerInv, RunTimer
  PROVE  TimerInv'
<1> USE DEF TimerInv
<1>1. /\ RunNext
      /\ UNCHANGED <<heap, timers, activeTimers, canceling, created, adding, known, inserted, cancelled>>
  BY DEF RunTimer, queueVars, idVars
<1>2. /\ callingExpired /\ toRun' \subseteq toRun /\ called \subseteq called'
      /\ \A e \in toRun \ toRun' : IdOf(e) \in called'
      /\ UNCHANGED <<callingExpired, batch, elapsed, timerFunctors>>
  BY <1>1, RunNextFacts
<1>3. (\A e : IdOf(e)' = IdOf(e)) /\ created' = created /\ Mistaken' = Mistaken
  BY <1>1 DEF IdOf, TimerId, Mistaken
<1>4. TimerTypes'
  BY <1>1, <1>2 DEF TimerTypes
<1>5. Numbered' /\ EntriesLive' /\ ActiveAgrees' /\ CancelRemembered'
  BY <1>1, <1>2, <1>3 DEF Numbered, EntriesLive, ActiveAgrees, CancelRemembered
<1>6. AddsPending'
  BY <1>1, <1>2, <1>3 DEF AddsPending, Carried
<1>7. InsertedAccounted'
  BY <1>1, <1>2, <1>3 DEF InsertedAccounted
<1>8. MistakenIsGone'
  BY <1>1 DEF MistakenIsGone
<1> QED BY <1>4, <1>5, <1>6, <1>7, <1>8

\* A callback that cancels a timer.
LEMMA RunTimerThatCancelsInv ==
  ASSUME TimerInv, NEW k \in known, RunTimerThatCancels(k)
  PROVE  TimerInv'
<1>1. RunNext /\ CancelInLoop(k.id, k.own) /\ UNCHANGED <<created, adding, known>>
  BY DEF RunTimerThatCancels, idVars
<1>2. /\ toRun' \subseteq toRun /\ called \subseteq called'
      /\ \A e \in toRun \ toRun' : IdOf(e) \in called'
      /\ UNCHANGED <<callingExpired, batch, elapsed, timerFunctors>>
  BY <1>1, RunNextFacts
<1>3. timerFunctors' \in Seq(Functor) /\ Carried(timerFunctors')
  BY <1>2 DEF TimerInv, TimerTypes, AddsPending
<1> QED BY <1>1, <1>2, <1>3, CancelInLoopInv

\* A callback that adds a timer, which is inserted at once.
LEMMA RunTimerThatAddsInv ==
  ASSUME TimerInv, NEW a \in Addrs, NEW kind \in Kinds, RunTimerThatAdds(a, kind)
  PROVE  TimerInv'
<1> USE DEF TimerInv
<1> DEFINE id0 == <<a, created + 1>>
           new == <<heap'[a].when, a>>
           back == [id |-> id0, own |-> id0]
           NextId(e) == <<e[2], heap'[e[2]].seq>>
<1>1. /\ RunNext /\ New(a, kind) /\ AddTimerInLoop(a, heap'[a])
      /\ known' = known \cup {back} /\ UNCHANGED adding
  BY DEF RunTimerThatAdds, TimerId
<1>2. /\ heap' \in [Addrs -> Timer]
      /\ created' = created + 1 /\ created' \in Nat
      /\ id0 \in Ids /\ id0 \notin adding \cup inserted
      /\ \A b \in Addrs : b # a => heap'[b] = heap[b]
      /\ heap'[a].seq = created + 1 /\ heap'[a] # Free
      /\ \A e \in timers \cup batch : e[2] # a
      /\ \A i \in DOMAIN timerFunctors : timerFunctors[i].add => timerFunctors[i].id[1] # a
      /\ \A b \in Addrs : heap'[b] # Free => 0 < heap'[b].seq
      /\ \A n \in Nat : Given(n, created) => Given(n, created') /\ n # created + 1
      /\ Given(created + 1, created')
      /\ known' \ known \subseteq {k \in Returned : k.id = k.own /\ k.own = id0} => MistakenIsGone'
  BY <1>1, NewFacts
<1>3. /\ callingExpired /\ toRun' \subseteq toRun /\ called \subseteq called'
      /\ \A e \in toRun \ toRun' : IdOf(e) \in called'
      /\ UNCHANGED <<callingExpired, batch, elapsed, timerFunctors>>
  BY <1>1, RunNextFacts
<1>4. /\ timers' = timers \cup {new}
      /\ activeTimers' = activeTimers \cup {id0}
      /\ inserted' = inserted \cup {id0}
      /\ UNCHANGED <<canceling, cancelled>>
  BY <1>1, <1>2 DEF AddTimerInLoop, TimerId
<1>5. /\ new \in Entries /\ new[1] = heap'[a].when /\ new[2] = a /\ NextId(new) = id0
  BY <1>2 DEF Entries, IdOf, TimerId, Timer
<1>6. id0[1] = a /\ id0[2] = created + 1
  OBVIOUS
<1>0. \A e : IdOf(e)' = NextId(e)
  BY DEF IdOf, TimerId
<1>15. back \in Returned /\ back.id = id0 /\ back.own = id0
  BY <1>2 DEF Returned
<1> HIDE DEF id0, new, NextId, back
<1>16. MistakenIsGone'
  BY <1>1, <1>2, <1>15
<1>17. Mistaken \subseteq Mistaken'
  BY <1>1 DEF Mistaken
<1>7. \A e \in timers \cup batch : /\ e[2] \in Addrs /\ e[2] # a /\ heap'[e[2]] = heap[e[2]]
                                   /\ NextId(e) = IdOf(e)
  BY <1>2, Parts DEF IdOf, TimerId, NextId
<1>8. TimerTypes'
  BY <1>1, <1>2, <1>3, <1>4, <1>5, <1>15 DEF TimerTypes
<1>9. Numbered'
  <2>1. \A id \in adding \cup inserted : Given(id[2], created')
    BY <1>2, Parts DEF Numbered
  <2>2. \A k \in known : Given(k.own[2], created')
    BY <1>2, Parts DEF Numbered
  <2>3. Given(id0[2], created')
    BY <1>2, <1>6 DEF Given
  <2> QED BY <1>1, <1>2, <1>4, <1>15, <2>1, <2>2, <2>3 DEF Numbered
<1>10. EntriesLive'
  <2>1. \A e \in timers' \cup batch : heap'[e[2]] # Free /\ NextId(e) \in inserted'
    BY <1>2, <1>4, <1>5, <1>7 DEF EntriesLive
  <2>2. \A e \in timers' : heap'[e[2]].when = e[1]
    BY <1>4, <1>5, <1>7 DEF EntriesLive
  <2>3. \A e \in timers', f \in batch : e[2] # f[2]
    BY <1>2, <1>4, <1>5 DEF EntriesLive
  <2> QED BY <1>0, <1>3, <2>1, <2>2, <2>3 DEF EntriesLive
<1>11. ActiveAgrees'
  BY <1>0, <1>4, <1>5, <1>7 DEF ActiveAgrees
<1>12. AddsPending'
  <2>1. \A i \in DOMAIN timerFunctors : timerFunctors[i].add =>
          /\ timerFunctors[i].id \notin inserted /\ timerFunctors[i].id # id0
          /\ Given(timerFunctors[i].id[2], created')
          /\ heap'[timerFunctors[i].id[1]].seq = timerFunctors[i].id[2]
    <3> SUFFICES ASSUME NEW i \in DOMAIN timerFunctors, timerFunctors[i].add
                 PROVE  /\ timerFunctors[i].id \notin inserted /\ timerFunctors[i].id # id0
                        /\ Given(timerFunctors[i].id[2], created')
                        /\ heap'[timerFunctors[i].id[1]].seq = timerFunctors[i].id[2]
      OBVIOUS
    <3>1. /\ timerFunctors[i].id \notin inserted /\ Given(timerFunctors[i].id[2], created)
          /\ heap[timerFunctors[i].id[1]].seq = timerFunctors[i].id[2]
      BY DEF AddsPending, Carried
    <3>2. timerFunctors[i].id[1] \in Addrs /\ timerFunctors[i].id[2] \in Nat
      BY Parts
    <3>3. heap'[timerFunctors[i].id[1]] = heap[timerFunctors[i].id[1]]
      BY <1>2, <3>2
    <3>4. timerFunctors[i].id # id0
      BY <1>2, <1>6
    <3> QED BY <1>2, <3>1, <3>2, <3>3, <3>4
  <2>2. timerFunctors' = timerFunctors /\ known \subseteq known' /\ inserted' = inserted \cup {id0}
    BY <1>1, <1>3, <1>4
  <2> QED BY <2>1, <2>2 DEF AddsPending, Carried
<1>13. CancelRemembered'
  <2>1. id0 \notin cancelled
    BY <1>2 DEF Numbered
  <2> QED BY <1>0, <1>3, <1>4, <1>5, <1>7, <2>1 DEF CancelRemembered
<1>14. InsertedAccounted'
  <2>1. toRun \subseteq batch
    BY DEF TimerTypes
  <2> QED BY <1>0, <1>3, <1>4, <1>7, <1>17, <2>1 DEF InsertedAccounted
<1> QED BY <1>8, <1>9, <1>10, <1>11, <1>12, <1>13, <1>14, <1>16

\* A timer with another expiration is the same timer.
LEMMA Rescheduled ==
  ASSUME NEW t \in Timer, NEW w \in Int
  PROVE  /\ DueAt(t, w) \in Timer /\ DueAt(t, w).when = w /\ DueAt(t, w).seq = t.seq
  BY DEF DueAt, Timer

\* reset: what repeats and was not cancelled goes back into both sets, the rest
\* of the batch is deleted.
LEMMA ResetInv ==
  ASSUME TimerInv, Reset
  PROVE  TimerInv'
<1> USE DEF TimerInv
<1> DEFINE NextId(e) == <<e[2], heap'[e[2]].seq>>
<1>0. \A e : IdOf(e)' = NextId(e)
  BY DEF IdOf, TimerId, NextId
<1> HIDE DEF NextId
<1> DEFINE Again(e) == heap[e[2]].interval > 0 /\ IdOf(e) \notin canceling
           again == {e \in batch : Again(e)}
           Restarted(a) == Late(heap[a].interval - elapsed)
<1>1. /\ callingExpired /\ toRun = {} /\ callingExpired' = FALSE
      /\ heap' = [a \in Addrs |->
                    CASE \E e \in again : e[2] = a ->
                           DueAt(heap[a], Restarted(a))
                      [] \E e \in batch \ again : e[2] = a -> Free
                      [] OTHER -> heap[a]]
      /\ timers' = timers \cup {<<Restarted(e[2]), e[2]>> : e \in again}
      /\ activeTimers' = activeTimers \cup {IdOf(e) : e \in again}
      /\ batch' = {} /\ elapsed' = 0
      /\ UNCHANGED <<toRun, canceling, timerFunctors, created, adding, known, inserted, cancelled, called>>
  BY DEF Reset, idVars
<1>2. \A a \in Addrs : Restarted(a) \in Int /\ heap[a] \in Timer
  BY LateInt DEF TimerTypes, Timer
<1>3. again \subseteq batch /\ \A e \in again : IdOf(e) \notin canceling
  OBVIOUS
<1> HIDE DEF again, Again, Restarted
<1>4. \A e \in batch : e[2] \in Addrs
  BY Parts
<1>5. ASSUME NEW a \in Addrs
      PROVE  heap'[a] = CASE \E e \in again : e[2] = a ->
                               DueAt(heap[a], Restarted(a))
                          [] \E e \in batch \ again : e[2] = a -> Free
                          [] OTHER -> heap[a]
  BY <1>1
<1>6. ASSUME NEW e \in again
      PROVE  /\ heap'[e[2]] \in Timer /\ heap'[e[2]].seq = heap[e[2]].seq
             /\ heap'[e[2]].when = Restarted(e[2])
  <2>1. PICK a \in Addrs : a = e[2]
    BY <1>3, <1>4
  <2>2. \E f \in again : f[2] = a
    BY <2>1
  <2>3. ~\E f \in batch \ again : f[2] = a
    BY <1>3, <2>1 DEF EntriesLive
  <2>4. heap'[a] = DueAt(heap[a], Restarted(a))
    BY <1>5, <2>2, <2>3
  <2>5. heap[a] \in Timer /\ Restarted(a) \in Int
    BY <1>2
  <2> QED BY <2>1, <2>4, <2>5, Rescheduled
<1>7. ASSUME NEW e \in batch \ again PROVE heap'[e[2]] = Free
  <2>1. PICK a \in Addrs : a = e[2]
    BY <1>4
  <2>2. ~\E f \in again : f[2] = a
    BY <1>3, <2>1 DEF EntriesLive
  <2>3. \E f \in batch \ again : f[2] = a
    BY <2>1
  <2> QED BY <1>5, <2>1, <2>2, <2>3
<1>8. ASSUME NEW b \in Addrs, \A e \in batch : e[2] # b PROVE heap'[b] = heap[b]
  <2>1. ~(\E f \in again : f[2] = b) /\ ~\E f \in batch \ again : f[2] = b
    BY <1>3, <1>8
  <2> QED BY <1>5, <2>1
<1>9. heap' \in [Addrs -> Timer]
  <2>1. DOMAIN heap' = Addrs
    BY <1>1
  <2>2. \A b \in Addrs : heap'[b] \in Timer
    <3> SUFFICES ASSUME NEW b \in Addrs PROVE heap'[b] \in Timer
      OBVIOUS
    <3>1. CASE \E e \in again : e[2] = b
      BY <1>6, <3>1
    <3>2. CASE \E e \in batch \ again : e[2] = b
      BY <1>7, <3>2, FreeFacts
    <3>3. CASE \A e \in batch : e[2] # b
      BY <1>2, <1>8, <3>3
    <3> QED BY <1>3, <3>1, <3>2, <3>3
  <2>3. heap' = [b \in Addrs |-> heap'[b]]
    BY <1>1
  <2> QED BY <2>2, <2>3
<1>10. \A e \in timers : e[2] \in Addrs /\ heap'[e[2]] = heap[e[2]] /\ NextId(e) = IdOf(e)
  <2>1. \A e \in timers : e[2] \in Addrs /\ \A f \in batch : f[2] # e[2]
    BY Parts DEF EntriesLive
  <2>2. \A e \in timers : heap'[e[2]] = heap[e[2]]
    BY <1>8, <2>1
  <2> QED BY <2>1, <2>2 DEF IdOf, TimerId, NextId
<1>11. \A e \in again : NextId(e) = IdOf(e) /\ e[2] \in Addrs /\ heap'[e[2]] # Free
  <2>1. \A e \in again : NextId(e) = IdOf(e) /\ e[2] \in Addrs
    BY <1>3, <1>4, <1>6 DEF IdOf, TimerId, NextId
  <2>2. \A e \in again : heap[e[2]].seq > 0
    BY <1>3, <1>4 DEF EntriesLive, Numbered
  <2> QED BY <1>6, <2>1, <2>2, FreeFacts
<1> DEFINE Moved(e) == <<Restarted(e[2]), e[2]>>
<1>12. \A e \in again : /\ Moved(e)[1] = Restarted(e[2]) /\ Moved(e)[2] = e[2]
                        /\ Moved(e) \in Entries
                        /\ NextId(Moved(e)) = IdOf(e)
  BY <1>2, <1>11 DEF Entries, IdOf, TimerId, NextId
<1>13. timers' = timers \cup {Moved(e) : e \in again}
  BY <1>1
<1> HIDE DEF Moved
<1>21. created' = created /\ Mistaken' = Mistaken
  BY <1>1 DEF Mistaken
<1>14. TimerTypes'
  <2>1. callingExpired' \in BOOLEAN
    BY <1>1, Zenon
  <2>2. timers' \subseteq Entries
    BY <1>12, <1>13 DEF TimerTypes
  <2> QED BY <1>1, <1>9, <2>1, <2>2 DEF TimerTypes
<1>15. Numbered'
  <2>1. \A b \in Addrs : heap'[b] # Free => 0 < heap'[b].seq
    <3> SUFFICES ASSUME NEW b \in Addrs, heap'[b] # Free PROVE 0 < heap'[b].seq
      OBVIOUS
    <3>1. CASE \E e \in again : e[2] = b
      BY <1>3, <1>6, <3>1 DEF EntriesLive, Numbered
    <3>2. CASE \E e \in batch \ again : e[2] = b
      BY <1>7, <3>2
    <3>3. CASE \A e \in batch : e[2] # b
      BY <1>8, <3>3 DEF Numbered
    <3> QED BY <1>3, <3>1, <3>2, <3>3
  <2> QED BY <1>1, <1>21, <2>1 DEF Numbered
<1>16. EntriesLive'
  <2>1. \A e \in timers' : heap'[e[2]] # Free /\ NextId(e) \in inserted
    BY <1>3, <1>10, <1>11, <1>12, <1>13 DEF EntriesLive
  <2>2. \A e \in timers' : heap'[e[2]].when = e[1]
    BY <1>6, <1>10, <1>12, <1>13 DEF EntriesLive
  <2> QED BY <1>0, <1>1, <2>1, <2>2 DEF EntriesLive
<1>17. ActiveAgrees'
  BY <1>0, <1>1, <1>10, <1>12, <1>13 DEF ActiveAgrees
<1>18. AddsPending'
  <2>1. ASSUME NEW i \in DOMAIN timerFunctors, timerFunctors[i].add
        PROVE  heap'[timerFunctors[i].id[1]].seq = timerFunctors[i].id[2]
    <3>1. PICK b \in Addrs : b = timerFunctors[i].id[1]
      BY Parts
    <3>2. /\ timerFunctors[i].id \notin inserted /\ heap[b].seq = timerFunctors[i].id[2]
          /\ timerFunctors[i].id = <<b, heap[b].seq>>
      BY <2>1, <3>1, Parts DEF AddsPending, Carried
    <3>3. \A e \in batch : e[2] # b
      BY <3>2 DEF EntriesLive, IdOf, TimerId
    <3> QED BY <1>8, <3>1, <3>2, <3>3
  <2> QED BY <1>1, <1>21, <2>1 DEF AddsPending, Carried
<1>19. CancelRemembered'
  BY <1>0, <1>1, <1>3, <1>10, <1>12, <1>13 DEF CancelRemembered
<1>20. InsertedAccounted'
  BY <1>0, <1>1, <1>21 DEF InsertedAccounted
<1>22. MistakenIsGone'
  <2>1. ASSUME NEW b \in Addrs PROVE heap'[b].seq = heap[b].seq \/ heap'[b] = Free
    <3>1. CASE \E e \in again : e[2] = b
      BY <1>6, <3>1
    <3>2. CASE \E e \in batch \ again : e[2] = b
      BY <1>7, <3>2
    <3>3. CASE \A e \in batch : e[2] # b
      BY <1>8, <3>3
    <3> QED BY <1>3, <3>1, <3>2, <3>3
  <2> QED BY <1>1, <2>1, GoneStays
<1> QED BY <1>14, <1>15, <1>16, <1>17, <1>18, <1>19, <1>20, <1>22

\* Time passes for every timer and its entry alike.
LEMMA TickInv ==
  ASSUME TimerInv, Tick
  PROVE  TimerInv'
<1> USE DEF TimerInv
<1> DEFINE NextId(e) == <<e[2], heap'[e[2]].seq>>
<1>0. \A e : IdOf(e)' = NextId(e)
  BY DEF IdOf, TimerId, NextId
<1> HIDE DEF NextId
<1>1. /\ heap' = [a \in Addrs |-> IF heap[a] = Free THEN Free
                                  ELSE DueAt(heap[a], Late(heap[a].when - 1))]
      /\ timers' = {<<Late(e[1] - 1), e[2]>> : e \in timers}
      /\ elapsed' = IF callingExpired /\ elapsed < MaxLate THEN elapsed + 1 ELSE elapsed
      /\ UNCHANGED <<activeTimers, canceling, callingExpired, batch, toRun, timerFunctors,
                     created, adding, known, inserted, cancelled, called>>
  BY DEF Tick, idVars
<1>2. ASSUME NEW a \in Addrs
      PROVE  /\ heap'[a] \in Timer /\ heap'[a].seq = heap[a].seq
             /\ heap[a] # Free => heap'[a].when = Late(heap[a].when - 1)
             /\ heap'[a] # Free => heap[a] # Free
             /\ heap[a] # Free => heap'[a] # Free
  <2>1. CASE heap[a] = Free
    <3>1. heap'[a] = Free
      BY <1>1, <2>1
    <3> QED BY <2>1, <3>1, FreeFacts
  <2>2. CASE heap[a] # Free
    <3>1. heap[a] \in Timer /\ Late(heap[a].when - 1) \in Int
      BY LateInt DEF TimerTypes, Timer
    <3>2. heap'[a] = DueAt(heap[a], Late(heap[a].when - 1))
      BY <1>1, <2>2
    <3>5. /\ heap'[a] \in Timer /\ heap'[a].seq = heap[a].seq
          /\ heap'[a].when = Late(heap[a].when - 1)
      BY <3>1, <3>2, Rescheduled
    <3>6. heap[a].seq > 0
      BY <2>2 DEF Numbered
    <3> QED BY <2>2, <3>1, <3>5, <3>6, FreeFacts
  <2> QED BY <2>1, <2>2
<1>3. heap' \in [Addrs -> Timer]
  <2>1. heap' = [a \in Addrs |-> heap'[a]]
    BY <1>1
  <2> QED BY <1>2, <2>1
<1> DEFINE Moved(e) == <<Late(e[1] - 1), e[2]>>
<1>4. \A e \in timers \cup batch : e[2] \in Addrs /\ NextId(e) = IdOf(e)
  BY <1>2, Parts DEF IdOf, TimerId, NextId
<1>5. \A e \in timers : /\ Moved(e)[1] = Late(e[1] - 1) /\ Moved(e)[2] = e[2]
                        /\ Moved(e) \in Entries
                        /\ NextId(Moved(e)) = IdOf(e)
  <2>1. \A e \in timers : e[1] \in Int /\ e[2] \in Addrs
    BY DEF TimerTypes, Entries
  <2> QED BY <1>2, <2>1, LateInt DEF Entries, IdOf, TimerId, NextId
<1>6. timers' = {Moved(e) : e \in timers}
  BY <1>1
<1> HIDE DEF Moved
<1>14. created' = created /\ Mistaken' = Mistaken
  BY <1>1 DEF Mistaken
<1>15. MistakenIsGone'
  BY <1>1, <1>2, GoneStays
<1>7. TimerTypes'
  <2>1. elapsed' \in Nat
    BY <1>1 DEF TimerTypes
  <2> QED BY <1>1, <1>3, <1>5, <1>6, <2>1 DEF TimerTypes
<1>8. Numbered'
  BY <1>1, <1>2, <1>14 DEF Numbered
<1>9. EntriesLive'
  <2>1. \A e \in timers' : /\ heap'[e[2]] # Free /\ NextId(e) \in inserted
                           /\ heap'[e[2]].when = e[1]
    <3> SUFFICES ASSUME NEW e \in timers
                 PROVE  /\ heap'[Moved(e)[2]] # Free /\ NextId(Moved(e)) \in inserted
                        /\ heap'[Moved(e)[2]].when = Moved(e)[1]
      BY <1>6
    <3> QED BY <1>2, <1>4, <1>5 DEF EntriesLive
  <2>2. \A e \in batch : heap'[e[2]] # Free /\ NextId(e) \in inserted
    BY <1>2, <1>4 DEF EntriesLive
  <2>3. \A e \in timers', f \in batch : e[2] # f[2]
    BY <1>5, <1>6 DEF EntriesLive
  <2> QED BY <1>0, <1>1, <2>1, <2>2, <2>3 DEF EntriesLive
<1>10. ActiveAgrees'
  BY <1>0, <1>1, <1>5, <1>6 DEF ActiveAgrees
<1>11. AddsPending'
  BY <1>1, <1>2, <1>14, Parts DEF AddsPending, Carried
<1>12. CancelRemembered'
  BY <1>0, <1>1, <1>4, <1>5, <1>6 DEF CancelRemembered
<1>13. InsertedAccounted'
  <2>1. toRun \subseteq batch
    BY DEF TimerTypes
  <2> QED BY <1>0, <1>1, <1>4, <1>14, <2>1 DEF InsertedAccounted
<1> QED BY <1>7, <1>8, <1>9, <1>10, <1>11, <1>12, <1>13, <1>15

-----------------------------------------------------------------------------
(* The theorems *)

\* There are no timers at first.
LEMMA TimerInitInv == TimerInit => TimerInv
<1> SUFFICES ASSUME TimerInit PROVE TimerInv
  OBVIOUS
<1> USE DEF TimerInit
<1>1. callingExpired \in BOOLEAN
  BY Zenon
<1>2. TimerTypes
  BY <1>1, FreeFacts DEF TimerTypes
<1>3. Numbered /\ EntriesLive /\ ActiveAgrees /\ CancelRemembered /\ InsertedAccounted
  BY FreeFacts DEF Numbered, EntriesLive, ActiveAgrees, CancelRemembered, InsertedAccounted
<1>4. AddsPending /\ MistakenIsGone
  BY DEF AddsPending, Carried, MistakenIsGone
<1> QED BY <1>2, <1>3, <1>4 DEF TimerInv

\* Every step keeps the invariant.
LEMMA TimerNextInv == TimerInv /\ [TimerNext]_timerVars => TimerInv'
<1> SUFFICES ASSUME TimerInv, [TimerNext]_timerVars PROVE TimerInv'
  OBVIOUS
<1>1. CASE \E a \in Addrs, k \in Kinds : AddTimer(a, k)
  BY <1>1, AddTimerInv
<1>2. CASE \E k \in known : Cancel(k)
  BY <1>2, CancelInv
<1>9. CASE \E own \in adding : AddTimerReturns(own)
  BY <1>9, AddTimerReturnsInv
<1>3. CASE RunAdd
  BY <1>3, RunAddInv
<1>4. CASE RunCancel
  BY <1>4, RunCancelInv
<1>5. CASE HandleTimerfd
  BY <1>5, HandleTimerfdInv
<1>6. CASE Callbacks
  BY <1>6, RunTimerInv, RunTimerThatAddsInv, RunTimerThatCancelsInv, ResetInv DEF Callbacks
<1>7. CASE Tick
  BY <1>7, TickInv
<1>8. CASE UNCHANGED timerVars
  <2>1. UNCHANGED <<heap, timers, activeTimers, canceling, fd, callingExpired, batch, toRun,
                    elapsed, timerFunctors, created, adding, known, inserted, cancelled, called>>
    BY <1>8 DEF timerVars, queueVars, readVars, idVars
  <2>2. (\A e : IdOf(e)' = IdOf(e)) /\ created' = created /\ Mistaken' = Mistaken
    BY <2>1 DEF IdOf, TimerId, Mistaken
  <2>3. TimerTypes' /\ Numbered' /\ EntriesLive' /\ ActiveAgrees'
    BY <2>1, <2>2 DEF TimerInv, TimerTypes, Numbered, EntriesLive, ActiveAgrees
  <2>4. AddsPending' /\ CancelRemembered' /\ InsertedAccounted'
    BY <2>1, <2>2 DEF TimerInv, AddsPending, Carried, CancelRemembered, InsertedAccounted
  <2>5. MistakenIsGone'
    BY <2>1 DEF TimerInv, MistakenIsGone
  <2> QED BY <2>3, <2>4, <2>5 DEF TimerInv
<1> QED BY <1>1, <1>2, <1>9, <1>3, <1>4, <1>5, <1>6, <1>7, <1>8 DEF TimerNext

\* TimerQueue: timers_ and activeTimers_ agree through adds, restarts, cancels
\* and address reuse, no timer of the batch is deleted while callbacks run, a
\* cancelled timer is out for good and nothing else leaves without having run,
\* but for a cancel with a TimerId that addTimer read after its own timer was
\* deleted.
THEOREM TimersAlwaysSound == TimerSpec => []TimersSound
<1>1. TimerInv => TimersSound
  <2> SUFFICES ASSUME TimerInv PROVE TimersSound
    OBVIOUS
  <2> USE DEF TimerInv
  <2>1. activeTimers = {IdOf(e) : e \in timers}
    BY DEF ActiveAgrees
  <2>2. TimersConsistent
    BY <2>1 DEF TimersConsistent, EntriesLive
  <2>3. CancelIsExact
    BY <2>1 DEF CancelIsExact, CancelRemembered, InsertedAccounted
  <2> QED BY <2>2, <2>3 DEF TimersSound
<1> QED BY <1>1, TimerInitInv, TimerNextInv, PTL DEF TimerSpec
=============================================================================
