---------------------------- MODULE ThreadsProofs ----------------------------
(***************************************************************************)
(* Proofs about the threads of the base and network libraries, for any      *)
(* number of them and any bounds: the task queue of ThreadPool, and the     *)
(* buffers of AsyncLogging.                                                 *)
(***************************************************************************)
EXTENDS ThreadPool, AsyncLogging, SequenceTheorems, TLAPS

-----------------------------------------------------------------------------
(* ThreadPool *)

Tasks == Submitters \X (1..MaxTasks)

\* The variables the order of the tasks depends on have their types.
PoolTypes ==
  /\ poolRunning \in BOOLEAN
  /\ poolQueue \in Seq(Tasks)
  /\ taken \in Seq(Tasks)
  /\ refused \subseteq Tasks
  /\ submitted \in [Submitters -> 0..MaxTasks]

\* Of the tasks run() was called for, sub[p] by each p, those accepted are in
\* the order of the calls, and those refused come after them.
InOrder(accepted, ref, sub) ==
  /\ \A i, j \in DOMAIN accepted :
       i < j /\ accepted[i][1] = accepted[j][1] => accepted[i][2] < accepted[j][2]
  /\ \A t \in ref, i \in DOMAIN accepted :
       accepted[i][1] = t[1] => accepted[i][2] < t[2]
  /\ \A p \in Submitters, n \in 1..MaxTasks :
       n <= sub[p] <=> (\E i \in DOMAIN accepted : accepted[i] = <<p, n>>) \/ <<p, n>> \in ref

\* The inductive invariant: a task is in taken and then in the queue in the
\* order run() accepted it.
PoolInv ==
  /\ PoolTypes
  /\ maxQueueSize > 0 => Len(poolQueue) <= maxQueueSize
  /\ poolRunning => refused = {}
  /\ InOrder(taken \o poolQueue, refused, submitted)

\* Appending to the second of two sequences appends to both together.
LEMMA JoinAppend ==
  ASSUME NEW S, NEW s \in Seq(S), NEW t \in Seq(S), NEW x \in S
  PROVE  s \o Append(t, x) = Append(s \o t, x)
<1>1. /\ Append(t, x) \in Seq(S) /\ Len(Append(t, x)) = Len(t) + 1
      /\ \A i \in 1..Len(t) : Append(t, x)[i] = t[i]
      /\ Append(t, x)[Len(t) + 1] = x
  BY AppendProperties
<1>2. /\ s \o t \in Seq(S) /\ Len(s \o t) = Len(s) + Len(t)
      /\ \A i \in 1..Len(s) + Len(t) :
           (s \o t)[i] = IF i <= Len(s) THEN s[i] ELSE t[i - Len(s)]
  BY ConcatProperties
<1>3. DEFINE l == s \o Append(t, x)
             r == Append(s \o t, x)
<1>4. /\ l \in Seq(S) /\ Len(l) = Len(s) + Len(t) + 1
      /\ \A i \in 1..Len(s) + Len(t) + 1 :
           l[i] = IF i <= Len(s) THEN s[i] ELSE Append(t, x)[i - Len(s)]
  <2>1. /\ l \in Seq(S) /\ Len(l) = Len(s) + Len(Append(t, x))
        /\ \A i \in 1..Len(s) + Len(Append(t, x)) :
             l[i] = IF i <= Len(s) THEN s[i] ELSE Append(t, x)[i - Len(s)]
    BY <1>1, ConcatProperties
  <2>2. Len(s) \in Nat /\ Len(t) \in Nat
    BY LenProperties
  <2>3. Len(s) + Len(Append(t, x)) = Len(s) + Len(t) + 1
    BY <1>1, <2>2
  <2> QED BY <2>1, <2>3
<1>5. /\ r \in Seq(S) /\ Len(r) = Len(s) + Len(t) + 1
      /\ \A i \in 1..Len(s) + Len(t) : r[i] = (s \o t)[i]
      /\ r[Len(s) + Len(t) + 1] = x
  BY <1>2, AppendProperties
<1>6. Len(s) \in Nat /\ Len(t) \in Nat
  BY LenProperties
<1>7. \A i \in 1..Len(l) : l[i] = r[i]
  <2> HIDE DEF l, r
  <2> DEFINE a == Append(t, x)
             m == Len(s)
             n == Len(t)
             c == s \o t
  <2>1. \A i \in 1..(m + n + 1) : l[i] = IF i <= m THEN s[i] ELSE a[i - m]
    BY <1>4
  <2>2. (\A i \in 1..n : a[i] = t[i]) /\ a[n + 1] = x
    BY <1>1
  <2>3. \A i \in 1..(m + n) : c[i] = IF i <= m THEN s[i] ELSE t[i - m]
    BY <1>2
  <2>4. (\A i \in 1..(m + n) : r[i] = c[i]) /\ r[m + n + 1] = x
    BY <1>5
  <2>5. Len(l) = m + n + 1 /\ m \in Nat /\ n \in Nat
    BY <1>4, <1>6
  <2> HIDE DEF a, m, n, c
  <2>6. SUFFICES ASSUME NEW i \in 1..(m + n + 1) PROVE l[i] = r[i]
    BY <2>5
  <2>7. CASE i <= m
    <3>1. i \in 1..(m + n)
      BY <2>5, <2>7
    <3>2. c[i] = s[i] /\ r[i] = c[i]
      BY <2>3, <2>4, <2>7, <3>1
    <3>3. l[i] = s[i]
      BY <2>1, <2>7
    <3> QED BY <3>2, <3>3
  <2>8. CASE i > m /\ i <= m + n
    <3>1. i - m \in 1..n
      BY <2>5, <2>8
    <3> QED BY <2>1, <2>2, <2>3, <2>4, <2>5, <2>8, <3>1
  <2>9. CASE i = m + n + 1
    <3>1. i - m = n + 1 /\ ~(i <= m)
      BY <2>5, <2>9
    <3> QED BY <2>1, <2>2, <2>4, <2>9, <3>1
  <2> QED BY <2>5, <2>7, <2>8, <2>9
<1> QED BY <1>4, <1>5, <1>7, SeqEqual

\* Moving the head of the second to the end of the first leaves both together
\* as they are.
LEMMA JoinTake ==
  ASSUME NEW S, NEW s \in Seq(S), NEW t \in Seq(S), t # <<>>
  PROVE  Append(s, Head(t)) \o Tail(t) = s \o t
<1>1. /\ Head(t) \in S /\ Tail(t) \in Seq(S) /\ Len(Tail(t)) = Len(t) - 1
      /\ \A i \in 1..Len(Tail(t)) : Tail(t)[i] = t[i + 1]
      /\ Head(t) = t[1]
  BY HeadTailProperties
<1>2. /\ Len(s) \in Nat /\ Len(t) \in Nat /\ Len(t) # 0
  BY LenProperties, EmptySeq
<1> DEFINE a == Append(s, Head(t))
           b == Tail(t)
           l == a \o b
           r == s \o t
           m == Len(s)
           n == Len(t)
<1>3. /\ a \in Seq(S) /\ Len(a) = m + 1
      /\ \A i \in 1..m : a[i] = s[i]
      /\ a[m + 1] = t[1]
  BY <1>1, AppendProperties
<1>4. /\ l \in Seq(S) /\ Len(l) = Len(a) + Len(b)
      /\ \A i \in 1..(Len(a) + Len(b)) : l[i] = IF i <= Len(a) THEN a[i] ELSE b[i - Len(a)]
  BY <1>1, <1>3, ConcatProperties
<1>5. /\ r \in Seq(S) /\ Len(r) = m + n
      /\ \A i \in 1..(m + n) : r[i] = IF i <= m THEN s[i] ELSE t[i - m]
  BY ConcatProperties
<1>6. Len(b) = n - 1 /\ \A i \in 1..Len(b) : b[i] = t[i + 1]
  BY <1>1
<1>7. m \in Nat /\ n \in Nat /\ n # 0
  BY <1>2
<1>8. Len(l) = Len(r) /\ \A i \in 1..Len(l) : l[i] = r[i]
  <2> HIDE DEF a, b, l, r, m, n
  <2>1. Len(l) = m + n
    BY <1>3, <1>4, <1>6, <1>7
  <2>2. SUFFICES ASSUME NEW i \in 1..(m + n) PROVE l[i] = r[i]
    BY <1>5, <2>1
  <2>3. CASE i <= m
    <3>1. i \in 1..(Len(a) + Len(b)) /\ i <= Len(a) /\ i \in 1..m
      BY <1>3, <1>6, <1>7, <2>3
    <3>2. l[i] = a[i]
      BY <1>4, <3>1
    <3> QED BY <1>3, <1>5, <2>3, <3>1, <3>2
  <2>4. CASE i = m + 1
    <3>1. i - m = 1 /\ i <= Len(a) /\ ~(i <= m)
      BY <1>3, <1>7, <2>4
    <3>2. r[i] = t[1]
      BY <1>5, <3>1
    <3>3. l[i] = a[i]
      BY <1>3, <1>4, <1>6, <1>7, <3>1
    <3> QED BY <1>3, <2>4, <3>2, <3>3
  <2>5. CASE i > m + 1
    <3>1. i - Len(a) \in 1..Len(b) /\ (i - Len(a)) + 1 = i - m /\ ~(i <= Len(a)) /\ ~(i <= m)
      BY <1>3, <1>6, <1>7, <2>5
    <3>2. l[i] = b[i - Len(a)]
      BY <1>3, <1>4, <1>6, <1>7, <3>1
    <3>3. b[i - Len(a)] = t[i - m]
      BY <1>6, <3>1
    <3> QED BY <1>5, <3>1, <3>2, <3>3
  <2> QED BY <1>7, <2>3, <2>4, <2>5
<1> QED BY <1>4, <1>5, <1>8, SeqEqual

\* run() puts the next task of p behind all it accepted before.
LEMMA AcceptInOrder ==
  ASSUME NEW acc \in Seq(Tasks), NEW sub \in [Submitters -> 0..MaxTasks],
         NEW p \in Submitters, sub[p] < MaxTasks,
         InOrder(acc, {}, sub)
  PROVE  InOrder(Append(acc, <<p, sub[p] + 1>>), {}, [sub EXCEPT ![p] = @ + 1])
<1> DEFINE x == <<p, sub[p] + 1>>
           new == Append(acc, x)
           k == Len(acc)
           more == [sub EXCEPT ![p] = @ + 1]
<1>1. MaxTasks \in Nat
  BY PoolAssumption
<1>2. sub[p] \in Nat /\ sub[p] + 1 \in 1..MaxTasks /\ x \in Tasks
  BY <1>1 DEF Tasks
<1>3. /\ k \in Nat /\ new \in Seq(Tasks) /\ DOMAIN new = 1..(k + 1) /\ DOMAIN acc = 1..k
      /\ \A i \in 1..k : new[i] = acc[i]
      /\ new[k + 1] = x
  BY <1>2, AppendProperties, LenProperties
<1>4. \A i \in 1..k : acc[i] \in Tasks /\ acc[i] = <<acc[i][1], acc[i][2]>>
  BY <1>3, ElementOfSeq DEF Tasks
<1>5. \A i \in 1..k : acc[i][1] = p => acc[i][2] <= sub[p]
  <2>1. SUFFICES ASSUME NEW i \in 1..k, acc[i][1] = p PROVE acc[i][2] <= sub[p]
    OBVIOUS
  <2>2. acc[i][2] \in 1..MaxTasks /\ acc[i] = <<p, acc[i][2]>>
    BY <1>4, <2>1 DEF Tasks
  <2> QED BY <1>3, <2>2 DEF InOrder
<1>6. \A q \in Submitters : more[q] = IF q = p THEN sub[p] + 1 ELSE sub[q]
  OBVIOUS
<1>7. x[1] = p /\ x[2] = sub[p] + 1
  OBVIOUS
<1> HIDE DEF x, new, k, more
<1>8. \A i, j \in 1..(k + 1) : i < j /\ new[i][1] = new[j][1] => new[i][2] < new[j][2]
  <2>1. SUFFICES ASSUME NEW i \in 1..(k + 1), NEW j \in 1..(k + 1),
                        i < j, new[i][1] = new[j][1]
                 PROVE  new[i][2] < new[j][2]
    OBVIOUS
  <2>2. i \in 1..k
    BY <1>3, <2>1
  <2>3. CASE j \in 1..k
    BY <1>3, <2>1, <2>2, <2>3 DEF InOrder
  <2>4. CASE j = k + 1
    <3>1. acc[i][2] \in 1..MaxTasks
      BY <1>4, <2>2 DEF Tasks
    <3> QED BY <1>1, <1>2, <1>3, <1>5, <1>7, <2>1, <2>2, <2>4, <3>1
  <2> QED BY <1>3, <2>3, <2>4
<1>9. \A q \in Submitters, n \in 1..MaxTasks :
        n <= more[q] <=> \E i \in 1..(k + 1) : new[i] = <<q, n>>
  <2>1. SUFFICES ASSUME NEW q \in Submitters, NEW n \in 1..MaxTasks
                 PROVE  n <= more[q] <=> \E i \in 1..(k + 1) : new[i] = <<q, n>>
    OBVIOUS
  <2>2. n <= sub[q] <=> \E i \in 1..k : acc[i] = <<q, n>>
    BY <1>3 DEF InOrder
  <2>3. (\E i \in 1..(k + 1) : new[i] = <<q, n>>)
          <=> (\E i \in 1..k : acc[i] = <<q, n>>) \/ x = <<q, n>>
    <3>1. \A i \in 1..(k + 1) : i \in 1..k \/ i = k + 1
      BY <1>3
    <3>2. \A i \in 1..k : i \in 1..(k + 1)
      BY <1>3
    <3>3. k + 1 \in 1..(k + 1)
      BY <1>3
    <3> QED BY <1>3, <3>1, <3>2, <3>3
  <2>4. x = <<q, n>> <=> q = p /\ n = sub[p] + 1
    BY DEF x
  <2>5. sub[q] \in Nat /\ n \in Nat
    BY <1>1
  <2> QED BY <1>2, <1>6, <2>2, <2>3, <2>4, <2>5
<1> QED BY <1>3, <1>8, <1>9 DEF InOrder, new, x, more

\* run() refuses the next task of p: whatever it refused and accepted before is
\* earlier.
LEMMA RefuseInOrder ==
  ASSUME NEW acc \in Seq(Tasks), NEW ref \in SUBSET Tasks,
         NEW sub \in [Submitters -> 0..MaxTasks],
         NEW p \in Submitters, sub[p] < MaxTasks,
         InOrder(acc, ref, sub)
  PROVE  InOrder(acc, ref \cup {<<p, sub[p] + 1>>}, [sub EXCEPT ![p] = @ + 1])
<1> DEFINE x == <<p, sub[p] + 1>>
           k == Len(acc)
           more == [sub EXCEPT ![p] = @ + 1]
<1>1. MaxTasks \in Nat
  BY PoolAssumption
<1>2. sub[p] \in Nat /\ sub[p] + 1 \in 1..MaxTasks /\ x \in Tasks
  BY <1>1 DEF Tasks
<1>3. k \in Nat /\ DOMAIN acc = 1..k
  BY LenProperties
<1>4. \A i \in 1..k : acc[i] \in Tasks /\ acc[i] = <<acc[i][1], acc[i][2]>>
  BY <1>3, ElementOfSeq DEF Tasks
<1>5. \A i \in 1..k : acc[i][1] = p => acc[i][2] < sub[p] + 1
  <2>1. SUFFICES ASSUME NEW i \in 1..k, acc[i][1] = p PROVE acc[i][2] < sub[p] + 1
    OBVIOUS
  <2>2. acc[i][2] \in 1..MaxTasks /\ acc[i] = <<p, acc[i][2]>>
    BY <1>4, <2>1 DEF Tasks
  <2>3. acc[i][2] <= sub[p]
    BY <1>3, <2>2 DEF InOrder
  <2> QED BY <1>1, <1>2, <2>2, <2>3
<1>6. \A q \in Submitters : more[q] = IF q = p THEN sub[p] + 1 ELSE sub[q]
  OBVIOUS
<1>7. x[1] = p /\ x[2] = sub[p] + 1
  OBVIOUS
<1> HIDE DEF x, k, more
<1>8. \A t \in ref \cup {x}, i \in 1..k : acc[i][1] = t[1] => acc[i][2] < t[2]
  BY <1>3, <1>5, <1>7 DEF InOrder
<1>9. \A q \in Submitters, n \in 1..MaxTasks :
        n <= more[q] <=> (\E i \in 1..k : acc[i] = <<q, n>>) \/ <<q, n>> \in ref \cup {x}
  <2>1. SUFFICES ASSUME NEW q \in Submitters, NEW n \in 1..MaxTasks
                 PROVE  n <= more[q] <=> (\E i \in 1..k : acc[i] = <<q, n>>)
                                           \/ <<q, n>> \in ref \cup {x}
    OBVIOUS
  <2>2. n <= sub[q] <=> (\E i \in 1..k : acc[i] = <<q, n>>) \/ <<q, n>> \in ref
    BY <1>3 DEF InOrder
  <2>3. x = <<q, n>> <=> q = p /\ n = sub[p] + 1
    BY DEF x
  <2>4. sub[q] \in Nat /\ n \in Nat
    BY <1>1
  <2> QED BY <1>2, <1>6, <2>2, <2>3, <2>4
<1> QED BY <1>3, <1>8, <1>9 DEF InOrder, x, more

-----------------------------------------------------------------------------
\* The pool starts with no task.
LEMMA PoolInitInv == PoolInit => PoolInv
<1> SUFFICES ASSUME PoolInit PROVE PoolInv
  OBVIOUS
<1> USE DEF PoolInit
<1>1. MaxTasks \in Nat /\ maxQueueSize \in Nat
  BY PoolAssumption
<1>2. PoolTypes
  BY <1>1, EmptySeq DEF PoolTypes
<1>3. taken \o poolQueue = <<>>
  BY ConcatEmptySeq, EmptySeq
<1>4. InOrder(<<>>, refused, submitted)
  BY <1>1, EmptySeq DEF InOrder
<1>5. Len(poolQueue) = 0
  BY EmptySeq
<1> QED BY <1>1, <1>2, <1>3, <1>4, <1>5 DEF PoolInv

\* run() keeps the invariant.
LEMMA RunKeeps ==
  ASSUME PoolInv, NEW p \in Submitters, Run(p)
  PROVE  PoolInv'
<1> USE DEF PoolInv, PoolTypes
<1>1. MaxTasks \in Nat /\ maxQueueSize \in Nat
  BY PoolAssumption
<1>2. submitted[p] \in 0..MaxTasks /\ submitted[p] < MaxTasks
  BY DEF Run
<1>3. <<p, submitted[p] + 1>> \in Tasks
  BY <1>1, <1>2 DEF Tasks
<1>4. taken \o poolQueue \in Seq(Tasks)
  BY ConcatProperties
<1>5. CASE MustWait(p)
  BY <1>5 DEF Run
<1>6. CASE ~MustWait(p) /\ poolRunning
  <2>1. /\ submitted' = [submitted EXCEPT ![p] = @ + 1]
        /\ poolQueue' = Append(poolQueue, <<p, submitted[p] + 1>>)
        /\ UNCHANGED <<poolRunning, refused, taken>>
    BY <1>6 DEF Run, NextTask
  <2>2. submitted' \in [Submitters -> 0..MaxTasks]
    BY <1>1, <1>2, <2>1
  <2>3. poolQueue' \in Seq(Tasks) /\ Len(poolQueue') = Len(poolQueue) + 1
    BY <1>3, <2>1, AppendProperties
  <2>4. (taken \o poolQueue)' = Append(taken \o poolQueue, <<p, submitted[p] + 1>>)
    BY <1>3, <2>1, JoinAppend
  <2>5. InOrder(taken \o poolQueue, refused, submitted)'
    BY <1>2, <1>4, <1>6, <2>1, <2>4, AcceptInOrder
  <2>6. maxQueueSize > 0 => Len(poolQueue') <= maxQueueSize
    <3>1. Len(poolQueue) \in Nat
      BY LenProperties
    <3>2. ~(maxQueueSize > 0 /\ Len(poolQueue) >= maxQueueSize)
      BY <1>6 DEF MustWait, IsFull
    <3> DEFINE n == Len(poolQueue)
    <3> HIDE DEF n
    <3> QED BY <1>1, <2>3, <3>1, <3>2 DEF n
  <2> QED BY <1>6, <2>1, <2>2, <2>3, <2>5, <2>6
<1>7. CASE ~MustWait(p) /\ ~poolRunning
  <2>1. /\ submitted' = [submitted EXCEPT ![p] = @ + 1]
        /\ refused' = refused \cup {<<p, submitted[p] + 1>>}
        /\ UNCHANGED <<poolRunning, poolQueue, taken>>
    BY <1>7 DEF Run, NextTask
  <2>2. submitted' \in [Submitters -> 0..MaxTasks]
    BY <1>1, <1>2, <2>1
  <2>3. refused' \subseteq Tasks
    BY <1>3, <2>1
  <2>4. InOrder(taken \o poolQueue, refused, submitted)'
    BY <1>2, <1>4, <2>1, RefuseInOrder
  <2> QED BY <1>7, <2>1, <2>2, <2>3, <2>4
<1> QED BY <1>5, <1>6, <1>7

\* take() keeps the invariant.
LEMMA TakeKeeps ==
  ASSUME PoolInv, NEW w \in Workers, TakeTask(w)
  PROVE  PoolInv'
<1> USE DEF PoolInv, PoolTypes
<1>1. /\ poolQueue # <<>>
      /\ taken' = Append(taken, Head(poolQueue))
      /\ poolQueue' = Tail(poolQueue)
      /\ UNCHANGED <<poolRunning, submitted, refused>>
  BY DEF TakeTask
<1>2. /\ Head(poolQueue) \in Tasks /\ Tail(poolQueue) \in Seq(Tasks)
      /\ Len(Tail(poolQueue)) = Len(poolQueue) - 1
  BY <1>1, HeadTailProperties
<1>3. taken' \in Seq(Tasks)
  BY <1>1, <1>2, AppendProperties
<1>4. (taken \o poolQueue)' = taken \o poolQueue
  BY <1>1, JoinTake
<1>5. maxQueueSize > 0 => Len(poolQueue') <= maxQueueSize
  <2>1. Len(poolQueue) \in Nat /\ Len(poolQueue') = Len(poolQueue) - 1
    BY <1>1, <1>2, LenProperties
  <2> DEFINE n == Len(poolQueue)
  <2> HIDE DEF n
  <2> QED BY <2>1, PoolAssumption DEF n
<1> QED BY <1>1, <1>2, <1>3, <1>4, <1>5

\* Every step keeps the invariant.
LEMMA PoolNextInv == PoolInv /\ [PoolNext]_poolVars => PoolInv'
<1> SUFFICES ASSUME PoolInv, [PoolNext]_poolVars PROVE PoolInv'
  OBVIOUS
<1>1. CASE \E p \in Submitters : Run(p)
  BY <1>1, RunKeeps
<1>2. CASE StopPool
  BY <1>2 DEF StopPool, PoolInv, PoolTypes
<1>3. ASSUME NEW w \in Workers, WorkerStep(w) PROVE PoolInv'
  <2>1. CASE TestRunning(w)
    BY <2>1 DEF TestRunning, PoolInv, PoolTypes
  <2>2. CASE TakeNothing(w)
    BY <2>2 DEF TakeNothing, PoolInv, PoolTypes
  <2>3. CASE TakeTask(w)
    BY <2>3, TakeKeeps
  <2>4. CASE FinishTask(w)
    BY <2>4 DEF FinishTask, PoolInv, PoolTypes
  <2> QED BY <1>3, <2>1, <2>2, <2>3, <2>4 DEF WorkerStep
<1>4. ASSUME NEW w \in Workers, SpuriousWakeup(w) PROVE PoolInv'
  BY <1>4 DEF SpuriousWakeup, PoolInv, PoolTypes
<1>5. CASE UNCHANGED poolVars
  BY <1>5 DEF poolVars, PoolInv, PoolTypes
<1> QED BY <1>1, <1>2, <1>3, <1>4, <1>5 DEF PoolNext

\* ThreadPool: whatever way any number of submitters, workers and stop()
\* interleave, the queue keeps to its bound and the tasks of every submitter are
\* taken in order and once, but for those run() drops after stop().
THEOREM PoolTasksAlwaysInOrder == PoolSpec => []PoolTasksInOrder
<1>1. PoolInv => PoolTasksInOrder
  BY DEF PoolInv, PoolTasksInOrder, InOrder
<1> QED BY <1>1, PoolInitInv, PoolNextInv, PTL DEF PoolSpec

-----------------------------------------------------------------------------
(* AsyncLogging *)

Lines == Seq(Nat)
Phases == {"top", "lock", "waiting", "write", "recycle", "finished"}

\* The variables the order of the lines depends on have their types.
LogTypes ==
  /\ appended \in Nat
  /\ currentBuffer \in Lines /\ buffers \in Seq(Lines) /\ toWrite \in Seq(Lines)
  /\ out \in Seq([lines : Lines, dropped : BOOLEAN])
  /\ backend \in Phases
  /\ nextBuffer \in BOOLEAN /\ new1 \in BOOLEAN /\ new2 \in BOOLEAN

\* nextBuffer_ is missing only if a buffer was filled since the swap; the spare
\* buffers are there but while the back end writes, and then what it writes is
\* enough to replace them.
SparesFound ==
  /\ ~nextBuffer => buffers # <<>>
  /\ backend \notin {"write", "recycle"} => new1 /\ new2 /\ toWrite = <<>>
  /\ backend \in {"write", "recycle"} => 1 <= Len(toWrite) /\ (new2 \/ 2 <= Len(toWrite))

\* The inductive invariant.
LogInv == LogTypes /\ SparesFound /\ InTurn(Stored, appended) /\ ~failed

\* The lines of the buffers in a history.
LinesOf(o) == [k \in DOMAIN o |-> o[k].lines]

\* An empty buffer behind the others changes nothing, ...
LEMMA TurnEmpty ==
  ASSUME NEW s \in Seq(Lines), NEW n \in Nat, InTurn(s, n)
  PROVE  InTurn(Append(s, <<>>), n)
<1>1. PICK t : t = Append(s, <<>>)
  OBVIOUS
<1>2. PICK m \in Nat : m = Len(s)
  BY LenProperties
<1>3. <<>> \in Lines
  BY DEF Lines
<1>4. DOMAIN t = 1..(m + 1) /\ DOMAIN s = 1..m
  BY <1>1, <1>2, <1>3, AppendProperties, LenProperties
<1>5. (\A k \in 1..m : t[k] = s[k]) /\ t[m + 1] = <<>>
  BY <1>1, <1>2, <1>3, AppendProperties
<1>6. \A k \in 1..(m + 1) : \A i : i \in DOMAIN t[k] => k \in 1..m
  BY <1>5
<1>7. \A k \in 1..(m + 1) : \A i \in DOMAIN t[k] : k \in 1..m /\ t[k] = s[k]
  BY <1>5, <1>6
<1>8. \A k \in DOMAIN t : \A i \in DOMAIN t[k] : t[k][i] \in 1..n
  BY <1>4, <1>7 DEF InTurn
<1>9. ASSUME NEW k \in DOMAIN t, NEW l \in DOMAIN t, NEW i \in DOMAIN t[k], NEW j \in DOMAIN t[l],
             k < l \/ (k = l /\ i < j)
      PROVE  t[k][i] < t[l][j]
  <2>1. k \in DOMAIN s /\ l \in DOMAIN s /\ t[k] = s[k] /\ t[l] = s[l]
    BY <1>4, <1>7
  <2> QED BY <1>9, <2>1 DEF InTurn
<1>10. ASSUME NEW v \in 1..n PROVE \E k \in DOMAIN t : \E i \in DOMAIN t[k] : t[k][i] = v
  <2>1. PICK k \in DOMAIN s : \E i \in DOMAIN s[k] : s[k][i] = v
    BY DEF InTurn
  <2>2. k \in DOMAIN t /\ t[k] = s[k]
    BY <1>4, <1>5
  <2> QED BY <2>1, <2>2
<1>11. InTurn(t, n)
  BY <1>8, <1>9, <1>10 DEF InTurn
<1> QED BY <1>1, <1>11

\* ... the next line in a buffer of its own goes on with them, ...
LEMMA TurnNext ==
  ASSUME NEW s \in Seq(Lines), NEW n \in Nat, InTurn(s, n)
  PROVE  InTurn(Append(s, <<n + 1>>), n + 1)
<1>0. PICK q \in Nat : q = n + 1
  OBVIOUS
<1>1. PICK t : t = Append(s, <<q>>)
  OBVIOUS
<1>2. PICK m \in Nat : m = Len(s)
  BY LenProperties
<1>3. <<q>> \in Lines
  BY DEF Lines
<1>4. DOMAIN t = 1..(m + 1) /\ DOMAIN s = 1..m
  BY <1>1, <1>2, <1>3, AppendProperties, LenProperties
<1>5. (\A k \in 1..m : t[k] = s[k]) /\ t[m + 1] = <<q>>
  BY <1>1, <1>2, <1>3, AppendProperties
<1>6. DOMAIN t[m + 1] = {1} /\ t[m + 1][1] = q
  BY <1>5
<1>7. ASSUME NEW k \in 1..(m + 1), NEW i \in DOMAIN t[k] PROVE t[k][i] \in 1..q
  <2>1. CASE k = m + 1
    BY <1>0, <1>6, <2>1
  <2>2. CASE k # m + 1
    <3>1. k \in DOMAIN s /\ t[k] = s[k]
      BY <1>4, <1>5, <2>2
    <3>2. t[k][i] \in 1..n
      BY <3>1 DEF InTurn
    <3> QED BY <1>0, <3>2
  <2> QED BY <2>1, <2>2
<1>8. ASSUME NEW k \in 1..(m + 1), NEW l \in 1..(m + 1), NEW i \in DOMAIN t[k],
             NEW j \in DOMAIN t[l], k < l \/ (k = l /\ i < j)
      PROVE  t[k][i] < t[l][j]
  <2>1. CASE l = m + 1
    <3>1. k \in 1..m
      BY <1>6, <1>8, <2>1
    <3>2. t[k][i] \in 1..n
      BY <1>4, <1>5, <3>1 DEF InTurn
    <3> QED BY <1>0, <1>6, <2>1, <3>2
  <2>2. CASE l # m + 1
    <3>1. l \in 1..m /\ k \in 1..m
      BY <1>8, <2>2
    <3> QED BY <1>4, <1>5, <1>8, <3>1 DEF InTurn
  <2> QED BY <2>1, <2>2
<1>9. ASSUME NEW v \in 1..q PROVE \E k \in 1..(m + 1) : \E i \in DOMAIN t[k] : t[k][i] = v
  <2>1. CASE v = q
    BY <1>6, <2>1
  <2>2. CASE v # q
    <3>1. v \in 1..n
      BY <1>0, <2>2
    <3>2. PICK k \in 1..m : \E i \in DOMAIN s[k] : s[k][i] = v
      BY <1>4, <3>1 DEF InTurn
    <3> QED BY <1>5, <3>2
  <2> QED BY <2>1, <2>2
<1>10. InTurn(t, q)
  BY <1>4, <1>7, <1>8, <1>9 DEF InTurn
<1> QED BY <1>0, <1>1, <1>10

\* ... and so does the next line in the last of them.
LEMMA TurnGrow ==
  ASSUME NEW s \in Seq(Lines), NEW c \in Lines, NEW n \in Nat, InTurn(Append(s, c), n)
  PROVE  InTurn(Append(s, Append(c, n + 1)), n + 1)
<1>0. PICK q \in Nat : q = n + 1
  OBVIOUS
<1>1. PICK d : d = Append(c, q)
  OBVIOUS
<1>2. PICK m \in Nat : m = Len(s)
  BY LenProperties
<1>3. PICK h \in Nat : h = Len(c)
  BY LenProperties DEF Lines
<1>4. d \in Lines /\ DOMAIN d = 1..(h + 1) /\ DOMAIN c = 1..h
      /\ (\A i \in 1..h : d[i] = c[i]) /\ d[h + 1] = q
  BY <1>1, <1>3, AppendProperties, LenProperties DEF Lines
<1>5. PICK u : u = Append(s, c)
  OBVIOUS
<1>6. DOMAIN u = 1..(m + 1) /\ (\A k \in 1..m : u[k] = s[k]) /\ u[m + 1] = c
  BY <1>2, <1>5, AppendProperties, LenProperties
<1>7. PICK t : t = Append(s, d)
  OBVIOUS
<1>8. DOMAIN t = 1..(m + 1) /\ (\A k \in 1..m : t[k] = s[k]) /\ t[m + 1] = d
  BY <1>2, <1>4, <1>7, AppendProperties, LenProperties
<1>u. InTurn(u, n)
  BY <1>5
<1>9. ASSUME NEW k \in 1..(m + 1), NEW i \in DOMAIN t[k]
      PROVE  \/ i \in DOMAIN u[k] /\ t[k][i] = u[k][i]
             \/ k = m + 1 /\ i = h + 1 /\ t[k][i] = q
  BY <1>4, <1>6, <1>8
<1>10. ASSUME NEW k \in 1..(m + 1), NEW i \in DOMAIN u[k]
       PROVE  i \in DOMAIN t[k] /\ t[k][i] = u[k][i]
  BY <1>4, <1>6, <1>8
<1>11. ASSUME NEW k \in 1..(m + 1), NEW i \in DOMAIN t[k] PROVE t[k][i] \in 1..q
  <2>1. CASE i \in DOMAIN u[k] /\ t[k][i] = u[k][i]
    <3>1. t[k][i] \in 1..n
      BY <1>6, <1>u, <2>1 DEF InTurn
    <3> QED BY <1>0, <3>1
  <2>2. CASE t[k][i] = q
    BY <1>0, <2>2
  <2> QED BY <1>9, <2>1, <2>2
<1>12. ASSUME NEW k \in 1..(m + 1), NEW l \in 1..(m + 1), NEW i \in DOMAIN t[k],
              NEW j \in DOMAIN t[l], k < l \/ (k = l /\ i < j)
       PROVE  t[k][i] < t[l][j]
  <2>1. CASE l = m + 1 /\ j = h + 1
    <3>1. ~(k = m + 1 /\ i = h + 1)
      BY <1>12, <2>1
    <3>2. t[k][i] \in 1..n
      BY <1>6, <1>9, <1>u, <3>1 DEF InTurn
    <3>3. t[l][j] = q
      BY <1>4, <1>8, <2>1
    <3> QED BY <1>0, <3>2, <3>3
  <2>2. CASE ~(l = m + 1 /\ j = h + 1)
    <3>1. j \in DOMAIN u[l] /\ t[l][j] = u[l][j]
      BY <1>9, <2>2
    <3>2. ~(k = m + 1 /\ i = h + 1)
      BY <1>3, <1>4, <1>6, <1>12, <3>1
    <3>3. i \in DOMAIN u[k] /\ t[k][i] = u[k][i]
      BY <1>9, <3>2
    <3> QED BY <1>6, <1>12, <1>u, <3>1, <3>3 DEF InTurn
  <2> QED BY <2>1, <2>2
<1>13. ASSUME NEW v \in 1..q PROVE \E k \in 1..(m + 1) : \E i \in DOMAIN t[k] : t[k][i] = v
  <2>1. CASE v = q
    <3>1. m + 1 \in 1..(m + 1) /\ h + 1 \in DOMAIN t[m + 1] /\ t[m + 1][h + 1] = v
      BY <1>4, <1>8, <2>1
    <3> QED BY <3>1
  <2>2. CASE v # q
    <3>1. v \in 1..n
      BY <1>0, <2>2
    <3>2. PICK k \in 1..(m + 1) : \E i \in DOMAIN u[k] : u[k][i] = v
      BY <1>6, <1>u, <3>1 DEF InTurn
    <3> QED BY <1>10, <3>2
  <2> QED BY <2>1, <2>2
<1>14. InTurn(t, q)
  BY <1>8, <1>11, <1>12, <1>13 DEF InTurn
<1> QED BY <1>0, <1>1, <1>7, <1>14

\* An empty buffer between the others may go.
LEMMA TurnDrop ==
  ASSUME NEW s \in Seq(Lines), NEW r \in Seq(Lines), NEW n \in Nat,
         InTurn(Append(s, <<>>) \o r, n)
  PROVE  InTurn(s \o r, n)
<1>1. PICK m \in Nat : m = Len(s)
  BY LenProperties
<1>2. PICK h \in Nat : h = Len(r)
  BY LenProperties
<1>3. PICK e : e = Append(s, <<>>)
  OBVIOUS
<1>4. /\ e \in Seq(Lines) /\ Len(e) = m + 1
      /\ (\A k \in 1..m : e[k] = s[k]) /\ e[m + 1] = <<>>
  <2>1. <<>> \in Lines
    BY DEF Lines
  <2> QED BY <1>1, <1>3, <2>1, AppendProperties
<1>5. PICK u : u = e \o r
  OBVIOUS
<1>6. /\ u \in Seq(Lines) /\ Len(u) = m + 1 + h
      /\ \A k \in 1..(m + 1 + h) : u[k] = IF k <= m + 1 THEN e[k] ELSE r[k - (m + 1)]
  <2>1. /\ u \in Seq(Lines) /\ Len(u) = Len(e) + Len(r)
        /\ \A k \in 1..(Len(e) + Len(r)) : u[k] = IF k <= Len(e) THEN e[k] ELSE r[k - Len(e)]
    BY <1>4, <1>5, ConcatProperties
  <2> QED BY <1>2, <1>4, <2>1
<1>7. PICK t : t = s \o r
  OBVIOUS
<1>8. /\ t \in Seq(Lines) /\ Len(t) = m + h
      /\ \A k \in 1..(m + h) : t[k] = IF k <= m THEN s[k] ELSE r[k - m]
  BY <1>1, <1>2, <1>7, ConcatProperties
<1>9. DOMAIN u = 1..(m + 1 + h) /\ DOMAIN t = 1..(m + h)
  BY <1>6, <1>8, LenProperties
<1>u. InTurn(u, n)
  BY <1>3, <1>5
<1> DEFINE at(k) == IF k <= m THEN k ELSE k + 1
<1>10. ASSUME NEW k \in 1..(m + h) PROVE at(k) \in DOMAIN u /\ t[k] = u[at(k)]
  <2>1. CASE k <= m
    BY <1>4, <1>6, <1>8, <1>9, <2>1, SMTT(30)
  <2>2. CASE k > m
    <3>1. PICK l \in 1..(m + 1 + h) : l = k + 1 /\ ~(l <= m + 1) /\ l - (m + 1) = k - m
      BY <2>2
    <3>2. u[l] = r[k - m]
      BY <1>6, <3>1
    <3>3. t[k] = r[k - m]
      BY <1>8, <2>2
    <3> QED BY <1>9, <2>2, <3>1, <3>2, <3>3, SMTT(30)
  <2> QED BY <2>1, <2>2
<1>11. \A k, l \in 1..(m + h) : k < l => at(k) < at(l)
  OBVIOUS
<1>12. ASSUME NEW l \in 1..(m + 1 + h), l # m + 1 PROVE \E k \in 1..(m + h) : l = at(k)
  <2>1. CASE l <= m
    BY <2>1
  <2>2. CASE l > m + 1
    <3>1. l - 1 \in 1..(m + h) /\ l = at(l - 1)
      BY <2>2
    <3> QED BY <3>1
  <2> QED BY <1>12, <2>1, <2>2
<1>13. u[m + 1] = <<>>
  BY <1>4, <1>6
<1> HIDE DEF at
<1>14. \A k \in DOMAIN t : \A i \in DOMAIN t[k] : t[k][i] \in 1..n
  BY <1>9, <1>10, <1>u DEF InTurn
<1>15. ASSUME NEW k \in DOMAIN t, NEW l \in DOMAIN t, NEW i \in DOMAIN t[k], NEW j \in DOMAIN t[l],
              k < l \/ (k = l /\ i < j)
       PROVE  t[k][i] < t[l][j]
  <2>1. at(k) \in DOMAIN u /\ at(l) \in DOMAIN u /\ t[k] = u[at(k)] /\ t[l] = u[at(l)]
    BY <1>9, <1>10
  <2>2. at(k) < at(l) \/ (at(k) = at(l) /\ i < j)
    BY <1>9, <1>11, <1>15
  <2> QED BY <1>u, <2>1, <2>2 DEF InTurn
<1>16. ASSUME NEW v \in 1..n PROVE \E k \in DOMAIN t : \E i \in DOMAIN t[k] : t[k][i] = v
  <2>1. PICK l \in DOMAIN u : \E i \in DOMAIN u[l] : u[l][i] = v
    BY <1>u DEF InTurn
  <2>2. l # m + 1
    BY <1>13, <2>1
  <2>3. PICK k \in 1..(m + h) : l = at(k)
    BY <1>9, <1>12, <2>2
  <2>4. k \in DOMAIN t /\ t[k] = u[l]
    BY <1>9, <1>10, <2>3
  <2> QED BY <2>1, <2>4
<1>17. InTurn(t, n)
  BY <1>14, <1>15, <1>16 DEF InTurn
<1> QED BY <1>7, <1>17

\* What the history leaves out of the buffers b holds no line.
LEMMA TurnWithLines ==
  ASSUME NEW s \in Seq(Lines), NEW b \in Seq(Lines), NEW r \in Seq(Lines), NEW n \in Nat,
         InTurn((s \o b) \o r, n)
  PROVE  WithLines(b) \in Seq(Lines) /\ InTurn((s \o WithLines(b)) \o r, n)
<1>1. CASE b # <<>> /\ b[Len(b)] = <<>>
  <2>1. PICK w : w = SubSeq(b, 1, Len(b) - 1)
    OBVIOUS
  <2>2. Len(b) \in Nat /\ Len(b) > 0
    BY <1>1, EmptySeq, LenProperties
  <2>3. w \in Seq(Lines) /\ Append(w, b[Len(b)]) = b
    BY <1>1, <2>1, <2>2
  <2>4. <<>> \in Lines /\ Append(w, <<>>) = b
    BY <1>1, <2>3 DEF Lines
  <2>5. s \o b = Append(s \o w, <<>>) /\ s \o w \in Seq(Lines)
    <3>1. s \o Append(w, <<>>) = Append(s \o w, <<>>)
      BY <2>3, <2>4, JoinAppend
    <3>2. s \o w \in Seq(Lines)
      BY <2>3, ConcatProperties
    <3> QED BY <2>4, <3>1, <3>2
  <2>6. InTurn((s \o w) \o r, n)
    BY <2>5, TurnDrop
  <2>7. WithLines(b) = w
    BY <1>1, <2>1 DEF WithLines
  <2> QED BY <2>3, <2>6, <2>7
<1>2. CASE ~(b # <<>> /\ b[Len(b)] = <<>>)
  BY <1>2 DEF WithLines
<1> QED BY <1>1, <1>2

\* The history joins the lines of the buffers.
LEMMA LinesOfJoin ==
  ASSUME NEW D, NEW o \in Seq([lines : Lines, dropped : D]), NEW e \in Seq([lines : Lines, dropped : D])
  PROVE  /\ LinesOf(o) \in Seq(Lines) /\ LinesOf(o \o e) = LinesOf(o) \o LinesOf(e)
<1> DEFINE R == [lines : Lines, dropped : D]
<1>1. ASSUME NEW x \in Seq(R)
      PROVE  /\ LinesOf(x) \in Seq(Lines) /\ Len(LinesOf(x)) = Len(x)
             /\ \A k \in 1..Len(x) : LinesOf(x)[k] = x[k].lines
  <2>1. DOMAIN x = 1..Len(x) /\ Len(x) \in Nat
    BY LenProperties
  <2>2. \A k \in 1..Len(x) : x[k].lines \in Lines
    <3>1. \A k \in 1..Len(x) : x[k] \in R
      BY ElementOfSeq
    <3> QED BY <3>1
  <2>3. LinesOf(x) = [k \in 1..Len(x) |-> x[k].lines]
    BY <2>1 DEF LinesOf
  <2> QED BY <2>1, <2>2, <2>3
<1> HIDE DEF R
<1>2. /\ o \o e \in Seq(R) /\ Len(o \o e) = Len(o) + Len(e)
      /\ \A k \in 1..(Len(o) + Len(e)) : (o \o e)[k] = IF k <= Len(o) THEN o[k] ELSE e[k - Len(o)]
  BY ConcatProperties DEF R
<1>3. PICK l : l = LinesOf(o \o e)
  OBVIOUS
<1>4. PICK c : c = LinesOf(o) \o LinesOf(e)
  OBVIOUS
<1>5. PICK m \in Nat : m = Len(o)
  BY LenProperties
<1>6. PICK h \in Nat : h = Len(e)
  BY LenProperties
<1>7. /\ l \in Seq(Lines) /\ Len(l) = m + h
      /\ \A k \in 1..(m + h) : l[k] = (o \o e)[k].lines
  BY <1>1, <1>2, <1>3, <1>5, <1>6
<1>8. o \in Seq(R) /\ e \in Seq(R)
  BY DEF R
<1>9. /\ c \in Seq(Lines) /\ Len(c) = m + h
      /\ \A k \in 1..(m + h) : c[k] = IF k <= m THEN LinesOf(o)[k] ELSE LinesOf(e)[k - m]
  <2>1. LinesOf(o) \in Seq(Lines) /\ Len(LinesOf(o)) = m /\ LinesOf(e) \in Seq(Lines)
        /\ Len(LinesOf(e)) = h
    BY <1>1, <1>5, <1>6, <1>8
  <2> QED BY <1>4, <2>1, ConcatProperties
<1>10. ASSUME NEW k \in 1..(m + h) PROVE l[k] = c[k]
  <2>1. CASE k <= m
    <3>1. (o \o e)[k] = o[k]
      BY <1>2, <1>5, <1>6, <2>1
    <3>2. l[k] = o[k].lines
      BY <1>7, <3>1
    <3>3. c[k] = LinesOf(o)[k]
      BY <1>9, <2>1
    <3>4. k \in 1..Len(o)
      BY <1>5, <2>1
    <3>5. LinesOf(o)[k] = o[k].lines
      BY <1>1, <1>8, <3>4
    <3> QED BY <3>2, <3>3, <3>5
  <2>2. CASE k > m
    <3>1. PICK i \in 1..h : i = k - m
      BY <2>2
    <3>2. l[k] = e[i].lines
      BY <1>2, <1>5, <1>6, <1>7, <2>2, <3>1
    <3>3. c[k] = LinesOf(e)[i]
      BY <1>9, <2>2, <3>1
    <3> QED BY <1>1, <1>6, <1>8, <3>2, <3>3
  <2> QED BY <2>1, <2>2
<1>11. l = c
  BY <1>7, <1>9, <1>10, SeqEqual
<1> QED BY <1>1, <1>3, <1>4, <1>8, <1>11

\* What the back end is done with enters the history, but for the empty buffer.
LEMMA FatesLines ==
  ASSUME NEW b \in Seq(Lines), WithLines(b) \in Seq(Lines), NEW d \in BOOLEAN
  PROVE  /\ Fates(b, d) \in Seq([lines : Lines, dropped : BOOLEAN])
         /\ LinesOf(Fates(b, d)) = WithLines(b)
<1>1. PICK w \in Seq(Lines) : w = WithLines(b)
  OBVIOUS
<1>2. DOMAIN w = 1..Len(w) /\ Len(w) \in Nat /\ w = [k \in DOMAIN w |-> w[k]]
  BY LenProperties
<1>3. \A k \in DOMAIN w : w[k] \in Lines
  BY <1>2, ElementOfSeq
<1>4. Fates(b, d) = [k \in DOMAIN w |-> [lines |-> w[k], dropped |-> d]]
  BY <1>1 DEF Fates
<1>5. Fates(b, d) \in Seq([lines : Lines, dropped : BOOLEAN])
  BY <1>2, <1>3, <1>4
<1>6. LinesOf(Fates(b, d)) = [k \in DOMAIN w |-> w[k]]
  BY <1>4 DEF LinesOf
<1> QED BY <1>1, <1>2, <1>5, <1>6

\* The buffers of a state, with the current one last.
Turn(o, w, b, c) == ((LinesOf(o) \o w) \o b) \o <<c>>
\* The histories of the back end.
History == Seq([lines : Lines, dropped : BOOLEAN])

\* The current buffer is appended to the others, and all of it is buffers.
LEMMA TurnIs ==
  ASSUME NEW o \in History, NEW w \in Seq(Lines), NEW b \in Seq(Lines), NEW c \in Lines
  PROVE  /\ LinesOf(o) \in Seq(Lines)
         /\ (LinesOf(o) \o w) \in Seq(Lines)
         /\ (LinesOf(o) \o w) \o b \in Seq(Lines)
         /\ Turn(o, w, b, c) = Append((LinesOf(o) \o w) \o b, c)
         /\ Turn(o, w, b, c) \in Seq(Lines)
<1>1. PICK l : l = LinesOf(o)
  OBVIOUS
<1>2. l \in Seq(Lines)
  BY <1>1, LinesOfJoin DEF History
<1>3. l \o w \in Seq(Lines)
  BY <1>2, ConcatProperties
<1>4. (l \o w) \o b \in Seq(Lines)
  BY <1>3, ConcatProperties
<1>5. Append((l \o w) \o b, c) = ((l \o w) \o b) \o <<c>>
  BY <1>4, AppendIsConcat
<1>6. Append((l \o w) \o b, c) \in Seq(Lines)
  BY <1>4, AppendProperties
<1> QED BY <1>1, <1>2, <1>3, <1>4, <1>5, <1>6 DEF Turn

\* What the back end has taken and not yet written.
Writing == IF backend = "write" THEN toWrite ELSE <<>>

\* Stored is made of what is in the variables.
LEMMA StoredTurn == Stored = Turn(out, Writing, buffers, currentBuffer)
BY DEF Stored, Turn, Writing, LinesOf

\* append(): the line goes to the current buffer, or to a new one.
LEMMA TurnAppend ==
  ASSUME NEW o \in History, NEW w \in Seq(Lines), NEW b \in Seq(Lines), NEW c \in Lines,
         NEW n \in Nat, InTurn(Turn(o, w, b, c), n)
  PROVE  /\ InTurn(Turn(o, w, b, Append(c, n + 1)), n + 1)
         /\ InTurn(Turn(o, w, Append(b, c), <<n + 1>>), n + 1)
<1>1. PICK q \in Nat : q = n + 1
  OBVIOUS
<1>2. Append(c, q) \in Lines /\ <<q>> \in Lines
  BY AppendProperties DEF Lines
<1>3. PICK a : a = LinesOf(o) \o w
  OBVIOUS
<1>4. PICK x : x = a \o b
  OBVIOUS
<1>5. a \in Seq(Lines) /\ x \in Seq(Lines) /\ Turn(o, w, b, c) = Append(x, c)
  BY <1>3, <1>4, TurnIs
<1>6. InTurn(Append(x, Append(c, q)), q)
  BY <1>1, <1>5, TurnGrow
<1>7. Turn(o, w, b, Append(c, q)) = Append(x, Append(c, q))
  BY <1>2, <1>3, <1>4, TurnIs
<1>8. Append(b, c) \in Seq(Lines)
  BY AppendProperties
<1>9. Turn(o, w, Append(b, c), <<q>>) = Append(a \o Append(b, c), <<q>>)
  BY <1>2, <1>3, <1>8, TurnIs
<1>10. a \o Append(b, c) = Append(x, c)
  BY <1>4, <1>5, JoinAppend
<1>11. Append(x, c) \in Seq(Lines)
  BY <1>5, AppendProperties
<1>12. InTurn(Append(Append(x, c), <<q>>), q)
  BY <1>1, <1>5, <1>11, TurnNext
<1> QED BY <1>1, <1>6, <1>7, <1>9, <1>10, <1>12

\* The swap: an empty current buffer is behind the ones taken.
LEMMA TurnSwap ==
  ASSUME NEW o \in History, NEW b \in Seq(Lines), NEW c \in Lines, NEW n \in Nat,
         InTurn(Turn(o, <<>>, b, c), n)
  PROVE  InTurn(Turn(o, Append(b, c), <<>>, <<>>), n)
<1>1. <<>> \in Seq(Lines) /\ <<>> \in Lines
  BY DEF Lines
<1>2. PICK l : l = LinesOf(o)
  OBVIOUS
<1>3. l \in Seq(Lines)
  BY <1>1, <1>2, TurnIs
<1>4. l \o <<>> = l
  BY <1>3, ConcatEmptySeq
<1>5. Turn(o, <<>>, b, c) = Append((l \o <<>>) \o b, c)
  BY <1>1, <1>2, TurnIs
<1>6. Append(b, c) \in Seq(Lines)
  BY AppendProperties
<1>7. Turn(o, Append(b, c), <<>>, <<>>) = Append((l \o Append(b, c)) \o <<>>, <<>>)
  BY <1>1, <1>2, <1>6, TurnIs, ZenonT(30)
<1>8. l \o Append(b, c) = Append(l \o b, c)
  BY <1>3, JoinAppend
<1>9. PICK s : s = Append(l \o b, c)
  OBVIOUS
<1>10. s \in Seq(Lines)
  <2>1. l \o b \in Seq(Lines)
    BY <1>3, ConcatProperties
  <2> QED BY <1>9, <2>1, AppendProperties
<1>11. InTurn(s, n)
  BY <1>4, <1>5, <1>9
<1>12. s \o <<>> = s
  BY <1>10, ConcatEmptySeq
<1>13. Turn(o, Append(b, c), <<>>, <<>>) = Append(s, <<>>)
  BY <1>7, <1>8, <1>9, <1>12
<1> QED BY <1>10, <1>11, <1>13, TurnEmpty

\* Joining the lines of buffers is associative.
LEMMA BuffersJoin ==
  \A x, y, z \in Seq(Lines) : x \o (y \o z) = (x \o y) \o z
<1> TAKE x, y, z \in Seq(Lines)
<1>1. (x \o y) \o z = x \o (y \o z)
  BY ConcatAssociative
<1> QED BY <1>1

\* Writing: what is kept and what is dropped enter the history.
LEMMA TurnWrite ==
  ASSUME NEW o \in History, NEW k \in Seq(Lines), NEW d \in Seq(Lines), NEW b \in Seq(Lines),
         NEW c \in Lines, NEW n \in Nat, InTurn(Turn(o, k \o d, b, c), n)
  PROVE  /\ (o \o Fates(k, FALSE)) \o Fates(d, TRUE) \in History
         /\ InTurn(Turn((o \o Fates(k, FALSE)) \o Fates(d, TRUE), <<>>, b, c), n)
<1>1. PICK l : l = LinesOf(o)
  OBVIOUS
<1>2. <<>> \in Seq(Lines)
  OBVIOUS
<1>3. l \in Seq(Lines)
  BY <1>1, <1>2, TurnIs
<1>4. k \o d \in Seq(Lines) /\ l \o k \in Seq(Lines) /\ d \o b \in Seq(Lines)
  BY <1>3, ConcatProperties
<1>5. PICK t : t = <<c>>
  OBVIOUS
<1>6. t \in Seq(Lines)
  BY <1>5
<1>7. b \o t \in Seq(Lines)
  BY <1>6, ConcatProperties
<1>8. PICK r : r = b \o t
  OBVIOUS
<1>9. r \in Seq(Lines) /\ d \o r \in Seq(Lines)
  BY <1>7, <1>8, ConcatProperties
<1>10. Turn(o, k \o d, b, c) = ((l \o (k \o d)) \o b) \o t
  BY <1>1, <1>5 DEF Turn
<1>11. l \o (k \o d) = (l \o k) \o d
  BY <1>3, BuffersJoin, Zenon
<1>12. ASSUME NEW x \in Seq(Lines) PROVE (x \o b) \o t = x \o r
  BY <1>6, <1>8, BuffersJoin, Zenon
<1>13. (l \o k) \o d \in Seq(Lines)
  BY <1>4, ConcatProperties
<1>14. InTurn(((l \o k) \o d) \o r, n)
  BY <1>10, <1>11, <1>12, <1>13
<1>15. ((l \o k) \o d) \o r = (l \o k) \o (d \o r)
  <2>1. PICK x \in Seq(Lines) : x = l \o k
    BY <1>4
  <2>2. r \in Seq(Lines)
    BY <1>9
  <2>3. (x \o d) \o r = x \o (d \o r)
    BY <2>2, BuffersJoin
  <2> QED BY <2>1, <2>3
<1>16. WithLines(k) \in Seq(Lines) /\ InTurn((l \o WithLines(k)) \o (d \o r), n)
  BY <1>3, <1>9, <1>14, <1>15, TurnWithLines
<1>17. PICK wk : wk = WithLines(k)
  OBVIOUS
<1>18. PICK lk : lk = l \o wk
  OBVIOUS
<1>19. wk \in Seq(Lines) /\ lk \in Seq(Lines)
  BY <1>3, <1>16, <1>17, <1>18, ConcatProperties
<1>20. lk \o (d \o r) = (lk \o d) \o r
  <2>1. r \in Seq(Lines)
    BY <1>9
  <2>2. lk \in Seq(Lines)
    BY <1>19
  <2> QED BY <2>1, <2>2, BuffersJoin
<1>21. InTurn((lk \o d) \o r, n)
  BY <1>16, <1>17, <1>18, <1>20
<1>22. WithLines(d) \in Seq(Lines) /\ InTurn((lk \o WithLines(d)) \o r, n)
  BY <1>9, <1>19, <1>21, TurnWithLines
<1>23. PICK fk : fk = Fates(k, FALSE)
  OBVIOUS
<1>24. PICK fd : fd = Fates(d, TRUE)
  OBVIOUS
<1>25. fk \in History /\ LinesOf(fk) = wk
  BY <1>16, <1>17, <1>23, FatesLines DEF History
<1>26. fd \in History /\ LinesOf(fd) = WithLines(d)
  BY <1>22, <1>24, FatesLines DEF History
<1>27. o \o fk \in History
  BY <1>25, ConcatProperties DEF History
<1>28. (o \o fk) \o fd \in History
  BY <1>26, <1>27, ConcatProperties DEF History
<1>29. LinesOf(o \o fk) = lk
  BY <1>1, <1>18, <1>25, LinesOfJoin DEF History
<1>30. LinesOf((o \o fk) \o fd) = lk \o WithLines(d)
  BY <1>26, <1>27, <1>29, LinesOfJoin DEF History
<1>31. PICK z : z = lk \o WithLines(d)
  OBVIOUS
<1>32. z \in Seq(Lines)
  BY <1>19, <1>22, <1>31, ConcatProperties
<1>33. z \o <<>> = z
  BY <1>32, ConcatEmptySeq
<1>34. Turn((o \o fk) \o fd, <<>>, b, c) = (z \o b) \o t
  BY <1>5, <1>30, <1>31, <1>33 DEF Turn
<1>35. InTurn(z \o r, n)
  BY <1>22, <1>31
<1>36. InTurn(Turn((o \o fk) \o fd, <<>>, b, c), n)
  BY <1>12, <1>32, <1>34, <1>35
<1> QED BY <1>23, <1>24, <1>28, <1>36

\* The first g buffers and the rest.
LEMMA BuffersSplit ==
  ASSUME NEW t \in Seq(Lines), NEW h \in Nat, h = Len(t), NEW g \in 0..h
  PROVE  /\ SubSeq(t, 1, g) \in Seq(Lines) /\ Len(SubSeq(t, 1, g)) = g
         /\ SubSeq(t, g + 1, h) \in Seq(Lines)
         /\ SubSeq(t, 1, g) \o SubSeq(t, g + 1, h) = t
<1>1. \A i \in 1..h : t[i] \in Lines
  BY ElementOfSeq
<1>2. PICK p \in Int : p = g + 1
  OBVIOUS
<1>3. 1 \in Int /\ g \in Int /\ h \in Int /\ (\A i \in 1..g : t[i] \in Lines)
      /\ (\A i \in p..h : t[i] \in Lines)
  BY <1>1, <1>2
<1>4. SubSeq(t, 1, g) \in Seq(Lines) /\ Len(SubSeq(t, 1, g)) = IF 1 <= g THEN g - 1 + 1 ELSE 0
  BY <1>3, SubSeqProperties
<1>5. SubSeq(t, p, h) \in Seq(Lines)
  BY <1>3, SubSeqProperties
<1>6. SubSeq(t, 1, g) \o SubSeq(t, g + 1, h) = SubSeq(t, 1, h)
  <2>1. 1 \in 1..Len(t) + 1 /\ g \in (1 - 1)..Len(t) /\ h \in g..Len(t)
    OBVIOUS
  <2> QED BY <2>1, ConcatAdjacentSubSeq
<1>7. SubSeq(t, 1, h) = t
  BY SubSeqFull
<1>8. SubSeq(t, g + 1, h) \in Seq(Lines)
  BY <1>2, <1>5
<1>9. PICK z : z = Len(SubSeq(t, 1, g))
  OBVIOUS
<1>10. z = g
  <2>1. z = IF 1 <= g THEN g - 1 + 1 ELSE 0
    BY <1>4, <1>9
  <2> QED BY <2>1
<1> QED BY <1>4, <1>6, <1>7, <1>8, <1>9, <1>10, Zenon

\* The next state's buffers.
LEMMA StoredNext ==
  ASSUME NEW o, NEW w, NEW b, NEW c, o = out', w = Writing', b = buffers', c = currentBuffer'
  PROVE  Stored' = Turn(o, w, b, c)
BY DEF Stored, Turn, Writing, LinesOf

\* Every step of the threads and of the back end keeps the lines in turn.
LEMMA LogStep == LogInv /\ [LogNext]_logVars => LogInv'
<1> SUFFICES ASSUME LogInv, [LogNext]_logVars PROVE LogInv'
  OBVIOUS
<1>t. LogTypes /\ SparesFound /\ ~failed
  BY DEF LogInv
<1>h. out \in History /\ Writing \in Seq(Lines)
  BY <1>t DEF LogTypes, History, Writing
<1>i. InTurn(Turn(out, Writing, buffers, currentBuffer), appended)
  BY StoredTurn DEF LogInv
<1>e. <<>> \in Lines /\ <<>> \in Seq(Lines)
  BY DEF Lines
<1>1. CASE AppendLine
  <2>1. PICK q \in Nat : q = appended + 1
    BY <1>t DEF LogTypes
  <2>2. UNCHANGED <<toWrite, new1, new2, out, failed, backend>> /\ appended' = q
    BY <1>1, <2>1 DEF AppendLine, backendVars
  <2>3. Writing' = Writing
    BY <2>2 DEF Writing
  <2>4. CASE Capacity - Len(currentBuffer) > 1
    <3>1. currentBuffer' = Append(currentBuffer, q) /\ UNCHANGED <<buffers, nextBuffer>>
      BY <1>1, <2>1, <2>4 DEF AppendLine
    <3>2. currentBuffer' \in Lines
      BY <1>t, <3>1, AppendProperties DEF LogTypes, Lines
    <3>3. InTurn(Turn(out, Writing, buffers, Append(currentBuffer, q)), q)
      BY <1>h, <1>i, <1>t, <2>1, TurnAppend DEF LogTypes
    <3>4. InTurn(Stored', appended')
      BY <2>2, <2>3, <3>1, <3>3, StoredNext
    <3>5. LogTypes'
      BY <1>t, <2>2, <3>1, <3>2 DEF LogTypes
    <3>6. SparesFound'
      BY <1>t, <2>2, <3>1 DEF SparesFound
    <3> QED BY <1>t, <2>2, <3>4, <3>5, <3>6 DEF LogInv
  <2>5. CASE ~(Capacity - Len(currentBuffer) > 1)
    <3>1. currentBuffer' = <<q>> /\ buffers' = Append(buffers, currentBuffer) /\ nextBuffer' = FALSE
      BY <1>1, <2>1, <2>5 DEF AppendLine, QueueFull
    <3>2. currentBuffer' \in Lines
      BY <3>1 DEF Lines
    <3>3. buffers' \in Seq(Lines) /\ buffers' # <<>>
      BY <1>t, <3>1, AppendProperties, EmptySeq DEF LogTypes
    <3>4. InTurn(Turn(out, Writing, Append(buffers, currentBuffer), <<q>>), q)
      BY <1>h, <1>i, <1>t, <2>1, TurnAppend DEF LogTypes
    <3>5. InTurn(Stored', appended')
      BY <2>2, <2>3, <3>1, <3>4, StoredNext
    <3>6. LogTypes'
      BY <1>t, <2>2, <3>1, <3>2, <3>3 DEF LogTypes
    <3>7. SparesFound'
      BY <1>t, <2>2, <3>3 DEF SparesFound
    <3> QED BY <1>t, <2>2, <3>5, <3>6, <3>7 DEF LogInv
  <2> QED BY <2>4, <2>5
<1>2. CASE SwapBuffers
  <2>1. /\ toWrite' = Append(buffers, currentBuffer) /\ buffers' = <<>> /\ currentBuffer' = <<>>
        /\ new1' = FALSE /\ nextBuffer' = TRUE /\ new2' = (new2 /\ nextBuffer)
        /\ backend' = "write" /\ UNCHANGED <<appended, out, failed>> /\ backend \in {"lock", "waiting"}
    BY <1>2 DEF SwapBuffers
  <2>2. toWrite' \in Seq(Lines) /\ Len(toWrite') = Len(buffers) + 1 /\ Len(buffers) \in Nat
    BY <1>t, <2>1, AppendProperties, LenProperties DEF LogTypes
  <2>3. Writing = <<>> /\ Writing' = Append(buffers, currentBuffer)
    BY <2>1 DEF Writing
  <2>4. InTurn(Turn(out, Append(buffers, currentBuffer), <<>>, <<>>), appended)
    BY <1>h, <1>i, <1>t, <2>3, TurnSwap DEF LogTypes
  <2>5. InTurn(Stored', appended')
    BY <2>1, <2>3, <2>4, StoredNext
  <2>6. LogTypes'
    BY <1>e, <1>t, <2>1, <2>2 DEF LogTypes, Phases
  <2>7. SparesFound'
    <3>1. new2
      BY <1>t, <2>1 DEF SparesFound
    <3>2. ~nextBuffer => Len(buffers) # 0
      BY <1>t, EmptySeq DEF SparesFound, LogTypes
    <3>3. 1 <= Len(toWrite') /\ (nextBuffer \/ 2 <= Len(toWrite'))
      BY <2>2, <3>2
    <3>4. new2' = nextBuffer
      BY <1>t, <2>1, <3>1 DEF LogTypes
    <3> QED BY <2>1, <3>3, <3>4 DEF SparesFound
  <2> QED BY <1>t, <2>1, <2>5, <2>6, <2>7 DEF LogInv
<1>3. CASE WriteBuffers
  <2> DEFINE tooMany == Len(toWrite) > MaxBuffers
             kept == IF tooMany THEN KeepTwo(toWrite) ELSE toWrite
             lost == SubSeq(toWrite, Len(kept) + 1, Len(toWrite))
  <2>1. /\ out' = out \o Fates(kept, FALSE) \o Fates(lost, TRUE)
        /\ toWrite' = SubSeq(kept, 1, IF Len(kept) > 2 THEN 2 ELSE Len(kept))
        /\ backend = "write" /\ backend' = "recycle"
        /\ UNCHANGED <<appended, currentBuffer, nextBuffer, buffers, new1, new2, failed>>
    BY <1>3 DEF WriteBuffers, frontVars
  <2>2. PICK h \in Nat : h = Len(toWrite)
    BY <1>t, LenProperties DEF LogTypes
  <2>3. 1 <= h /\ (new2 \/ 2 <= h)
    BY <1>t, <2>1, <2>2 DEF SparesFound
  <2>4. /\ kept \in Seq(Lines) /\ lost \in Seq(Lines) /\ kept \o lost = toWrite
        /\ Len(kept) \in 1..h /\ (new2 \/ 2 <= Len(kept))
    <3>1. toWrite \in Seq(Lines)
      BY <1>t DEF LogTypes
    <3>2. PICK g \in 0..h : g = (IF tooMany THEN 2 ELSE h)
      <4>1. tooMany => 2 \in 0..h
        BY <2>2, LogAssumption
      <4> QED BY <4>1
    <3>3. kept = SubSeq(toWrite, 1, g)
      <4>1. SubSeq(toWrite, 1, h) = toWrite
        BY <2>2, <3>1, SubSeqFull
      <4>2. CASE tooMany
        BY <3>2, <4>2 DEF KeepTwo
      <4>3. CASE ~tooMany
        BY <3>2, <4>1, <4>3
      <4> QED BY <4>2, <4>3
    <3> HIDE DEF kept
    <3>4. kept \in Seq(Lines) /\ Len(kept) = g
      BY <2>2, <3>1, <3>3, BuffersSplit
    <3>5. lost = SubSeq(toWrite, g + 1, h)
      BY <2>2, <3>4
    <3> HIDE DEF lost
    <3>6. lost \in Seq(Lines) /\ kept \o lost = toWrite
      BY <2>2, <3>1, <3>3, <3>5, BuffersSplit
    <3>7. g \in 1..h /\ (new2 \/ 2 <= g)
      BY <2>3, <3>2
    <3> QED BY <3>4, <3>6, <3>7
  <2> HIDE DEF kept, lost
  <2>5. Writing = kept \o lost
    BY <2>1, <2>4 DEF Writing
  <2>6. /\ (out \o Fates(kept, FALSE)) \o Fates(lost, TRUE) \in History
        /\ InTurn(Turn((out \o Fates(kept, FALSE)) \o Fates(lost, TRUE), <<>>, buffers, currentBuffer),
                  appended)
    BY <1>h, <1>i, <1>t, <2>4, <2>5, TurnWrite DEF LogTypes
  <2>7. Writing' = <<>>
    BY <2>1 DEF Writing
  <2>8. InTurn(Stored', appended')
    BY <2>1, <2>6, <2>7, StoredNext
  <2>9. PICK g \in 1..h : g = Len(kept)
    BY <2>4
  <2>10. PICK e \in 1..g : e = (IF g > 2 THEN 2 ELSE g)
    <3>1. (IF g > 2 THEN 2 ELSE g) \in 1..g
      BY <2>2
    <3> QED BY <3>1
  <2>11. toWrite' = SubSeq(kept, 1, e)
    BY <2>1, <2>9, <2>10
  <2>12. toWrite' \in Seq(Lines) /\ Len(toWrite') = e
    BY <2>4, <2>9, <2>10, <2>11, SubSeqProperties
  <2>13. LogTypes'
    BY <1>t, <2>1, <2>6, <2>12 DEF LogTypes, Phases, History
  <2>14. SparesFound'
    <3>1. 1 <= e /\ (new2 \/ 2 <= e)
      BY <2>2, <2>4, <2>9, <2>10
    <3> QED BY <1>t, <2>1, <2>12, <3>1 DEF SparesFound
  <2> QED BY <1>t, <2>1, <2>8, <2>13, <2>14 DEF LogInv
<1>4. CASE Recycle
  <2>1. /\ backend = "recycle" /\ backend' = "top" /\ new1' = TRUE /\ new2' = TRUE /\ toWrite' = <<>>
        /\ UNCHANGED <<appended, currentBuffer, nextBuffer, buffers, out>>
    BY <1>4 DEF Recycle, frontVars
  <2>2. ~failed'
    <3>1. failed' = (failed \/ (IF new1 THEN 0 ELSE 1) + (IF new2 THEN 0 ELSE 1) > Len(toWrite))
      BY <1>4 DEF Recycle
    <3>2. PICK h \in Nat : h = Len(toWrite)
      BY <1>t, LenProperties DEF LogTypes
    <3>3. 1 <= h /\ (new2 \/ 2 <= h)
      BY <1>t, <2>1, <3>2 DEF SparesFound
    <3>4. ~((IF new1 THEN 0 ELSE 1) + (IF new2 THEN 0 ELSE 1) > h)
      BY <3>3
    <3> QED BY <1>t, <3>1, <3>2, <3>4
  <2>3. Writing' = Writing
    BY <2>1 DEF Writing
  <2>4. InTurn(Stored', appended')
    BY <1>i, <2>1, <2>3, StoredNext
  <2>5. LogTypes'
    BY <1>e, <1>t, <2>1 DEF LogTypes, Phases
  <2>6. SparesFound'
    BY <1>t, <2>1 DEF SparesFound
  <2> QED BY <2>2, <2>4, <2>5, <2>6 DEF LogInv
<1>5. CASE CheckRunning \/ BeginWait
  <2>1. /\ backend \in {"top", "lock"} /\ backend' \in {"lock", "finished", "waiting"}
        /\ UNCHANGED <<appended, currentBuffer, nextBuffer, buffers, toWrite, new1, new2, out>>
    BY <1>5 DEF CheckRunning, BeginWait, frontVars, backendVars
  <2>2. ~failed'
    BY <1>5, <1>t, <2>1 DEF CheckRunning, BeginWait, backendVars, SparesFound
  <2>3. Writing' = Writing
    BY <2>1 DEF Writing
  <2>4. InTurn(Stored', appended')
    BY <1>i, <2>1, <2>3, StoredNext
  <2>5. LogTypes'
    BY <1>t, <2>1 DEF LogTypes, Phases
  <2>6. SparesFound'
    BY <1>t, <2>1 DEF SparesFound
  <2> QED BY <2>2, <2>4, <2>5, <2>6 DEF LogInv
<1>6. CASE StopLogging \/ LogTick \/ UNCHANGED logVars
  <2>1. UNCHANGED <<appended, currentBuffer, nextBuffer, buffers, toWrite, new1, new2, out, failed, backend>>
    BY <1>6 DEF StopLogging, LogTick, logVars, frontVars, backendVars
  <2>2. Writing' = Writing
    BY <2>1 DEF Writing
  <2>3. InTurn(Stored', appended')
    BY <1>i, <2>1, <2>2, StoredNext
  <2>4. LogTypes'
    BY <1>t, <2>1 DEF LogTypes
  <2>5. SparesFound'
    BY <1>t, <2>1 DEF SparesFound
  <2> QED BY <1>t, <2>1, <2>3, <2>4, <2>5 DEF LogInv
<1> QED BY <1>1, <1>2, <1>3, <1>4, <1>5, <1>6 DEF LogNext

\* Every line AsyncLogging::append took is, once and in order, written, dropped
\* with a notice or in a buffer, and the assertions of threadFunc hold, for any
\* size of the buffers and any number of lines.
THEOREM LinesAlwaysAccounted == LogSpec => []LinesAccounted
<1>1. LogInit => LogInv
  <2> SUFFICES ASSUME LogInit PROVE LogInv
    OBVIOUS
  <2>1. LogTypes
    BY DEF LogInit, LogTypes, Lines, Phases
  <2>2. SparesFound
    BY DEF LogInit, SparesFound
  <2>3. Stored = <<<<>>>>
    <3>1. [k \in DOMAIN out |-> out[k].lines] = <<>>
      BY DEF LogInit
    <3> QED BY <3>1 DEF LogInit, Stored
  <2>4. InTurn(Stored, appended)
    BY <2>3 DEF InTurn, LogInit
  <2> QED BY <2>1, <2>2, <2>4 DEF LogInv, LogInit
<1>2. LogInv => LinesAccounted
  BY DEF LogInv, LinesAccounted
<1> QED BY <1>1, <1>2, LogStep, PTL DEF LogSpec
=============================================================================
