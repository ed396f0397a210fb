----------------------------- MODULE ThreadPool -----------------------------
(***************************************************************************)
(* ThreadPool (base/ThreadPool.cc): a queue of tasks with a bound, filled by *)
(* run() and emptied by worker threads, over one mutex and two condition     *)
(* variables.  A step is what a thread does while it holds the mutex, or a   *)
(* test of running_ outside it.  A waiting thread may wake up for no reason. *)
(* The pool has at least one thread and was started; with none, run() calls  *)
(* the task itself.                                                          *)
(***************************************************************************)
EXTENDS Integers, Sequences

CONSTANTS
  Workers,       \* threads_
  Submitters,    \* threads that call run()
  maxQueueSize,  \* maxQueueSize_, 0 for no bound
  MaxTasks       \* bound on the tasks of one submitter

ASSUME PoolAssumption ==
  Workers # {} /\ maxQueueSize \in Nat /\ MaxTasks \in Nat

VARIABLES
  poolRunning,  \* running_
  poolQueue,    \* queue_: tasks <<submitter, number>>
  worker,       \* where each worker is in runInThread
  holding,      \* the task a worker runs
  blocked,      \* submitters waiting for notFull_
  submitted,    \* calls of run() each submitter has finished
  taken,        \* history: the tasks in the order take() returned them
  refused,      \* history: the tasks run() dropped because of stop()
  completed     \* history: the tasks that ran

poolVars == <<poolRunning, poolQueue, worker, holding, blocked, submitted,
              taken, refused, completed>>

IsFull == maxQueueSize > 0 /\ Len(poolQueue) >= maxQueueSize
Idle(ws) == {w \in Workers : ws[w] = "waiting"}
NextTask(p) == <<p, submitted[p] + 1>>

\* notEmpty_.notify() wakes one waiting worker, notifyAll() every one: what
\* the workers may be after it.
WokenOne(ws) ==
  IF Idle(ws) = {} THEN {ws} ELSE {[ws EXCEPT ![w] = "take"] : w \in Idle(ws)}
WokenAll(ws) ==
  {[w \in Workers |-> IF ws[w] = "waiting" THEN "take" ELSE ws[w]]}

\* Faulty: run() looks at the queue only before its first wait; no
\* worker is told of a new task; stop() wakes one worker.
MustWaitOnce(p) == IsFull /\ poolRunning /\ submitted[p] = 0
AfterPushNoNotify(ws) == {ws}
AfterStopOne(ws) == WokenOne(ws)

AfterPush(ws) == WokenOne(ws)
AfterStop(ws) == WokenAll(ws)

\* run() from where it has the mutex, at the start or after notFull_.wait().
MustWait(p) == IsFull /\ poolRunning
Run(p) ==
  /\ submitted[p] < MaxTasks /\ p \notin blocked
  /\ IF MustWait(p)
     THEN /\ blocked' = blocked \cup {p}
          /\ UNCHANGED <<poolQueue, worker, submitted, refused>>
     ELSE /\ submitted' = [submitted EXCEPT ![p] = @ + 1]
          /\ IF poolRunning
             THEN /\ poolQueue' = Append(poolQueue, NextTask(p))
                  /\ worker' \in AfterPush(worker)
                  /\ UNCHANGED refused
             ELSE /\ refused' = refused \cup {NextTask(p)}
                  /\ UNCHANGED <<poolQueue, worker>>
          /\ UNCHANGED blocked
  /\ UNCHANGED <<poolRunning, holding, taken, completed>>

\* stop() while it has the mutex; the joins then wait for the workers.
StopPool ==
  /\ poolRunning
  /\ poolRunning' = FALSE
  /\ worker' \in AfterStop(worker)
  /\ blocked' = {}
  /\ UNCHANGED <<poolQueue, holding, submitted, taken, refused, completed>>

-----------------------------------------------------------------------------
(* runInThread *)

\* The loop condition, read without the mutex.
TestRunning(w) ==
  /\ worker[w] = "loop"
  /\ worker' = [worker EXCEPT ![w] = IF poolRunning THEN "take" ELSE "exited"]
  /\ UNCHANGED <<poolRunning, poolQueue, holding, blocked, submitted, taken,
                 refused, completed>>

\* take() from where it has the mutex; notFull_.notify() lets one submitter go.
TakeNothing(w) ==
  /\ worker[w] = "take" /\ poolQueue = <<>>
  /\ worker' = [worker EXCEPT ![w] = IF poolRunning THEN "waiting" ELSE "loop"]
  /\ UNCHANGED <<poolRunning, poolQueue, holding, blocked, submitted, taken,
                 refused, completed>>

TakeTask(w) ==
  /\ worker[w] = "take" /\ poolQueue # <<>>
  /\ worker' = [worker EXCEPT ![w] = "task"]
  /\ holding' = [holding EXCEPT ![w] = Head(poolQueue)]
  /\ taken' = Append(taken, Head(poolQueue))
  /\ poolQueue' = Tail(poolQueue)
  /\ IF maxQueueSize > 0 /\ blocked # {}
     THEN \E p \in blocked : blocked' = blocked \ {p}
     ELSE UNCHANGED blocked
  /\ UNCHANGED <<poolRunning, submitted, refused, completed>>

\* The task returns.
FinishTask(w) ==
  /\ worker[w] = "task"
  /\ worker' = [worker EXCEPT ![w] = "loop"]
  /\ completed' = completed \cup {holding[w]}
  /\ UNCHANGED <<poolRunning, poolQueue, holding, blocked, submitted, taken, refused>>

SpuriousWakeup(w) ==
  /\ worker[w] = "waiting"
  /\ worker' = [worker EXCEPT ![w] = "take"]
  /\ UNCHANGED <<poolRunning, poolQueue, holding, blocked, submitted, taken,
                 refused, completed>>

-----------------------------------------------------------------------------
PoolInit ==
  /\ poolRunning = TRUE /\ poolQueue = <<>>
  /\ worker = [w \in Workers |-> "loop"]
  /\ holding = [w \in Workers |-> <<>>]
  /\ blocked = {} /\ submitted = [p \in Submitters |-> 0]
  /\ taken = <<>> /\ refused = {} /\ completed = {}

WorkerStep(w) == TestRunning(w) \/ TakeNothing(w) \/ TakeTask(w) \/ FinishTask(w)

PoolNext ==
  \/ \E p \in Submitters : Run(p)
  \/ StopPool
  \/ \E w \in Workers : WorkerStep(w)
  \/ \E w \in Workers : SpuriousWakeup(w)

\* The threads of the pool go on running and tasks return; nothing is assumed
\* of the submitters or of spurious wakeups.
PoolSpec ==
  PoolInit /\ [][PoolNext]_poolVars /\ \A w \in Workers : WF_poolVars(WorkerStep(w))

-----------------------------------------------------------------------------
\* Whatever way submitters, workers and stop() interleave: the queue keeps to
\* its bound (the assertion of run()), and the tasks of one submitter are taken
\* in the order of its calls, each once, none missing but those run() dropped,
\* which it does after stop() only and then with every later one too.
PoolTasksInOrder ==
  LET accepted == taken \o poolQueue
      Accepted(t) == \E i \in DOMAIN accepted : accepted[i] = t
  IN /\ maxQueueSize > 0 => Len(poolQueue) <= maxQueueSize
     /\ poolRunning => refused = {}
     /\ \A i, j \in DOMAIN accepted :
          i < j /\ accepted[i][1] = accepted[j][1] => accepted[i][2] < accepted[j][2]
     /\ \A t \in refused, i \in DOMAIN accepted :
          accepted[i][1] = t[1] => accepted[i][2] < t[2]
     /\ \A p \in Submitters, n \in 1..MaxTasks :
          n <= submitted[p] <=> Accepted(<<p, n>>) \/ <<p, n>> \in refused

\* No wakeup is lost: a task in the queue is run while the pool runs ...
TaskIsRun ==
  \A p \in Submitters, n \in 1..MaxTasks :
    (submitted[p] >= n) ~> (<<p, n>> \in completed \/ ~poolRunning)

\* ... and stop() ends every worker and leaves no submitter waiting.
PoolStops ==
  ~poolRunning ~> (blocked = {} /\ \A w \in Workers : worker[w] = "exited")

\* The pool neither forgets a task nor keeps a thread waiting for ever.
PoolGoesOn == TaskIsRun /\ PoolStops
=============================================================================
