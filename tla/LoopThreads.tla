---------------------------- MODULE LoopThreads -----------------------------
(***************************************************************************)
(* EventLoopThreadPool over EventLoopThread, Thread and CountDownLatch: the  *)
(* base thread starts the IO threads one after the other, hands their loops  *)
(* out in turn, and ends them in the destructors.  A step is what a thread   *)
(* does while it holds a mutex, or up to the next shared variable.  Of the   *)
(* loops only quit_ is kept: loop() clears it on entry and tests it in every *)
(* iteration (EventLoop.tla has the rest).                                   *)
(***************************************************************************)
EXTENDS Integers, Sequences

CONSTANTS
  numThreads,  \* numThreads_
  MaxPicks     \* bound on the calls of getNextLoop()

ASSUME LoopThreadsAssumption == numThreads \in Nat \ {0} /\ MaxPicks \in Nat

VARIABLES
  base,       \* the base thread: [at, i], what it does and for which thread;
              \* "undefined" once it has used a loop or a mutex that is gone
  latch,      \* latch_ of the Threads
  published,  \* whether loop_ of the EventLoopThreads points to the loop
  thread,     \* where the threads are
  quit,       \* quit_ of the loops
  loops,      \* loops_
  next,       \* next_
  picks,      \* history: how often getNextLoop returned each loop
  early       \* history: loops with a quit() before loop() cleared quit_

threadVars == <<base, latch, published, thread, quit, loops, next, picks, early>>

Threads == 1..numThreads
At(what, i) == [at |-> what, i |-> i]
Go(what, i) == base.at = what /\ base.i = i

-----------------------------------------------------------------------------
(* The base thread: start(), with startLoop() and Thread::start() *)

\* pthread_create.
Create(i) ==
  /\ Go("start", i)
  /\ thread' = [thread EXCEPT ![i] = "created"]
  /\ base' = At("latch", i)
  /\ UNCHANGED <<latch, published, quit, loops, next, picks, early>>

\* CountDownLatch::wait of Thread::start; the mutex is released in the wait.
LatchWait(i) ==
  /\ Go("latch", i)
  /\ base' = At(IF latch[i] > 0 THEN "latchWaiting" ELSE "loop", i)
  /\ UNCHANGED <<latch, published, thread, quit, loops, next, picks, early>>

\* startLoop() waits for loop_, then start() goes on to the next thread.
LoopWait(i) ==
  /\ Go("loop", i)
  /\ IF published[i]
     THEN /\ loops' = Append(loops, i)
          /\ base' = IF i < numThreads THEN At("start", i + 1) ELSE At("ready", 0)
     ELSE base' = At("loopWaiting", i) /\ UNCHANGED loops
  /\ UNCHANGED <<latch, published, thread, quit, next, picks, early>>

\* getNextLoop, round robin.
NextIndex(n) == IF n + 1 >= Len(loops) THEN 0 ELSE n + 1
GetNextLoop ==
  /\ base.at = "ready" /\ Len(picks) < MaxPicks
  /\ picks' = Append(picks, loops[next + 1])
  /\ next' = NextIndex(next)
  /\ UNCHANGED <<base, latch, published, thread, quit, loops, early>>

-----------------------------------------------------------------------------
(* The base thread: the destructors of the EventLoopThreads *)

QuitLoop(i) ==
  /\ quit' = [quit EXCEPT ![i] = TRUE]
  /\ early' = IF thread[i] \in {"created", "func", "looper"} THEN early \cup {i} ELSE early

\* The application ends a loop itself, in one of the loop's callbacks.
AppQuit(i) ==
  /\ i <= Len(loops) /\ ~quit[i] /\ thread[i] = "looping"
  /\ QuitLoop(i)
  /\ UNCHANGED <<base, latch, published, thread, loops, next, picks>>

BeginDestroy ==
  /\ base.at = "ready"
  /\ base' = At("dtor", 1)
  /\ UNCHANGED <<latch, published, thread, quit, loops, next, picks, early>>

After(i) == IF i < numThreads THEN At("dtor", i + 1) ELSE At("destroyed", 0)

\* loop_ is tested without the mutex; without a loop the thread is detached, and
\* the mutex is destroyed, which the thread may still hold.
TestLoop(i) ==
  /\ Go("dtor", i)
  /\ \/ published[i] /\ base' = At("read", i)
     \/ ~published[i] /\ base' = After(i)
     \/ ~published[i] /\ thread[i] = "reset" /\ base' = At("undefined", i)
  /\ UNCHANGED <<latch, published, thread, quit, loops, next, picks, early>>

\* loop_ is read again for the call of quit(): it may be NULL by now, unless
\* the build still has what it read before.
ReadLoop(i) ==
  /\ Go("read", i)
  /\ \/ base' = At("quit", i)
     \/ ~published[i] /\ base' = At("undefined", i)
  /\ UNCHANGED <<latch, published, thread, quit, loops, next, picks, early>>

\* EventLoop::quit sets quit_, if the loop is still there, ...
DtorQuit(i) ==
  /\ Go("quit", i)
  /\ IF thread[i] = "finished"
     THEN base' = At("undefined", i) /\ UNCHANGED <<quit, early>>
     ELSE QuitLoop(i) /\ base' = At("wakeup", i)
  /\ UNCHANGED <<latch, published, thread, loops, next, picks>>

\* ... and wakes the loop up, which may have seen quit_ and be gone.
DtorWakeup(i) ==
  /\ Go("wakeup", i)
  /\ base' = At(IF thread[i] = "finished" THEN "undefined" ELSE "join", i)
  /\ UNCHANGED <<latch, published, thread, quit, loops, next, picks, early>>

Join(i) ==
  /\ Go("join", i) /\ thread[i] = "finished"
  /\ base' = After(i)
  /\ UNCHANGED <<latch, published, thread, quit, loops, next, picks, early>>

-----------------------------------------------------------------------------
(* The IO threads *)

\* Faulty: the notification is left out.
WakeNobody(waiting, again, i) == base

\* Condition::notify and notifyAll: the base thread is the only waiter.
Wake(waiting, again, i) == IF Go(waiting, i) THEN At(again, i) ELSE base

\* ThreadData::runInThread up to func_(), with countDown().
CountDown(i) ==
  /\ thread[i] = "created"
  /\ thread' = [thread EXCEPT ![i] = "func"]
  /\ latch' = [latch EXCEPT ![i] = @ - 1]
  /\ base' = IF latch'[i] = 0 THEN Wake("latchWaiting", "latch", i) ELSE base
  /\ UNCHANGED <<published, quit, loops, next, picks, early>>

\* threadFunc: the loop is made and made known.
Publish(i) ==
  /\ thread[i] = "func"
  /\ thread' = [thread EXCEPT ![i] = "looper"]
  /\ published' = [published EXCEPT ![i] = TRUE]
  /\ base' = Wake("loopWaiting", "loop", i)
  /\ UNCHANGED <<latch, quit, loops, next, picks, early>>

\* EventLoop::loop clears quit_ ...
EnterLoop(i) ==
  /\ thread[i] = "looper"
  /\ thread' = [thread EXCEPT ![i] = "looping"]
  /\ quit' = [quit EXCEPT ![i] = FALSE]
  /\ UNCHANGED <<base, latch, published, loops, next, picks, early>>

\* ... and returns when it finds it set;
LeaveLoop(i) ==
  /\ thread[i] = "looping" /\ quit[i]
  /\ thread' = [thread EXCEPT ![i] = "left"]
  /\ UNCHANGED <<base, latch, published, quit, loops, next, picks, early>>

\* threadFunc takes loop_ back, ...
ResetLoop(i) ==
  /\ thread[i] = "left"
  /\ thread' = [thread EXCEPT ![i] = "reset"]
  /\ published' = [published EXCEPT ![i] = FALSE]
  /\ UNCHANGED <<base, latch, quit, loops, next, picks, early>>

\* ... releases the mutex, and the loop is gone with its stack.
EndThread(i) ==
  /\ thread[i] = "reset"
  /\ thread' = [thread EXCEPT ![i] = "finished"]
  /\ UNCHANGED <<base, latch, published, quit, loops, next, picks, early>>

-----------------------------------------------------------------------------
ThreadsInit ==
  /\ base = At("start", 1)
  /\ latch = [i \in Threads |-> 1]
  /\ published = [i \in Threads |-> FALSE]
  /\ thread = [i \in Threads |-> "none"]
  /\ quit = [i \in Threads |-> FALSE]
  /\ loops = <<>> /\ next = 0 /\ picks = <<>> /\ early = {}

IoThread(i) ==
  \/ CountDown(i) \/ Publish(i)
  \/ EnterLoop(i) \/ LeaveLoop(i) \/ ResetLoop(i) \/ EndThread(i)
BaseThread ==
  \E i \in Threads : \/ Create(i) \/ LatchWait(i) \/ LoopWait(i)
                     \/ TestLoop(i) \/ ReadLoop(i) \/ DtorQuit(i) \/ DtorWakeup(i) \/ Join(i)

ThreadsNext ==
  \/ BaseThread
  \/ GetNextLoop
  \/ BeginDestroy
  \/ \E i \in Threads : AppQuit(i)
  \/ \E i \in Threads : IoThread(i)

\* Every thread goes on running; the application decides when to destroy.
ThreadsSpec ==
  /\ ThreadsInit /\ [][ThreadsNext]_threadVars
  /\ WF_threadVars(BaseThread)
  /\ \A i \in Threads : WF_threadVars(IoThread(i))

-----------------------------------------------------------------------------
\* start() returns, with no wakeup lost on the way through two latches, and the
\* destructors return, unless a quit() came so early that loop() forgot it, or
\* the loop ended on its own between two looks at it: then a destructor calls
\* NULL or a dead loop, or destroys a locked mutex, and nothing is said of it.
PoolStartsAndEnds ==
  /\ (base.at = "latch") ~> (base.at \notin {"start", "latch", "latchWaiting", "loop", "loopWaiting"})
  /\ (base.at = "dtor") ~> (base.at \in {"destroyed", "undefined"} \/ early # {})
=============================================================================
