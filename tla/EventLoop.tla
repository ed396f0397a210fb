----------------------------- MODULE EventLoop -----------------------------
(***************************************************************************)
(* EventLoop (net/EventLoop.cc): the loop thread polls, handles the active *)
(* channels, then runs the functors other threads queued.  A caller pushes *)
(* its functor under the mutex and only afterwards writes the eventfd that *)
(* interrupts the poll, so every step below can fall between the two.      *)
(*                                                                         *)
(* Functors are numbered in the order they are pushed.  The eventfd is a   *)
(* counter that a read resets; only whether it is zero matters.  The poll  *)
(* also returns for other channels and after its 10 s timeout; neither is  *)
(* relied on for progress.                                                 *)
(***************************************************************************)
EXTENDS Integers, Sequences

CONSTANTS
  Threads,      \* threads other than the loop's
  MaxFunctors   \* bound on the functors of a behaviour

ASSUME FunctorsAssumption == MaxFunctors \in Nat

VARIABLES
  phase,        \* where loop() is
  quit,         \* quit_
  readable,     \* the eventfd counter is not zero
  active,       \* activeChannels_: subset of {"wakeup", "io"}
  pending,      \* pendingFunctors_
  functors,     \* the batch doPendingFunctors swapped out
  calling,      \* callingPendingFunctors_
  ran,          \* history: functors called, in order
  pc            \* a caller's position in queueInLoop() or quit()

loopVars == <<phase, active, functors, calling, ran>>
vars == <<phase, quit, readable, active, pending, functors, calling, ran, pc>>

Phases == {"new", "check", "poll", "events", "swap", "functors", "stopped"}

Count == Len(ran) + Len(functors) + Len(pending)

-----------------------------------------------------------------------------
(* Other threads *)

\* Faulty: queueInLoop and quit without the wakeup.
QueueInLoopSilent(t) ==
  /\ pc[t] = "idle"
  /\ Count < MaxFunctors
  /\ pending' = Append(pending, Count + 1)
  /\ UNCHANGED <<loopVars, quit, readable, pc>>
QuitSilent(t) ==
  /\ pc[t] = "idle"
  /\ quit' = TRUE
  /\ UNCHANGED <<loopVars, readable, pending, pc>>

\* queueInLoop (and runInLoop, which calls it): push under the mutex ...
QueueInLoop(t) ==
  /\ pc[t] = "idle"
  /\ Count < MaxFunctors
  /\ pending' = Append(pending, Count + 1)
  /\ pc' = [pc EXCEPT ![t] = "pushed"]
  /\ UNCHANGED <<loopVars, quit, readable>>

\* ... quit: set the flag ...
Quit(t) ==
  /\ pc[t] = "idle"
  /\ quit' = TRUE
  /\ pc' = [pc EXCEPT ![t] = "quitSet"]
  /\ UNCHANGED <<loopVars, readable, pending>>

\* ... and wakeup.
Wakeup(t) ==
  /\ pc[t] \in {"pushed", "quitSet"}
  /\ readable' = TRUE
  /\ pc' = [pc EXCEPT ![t] = "idle"]
  /\ UNCHANGED <<loopVars, quit, pending>>

-----------------------------------------------------------------------------
(* The loop thread *)

Loop ==
  /\ phase = "new"
  /\ phase' = "check"
  /\ quit' = FALSE
  /\ UNCHANGED <<readable, active, pending, functors, calling, ran, pc>>

CheckQuit ==
  /\ phase = "check"
  /\ phase' = IF quit THEN "stopped" ELSE "poll"
  /\ active' = {}
  /\ UNCHANGED <<quit, readable, pending, functors, calling, ran, pc>>

\* others: the other channels the poll reports; both empty is a timeout.
PollReturn(others) ==
  /\ phase = "poll"
  /\ phase' = "events"
  /\ active' = others \cup (IF readable THEN {"wakeup"} ELSE {})
  /\ UNCHANGED <<quit, readable, pending, functors, calling, ran, pc>>

\* handleRead of the eventfd.
HandleRead ==
  /\ phase = "events"
  /\ "wakeup" \in active
  /\ readable' = FALSE
  /\ active' = active \ {"wakeup"}
  /\ UNCHANGED <<phase, quit, pending, functors, calling, ran, pc>>

\* Faulty: the loop thread trusts that it runs the queue anyway.
LoopThreadQueuesSilent ==
  /\ Count < MaxFunctors
  /\ pending' = Append(pending, Count + 1)
  /\ UNCHANGED <<readable, quit>>

\* What a callback of the loop thread may do to the loop: nothing, queue a
\* functor (with a wakeup only while functors are being called), or quit.
LoopThreadQueues ==
  /\ Count < MaxFunctors
  /\ pending' = Append(pending, Count + 1)
  /\ readable' = (readable \/ calling)
  /\ UNCHANGED quit
LoopThreadQuits == quit' = TRUE /\ UNCHANGED <<pending, readable>>
Callback == LoopThreadQueues \/ LoopThreadQuits \/ UNCHANGED <<pending, readable, quit>>

HandleEvent ==
  /\ phase = "events"
  /\ "io" \in active
  /\ active' = active \ {"io"}
  /\ Callback
  /\ UNCHANGED <<phase, functors, calling, ran, pc>>

\* doPendingFunctors: set the flag; then take the queue under the mutex ...
EventsDone ==
  /\ phase = "events"
  /\ active = {}
  /\ phase' = "swap"
  /\ calling' = TRUE
  /\ UNCHANGED <<quit, readable, active, pending, functors, ran, pc>>

\* Faulty: the functors are copied, not swapped out.
CopyPending ==
  /\ phase = "swap"
  /\ phase' = "functors"
  /\ functors' = pending
  /\ UNCHANGED <<quit, readable, active, pending, calling, ran, pc>>

SwapPending ==
  /\ phase = "swap"
  /\ phase' = "functors"
  /\ functors' = pending
  /\ pending' = <<>>
  /\ UNCHANGED <<quit, readable, active, calling, ran, pc>>

\* ... and call each functor.
CallFunctor ==
  /\ phase = "functors"
  /\ functors # <<>>
  /\ functors' = Tail(functors)
  /\ ran' = Append(ran, Head(functors))
  /\ Callback
  /\ UNCHANGED <<phase, active, calling, pc>>

FunctorsDone ==
  /\ phase = "functors"
  /\ functors = <<>>
  /\ calling' = FALSE
  /\ phase' = "check"
  /\ UNCHANGED <<quit, readable, active, pending, functors, ran, pc>>

-----------------------------------------------------------------------------

Init ==
  /\ phase = "new"
  /\ quit = FALSE
  /\ readable = FALSE
  /\ active = {}
  /\ pending = <<>>
  /\ functors = <<>>
  /\ calling = FALSE
  /\ ran = <<>>
  /\ pc = [t \in Threads |-> "idle"]

\* What the loop thread does without help from outside: a poll returns for sure
\* only when the eventfd is readable.
LoopThread ==
  \/ Loop \/ CheckQuit
  \/ readable /\ \E others \in {{}, {"io"}} : PollReturn(others)
  \/ HandleRead \/ HandleEvent \/ EventsDone \/ SwapPending \/ CallFunctor
  \/ FunctorsDone

Next ==
  \/ LoopThread
  \/ \E others \in {{}, {"io"}} : PollReturn(others)
  \/ \E t \in Threads : QueueInLoop(t) \/ Quit(t) \/ Wakeup(t)

Spec == Init /\ [][Next]_vars

\* Fairness: threads that are in the middle of a call go on, and so does the loop
\* thread while it is not blocked in the poll.
FairSpec == Spec /\ WF_vars(LoopThread) /\ \A t \in Threads : WF_vars(Wakeup(t))

-----------------------------------------------------------------------------
(* Properties *)

\* Type invariant of the loop's fields and of the callers.
TypeOK ==
  /\ phase \in Phases
  /\ quit \in BOOLEAN /\ readable \in BOOLEAN /\ calling \in BOOLEAN
  /\ active \subseteq {"wakeup", "io"}
  /\ pending \in Seq(Nat) /\ functors \in Seq(Nat) /\ ran \in Seq(Nat)
  /\ pc \in [Threads -> {"idle", "pushed", "quitSet"}]

\* Every functor is called once and in the order of the pushes, across the swap,
\* whoever pushes while the batch runs: what was called, the batch and the queue
\* together are the functors pushed so far, in order.
CalledInOrder == ran \o functors \o pending = [i \in 1..Count |-> i]

\* No lost wakeup: when the loop is about to poll or is blocked in the poll with
\* functors queued, the eventfd is readable or the thread that pushed has yet to
\* write it (queueInLoop, doPendingFunctors).
NoLostWakeup ==
  (phase = "poll" /\ pending # <<>>) =>
    readable \/ \E t \in Threads : pc[t] = "pushed"

\* The same for quit(): a blocked poll never hides a quit_ that was set.
NoLostQuit ==
  (phase = "poll" /\ quit) => readable \/ \E t \in Threads : pc[t] = "quitSet"

\* A queued functor is called without waiting for a poll timeout or for traffic,
\* unless the loop was told to quit.
QueuedIsCalled ==
  \A n \in 1..MaxFunctors :
    (n <= Count) ~> (n <= Len(ran) \/ quit)

\* Once it runs, a loop that is told to quit stops.
QuitStops == (quit /\ phase # "new") ~> (phase = "stopped")

=============================================================================
