---------------------------- MODULE MCEventLoop ----------------------------
(***************************************************************************)
(* A loop with two calling threads, and the timers of a loop, for TLC.  The  *)
(* two components share no state: a behaviour is one of the component part    *)
(* names while the other stays in its initial state.                         *)
(***************************************************************************)
EXTENDS EventLoop, TimerQueue

\* A timer due at once that runs once, and a later one that repeats.
MCKinds == {<<0, 0>>, <<1, 1>>}

VARIABLE part

mcVars == <<vars, timerVars, part>>

MCInit ==
  /\ part \in {"EventLoop", "TimerQueue"}
  /\ Init /\ TimerInit

MCNext ==
  \/ part = "EventLoop" /\ Next /\ UNCHANGED <<timerVars, part>>
  \/ part = "TimerQueue" /\ TimerNext /\ UNCHANGED <<vars, part>>

\* The fairness of FairSpec and TimerSpec, each where it is the part that runs.
Fairness ==
  /\ WF_vars(part = "EventLoop" /\ LoopThread)
  /\ \A t \in Threads : WF_vars(part = "EventLoop" /\ Wakeup(t))
  /\ WF_timerVars(part = "TimerQueue" /\ HandleTimerfd)
  /\ WF_timerVars(part = "TimerQueue" /\ Callbacks)
  /\ WF_timerVars(part = "TimerQueue" /\ Tick)

MCSpec == MCInit /\ [][MCNext]_mcVars /\ Fairness
=============================================================================
