------------------------------ MODULE MCThreads ------------------------------
(***************************************************************************)
(* The client, the IO threads, the logging and the pool, for TLC.  The four  *)
(* components share no state: a behaviour is one of the component part names *)
(* while the others stay in their initial states, so the run checks each of  *)
(* them, under its own fairness.                                             *)
(***************************************************************************)
EXTENDS Connector, LoopThreads, AsyncLogging, ThreadPool

VARIABLE part

mcVars == <<connVars, threadVars, logVars, poolVars, part>>

Init ==
  /\ part \in {"Connector", "LoopThreads", "AsyncLogging", "ThreadPool"}
  /\ ConnInit /\ ThreadsInit /\ LogInit /\ PoolInit

Next ==
  \/ /\ part = "Connector" /\ ConnNext
     /\ UNCHANGED <<threadVars, logVars, poolVars, part>>
  \/ /\ part = "LoopThreads" /\ ThreadsNext
     /\ UNCHANGED <<connVars, logVars, poolVars, part>>
  \/ /\ part = "AsyncLogging" /\ LogNext
     /\ UNCHANGED <<connVars, threadVars, poolVars, part>>
  \/ /\ part = "ThreadPool" /\ PoolNext
     /\ UNCHANGED <<connVars, threadVars, logVars, part>>

\* The fairness of ConnSpec, ThreadsSpec, LogSpec and PoolSpec, each
\* where it is the part that runs.
Fairness ==
  /\ WF_connVars(part = "Connector" /\ Handlers)
  /\ WF_connVars(part = "Connector" /\ Functors)
  /\ WF_connVars(part = "Connector" /\ PollReturns)
  /\ SF_connVars(part = "Connector" /\ TimerDue)
  /\ WF_threadVars(part = "LoopThreads" /\ BaseThread)
  /\ \A i \in Threads : WF_threadVars(part = "LoopThreads" /\ IoThread(i))
  /\ WF_logVars(part = "AsyncLogging" /\ Backend)
  /\ \A w \in Workers : WF_poolVars(part = "ThreadPool" /\ WorkerStep(w))

Spec == Init /\ [][Next]_mcVars /\ Fairness
=============================================================================
