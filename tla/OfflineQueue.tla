---------------------------- MODULE OfflineQueue ----------------------------
(***************************************************************************)
(* What the offline cache promises: one queue of messages per user.  A      *)
(* queue only grows at its end, and only while its user is logged in on no  *)
(* connection; it is emptied by the step that logs its user in, which takes *)
(* all of it, and by no other while the process runs.  When the process     *)
(* ends all queues and logins are lost.                                     *)
(***************************************************************************)
EXTENDS SequencesExt

CONSTANTS Users, Conns, Nobody

VARIABLES
  queue,    \* user -> messages that wait
  online,   \* connection -> the user logged in on it, or Nobody
  running

qVars == <<queue, online, running>>

QInit ==
  /\ queue = [u \in Users |-> <<>>]
  /\ online = [c \in Conns |-> Nobody]
  /\ running = FALSE

Online(u) == \E c \in Conns : online[c] = u

Enqueue ==
  /\ running /\ UNCHANGED <<online, running>>
  /\ DOMAIN queue' = Users
  /\ \A u \in Users : IF Online(u) THEN queue'[u] = queue[u] ELSE IsPrefix(queue[u], queue'[u])

\* Nothing waits for a user who is logged in already, so that a step which only
\* seems to be a second login of one takes nothing.
Login(c, u) ==
  /\ running /\ UNCHANGED running
  /\ online' = [online EXCEPT ![c] = u]
  /\ queue' = [queue EXCEPT ![u] = <<>>]

\* A connection closes, or a login on it fails.
Logout(c) ==
  /\ running /\ UNCHANGED <<queue, running>>
  /\ online' = [online EXCEPT ![c] = Nobody]

LoseAll ==
  /\ running
  /\ running' = FALSE
  /\ queue' = [u \in Users |-> <<>>]
  /\ online' = [c \in Conns |-> Nobody]

Begin ==
  /\ ~running
  /\ running' = TRUE
  /\ UNCHANGED <<queue, online>>

QNext ==
  \/ Enqueue \/ LoseAll \/ Begin
  \/ \E c \in Conns : Logout(c) \/ \E u \in Users : Login(c, u)

QSpec == QInit /\ [][QNext]_qVars
=============================================================================
