----------------------------- MODULE MCSessions -----------------------------
(* Two registered users in one group, over the users' connections. *)
EXTENDS ClientSession

CONSTANTS n1, n2, n3, p1

MCStoredUsers ==
  [id \in {1, 2, 4} |->
     CASE id = 1  -> NewRow(n1, p1)
       [] id = 2  -> NewRow(n2, p1)
       [] id = 4  -> NewRow(n3, NoPassword)]

MCStoredRel == {<<1, 4>>, <<2, 4>>}

\* One registered user and no group.
MCOneUser == [id \in {1} |-> NewRow(n1, p1)]
MCNoRel == {}

\* Bounds of the accounts run: n2 stays a name nobody has, and assistant calls,
\* failed logins and changed passwords are followed only while the tables name
\* the users and relations that were stored.
AsStored == DOMAIN tUser = DOMAIN StoredUsers /\ tRel = StoredRel
AccountsOrCalls ==
  /\ \A id \in DOMAIN tUser : tUser[id].username # n2
  /\ (agentCalls = {} /\ misbound = {}) \/ AsStored
  /\ AsStored \/ \A id \in DOMAIN tUser : tUser[id].password \in {p1, NoPassword}
=============================================================================
