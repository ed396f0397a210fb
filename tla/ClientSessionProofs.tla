------------------------ MODULE ClientSessionProofs -------------------------
(***************************************************************************)
(* Proofs about the server as a whole, for any number of connections,       *)
(* accounts and assistant calls and any stored tables: the account          *)
(* directory stays sound under the request handlers of all sessions, and no *)
(* assistant call meets a session without an account.                       *)
(*                                                                         *)
(* What UserManagerProofs shows of each operation of UserManager is used    *)
(* here for the handler that calls it.                                      *)
(***************************************************************************)
EXTENDS ClientSession, UserManagerProofs, SequenceTheorems, WellFoundedInduction,
        FiniteSetTheorems

Session == [open : BOOLEAN, user : Ids \cup {0}, seq : Nat]
AgentCall == [id : Nat, conn : Conns, asked : Nat, target : Ids \cup {0},
              dangling : BOOLEAN]

\* A session is bound to nobody or to a cached account, and a process that is
\* down has no session and no call.
SessionsBound ==
  /\ \A c \in Conns : sess[c].open => sess[c].user \in DOMAIN mapUsers \cup {0}
  /\ ~up => agentCalls = {} /\ \A c \in Conns : ~sess[c].open

\* The inductive invariant of the composed server.
ServerInv ==
  /\ IndInv
  /\ sess \in [Conns -> Session]
  /\ agentCalls \subseteq AgentCall
  /\ SessionsBound
  /\ AgentCallsBound

-----------------------------------------------------------------------------
(* Operations that only the handlers put together *)

\* 0 is not an id, and outcomes are outcomes.
LEMMA ServerFacts ==
  /\ 0 \notin Ids
  /\ DbOutcomes \subseteq Outcomes
  /\ Seqs \subseteq Nat
  BY BoundsAssumption, SessionAssumption DEF Ids, UserIds, GroupIds

\* A name resolves to a cached account or to nobody.
LEMMA ResolvesToCached ==
  ASSUME IndInv, NEW name, GetUserInfoUsername(name) # 0
  PROVE  GetUserInfoUsername(name) \in DOMAIN mapUsers
<1> DEFINE F == FirstsWithName(cachedUsers, mapUsers, name)
<1>1. F # {}
  BY DEF GetUserInfoUsername, FirstWithName
<1>2. F \subseteq DOMAIN cachedUsers
  BY DEF FirstsWithName
<1> HIDE DEF F
<1>3. (CHOOSE i \in F : TRUE) \in F
  BY <1>1
<1>4. GetUserInfoUsername(name) = cachedUsers[CHOOSE i \in F : TRUE]
  BY <1>1 DEF GetUserInfoUsername, FirstWithName, F
<1> QED BY <1>2, <1>3, <1>4 DEF IndInv, IndexesAgree

\* OnAvatarUpload: the cached address changes first and whatever becomes of the
\* UPDATE, which leaves the account in dispute unless it succeeds.
LEMMA AvatarInv ==
  ASSUME IndInv, NEW k \in DOMAIN mapUsers, NEW v \in Profiles, NEW o \in Outcomes,
         up,
         mapUsers' = [mapUsers EXCEPT ![k].profile = v],
         tUser' = IF Applied(o) THEN [tUser EXCEPT ![k].profile = v] ELSE tUser,
         disputedRow' = IF o = "ok" THEN disputedRow ELSE disputedRow \cup {k},
         UNCHANGED <<up, tRel, cachedUsers, baseUserID, baseGroupID, disputedRel>>
  PROVE  IndInv' /\ DOMAIN mapUsers' = DOMAIN mapUsers
<1> USE DEF IndInv
<1>1. k \in DOMAIN tUser /\ k \in Ids
  BY DEF CacheBackedByRows, TypeOK
<1>2. /\ DOMAIN tUser' = DOMAIN tUser
      /\ tUser' \in [DOMAIN tUser -> Row]
      /\ \A id \in DOMAIN tUser :
           /\ tUser'[id].username = tUser[id].username
           /\ tUser'[id].password = tUser[id].password
           /\ id # k => tUser'[id] = tUser[id]
           /\ id = k /\ o = "ok" => tUser'[id].profile = v
  <2>1. tUser \in [DOMAIN tUser -> Row]
    BY DEF TypeOK
  <2>2. CASE Applied(o)
    BY <1>1, <2>1, <2>2 DEF Row
  <2>3. CASE ~Applied(o)
    BY <2>1, <2>3 DEF Applied
  <2> QED BY <2>2, <2>3
<1>3. /\ DOMAIN mapUsers' = DOMAIN mapUsers
      /\ mapUsers' \in [DOMAIN mapUsers -> User]
      /\ \A id \in DOMAIN mapUsers :
           /\ mapUsers'[id].username = mapUsers[id].username
           /\ mapUsers'[id].friends = mapUsers[id].friends
           /\ mapUsers'[id].password = mapUsers[id].password
           /\ id # k => mapUsers'[id] = mapUsers[id]
           /\ id = k => mapUsers'[id].profile = v
  <2>1. mapUsers \in [DOMAIN mapUsers -> User]
    BY DEF TypeOK
  <2> QED BY <2>1 DEF User
<1>4. TypeOK'
  BY <1>1, <1>2, <1>3 DEF TypeOK
<1>5. IndexesAgree' /\ NextIdIsFree'
  BY <1>2, <1>3 DEF IndexesAgree, NextIdIsFree
<1>6. CacheBackedByRows'
  <2> SUFFICES ASSUME NEW id \in DOMAIN mapUsers
               PROVE  /\ id \in DOMAIN tUser'
                      /\ tUser'[id].username = mapUsers'[id].username
                      /\ id \notin disputedRow' =>
                           /\ tUser'[id].password = mapUsers'[id].password
                           /\ \/ tUser'[id].profile = mapUsers'[id].profile
                              \/ /\ tUser'[id].profile = DbDefault
                                 /\ mapUsers'[id].profile = CacheDefault
    BY <1>3 DEF CacheBackedByRows
  <2>1. CASE id = k
    <3>1. id \in DOMAIN tUser'
      BY <1>1, <1>2, <2>1
    <3>2. tUser[id].username = mapUsers[id].username
      BY DEF CacheBackedByRows
    <3>3. tUser'[id].username = mapUsers'[id].username
      BY <1>1, <1>2, <1>3, <2>1, <3>2
    <3>4. ASSUME id \notin disputedRow'
          PROVE  /\ tUser'[id].password = mapUsers'[id].password
                 /\ tUser'[id].profile = mapUsers'[id].profile
      <4>1. o = "ok" /\ id \notin disputedRow
        BY <2>1, <3>4
      <4>2. tUser[id].password = mapUsers[id].password
        BY <4>1 DEF CacheBackedByRows
      <4>3. tUser'[id].password = tUser[id].password /\ tUser'[id].profile = v
        BY <1>1, <1>2, <2>1, <4>1
      <4>4. mapUsers'[id].password = mapUsers[id].password /\ mapUsers'[id].profile = v
        BY <1>3, <2>1
      <4> QED BY <4>2, <4>3, <4>4
    <3> QED BY <3>1, <3>3, <3>4
  <2>2. CASE id # k
    <3>1. id \notin disputedRow' => id \notin disputedRow
      OBVIOUS
    <3>2. id \in DOMAIN tUser
      BY DEF CacheBackedByRows
    <3> QED BY <1>2, <1>3, <2>2, <3>1, <3>2 DEF CacheBackedByRows
  <2> QED BY <2>1, <2>2
<1>7. AckedRowsRegistered'
  BY <1>2 DEF AckedRowsRegistered
<1>8. AckedFriendshipsAgree'
  BY <1>3 DEF AckedFriendshipsAgree
<1> QED BY <1>3, <1>4, <1>5, <1>6, <1>7, <1>8

\* CreateGroupWithOwner: the row and the cache entry of the group, then the
\* friendship with its owner, which is acknowledged when both ends have it.
LEMMA CreateGroupInv ==
  ASSUME IndInv, NEW owner \in DOMAIN mapUsers, NEW name \in Names,
         NEW o2 \in Outcomes, up, CreateGroupWithOwner(owner, name, o2)
  PROVE  IndInv' /\ DOMAIN mapUsers \subseteq DOMAIN mapUsers'
<1> USE DEF IndInv
<1>1. PICK g \in Ids : g = baseGroupID + 1
  <2>1. baseGroupID + 1 \in Ids
    BY BoundsAssumption DEF TypeOK, CreateGroupWithOwner, Ids, GroupIds
  <2> QED BY <2>1
<1> DEFINE p == <<owner, g>>
           fresh == NewUser(name, NoPassword)
           map == Put(mapUsers, g, fresh)
<1>2. /\ g \notin DOMAIN tUser
      /\ baseGroupID' = g
      /\ tUser' = Put(tUser, g, NewRow(name, NoPassword))
      /\ cachedUsers' = Append(cachedUsers, g)
      /\ tRel' = IF Applied(o2) THEN tRel \cup {p} ELSE tRel
      /\ mapUsers' = IF o2 = "ok" THEN Befriend(map, owner, g) ELSE map
      /\ disputedRel' = IF o2 = "ok" THEN disputedRel \ {p} ELSE disputedRel \cup {p}
      /\ UNCHANGED <<up, baseUserID, disputedRow>>
  BY <1>1 DEF CreateGroupWithOwner
<1>3. /\ owner \in DOMAIN tUser /\ owner \in Ids /\ g \notin DOMAIN mapUsers
      /\ baseGroupID' \in GroupBoundary..MaxGroupID /\ g >= GroupBoundary
      /\ baseGroupID <= g
  BY <1>1, <1>2, BoundsAssumption DEF CacheBackedByRows, TypeOK, CreateGroupWithOwner
<1>4. owner < g
  <2>1. CASE owner < GroupBoundary
    BY <1>1, <1>3, <2>1, BoundsAssumption, IdsFacts DEF TypeOK
  <2>2. CASE owner >= GroupBoundary
    BY <1>1, <1>3, <2>2, BoundsAssumption, IdsFacts DEF NextIdIsFree, TypeOK
  <2> QED BY <1>3, <2>1, <2>2, BoundsAssumption, IdsFacts
<1>5. p \in Pairs /\ Pair(owner, g) = p
  BY <1>3, <1>4, IdsFacts DEF Pairs, Pair
<1>6. /\ NewRow(name, NoPassword) \in Row /\ fresh \in User
      /\ fresh.friends = {} /\ fresh.profile = CacheDefault
      /\ NewRow(name, NoPassword).profile = DbDefault
      /\ NewRow(name, NoPassword).username = fresh.username
      /\ NewRow(name, NoPassword).password = fresh.password
  BY DEF NewRow, NewUser, Row, User
<1>7. /\ DOMAIN tUser' = DOMAIN tUser \cup {g}
      /\ tUser'[g] = NewRow(name, NoPassword)
      /\ \A x \in DOMAIN tUser : tUser'[x] = tUser[x]
      /\ tUser' \in [DOMAIN tUser' -> Row]
  BY <1>2, <1>6 DEF Put, TypeOK
<1> HIDE DEF fresh
<1>8. /\ DOMAIN map = DOMAIN mapUsers \cup {g}
      /\ map[g] = fresh
      /\ \A x \in DOMAIN mapUsers : map[x] = mapUsers[x]
      /\ map \in [DOMAIN map -> User]
      /\ DOMAIN map \subseteq Ids
  BY <1>3, <1>6 DEF Put, TypeOK
<1> HIDE DEF map, p
<1>9. /\ DOMAIN mapUsers' = DOMAIN map
      /\ mapUsers' \in [DOMAIN map -> User]
      /\ \A id \in DOMAIN map :
           /\ mapUsers'[id].username = map[id].username
           /\ mapUsers'[id].password = map[id].password
           /\ mapUsers'[id].profile = map[id].profile
           /\ \A f \in Ids : Pair(id, f) # p =>
                (f \in mapUsers'[id].friends <=> f \in map[id].friends)
           /\ o2 = "ok" => \A f \in Ids : Pair(id, f) = p => f \in mapUsers'[id].friends
  <2>1. CASE o2 = "ok"
    <3>1. mapUsers' = Befriend(map, owner, g)
      BY <1>2, <2>1
    <3>2. owner \in DOMAIN map /\ g \in DOMAIN map
      BY <1>8
    <3> QED BY <1>3, <1>4, <1>8, <3>1, <3>2, BefriendFacts DEF p
  <2>2. CASE o2 # "ok"
    BY <1>2, <1>8, <2>2
  <2> QED BY <2>1, <2>2
<1>10. TypeOK'
  <2>1. tRel' \subseteq Pairs /\ disputedRel' \subseteq Pairs
    BY <1>2, <1>5 DEF TypeOK
  <2>2. cachedUsers' \in Seq(Ids)
    BY <1>2 DEF TypeOK
  <2> QED BY <1>2, <1>3, <1>7, <1>8, <1>9, <2>1, <2>2 DEF TypeOK
<1>11. IndexesAgree'
  <2>1. cachedUsers \in Seq(Ids)
    BY DEF TypeOK
  <2>2. /\ DOMAIN cachedUsers' = 1..(Len(cachedUsers) + 1)
        /\ DOMAIN cachedUsers = 1..Len(cachedUsers)
        /\ Len(cachedUsers) \in Nat
        /\ cachedUsers'[Len(cachedUsers) + 1] = g
        /\ \A i \in 1..Len(cachedUsers) : cachedUsers'[i] = cachedUsers[i]
    BY <1>2, <2>1
  <2>3. \A i \in DOMAIN cachedUsers : cachedUsers[i] # g
    BY <1>3 DEF IndexesAgree
  <2> QED BY <1>8, <1>9, <2>2, <2>3 DEF IndexesAgree
<1>12. NextIdIsFree'
  BY <1>1, <1>2, <1>3, <1>7, BoundsAssumption, IdsFacts DEF NextIdIsFree, TypeOK
<1>13. CacheBackedByRows'
  <2> SUFFICES ASSUME NEW id \in DOMAIN map
               PROVE  /\ id \in DOMAIN tUser'
                      /\ tUser'[id].username = mapUsers'[id].username
                      /\ id \notin disputedRow' =>
                           /\ tUser'[id].password = mapUsers'[id].password
                           /\ \/ tUser'[id].profile = mapUsers'[id].profile
                              \/ /\ tUser'[id].profile = DbDefault
                                 /\ mapUsers'[id].profile = CacheDefault
    BY <1>9 DEF CacheBackedByRows
  <2>1. CASE id = g
    BY <1>6, <1>7, <1>8, <1>9, <2>1
  <2>2. CASE id # g
    <3>1. id \in DOMAIN mapUsers /\ id \in DOMAIN tUser
      BY <1>8, <2>2 DEF CacheBackedByRows
    <3> QED BY <1>2, <1>7, <1>8, <1>9, <3>1 DEF CacheBackedByRows
  <2> QED BY <2>1, <2>2
<1>14. AckedRowsRegistered'
  <2> SUFFICES ASSUME NEW q \in tRel' \ disputedRel'
               PROVE  q[1] \in DOMAIN tUser' /\ q[2] \in DOMAIN tUser'
    BY DEF AckedRowsRegistered
  <2>1. CASE q = p
    BY <1>3, <1>7, <2>1 DEF p
  <2>2. CASE q # p
    <3>1. q \in tRel \ disputedRel
      BY <1>2, <2>2
    <3> QED BY <1>7, <3>1 DEF AckedRowsRegistered
  <2> QED BY <2>1, <2>2
<1>15. AckedFriendshipsAgree'
  <2> SUFFICES ASSUME NEW id \in DOMAIN map, NEW f \in Ids,
                      id # f, Pair(id, f) \notin disputedRel'
               PROVE  f \in mapUsers'[id].friends <=> Pair(id, f) \in tRel'
    BY <1>9 DEF AckedFriendshipsAgree
  <2>1. CASE Pair(id, f) = p
    <3>1. o2 = "ok"
      BY <1>2, <2>1
    <3>2. p \in tRel'
      BY <1>2, <3>1 DEF Applied
    <3> QED BY <1>9, <2>1, <3>1, <3>2
  <2>2. CASE Pair(id, f) # p
    <3>1. /\ Pair(id, f) \notin disputedRel
          /\ Pair(id, f) \in tRel' <=> Pair(id, f) \in tRel
      BY <1>2, <2>2
    <3>2. f \in mapUsers'[id].friends <=> f \in map[id].friends
      BY <1>9, <2>2
    <3>3. CASE id = g
      <4>1. f \notin map[id].friends
        BY <1>6, <1>8, <3>3
      <4>2. Pair(id, f) \notin tRel
        BY <1>2, <3>1, <3>3, PairFacts DEF AckedRowsRegistered
      <4> QED BY <3>1, <3>2, <4>1, <4>2
    <3>4. CASE id # g
      <4>1. id \in DOMAIN mapUsers /\ map[id] = mapUsers[id]
        BY <1>8, <3>4
      <4> QED BY <3>1, <3>2, <4>1 DEF AckedFriendshipsAgree
    <3> QED BY <3>3, <3>4
  <2> QED BY <2>1, <2>2
<1> QED BY <1>8, <1>9, <1>10, <1>11, <1>12, <1>13, <1>14, <1>15

-----------------------------------------------------------------------------
(* The sessions *)

\* A handler that sets m_seq, keeps m_user and calls UserManager, which drops no
\* cached account, keeps what the sessions rest on.
LEMMA SessionKept ==
  ASSUME ServerInv, IndInv', NEW c \in Conns, NEW q \in Seqs, Receive(c, q),
         up' = up, DOMAIN mapUsers \subseteq DOMAIN mapUsers', UNCHANGED agentCalls
  PROVE  ServerInv'
<1> USE DEF ServerInv
<1>1. up /\ sess' = [sess EXCEPT ![c].seq = q] /\ q \in Nat
  BY ServerFacts DEF Receive
<1>2. sess' \in [Conns -> Session]
  BY <1>1 DEF Session
<1>3. \A d \in Conns : sess'[d].open = sess[d].open /\ sess'[d].user = sess[d].user
  BY <1>1 DEF Session
<1>4. SessionsBound'
  BY <1>1, <1>3 DEF SessionsBound
<1>5. AgentCallsBound'
  <2>1. \A call \in agentCalls : call.conn \in Conns
    BY DEF AgentCall
  <2> QED BY <1>3, <2>1 DEF AgentCallsBound
<1> QED BY <1>2, <1>4, <1>5

\* So does one that binds m_user to a cached account.
LEMMA BindingKept ==
  ASSUME ServerInv, NEW c \in Conns, NEW q \in Seqs, NEW u \in DOMAIN mapUsers,
         up, sess[c].open,
         sess' = [sess EXCEPT ![c].seq = q, ![c].user = u],
         UNCHANGED <<umVars, agentCalls>>
  PROVE  ServerInv'
<1> USE DEF ServerInv
<1>1. q \in Nat /\ u \in Ids
  BY ServerFacts DEF IndInv, TypeOK
<1>2. UNCHANGED <<up, tUser, tRel, cachedUsers, mapUsers, baseUserID, baseGroupID,
                  disputedRel, disputedRow>>
  BY DEF umVars, vars
<1>3. IndInv'
  BY <1>2 DEF IndInv, TypeOK, IndexesAgree, NextIdIsFree,
              CacheBackedByRows, AckedRowsRegistered, AckedFriendshipsAgree
<1>4. sess' \in [Conns -> Session]
  BY <1>1 DEF Session
<1>5. \A d \in Conns : /\ sess'[d].open = sess[d].open
                       /\ sess'[d].user = IF d = c THEN u ELSE sess[d].user
  BY <1>1 DEF Session
<1>6. SessionsBound'
  BY <1>2, <1>5 DEF SessionsBound
<1>7. AgentCallsBound'
  <2>1. \A call \in agentCalls : call.conn \in Conns
    BY DEF AgentCall
  <2> QED BY <1>2, <1>5, <2>1 DEF AgentCallsBound
<1> QED BY <1>2, <1>3, <1>4, <1>6, <1>7

\* A step that leaves UserManager alone.
LEMMA DirectoryKept ==
  ASSUME IndInv, UNCHANGED umVars
  PROVE  IndInv' /\ up' = up /\ mapUsers' = mapUsers
  BY DEF umVars, vars, IndInv, TypeOK, IndexesAgree, NextIdIsFree,
         CacheBackedByRows, AckedRowsRegistered, AckedFriendshipsAgree

\* The database is read once at the start: what is stored is accepted as it is.
LEMMA ServerInit == SessionInit => ServerInv
<1> SUFFICES ASSUME SessionInit PROVE ServerInv
  OBVIOUS
<1> USE DEF SessionInit
<1>1. TypeOK
  <2>1. up \in BOOLEAN
    BY Zenon
  <2>2. DOMAIN tUser \subseteq Ids /\ tUser \in [DOMAIN tUser -> Row] /\ tRel \subseteq Pairs
    BY SessionAssumption
  <2>3. DOMAIN mapUsers = {} /\ mapUsers \in [{} -> User]
    OBVIOUS
  <2>4. cachedUsers \in Seq(Ids) /\ disputedRow = {}
    OBVIOUS
  <2>5. baseUserID \in 0..MaxUserID /\ baseGroupID \in GroupBoundary..MaxGroupID
    BY BoundsAssumption
  <2>6. disputedRel \subseteq Pairs
    BY SessionAssumption
  <2> QED BY <2>1, <2>2, <2>3, <2>4, <2>5, <2>6, Zenon DEF TypeOK
<1>2. IndexesAgree /\ NextIdIsFree /\ CacheBackedByRows /\ AckedFriendshipsAgree
  BY DEF IndexesAgree, NextIdIsFree, CacheBackedByRows, AckedFriendshipsAgree
<1>3. AckedRowsRegistered
  BY DEF AckedRowsRegistered
<1>4. sess \in [Conns -> Session] /\ \A c \in Conns : ~sess[c].open
  BY DEF Closed, Session
<1>5. SessionsBound /\ AgentCallsBound /\ agentCalls \subseteq AgentCall
  BY <1>4 DEF SessionsBound, AgentCallsBound
<1> QED BY <1>1, <1>2, <1>3, <1>4, <1>5 DEF ServerInv, IndInv

\* The end of the process takes the sessions and the calls with the cache.
LEMMA ProcessExitInv ==
  ASSUME ServerInv, ProcessExit PROVE ServerInv'
<1>1. IndInv'
  BY CrashInv DEF ServerInv, ProcessExit
<1>2. agentCalls' = {} /\ sess' = [c \in Conns |-> Closed]
  BY DEF ProcessExit
<1>3. sess' \in [Conns -> Session] /\ \A c \in Conns : ~sess'[c].open
  BY <1>2 DEF Closed, Session
<1>4. SessionsBound' /\ AgentCallsBound'
  BY <1>2, <1>3 DEF SessionsBound, AgentCallsBound
<1> QED BY <1>1, <1>2, <1>3, <1>4 DEF ServerInv

\* A start finds no session, and so none that the new cache could miss.
LEMMA RestartInv ==
  ASSUME ServerInv, NEW unread \in SUBSET DOMAIN tUser, Restart(unread)
  PROVE  ServerInv'
<1>1. IndInv'
  BY StartInv DEF ServerInv, Restart
<1>2. UNCHANGED <<sess, agentCalls>> /\ ~up
  BY DEF Restart, Start, agentVars
<1>3. agentCalls = {} /\ \A c \in Conns : ~sess[c].open
  BY <1>2 DEF ServerInv, SessionsBound
<1>4. SessionsBound' /\ AgentCallsBound'
  BY <1>2, <1>3 DEF SessionsBound, AgentCallsBound
<1> QED BY <1>1, <1>2, <1>4 DEF ServerInv

\* A connection comes or goes; the calls of a session that is gone are marked.
LEMMA ConnectionInv ==
  ASSUME ServerInv, NEW c \in Conns, OnConnection(c) \/ OnClose(c)
  PROVE  ServerInv'
<1> USE DEF ServerInv
<1>1. CASE OnConnection(c)
  <2>1. /\ up /\ ~sess[c].open /\ UNCHANGED umVars /\ UNCHANGED agentCalls
        /\ sess' = [sess EXCEPT ![c] = [open |-> TRUE, user |-> 0, seq |-> 0]]
    BY <1>1 DEF OnConnection, agentVars
  <2>2. IndInv' /\ up' = up /\ mapUsers' = mapUsers
    BY <2>1, DirectoryKept
  <2>3. /\ sess' \in [Conns -> Session] /\ sess'[c].user = 0
        /\ \A d \in Conns : d # c => sess'[d] = sess[d]
    BY <2>1 DEF Session
  <2>4. SessionsBound'
    BY <2>1, <2>2, <2>3 DEF SessionsBound
  <2>5. AgentCallsBound'
    <3>1. \A call \in agentCalls : call.conn \in Conns
      BY DEF AgentCall
    <3> QED BY <2>1, <2>2, <2>3, <3>1 DEF AgentCallsBound
  <2> QED BY <2>1, <2>2, <2>3, <2>4, <2>5
<1>2. CASE OnClose(c)
  <2>1. /\ up /\ sess[c].open /\ UNCHANGED umVars
        /\ sess' = [sess EXCEPT ![c] = Closed]
        /\ agentCalls' = {[call EXCEPT !.dangling = @ \/ call.conn = c] : call \in agentCalls}
    BY <1>2 DEF OnClose
  <2>2. IndInv' /\ up' = up /\ mapUsers' = mapUsers
    BY <2>1, DirectoryKept
  <2>3. /\ sess' \in [Conns -> Session] /\ ~sess'[c].open
        /\ \A d \in Conns : d # c => sess'[d] = sess[d]
    BY <2>1 DEF Session, Closed
  <2>4. \A call \in agentCalls :
          LET new == [call EXCEPT !.dangling = @ \/ call.conn = c]
          IN /\ new \in AgentCall /\ new.conn = call.conn
             /\ ~new.dangling => ~call.dangling /\ call.conn # c
    <3> SUFFICES ASSUME NEW call \in agentCalls
                 PROVE  LET new == [call EXCEPT !.dangling = @ \/ call.conn = c]
                        IN /\ new \in AgentCall /\ new.conn = call.conn
                           /\ ~new.dangling => ~call.dangling /\ call.conn # c
      OBVIOUS
    <3>1. call \in AgentCall
      OBVIOUS
    <3>2. (call.dangling \/ call.conn = c) \in BOOLEAN
      BY Zenon
    <3> QED BY <3>1, <3>2 DEF AgentCall
  <2>5. agentCalls' \subseteq AgentCall
    BY <2>1, <2>4
  <2>6. SessionsBound'
    BY <2>1, <2>2, <2>3 DEF SessionsBound
  <2>7. AgentCallsBound'
    <3> SUFFICES ASSUME NEW new \in agentCalls', ~new.dangling
                 PROVE  sess'[new.conn].open /\ sess'[new.conn].user \in DOMAIN mapUsers
      BY <2>2 DEF AgentCallsBound
    <3>1. PICK call \in agentCalls : new = [call EXCEPT !.dangling = @ \/ call.conn = c]
      BY <2>1
    <3>2. ~call.dangling /\ call.conn # c /\ new.conn = call.conn /\ call.conn \in Conns
      BY <2>4, <3>1 DEF AgentCall
    <3> QED BY <2>3, <3>2 DEF AgentCallsBound
  <2> QED BY <2>2, <2>3, <2>5, <2>6, <2>7
<1> QED BY <1>1, <1>2

\* Logins: m_user is left alone or bound to an account that is cached.
LEMMA LoginInv ==
  ASSUME ServerInv, NEW c \in Conns, NEW q \in Seqs, LoginNext(c, q)
  PROVE  ServerInv'
<1> USE DEF ServerInv
<1>1. ASSUME NEW name \in Names, OnLoginUnknown(c, q, name) PROVE ServerInv'
  <2>1. Receive(c, q) /\ UNCHANGED umVars /\ UNCHANGED agentCalls
    BY <1>1 DEF OnLoginUnknown, agentVars
  <2> QED BY <2>1, DirectoryKept, SessionKept
<1>2. ASSUME NEW name \in Names, NEW pw \in Passwords,
             OnLoginWrongPassword(c, q, name, pw) \/ OnLogin(c, q, name, pw)
      PROVE  ServerInv'
  <2>1. PICK u : u = GetUserInfoUsername(name)
    OBVIOUS
  <2>2. /\ up /\ sess[c].open /\ u # 0
        /\ sess' = [sess EXCEPT ![c].seq = q, ![c].user = u]
        /\ UNCHANGED <<umVars, agentCalls>>
    BY <1>2, <2>1 DEF OnLoginWrongPassword, OnLogin, agentVars
  <2>3. u \in DOMAIN mapUsers
    BY <2>1, <2>2, ResolvesToCached
  <2> QED BY <2>2, <2>3, BindingKept
<1> QED BY <1>1, <1>2 DEF LoginNext

\* What AddUser, AddGroup and the friendship operations leave of the cache.
LEMMA CacheGrows ==
  ASSUME IndInv, NEW o
  PROVE  /\ \A name, pw : AddUser(name, pw, o) =>
              up' = up /\ DOMAIN mapUsers \subseteq DOMAIN mapUsers'
         /\ \A name : AddGroup(name, o) =>
              up' = up /\ DOMAIN mapUsers \subseteq DOMAIN mapUsers'
         /\ \A s, g : MakeFriendRelationship(s, g, o) =>
              up' = up /\ DOMAIN mapUsers \subseteq DOMAIN mapUsers'
         /\ \A a, b : DeleteFriendToUser(a, b, o) =>
              up' = up /\ DOMAIN mapUsers \subseteq DOMAIN mapUsers'
         /\ \A k, v : UpdateUserInfo(k, v, o) =>
              up' = up /\ DOMAIN mapUsers \subseteq DOMAIN mapUsers'
         /\ \A k, v : ModifyUserPassword(k, v, o) =>
              up' = up /\ DOMAIN mapUsers \subseteq DOMAIN mapUsers'
<1>1. \A k, v : DOMAIN mapUsers \subseteq DOMAIN Put(mapUsers, k, v)
  BY DEF Put
<1>2. \A a, b : /\ DOMAIN Befriend(mapUsers, a, b) = DOMAIN mapUsers
                /\ DOMAIN Unfriend(mapUsers, a, b) = DOMAIN mapUsers
  BY DEF Befriend, Unfriend
<1>3. \A k, v : /\ DOMAIN [mapUsers EXCEPT ![k].profile = v] = DOMAIN mapUsers
                /\ DOMAIN [mapUsers EXCEPT ![k].password = v] = DOMAIN mapUsers
  OBVIOUS
<1>4. \A name, pw : AddUser(name, pw, o) =>
        up' = up /\ DOMAIN mapUsers \subseteq DOMAIN mapUsers'
  BY <1>1 DEF AddUser, NewEntry
<1>5. \A name : AddGroup(name, o) =>
        up' = up /\ DOMAIN mapUsers \subseteq DOMAIN mapUsers'
  BY <1>1 DEF AddGroup, NewEntry
<1>6. \A s, g : MakeFriendRelationship(s, g, o) =>
        up' = up /\ DOMAIN mapUsers \subseteq DOMAIN mapUsers'
  BY <1>2 DEF MakeFriendRelationship
<1>7. \A a, b : DeleteFriendToUser(a, b, o) =>
        up' = up /\ DOMAIN mapUsers \subseteq DOMAIN mapUsers'
  BY <1>2 DEF DeleteFriendToUser
<1>8. \A k, v : UpdateUserInfo(k, v, o) =>
        up' = up /\ DOMAIN mapUsers \subseteq DOMAIN mapUsers'
  BY <1>3 DEF UpdateUserInfo
<1>9. \A k, v : ModifyUserPassword(k, v, o) =>
        up' = up /\ DOMAIN mapUsers \subseteq DOMAIN mapUsers'
  BY <1>3 DEF ModifyUserPassword
<1> QED BY <1>4, <1>5, <1>6, <1>7, <1>8, <1>9

\* m_user of an open session that is not null is the id of a cached account.
LEMMA UserIsCached ==
  ASSUME ServerInv, NEW c \in Conns, sess[c].open, sess[c].user # 0
  PROVE  sess[c].user \in DOMAIN mapUsers /\ sess[c].user \in Ids
  BY DEF ServerInv, SessionsBound, IndInv, TypeOK

\* Registration, friends, groups, profiles and passwords: the handler calls one
\* operation of UserManager, or two for a group, or none.
LEMMA AccountInv ==
  ASSUME ServerInv, NEW c \in Conns, NEW q \in Seqs, NEW o \in DbOutcomes,
         AccountNext(c, q, o)
  PROVE  ServerInv'
<1>0. IndInv /\ o \in Outcomes
  BY ServerFacts DEF ServerInv
<1>s. ASSUME Receive(c, q), SessionOnly, IndInv', up' = up,
             DOMAIN mapUsers \subseteq DOMAIN mapUsers'
      PROVE  ServerInv'
  BY <1>s, SessionKept DEF SessionOnly, agentVars
<1>u. ASSUME Receive(c, q), SessionOnly, UNCHANGED umVars
      PROVE  ServerInv'
  BY <1>0, <1>s, <1>u, DirectoryKept
<1>1. ASSUME NEW name \in Names, NEW pw \in Passwords, NEW verified \in BOOLEAN,
             OnRegister(c, q, name, pw, verified, o)
      PROVE  ServerInv'
  <2>1. Receive(c, q) /\ SessionOnly
    BY <1>1 DEF OnRegister, SessionOnly
  <2>2. CASE UNCHANGED umVars
    BY <1>u, <2>1, <2>2
  <2>3. CASE AddUser(name, pw, o)
    BY <1>0, <1>s, <2>1, <2>3, AddUserInv, CacheGrows
  <2> QED BY <1>1, <2>2, <2>3 DEF OnRegister
<1>2. ASSUME NEW s \in Ids, NEW g \in Ids, Receive(c, q), SessionOnly,
             MakeFriendRelationship(s, g, o)
      PROVE  ServerInv'
  BY <1>0, <1>s, <1>2, MakeFriendInv, CacheGrows
<1>3. ASSUME NEW a \in Ids, NEW b \in Ids, a # b, Receive(c, q), SessionOnly,
             MakeFriendRelationship(Pair(a, b)[1], Pair(a, b)[2], o)
      PROVE  ServerInv'
  <2>1. PICK s \in Ids, g \in Ids : s = Pair(a, b)[1] /\ g = Pair(a, b)[2]
    BY <1>3, PairFacts
  <2> QED BY <1>2, <1>3, <2>1
<1>4. ASSUME NEW f \in Ids, OnAddFriend(c, q, f, o) PROVE ServerInv'
  <2>1. Receive(c, q) /\ SessionOnly /\ sess[c].user # 0
    BY <1>4 DEF OnAddFriend
  <2>2. sess[c].user \in Ids
    BY <2>1, UserIsCached DEF Receive
  <2>3. CASE UNCHANGED umVars
    BY <1>u, <2>1, <2>3
  <2>4. CASE ~UNCHANGED umVars
    BY <1>3, <1>4, <2>1, <2>2, <2>4 DEF OnAddFriend
  <2> QED BY <2>3, <2>4
<1>5. ASSUME NEW f \in Ids, OnDeleteFriend(c, q, f, o) PROVE ServerInv'
  <2>1. Receive(c, q) /\ SessionOnly /\ sess[c].user # 0
    BY <1>5 DEF OnDeleteFriend
  <2>2. sess[c].user \in Ids
    BY <2>1, UserIsCached DEF Receive
  <2>3. CASE UNCHANGED umVars
    BY <1>u, <2>1, <2>3
  <2>4. CASE DeleteFriendToUser(sess[c].user, f, o)
    <3>1. PICK u \in Ids : u = sess[c].user
      BY <2>2
    <3>2. DeleteFriendToUser(u, f, o)
      BY <2>4, <3>1
    <3>3. IndInv'
      BY <1>0, <3>2, DeleteFriendInv
    <3> QED BY <1>0, <1>s, <2>1, <3>2, <3>3, CacheGrows
  <2> QED BY <1>5, <2>3, <2>4 DEF OnDeleteFriend
<1>6. ASSUME NEW f \in Ids, NEW g \in Ids, OnInvite(c, q, f, g, o) PROVE ServerInv'
  <2>1. Receive(c, q) /\ SessionOnly
    BY <1>6 DEF OnInvite
  <2>2. CASE UNCHANGED umVars
    BY <1>u, <2>1, <2>2
  <2>3. CASE ~UNCHANGED umVars
    BY <1>3, <1>6, <2>1, <2>3 DEF OnInvite
  <2> QED BY <2>2, <2>3
<1>7. ASSUME NEW name \in Names, NEW o2 \in DbOutcomes, OnCreateGroup(c, q, name, o, o2)
      PROVE  ServerInv'
  <2>1. Receive(c, q) /\ SessionOnly /\ sess[c].user # 0 /\ up
    BY <1>7 DEF OnCreateGroup, Receive
  <2>2. PICK u \in DOMAIN mapUsers : u = sess[c].user
    BY <2>1, UserIsCached DEF Receive
  <2>3. o2 \in Outcomes
    BY ServerFacts
  <2>4. CASE o = "ok"
    <3>1. CreateGroupWithOwner(u, name, o2)
      BY <1>7, <2>2, <2>4 DEF OnCreateGroup
    <3>2. IndInv' /\ DOMAIN mapUsers \subseteq DOMAIN mapUsers'
      BY <1>0, <2>1, <2>3, <3>1, CreateGroupInv
    <3>3. up' = up
      BY <3>1 DEF CreateGroupWithOwner
    <3> QED BY <1>s, <2>1, <3>2, <3>3
  <2>5. CASE o # "ok"
    <3>1. AddGroup(name, o)
      BY <1>7, <2>5 DEF OnCreateGroup
    <3> QED BY <1>0, <1>s, <2>1, <3>1, AddGroupInv, CacheGrows
  <2> QED BY <2>4, <2>5
<1>8. ASSUME NEW v \in Profiles, OnUpdateUserInfo(c, q, v, o) PROVE ServerInv'
  <2>1. Receive(c, q) /\ SessionOnly /\ sess[c].user # 0
    BY <1>8 DEF OnUpdateUserInfo
  <2>2. PICK u \in Ids : u = sess[c].user
    BY <2>1, UserIsCached DEF Receive
  <2>3. UpdateUserInfo(u, v, o)
    BY <1>8, <2>2 DEF OnUpdateUserInfo
  <2>4. IndInv'
    BY <1>0, <2>3, UpdateUserInfoInv
  <2> QED BY <1>0, <1>s, <2>1, <2>3, <2>4, CacheGrows
<1>9. ASSUME NEW v \in Profiles, OnAvatarUpload(c, q, v, o) PROVE ServerInv'
  <2>1. Receive(c, q) /\ SessionOnly /\ sess[c].user # 0 /\ up
    BY <1>9 DEF OnAvatarUpload, Receive
  <2>2. PICK u \in DOMAIN mapUsers : u = sess[c].user
    BY <2>1, UserIsCached DEF Receive
  <2>3. /\ mapUsers' = [mapUsers EXCEPT ![u].profile = v]
        /\ tUser' = IF Applied(o) THEN [tUser EXCEPT ![u].profile = v] ELSE tUser
        /\ disputedRow' = IF o = "ok" THEN disputedRow ELSE disputedRow \cup {u}
        /\ UNCHANGED <<up, tRel, cachedUsers, baseUserID, baseGroupID, disputedRel>>
    BY <1>9, <2>2 DEF OnAvatarUpload, baseVars
  <2>4. IndInv' /\ DOMAIN mapUsers' = DOMAIN mapUsers
    BY <1>0, <2>1, <2>3, AvatarInv
  <2> QED BY <1>s, <2>1, <2>3, <2>4
<1>10. ASSUME NEW old \in Passwords, NEW new \in Passwords,
              OnModifyPassword(c, q, old, new, o)
       PROVE  ServerInv'
  <2>1. Receive(c, q) /\ SessionOnly /\ sess[c].user # 0
    BY <1>10 DEF OnModifyPassword
  <2>2. PICK u \in Ids : u = sess[c].user
    BY <2>1, UserIsCached DEF Receive
  <2>3. CASE UNCHANGED umVars
    BY <1>u, <2>1, <2>3
  <2>4. CASE ModifyUserPassword(u, new, o)
    <3>1. IndInv'
      BY <1>0, <2>4, ModifyUserPasswordInv
    <3> QED BY <1>0, <1>s, <2>1, <2>4, <3>1, CacheGrows
  <2> QED BY <1>10, <2>2, <2>3, <2>4 DEF OnModifyPassword
<1> QED BY <1>1, <1>4, <1>5, <1>6, <1>7, <1>8, <1>9, <1>10 DEF AccountNext

\* A request that only sets m_seq.
LEMMA StatelessInv ==
  ASSUME ServerInv, NEW c \in Conns, NEW q \in Seqs, OnStatelessRequest(c, q)
  PROVE  ServerInv'
<1>1. Receive(c, q) /\ UNCHANGED umVars /\ UNCHANGED agentCalls
  BY DEF OnStatelessRequest, agentVars
<1> QED BY <1>1, DirectoryKept, SessionKept DEF ServerInv

\* Chats change neither accounts nor sessions.
LEMMA ChatInv ==
  ASSUME ServerInv, NEW c \in Conns, NEW q \in Seqs, NEW o, ChatNext(c, q, o)
  PROVE  ServerInv'
<1>1. Receive(c, q) /\ UNCHANGED umVars /\ UNCHANGED agentCalls
  BY DEF ChatNext, OnChat, agentVars
<1> QED BY <1>1, DirectoryKept, SessionKept DEF ServerInv

\* Assistant calls: a call is made by a bound session, and its answer reads that
\* session while it is there.
LEMMA AgentInv ==
  ASSUME ServerInv, AgentNext
  PROVE  ServerInv'
<1> USE DEF ServerInv
<1>1. ASSUME NEW c \in Conns, NEW q \in Seqs, OnAgentChat(c, q) PROVE ServerInv'
  <2>1. /\ Receive(c, q) /\ sess[c].user # 0 /\ UNCHANGED umVars
        /\ up /\ sess[c].open /\ sess' = [sess EXCEPT ![c].seq = q]
    BY <1>1 DEF OnAgentChat, Receive
  <2>2. PICK n \in 1..MaxAgentCalls :
          agentCalls' = agentCalls \cup
            {[id |-> n, conn |-> c, asked |-> q, target |-> 0, dangling |-> FALSE]}
    BY <1>1 DEF OnAgentChat
  <2>3. n \in Nat /\ q \in Nat
    BY ServerFacts, SessionAssumption
  <2> DEFINE new == [id |-> n, conn |-> c, asked |-> q, target |-> 0, dangling |-> FALSE]
  <2>4. new \in AgentCall /\ new.conn = c
    <3>1. FALSE \in BOOLEAN
      BY Zenon
    <3> QED BY <2>3, <3>1 DEF AgentCall
  <2>5. IndInv' /\ up' = up /\ mapUsers' = mapUsers
    BY <2>1, DirectoryKept
  <2>6. /\ sess' \in [Conns -> Session]
        /\ \A d \in Conns : sess'[d].open = sess[d].open /\ sess'[d].user = sess[d].user
    BY <2>1, <2>3 DEF Session
  <2>7. sess[c].user \in DOMAIN mapUsers
    BY <2>1, UserIsCached
  <2> HIDE DEF new
  <2>8. agentCalls' = agentCalls \cup {new}
    BY <2>2 DEF new
  <2>9. SessionsBound'
    BY <2>1, <2>5, <2>6 DEF SessionsBound
  <2>10. AgentCallsBound'
    <3>1. \A call \in agentCalls : call.conn \in Conns
      BY DEF AgentCall
    <3> QED BY <2>1, <2>4, <2>5, <2>6, <2>7, <2>8, <3>1 DEF AgentCallsBound
  <2> QED BY <2>4, <2>5, <2>6, <2>8, <2>9, <2>10
<1>2. ASSUME UNCHANGED umVars, UNCHANGED sess, agentCalls' \subseteq AgentCall, up,
             \A new \in agentCalls' : ~new.dangling =>
               \E call \in agentCalls : ~call.dangling /\ call.conn = new.conn
      PROVE  ServerInv'
  <2>1. IndInv' /\ up' = up /\ mapUsers' = mapUsers
    BY <1>2, DirectoryKept
  <2>2. SessionsBound' /\ AgentCallsBound'
    BY <1>2, <2>1 DEF SessionsBound, AgentCallsBound
  <2> QED BY <1>2, <2>1, <2>2
<1>3. ASSUME NEW call \in agentCalls, OnAgentAnswer(call) PROVE ServerInv'
  <2>1. PICK u \in Ids : u = sess[call.conn].user
    <3>1. call.conn \in Conns /\ sess[call.conn].open /\ sess[call.conn].user # 0
      BY <1>3 DEF OnAgentAnswer, AgentCallsBound, AgentCall
    <3> QED BY <3>1, UserIsCached
  <2> DEFINE new == [call EXCEPT !.target = u]
  <2>2. call \in AgentCall
    OBVIOUS
  <2>3. new \in AgentCall /\ new.conn = call.conn /\ new.dangling = call.dangling
    BY <2>2 DEF AgentCall
  <2>4. /\ agentCalls' = (agentCalls \ {call}) \cup {new}
        /\ up /\ ~call.dangling /\ UNCHANGED umVars /\ UNCHANGED sess
    BY <1>3, <2>1 DEF OnAgentAnswer
  <2> HIDE DEF new
  <2> QED BY <1>2, <2>3, <2>4
<1>4. ASSUME NEW call \in agentCalls, OnAgentSend(call) \/ OnAgentDangling(call)
      PROVE  ServerInv'
  <2>1. agentCalls' = agentCalls \ {call} /\ up /\ UNCHANGED umVars /\ UNCHANGED sess
    BY <1>4 DEF OnAgentSend, OnAgentDangling
  <2> QED BY <1>2, <2>1
<1>5. CASE OnAgentFault
  BY <1>5, ProcessExitInv DEF OnAgentFault
<1> QED BY <1>1, <1>3, <1>4, <1>5 DEF AgentNext

\* Every handler, callback, crash and restart keeps the invariant.
LEMMA ServerNext == ServerInv /\ [SessionNext]_allVars => ServerInv'
<1> SUFFICES ASSUME ServerInv, [SessionNext]_allVars PROVE ServerInv'
  OBVIOUS
<1>1. ASSUME NEW c \in Conns, OnConnection(c) \/ OnClose(c) \/ OnUnboundRequest(c)
      PROVE  ServerInv'
  BY <1>1, ConnectionInv, ProcessExitInv DEF OnUnboundRequest
<1>2. ASSUME NEW c \in Conns, NEW q \in Seqs,
             QueryNext(c, q)
      PROVE  ServerInv'
  BY <1>2, StatelessInv DEF QueryNext, OnHeartbeatResponse, OnFindUserResponse,
       OnGetGroupMembersResponse, OnSendEmailCodeResponse, OnUserQuery
<1>3. ASSUME NEW c \in Conns, NEW q \in Seqs, LoginNext(c, q) PROVE ServerInv'
  BY <1>3, LoginInv
<1>4. ASSUME NEW c \in Conns, NEW q \in Seqs, NEW o \in DbOutcomes,
             AccountNext(c, q, o) \/ ChatNext(c, q, o)
      PROVE  ServerInv'
  BY <1>4, AccountInv, ChatInv
<1>5. CASE AgentNext
  BY <1>5, AgentInv
<1>6. CASE ProcessExit
  BY <1>6, ProcessExitInv
<1>7. ASSUME NEW unread \in SUBSET DOMAIN tUser, Restart(unread) PROVE ServerInv'
  BY <1>7, RestartInv
<1>8. CASE UNCHANGED allVars
  <2>1. UNCHANGED umVars /\ UNCHANGED <<sess, agentCalls>>
    BY <1>8 DEF allVars, agentVars
  <2>2. IndInv' /\ up' = up /\ mapUsers' = mapUsers
    BY <2>1, DirectoryKept DEF ServerInv
  <2> QED BY <2>1, <2>2 DEF ServerInv, SessionsBound, AgentCallsBound
<1> QED BY <1>1, <1>2, <1>3, <1>4, <1>5, <1>6, <1>7, <1>8 DEF SessionNext

-----------------------------------------------------------------------------
(* Sequences.  Induction over the length of a sequence, or over sequences, is   *)
(* the choice of a least number that is not in a set.                          *)

\* A set of numbers that is not empty has a least one.
LEMMA LeastNat ==
  ASSUME NEW T, T \subseteq Nat, T # {}
  PROVE  \E x \in T : \A y \in T : x <= y
<1>1. PICK x \in T : \A y \in T : ~(<<y, x>> \in OpToRel(<, Nat))
  BY NatLessThanWellFounded, WFMin
<1>2. \A y \in T : ~(y < x)
  BY <1>1 DEF OpToRel
<1> QED BY <1>2

\* Induction over a set of numbers.
LEMMA Climb ==
  ASSUME NEW G, NEW n \in Nat, 0 \in G, \A k \in Nat : k < n /\ k \in G => k + 1 \in G
  PROVE  n \in G
<1> DEFINE T == {k \in 0..n : k \notin G}
<1>1. SUFFICES ASSUME n \notin G PROVE FALSE
  OBVIOUS
<1>2. T \subseteq Nat /\ T # {}
  BY <1>1
<1>3. PICK x \in T : \A y \in T : x <= y
  BY <1>2, LeastNat
<1>5. x \in Nat /\ x <= n /\ x \notin G /\ x # 0
  BY <1>3
<1>6. PICK w \in Nat : w + 1 = x
  <2>1. x - 1 \in Nat /\ (x - 1) + 1 = x
    BY <1>5
  <2> QED BY <2>1
<1>7. w \in G
  <2>1. w \in 0..n /\ w < x
    BY <1>5, <1>6
  <2> QED BY <1>3, <2>1
<1> QED BY <1>5, <1>6, <1>7

\* The step of Kept.
Take(q, s, K, k) == IF s[k] \in K THEN Append(q, s[k]) ELSE q
Walk(f, n, s, K) == f = [k \in 0..n |-> IF k = 0 THEN <<>> ELSE Take(f[k - 1], s, K, k)]

LEMMA KeptWalks ==
  ASSUME NEW s, NEW K, Len(s) \in Nat
  PROVE  \E f : Walk(f, Len(s), s, K) /\ Kept(s, K) = f[Len(s)]
<1> DEFINE G == {n \in Nat : \E f : Walk(f, n, s, K)}
<1>1. 0 \in G
  <2> DEFINE f == [k \in 0..0 |-> <<>>]
  <2>1. Walk(f, 0, s, K)
    BY DEF Walk
  <2> QED BY <2>1
<1>2. ASSUME NEW n \in Nat, n \in G PROVE n + 1 \in G
  <2>1. PICK f : Walk(f, n, s, K)
    BY <1>2
  <2>2. PICK m \in Nat : m = n + 1
    OBVIOUS
  <2> DEFINE g == [k \in 0..m |-> IF k <= n THEN f[k] ELSE Take(f[n], s, K, m)]
  <2>3. \A k \in 0..n : f[k] = IF k = 0 THEN <<>> ELSE Take(f[k - 1], s, K, k)
    BY <2>1 DEF Walk
  <2>4. ASSUME NEW k \in 0..m
        PROVE  g[k] = IF k = 0 THEN <<>> ELSE Take(g[k - 1], s, K, k)
    <3>1. CASE k = 0
      BY <2>3, <3>1
    <3>2. CASE k # 0 /\ k <= n
      <4>1. g[k] = f[k] /\ g[k - 1] = f[k - 1]
        BY <2>2, <3>2
      <4> QED BY <2>3, <3>2, <4>1
    <3>3. CASE k = m
      <4>1. g[k - 1] = f[n] /\ g[k] = Take(f[n], s, K, m)
        BY <2>2, <3>3
      <4> QED BY <2>2, <3>3, <4>1
    <3> QED BY <2>2, <3>1, <3>2, <3>3
  <2>5. g = [k \in 0..m |-> g[k]]
    OBVIOUS
  <2> HIDE DEF g
  <2>6. Walk(g, m, s, K)
    BY <2>4, <2>5 DEF Walk
  <2> QED BY <2>2, <2>6
<1> HIDE DEF G
<1>3. Len(s) \in G
  BY <1>1, <1>2, Climb
<1>4. \E f : Walk(f, Len(s), s, K)
  BY <1>3 DEF G
<1>5. Kept(s, K) = (CHOOSE f : Walk(f, Len(s), s, K))[Len(s)]
  BY DEF Kept, Walk, Take
<1>6. PICK f : f = CHOOSE g : Walk(g, Len(s), s, K)
  OBVIOUS
<1> QED BY <1>4, <1>5, <1>6

\* Kept of an empty and of a longer sequence.
LEMMA KeptEmpty == ASSUME NEW K PROVE Kept(<<>>, K) = <<>>
<1>1. Len(<<>>) = 0
  OBVIOUS
<1>2. PICK f : Walk(f, 0, <<>>, K) /\ Kept(<<>>, K) = f[0]
  BY <1>1, KeptWalks
<1> QED BY <1>2 DEF Walk

LEMMA KeptAppend ==
  ASSUME NEW S, NEW s \in Seq(S), NEW x \in S, NEW K
  PROVE  Kept(Append(s, x), K) = IF x \in K THEN Append(Kept(s, K), x) ELSE Kept(s, K)
<1>1. PICK n \in Nat : n = Len(s)
  BY LenProperties
<1>2. PICK t : t = Append(s, x)
  OBVIOUS
<1>3. PICK m \in Nat : m = n + 1
  OBVIOUS
<1>4. Len(t) = m /\ (\A k \in 1..n : t[k] = s[k]) /\ t[m] = x
  BY <1>1, <1>2, <1>3, AppendProperties
<1>5. PICK f : Walk(f, n, s, K) /\ Kept(s, K) = f[n]
  BY <1>1, KeptWalks
<1>6. PICK g : Walk(g, m, t, K) /\ Kept(t, K) = g[m]
  BY <1>3, <1>4, KeptWalks
<1>7. \A k \in 0..n : f[k] = IF k = 0 THEN <<>> ELSE Take(f[k - 1], s, K, k)
  BY <1>5 DEF Walk
<1>8. \A k \in 0..m : g[k] = IF k = 0 THEN <<>> ELSE Take(g[k - 1], t, K, k)
  BY <1>6 DEF Walk
<1> DEFINE G == {k \in Nat : k <= n => f[k] = g[k]}
<1>9. 0 \in G
  BY <1>3, <1>7, <1>8
<1>10. ASSUME NEW k \in Nat, k < n, k \in G PROVE k + 1 \in G
  <2>1. PICK j \in Nat : j = k + 1
    OBVIOUS
  <2>2. j \in 1..n /\ j \in 0..m /\ j - 1 = k /\ j # 0
    BY <1>3, <1>10, <2>1
  <2>3. f[k] = g[k]
    BY <1>10
  <2>4. f[j] = Take(f[k], s, K, j) /\ g[j] = Take(g[k], t, K, j)
    BY <1>7, <1>8, <2>2
  <2>5. s[j] = t[j]
    BY <1>4, <2>2
  <2>6. f[j] = g[j]
    BY <2>3, <2>4, <2>5 DEF Take
  <2> QED BY <2>1, <2>6
<1> HIDE DEF G
<1>11. n \in G
  BY <1>9, <1>10, Climb
<1>12. f[n] = g[n]
  BY <1>11 DEF G
<1>13. g[m] = Take(g[n], t, K, m)
  <2>1. m - 1 = n /\ m # 0 /\ m \in 0..m
    BY <1>3
  <2> QED BY <1>8, <2>1
<1> QED BY <1>2, <1>4, <1>5, <1>6, <1>12, <1>13 DEF Take

\* A sequence is built of its prefixes.
LEMMA PrefixFacts ==
  ASSUME NEW S, NEW s \in Seq(S)
  PROVE  /\ SubSeq(s, 1, 0) = <<>> /\ SubSeq(s, 1, Len(s)) = s
         /\ \A k \in Nat : k <= Len(s) => SubSeq(s, 1, k) \in Seq(S) /\ Len(SubSeq(s, 1, k)) = k
         /\ \A k \in Nat : k < Len(s) =>
              s[k + 1] \in S /\ SubSeq(s, 1, k + 1) = Append(SubSeq(s, 1, k), s[k + 1])
<1>1. PICK n \in Nat : n = Len(s)
  BY LenProperties
<1>2. \A i \in 1..n : s[i] \in S
  BY <1>1, ElementOfSeq
<1>3. SubSeq(s, 1, 0) = <<>>
  BY SubSeqEmpty
<1>4. SubSeq(s, 1, n) = s
  BY <1>1, SubSeqFull
<1>5. ASSUME NEW k \in Nat, k <= n
      PROVE  /\ SubSeq(s, 1, k) \in Seq(S) /\ Len(SubSeq(s, 1, k)) = k
             /\ \A i \in 1..k : SubSeq(s, 1, k)[i] = s[i]
  <2>1. 1 \in Int /\ k \in Int /\ \A i \in 1..k : s[i] \in S
    BY <1>2, <1>5
  <2>2. PICK t : t = SubSeq(s, 1, k)
    OBVIOUS
  <2>3. /\ t \in Seq(S) /\ Len(t) = (IF 1 <= k THEN k - 1 + 1 ELSE 0)
        /\ \A i \in 1..(k - 1 + 1) : t[i] = s[1 + i - 1]
    BY <2>1, <2>2, SubSeqProperties
  <2>4. Len(t) = k
    BY <2>3
  <2>5. \A i \in 1..k : t[i] = s[i]
    BY <2>3
  <2> QED BY <2>2, <2>3, <2>4, <2>5
<1>6. ASSUME NEW k \in Nat, k < n
      PROVE  s[k + 1] \in S /\ SubSeq(s, 1, k + 1) = Append(SubSeq(s, 1, k), s[k + 1])
  <2>1. PICK m \in Nat : m = k + 1
    OBVIOUS
  <2>2. m <= n /\ k <= n /\ m \in 1..n
    BY <1>6, <2>1
  <2>3. PICK a : a = SubSeq(s, 1, k)
    OBVIOUS
  <2>4. PICK b : b = SubSeq(s, 1, m)
    OBVIOUS
  <2>5. a \in Seq(S) /\ Len(a) = k /\ \A i \in 1..k : a[i] = s[i]
    BY <1>5, <2>2, <2>3
  <2>6. b \in Seq(S) /\ Len(b) = m /\ \A i \in 1..m : b[i] = s[i]
    BY <1>5, <2>2, <2>4
  <2>7. s[m] \in S
    BY <1>2, <2>2
  <2>8. PICK c : c = Append(a, s[m])
    OBVIOUS
  <2>9. c \in Seq(S) /\ Len(c) = m /\ (\A i \in 1..k : c[i] = a[i]) /\ c[m] = s[m]
    BY <2>1, <2>5, <2>7, <2>8, AppendProperties
  <2>10. \A i \in 1..m : b[i] = c[i]
    BY <2>1, <2>5, <2>6, <2>9
  <2>11. b = c
    BY <2>6, <2>9, <2>10, SeqEqual
  <2> QED BY <2>1, <2>3, <2>4, <2>7, <2>8, <2>11
<1> QED BY <1>1, <1>3, <1>4, <1>5, <1>6

\* Induction over a set of sequences.
LEMMA SeqClimb ==
  ASSUME NEW S, NEW G, <<>> \in G, \A t \in Seq(S), x \in S : t \in G => Append(t, x) \in G
  PROVE  \A s \in Seq(S) : s \in G
<1> TAKE s \in Seq(S)
<1>0. PICK n \in Nat : n = Len(s)
  BY LenProperties
<1>p. SubSeq(s, 1, 0) = <<>> /\ SubSeq(s, 1, Len(s)) = s
  BY PrefixFacts
<1>q. \A k \in Nat : k <= Len(s) => SubSeq(s, 1, k) \in Seq(S)
  BY PrefixFacts
<1>r. \A k \in Nat : k < Len(s) =>
        s[k + 1] \in S /\ SubSeq(s, 1, k + 1) = Append(SubSeq(s, 1, k), s[k + 1])
  BY PrefixFacts
<1> DEFINE H == {k \in Nat : k <= n => SubSeq(s, 1, k) \in G}
<1>1. 0 \in H
  BY <1>p
<1>2. ASSUME NEW k \in Nat, k < n, k \in H PROVE k + 1 \in H
  <2>1. PICK a : a = SubSeq(s, 1, k)
    OBVIOUS
  <2>2. PICK x : x = s[k + 1]
    OBVIOUS
  <2>3. a \in Seq(S) /\ x \in S /\ SubSeq(s, 1, k + 1) = Append(a, x)
    <3>1. k < Len(s) /\ k <= Len(s)
      BY <1>0, <1>2
    <3>2. a \in Seq(S)
      BY <1>q, <2>1, <3>1
    <3> QED BY <1>r, <2>1, <2>2, <3>1, <3>2
  <2>4. a \in G
    BY <1>2, <2>1
  <2>5. Append(a, x) \in G
    BY <2>3, <2>4
  <2>6. SubSeq(s, 1, k + 1) \in G
    BY <2>3, <2>5, Zenon
  <2>7. k + 1 \in Nat
    OBVIOUS
  <2> QED BY <2>6, <2>7
<1> HIDE DEF H
<1>3. n \in H
  BY <1>1, <1>2, Climb
<1>4. SubSeq(s, 1, n) \in G
  BY <1>3 DEF H
<1> QED BY <1>0, <1>4, <1>p

\* What is kept of a sequence are elements of it.
LEMMA KeptIn ==
  ASSUME NEW S, NEW K
  PROVE  \A s \in Seq(S) : Kept(s, K) \in Seq(S)
<1> DEFINE G == {s \in Seq(S) : Kept(s, K) \in Seq(S)}
<1>1. <<>> \in G
  <2>1. Kept(<<>>, K) = <<>>
    BY KeptEmpty
  <2>2. <<>> \in Seq(S)
    OBVIOUS
  <2> QED BY <2>1, <2>2, Zenon
<1>2. ASSUME NEW t \in Seq(S), NEW x \in S, t \in G PROVE Append(t, x) \in G
  <2>1. Kept(Append(t, x), K) = IF x \in K THEN Append(Kept(t, K), x) ELSE Kept(t, K)
    BY KeptAppend
  <2>2. Kept(t, K) \in Seq(S) /\ Append(t, x) \in Seq(S)
    BY <1>2, AppendProperties
  <2>3. Append(Kept(t, K), x) \in Seq(S)
    BY <2>2, AppendProperties
  <2> QED BY <2>1, <2>2, <2>3
<1> HIDE DEF G
<1>3. \A s \in Seq(S) : s \in G
  BY <1>1, <1>2, SeqClimb
<1> QED BY <1>3 DEF G

\* Keeping the elements of K, and of those the ones equal to u.
LEMMA KeptTwice ==
  ASSUME NEW S, NEW K, NEW u
  PROVE  \A s \in Seq(S) : Kept(Kept(s, K), {u}) = IF u \in K THEN Kept(s, {u}) ELSE <<>>
<1> DEFINE P(t) == Kept(Kept(t, K), {u}) = IF u \in K THEN Kept(t, {u}) ELSE <<>>
           G == {s \in Seq(S) : P(s)}
<1>1. <<>> \in G
  BY KeptEmpty
<1>2. ASSUME NEW t \in Seq(S), NEW x \in S, t \in G PROVE Append(t, x) \in G
  <2>1. Kept(Append(t, x), K) = IF x \in K THEN Append(Kept(t, K), x) ELSE Kept(t, K)
    BY KeptAppend
  <2>2. Kept(Append(t, x), {u}) = IF x \in {u} THEN Append(Kept(t, {u}), x) ELSE Kept(t, {u})
    BY KeptAppend
  <2>3. PICK a \in Seq(S) : a = Kept(t, K)
    BY KeptIn
  <2>4. Kept(Append(a, x), {u}) = IF x \in {u} THEN Append(Kept(a, {u}), x) ELSE Kept(a, {u})
    BY KeptAppend
  <2>5. Kept(a, {u}) = IF u \in K THEN Kept(t, {u}) ELSE <<>>
    BY <1>2, <2>3
  <2>6. Append(t, x) \in Seq(S)
    BY AppendProperties
  <2>7. P(Append(t, x))
    <3>1. CASE x = u /\ u \in K
      BY <2>1, <2>2, <2>3, <2>4, <2>5, <3>1
    <3>2. CASE x = u /\ u \notin K
      BY <2>1, <2>2, <2>3, <2>4, <2>5, <3>2
    <3>3. CASE x # u
      BY <2>1, <2>2, <2>3, <2>4, <2>5, <3>3
    <3> QED BY <3>1, <3>2, <3>3
  <2> QED BY <2>6, <2>7
<1> HIDE DEF G
<1>3. \A s \in Seq(S) : s \in G
  BY <1>1, <1>2, SeqClimb
<1> QED BY <1>3 DEF G

Entry == EntriesFor(Nat)

\* The messages of a list of entries, entry by entry.
LEMMA MsgsInFacts ==
  ASSUME NEW q \in Seq(Entry)
  PROVE  /\ MsgsIn(q) \in Seq(Nat) /\ Len(MsgsIn(q)) = Len(q)
         /\ \A e \in Entry : MsgsIn(Append(q, e)) = Append(MsgsIn(q), e.chatmsg)
<1>1. PICK n \in Nat : n = Len(q)
  BY LenProperties
<1>2. DOMAIN q = 1..n /\ \A i \in 1..n : q[i] \in Entry
  BY <1>1, ElementOfSeq, LenProperties
<1>3. \A e \in Entry : e.chatmsg \in Nat
  BY DEF Entry, EntriesFor
<1>4. PICK m : m = MsgsIn(q)
  OBVIOUS
<1>5. m = [i \in 1..n |-> q[i].chatmsg]
  BY <1>2, <1>4 DEF MsgsIn
<1>6. \A i \in 1..n : q[i].chatmsg \in Nat
  BY <1>2, <1>3
<1>7. m \in Seq(Nat) /\ Len(m) = n
  <2>1. m \in [1..n -> Nat]
    BY <1>5, <1>6
  <2> QED BY <2>1, LenProperties
<1>8. ASSUME NEW e \in Entry PROVE MsgsIn(Append(q, e)) = Append(m, e.chatmsg)
  <2>1. PICK k \in Nat : k = n + 1
    OBVIOUS
  <2>2. PICK t \in Seq(Entry) : t = Append(q, e)
    BY AppendProperties
  <2>3. Len(t) = k /\ (\A i \in 1..n : t[i] = q[i]) /\ t[k] = e
    BY <1>1, <2>1, <2>2, AppendProperties
  <2>4. DOMAIN t = 1..k
    BY <2>3, LenProperties
  <2>5. PICK a \in Seq(Nat) : a = Append(m, e.chatmsg)
    BY <1>3, <1>7, AppendProperties
  <2>6. Len(a) = k /\ (\A i \in 1..n : a[i] = m[i]) /\ a[k] = e.chatmsg
    BY <1>3, <1>7, <2>1, <2>5, AppendProperties
  <2>7. PICK b : b = MsgsIn(t)
    OBVIOUS
  <2>8. b = [i \in 1..k |-> t[i].chatmsg]
    BY <2>4, <2>7 DEF MsgsIn
  <2>9. \A i \in 1..k : t[i].chatmsg = a[i]
    <3>1. \A i \in 1..n : t[i].chatmsg = a[i]
      BY <1>5, <2>3, <2>6
    <3>2. \A i \in 1..k : i \in 1..n \/ i = k
      BY <2>1
    <3> QED BY <2>3, <2>6, <3>1, <3>2
  <2>10. a = [i \in 1..k |-> a[i]]
    BY <2>6, LenProperties
  <2>11. b = a
    BY <2>8, <2>9, <2>10
  <2> QED BY <2>2, <2>5, <2>7, <2>11
<1> QED BY <1>1, <1>4, <1>7, <1>8

\* The cached messages of a user, entry by entry.
LEMMA ChatMsgsAppend ==
  ASSUME NEW q \in Seq(Entry), NEW e \in Entry, NEW u \in Nat
  PROVE  /\ ChatMsgsOf(<<>>, u) = <<>>
         /\ ChatMsgsOf(q, u) \in Seq(Nat)
         /\ ChatMsgsOf(Append(q, e), u) = IF e.userid = u THEN Append(ChatMsgsOf(q, u), e.chatmsg)
                                          ELSE ChatMsgsOf(q, u)
<1>1. PICK K : K = EntriesFor({u})
  OBVIOUS
<1>2. e \in K <=> e.userid = u
  BY <1>1 DEF Entry, EntriesFor
<1>3. Kept(Append(q, e), K) = IF e \in K THEN Append(Kept(q, K), e) ELSE Kept(q, K)
  BY KeptAppend
<1>4. PICK k \in Seq(Entry) : k = Kept(q, K)
  BY KeptIn
<1>5. MsgsIn(k) \in Seq(Nat) /\ MsgsIn(Append(k, e)) = Append(MsgsIn(k), e.chatmsg)
  BY MsgsInFacts
<1>6. ChatMsgsOf(<<>>, u) = <<>>
  <2>1. Kept(<<>>, K) = <<>>
    BY KeptEmpty
  <2>2. MsgsIn(<<>>) = <<>>
    BY DEF MsgsIn
  <2> QED BY <1>1, <2>1, <2>2 DEF ChatMsgsOf
<1>7. ChatMsgsOf(q, u) = MsgsIn(k)
  BY <1>1, <1>4 DEF ChatMsgsOf
<1>8. ChatMsgsOf(Append(q, e), u) = MsgsIn(Kept(Append(q, e), K))
  BY <1>1 DEF ChatMsgsOf
<1>9. CASE e.userid = u
  BY <1>2, <1>3, <1>4, <1>5, <1>6, <1>7, <1>8, <1>9, Zenon
<1>10. CASE e.userid # u
  BY <1>2, <1>3, <1>4, <1>5, <1>6, <1>7, <1>8, <1>10, Zenon
<1> QED BY <1>9, <1>10

\* Appending after joining, and joining nothing.
LEMMA JoinAppend ==
  ASSUME NEW S, NEW s \in Seq(S), NEW t \in Seq(S), NEW x \in S
  PROVE  s \o Append(t, x) = Append(s \o t, x) /\ s \o <<>> = s
<1>1. PICK j \in Seq(S) : j = s \o t
  BY ConcatProperties
<1>2. <<x>> \in Seq(S)
  OBVIOUS
<1>3. Append(t, x) = t \o <<x>>
  BY AppendIsConcat
<1>4. Append(j, x) = j \o <<x>>
  BY AppendIsConcat
<1>5. (s \o t) \o <<x>> = s \o (t \o <<x>>)
  BY <1>2, ConcatAssociative
<1>6. s \o <<>> = s
  BY ConcatEmptySeq
<1> QED BY <1>1, <1>3, <1>4, <1>5, <1>6, Zenon

\* A message a number of times.
LEMMA TimesFacts ==
  ASSUME NEW n \in Nat, NEW k \in Nat
  PROVE  /\ Times(n, 0) = <<>>
         /\ Times(n, k) \in Seq(Nat) /\ Len(Times(n, k)) = k
         /\ Times(n, k + 1) = Append(Times(n, k), n)
<1>1. Times(n, 0) = <<>>
  BY DEF Times
<1>2. PICK a : a = Times(n, k)
  OBVIOUS
<1>3. a \in Seq(Nat) /\ Len(a) = k /\ \A i \in 1..k : a[i] = n
  <2>1. a = [i \in 1..k |-> n]
    BY <1>2 DEF Times
  <2> QED BY <2>1
<1>4. PICK m \in Nat : m = k + 1
  OBVIOUS
<1>5. PICK b : b = Times(n, m)
  OBVIOUS
<1>6. b \in Seq(Nat) /\ Len(b) = m /\ \A i \in 1..m : b[i] = n
  <2>1. b = [i \in 1..m |-> n]
    BY <1>5 DEF Times
  <2> QED BY <2>1
<1>7. PICK c \in Seq(Nat) : c = Append(a, n)
  BY <1>3, AppendProperties
<1>8. Len(c) = m /\ (\A i \in 1..k : c[i] = a[i]) /\ c[m] = n
  BY <1>3, <1>4, <1>7, AppendProperties
<1>9. \A i \in 1..m : b[i] = c[i]
  <2>1. \A i \in 1..m : i \in 1..k \/ i = m
    BY <1>4
  <2> QED BY <1>3, <1>6, <1>8, <2>1
<1>10. b = c
  BY <1>6, <1>8, <1>9, SeqEqual
<1>11. Times(n, k + 1) = Append(Times(n, k), n)
  BY <1>2, <1>4, <1>5, <1>7, <1>10, Zenon
<1> QED BY <1>1, <1>2, <1>3, <1>11

\* A copy for one more user.
LEMMA TaggedFacts ==
  ASSUME NEW o \in Seq(Nat), NEW n \in Nat, NEW x \in Nat
  PROVE  /\ Tagged(<<>>, n) = <<>>
         /\ Tagged(o, n) \in Seq(Entry)
         /\ Tagged(Append(o, x), n) = Append(Tagged(o, n), [userid |-> x, chatmsg |-> n])
<1> DEFINE E(y) == [userid |-> y, chatmsg |-> n]
<1>0. Tagged(<<>>, n) = <<>>
  BY DEF Tagged
<1>1. \A y \in Nat : E(y) \in Entry
  BY DEF Entry, EntriesFor
<1> HIDE DEF E
<1>2. PICK k \in Nat : k = Len(o)
  BY LenProperties
<1>3. DOMAIN o = 1..k /\ \A i \in 1..k : o[i] \in Nat
  BY <1>2, ElementOfSeq, LenProperties
<1>4. PICK a : a = Tagged(o, n)
  OBVIOUS
<1>5. a = [i \in 1..k |-> E(o[i])]
  BY <1>3, <1>4 DEF Tagged, E
<1>6. \A i \in 1..k : E(o[i]) \in Entry
  BY <1>1, <1>3
<1>7. a \in Seq(Entry) /\ Len(a) = k
  <2>1. a \in [1..k -> Entry]
    BY <1>5, <1>6
  <2> QED BY <2>1
<1>8. PICK m \in Nat : m = k + 1
  OBVIOUS
<1>9. PICK t \in Seq(Nat) : t = Append(o, x)
  BY AppendProperties
<1>10. Len(t) = m /\ (\A i \in 1..k : t[i] = o[i]) /\ t[m] = x
  BY <1>2, <1>8, <1>9, AppendProperties
<1>11. DOMAIN t = 1..m /\ \A i \in 1..m : t[i] \in Nat
  BY <1>10, LenProperties, ElementOfSeq
<1>12. PICK b : b = Tagged(t, n)
  OBVIOUS
<1>13. b = [i \in 1..m |-> E(t[i])]
  BY <1>11, <1>12 DEF Tagged, E
<1>14. b \in Seq(Entry) /\ Len(b) = m
  <2>1. \A i \in 1..m : E(t[i]) \in Entry
    BY <1>1, <1>11
  <2>2. b \in [1..m -> Entry]
    BY <1>13, <2>1
  <2> QED BY <2>2
<1>15. PICK e \in Entry : e = E(x)
  BY <1>1
<1>16. PICK c \in Seq(Entry) : c = Append(a, e)
  BY <1>7, AppendProperties
<1>17. Len(c) = m /\ (\A i \in 1..k : c[i] = a[i]) /\ c[m] = e
  BY <1>7, <1>8, <1>16, AppendProperties
<1>18. \A i \in 1..m : b[i] = c[i]
  <2>1. \A i \in 1..m : i \in 1..k \/ i = m
    BY <1>8
  <2>2. m \in 1..m /\ \A i \in 1..k : i \in 1..m
    BY <1>8
  <2>3. \A i \in 1..k : b[i] = c[i]
    BY <1>5, <1>10, <1>13, <1>17, <2>2
  <2>4. b[m] = c[m]
    BY <1>10, <1>13, <1>15, <1>17, <2>2
  <2> QED BY <2>1, <2>3, <2>4
<1>19. b = c
  BY <1>14, <1>17, <1>18, SeqEqual
<1>20. Tagged(Append(o, x), n) = Append(Tagged(o, n), E(x))
  BY <1>4, <1>9, <1>12, <1>15, <1>16, <1>19, Zenon
<1> QED BY <1>0, <1>4, <1>7, <1>20 DEF E

\* AddChatMsgCache: the queue of a user grows by the copies for that user.
LEMMA ChatMsgsAdded ==
  ASSUME NEW q \in Seq(Entry), NEW n \in Nat, NEW u \in Nat
  PROVE  \A o \in Seq(Nat) :
           /\ AddChatMsgCache(q, o, n) \in Seq(Entry)
           /\ ChatMsgsOf(AddChatMsgCache(q, o, n), u)
                = ChatMsgsOf(q, u) \o Times(n, Len(Kept(o, {u})))
<1> DEFINE P(o) == /\ q \o Tagged(o, n) \in Seq(Entry)
                   /\ ChatMsgsOf(q \o Tagged(o, n), u)
                        = ChatMsgsOf(q, u) \o Times(n, Len(Kept(o, {u})))
           G == {o \in Seq(Nat) : P(o)}
<1>0. PICK c \in Seq(Nat) : c = ChatMsgsOf(q, u)
  <2>1. [userid |-> 0, chatmsg |-> 0] \in Entry
    BY DEF Entry, EntriesFor
  <2> QED BY <2>1, ChatMsgsAppend
<1>1. <<>> \in G
  <2>1. Tagged(<<>>, n) = <<>>
    BY DEF Tagged
  <2>2. q \o <<>> = q /\ c \o <<>> = c
    BY ConcatEmptySeq
  <2>3. Kept(<<>>, {u}) = <<>>
    BY KeptEmpty
  <2>4. Len(<<>>) = 0 /\ <<>> \in Seq(Nat)
    OBVIOUS
  <2>5. Times(n, 0) = <<>>
    BY DEF Times
  <2>6. P(<<>>)
    BY <1>0, <2>1, <2>2, <2>3, <2>4, <2>5, Zenon
  <2> QED BY <2>4, <2>6
<1>2. ASSUME NEW o \in Seq(Nat), NEW x \in Nat, o \in G PROVE Append(o, x) \in G
  <2>1. PICK t \in Seq(Entry) : t = Tagged(o, n)
    BY TaggedFacts
  <2>2. PICK e : e = [userid |-> x, chatmsg |-> n]
    OBVIOUS
  <2>3. e \in Entry /\ e.userid = x /\ e.chatmsg = n
    BY <2>2 DEF Entry, EntriesFor
  <2>4. Tagged(Append(o, x), n) = Append(t, e)
    BY <2>1, <2>2, TaggedFacts
  <2>5. PICK j \in Seq(Entry) : j = q \o t
    BY ConcatProperties
  <2>6. q \o Append(t, e) = Append(j, e)
    BY <2>3, <2>5, JoinAppend
  <2>7. Append(j, e) \in Seq(Entry)
    BY <2>3, AppendProperties
  <2>8. ChatMsgsOf(Append(j, e), u) = IF x = u THEN Append(ChatMsgsOf(j, u), n)
                                      ELSE ChatMsgsOf(j, u)
    BY <2>3, ChatMsgsAppend
  <2>9. PICK k \in Seq(Nat) : k = Kept(o, {u})
    BY KeptIn
  <2>10. PICK m \in Nat : m = Len(k)
    BY LenProperties
  <2>11. ChatMsgsOf(j, u) = c \o Times(n, m)
    BY <1>0, <1>2, <2>1, <2>5, <2>9, <2>10
  <2>12. Kept(Append(o, x), {u}) = IF x \in {u} THEN Append(k, x) ELSE k
    <3>1. Kept(Append(o, x), {u}) = IF x \in {u} THEN Append(Kept(o, {u}), x)
                                   ELSE Kept(o, {u})
      BY KeptAppend
    <3> QED BY <2>9, <3>1
  <2>13. Append(o, x) \in Seq(Nat)
    BY AppendProperties
  <2>14. CASE x = u
    <3>1. Len(Append(k, x)) = m + 1
      BY <2>10, AppendProperties
    <3>2. PICK s \in Seq(Nat) : s = Times(n, m)
      BY TimesFacts
    <3>3. Times(n, m + 1) = Append(s, n)
      BY <3>2, TimesFacts
    <3>4. c \o Append(s, n) = Append(c \o s, n)
      BY JoinAppend
    <3>5. Len(Kept(Append(o, x), {u})) = m + 1
      BY <2>12, <2>14, <3>1
    <3>6. ChatMsgsOf(Append(j, e), u) = c \o Times(n, m + 1)
      BY <2>8, <2>11, <2>14, <3>2, <3>3, <3>4
    <3>7. P(Append(o, x))
      BY <1>0, <2>4, <2>6, <2>7, <3>5, <3>6, Zenon
    <3> QED BY <2>13, <3>7
  <2>15. CASE x # u
    <3>1. Len(Kept(Append(o, x), {u})) = m
      BY <2>10, <2>12, <2>15
    <3>2. ChatMsgsOf(Append(j, e), u) = c \o Times(n, m)
      BY <2>8, <2>11, <2>15
    <3>3. P(Append(o, x))
      BY <1>0, <2>4, <2>6, <2>7, <3>1, <3>2, Zenon
    <3> QED BY <2>13, <3>3
  <2> QED BY <2>14, <2>15
<1> HIDE DEF G
<1>3. \A o \in Seq(Nat) : o \in G
  BY <1>1, <1>2, SeqClimb
<1>4. \A o \in Seq(Nat) : P(o)
  BY <1>3 DEF G
<1> QED BY <1>4 DEF AddChatMsgCache

\* GetChatMsgCache: the queue of the user is gone, the others are as they were.
LEMMA ChatMsgsErased ==
  ASSUME NEW u \in Nat, NEW v \in Nat
  PROVE  \A q \in Seq(Entry) :
           /\ WithoutUser(q, u) \in Seq(Entry)
           /\ ChatMsgsOf(WithoutUser(q, u), v) = IF v = u THEN <<>> ELSE ChatMsgsOf(q, v)
<1>1. PICK K : K = EntriesFor(Nat \ {u})
  OBVIOUS
<1> DEFINE P(q) == ChatMsgsOf(Kept(q, K), v) = IF v = u THEN <<>> ELSE ChatMsgsOf(q, v)
           G == {q \in Seq(Entry) : P(q)}
<1>2. \A e \in Entry : e \in K <=> e.userid # u
  BY <1>1 DEF Entry, EntriesFor
<1>3. <<>> \in G
  <2>1. Kept(<<>>, K) = <<>>
    BY KeptEmpty
  <2>2. [userid |-> 0, chatmsg |-> 0] \in Entry /\ <<>> \in Seq(Entry)
    BY DEF Entry, EntriesFor
  <2>3. ChatMsgsOf(<<>>, v) = <<>>
    BY <2>2, ChatMsgsAppend
  <2>4. P(<<>>)
    BY <2>1, <2>3, Zenon
  <2> QED BY <2>2, <2>4
<1>4. ASSUME NEW q \in Seq(Entry), NEW e \in Entry, q \in G PROVE Append(q, e) \in G
  <2>1. Append(q, e) \in Seq(Entry)
    BY AppendProperties
  <2>2. PICK k \in Seq(Entry) : k = Kept(q, K)
    BY KeptIn
  <2>3. Kept(Append(q, e), K) = IF e \in K THEN Append(k, e) ELSE k
    BY <2>2, KeptAppend
  <2>4. ChatMsgsOf(Append(q, e), v) = IF e.userid = v THEN Append(ChatMsgsOf(q, v), e.chatmsg)
                                      ELSE ChatMsgsOf(q, v)
    BY ChatMsgsAppend
  <2>5. ChatMsgsOf(Append(k, e), v) = IF e.userid = v THEN Append(ChatMsgsOf(k, v), e.chatmsg)
                                      ELSE ChatMsgsOf(k, v)
    BY ChatMsgsAppend
  <2>6. ChatMsgsOf(k, v) = IF v = u THEN <<>> ELSE ChatMsgsOf(q, v)
    BY <1>4, <2>2
  <2>7. e \in K <=> e.userid # u
    BY <1>2
  <2>8. P(Append(q, e))
    <3>1. CASE e.userid = u /\ v = u
      BY <2>3, <2>4, <2>5, <2>6, <2>7, <3>1
    <3>2. CASE e.userid = u /\ v # u
      BY <2>3, <2>4, <2>5, <2>6, <2>7, <3>2
    <3>3. CASE e.userid # u
      BY <2>3, <2>4, <2>5, <2>6, <2>7, <3>3
    <3> QED BY <3>1, <3>2, <3>3
  <2> QED BY <2>1, <2>8
<1> HIDE DEF G
<1>5. \A q \in Seq(Entry) : q \in G
  BY <1>3, <1>4, SeqClimb
<1>6. \A q \in Seq(Entry) : P(q)
  BY <1>5 DEF G
<1>7. \A q \in Seq(Entry) : Kept(q, K) \in Seq(Entry)
  BY KeptIn
<1> QED BY <1>1, <1>6, <1>7 DEF WithoutUser

\* Counting the copies of a message, in an append and in a join.
LEMMA CopiesAppend ==
  ASSUME NEW s \in Seq(Nat), NEW x \in Nat, NEW n
  PROVE  /\ Copies(s, n) \in Nat
         /\ Copies(Append(s, x), n) = IF x = n THEN Copies(s, n) + 1 ELSE Copies(s, n)
<1>1. PICK k \in Nat : k = Len(s)
  BY LenProperties
<1>2. PICK m \in Nat : m = k + 1
  OBVIOUS
<1>3. PICK t \in Seq(Nat) : t = Append(s, x)
  BY AppendProperties
<1>4. Len(t) = m /\ (\A i \in 1..k : t[i] = s[i]) /\ t[m] = x
  BY <1>1, <1>2, <1>3, AppendProperties
<1>5. DOMAIN s = 1..k
  BY <1>1, LenProperties
<1>6. DOMAIN t = 1..m
  BY <1>4, LenProperties
<1> DEFINE A == {i \in 1..k : s[i] = n}
           B == {i \in 1..m : t[i] = n}
<1>7. IsFiniteSet(A)
  <2>1. IsFiniteSet(1..k)
    BY FS_Interval
  <2>2. A \in SUBSET (1..k)
    OBVIOUS
  <2> QED BY <2>1, <2>2, FS_Subset
<1>8. B = IF x = n THEN A \cup {m} ELSE A
  <2>1. \A i \in 1..m : i \in 1..k \/ i = m
    BY <1>2
  <2>2. m \in 1..m /\ \A i \in 1..k : i \in 1..m
    BY <1>2
  <2> QED BY <1>4, <2>1, <2>2
<1>9. m \notin A
  BY <1>2
<1>10. Copies(s, n) = Cardinality(A) /\ Copies(t, n) = Cardinality(B)
  BY <1>5, <1>6 DEF Copies
<1> HIDE DEF A, B
<1>11. Cardinality(A \cup {m}) = Cardinality(A) + 1
  BY <1>7, <1>9, FS_AddElement
<1>12. Cardinality(A) \in Nat
  BY <1>7, FS_CardinalityType
<1> QED BY <1>3, <1>8, <1>10, <1>11, <1>12

LEMMA CopiesJoin ==
  ASSUME NEW s \in Seq(Nat), NEW n
  PROVE  \A t \in Seq(Nat) : Copies(s \o t, n) = Copies(s, n) + Copies(t, n)
<1> DEFINE P(t) == Copies(s \o t, n) = Copies(s, n) + Copies(t, n)
           G == {t \in Seq(Nat) : P(t)}
<1>0. \A t \in Seq(Nat) : Copies(t, n) \in Nat
  BY CopiesAppend
<1>1. <<>> \in G
  <2>1. s \o <<>> = s
    BY ConcatEmptySeq
  <2>2. Copies(<<>>, n) = 0
    <3>1. {i \in DOMAIN <<>> : <<>>[i] = n} = {}
      OBVIOUS
    <3> QED BY <3>1, FS_EmptySet DEF Copies
  <2>3. Copies(s, n) \in Nat
    BY <1>0
  <2>4. Copies(s, n) = Copies(s, n) + 0
    BY <2>3
  <2>5. P(<<>>)
    BY <2>1, <2>2, <2>4, Zenon
  <2>6. <<>> \in Seq(Nat)
    OBVIOUS
  <2> QED BY <2>5, <2>6
<1>2. ASSUME NEW t \in Seq(Nat), NEW x \in Nat, t \in G PROVE Append(t, x) \in G
  <2>1. Append(t, x) \in Seq(Nat)
    BY AppendProperties
  <2>2. PICK j \in Seq(Nat) : j = s \o t
    BY ConcatProperties
  <2>3. s \o Append(t, x) = Append(j, x)
    BY <2>2, JoinAppend
  <2>4. Copies(Append(j, x), n) = IF x = n THEN Copies(j, n) + 1 ELSE Copies(j, n)
    BY CopiesAppend
  <2>5. Copies(Append(t, x), n) = IF x = n THEN Copies(t, n) + 1 ELSE Copies(t, n)
    BY CopiesAppend
  <2>6. PICK a \in Nat, b \in Nat, c \in Nat :
          a = Copies(s, n) /\ b = Copies(t, n) /\ c = Copies(j, n)
    BY <1>0
  <2>7. c = a + b
    BY <1>2, <2>2, <2>6
  <2>8. P(Append(t, x))
    <3>1. CASE x = n
      <4>1. c + 1 = a + (b + 1)
        BY <2>7
      <4> QED BY <2>3, <2>4, <2>5, <2>6, <3>1, <4>1, Zenon
    <3>2. CASE x # n
      BY <2>3, <2>4, <2>5, <2>6, <2>7, <3>2, Zenon
    <3> QED BY <3>1, <3>2
  <2> QED BY <2>1, <2>8
<1> HIDE DEF G
<1>3. \A t \in Seq(Nat) : t \in G
  BY <1>1, <1>2, SeqClimb
<1> QED BY <1>3 DEF G

\* What is flattened of one and of two sequences.
LEMMA FlattenFew ==
  ASSUME NEW S, NEW a \in Seq(S), NEW b \in Seq(S)
  PROVE  FlattenSeq(<<a>>) = a /\ FlattenSeq(<<a, b>>) = a \o b
<1>1. FlattenSeq(<<a>>) = a
  <2> DEFINE W(f) == f = [i \in 1..1 |-> IF i = 1 THEN <<a>>[i] ELSE f[i - 1] \o <<a>>[i]]
  <2>1. FlattenSeq(<<a>>) = (CHOOSE f : W(f))[1]
    BY DEF FlattenSeq
  <2>2. W([i \in 1..1 |-> a])
    OBVIOUS
  <2>3. PICK f : f = CHOOSE g : W(g)
    OBVIOUS
  <2>4. W(f)
    BY <2>2, <2>3
  <2>5. f[1] = a
    BY <2>4
  <2> QED BY <2>1, <2>3, <2>5
<1>2. FlattenSeq(<<a, b>>) = a \o b
  <2>0. PICK s : s = <<a, b>>
    OBVIOUS
  <2>s. Len(s) = 2 /\ s[1] = a /\ s[2] = b
    BY <2>0
  <2> DEFINE W(f) == f = [i \in 1..2 |-> IF i = 1 THEN s[i] ELSE f[i - 1] \o s[i]]
             g == [i \in 1..2 |-> IF i = 1 THEN a ELSE a \o b]
  <2>1. FlattenSeq(s) = (CHOOSE f : W(f))[2]
    BY <2>s DEF FlattenSeq
  <2>2. W(g)
    <3>1. g[1] = a /\ g[2] = a \o b
      OBVIOUS
    <3>2. \A i \in 1..2 : i = 1 \/ (i = 2 /\ i - 1 = 1)
      OBVIOUS
    <3>3. \A i \in 1..2 : g[i] = IF i = 1 THEN s[i] ELSE g[i - 1] \o s[i]
      BY <2>s, <3>1, <3>2
    <3>4. g = [i \in 1..2 |-> g[i]]
      OBVIOUS
    <3> HIDE DEF g
    <3> QED BY <3>3, <3>4
  <2>3. PICK f : f = CHOOSE h : W(h)
    OBVIOUS
  <2>4. W(f)
    BY <2>2, <2>3
  <2>5. f[1] = a
    BY <2>s, <2>4
  <2>6. f[2] = f[1] \o b
    <3>1. \A i \in 1..2 : f[i] = IF i = 1 THEN s[i] ELSE f[i - 1] \o s[i]
      BY <2>4
    <3>2. 2 \in 1..2 /\ 2 # 1 /\ 2 - 1 = 1
      OBVIOUS
    <3>3. f[2] = f[2 - 1] \o s[2]
      BY <3>1, <3>2, Zenon
    <3> QED BY <2>s, <3>2, <3>3, Zenon
  <2> QED BY <2>0, <2>1, <2>3, <2>5, <2>6
<1> QED BY <1>1, <1>2

-----------------------------------------------------------------------------
(* Offline messages: the inductive invariant *)

OfflineTypes ==
  /\ chatCache \in Seq(Entry)
  /\ accepted \in [Ids -> Seq(Nat)]
  /\ sentTo \in [Ids -> Seq(Nat)]
  /\ nextMsg \in Nat

\* Nothing waits for a user who has a session, unless a failed login bound it.
OnlineDrained ==
  \A u \in Ids \ misbound : SessionsOf(u) # {} => ChatMsgsOf(chatCache, u) = <<>>

\* A user who is logged in on a connection is bound to its session.
LoginsBound ==
  /\ loggedIn \in [Conns -> Nat]
  /\ \A c \in Conns : loggedIn[c] # 0 => sess[c].open /\ sess[c].user = loggedIn[c]

OfflineInv ==
  /\ OfflineTypes
  /\ LoginsBound
  /\ OnlineDrained
  /\ OfflineOrder
  /\ MessagesAccounted

\* Ids are numbers, and so are the targets of a chat and all ids in order.
LEMMA ChatFacts ==
  Ids \subseteq Nat /\ 0 \notin Ids /\ Targets \subseteq Ids /\ Ascending \in Seq(Nat)
<1>1. Ids \subseteq Nat /\ 0 \notin Ids
  BY BoundsAssumption DEF Ids, UserIds, GroupIds
<1>2. Ascending \in Seq(Nat)
  BY BoundsAssumption DEF Ascending
<1> QED BY <1>1, <1>2, SessionAssumption

\* The queue of a user: of an empty cache, and its type.
LEMMA QueueFacts ==
  ASSUME NEW u \in Nat
  PROVE  ChatMsgsOf(<<>>, u) = <<>> /\ \A q \in Seq(Entry) : ChatMsgsOf(q, u) \in Seq(Nat)
<1>1. PICK e \in Entry : e = [userid |-> 0, chatmsg |-> 0]
  BY DEF Entry, EntriesFor
<1>2. <<>> \in Seq(Entry)
  OBVIOUS
<1> QED BY <1>1, <1>2, ChatMsgsAppend

\* GetSessionByID answers 0 exactly when the user has no session.
LEMMA NoSession ==
  ASSUME NEW u PROVE GetSessionByID(u) = 0 <=> SessionsOf(u) = {}
<1>1. SessionsOf(u) \subseteq Nat \ {0}
  BY SessionAssumption DEF SessionsOf
<1>2. ASSUME SessionsOf(u) # {} PROVE GetSessionByID(u) # 0
  <2>1. \E x \in SessionsOf(u) : \A y \in SessionsOf(u) : x <= y
    BY <1>1, <1>2, LeastNat
  <2>2. Min(SessionsOf(u)) \in SessionsOf(u)
    BY <2>1 DEF Min
  <2> QED BY <1>1, <1>2, <2>2 DEF GetSessionByID
<1> QED BY <1>2 DEF GetSessionByID

\* A handler that only sets m_seq binds nobody.
LEMMA SeqBindsNobody ==
  ASSUME ServerInv, NEW c \in Conns, NEW q, Receive(c, q)
  PROVE  /\ \A u \in Ids : SessionsOf(u)' = SessionsOf(u)
         /\ LoginsBound /\ UNCHANGED loggedIn => LoginsBound'
<1>1. sess' = [sess EXCEPT ![c].seq = q] /\ sess \in [Conns -> Session]
  BY DEF Receive, ServerInv
<1>2. \A d \in Conns : sess'[d].open = sess[d].open /\ sess'[d].user = sess[d].user
  BY <1>1 DEF Session
<1> QED BY <1>2 DEF SessionsOf, LoginsBound

\* A step that leaves the messages alone and binds nobody, or only a user whom it
\* marks as misbound.
LEMMA MessagesKept ==
  ASSUME OfflineInv, UNCHANGED chatVars, misbound \subseteq misbound', LoginsBound',
         \A u \in Ids \ misbound' : SessionsOf(u)' \subseteq SessionsOf(u)
  PROVE  OfflineInv'
<1>1. UNCHANGED <<chatCache, nextMsg, accepted, sentTo>>
  BY DEF chatVars
<1>2. OfflineTypes'
  BY <1>1 DEF OfflineInv, OfflineTypes
<1>3. OnlineDrained'
  <2> SUFFICES ASSUME NEW u \in Ids \ misbound', SessionsOf(u)' # {}
               PROVE  ChatMsgsOf(chatCache', u) = <<>>
    BY DEF OnlineDrained
  <2>1. u \in Ids \ misbound /\ SessionsOf(u) # {}
    OBVIOUS
  <2> QED BY <1>1, <2>1 DEF OfflineInv, OnlineDrained
<1>4. OfflineOrder'
  <2> SUFFICES ASSUME NEW u \in Ids \ misbound'
               PROVE  sentTo'[u] \o ChatMsgsOf(chatCache', u) = accepted'[u]
    BY DEF OfflineOrder
  <2>1. u \in Ids \ misbound
    OBVIOUS
  <2> QED BY <1>1, <2>1 DEF OfflineInv, OfflineOrder
<1>5. MessagesAccounted'
  BY <1>1 DEF OfflineInv, MessagesAccounted
<1> QED BY <1>2, <1>3, <1>4, <1>5 DEF OfflineInv

\* Nothing is there in the beginning, and nothing is left of an ended process.
LEMMA NoMessages ==
  /\ chatCache = <<>> /\ nextMsg \in Nat
  /\ accepted = [id \in Ids |-> <<>>] /\ sentTo = [id \in Ids |-> <<>>]
  /\ LoginsBound
  => OfflineInv
<1> SUFFICES ASSUME chatCache = <<>>, nextMsg \in Nat,
                    accepted = [id \in Ids |-> <<>>], sentTo = [id \in Ids |-> <<>>],
                    LoginsBound
             PROVE  OfflineInv
  OBVIOUS
<1>1. \A u \in Ids : ChatMsgsOf(chatCache, u) = <<>>
  BY ChatFacts, QueueFacts
<1>2. \A u \in Ids : accepted[u] = <<>> /\ sentTo[u] = <<>>
  OBVIOUS
<1>3. <<>> \o <<>> = <<>>
  OBVIOUS
<1>4. \A n : Copies(<<>>, n) = 0
  <2>1. \A n : {i \in DOMAIN <<>> : <<>>[i] = n} = {}
    OBVIOUS
  <2> QED BY <2>1, FS_EmptySet DEF Copies
<1>5. OfflineTypes
  BY DEF OfflineTypes
<1>6. OnlineDrained /\ OfflineOrder
  BY <1>1, <1>2, <1>3 DEF OnlineDrained, OfflineOrder
<1>7. MessagesAccounted
  BY <1>1, <1>2, <1>4 DEF MessagesAccounted
<1> QED BY <1>5, <1>6, <1>7 DEF OfflineInv

\* A login writes what waits for the user behind what was written before, and
\* nothing waits for that user then.
LEMMA LoginMessages ==
  ASSUME ServerInv, OfflineInv, NEW c \in Conns, NEW q \in Seqs, NEW u \in Ids,
         sess' = [sess EXCEPT ![c].seq = q, ![c].user = u],
         sentTo' = [sentTo EXCEPT ![u] = @ \o ChatMsgsOf(chatCache, u)],
         chatCache' = WithoutUser(chatCache, u),
         UNCHANGED <<nextMsg, accepted, misbound>>, LoginsBound'
  PROVE  /\ OfflineInv'
         /\ \A v \in Ids : ChatMsgsOf(chatCache', v) =
                             IF v = u THEN <<>> ELSE ChatMsgsOf(chatCache, v)
<1> USE DEF OfflineInv
<1>1. /\ chatCache \in Seq(Entry) /\ accepted \in [Ids -> Seq(Nat)]
      /\ sentTo \in [Ids -> Seq(Nat)] /\ nextMsg \in Nat
  BY DEF OfflineTypes
<1>2. Ids \subseteq Nat
  BY ChatFacts
<1>3. \A v \in Ids : ChatMsgsOf(chatCache, v) \in Seq(Nat)
  BY <1>1, <1>2, QueueFacts
<1>4. chatCache' \in Seq(Entry)
  BY <1>1, <1>2, ChatMsgsErased
<1>5. \A v \in Ids : ChatMsgsOf(chatCache', v) =
                       IF v = u THEN <<>> ELSE ChatMsgsOf(chatCache, v)
  <2>1. \A v \in Ids : ChatMsgsOf(WithoutUser(chatCache, u), v) =
                         IF v = u THEN <<>> ELSE ChatMsgsOf(chatCache, v)
    BY <1>1, <1>2, ChatMsgsErased
  <2> QED BY <2>1
<1>6. PICK s \in Seq(Nat) : s = sentTo[u]
  BY <1>1
<1>7. PICK w \in Seq(Nat) : w = ChatMsgsOf(chatCache, u)
  BY <1>3
<1>8. s \o w \in Seq(Nat) /\ (s \o w) \o <<>> = s \o w
  <2>1. s \o w \in Seq(Nat)
    BY ConcatProperties
  <2> QED BY <2>1, ConcatEmptySeq
<1>9. sentTo'[u] = s \o w /\ \A v \in Ids : v # u => sentTo'[v] = sentTo[v]
  BY <1>1, <1>6, <1>7
<1>10. OfflineTypes'
  <2>1. sentTo' \in [Ids -> Seq(Nat)]
    BY <1>1, <1>6, <1>7, <1>8
  <2> QED BY <1>1, <1>4, <2>1 DEF OfflineTypes
<1>11. OnlineDrained'
  <2> SUFFICES ASSUME NEW v \in Ids \ misbound, SessionsOf(v)' # {}
               PROVE  ChatMsgsOf(chatCache', v) = <<>>
    BY DEF OnlineDrained
  <2>1. CASE v = u
    BY <1>5, <2>1
  <2>2. CASE v # u
    <3>1. sess \in [Conns -> Session]
      BY DEF ServerInv
    <3>2. \A d \in Conns : /\ sess'[d].open = sess[d].open
                           /\ sess'[d].user = IF d = c THEN u ELSE sess[d].user
      BY <3>1 DEF Session
    <3>3. SessionsOf(v)' \subseteq SessionsOf(v)
      BY <2>2, <3>2 DEF SessionsOf
    <3> QED BY <1>5, <2>2, <3>3 DEF OnlineDrained
  <2> QED BY <2>1, <2>2
<1>12. OfflineOrder'
  <2> SUFFICES ASSUME NEW v \in Ids \ misbound
               PROVE  sentTo'[v] \o ChatMsgsOf(chatCache', v) = accepted[v]
    BY DEF OfflineOrder
  <2>1. sentTo[v] \o ChatMsgsOf(chatCache, v) = accepted[v]
    BY DEF OfflineOrder
  <2>2. CASE v = u
    <3>1. ChatMsgsOf(chatCache', v) = <<>>
      BY <1>5, <2>2
    <3> QED BY <1>6, <1>7, <1>8, <1>9, <2>1, <2>2, <3>1, Zenon
  <2>3. CASE v # u
    BY <1>5, <1>9, <2>1, <2>3
  <2> QED BY <2>2, <2>3
<1>13. MessagesAccounted'
  <2> SUFFICES ASSUME NEW v \in Ids, NEW n \in 1..MaxMsgs
               PROVE  Copies(accepted[v], n) =
                        Copies(sentTo'[v], n) + Copies(ChatMsgsOf(chatCache', v), n)
    BY DEF MessagesAccounted
  <2>1. Copies(accepted[v], n) = Copies(sentTo[v], n) + Copies(ChatMsgsOf(chatCache, v), n)
    BY DEF MessagesAccounted
  <2>2. CASE v = u
    <3>1. Copies((s \o w) \o <<>>, n) = Copies(s \o w, n) + Copies(<<>>, n)
      <4>1. <<>> \in Seq(Nat)
        OBVIOUS
      <4> QED BY <1>8, <4>1, CopiesJoin
    <3>2. Copies(s \o w, n) = Copies(s, n) + Copies(w, n)
      BY CopiesJoin
    <3>3. Copies(accepted[v], n) = Copies(s \o w, n)
      BY <1>6, <1>7, <2>1, <2>2, <3>2, Zenon
    <3>4. ChatMsgsOf(chatCache', v) = <<>>
      BY <1>5, <2>2
    <3>5. sentTo'[v] = s \o w
      BY <1>9, <2>2
    <3> QED BY <1>8, <3>1, <3>3, <3>4, <3>5, Zenon
  <2>3. CASE v # u
    BY <1>5, <1>9, <2>1, <2>3
  <2> QED BY <2>2, <2>3
<1> QED BY <1>5, <1>10, <1>11, <1>12, <1>13

\* Forward adds the same copies to what was taken for a user and to what was
\* written to the user, or, without a session, to what waits for the user.
LEMMA ForwardAdds ==
  ASSUME OfflineInv, NEW sender, NEW targets, NEW n \in Nat, Forward(sender, targets, n),
         FlattenSeq([i \in DOMAIN targets |-> Kept(Ascending, Recipients(sender, targets[i]))])
           \in Seq(Nat)
  PROVE  /\ chatCache' \in Seq(Entry)
         /\ sentTo' = [u \in Ids |-> sentTo'[u]] /\ accepted' = [u \in Ids |-> accepted'[u]]
         /\ \A u \in Ids : \E t \in Seq(Nat) :
              /\ accepted'[u] = accepted[u] \o t
              /\ SessionsOf(u) = {} => /\ sentTo'[u] = sentTo[u]
                                       /\ ChatMsgsOf(chatCache', u) = ChatMsgsOf(chatCache, u) \o t
              /\ SessionsOf(u) # {} => /\ sentTo'[u] = sentTo[u] \o t
                                       /\ ChatMsgsOf(chatCache', u) = ChatMsgsOf(chatCache, u)
<1> DEFINE F == FlattenSeq([i \in DOMAIN targets |-> Kept(Ascending, Recipients(sender, targets[i]))])
<1>1. PICK copies \in Seq(Nat) : copies = F
  OBVIOUS
<1>2. PICK K : K = {id \in Ids : GetSessionByID(id) = 0}
  OBVIOUS
<1>3. PICK off \in Seq(Nat) : off = Kept(copies, K)
  BY KeptIn
<1>4. /\ chatCache' = AddChatMsgCache(chatCache, off, n)
      /\ sentTo' = [id \in Ids |-> IF GetSessionByID(id) = 0 THEN sentTo[id]
                                   ELSE sentTo[id] \o Times(n, Len(Kept(copies, {id})))]
      /\ accepted' = [id \in Ids |-> accepted[id] \o Times(n, Len(Kept(copies, {id})))]
  BY <1>1, <1>2, <1>3 DEF Forward
<1>5. chatCache \in Seq(Entry)
  BY DEF OfflineInv, OfflineTypes
<1>6. chatCache' \in Seq(Entry)
  <2>1. 0 \in Nat
    OBVIOUS
  <2>2. AddChatMsgCache(chatCache, off, n) \in Seq(Entry)
    BY <1>5, <2>1, ChatMsgsAdded
  <2> QED BY <1>4, <2>2
<1>7. ASSUME NEW u \in Ids
      PROVE  \E t \in Seq(Nat) :
              /\ accepted'[u] = accepted[u] \o t
              /\ SessionsOf(u) = {} => /\ sentTo'[u] = sentTo[u]
                                       /\ ChatMsgsOf(chatCache', u) = ChatMsgsOf(chatCache, u) \o t
              /\ SessionsOf(u) # {} => /\ sentTo'[u] = sentTo[u] \o t
                                       /\ ChatMsgsOf(chatCache', u) = ChatMsgsOf(chatCache, u)
  <2>1. u \in Nat
    BY ChatFacts
  <2>2. PICK k \in Seq(Nat) : k = Kept(copies, {u})
    BY KeptIn
  <2>3. PICK m \in Nat : m = Len(k)
    BY LenProperties
  <2>4. PICK t \in Seq(Nat) : t = Times(n, m)
    BY TimesFacts
  <2>5. Kept(off, {u}) = IF u \in K THEN k ELSE <<>>
    BY <1>3, <2>2, KeptTwice
  <2>6. u \in K <=> SessionsOf(u) = {}
    BY <1>2, NoSession
  <2>7. ChatMsgsOf(AddChatMsgCache(chatCache, off, n), u)
          = ChatMsgsOf(chatCache, u) \o Times(n, Len(Kept(off, {u})))
    <3>1. PICK s \in Seq(Entry), v \in Nat : s = chatCache /\ v = u
      BY <1>5, <2>1
    <3>2. ChatMsgsOf(AddChatMsgCache(s, off, n), v)
            = ChatMsgsOf(s, v) \o Times(n, Len(Kept(off, {v})))
      <4>1. off \in Seq(Nat) /\ s \in Seq(Entry) /\ n \in Nat /\ v \in Nat
        OBVIOUS
      <4> QED BY <4>1, ChatMsgsAdded, ZenonT(60)
    <3> QED BY <3>1, <3>2
  <2>8. accepted'[u] = accepted[u] \o t
    BY <1>4, <2>2, <2>3, <2>4
  <2>9. CASE SessionsOf(u) = {}
    <3>1. sentTo'[u] = sentTo[u]
      BY <1>4, <2>9, NoSession
    <3>2. ChatMsgsOf(chatCache', u) = ChatMsgsOf(chatCache, u) \o t
      BY <1>4, <2>3, <2>4, <2>5, <2>6, <2>7, <2>9
    <3> QED BY <2>8, <2>9, <3>1, <3>2
  <2>10. CASE SessionsOf(u) # {}
    <3>1. sentTo'[u] = sentTo[u] \o t
      BY <1>4, <2>2, <2>3, <2>4, <2>10, NoSession
    <3>2. ChatMsgsOf(chatCache, u) \in Seq(Nat)
      BY <1>5, <2>1, QueueFacts
    <3>3. ChatMsgsOf(chatCache, u) \o <<>> = ChatMsgsOf(chatCache, u)
      BY <3>2, ConcatEmptySeq
    <3>4. Len(<<>>) = 0
      OBVIOUS
    <3>5. Times(n, 0) = <<>>
      BY DEF Times
    <3>6. Kept(off, {u}) = <<>>
      BY <2>5, <2>6, <2>10
    <3>7. ChatMsgsOf(chatCache', u) = ChatMsgsOf(chatCache, u)
      BY <1>4, <2>7, <3>3, <3>4, <3>5, <3>6, Zenon
    <3> QED BY <2>8, <2>10, <3>1, <3>7
  <2> QED BY <2>9, <2>10
<1>8. sentTo' = [u \in Ids |-> sentTo'[u]] /\ accepted' = [u \in Ids |-> accepted'[u]]
  BY <1>4
<1> QED BY <1>6, <1>7, <1>8

\* Chats to one and to two targets.
LEMMA ChatForwards ==
  ASSUME OfflineInv, NEW c, NEW q, NEW o, ChatNext(c, q, o)
  PROVE  /\ Receive(c, q) /\ UNCHANGED umVars /\ UNCHANGED <<misbound, loggedIn>>
         /\ nextMsg' = nextMsg + 1
         /\ chatCache' \in Seq(Entry)
         /\ sentTo' = [u \in Ids |-> sentTo'[u]] /\ accepted' = [u \in Ids |-> accepted'[u]]
         /\ \A u \in Ids : \E t \in Seq(Nat) :
              /\ accepted'[u] = accepted[u] \o t
              /\ SessionsOf(u) = {} => /\ sentTo'[u] = sentTo[u]
                                       /\ ChatMsgsOf(chatCache', u) = ChatMsgsOf(chatCache, u) \o t
              /\ SessionsOf(u) # {} => /\ sentTo'[u] = sentTo[u] \o t
                                       /\ ChatMsgsOf(chatCache', u) = ChatMsgsOf(chatCache, u)
<1> DEFINE F(s, targets) ==
             FlattenSeq([i \in DOMAIN targets |-> Kept(Ascending, Recipients(s, targets[i]))])
<1>1. \A s, t : Kept(Ascending, Recipients(s, t)) \in Seq(Nat)
  BY ChatFacts, KeptIn
<1>2. \A s, t : F(s, <<t>>) \in Seq(Nat)
  <2> SUFFICES ASSUME NEW s, NEW t PROVE F(s, <<t>>) \in Seq(Nat)
    OBVIOUS
  <2>1. PICK a \in Seq(Nat) : a = Kept(Ascending, Recipients(s, t))
    BY <1>1
  <2>2. [i \in DOMAIN <<t>> |-> Kept(Ascending, Recipients(s, <<t>>[i]))] = <<a>>
    BY <2>1
  <2>3. FlattenSeq(<<a>>) = a
    BY FlattenFew
  <2> QED BY <2>2, <2>3
<1>3. \A s, t, t2 : F(s, <<t, t2>>) \in Seq(Nat)
  <2> SUFFICES ASSUME NEW s, NEW t, NEW t2 PROVE F(s, <<t, t2>>) \in Seq(Nat)
    OBVIOUS
  <2>1. PICK a \in Seq(Nat) : a = Kept(Ascending, Recipients(s, t))
    BY <1>1
  <2>2. PICK b \in Seq(Nat) : b = Kept(Ascending, Recipients(s, t2))
    BY <1>1
  <2>3. [i \in DOMAIN <<t, t2>> |-> Kept(Ascending, Recipients(s, <<t, t2>>[i]))] = <<a, b>>
    BY <2>1, <2>2
  <2>4. FlattenSeq(<<a, b>>) = a \o b
    BY FlattenFew
  <2>5. a \o b \in Seq(Nat)
    BY ConcatProperties
  <2> QED BY <2>3, <2>4, <2>5
<1>4. PICK targets : F(sess[c].user, targets) \in Seq(Nat) /\ OnChat(c, q, targets, o)
  BY <1>2, <1>3 DEF ChatNext
<1> HIDE DEF F
<1>5. /\ Receive(c, q) /\ UNCHANGED umVars /\ UNCHANGED <<misbound, loggedIn>>
      /\ nextMsg' = nextMsg + 1 /\ Forward(sess[c].user, targets, nextMsg)
  BY <1>4 DEF OnChat, loginVars
<1>6. nextMsg \in Nat
  BY DEF OfflineInv, OfflineTypes
<1> QED BY <1>4, <1>5, <1>6, ForwardAdds DEF F

LEMMA ChatMessages ==
  ASSUME ServerInv, OfflineInv, NEW c \in Conns, NEW q \in Seqs, NEW o, ChatNext(c, q, o)
  PROVE  OfflineInv'
<1> USE DEF OfflineInv
<1>0. /\ chatCache \in Seq(Entry) /\ accepted \in [Ids -> Seq(Nat)]
      /\ sentTo \in [Ids -> Seq(Nat)] /\ nextMsg \in Nat
  BY DEF OfflineTypes
<1>1. /\ Receive(c, q) /\ UNCHANGED <<misbound, loggedIn>> /\ nextMsg' = nextMsg + 1
      /\ chatCache' \in Seq(Entry) /\ sentTo' = [u \in Ids |-> sentTo'[u]] /\ accepted' = [u \in Ids |-> accepted'[u]]
  BY ChatForwards
<1>2. LoginsBound' /\ \A u \in Ids : SessionsOf(u)' = SessionsOf(u)
  BY <1>1, SeqBindsNobody
<1>3. ASSUME NEW u \in Ids
      PROVE  /\ accepted'[u] \in Seq(Nat) /\ sentTo'[u] \in Seq(Nat)
             /\ SessionsOf(u) # {} => ChatMsgsOf(chatCache', u) = ChatMsgsOf(chatCache, u)
             /\ u \notin misbound => sentTo'[u] \o ChatMsgsOf(chatCache', u) = accepted'[u]
             /\ \A n \in 1..MaxMsgs : Copies(accepted'[u], n) =
                  Copies(sentTo'[u], n) + Copies(ChatMsgsOf(chatCache', u), n)
  <2>1. PICK t \in Seq(Nat) :
              /\ accepted'[u] = accepted[u] \o t
              /\ SessionsOf(u) = {} => /\ sentTo'[u] = sentTo[u]
                                       /\ ChatMsgsOf(chatCache', u) = ChatMsgsOf(chatCache, u) \o t
              /\ SessionsOf(u) # {} => /\ sentTo'[u] = sentTo[u] \o t
                                       /\ ChatMsgsOf(chatCache', u) = ChatMsgsOf(chatCache, u)
    BY ChatForwards
  <2>2. PICK a \in Seq(Nat), s \in Seq(Nat) : a = accepted[u] /\ s = sentTo[u]
    BY <1>0
  <2>3. PICK w \in Seq(Nat) : w = ChatMsgsOf(chatCache, u)
    BY <1>0, ChatFacts, QueueFacts
  <2>4. u \notin misbound => s \o w = a
    BY <2>2, <2>3 DEF OfflineOrder
  <2>5. \A n \in 1..MaxMsgs : Copies(a, n) = Copies(s, n) + Copies(w, n)
    BY <2>2, <2>3 DEF MessagesAccounted
  <2>6. a \o t \in Seq(Nat) /\ s \o t \in Seq(Nat)
    BY ConcatProperties
  <2>7. \A n : /\ Copies(a \o t, n) = Copies(a, n) + Copies(t, n)
               /\ Copies(s \o t, n) = Copies(s, n) + Copies(t, n)
               /\ Copies(w \o t, n) = Copies(w, n) + Copies(t, n)
    BY CopiesJoin
  <2>8. \A n : Copies(s, n) \in Nat /\ Copies(w, n) \in Nat /\ Copies(t, n) \in Nat
    BY CopiesAppend
  <2>9. CASE SessionsOf(u) = {}
    <3>1. sentTo'[u] = s /\ ChatMsgsOf(chatCache', u) = w \o t /\ accepted'[u] = a \o t
      BY <2>1, <2>2, <2>3, <2>9
    <3>2. (s \o w) \o t = s \o (w \o t)
      BY ConcatAssociative, SMTT(30)
    <3>3. u \notin misbound => s \o (w \o t) = a \o t
      BY <2>4, <3>2
    <3>4. ASSUME NEW n \in 1..MaxMsgs PROVE Copies(a \o t, n) = Copies(s, n) + Copies(w \o t, n)
      BY <2>5, <2>7, <2>8
    <3> QED BY <2>6, <2>9, <3>1, <3>3, <3>4
  <2>10. CASE SessionsOf(u) # {}
    <3>1. sentTo'[u] = s \o t /\ ChatMsgsOf(chatCache', u) = w /\ accepted'[u] = a \o t
      BY <2>1, <2>2, <2>3, <2>10
    <3>2. u \notin misbound => w = <<>>
      BY <2>3, <2>10 DEF OnlineDrained
    <3>3. s \o <<>> = s /\ (s \o t) \o <<>> = s \o t
      BY <2>6, ConcatEmptySeq
    <3>4. u \notin misbound => (s \o t) \o w = a \o t
      BY <2>4, <3>2, <3>3
    <3>5. ASSUME NEW n \in 1..MaxMsgs PROVE Copies(a \o t, n) = Copies(s \o t, n) + Copies(w, n)
      BY <2>5, <2>7, <2>8
    <3> QED BY <2>3, <2>6, <2>10, <3>1, <3>4, <3>5
  <2> QED BY <2>9, <2>10
<1>4. OfflineTypes'
  <2>1. nextMsg' \in Nat
    BY <1>0, <1>1
  <2>2. accepted' \in [Ids -> Seq(Nat)]
    BY <1>1, <1>3
  <2>3. sentTo' \in [Ids -> Seq(Nat)]
    BY <1>1, <1>3
  <2> QED BY <1>1, <2>1, <2>2, <2>3 DEF OfflineTypes
<1>5. OnlineDrained'
  BY <1>1, <1>2, <1>3 DEF OnlineDrained
<1>6. OfflineOrder'
  BY <1>1, <1>3 DEF OfflineOrder
<1>7. MessagesAccounted'
  BY <1>3 DEF MessagesAccounted
<1> QED BY <1>2, <1>4, <1>5, <1>6, <1>7

\* Every other handler and step leaves the messages alone.
LEMMA AccountLeaves ==
  ASSUME IndInv, NEW c, NEW q, NEW o, AccountNext(c, q, o)
  PROVE  Receive(c, q) /\ SessionOnly /\ up' = up
<1>u. UNCHANGED umVars => up' = up
  BY DEF umVars, vars
<1>1. ASSUME NEW name, NEW pw, NEW v, OnRegister(c, q, name, pw, v, o)
      PROVE  Receive(c, q) /\ SessionOnly /\ up' = up
  BY <1>1, <1>u, CacheGrows DEF OnRegister, SessionOnly
<1>2. ASSUME NEW f, OnAddFriend(c, q, f, o) PROVE Receive(c, q) /\ SessionOnly /\ up' = up
  BY <1>2, <1>u, CacheGrows DEF OnAddFriend
<1>3. ASSUME NEW f, OnDeleteFriend(c, q, f, o) PROVE Receive(c, q) /\ SessionOnly /\ up' = up
  BY <1>3, <1>u, CacheGrows DEF OnDeleteFriend
<1>4. ASSUME NEW f, NEW g, OnInvite(c, q, f, g, o)
      PROVE  Receive(c, q) /\ SessionOnly /\ up' = up
  BY <1>4, <1>u, CacheGrows DEF OnInvite
<1>5. ASSUME NEW name, NEW o2, OnCreateGroup(c, q, name, o, o2)
      PROVE  Receive(c, q) /\ SessionOnly /\ up' = up
  <2>1. CreateGroupWithOwner(sess[c].user, name, o2) => up' = up
    BY DEF CreateGroupWithOwner
  <2> QED BY <1>5, <2>1, CacheGrows DEF OnCreateGroup
<1>6. ASSUME NEW v, OnUpdateUserInfo(c, q, v, o) \/ OnAvatarUpload(c, q, v, o)
      PROVE  Receive(c, q) /\ SessionOnly /\ up' = up
  <2>1. CASE OnUpdateUserInfo(c, q, v, o)
    BY <2>1, CacheGrows DEF OnUpdateUserInfo
  <2>2. CASE OnAvatarUpload(c, q, v, o)
    BY <2>2 DEF OnAvatarUpload
  <2> QED BY <1>6, <2>1, <2>2
<1>7. ASSUME NEW old, NEW new, OnModifyPassword(c, q, old, new, o)
      PROVE  Receive(c, q) /\ SessionOnly /\ up' = up
  BY <1>7, <1>u, CacheGrows DEF OnModifyPassword
<1> QED BY <1>1, <1>2, <1>3, <1>4, <1>5, <1>6, <1>7 DEF AccountNext

\* The abstract queues: what the cache holds for each user.
Queues == [u \in Ids |-> ChatMsgsOf(chatCache, u)]

\* The steps that leave messages and queues alone and log nobody in.
Idle ==
  /\ OfflineInv' /\ up' = up /\ chatCache' = chatCache
  /\ \/ loggedIn' = loggedIn
     \/ up /\ \E c \in Conns : loggedIn' = [loggedIn EXCEPT ![c] = 0]

LEMMA RequestIdles ==
  ASSUME ServerInv, OfflineInv, NEW c \in Conns, NEW q \in Seqs, Receive(c, q),
         UNCHANGED chatVars, UNCHANGED <<misbound, loggedIn>>, up' = up
  PROVE  Idle
<1>1. OfflineInv'
  BY SeqBindsNobody, MessagesKept DEF OfflineInv
<1> QED BY <1>1 DEF Idle, chatVars

LEMMA ConnectionIdles ==
  ASSUME ServerInv, OfflineInv, NEW c \in Conns, OnConnection(c) \/ OnClose(c)
  PROVE  Idle
<1>1. UNCHANGED chatVars /\ UNCHANGED misbound /\ UNCHANGED umVars
  BY DEF OnConnection, OnClose, loginVars
<1>2. sess \in [Conns -> Session] /\ 0 \notin Ids
  BY ServerFacts DEF ServerInv
<1>3. \A d \in Conns : \/ sess'[d] = sess[d]
                        \/ sess'[d].user = 0
  BY <1>2 DEF OnConnection, OnClose, Closed
<1>4. \A u \in Ids : SessionsOf(u)' \subseteq SessionsOf(u)
  BY <1>2, <1>3 DEF SessionsOf
<1>5. \/ OnConnection(c) /\ UNCHANGED loggedIn
      \/ OnClose(c) /\ loggedIn' = [loggedIn EXCEPT ![c] = 0]
  BY DEF OnConnection, OnClose, loginVars
<1>6. LoginsBound'
  <2>1. LoginsBound
    BY DEF OfflineInv
  <2>2. CASE OnConnection(c) /\ UNCHANGED loggedIn
    <3>1. ~sess[c].open /\ \A d \in Conns \ {c} : sess'[d] = sess[d]
      BY <1>2, <2>2 DEF OnConnection
    <3>2. loggedIn[c] = 0
      BY <2>1, <3>1 DEF LoginsBound
    <3> QED BY <2>1, <2>2, <3>1, <3>2 DEF LoginsBound
  <2>3. CASE OnClose(c) /\ loggedIn' = [loggedIn EXCEPT ![c] = 0]
    <3>1. \A d \in Conns \ {c} : sess'[d] = sess[d] /\ loggedIn'[d] = loggedIn[d]
      BY <1>2, <2>1, <2>3 DEF OnClose, LoginsBound
    <3>2. loggedIn'[c] = 0 /\ loggedIn' \in [Conns -> Nat]
      BY <2>1, <2>3 DEF LoginsBound
    <3> QED BY <2>1, <3>1, <3>2 DEF LoginsBound
  <2> QED BY <1>5, <2>2, <2>3
<1>7. OfflineInv'
  BY <1>1, <1>4, <1>6, MessagesKept
<1>8. up
  BY DEF OnConnection, OnClose
<1> QED BY <1>1, <1>5, <1>7, <1>8 DEF Idle, umVars, vars, chatVars

\* A login drains the queue of its user, and a failed one drains nothing.
LEMMA LoginDrains ==
  ASSUME ServerInv, OfflineInv, NEW c \in Conns, NEW q \in Seqs, LoginNext(c, q)
  PROVE  \/ Idle
         \/ /\ OfflineInv' /\ up /\ up' = up
            /\ \E u \in Ids : /\ loggedIn' = [loggedIn EXCEPT ![c] = u]
                              /\ Queues' = [Queues EXCEPT ![u] = <<>>]
<1>l. loggedIn \in [Conns -> Nat] /\ LoginsBound
  BY DEF OfflineInv, LoginsBound
<1>u. UNCHANGED umVars => up' = up
  BY DEF umVars, vars
<1>1. ASSUME NEW name, OnLoginUnknown(c, q, name) PROVE Idle
  <2>1. Receive(c, q) /\ UNCHANGED chatVars /\ UNCHANGED <<misbound, loggedIn>> /\ up' = up
    BY <1>1, <1>u DEF OnLoginUnknown, loginVars
  <2> QED BY <2>1, RequestIdles
<1>2. ASSUME NEW name, NEW pw, OnLoginWrongPassword(c, q, name, pw) PROVE Idle
  <2>1. PICK u : u = GetUserInfoUsername(name)
    OBVIOUS
  <2>2. /\ sess' = [sess EXCEPT ![c].seq = q, ![c].user = u]
        /\ loggedIn' = [loggedIn EXCEPT ![c] = 0]
        /\ misbound' = misbound \cup {u} /\ UNCHANGED chatVars /\ up /\ up' = up
    BY <1>2, <1>u, <2>1 DEF OnLoginWrongPassword
  <2>3. sess \in [Conns -> Session]
    BY DEF ServerInv
  <2>4. \A d \in Conns : /\ sess'[d].open = sess[d].open
                         /\ sess'[d].user = IF d = c THEN u ELSE sess[d].user
    BY <2>2, <2>3 DEF Session
  <2>5. \A v \in Ids \ misbound' : SessionsOf(v)' \subseteq SessionsOf(v)
    BY <2>2, <2>4 DEF SessionsOf
  <2>6. LoginsBound'
    <3>1. /\ loggedIn' \in [Conns -> Nat] /\ loggedIn'[c] = 0
          /\ \A d \in Conns \ {c} : loggedIn'[d] = loggedIn[d]
      BY <1>l, <2>2
    <3> QED BY <1>l, <2>4, <3>1 DEF LoginsBound
  <2>7. OfflineInv'
    BY <2>2, <2>5, <2>6, MessagesKept
  <2> QED BY <2>2, <2>7 DEF Idle, chatVars
<1>3. ASSUME NEW name, NEW pw, OnLogin(c, q, name, pw)
      PROVE  /\ OfflineInv' /\ up /\ up' = up
             /\ \E u \in Ids : /\ loggedIn' = [loggedIn EXCEPT ![c] = u]
                               /\ Queues' = [Queues EXCEPT ![u] = <<>>]
  <2>1. PICK u : u = GetUserInfoUsername(name)
    OBVIOUS
  <2>2. /\ up /\ up' = up /\ u # 0
        /\ sess' = [sess EXCEPT ![c].seq = q, ![c].user = u]
        /\ sentTo' = [sentTo EXCEPT ![u] = @ \o ChatMsgsOf(chatCache, u)]
        /\ chatCache' = WithoutUser(chatCache, u) /\ sess[c].open
        /\ loggedIn' = [loggedIn EXCEPT ![c] = u]
        /\ UNCHANGED <<nextMsg, accepted, misbound>>
    BY <1>3, <1>u, <2>1 DEF OnLogin
  <2>3. u \in Ids
    BY <2>1, <2>2, ResolvesToCached DEF ServerInv, IndInv, TypeOK
  <2>b. LoginsBound'
    <3>1. sess \in [Conns -> Session] /\ u \in Nat
      BY <2>3, ChatFacts DEF ServerInv
    <3>2. /\ sess'[c].open = sess[c].open /\ sess'[c].user = u
          /\ \A d \in Conns \ {c} : sess'[d] = sess[d]
      BY <2>2, <3>1 DEF Session
    <3>3. /\ loggedIn' \in [Conns -> Nat] /\ loggedIn'[c] = u
          /\ \A d \in Conns \ {c} : loggedIn'[d] = loggedIn[d]
      BY <1>l, <2>2, <3>1
    <3> QED BY <1>l, <2>2, <3>2, <3>3 DEF LoginsBound
  <2>4. /\ OfflineInv'
        /\ \A v \in Ids : ChatMsgsOf(chatCache', v) =
                            IF v = u THEN <<>> ELSE ChatMsgsOf(chatCache, v)
    BY <2>2, <2>3, <2>b, LoginMessages
  <2>5. Queues' = [Queues EXCEPT ![u] = <<>>]
    BY <2>3, <2>4 DEF Queues
  <2> QED BY <2>2, <2>3, <2>4, <2>5
<1> QED BY <1>1, <1>2, <1>3 DEF LoginNext

\* A sequence is a prefix of what is joined behind it.
LEMMA JoinPrefix ==
  ASSUME NEW s \in Seq(Nat), NEW t \in Seq(Nat)
  PROVE  IsPrefix(s, s \o t) /\ IsPrefix(s, s)
<1>1. PICK k \in Nat : k = Len(s)
  BY LenProperties
<1>2. PICK j \in Seq(Nat) : j = s \o t
  BY ConcatProperties
<1>3. Len(j) \in Nat /\ k <= Len(j)
  BY <1>1, <1>2, ConcatProperties, LenProperties
<1>4. SubSeq(j, 1, k) = s
  BY <1>1, <1>2, SubSeqOfConcat1
<1>5. SubSeq(s, 1, k) = s
  BY <1>1, SubSeqFull
<1> QED BY <1>1, <1>2, <1>3, <1>4, <1>5 DEF IsPrefix

\* A chat makes queues longer, but not that of a user who is logged in.
LoggedIn(u) == \E d \in Conns : loggedIn[d] = u
LEMMA ChatEnqueues ==
  ASSUME ServerInv, OfflineInv, NEW c \in Conns, NEW q \in Seqs, NEW o, ChatNext(c, q, o)
  PROVE  /\ OfflineInv' /\ up /\ up' = up /\ loggedIn' = loggedIn
         /\ \A u \in Ids : IF LoggedIn(u) THEN Queues'[u] = Queues[u]
                           ELSE IsPrefix(Queues[u], Queues'[u])
<1>1. OfflineInv'
  BY ChatMessages
<1>2. up /\ up' = up /\ loggedIn' = loggedIn
  BY ChatForwards DEF Receive, umVars, vars
<1>4. ASSUME NEW u \in Ids, LoggedIn(u) PROVE Queues'[u] = Queues[u]
  <2>1. SessionsOf(u) # {}
    BY <1>4, ChatFacts DEF LoggedIn, SessionsOf, OfflineInv, LoginsBound
  <2>2. ChatMsgsOf(chatCache', u) = ChatMsgsOf(chatCache, u)
    BY <2>1, ChatForwards
  <2> QED BY <2>2 DEF Queues
<1>3. ASSUME NEW u \in Ids PROVE IsPrefix(Queues[u], Queues'[u])
  <2>1. Queues[u] = ChatMsgsOf(chatCache, u) /\ Queues'[u] = ChatMsgsOf(chatCache', u)
    BY DEF Queues
  <2>2. PICK w \in Seq(Nat) : w = ChatMsgsOf(chatCache, u)
    BY ChatFacts, QueueFacts DEF OfflineInv, OfflineTypes
  <2>3. PICK t \in Seq(Nat) : ChatMsgsOf(chatCache', u) \in {w \o t, w}
    <3>1. \E t \in Seq(Nat) :
            /\ SessionsOf(u) = {} => ChatMsgsOf(chatCache', u) = ChatMsgsOf(chatCache, u) \o t
            /\ SessionsOf(u) # {} => ChatMsgsOf(chatCache', u) = ChatMsgsOf(chatCache, u)
      BY ChatForwards
    <3> QED BY <2>2, <3>1
  <2> QED BY <2>1, <2>2, <2>3, JoinPrefix
<1> QED BY <1>1, <1>2, <1>3, <1>4

\* The end of the process loses everything.
LEMMA ExitLoses ==
  ASSUME OfflineInv, ProcessExit
  PROVE  /\ OfflineInv' /\ up /\ ~up' /\ Queues' = [u \in Ids |-> <<>>]
         /\ loggedIn' = [d \in Conns |-> 0]
<1>1. /\ chatCache' = <<>> /\ accepted' = [id \in Ids |-> <<>>]
      /\ sentTo' = [id \in Ids |-> <<>>] /\ nextMsg' = nextMsg /\ up /\ ~up'
      /\ loggedIn' = [d \in Conns |-> 0]
  BY DEF ProcessExit, Crash
<1>l. LoginsBound'
  BY <1>1 DEF LoginsBound
<1>2. nextMsg' \in Nat
  BY <1>1 DEF OfflineInv, OfflineTypes
<1>3. (/\ chatCache = <<>> /\ nextMsg \in Nat
       /\ accepted = [id \in Ids |-> <<>>] /\ sentTo = [id \in Ids |-> <<>>]
       /\ LoginsBound
       => OfflineInv)'
  BY NoMessages, PTL
<1>4. \A u \in Ids : ChatMsgsOf(chatCache', u) = <<>>
  BY <1>1, ChatFacts, QueueFacts
<1> QED BY <1>1, <1>l, <1>2, <1>3, <1>4 DEF Queues

\* Assistant calls touch no message.
LEMMA AgentIdles ==
  ASSUME ServerInv, OfflineInv, AgentNext, ~ProcessExit
  PROVE  Idle
<1>u. UNCHANGED umVars => up' = up
  BY DEF umVars, vars
<1>1. ASSUME NEW c \in Conns, NEW q \in Seqs, OnAgentChat(c, q) PROVE Idle
  <2>1. Receive(c, q) /\ UNCHANGED chatVars /\ UNCHANGED <<misbound, loggedIn>> /\ up' = up
    BY <1>1, <1>u DEF OnAgentChat, loginVars
  <2> QED BY <2>1, RequestIdles
<1>2. ASSUME NEW call, OnAgentAnswer(call) \/ OnAgentSend(call) \/ OnAgentDangling(call)
      PROVE  Idle
  <2>1. UNCHANGED chatVars /\ UNCHANGED <<misbound, loggedIn>> /\ UNCHANGED sess /\ up' = up
    BY <1>2, <1>u DEF OnAgentAnswer, OnAgentSend, OnAgentDangling, loginVars
  <2>2. \A u \in Ids : SessionsOf(u)' = SessionsOf(u)
    BY <2>1 DEF SessionsOf
  <2>3. OfflineInv'
    BY <2>1, <2>2, MessagesKept DEF OfflineInv, LoginsBound
  <2> QED BY <2>1, <2>3 DEF Idle, chatVars
<1> QED BY <1>1, <1>2 DEF AgentNext, OnAgentFault

\* Every step of the server is a step of the queues, or changes none.
QueueStep ==
  \/ Queues' = Queues /\ up' = up /\ loggedIn' = loggedIn
  \/ /\ up /\ up' = up /\ Queues' = Queues
     /\ \E c \in Conns : loggedIn' = [loggedIn EXCEPT ![c] = 0]
  \/ /\ up /\ up' = up /\ loggedIn' = loggedIn
     /\ \A u \in Ids : IF LoggedIn(u) THEN Queues'[u] = Queues[u]
                       ELSE IsPrefix(Queues[u], Queues'[u])
  \/ /\ up /\ up' = up
     /\ \E c \in Conns, u \in Ids : /\ loggedIn' = [loggedIn EXCEPT ![c] = u]
                                    /\ Queues' = [Queues EXCEPT ![u] = <<>>]
  \/ up /\ ~up' /\ Queues' = [u \in Ids |-> <<>>] /\ loggedIn' = [d \in Conns |-> 0]
  \/ ~up /\ up' = TRUE /\ Queues' = Queues /\ loggedIn' = loggedIn

LEMMA OfflineStep ==
  ASSUME ServerInv, OfflineInv, [SessionNext]_allVars
  PROVE  /\ OfflineInv'
         /\ QueueStep
<1>u. UNCHANGED umVars => up' = up
  BY DEF umVars, vars
<1>i. Idle => OfflineInv' /\ QueueStep
  BY DEF Idle, Queues, QueueStep
<1>x. ProcessExit => OfflineInv' /\ QueueStep
  BY ExitLoses DEF QueueStep
<1>1. ASSUME NEW c \in Conns, OnConnection(c) \/ OnClose(c) \/ OnUnboundRequest(c)
      PROVE  OfflineInv' /\ QueueStep
  BY <1>1, <1>i, <1>x, ConnectionIdles DEF OnUnboundRequest
<1>2. ASSUME NEW c \in Conns, NEW q \in Seqs, QueryNext(c, q) PROVE OfflineInv' /\ QueueStep
  <2>1. Receive(c, q) /\ UNCHANGED chatVars /\ UNCHANGED <<misbound, loggedIn>> /\ up' = up
    BY <1>2, <1>u DEF QueryNext, OnStatelessRequest, OnHeartbeatResponse, OnFindUserResponse,
         OnGetGroupMembersResponse, OnSendEmailCodeResponse, OnUserQuery, loginVars
  <2> QED BY <1>i, <2>1, RequestIdles
<1>3. ASSUME NEW c \in Conns, NEW q \in Seqs, LoginNext(c, q) PROVE OfflineInv' /\ QueueStep
  BY <1>3, <1>i, LoginDrains DEF QueueStep
<1>4. ASSUME NEW c \in Conns, NEW q \in Seqs, NEW o, AccountNext(c, q, o)
      PROVE  OfflineInv' /\ QueueStep
  <2>1. Receive(c, q) /\ SessionOnly /\ up' = up
    BY <1>4, AccountLeaves DEF ServerInv
  <2>2. Idle
    BY <2>1, RequestIdles DEF SessionOnly, loginVars
  <2> QED BY <1>i, <2>2
<1>5. ASSUME NEW c \in Conns, NEW q \in Seqs, NEW o, ChatNext(c, q, o)
      PROVE  OfflineInv' /\ QueueStep
  BY <1>5, ChatEnqueues DEF QueueStep
<1>6. ASSUME AgentNext PROVE OfflineInv' /\ QueueStep
  BY <1>6, <1>i, <1>x, AgentIdles
<1>7. ASSUME NEW unread, Restart(unread) PROVE OfflineInv' /\ QueueStep
  <2>1. UNCHANGED chatVars /\ UNCHANGED sess /\ UNCHANGED <<misbound, loggedIn>> /\ ~up /\ up' = TRUE
    BY <1>7 DEF Restart, Start, loginVars
  <2>2. \A u \in Ids : SessionsOf(u)' = SessionsOf(u)
    BY <2>1 DEF SessionsOf
  <2>3. OfflineInv'
    BY <2>1, <2>2, MessagesKept DEF OfflineInv, LoginsBound
  <2> QED BY <2>1, <2>3 DEF Queues, chatVars, QueueStep
<1>8. ASSUME UNCHANGED allVars PROVE OfflineInv' /\ QueueStep
  <2>1. UNCHANGED chatVars /\ UNCHANGED sess /\ UNCHANGED <<misbound, loggedIn>> /\ up' = up
    BY <1>8, <1>u DEF allVars, loginVars
  <2>2. \A u \in Ids : SessionsOf(u)' = SessionsOf(u)
    BY <2>1 DEF SessionsOf
  <2>3. OfflineInv'
    BY <2>1, <2>2, MessagesKept DEF OfflineInv, LoginsBound
  <2> QED BY <2>1, <2>3 DEF Queues, chatVars, QueueStep
<1> DEFINE Done == OfflineInv' /\ QueueStep
<1>9. \A c \in Conns : OnConnection(c) \/ OnClose(c) \/ OnUnboundRequest(c) => Done
  BY <1>1
<1>10. \A c \in Conns, q \in Seqs : QueryNext(c, q) \/ LoginNext(c, q) => Done
  BY <1>2, <1>3
<1>11. \A c \in Conns, q \in Seqs : \A o :
        AccountNext(c, q, o) \/ ChatNext(c, q, o) => Done
  BY <1>4, <1>5
<1>12. AgentNext \/ ProcessExit \/ UNCHANGED allVars => Done
  BY <1>x, <1>6, <1>8
<1>13. \A unread : Restart(unread) => Done
  BY <1>7
<1> HIDE DEF Done
<1>14. Done
  BY <1>9, <1>10, <1>11, <1>12, <1>13 DEF SessionNext
<1> QED BY <1>14 DEF Done

LEMMA OfflineInit == SessionInit => OfflineInv
<1> SUFFICES ASSUME SessionInit PROVE OfflineInv
  OBVIOUS
<1>1. /\ chatCache = <<>> /\ accepted = [id \in Ids |-> <<>>]
      /\ sentTo = [id \in Ids |-> <<>>] /\ nextMsg \in Nat
      /\ LoginsBound
  BY DEF SessionInit, LoginsBound
<1> QED BY <1>1, NoMessages

-----------------------------------------------------------------------------
(* The theorems *)

\* The invariant of the composed server holds for good.
THEOREM ServerInductive == SessionSpec => []ServerInv
  BY ServerInit, ServerNext, PTL DEF SessionSpec

\* The callback of an assistant call that can still reach its session finds an
\* account there, whatever logins, failed logins, closes and restarts came
\* between the request and the answer.
THEOREM AgentCallsAlwaysBound == SessionSpec => []AgentCallsBound
<1>1. ServerInv => AgentCallsBound
  BY DEF ServerInv
<1> QED BY <1>1, ServerInductive, PTL

\* Under the handlers of all sessions, what is cached is what is stored, up to
\* the UPDATEs that reported a failure.
THEOREM ServerCacheBacked == SessionSpec => []CacheBackedByRows
<1>1. ServerInv => CacheBackedByRows
  BY DEF ServerInv, IndInv
<1> QED BY <1>1, ServerInductive, PTL

\* Acknowledged friendships and group memberships are the same in memory and on
\* disk, group creation with its ignored second statement included.
THEOREM ServerFriendshipsDurable == SessionSpec => []AckedFriendshipsAgree
<1>1. ServerInv => AckedFriendshipsAgree
  BY DEF ServerInv, IndInv
<1> QED BY <1>1, ServerInductive, PTL

\* The invariant of the offline messages holds for good.
THEOREM OfflineInductive == SessionSpec => []OfflineInv
<1>1. ServerInv /\ OfflineInv /\ [SessionNext]_allVars => OfflineInv'
  BY OfflineStep
<1> QED BY <1>1, OfflineInit, ServerInductive, PTL DEF SessionSpec

\* Every copy of a chat message that was taken for a user was written to a session
\* of that user or waits in the offline cache, once, for any number of users,
\* sessions and messages.
THEOREM NothingLostOrDoubled == SessionSpec => []MessagesAccounted
<1>1. OfflineInv => MessagesAccounted
  BY DEF OfflineInv
<1> QED BY <1>1, OfflineInductive, PTL

\* A user on whom no login failed gets messages in the order they were taken,
\* those that waited included.
THEOREM OfflineInOrder == SessionSpec => []OfflineOrder
<1>1. OfflineInv => OfflineOrder
  BY DEF OfflineInv
<1> QED BY <1>1, OfflineInductive, PTL

\* The one list of the cache, under all handlers, implements one queue per user:
\* chats append while the user is logged in nowhere, the step that logs the user in
\* takes all, a close or a failed login takes nothing, and only the end of the
\* process loses.
THEOREM CacheIsQueue == SessionSpec => QueueRefined
<1>1. SessionInit => Offline!QInit
  <2> SUFFICES ASSUME SessionInit PROVE Offline!QInit
    OBVIOUS
  <2>1. chatCache = <<>> /\ up = FALSE /\ loggedIn = [c \in Conns |-> 0]
    BY DEF SessionInit
  <2>2. \A u \in Ids : ChatMsgsOf(chatCache, u) = <<>>
    BY <2>1, ChatFacts, QueueFacts
  <2> QED BY <2>1, <2>2 DEF Offline!QInit
<1>2. ServerInv /\ OfflineInv /\ [SessionNext]_allVars
        => [Offline!QNext]_<<[u \in Ids |-> ChatMsgsOf(chatCache, u)], loggedIn, up>>
  <2> SUFFICES ASSUME ServerInv, OfflineInv, [SessionNext]_allVars
               PROVE  [Offline!QNext]_<<Queues, loggedIn, up>>
    BY DEF Queues
  <2>1. CASE Queues' = Queues /\ up' = up /\ loggedIn' = loggedIn
    BY <2>1
  <2>2. CASE /\ up /\ up' = up /\ Queues' = Queues
             /\ \E c \in Conns : loggedIn' = [loggedIn EXCEPT ![c] = 0]
    <3>1. \E c \in Conns : Offline!Logout(c)
      BY <2>2 DEF Offline!Logout, Queues
    <3> QED BY <3>1 DEF Offline!QNext
  <2>3. CASE /\ up /\ up' = up /\ loggedIn' = loggedIn
             /\ \A u \in Ids : IF LoggedIn(u) THEN Queues'[u] = Queues[u]
                               ELSE IsPrefix(Queues[u], Queues'[u])
    <3>1. DOMAIN Queues' = Ids
      BY DEF Queues
    <3>2. \A s, t : IsPrefix(s, t) => Offline!IsPrefix(s, t)
      BY DEF IsPrefix, Offline!IsPrefix
    <3>3. \A u : Offline!Online(u) <=> LoggedIn(u)
      BY DEF Offline!Online, LoggedIn
    <3>4. Offline!Enqueue
      BY <2>3, <3>1, <3>2, <3>3 DEF Offline!Enqueue, Queues
    <3> QED BY <3>4 DEF Offline!QNext
  <2>4. CASE /\ up /\ up' = up
             /\ \E c \in Conns, u \in Ids : /\ loggedIn' = [loggedIn EXCEPT ![c] = u]
                                            /\ Queues' = [Queues EXCEPT ![u] = <<>>]
    <3>1. \E c \in Conns, u \in Ids : Offline!Login(c, u)
      BY <2>4 DEF Offline!Login, Queues
    <3> QED BY <3>1 DEF Offline!QNext
  <2>5. CASE up /\ ~up' /\ Queues' = [u \in Ids |-> <<>>] /\ loggedIn' = [d \in Conns |-> 0]
    <3>1. up' = FALSE
      BY <2>5, ServerNext DEF ServerInv, IndInv, TypeOK
    <3>2. Offline!LoseAll
      BY <2>5, <3>1 DEF Offline!LoseAll, Queues
    <3> QED BY <3>2 DEF Offline!QNext
  <2>6. CASE ~up /\ up' = TRUE /\ Queues' = Queues /\ loggedIn' = loggedIn
    <3>1. Offline!Begin
      BY <2>6 DEF Offline!Begin, Queues
    <3> QED BY <3>1 DEF Offline!QNext
  <2> QED BY <2>1, <2>2, <2>3, <2>4, <2>5, <2>6, OfflineStep DEF QueueStep
<1> QED BY <1>1, <1>2, OfflineInductive, ServerInductive, PTL
        DEF SessionSpec, QueueRefined, Offline!QSpec, Offline!qVars
=============================================================================
