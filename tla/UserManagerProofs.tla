------------------------- MODULE UserManagerProofs -------------------------
(***************************************************************************)
(* For every number of users and groups, every set of names, passwords and *)
(* profiles: the properties of UserManager that MCUserManager checks on a  *)
(* small instance.                                                         *)
(***************************************************************************)
EXTENDS UserManager, TLAPS

IndInv ==
  /\ TypeOK
  /\ IndexesAgree
  /\ NextIdIsFree
  /\ CacheBackedByRows
  /\ AckedRowsRegistered
  /\ AckedFriendshipsAgree

-----------------------------------------------------------------------------
(* Facts about the operators *)

\* User ids and group ids are naturals on the two sides of GroupBoundary.
LEMMA IdsFacts ==
  /\ Ids \subseteq Nat
  /\ \A id \in UserIds : id < GroupBoundary /\ id \in Ids
  /\ \A id \in GroupIds : id >= GroupBoundary /\ id \in Ids
  BY BoundsAssumption DEF Ids, UserIds, GroupIds

\* Pair orders two different ids, whichever comes first.
LEMMA PairFacts ==
  ASSUME NEW a \in Ids, NEW b \in Ids, a # b
  PROVE  /\ Pair(a, b) \in Pairs
         /\ Pair(a, b) = Pair(b, a)
         /\ \/ Pair(a, b) = <<a, b>> /\ a < b
            \/ Pair(a, b) = <<b, a>> /\ b < a
  BY IdsFacts DEF Pair, Pairs

\* Two pairs are equal exactly when they join the same two ids.
LEMMA PairEqual ==
  ASSUME NEW a \in Ids, NEW b \in Ids, NEW c \in Ids, NEW d \in Ids,
         Pair(a, b) = Pair(c, d)
  PROVE  (a = c /\ b = d) \/ (a = d /\ b = c)
  BY IdsFacts DEF Pair

\* Befriend changes friend sets only, and gives each end the other when both
\* are cached.
LEMMA BefriendFacts ==
  ASSUME NEW map, DOMAIN map \subseteq Ids, map \in [DOMAIN map -> User],
         NEW s \in Ids, NEW g \in Ids, s < g
  PROVE  /\ DOMAIN Befriend(map, s, g) = DOMAIN map
         /\ Befriend(map, s, g) \in [DOMAIN map -> User]
         /\ \A id \in DOMAIN map :
              /\ Befriend(map, s, g)[id].username = map[id].username
              /\ Befriend(map, s, g)[id].password = map[id].password
              /\ Befriend(map, s, g)[id].profile = map[id].profile
              /\ \A f \in Ids : Pair(id, f) # <<s, g>> =>
                   (f \in Befriend(map, s, g)[id].friends <=> f \in map[id].friends)
              /\ s \in DOMAIN map /\ g \in DOMAIN map =>
                   \A f \in Ids : Pair(id, f) = <<s, g>> =>
                      f \in Befriend(map, s, g)[id].friends
  <1>1. CASE s \notin DOMAIN map
    BY <1>1 DEF Befriend
  <1>2. CASE s \in DOMAIN map
    <2> DEFINE new(id) == IF id = s THEN {g} ELSE IF id = g THEN {s} ELSE {}
    <2> DEFINE B == Befriend(map, s, g)
    <2>1. B = [id \in DOMAIN map |-> [map[id] EXCEPT !.friends = @ \cup new(id)]]
      BY <1>2 DEF Befriend
    <2>2. ASSUME NEW id \in DOMAIN map
          PROVE  /\ B[id] \in User
                 /\ B[id].username = map[id].username
                 /\ B[id].password = map[id].password
                 /\ B[id].profile = map[id].profile
                 /\ B[id].friends = map[id].friends \cup new(id)
      <3>1. map[id] \in User
        OBVIOUS
      <3>2. new(id) \in SUBSET Ids
        OBVIOUS
      <3>3. B[id] = [map[id] EXCEPT !.friends = @ \cup new(id)]
        BY <2>1
      <3> HIDE DEF new, B
      <3>4. QED
        BY <3>1, <3>2, <3>3 DEF User
    <2>3. ASSUME NEW id \in DOMAIN map, NEW f \in Ids
          PROVE  f \in new(id) <=> Pair(id, f) = <<s, g>>
      BY <2>3, IdsFacts DEF Pair
    <2>4. DOMAIN B = DOMAIN map
      BY <2>1
    <2>5. B \in [DOMAIN map -> User]
      BY <2>1, <2>2
    <2> HIDE DEF new
    <2>6. QED
      BY <2>2, <2>3, <2>4, <2>5
  <1>3. QED
    BY <1>1, <1>2

\* Unfriend changes friend sets only, and takes each end from the other.
LEMMA UnfriendFacts ==
  ASSUME NEW map, DOMAIN map \subseteq Ids, map \in [DOMAIN map -> User],
         NEW a \in Ids, NEW b \in Ids, a # b
  PROVE  /\ DOMAIN Unfriend(map, a, b) = DOMAIN map
         /\ Unfriend(map, a, b) \in [DOMAIN map -> User]
         /\ \A id \in DOMAIN map :
              /\ Unfriend(map, a, b)[id].username = map[id].username
              /\ Unfriend(map, a, b)[id].password = map[id].password
              /\ Unfriend(map, a, b)[id].profile = map[id].profile
              /\ \A f \in Ids :
                   f \in Unfriend(map, a, b)[id].friends
                     <=> (f \in map[id].friends /\ Pair(id, f) # Pair(a, b))
  <1> DEFINE old(id) == IF id = a THEN {b} ELSE IF id = b THEN {a} ELSE {}
  <1> DEFINE U == Unfriend(map, a, b)
  <1>1. U = [id \in DOMAIN map |-> [map[id] EXCEPT !.friends = @ \ old(id)]]
    BY DEF Unfriend
  <1>2. ASSUME NEW id \in DOMAIN map
        PROVE  /\ U[id] \in User
               /\ U[id].username = map[id].username
               /\ U[id].password = map[id].password
               /\ U[id].profile = map[id].profile
               /\ U[id].friends = map[id].friends \ old(id)
    <2>1. map[id] \in User
      OBVIOUS
    <2>2. U[id] = [map[id] EXCEPT !.friends = @ \ old(id)]
      BY <1>1
    <2> HIDE DEF old, U
    <2>3. QED
      BY <2>1, <2>2 DEF User
  <1>3. ASSUME NEW id \in DOMAIN map, NEW f \in Ids
        PROVE  f \in old(id) <=> Pair(id, f) = Pair(a, b)
    BY <1>3, IdsFacts DEF Pair
  <1>4. DOMAIN U = DOMAIN map
    BY <1>1
  <1>5. U \in [DOMAIN map -> User]
    BY <1>1, <1>2
  <1> HIDE DEF old
  <1>6. QED
    BY <1>2, <1>3, <1>4, <1>5

-----------------------------------------------------------------------------
(* Each step preserves the inductive invariant *)

\* The empty tables and the empty cache satisfy the invariant.
LEMMA InitIndInv == Init => IndInv
  <1> SUFFICES ASSUME Init PROVE IndInv
    OBVIOUS
  <1> USE BoundsAssumption DEF Init
  <1>1. TypeOK
    BY DEF TypeOK, Row, User
  <1>2. IndexesAgree /\ NextIdIsFree /\ CacheBackedByRows
    BY DEF IndexesAgree, NextIdIsFree, CacheBackedByRows
  <1>3. AckedRowsRegistered /\ AckedFriendshipsAgree
    BY DEF AckedRowsRegistered, AckedFriendshipsAgree
  <1>4. QED
    BY <1>1, <1>2, <1>3 DEF IndInv

\* A new account under an id that the primary key still admits.
LEMMA NewEntryInv ==
  ASSUME IndInv, NEW id \in Ids, NEW name \in Names,
         NEW pw \in Passwords \cup {NoPassword}, NEW o \in Outcomes,
         NewEntry(id, name, pw, o), up, up' = up,
         UNCHANGED <<tRel, disputedRel, disputedRow>>,
         baseUserID' \in 0..MaxUserID, baseGroupID' \in GroupBoundary..MaxGroupID,
         baseUserID <= baseUserID', baseGroupID <= baseGroupID',
         id < GroupBoundary => id <= baseUserID',
         id >= GroupBoundary => id <= baseGroupID'
  PROVE  IndInv'
  <1> USE DEF IndInv
  <1>t. /\ NewRow(name, pw) \in Row
        /\ NewUser(name, pw) \in User
    BY DEF NewRow, NewUser, Row, User
  <1>1. CASE o = "rejected"
    <2>1. UNCHANGED <<tUser, cachedUsers, mapUsers>>
      BY <1>1 DEF NewEntry, Applied
    <2>2. TypeOK'
      BY <2>1 DEF TypeOK
    <2>3. NextIdIsFree'
      BY <2>1, BoundsAssumption, IdsFacts DEF NextIdIsFree, TypeOK
    <2>4. QED
      BY <2>1, <2>2, <2>3 DEF IndexesAgree, CacheBackedByRows, AckedRowsRegistered,
                              AckedFriendshipsAgree
  <1>2. CASE o # "rejected"
    <2>1. /\ id \notin DOMAIN tUser
          /\ tUser' = Put(tUser, id, NewRow(name, pw))
      BY <1>2 DEF NewEntry, Applied, Outcomes
    <2>2. id \notin DOMAIN mapUsers
      BY <2>1 DEF CacheBackedByRows
    <2>3. /\ DOMAIN tUser' = DOMAIN tUser \cup {id}
          /\ tUser'[id] = NewRow(name, pw)
          /\ \A x \in DOMAIN tUser : tUser'[x] = tUser[x]
      BY <2>1 DEF Put
    <2>4. tUser' \in [DOMAIN tUser' -> Row]
      BY <2>1, <2>3, <1>t DEF Put, TypeOK
    <2>5. NextIdIsFree'
      BY <2>3, BoundsAssumption, IdsFacts DEF NextIdIsFree, TypeOK
    <2>6. AckedRowsRegistered'
      BY <2>3 DEF AckedRowsRegistered
    <2>7. CASE o = "replyLost"
      <3>1. UNCHANGED <<cachedUsers, mapUsers>>
        BY <2>7 DEF NewEntry
      <3>2. TypeOK'
        BY <3>1, <2>3, <2>4 DEF TypeOK
      <3>3. CacheBackedByRows'
        BY <3>1, <2>3 DEF CacheBackedByRows
      <3>4. IndexesAgree' /\ AckedFriendshipsAgree'
        BY <3>1 DEF IndexesAgree, AckedFriendshipsAgree
      <3>5. QED
        BY <3>2, <3>3, <3>4, <2>5, <2>6
    <2>8. CASE o = "ok"
      <3>1. /\ cachedUsers' = Append(cachedUsers, id)
            /\ mapUsers' = Put(mapUsers, id, NewUser(name, pw))
        BY <2>8 DEF NewEntry
      <3>2. /\ DOMAIN mapUsers' = DOMAIN mapUsers \cup {id}
            /\ mapUsers'[id] = NewUser(name, pw)
            /\ \A x \in DOMAIN mapUsers : mapUsers'[x] = mapUsers[x]
        BY <3>1, <2>2 DEF Put
      <3>3. mapUsers' \in [DOMAIN mapUsers' -> User]
        BY <3>1, <3>2, <1>t DEF Put, TypeOK
      <3>4. cachedUsers \in Seq(Ids) /\ cachedUsers' \in Seq(Ids)
        BY <3>1 DEF TypeOK
      <3>5. TypeOK'
        BY <3>2, <3>3, <3>4, <2>3, <2>4 DEF TypeOK
      <3>6. IndexesAgree'
        <4>1. /\ DOMAIN cachedUsers' = 1..(Len(cachedUsers) + 1)
              /\ DOMAIN cachedUsers = 1..Len(cachedUsers)
              /\ Len(cachedUsers) \in Nat
              /\ cachedUsers'[Len(cachedUsers) + 1] = id
              /\ \A i \in 1..Len(cachedUsers) : cachedUsers'[i] = cachedUsers[i]
          BY <3>1, <3>4
        <4>2. \A i \in DOMAIN cachedUsers : cachedUsers[i] # id
          BY <2>2 DEF IndexesAgree
        <4>3. QED
          BY <4>1, <4>2, <3>2 DEF IndexesAgree
      <3>7. CacheBackedByRows'
        <4>1. /\ NewRow(name, pw).username = NewUser(name, pw).username
              /\ NewRow(name, pw).password = NewUser(name, pw).password
              /\ NewRow(name, pw).profile = DbDefault
              /\ NewUser(name, pw).profile = CacheDefault
          BY DEF NewRow, NewUser
        <4>2. QED
          BY <4>1, <3>2, <2>3 DEF CacheBackedByRows
      <3>8. AckedFriendshipsAgree'
        <4> SUFFICES ASSUME NEW u \in DOMAIN mapUsers', NEW f \in Ids,
                            u # f, Pair(u, f) \notin disputedRel
                     PROVE  f \in mapUsers'[u].friends <=> Pair(u, f) \in tRel
          BY DEF AckedFriendshipsAgree
        <4>1. CASE u # id
          BY <4>1, <3>2 DEF AckedFriendshipsAgree
        <4>2. CASE u = id
          <5>1. mapUsers'[u].friends = {}
            BY <4>2, <3>2 DEF NewUser
          <5>2. Pair(u, f) \notin tRel
            BY <4>2, <2>1, PairFacts DEF AckedRowsRegistered
          <5>3. QED
            BY <5>1, <5>2
        <4>3. QED
          BY <4>1, <4>2
      <3>9. QED
        BY <3>5, <3>6, <3>7, <3>8, <2>5, <2>6
    <2>9. QED
      BY <1>2, <2>7, <2>8 DEF Outcomes
  <1>3. QED
    BY <1>1, <1>2

\* Registration keeps the invariant whatever becomes of its INSERT.
LEMMA AddUserInv ==
  ASSUME IndInv, NEW name \in Names, NEW pw \in Passwords, NEW o \in Outcomes,
         AddUser(name, pw, o)
  PROVE  IndInv'
  <1>1. baseUserID + 1 \in Ids
    BY BoundsAssumption DEF IndInv, TypeOK, AddUser, Ids, UserIds
  <1>2. PICK id \in Ids : id = baseUserID + 1
    BY <1>1
  <1>3. /\ baseUserID' \in 0..MaxUserID /\ baseGroupID' \in GroupBoundary..MaxGroupID
        /\ baseUserID <= baseUserID' /\ baseGroupID <= baseGroupID'
    BY BoundsAssumption DEF IndInv, TypeOK, AddUser
  <1>4. /\ NewEntry(id, name, pw, o)
        /\ up /\ up' = up /\ baseUserID' = id
        /\ UNCHANGED <<tRel, disputedRel, disputedRow>>
    BY <1>2 DEF AddUser, disputeVars
  <1>5. /\ id < GroupBoundary => id <= baseUserID'
        /\ id >= GroupBoundary => id <= baseGroupID'
    BY <1>2, <1>3, <1>4, BoundsAssumption DEF IndInv, TypeOK, AddUser
  <1>6. QED
    BY <1>3, <1>4, <1>5, NewEntryInv

\* So does the creation of a group.
LEMMA AddGroupInv ==
  ASSUME IndInv, NEW name \in Names, NEW o \in Outcomes, AddGroup(name, o)
  PROVE  IndInv'
  <1>1. baseGroupID + 1 \in Ids
    BY BoundsAssumption DEF IndInv, TypeOK, AddGroup, Ids, GroupIds
  <1>2. PICK id \in Ids : id = baseGroupID + 1
    BY <1>1
  <1>3. /\ baseUserID' \in 0..MaxUserID /\ baseGroupID' \in GroupBoundary..MaxGroupID
        /\ baseUserID <= baseUserID' /\ baseGroupID <= baseGroupID'
    BY BoundsAssumption DEF IndInv, TypeOK, AddGroup
  <1>4. /\ NewEntry(id, name, NoPassword, o)
        /\ up /\ up' = up /\ baseGroupID' = id
        /\ UNCHANGED <<tRel, disputedRel, disputedRow>>
    BY <1>2 DEF AddGroup, disputeVars
  <1>5. /\ id < GroupBoundary => id <= baseUserID'
        /\ id >= GroupBoundary => id <= baseGroupID'
    BY <1>2, <1>3, <1>4, BoundsAssumption DEF IndInv, TypeOK, AddGroup
  <1>6. QED
    BY <1>3, <1>4, <1>5, NewEntryInv


\* A new friendship: acknowledged only when both ends are cached and changed.
LEMMA MakeFriendInv ==
  ASSUME IndInv, NEW s \in Ids, NEW g \in Ids, NEW o \in Outcomes,
         MakeFriendRelationship(s, g, o)
  PROVE  IndInv'
  <1> USE DEF IndInv
  <1> DEFINE p == <<s, g>>
  <1>1. s < g /\ p \in Pairs /\ Pair(s, g) = p
    BY IdsFacts DEF MakeFriendRelationship, Pairs, Pair
  <1>2. UNCHANGED <<up, tUser, cachedUsers, baseUserID, baseGroupID, disputedRow>>
    BY DEF MakeFriendRelationship, baseVars
  <1>3. tRel \subseteq tRel' /\ tRel' \subseteq tRel \cup {p}
    BY DEF MakeFriendRelationship
  <1>4. /\ disputedRel' \subseteq disputedRel \cup {p}
        /\ \A q : q # p => (q \in disputedRel' <=> q \in disputedRel)
    BY DEF MakeFriendRelationship
  <1>5. /\ DOMAIN mapUsers' = DOMAIN mapUsers
        /\ mapUsers' \in [DOMAIN mapUsers -> User]
        /\ \A id \in DOMAIN mapUsers :
             /\ mapUsers'[id].username = mapUsers[id].username
             /\ mapUsers'[id].password = mapUsers[id].password
             /\ mapUsers'[id].profile = mapUsers[id].profile
             /\ \A f \in Ids : Pair(id, f) # p =>
                  (f \in mapUsers'[id].friends <=> f \in mapUsers[id].friends)
    BY <1>1, BefriendFacts DEF MakeFriendRelationship, TypeOK
  <1>6. p \notin disputedRel' =>
          /\ s \in DOMAIN mapUsers /\ g \in DOMAIN mapUsers
          /\ p \in tRel'
          /\ \A id \in DOMAIN mapUsers, f \in Ids :
               Pair(id, f) = p => f \in mapUsers'[id].friends
    <2> SUFFICES ASSUME p \notin disputedRel'
                 PROVE  /\ s \in DOMAIN mapUsers /\ g \in DOMAIN mapUsers
                        /\ p \in tRel'
                        /\ \A id \in DOMAIN mapUsers, f \in Ids :
                             Pair(id, f) = p => f \in mapUsers'[id].friends
      OBVIOUS
    <2>1. o = "ok" /\ s \in DOMAIN mapUsers /\ g \in DOMAIN mapUsers
      BY DEF MakeFriendRelationship
    <2>2. tRel' = tRel \cup {p} /\ mapUsers' = Befriend(mapUsers, s, g)
      BY <2>1 DEF MakeFriendRelationship, Applied
    <2>3. QED
      BY <2>1, <2>2, <1>1, BefriendFacts DEF TypeOK
  <1> HIDE DEF p
  <1>7. TypeOK'
    BY <1>1, <1>2, <1>3, <1>4, <1>5 DEF TypeOK
  <1>8. IndexesAgree' /\ NextIdIsFree'
    BY <1>2, <1>5 DEF IndexesAgree, NextIdIsFree
  <1>9. CacheBackedByRows'
    BY <1>2, <1>5 DEF CacheBackedByRows
  <1>10. AckedRowsRegistered'
    <2>1. s \in DOMAIN mapUsers /\ g \in DOMAIN mapUsers =>
            p[1] \in DOMAIN tUser /\ p[2] \in DOMAIN tUser
      BY DEF p, CacheBackedByRows
    <2>2. QED
      BY <2>1, <1>2, <1>3, <1>4, <1>6 DEF AckedRowsRegistered
  <1>11. AckedFriendshipsAgree'
    <2> SUFFICES ASSUME NEW id \in DOMAIN mapUsers, NEW f \in Ids,
                        id # f, Pair(id, f) \notin disputedRel'
                 PROVE  f \in mapUsers'[id].friends <=> Pair(id, f) \in tRel'
      BY <1>5 DEF AckedFriendshipsAgree
    <2>1. CASE Pair(id, f) = p
      BY <2>1, <1>6
    <2>2. CASE Pair(id, f) # p
      BY <2>2, <1>3, <1>4, <1>5 DEF AckedFriendshipsAgree
    <2>3. QED
      BY <2>1, <2>2
  <1>12. QED
    BY <1>7, <1>8, <1>9, <1>10, <1>11

\* An ended friendship leaves both caches and the table together.
LEMMA DeleteFriendInv ==
  ASSUME IndInv, NEW a \in Ids, NEW b \in Ids, NEW o \in Outcomes,
         DeleteFriendToUser(a, b, o)
  PROVE  IndInv'
  <1> USE DEF IndInv
  <1>1. a # b /\ Pair(a, b) \in Pairs
    BY PairFacts DEF DeleteFriendToUser
  <1>2. UNCHANGED <<up, tUser, cachedUsers, baseUserID, baseGroupID, disputedRow>>
    BY DEF DeleteFriendToUser, baseVars
  <1>3. tRel' \subseteq tRel /\ tRel \subseteq tRel' \cup {Pair(a, b)}
    BY DEF DeleteFriendToUser
  <1>4. /\ disputedRel' \subseteq disputedRel \cup {Pair(a, b)}
        /\ \A q : q # Pair(a, b) => (q \in disputedRel' <=> q \in disputedRel)
    BY DEF DeleteFriendToUser
  <1>5. /\ DOMAIN mapUsers' = DOMAIN mapUsers
        /\ mapUsers' \in [DOMAIN mapUsers -> User]
        /\ \A id \in DOMAIN mapUsers :
             /\ mapUsers'[id].username = mapUsers[id].username
             /\ mapUsers'[id].password = mapUsers[id].password
             /\ mapUsers'[id].profile = mapUsers[id].profile
             /\ \A f \in Ids : Pair(id, f) # Pair(a, b) =>
                  (f \in mapUsers'[id].friends <=> f \in mapUsers[id].friends)
    BY <1>1, UnfriendFacts DEF DeleteFriendToUser, TypeOK
  <1>6. Pair(a, b) \notin disputedRel' =>
          /\ Pair(a, b) \notin tRel'
          /\ \A id \in DOMAIN mapUsers, f \in Ids :
               Pair(id, f) = Pair(a, b) => f \notin mapUsers'[id].friends
    BY <1>1, UnfriendFacts DEF DeleteFriendToUser, Applied, TypeOK
  <1>7. TypeOK'
    BY <1>1, <1>2, <1>3, <1>4, <1>5 DEF TypeOK
  <1>8. IndexesAgree' /\ NextIdIsFree'
    BY <1>2, <1>5 DEF IndexesAgree, NextIdIsFree
  <1>9. CacheBackedByRows'
    BY <1>2, <1>5 DEF CacheBackedByRows
  <1>10. AckedRowsRegistered'
    BY <1>2, <1>3, <1>4, <1>6 DEF AckedRowsRegistered
  <1>11. AckedFriendshipsAgree'
    <2> SUFFICES ASSUME NEW id \in DOMAIN mapUsers, NEW f \in Ids,
                        id # f, Pair(id, f) \notin disputedRel'
                 PROVE  f \in mapUsers'[id].friends <=> Pair(id, f) \in tRel'
      BY <1>5 DEF AckedFriendshipsAgree
    <2>1. CASE Pair(id, f) = Pair(a, b)
      BY <2>1, <1>6
    <2>2. CASE Pair(id, f) # Pair(a, b)
      BY <2>2, <1>3, <1>4, <1>5 DEF AckedFriendshipsAgree
    <2>3. QED
      BY <2>1, <2>2
  <1>12. QED
    BY <1>7, <1>8, <1>9, <1>10, <1>11


\* A profile update reaches the row before it reaches the cache.
LEMMA UpdateUserInfoInv ==
  ASSUME IndInv, NEW k \in Ids, NEW v \in Profiles, NEW o \in Outcomes,
         UpdateUserInfo(k, v, o)
  PROVE  IndInv'
  <1> USE DEF IndInv
  <1>1. /\ UNCHANGED <<up, tRel, cachedUsers, baseUserID, baseGroupID, disputedRel>>
        /\ k \in DOMAIN mapUsers /\ k \in DOMAIN tUser
    BY DEF UpdateUserInfo, baseVars, CacheBackedByRows
  <1>2. /\ DOMAIN tUser' = DOMAIN tUser
        /\ tUser' \in [DOMAIN tUser -> Row]
        /\ \A id \in DOMAIN tUser :
             /\ tUser'[id].username = tUser[id].username
             /\ tUser'[id].password = tUser[id].password
             /\ id # k => tUser'[id] = tUser[id]
             /\ id = k /\ o = "ok" => tUser'[id].profile = v
    <2>1. CASE o = "rejected"
      BY <2>1 DEF UpdateUserInfo, Applied, TypeOK
    <2>2. CASE o # "rejected"
      <3>1. tUser' = [tUser EXCEPT ![k].profile = v]
        BY <2>2, <1>1 DEF UpdateUserInfo, Applied, Outcomes
      <3>2. tUser \in [DOMAIN tUser -> Row]
        BY DEF TypeOK
      <3>3. QED
        BY <3>1, <3>2, <1>1 DEF Row
    <2>3. QED
      BY <2>1, <2>2
  <1>3. /\ DOMAIN mapUsers' = DOMAIN mapUsers
        /\ mapUsers' \in [DOMAIN mapUsers -> User]
        /\ \A id \in DOMAIN mapUsers :
             /\ mapUsers'[id].username = mapUsers[id].username
             /\ mapUsers'[id].friends = mapUsers[id].friends
             /\ mapUsers'[id].password = mapUsers[id].password
             /\ id # k => mapUsers'[id] = mapUsers[id]
             /\ id = k /\ o = "ok" => mapUsers'[id].profile = v
    <2>1. CASE o # "ok"
      BY <2>1 DEF UpdateUserInfo, TypeOK
    <2>2. CASE o = "ok"
      <3>1. mapUsers' = [mapUsers EXCEPT ![k].profile = v]
        BY <2>2 DEF UpdateUserInfo
      <3>2. mapUsers \in [DOMAIN mapUsers -> User]
        BY DEF TypeOK
      <3>3. QED
        BY <3>1, <3>2, <1>1 DEF User
    <2>3. QED
      BY <2>1, <2>2
  <1>4. /\ disputedRow' \subseteq Ids /\ disputedRow \subseteq disputedRow'
        /\ o # "ok" => k \in disputedRow'
    BY DEF UpdateUserInfo, TypeOK
  <1>5. TypeOK'
    BY <1>1, <1>2, <1>3, <1>4 DEF TypeOK
  <1>6. IndexesAgree' /\ NextIdIsFree' /\ AckedRowsRegistered'
    BY <1>1, <1>2, <1>3 DEF IndexesAgree, NextIdIsFree, AckedRowsRegistered
  <1>7. AckedFriendshipsAgree'
    BY <1>1, <1>3 DEF AckedFriendshipsAgree
  <1>8. CacheBackedByRows'
    <2> SUFFICES ASSUME NEW id \in DOMAIN mapUsers
                 PROVE  /\ id \in DOMAIN tUser'
                        /\ tUser'[id].username = mapUsers'[id].username
                        /\ id \notin disputedRow' =>
                             /\ tUser'[id].password = mapUsers'[id].password
                             /\ \/ tUser'[id].profile = mapUsers'[id].profile
                                \/ /\ tUser'[id].profile = DbDefault
                                   /\ mapUsers'[id].profile = CacheDefault
      BY <1>3 DEF CacheBackedByRows
    <2>1. CASE id = k
      BY <2>1, <1>1, <1>2, <1>3, <1>4 DEF CacheBackedByRows
    <2>2. CASE id # k
      BY <2>2, <1>2, <1>3, <1>4 DEF CacheBackedByRows
    <2>3. QED
      BY <2>1, <2>2
  <1>9. QED
    BY <1>5, <1>6, <1>7, <1>8

\* So does a change of password.
LEMMA ModifyUserPasswordInv ==
  ASSUME IndInv, NEW k \in Ids, NEW v \in Passwords, NEW o \in Outcomes,
         ModifyUserPassword(k, v, o)
  PROVE  IndInv'
  <1> USE DEF IndInv
  <1>1. /\ UNCHANGED <<up, tRel, cachedUsers, baseUserID, baseGroupID, disputedRel>>
        /\ k \in DOMAIN mapUsers /\ k \in DOMAIN tUser
    BY DEF ModifyUserPassword, baseVars, CacheBackedByRows
  <1>2. /\ DOMAIN tUser' = DOMAIN tUser
        /\ tUser' \in [DOMAIN tUser -> Row]
        /\ \A id \in DOMAIN tUser :
             /\ tUser'[id].username = tUser[id].username
             /\ tUser'[id].profile = tUser[id].profile
             /\ id # k => tUser'[id] = tUser[id]
             /\ id = k /\ o = "ok" => tUser'[id].password = v
    <2>1. CASE o = "rejected"
      BY <2>1 DEF ModifyUserPassword, Applied, TypeOK
    <2>2. CASE o # "rejected"
      <3>1. tUser' = [tUser EXCEPT ![k].password = v]
        BY <2>2, <1>1 DEF ModifyUserPassword, Applied, Outcomes
      <3>2. tUser \in [DOMAIN tUser -> Row]
        BY DEF TypeOK
      <3>3. QED
        BY <3>1, <3>2, <1>1 DEF Row
    <2>3. QED
      BY <2>1, <2>2
  <1>3. /\ DOMAIN mapUsers' = DOMAIN mapUsers
        /\ mapUsers' \in [DOMAIN mapUsers -> User]
        /\ \A id \in DOMAIN mapUsers :
             /\ mapUsers'[id].username = mapUsers[id].username
             /\ mapUsers'[id].friends = mapUsers[id].friends
             /\ mapUsers'[id].profile = mapUsers[id].profile
             /\ id # k => mapUsers'[id] = mapUsers[id]
             /\ id = k /\ o = "ok" => mapUsers'[id].password = v
    <2>1. CASE o # "ok"
      BY <2>1 DEF ModifyUserPassword, TypeOK
    <2>2. CASE o = "ok"
      <3>1. mapUsers' = [mapUsers EXCEPT ![k].password = v]
        BY <2>2 DEF ModifyUserPassword
      <3>2. mapUsers \in [DOMAIN mapUsers -> User]
        BY DEF TypeOK
      <3>3. QED
        BY <3>1, <3>2, <1>1 DEF User
    <2>3. QED
      BY <2>1, <2>2
  <1>4. /\ disputedRow' \subseteq Ids /\ disputedRow \subseteq disputedRow'
        /\ o # "ok" => k \in disputedRow'
    BY DEF ModifyUserPassword, TypeOK
  <1>5. TypeOK'
    BY <1>1, <1>2, <1>3, <1>4 DEF TypeOK
  <1>6. IndexesAgree' /\ NextIdIsFree' /\ AckedRowsRegistered'
    BY <1>1, <1>2, <1>3 DEF IndexesAgree, NextIdIsFree, AckedRowsRegistered
  <1>7. AckedFriendshipsAgree'
    BY <1>1, <1>3 DEF AckedFriendshipsAgree
  <1>8. CacheBackedByRows'
    <2> SUFFICES ASSUME NEW id \in DOMAIN mapUsers
                 PROVE  /\ id \in DOMAIN tUser'
                        /\ tUser'[id].username = mapUsers'[id].username
                        /\ id \notin disputedRow' =>
                             /\ tUser'[id].password = mapUsers'[id].password
                             /\ \/ tUser'[id].profile = mapUsers'[id].profile
                                \/ /\ tUser'[id].profile = DbDefault
                                   /\ mapUsers'[id].profile = CacheDefault
      BY <1>3 DEF CacheBackedByRows
    <2>1. CASE id = k
      BY <2>1, <1>1, <1>2, <1>3, <1>4 DEF CacheBackedByRows
    <2>2. CASE id # k
      BY <2>2, <1>2, <1>3, <1>4 DEF CacheBackedByRows
    <2>3. QED
      BY <2>1, <2>2
  <1>9. QED
    BY <1>5, <1>6, <1>7, <1>8

\* A crash leaves an empty cache, about which everything holds.
LEMMA CrashInv == IndInv /\ Crash => IndInv'
  <1> SUFFICES ASSUME IndInv, Crash PROVE IndInv'
    OBVIOUS
  <1> USE BoundsAssumption DEF IndInv, Crash, dbVars, disputeVars
  <1>0. mapUsers' \in [{} -> User] /\ DOMAIN mapUsers' = {}
    OBVIOUS
  <1>1. TypeOK'
    <2>1. UNCHANGED <<tUser, tRel, disputedRel, disputedRow>>
      OBVIOUS
    <2>2. up' = FALSE /\ cachedUsers' = <<>> /\ baseUserID' = 0 /\ baseGroupID' = GroupBoundary
      OBVIOUS
    <2>3. <<>> \in Seq(Ids)
      OBVIOUS
    <2>4. up' \in BOOLEAN
      BY <2>2, Zenon
    <2>5. baseUserID' \in 0..MaxUserID /\ baseGroupID' \in GroupBoundary..MaxGroupID
      BY <2>2
    <2> HIDE DEF Crash
    <2>6. QED
      BY <1>0, <2>1, <2>2, <2>3, <2>4, <2>5, Zenon DEF TypeOK
  <1>2. IndexesAgree' /\ NextIdIsFree' /\ CacheBackedByRows' /\ AckedFriendshipsAgree'
    BY DEF IndexesAgree, NextIdIsFree, CacheBackedByRows, AckedFriendshipsAgree
  <1>3. AckedRowsRegistered'
    BY DEF AckedRowsRegistered
  <1>4. QED
    BY <1>1, <1>2, <1>3

\* Start-up rebuilds the cache and the id bases from the tables.
LEMMA StartInv ==
  ASSUME IndInv, NEW unread \in SUBSET DOMAIN tUser, Start(unread)
  PROVE  IndInv'
  <1> USE DEF IndInv
  <1>1. /\ UNCHANGED <<tUser, tRel>> /\ up' = TRUE /\ disputedRow' = {}
        /\ disputedRel' = disputedRel \cup {p \in tRel : p[1] \in unread \/ p[2] \in unread}
    BY DEF Start, dbVars
  <1>2. /\ cachedUsers' \in Seq(Ids)
        /\ {cachedUsers'[i] : i \in DOMAIN cachedUsers'} = DOMAIN tUser
        /\ \A i, j \in DOMAIN cachedUsers' : i < j => cachedUsers'[j] < cachedUsers'[i]
        /\ DOMAIN cachedUsers' \subseteq Nat
    <2>1. cachedUsers' \in DescendingOrders(DOMAIN tUser)
      BY DEF Start, LoadUserFromDB
    <2>2. PICK n \in Nat : cachedUsers' \in [1..n -> DOMAIN tUser]
      BY <2>1, BoundsAssumption DEF DescendingOrders
    <2>3. cachedUsers' \in Seq(Ids)
      BY <2>2 DEF TypeOK
    <2>4. QED
      BY <2>1, <2>2, <2>3 DEF DescendingOrders
  <1>3. /\ DOMAIN mapUsers' = DOMAIN tUser
        /\ \A id \in DOMAIN tUser :
             mapUsers'[id] = [username |-> tUser[id].username,
                              password |-> tUser[id].password,
                              profile  |-> tUser[id].profile,
                              friends  |-> IF id \in unread THEN {}
                                           ELSE RelationsOf(tRel, id)]
        /\ mapUsers' \in [DOMAIN tUser -> User]
    <2>1. \A id \in DOMAIN tUser : tUser[id] \in Row
      BY DEF TypeOK
    <2>2. \A id \in Ids : RelationsOf(tRel, id) \subseteq Ids
      BY DEF RelationsOf
    <2>3. mapUsers' = [id \in DOMAIN tUser |->
                         [username |-> tUser[id].username,
                          password |-> tUser[id].password,
                          profile  |-> tUser[id].profile,
                          friends  |-> IF id \in unread THEN {}
                                       ELSE RelationsOf(tRel, id)]]
      BY DEF Start, LoadUserFromDB
    <2>4. QED
      BY <2>1, <2>2, <2>3 DEF Row, User, TypeOK
  <1>4. /\ baseUserID' \in 0..MaxUserID
        /\ \A id \in DOMAIN tUser : id < GroupBoundary => id <= baseUserID'
    BY BoundsAssumption DEF Start, LoadUserFromDB, Maxima, TypeOK, Ids, UserIds, GroupIds
  <1>5. /\ baseGroupID' \in GroupBoundary..MaxGroupID
        /\ \A id \in DOMAIN tUser : id >= GroupBoundary => id <= baseGroupID'
    BY BoundsAssumption DEF Start, LoadUserFromDB, Maxima, TypeOK, Ids, UserIds, GroupIds
  <1>6. TypeOK'
    BY <1>1, <1>2, <1>3, <1>4, <1>5 DEF TypeOK
  <1>7. IndexesAgree'
    <2>1. \A i \in DOMAIN cachedUsers' : cachedUsers'[i] \in Nat
      BY <1>2, IdsFacts DEF TypeOK
    <2>2. QED
      BY <1>2, <1>3, <2>1 DEF IndexesAgree
  <1>8. NextIdIsFree'
    BY <1>1, <1>4, <1>5 DEF NextIdIsFree
  <1>9. CacheBackedByRows'
    BY <1>1, <1>3 DEF CacheBackedByRows
  <1>10. AckedRowsRegistered'
    BY <1>1 DEF AckedRowsRegistered
  <1>11. AckedFriendshipsAgree'
    <2> SUFFICES ASSUME NEW id \in DOMAIN tUser, NEW f \in Ids,
                        id # f, Pair(id, f) \notin disputedRel'
                 PROVE  f \in mapUsers'[id].friends <=> Pair(id, f) \in tRel
      BY <1>1, <1>3 DEF AckedFriendshipsAgree
    <2>0. id \in Ids
      BY DEF TypeOK
    <2>1. CASE id \in unread
      <3>1. Pair(id, f) \notin tRel
        BY <2>1, <2>0, <1>1, PairFacts
      <3>2. QED
        BY <3>1, <2>1, <1>3
    <2>2. CASE id \notin unread
      BY <2>2, <1>3 DEF RelationsOf
    <2>3. QED
      BY <2>1, <2>2
  <1>12. QED
    BY <1>6, <1>7, <1>8, <1>9, <1>10, <1>11

-----------------------------------------------------------------------------
(* The theorems *)

\* The invariant holds initially and every operation, crash and restart keeps it.
THEOREM Inductive == Spec => []IndInv
  <1>1. Init => IndInv
    BY InitIndInv
  <1>2. IndInv /\ [Next]_vars => IndInv'
    <2> SUFFICES ASSUME IndInv, [Next]_vars PROVE IndInv'
      OBVIOUS
    <2>1. ASSUME NEW name \in Names, NEW pw \in Passwords, NEW o \in Outcomes,
                 AddUser(name, pw, o)
          PROVE  IndInv'
      BY <2>1, AddUserInv
    <2>2. ASSUME NEW name \in Names, NEW o \in Outcomes, AddGroup(name, o)
          PROVE  IndInv'
      BY <2>2, AddGroupInv
    <2>3. ASSUME NEW a \in Ids, NEW b \in Ids, NEW o \in Outcomes,
                 MakeFriendRelationship(a, b, o)
          PROVE  IndInv'
      BY <2>3, MakeFriendInv
    <2>4. ASSUME NEW a \in Ids, NEW b \in Ids, NEW o \in Outcomes,
                 DeleteFriendToUser(a, b, o)
          PROVE  IndInv'
      BY <2>4, DeleteFriendInv
    <2>5. ASSUME NEW id \in Editors, NEW profile \in Profiles, NEW o \in Outcomes,
                 UpdateUserInfo(id, profile, o)
          PROVE  IndInv'
      BY <2>5, EditorsAssumption, UpdateUserInfoInv
    <2>6. ASSUME NEW id \in Editors, NEW pw \in Passwords, NEW o \in Outcomes,
                 ModifyUserPassword(id, pw, o)
          PROVE  IndInv'
      BY <2>6, EditorsAssumption, ModifyUserPasswordInv
    <2>7. CASE Crash
      BY <2>7, CrashInv
    <2>8. ASSUME NEW unread \in SUBSET DOMAIN tUser, Start(unread)
          PROVE  IndInv'
      BY <2>8, StartInv
    <2>9. CASE UNCHANGED vars
      BY <2>9 DEF vars, IndInv, TypeOK, IndexesAgree, NextIdIsFree,
                  CacheBackedByRows, AckedRowsRegistered, AckedFriendshipsAgree
    <2>10. QED
      BY <2>1, <2>2, <2>3, <2>4, <2>5, <2>6, <2>7, <2>8, <2>9 DEF Next
  <1>3. QED
    BY <1>1, <1>2, PTL DEF Spec

\* Types of the tables, the cache and the id bases, for every bound.
THEOREM TypeCorrect == Spec => []TypeOK
  <1>1. IndInv => TypeOK
    BY DEF IndInv
  <1>2. QED
    BY <1>1, Inductive, PTL

\* The two indexes of the cache hold the same accounts, each once.
THEOREM IndexesAlwaysAgree == Spec => []IndexesAgree
  <1>1. IndInv => IndexesAgree
    BY DEF IndInv
  <1>2. QED
    BY <1>1, Inductive, PTL

\* No registration and no group creation ever meets the primary key.
THEOREM IdsAlwaysFree == Spec => []NextIdIsFree
  <1>1. IndInv => NextIdIsFree
    BY DEF IndInv
  <1>2. QED
    BY <1>1, Inductive, PTL

\* What is cached is what is stored, up to the UPDATEs that reported a failure.
THEOREM CacheAlwaysBacked == Spec => []CacheBackedByRows
  <1>1. IndInv => CacheBackedByRows
    BY DEF IndInv
  <1>2. QED
    BY <1>1, Inductive, PTL

\* A row whose change was acknowledged joins two registered accounts.
THEOREM AckedRowsAlwaysRegistered == Spec => []AckedRowsRegistered
  <1>1. IndInv => AckedRowsRegistered
    BY DEF IndInv
  <1>2. QED
    BY <1>1, Inductive, PTL

\* Acknowledged friendships are the same in memory and on disk.
THEOREM AckedFriendshipsDurable == Spec => []AckedFriendshipsAgree
  <1>1. IndInv => AckedFriendshipsAgree
    BY DEF IndInv
  <1>2. QED
    BY <1>1, Inductive, PTL

-----------------------------------------------------------------------------
(* Name resolution *)

\* A list that grows at its end, over entries that keep their names, resolves a
\* name it already resolved to the same entry.
Grown(list, map, list2, map2, m, n) ==
  /\ m \in Nat /\ n \in Nat /\ m <= n
  /\ DOMAIN list = 1..m /\ DOMAIN list2 = 1..n
  /\ \A i \in 1..m : /\ list2[i] = list[i]
                     /\ map2[list[i]].username = map[list[i]].username

LEMMA FirstWithNameStable ==
  ASSUME NEW list, NEW map, NEW list2, NEW map2, NEW m, NEW n, NEW name,
         Grown(list, map, list2, map2, m, n),
         FirstsWithName(list, map, name) # {}
  PROVE  FirstWithName(list2, map2, name) = FirstWithName(list, map, name)
  <1> DEFINE F == FirstsWithName(list, map, name)
             G == FirstsWithName(list2, map2, name)
  <1>1. PICK i \in F : TRUE
    OBVIOUS
  <1>2. i \in 1..m /\ i \in G
    BY <1>1 DEF FirstsWithName, Grown
  <1>3. \A j \in F : j = i
    BY <1>1 DEF FirstsWithName, Grown
  <1>4. \A j \in G : j = i
    BY <1>2 DEF FirstsWithName, Grown
  <1> HIDE DEF F, G
  <1>5. (CHOOSE j \in F : TRUE) = i /\ (CHOOSE j \in G : TRUE) = i
    BY <1>1, <1>2, <1>3, <1>4
  <1>6. /\ FirstWithName(list, map, name) = list[i]
        /\ FirstWithName(list2, map2, name) = list2[i]
    BY <1>1, <1>2, <1>5 DEF FirstWithName, F, G
  <1>7. QED
    BY <1>2, <1>6 DEF Grown

\* Between start-up and crash the list only grows at its end and no account
\* changes its name.
LEMMA ListGrows ==
  ASSUME IndInv, Next, up, up'
  PROVE  Grown(cachedUsers, mapUsers, cachedUsers', mapUsers',
               Len(cachedUsers), Len(cachedUsers'))
  <1> DEFINE Goal == Grown(cachedUsers, mapUsers, cachedUsers', mapUsers',
                           Len(cachedUsers), Len(cachedUsers'))
  <1>1. /\ cachedUsers \in Seq(Ids)
        /\ \A i \in 1..Len(cachedUsers) : cachedUsers[i] \in DOMAIN mapUsers
        /\ DOMAIN mapUsers \subseteq Ids /\ mapUsers \in [DOMAIN mapUsers -> User]
        /\ DOMAIN mapUsers \subseteq DOMAIN tUser
    BY DEF IndInv, TypeOK, IndexesAgree, CacheBackedByRows
  <1>2. ASSUME UNCHANGED cachedUsers,
               \A id \in DOMAIN mapUsers : mapUsers'[id].username = mapUsers[id].username
        PROVE  Goal
    BY <1>1, <1>2 DEF Grown
  <1>3. ASSUME NEW id, NEW name, NEW pw, NEW o \in Outcomes, NewEntry(id, name, pw, o)
        PROVE  Goal
    <2>1. CASE o = "ok"
      <3>1. id \notin DOMAIN mapUsers
        BY <1>1, <1>3, <2>1 DEF NewEntry
      <3>2. /\ cachedUsers' = Append(cachedUsers, id)
            /\ \A x \in DOMAIN mapUsers : mapUsers'[x] = mapUsers[x]
        BY <1>3, <2>1, <3>1 DEF NewEntry, Put
      <3>3. QED
        BY <3>2, <1>1 DEF Grown
    <2>2. CASE o # "ok"
      BY <1>2, <1>3, <2>2 DEF NewEntry
    <2>3. QED
      BY <2>1, <2>2
  <1> HIDE DEF Goal
  <1>4. ASSUME NEW name \in Names, NEW pw \in Passwords, NEW o \in Outcomes,
               AddUser(name, pw, o)
        PROVE  Goal
    <2>1. PICK id : id = baseUserID + 1
      OBVIOUS
    <2>2. NewEntry(id, name, pw, o)
      BY <1>4, <2>1 DEF AddUser
    <2>3. QED
      BY <2>2, <1>3
  <1>5. ASSUME NEW name \in Names, NEW o \in Outcomes, AddGroup(name, o)
        PROVE  Goal
    <2>1. PICK id : id = baseGroupID + 1
      OBVIOUS
    <2>2. NewEntry(id, name, NoPassword, o)
      BY <1>5, <2>1 DEF AddGroup
    <2>3. QED
      BY <2>2, <1>3
  <1>6. ASSUME NEW a \in Ids, NEW b \in Ids, NEW o \in Outcomes,
               MakeFriendRelationship(a, b, o)
        PROVE  Goal
    BY <1>1, <1>2, <1>6, BefriendFacts DEF MakeFriendRelationship
  <1>7. ASSUME NEW a \in Ids, NEW b \in Ids, NEW o \in Outcomes,
               DeleteFriendToUser(a, b, o)
        PROVE  Goal
    BY <1>1, <1>2, <1>7, UnfriendFacts DEF DeleteFriendToUser
  <1>8. ASSUME NEW k \in Editors, NEW v \in Profiles, NEW o \in Outcomes,
               UpdateUserInfo(k, v, o)
        PROVE  Goal
    <2>1. \A id \in DOMAIN mapUsers : mapUsers'[id].username = mapUsers[id].username
      BY <1>1, <1>8 DEF UpdateUserInfo, User
    <2>2. QED
      BY <2>1, <1>2, <1>8 DEF UpdateUserInfo
  <1>9. ASSUME NEW k \in Editors, NEW v \in Passwords, NEW o \in Outcomes,
               ModifyUserPassword(k, v, o)
        PROVE  Goal
    <2>1. \A id \in DOMAIN mapUsers : mapUsers'[id].username = mapUsers[id].username
      BY <1>1, <1>9 DEF ModifyUserPassword, User
    <2>2. QED
      BY <2>1, <1>2, <1>9 DEF ModifyUserPassword
  <1>10. ~Crash /\ \A unread \in SUBSET DOMAIN tUser : ~Start(unread)
    BY DEF Crash, Start
  <1>11. QED
    BY <1>4, <1>5, <1>6, <1>7, <1>8, <1>9, <1>10 DEF Next, Goal

\* Registering never shadows the account a name already resolves to.
THEOREM NamesStable == Spec => NameResolutionStable
  <1>1. ASSUME IndInv, [Next]_vars
        PROVE  [up /\ up' => \A name \in Names :
                  GetUserInfoUsername(name) # 0 =>
                    GetUserInfoUsername(name)' = GetUserInfoUsername(name)]_vars
    <2> SUFFICES ASSUME Next, up, up', NEW name \in Names, GetUserInfoUsername(name) # 0
                 PROVE  GetUserInfoUsername(name)' = GetUserInfoUsername(name)
      BY <1>1
    <2>1. FirstsWithName(cachedUsers, mapUsers, name) # {}
      BY DEF GetUserInfoUsername, FirstWithName
    <2>2. FirstWithName(cachedUsers', mapUsers', name)
            = FirstWithName(cachedUsers, mapUsers, name)
      <3>1. PICK L, L2, M, M2, m, n :
              /\ L = cachedUsers /\ L2 = cachedUsers' /\ M = mapUsers /\ M2 = mapUsers'
              /\ m = Len(cachedUsers) /\ n = Len(cachedUsers')
        OBVIOUS
      <3>2. Grown(L, M, L2, M2, m, n) /\ FirstsWithName(L, M, name) # {}
        BY <1>1, <2>1, <3>1, ListGrows
      <3>3. FirstWithName(L2, M2, name) = FirstWithName(L, M, name)
        BY <3>2, FirstWithNameStable
      <3>4. QED
        BY <3>1, <3>3
    <2>3. QED
      BY <2>2 DEF GetUserInfoUsername
  <1>2. QED
    BY <1>1, Inductive, PTL DEF Spec, NameResolutionStable

=============================================================================
