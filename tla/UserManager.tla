---------------------------- MODULE UserManager ----------------------------
(***************************************************************************)
(* UserManager: the in-memory directory of accounts and friendships that   *)
(* IMServer keeps in front of MySQL (UserManager.cpp, UserManager.h).       *)
(*                                                                         *)
(* Accounts are users (ids below GroupBoundary) and groups (ids above it), *)
(* both rows of t_user.  Every operation runs one SQL statement and, only  *)
(* when the client library reports success, changes the cache.  A          *)
(* statement has three outcomes (MySQLTool::Execute):                      *)
(*   ok         applied, and reported as applied                           *)
(*   rejected   not applied, reported as an error                          *)
(*   replyLost  applied by the server, reported as an error because the    *)
(*              connection was lost before the answer (error 2013), or     *)
(*              because the process died between the statement and the     *)
(*              change of the cache (then a Crash step follows)            *)
(* ownerid and status are left out: no code reads ownerid, and status      *)
(* belongs to the sessions.  profile stands for every column that          *)
(* UpdateUserInfo writes.                                                  *)
(***************************************************************************)
EXTENDS Integers, Sequences

CONSTANTS
  Names,          \* user and group names
  Passwords,      \* passwords a client may send
  NoPassword,     \* the '' AddGroup stores
  Profiles,       \* profiles a client may send
  DbDefault,      \* profile of a fresh row: the column defaults of t_user
  CacheDefault,   \* profile of a fresh cache entry: another birthday
  GroupBoundary,  \* GROUPID_BOUNDARY, 0xFFFFFFF
  MaxUserID,      \* bound on m_baseUserID
  MaxGroupID,     \* bound on m_baseGroupID
  Editors         \* bound: the accounts that edit their profile or password

ASSUME BoundsAssumption ==
  /\ GroupBoundary \in Nat /\ MaxUserID \in Nat /\ MaxGroupID \in Nat
  /\ 0 < MaxUserID /\ MaxUserID < GroupBoundary
  /\ GroupBoundary <= MaxGroupID

VARIABLES
  up,            \* the server process is running
  tUser,         \* table t_user: id -> row
  tRel,          \* table t_user_relationship: set of <<small, great>>
  cachedUsers,   \* m_cachedUsers: ids in list order
  mapUsers,      \* m_mapUsers: id -> cached User object
  baseUserID,    \* m_baseUserID
  baseGroupID,   \* m_baseGroupID
  disputedRel,   \* history: pairs whose last change was answered with failure,
                 \*   or whose rows could not be read at start-up
  disputedRow    \* history: accounts with a failed UPDATE since start-up

dbVars == <<tUser, tRel>>
cacheVars == <<cachedUsers, mapUsers>>
baseVars == <<baseUserID, baseGroupID>>
disputeVars == <<disputedRel, disputedRow>>
vars == <<up, tUser, tRel, cachedUsers, mapUsers, baseUserID, baseGroupID,
          disputedRel, disputedRow>>

-----------------------------------------------------------------------------
(* Data *)

UserIds == 1..MaxUserID
GroupIds == (GroupBoundary + 1)..MaxGroupID
Ids == UserIds \cup GroupIds

Row == [username : Names, password : Passwords \cup {NoPassword},
        profile : Profiles \cup {DbDefault, CacheDefault}]
User == [username : Names, password : Passwords \cup {NoPassword},
         profile : Profiles \cup {DbDefault, CacheDefault},
         friends : SUBSET Ids]

Pairs == {p \in Ids \X Ids : p[1] < p[2]}
Pair(a, b) == IF a < b THEN <<a, b>> ELSE <<b, a>>

Outcomes == {"ok", "rejected", "replyLost"}
Applied(o) == o \in {"ok", "replyLost"}

\* The function f with k added to its domain (or overwritten) as v.
Put(f, k, v) == [x \in DOMAIN f \cup {k} |-> IF x = k THEN v ELSE f[x]]

NewRow(name, pw) ==
  [username |-> name, password |-> pw, profile |-> DbDefault]
NewUser(name, pw) ==
  [username |-> name, password |-> pw, profile |-> CacheDefault, friends |-> {}]

\* GetUserInfoUsername: the first entry of the list with that name, else 0.
FirstsWithName(list, map, name) ==
  {i \in DOMAIN list :
     /\ map[list[i]].username = name
     /\ \A j \in 1..(i - 1) : map[list[j]].username # name}

FirstWithName(list, map, name) ==
  LET firsts == FirstsWithName(list, map, name)
  IN IF firsts = {} THEN 0 ELSE list[CHOOSE i \in firsts : TRUE]

GetUserInfoUsername(name) == FirstWithName(cachedUsers, mapUsers, name)

\* GetFriendInfoByUserID: the friends that have a cache entry themselves.
GetFriendInfoByUserID(id) ==
  IF id \in DOMAIN mapUsers
  THEN mapUsers[id].friends \cap DOMAIN mapUsers
  ELSE {}

\* The cache part of MakeFriendRelationship: nothing without the small id,
\* one direction only without the great one.
Befriend(map, small, great) ==
  IF small \notin DOMAIN map THEN map
  ELSE [id \in DOMAIN map |->
          [map[id] EXCEPT !.friends =
             @ \cup (IF id = small THEN {great}
                     ELSE IF id = great THEN {small} ELSE {})]]

\* The cache part of DeleteFriendToUser and ReleaseFriendRelationship.
Unfriend(map, a, b) ==
  [id \in DOMAIN map |->
     [map[id] EXCEPT !.friends =
        @ \ (IF id = a THEN {b} ELSE IF id = b THEN {a} ELSE {})]]

\* LoadRelationshipFromDB: the other ends of the rows that name the user.
RelationsOf(rel, id) == {f \in Ids : Pair(id, f) \in rel}

\* The list after SELECT ... ORDER BY f_user_id DESC.
DescendingOrders(S) ==
  {s \in UNION {[1..n -> S] : n \in 0..(MaxUserID + MaxGroupID - GroupBoundary)} :
     /\ {s[i] : i \in DOMAIN s} = S
     /\ \A i, j \in DOMAIN s : i < j => s[j] < s[i]}

Maxima(S) == {b \in S : \A x \in S : x <= b}

ASSUME EditorsAssumption == Editors \subseteq Ids

-----------------------------------------------------------------------------
(* Operations.  o is the outcome of the operation's statement. *)

\* Faulty: the new account is not entered in m_mapUsers.
NewEntryListOnly(id, name, pw, o) ==
  /\ id \in DOMAIN tUser => o = "rejected"
  /\ tUser' = IF Applied(o) THEN Put(tUser, id, NewRow(name, pw)) ELSE tUser
  /\ cachedUsers' = IF o = "ok" THEN Append(cachedUsers, id) ELSE cachedUsers
  /\ mapUsers' = mapUsers

\* Faulty: push_front in place of push_back.
NewEntryInFront(id, name, pw, o) ==
  /\ id \in DOMAIN tUser => o = "rejected"
  /\ tUser' = IF Applied(o) THEN Put(tUser, id, NewRow(name, pw)) ELSE tUser
  /\ cachedUsers' = IF o = "ok" THEN <<id>> \o cachedUsers ELSE cachedUsers
  /\ mapUsers' = IF o = "ok" THEN Put(mapUsers, id, NewUser(name, pw)) ELSE mapUsers

NewEntry(id, name, pw, o) ==
  /\ id \in DOMAIN tUser => o = "rejected"        \* PRIMARY KEY (f_user_id)
  /\ tUser' = IF Applied(o) THEN Put(tUser, id, NewRow(name, pw)) ELSE tUser
  /\ cachedUsers' = IF o = "ok" THEN Append(cachedUsers, id) ELSE cachedUsers
  /\ mapUsers' = IF o = "ok" THEN Put(mapUsers, id, NewUser(name, pw)) ELSE mapUsers

\* Faulty: the id is given back when the INSERT reports an error.
AddUserIdReused(name, pw, o) ==
  /\ up
  /\ baseUserID < MaxUserID
  /\ baseUserID' = IF o = "ok" THEN baseUserID + 1 ELSE baseUserID
  /\ NewEntry(baseUserID + 1, name, pw, o)
  /\ UNCHANGED <<up, tRel, baseGroupID, disputeVars>>

AddUser(name, pw, o) ==
  /\ up
  /\ baseUserID < MaxUserID
  /\ baseUserID' = baseUserID + 1
  /\ NewEntry(baseUserID + 1, name, pw, o)
  /\ UNCHANGED <<up, tRel, baseGroupID, disputeVars>>

AddGroup(name, o) ==
  /\ up
  /\ baseGroupID < MaxGroupID
  /\ baseGroupID' = baseGroupID + 1
  /\ NewEntry(baseGroupID + 1, name, NoPassword, o)
  /\ UNCHANGED <<up, tRel, baseUserID, disputeVars>>

\* Faulty: success although the greater id has no account.
MakeFriendRelationshipUnchecked(small, great, o) ==
  /\ up
  /\ small < great
  /\ tRel' = IF Applied(o) THEN tRel \cup {<<small, great>>} ELSE tRel
  /\ mapUsers' = IF o = "ok" THEN Befriend(mapUsers, small, great) ELSE mapUsers
  /\ disputedRel' = IF o = "ok" /\ small \in DOMAIN mapUsers
                    THEN disputedRel \ {<<small, great>>}
                    ELSE disputedRel \cup {<<small, great>>}
  /\ UNCHANGED <<up, tUser, cachedUsers, baseVars, disputedRow>>

\* small >= great returns before the statement and changes nothing.
MakeFriendRelationship(small, great, o) ==
  /\ up
  /\ small < great
  /\ tRel' = IF Applied(o) THEN tRel \cup {<<small, great>>} ELSE tRel
  /\ mapUsers' = IF o = "ok" THEN Befriend(mapUsers, small, great) ELSE mapUsers
  /\ disputedRel' = IF o = "ok" /\ small \in DOMAIN mapUsers /\ great \in DOMAIN mapUsers
                    THEN disputedRel \ {<<small, great>>}
                    ELSE disputedRel \cup {<<small, great>>}
  /\ UNCHANGED <<up, tUser, cachedUsers, baseVars, disputedRow>>

DeleteFriendToUser(userid, friendid, o) ==
  /\ up
  /\ userid # friendid
  /\ tRel' = IF Applied(o) THEN tRel \ {Pair(userid, friendid)} ELSE tRel
  /\ mapUsers' = IF o = "ok" THEN Unfriend(mapUsers, userid, friendid) ELSE mapUsers
  /\ disputedRel' = IF o = "ok" THEN disputedRel \ {Pair(userid, friendid)}
                    ELSE disputedRel \cup {Pair(userid, friendid)}
  /\ UNCHANGED <<up, tUser, cachedUsers, baseVars, disputedRow>>

\* The callers pass the id of a User object they hold, so it is cached.
UpdateUserInfo(id, profile, o) ==
  /\ up
  /\ id \in DOMAIN mapUsers
  /\ tUser' = IF Applied(o) /\ id \in DOMAIN tUser
              THEN [tUser EXCEPT ![id].profile = profile] ELSE tUser
  /\ mapUsers' = IF o = "ok" THEN [mapUsers EXCEPT ![id].profile = profile] ELSE mapUsers
  /\ disputedRow' = IF o = "ok" THEN disputedRow ELSE disputedRow \cup {id}
  /\ UNCHANGED <<up, tRel, cachedUsers, baseVars, disputedRel>>

\* Faulty: the cached password is left as it was.
ModifyUserPasswordRowOnly(id, pw, o) ==
  /\ up
  /\ id \in DOMAIN mapUsers
  /\ tUser' = IF Applied(o) /\ id \in DOMAIN tUser
              THEN [tUser EXCEPT ![id].password = pw] ELSE tUser
  /\ disputedRow' = IF o = "ok" THEN disputedRow ELSE disputedRow \cup {id}
  /\ UNCHANGED <<up, tRel, cachedUsers, mapUsers, baseVars, disputedRel>>

ModifyUserPassword(id, pw, o) ==
  /\ up
  /\ id \in DOMAIN mapUsers
  /\ tUser' = IF Applied(o) /\ id \in DOMAIN tUser
              THEN [tUser EXCEPT ![id].password = pw] ELSE tUser
  /\ mapUsers' = IF o = "ok" THEN [mapUsers EXCEPT ![id].password = pw] ELSE mapUsers
  /\ disputedRow' = IF o = "ok" THEN disputedRow ELSE disputedRow \cup {id}
  /\ UNCHANGED <<up, tRel, cachedUsers, baseVars, disputedRel>>

\* The process ends: memory is gone, the tables stay.
Crash ==
  /\ up
  /\ up' = FALSE
  /\ cachedUsers' = <<>>
  /\ mapUsers' = [id \in {} |-> {}]
  /\ baseUserID' = 0
  /\ baseGroupID' = GroupBoundary
  /\ UNCHANGED <<dbVars, disputeVars>>

LoadUserFromDB(unread) ==
  /\ cachedUsers' \in DescendingOrders(DOMAIN tUser)
  /\ mapUsers' = [id \in DOMAIN tUser |->
                    [username |-> tUser[id].username,
                     password |-> tUser[id].password,
                     profile  |-> tUser[id].profile,
                     friends  |-> IF id \in unread THEN {} ELSE RelationsOf(tRel, id)]]
  /\ baseUserID' \in Maxima({0} \cup {id \in DOMAIN tUser : id < GroupBoundary})
  /\ baseGroupID' \in Maxima({GroupBoundary} \cup {id \in DOMAIN tUser : id >= GroupBoundary})

\* init: the SELECT of a relationship may fail (unread), which is printed and
\* leaves that account without friends.  A failed SELECT of the users makes
\* main return: the server stays down.
Start(unread) ==
  /\ ~up
  /\ up' = TRUE
  /\ LoadUserFromDB(unread)
  /\ disputedRel' = disputedRel \cup {p \in tRel : p[1] \in unread \/ p[2] \in unread}
  /\ disputedRow' = {}
  /\ UNCHANGED dbVars

-----------------------------------------------------------------------------

Init ==
  /\ up = TRUE
  /\ tUser = [id \in {} |-> {}]
  /\ tRel = {}
  /\ cachedUsers = <<>>
  /\ mapUsers = [id \in {} |-> {}]
  /\ baseUserID = 0
  /\ baseGroupID = GroupBoundary
  /\ disputedRel = {}
  /\ disputedRow = {}

Next ==
  \/ \E name \in Names, pw \in Passwords, o \in Outcomes : AddUser(name, pw, o)
  \/ \E name \in Names, o \in Outcomes : AddGroup(name, o)
  \/ \E a, b \in Ids, o \in Outcomes : MakeFriendRelationship(a, b, o)
  \/ \E a, b \in Ids, o \in Outcomes : DeleteFriendToUser(a, b, o)
  \/ \E id \in Editors, profile \in Profiles, o \in Outcomes : UpdateUserInfo(id, profile, o)
  \/ \E id \in Editors, pw \in Passwords, o \in Outcomes : ModifyUserPassword(id, pw, o)
  \/ Crash
  \/ \E unread \in SUBSET DOMAIN tUser : Start(unread)

Spec == Init /\ [][Next]_vars

-----------------------------------------------------------------------------
(* Properties *)

\* Type invariant of the tables, the cache, the id bases and the histories.
TypeOK ==
  /\ up \in BOOLEAN
  /\ DOMAIN tUser \subseteq Ids
  /\ tUser \in [DOMAIN tUser -> Row]
  /\ tRel \subseteq Pairs
  /\ cachedUsers \in Seq(Ids)
  /\ DOMAIN mapUsers \subseteq Ids
  /\ mapUsers \in [DOMAIN mapUsers -> User]
  /\ baseUserID \in 0..MaxUserID
  /\ baseGroupID \in GroupBoundary..MaxGroupID
  /\ disputedRel \subseteq Pairs
  /\ disputedRow \subseteq Ids

\* The list searched by name and the map searched by id hold the same accounts,
\* each once (UserManager.cpp:67-72, 116-121): no account is reachable by one
\* index and missing from the other.
IndexesAgree ==
  /\ {cachedUsers[i] : i \in DOMAIN cachedUsers} = DOMAIN mapUsers
  /\ \A i, j \in DOMAIN cachedUsers : cachedUsers[i] = cachedUsers[j] => i = j

\* While the server runs, the id that the next AddUser or AddGroup takes is not
\* in t_user, whatever failures, lost replies and restarts came before: an
\* INSERT never meets the primary key, so registration never wedges.
NextIdIsFree ==
  up => /\ \A id \in DOMAIN tUser : id < GroupBoundary => id <= baseUserID
        /\ \A id \in DOMAIN tUser : id >= GroupBoundary => id <= baseGroupID

\* Every cached account has its row, with the name it was registered under; and
\* unless an UPDATE of it failed since start-up, the password and the profile in
\* memory are the stored ones (a fresh profile differs by the default birthday
\* that AddUser sets in memory only).
CacheBackedByRows ==
  \A id \in DOMAIN mapUsers :
    /\ id \in DOMAIN tUser
    /\ tUser[id].username = mapUsers[id].username
    /\ id \notin disputedRow =>
         /\ tUser[id].password = mapUsers[id].password
         /\ \/ tUser[id].profile = mapUsers[id].profile
            \/ tUser[id].profile = DbDefault /\ mapUsers[id].profile = CacheDefault

\* A friendship change that was answered with success is the truth in memory and
\* on disk alike, in both directions, until a later change of the same pair is
\* answered with failure: across registrations, restarts and changes of others.
AckedFriendshipsAgree ==
  \A id \in DOMAIN mapUsers, f \in Ids :
    (id # f /\ Pair(id, f) \notin disputedRel) =>
      (f \in mapUsers[id].friends <=> Pair(id, f) \in tRel)

\* A friendship row that was never in dispute joins two accounts that exist: the
\* row of an acknowledged change is not a promise about an id of the future.
AckedRowsRegistered ==
  \A p \in tRel \ disputedRel : p[1] \in DOMAIN tUser /\ p[2] \in DOMAIN tUser

\* What a name resolves to never changes while the server runs: registering or
\* creating a group with a name already taken never shadows the account that
\* GetUserInfoUsername finds.
NameResolutionStable ==
  [][up /\ up' => \A name \in Names :
       GetUserInfoUsername(name) # 0 =>
         GetUserInfoUsername(name)' = GetUserInfoUsername(name)]_vars

\* README.md: the relation is bidirectional.  As the code stands this does not
\* hold: adding an id nobody registered yet is answered with failure but leaves
\* the row and one direction behind (UserManager.cpp:214-216).
FriendsSymmetric ==
  \A a, b \in DOMAIN mapUsers :
    a \in mapUsers[b].friends => b \in mapUsers[a].friends

=============================================================================
