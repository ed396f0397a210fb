--------------------------- MODULE ClientSession ---------------------------
(***************************************************************************)
(* The IM server: the connections IMSer keeps (IMSer.cpp), the request     *)
(* handlers of their sessions (ClientSession.cpp), the offline message     *)
(* cache and the calls to the assistant service, over UserManager.         *)
(*                                                                         *)
(* IMSer::init starts the TcpServer without IO threads, so every handler   *)
(* runs to its end in the one loop thread: a handler is one action.  The   *)
(* only other threads are those AgentGrpcClient::sendMessage detaches;     *)
(* their callback reads the session when the answer arrives.               *)
(*                                                                         *)
(* m_user is the id of the shared User object, 0 for a null pointer.  A    *)
(* handler that dereferences a null m_user ends the process (SIGSEGV is    *)
(* turned into exit by IMServer.cpp).  Responses are left out except for   *)
(* what they carry to other users: chat messages and assistant replies.    *)
(***************************************************************************)
EXTENDS UserManager, MsgCacheManager

CONSTANTS
  Conns,         \* connection slots, in the order of m_mapclient's keys
  Seqs,          \* sequence numbers a client may send
  Targets,       \* bound: the accounts clients chat to
  MaxMsgs,       \* bound on the chat messages of a behaviour
  MaxAgentCalls, \* bound on assistant calls in flight
  Cmds,          \* bound: the commands clients send
  DbOutcomes,    \* bound: the outcomes of a statement
  StoredUsers,   \* t_user when the server is first started
  StoredRel      \* t_user_relationship when the server is first started

ASSUME SessionAssumption ==
  /\ Conns \subseteq Nat \ {0}
  /\ Seqs \subseteq Nat
  /\ Targets \subseteq Ids
  /\ MaxMsgs \in Nat /\ MaxAgentCalls \in Nat
  /\ DbOutcomes \subseteq Outcomes
  /\ DOMAIN StoredUsers \subseteq Ids /\ StoredUsers \in [DOMAIN StoredUsers -> Row]
  /\ StoredRel \subseteq Pairs

VARIABLES
  sess,          \* m_mapclient: conn -> [open, user, seq]
  chatCache,     \* MsgCacheManager::m_listChatMsgCache
  agentCalls,    \* detached threads waiting for the assistant
  tChat,         \* table t_chatmsg: message numbers stored
  status,        \* User::status of the cached users
  nextMsg,       \* number of the next chat message
  accepted,      \* history: user -> chat messages taken for the user
  sentTo,        \* history: user -> chat messages written to a session of the user
  loggedIn,      \* history: conn -> user whose login was answered with code 0
  misbound,      \* history: users a failed login has bound a session to
  agentReply     \* history: the last assistant reply written

umVars == vars
chatVars == <<chatCache, tChat, nextMsg, accepted, sentTo>>
agentVars == <<agentCalls, agentReply>>
loginVars == <<status, loggedIn, misbound>>
allVars == <<umVars, sess, chatVars, agentVars, loginVars>>

-----------------------------------------------------------------------------
(* IMSer *)

NoReply == [asked |-> 0, seq |-> 0]
Closed == [open |-> FALSE, user |-> 0, seq |-> 0]

\* GetSessionByID: the first session in key order bound to the user, else 0.
SessionsOf(id) == {c \in Conns : sess[c].open /\ sess[c].user = id}
GetSessionByID(id) == IF SessionsOf(id) = {} THEN 0 ELSE Min(SessionsOf(id))

OnConnection(c) ==
  /\ up
  /\ ~sess[c].open
  /\ sess' = [sess EXCEPT ![c] = [open |-> TRUE, user |-> 0, seq |-> 0]]
  /\ UNCHANGED <<umVars, chatVars, agentVars, loginVars>>

\* The session object dies with its entry; threads that hold it are left with a
\* dangling pointer.  status is not reset and no friend is told.
OnClose(c) ==
  /\ up
  /\ sess[c].open
  /\ sess' = [sess EXCEPT ![c] = Closed]
  /\ agentCalls' = {[call EXCEPT !.dangling = @ \/ call.conn = c] : call \in agentCalls}
  /\ loggedIn' = [loggedIn EXCEPT ![c] = 0]
  /\ UNCHANGED <<umVars, chatVars, agentReply, status, misbound>>

\* The process ends: sessions, cache and threads are gone, the tables stay.
ProcessExit ==
  /\ Crash
  /\ sess' = [c \in Conns |-> Closed]
  /\ chatCache' = <<>>
  /\ agentCalls' = {}
  /\ status' = [id \in Ids |-> 0]
  /\ accepted' = [id \in Ids |-> <<>>]
  /\ sentTo' = [id \in Ids |-> <<>>]
  /\ loggedIn' = [c \in Conns |-> 0]
  /\ misbound' = {}
  /\ agentReply' = NoReply
  /\ UNCHANGED <<tChat, nextMsg>>

\* main: load the directory, then listen.
Restart(unread) ==
  /\ Start(unread)
  /\ UNCHANGED <<sess, chatVars, agentVars, loginVars>>

-----------------------------------------------------------------------------
(* OnMessageReceived: every request sets m_seq, then runs its handler.     *)

Receive(c, q) ==
  /\ up
  /\ sess[c].open
  /\ sess' = [sess EXCEPT ![c].seq = q]

\* A request that leaves all other state alone: an unknown command, a payload
\* that does not parse, or a missing field (not for login and chat).
OnStatelessRequest(c, q) ==
  /\ Receive(c, q)
  /\ UNCHANGED <<umVars, chatVars, agentVars, loginVars>>

OnHeartbeatResponse(c, q) == OnStatelessRequest(c, q)

\* Finding a user by name or id, and the members of a group: copies of the cached
\* accounts go into the response, none is changed and m_user is not read.
OnFindUserResponse(c, q) == OnStatelessRequest(c, q)
OnGetGroupMembersResponse(c, q) == OnStatelessRequest(c, q)

\* The mail service is asked for a code (MailService has what it does then); the
\* session keeps nothing of the answer.
OnSendEmailCodeResponse(c, q) == OnStatelessRequest(c, q)

\* The friend list and the chat history read m_user; nothing else changes.
OnUserQuery(c, q) ==
  /\ sess[c].user # 0
  /\ OnStatelessRequest(c, q)

\* A request whose handler reads m_user, on a session that never bound one.
OnUnboundRequest(c) ==
  /\ up
  /\ sess[c].open
  /\ sess[c].user = 0
  /\ ProcessExit

\* The mail service either verifies the code (and forgets it) or does not.
OnRegister(c, q, name, pw, verified, o) ==
  /\ Receive(c, q)
  /\ IF verified THEN AddUser(name, pw, o) ELSE UNCHANGED umVars
  /\ UNCHANGED <<chatVars, agentVars, loginVars>>

\* Faulty: a failed lookup resets m_user.
OnLoginUnknownUnbinds(c, q, name) ==
  /\ up
  /\ sess[c].open
  /\ GetUserInfoUsername(name) = 0
  /\ sess' = [sess EXCEPT ![c].seq = q, ![c].user = 0]
  /\ UNCHANGED <<umVars, chatVars, agentVars, loginVars>>

\* Login of a name nobody has: answered with 103, m_user keeps its value, which
\* the last line of the handler reads.
OnLoginUnknown(c, q, name) ==
  /\ Receive(c, q)
  /\ GetUserInfoUsername(name) = 0
  /\ sess[c].user # 0
  /\ UNCHANGED <<umVars, chatVars, agentVars, loginVars>>

\* A wrong password: answered with 104, but GetUserInfoUsername has already
\* stored the account in m_user.
OnLoginWrongPassword(c, q, name, pw) ==
  LET u == GetUserInfoUsername(name) IN
  /\ up
  /\ sess[c].open
  /\ u # 0
  /\ pw # mapUsers[u].password
  /\ sess' = [sess EXCEPT ![c].seq = q, ![c].user = u]
  /\ loggedIn' = [loggedIn EXCEPT ![c] = 0]
  /\ misbound' = misbound \cup {u}
  /\ UNCHANGED <<umVars, chatVars, agentVars, status>>

\* Success: bind, mark online, answer, then push and erase the cached messages.
OnLogin(c, q, name, pw) ==
  LET u == GetUserInfoUsername(name) IN
  /\ up
  /\ sess[c].open
  /\ u # 0
  /\ pw = mapUsers[u].password
  /\ sess' = [sess EXCEPT ![c].seq = q, ![c].user = u]
  /\ status' = [status EXCEPT ![u] = 1]
  /\ loggedIn' = [loggedIn EXCEPT ![c] = u]
  /\ sentTo' = [sentTo EXCEPT ![u] = @ \o ChatMsgsOf(chatCache, u)]
  /\ chatCache' = WithoutUser(chatCache, u)
  /\ UNCHANGED <<umVars, tChat, nextMsg, accepted, agentVars, misbound>>

-----------------------------------------------------------------------------
(* Friends, groups and profiles *)

SessionOnly == UNCHANGED <<chatVars, agentVars, loginVars>>

OnAddFriend(c, q, friendid, o) ==
  LET u == sess[c].user IN
  /\ Receive(c, q)
  /\ u # 0
  /\ IF friendid >= GroupBoundary \/ friendid = u
     THEN UNCHANGED umVars                          \* 106, or 100
     ELSE MakeFriendRelationship(Pair(u, friendid)[1], Pair(u, friendid)[2], o)
  /\ SessionOnly

OnDeleteFriend(c, q, friendid, o) ==
  LET u == sess[c].user IN
  /\ Receive(c, q)
  /\ u # 0
  /\ IF friendid = u THEN UNCHANGED umVars ELSE DeleteFriendToUser(u, friendid, o)
  /\ SessionOnly

\* Inviting reads the two ids of the request and never m_user.
OnInvite(c, q, friendid, groupid, o) ==
  /\ Receive(c, q)
  /\ IF groupid < GroupBoundary \/ friendid = groupid
     THEN UNCHANGED umVars                          \* 104, or 100
     ELSE MakeFriendRelationship(Pair(friendid, groupid)[1], Pair(friendid, groupid)[2], o)
  /\ SessionOnly

OnUpdateUserInfo(c, q, profile, o) ==
  /\ Receive(c, q)
  /\ sess[c].user # 0
  /\ UpdateUserInfo(sess[c].user, profile, o)
  /\ SessionOnly

OnModifyPassword(c, q, oldpw, newpw, o) ==
  LET u == sess[c].user IN
  /\ Receive(c, q)
  /\ u # 0
  /\ IF oldpw # mapUsers[u].password
     THEN UNCHANGED umVars                          \* 103
     ELSE ModifyUserPassword(u, newpw, o)
  /\ SessionOnly

\* Faulty: the owner joins before the group is in the cache.
CreateGroupJoinFirst(owner, name, o2) ==
  LET g == baseGroupID + 1 IN
  /\ baseGroupID < MaxGroupID
  /\ g \notin DOMAIN tUser
  /\ baseGroupID' = g
  /\ tUser' = Put(tUser, g, NewRow(name, NoPassword))
  /\ cachedUsers' = Append(cachedUsers, g)
  /\ tRel' = IF Applied(o2) THEN tRel \cup {<<owner, g>>} ELSE tRel
  /\ mapUsers' = Put(IF o2 = "ok" THEN Befriend(mapUsers, owner, g) ELSE mapUsers,
                     g, NewUser(name, NoPassword))
  /\ disputedRel' = IF o2 = "ok" THEN disputedRel \ {<<owner, g>>}
                    ELSE disputedRel \cup {<<owner, g>>}
  /\ UNCHANGED <<up, baseUserID, disputedRow>>

\* AddGroup, then OnAddGroupResponse joins the owner, whose outcome o2 the
\* handler ignores: it answers 0 either way.
CreateGroupWithOwner(owner, name, o2) ==
  LET g == baseGroupID + 1
      map == Put(mapUsers, g, NewUser(name, NoPassword)) IN
  /\ baseGroupID < MaxGroupID
  /\ g \notin DOMAIN tUser
  /\ baseGroupID' = g
  /\ tUser' = Put(tUser, g, NewRow(name, NoPassword))
  /\ cachedUsers' = Append(cachedUsers, g)
  /\ tRel' = IF Applied(o2) THEN tRel \cup {<<owner, g>>} ELSE tRel
  /\ mapUsers' = IF o2 = "ok" THEN Befriend(map, owner, g) ELSE map
  /\ disputedRel' = IF o2 = "ok" THEN disputedRel \ {<<owner, g>>}
                    ELSE disputedRel \cup {<<owner, g>>}
  /\ UNCHANGED <<up, baseUserID, disputedRow>>

OnCreateGroup(c, q, name, o1, o2) ==
  /\ Receive(c, q)
  /\ sess[c].user # 0
  /\ IF o1 = "ok" THEN CreateGroupWithOwner(sess[c].user, name, o2)
     ELSE AddGroup(name, o1)
  /\ SessionOnly

\* Faulty: the address is never saved.
OnAvatarUploadUnsaved(c, q, url, o) ==
  LET u == sess[c].user IN
  /\ Receive(c, q)
  /\ u # 0
  /\ mapUsers' = [mapUsers EXCEPT ![u].profile = url]
  /\ disputedRow' = IF o = "ok" THEN disputedRow ELSE disputedRow \cup {u}
  /\ UNCHANGED <<up, tUser, tRel, cachedUsers, baseVars, disputedRel>>
  /\ SessionOnly

\* The cached profile takes the new address before the row does, and the result
\* of UpdateUserInfo is ignored.
OnAvatarUpload(c, q, url, o) ==
  LET u == sess[c].user IN
  /\ Receive(c, q)
  /\ u # 0
  /\ mapUsers' = [mapUsers EXCEPT ![u].profile = url]
  /\ tUser' = IF Applied(o) THEN [tUser EXCEPT ![u].profile = url] ELSE tUser
  /\ disputedRow' = IF o = "ok" THEN disputedRow ELSE disputedRow \cup {u}
  /\ UNCHANGED <<up, tRel, cachedUsers, baseVars, disputedRel>>
  /\ SessionOnly

-----------------------------------------------------------------------------
(* Chat *)

\* The columns of t_chatmsg as MySqlManager creates it, and those that
\* SaveChatMsgToDb names in its INSERT.
ChatColumns == {"f_id", "f_senderid", "f_targetid", "f_msgcontent",
                "f_create_time", "f_remark"}
InsertColumns == {"f_senderid", "f_targetid", "f_msgcontent", "f_createtime"}

\* A failed INSERT is logged; the message goes on.
SaveChatMsgToDb(n, o) ==
  tChat' = IF Applied(o) /\ InsertColumns \subseteq ChatColumns
           THEN tChat \cup {n} ELSE tChat

\* Who gets a copy: the target, or the cached members of the group without the
\* sender.
Recipients(sender, target) ==
  IF target < GroupBoundary THEN {target}
  ELSE GetFriendInfoByUserID(target) \ {sender}

\* All ids, ascending, and n a number of times.
Ascending == [i \in 1..MaxGroupID |-> i]
Times(n, count) == [i \in 1..count |-> n]

\* One message for a list of targets: a copy per target and recipient, written
\* to the recipient's first session or appended to the offline cache.  The
\* cache grows target by target, and by ascending id within a group.
Forward(sender, targets, n) ==
  LET copies == FlattenSeq([i \in DOMAIN targets |-> Kept(Ascending, Recipients(sender, targets[i]))])
      offline == Kept(copies, {id \in Ids : GetSessionByID(id) = 0})
      count(id) == Len(Kept(copies, {id}))
  IN /\ chatCache' = AddChatMsgCache(chatCache, offline, n)
     /\ sentTo' = [id \in Ids |-> IF GetSessionByID(id) = 0 THEN sentTo[id]
                                  ELSE sentTo[id] \o Times(n, count(id))]
     /\ accepted' = [id \in Ids |-> accepted[id] \o Times(n, count(id))]

\* Chat (one target) and multi-chat (a list of targets, each handled as a chat).
OnChat(c, q, targets, o) ==
  LET u == sess[c].user IN
  /\ Receive(c, q)
  /\ u # 0
  /\ nextMsg <= MaxMsgs
  /\ nextMsg' = nextMsg + 1
  /\ SaveChatMsgToDb(nextMsg, o)
  /\ Forward(u, targets, nextMsg)
  /\ UNCHANGED <<umVars, agentVars, loginVars>>

\* A chat with the assistant (target -1): a detached thread takes the request,
\* and a raw pointer to the session.
OnAgentChat(c, q) ==
  /\ Receive(c, q)
  /\ sess[c].user # 0
  /\ \E n \in 1..MaxAgentCalls :
       /\ \A call \in agentCalls : call.id # n
       /\ agentCalls' = agentCalls \cup
            {[id |-> n, conn |-> c, asked |-> q, target |-> 0, dangling |-> FALSE]}
  /\ UNCHANGED <<umVars, chatVars, agentReply, loginVars>>

\* The thread got the assistant's answer, an error, or ran into its 15 s
\* deadline: the callback, not in the loop thread, reads m_user as it is now ...
OnAgentAnswer(call) ==
  /\ up
  /\ call \in agentCalls
  /\ ~call.dangling
  /\ call.target = 0
  /\ sess[call.conn].user # 0
  /\ agentCalls' = (agentCalls \ {call}) \cup
                   {[call EXCEPT !.target = sess[call.conn].user]}
  /\ UNCHANGED <<umVars, sess, chatVars, agentReply, loginVars>>

\* ... and then m_seq, and sends.
OnAgentSend(call) ==
  /\ up
  /\ call \in agentCalls
  /\ ~call.dangling
  /\ call.target # 0
  /\ agentCalls' = agentCalls \ {call}
  /\ agentReply' = [asked |-> call.asked, seq |-> sess[call.conn].seq]
  /\ UNCHANGED <<umVars, sess, chatVars, loginVars>>

\* The session is gone: reading it is undefined.  Either nothing comes of it ...
OnAgentDangling(call) ==
  /\ up
  /\ call \in agentCalls
  /\ call.dangling
  /\ agentCalls' = agentCalls \ {call}
  /\ UNCHANGED <<umVars, sess, chatVars, agentReply, loginVars>>

\* ... or the process dies.
OnAgentFault ==
  /\ \E call \in agentCalls : call.dangling
  /\ ProcessExit

-----------------------------------------------------------------------------
(* The first step loads the stored accounts; clients connect after it.  A    *)
(* stored friendship with an id nobody has was never acknowledged.           *)

SessionInit ==
  /\ up = FALSE
  /\ tUser = StoredUsers
  /\ tRel = StoredRel
  /\ cachedUsers = <<>>
  /\ mapUsers = [id \in {} |-> {}]
  /\ baseUserID = 0
  /\ baseGroupID = GroupBoundary
  /\ disputedRel = {p \in StoredRel : {p[1], p[2]} \ DOMAIN StoredUsers # {}}
  /\ disputedRow = {}
  /\ sess = [c \in Conns |-> Closed]
  /\ chatCache = <<>>
  /\ agentCalls = {}
  /\ tChat = {}
  /\ status = [id \in Ids |-> 0]
  /\ nextMsg = 1
  /\ accepted = [id \in Ids |-> <<>>]
  /\ sentTo = [id \in Ids |-> <<>>]
  /\ loggedIn = [c \in Conns |-> 0]
  /\ misbound = {}
  /\ agentReply = NoReply

QueryNext(c, q) ==
  \/ OnStatelessRequest(c, q) \/ OnHeartbeatResponse(c, q) \/ OnFindUserResponse(c, q)
  \/ OnGetGroupMembersResponse(c, q) \/ OnSendEmailCodeResponse(c, q)
  \/ OnUserQuery(c, q)

LoginNext(c, q) ==
  \/ \E name \in Names : OnLoginUnknown(c, q, name)
  \/ \E name \in Names, pw \in Passwords : OnLoginWrongPassword(c, q, name, pw)
  \/ \E name \in Names, pw \in Passwords : OnLogin(c, q, name, pw)

AccountNext(c, q, o) ==
  \/ /\ "register" \in Cmds
     /\ \E name \in Names, pw \in Passwords, verified \in BOOLEAN :
          OnRegister(c, q, name, pw, verified, o)
  \/ /\ "friends" \in Cmds
     /\ \E f \in Ids : OnAddFriend(c, q, f, o) \/ OnDeleteFriend(c, q, f, o)
  \/ /\ "groups" \in Cmds
     /\ \/ \E f, g \in Ids : OnInvite(c, q, f, g, o)
        \/ \E name \in Names, o2 \in DbOutcomes : OnCreateGroup(c, q, name, o, o2)
  \/ /\ "profile" \in Cmds
     /\ sess[c].user \in Editors
     /\ \E profile \in Profiles :
          OnUpdateUserInfo(c, q, profile, o) \/ OnAvatarUpload(c, q, profile, o)
  \/ /\ "password" \in Cmds
     /\ sess[c].user \in Editors
     /\ \E old, new \in Passwords : OnModifyPassword(c, q, old, new, o)

ChatNext(c, q, o) ==
  \/ "chat" \in Cmds /\ \E t \in Targets : OnChat(c, q, <<t>>, o)
  \/ "multichat" \in Cmds /\ \E t, t2 \in Targets : OnChat(c, q, <<t, t2>>, o)

AgentNext ==
  /\ "agent" \in Cmds
  /\ \/ \E c \in Conns, q \in Seqs : OnAgentChat(c, q)
     \/ \E call \in agentCalls :
          OnAgentAnswer(call) \/ OnAgentSend(call) \/ OnAgentDangling(call)
     \/ OnAgentFault

SessionNext ==
  \/ \E c \in Conns : OnConnection(c) \/ OnClose(c) \/ OnUnboundRequest(c)
  \/ \E c \in Conns, q \in Seqs :
       \/ "query" \in Cmds /\ QueryNext(c, q)
       \/ LoginNext(c, q)
       \/ \E o \in DbOutcomes : AccountNext(c, q, o) \/ ChatNext(c, q, o)
  \/ AgentNext
  \/ ProcessExit
  \/ \E unread \in SUBSET DOMAIN tUser :
       /\ unread # {} => "rejected" \in DbOutcomes
       /\ Restart(unread)

SessionSpec == SessionInit /\ [][SessionNext]_allVars

-----------------------------------------------------------------------------
(* Properties *)

Copies(s, n) == Cardinality({i \in DOMAIN s : s[i] = n})

\* Every copy of a chat message taken for a user is written once to a session
\* bound to that user or waits once in the offline cache, through any
\* interleaving of logins, failed logins, closes and group sends (OnChatResponse,
\* GetChatMsgCache): until the process ends, nothing is lost and nothing doubled.
MessagesAccounted ==
  \A u \in Ids, n \in 1..MaxMsgs :
    Copies(accepted[u], n) =
      Copies(sentTo[u], n) + Copies(ChatMsgsOf(chatCache, u), n)

\* A user gets messages in the order the server took them: what was written
\* followed by what is cached is what was taken.  A user on whom a login failed
\* is exempt: the session it bound receives new messages while older ones wait.
OfflineOrder ==
  \A u \in Ids \ misbound :
    sentTo[u] \o ChatMsgsOf(chatCache, u) = accepted[u]

\* The offline cache behaves as one queue per user, which the step that logs the
\* user in empties and nothing else but the end of the process does, and which
\* does not grow while the user is logged in.
Offline == INSTANCE OfflineQueue WITH
  Users <- Ids,
  Nobody <- 0,
  queue <- [u \in Ids |-> ChatMsgsOf(chatCache, u)],
  online <- loggedIn,
  running <- up
QueueRefined == Offline!QSpec

\* While a detached assistant call can still reach its session, the session is in
\* the map and bound to a cached account: the callback's m_user-> never meets a
\* null pointer, whatever logins ran in between (ClientSession.cpp:838-857).
AgentCallsBound ==
  \A call \in agentCalls :
    ~call.dangling => /\ sess[call.conn].open
                      /\ sess[call.conn].user \in DOMAIN mapUsers

\* im.proto: seq matches responses to requests.  As the code stands this does not
\* hold: the callback reads m_seq when the answer arrives (ClientSession.cpp:850).
AgentReplySeqMatches == agentReply.seq = agentReply.asked

\* ClientSession.cpp:895: a message for a user who is not online is cached.  As
\* the code stands this does not hold: a failed login has bound a session to the
\* account, and the message is written there.
OfflineIsCached ==
  [][\A u \in Ids :
       (/\ up /\ up'
        /\ \A c \in Conns : loggedIn[c] # u
        /\ accepted'[u] # accepted[u])
       => ChatMsgsOf(chatCache', u) # ChatMsgsOf(chatCache, u)]_allVars

\* README.md: chat history can be queried, so a message is stored when the
\* database takes every statement (DbOutcomes = {"ok"}).  As the code stands none
\* is: the INSERT names a column the table does not have (UserManager.cpp:335).
HistoryStored == [][nextMsg' > nextMsg => nextMsg \in tChat']_allVars

=============================================================================
