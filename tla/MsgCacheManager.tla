-------------------------- MODULE MsgCacheManager --------------------------
(***************************************************************************)
(* The offline message cache (MsgCacheManager.cpp): one list for all       *)
(* users, in arrival order.  The notify cache beside it is written by      *)
(* nobody (AddNotifyMsgCache has no caller) and GetNotifyMsgCache is empty.*)
(***************************************************************************)
EXTENDS Naturals, SequencesExt

\* The elements of a sequence that are in a set, in their order.
Kept(seq, set) ==
  LET upTo[i \in 0..Len(seq)] ==
        IF i = 0 THEN <<>>
        ELSE IF seq[i] \in set THEN Append(upTo[i - 1], seq[i]) ELSE upTo[i - 1]
  IN upTo[Len(seq)]

\* The entries for some users.
EntriesFor(users) == [userid : users, chatmsg : Nat]
Tagged(userids, msg) == [i \in DOMAIN userids |-> [userid |-> userids[i], chatmsg |-> msg]]

\* Faulty: push_front.
AddChatMsgCacheInFront(list, userids, msg) == Tagged(userids, msg) \o list

\* AddChatMsgCache, for one user after the other.
AddChatMsgCache(list, userids, msg) == list \o Tagged(userids, msg)

\* GetChatMsgCache returns the messages of the user in list order ...
MsgsIn(entries) == [i \in DOMAIN entries |-> entries[i].chatmsg]
ChatMsgsOf(list, userid) == MsgsIn(Kept(list, EntriesFor({userid})))

\* Faulty: the messages stay, or the messages of all users go.
WithoutErase(list, userid) == list
WithoutAnybody(list, userid) == <<>>

\* ... and erases them from the list.
WithoutUser(list, userid) == Kept(list, EntriesFor(Nat \ {userid}))
=============================================================================
