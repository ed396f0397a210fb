---------------------------- MODULE AgentHistory ----------------------------
(***************************************************************************)
(* goagent: requests of one user, over gRPC or HTTP, answered by Chat of the *)
(* provider (llm/empty_provider.go), which reads the history of the user and *)
(* appends the message and the reply.  The cache is MemoryCache, whose       *)
(* AppendHistory reads the list under one lock and writes it under another,  *)
(* or RedisCache, where the append is one transaction of the server.         *)
(***************************************************************************)
EXTENDS Integers, Sequences, SequencesExt

CONSTANTS
  Requests,     \* requests of the user
  maxLen        \* messages kept (100)

ASSUME HistoryAssumption ==
  maxLen \in Nat \ {0}

VARIABLES
  useRedis,  \* which cache main() has chosen
  history,   \* the list under chat:history:<user>
  req,       \* where each request is
  read,      \* msgs, what AppendHistory of the request has read
  log,       \* history: the messages in the order they were appended
  overlaps   \* history: two requests of the user were in progress at once

historyVars == <<useRedis, history, req, read, log, overlaps>>

Msg(r, role) == [of |-> r, role |-> role]

\* Faulty: the oldest messages are kept.
KeepOldest(s, n) == SubSeq(s, 1, IF Len(s) < n THEN Len(s) ELSE n)

\* msgs[len(msgs)-n:] when there are more than n; LRANGE and LTRIM -n -1.
LastOf(s, n) == SubSeq(s, IF Len(s) > n THEN Len(s) - n + 1 ELSE 1, Len(s))

InProgress == {r \in Requests : req[r] \notin {"new", "done", "refused"}}

RefuseRequest(r) ==
  /\ req' = [req EXCEPT ![r] = "refused"]
  /\ UNCHANGED <<useRedis, history, read, log, overlaps>>

\* Chat reads the history for its reply.
Chat(r) ==
  /\ req' = [req EXCEPT ![r] = "user"]
  /\ overlaps' = (overlaps \/ InProgress # {})
  /\ UNCHANGED <<useRedis, history, read, log>>

\* gRPC: empty content is refused.
ProcessMessage(r, empty) ==
  req[r] = "new" /\ IF empty THEN RefuseRequest(r) ELSE Chat(r)

\* HTTP: so are other methods than POST and what is not JSON.
HandleChat(r, isPost, parses, empty) ==
  req[r] = "new" /\ IF ~isPost \/ ~parses \/ empty THEN RefuseRequest(r) ELSE Chat(r)

Writing == [user |-> "userWrite", assistant |-> "assistantWrite"]
Then(role) == IF role = "user" THEN "assistant" ELSE "done"

\* AppendHistory of MemoryCache: GetHistory, under the read lock ...
ReadHistory(r, role) ==
  /\ ~useRedis /\ req[r] = role
  /\ read' = [read EXCEPT ![r] = LastOf(history, maxLen)]
  /\ req' = [req EXCEPT ![r] = Writing[role]]
  /\ UNCHANGED <<useRedis, history, log, overlaps>>

\* ... and the list with the message, under the write lock.
WriteHistory(r, role) ==
  /\ req[r] = Writing[role]
  /\ history' = LastOf(Append(read[r], Msg(r, role)), maxLen)
  /\ log' = Append(log, Msg(r, role))
  /\ req' = [req EXCEPT ![r] = Then(role)]
  /\ UNCHANGED <<useRedis, read, overlaps>>

\* AppendHistory of RedisCache: RPUSH and LTRIM in one transaction, or an error
\* that Chat ignores.
RedisAppend(r, role) ==
  /\ useRedis /\ req[r] = role
  /\ history' = LastOf(Append(history, Msg(r, role)), maxLen)
  /\ log' = Append(log, Msg(r, role))
  /\ req' = [req EXCEPT ![r] = Then(role)]
  /\ UNCHANGED <<useRedis, read, overlaps>>

RedisFails(r, role) ==
  /\ useRedis /\ req[r] = role
  /\ req' = [req EXCEPT ![r] = Then(role)]
  /\ UNCHANGED <<useRedis, history, read, log, overlaps>>

-----------------------------------------------------------------------------
HistoryInit ==
  /\ useRedis \in BOOLEAN
  /\ history = <<>> /\ log = <<>> /\ overlaps = FALSE
  /\ req = [r \in Requests |-> "new"]
  /\ read = [r \in Requests |-> <<>>]

HistoryNext ==
  \E r \in Requests :
    \/ \E empty \in BOOLEAN : ProcessMessage(r, empty)
    \/ \E isPost, parses, empty \in BOOLEAN : HandleChat(r, isPost, parses, empty)
    \/ \E role \in {"user", "assistant"} :
         \/ ReadHistory(r, role)
         \/ WriteHistory(r, role)
         \/ RedisAppend(r, role)
         \/ RedisFails(r, role)

HistorySpec == HistoryInit /\ [][HistoryNext]_historyVars

-----------------------------------------------------------------------------
\* The list holds the most recent messages, in order and complete, as long as
\* Redis keeps it or the requests of the user do not overlap.  When they do,
\* MemoryCache may lose messages, but keeps to the bound, repeats none, never
\* turns two messages around, and ends with the message appended last.
HistoryIsRecent ==
  /\ Len(history) <= maxLen
  /\ (useRedis \/ ~overlaps) =>
       /\ Len(history) = IF Len(log) < maxLen THEN Len(log) ELSE maxLen
       /\ \A i \in DOMAIN history : history[i] = log[Len(log) - Len(history) + i]
  /\ log # <<>> => history # <<>> /\ Last(history) = Last(log)
  /\ \A i, j \in DOMAIN history :
       i < j => \E k, l \in DOMAIN log :
                  k < l /\ log[k] = history[i] /\ log[l] = history[j]
=============================================================================
