--------------------------- MODULE ServicesProofs ----------------------------
(***************************************************************************)
(* Proofs about the services beside the message path, for any set of        *)
(* addresses, codes, requests, users and bytes and any bounds: the          *)
(* verification codes of GoMailServer, the start of the database layer, the *)
(* chat history of goagent, the calls of protorpc, the avatars of           *)
(* GoImageServer, the byte queue Buffer promises to be, the answers of      *)
(* HttpServer, the messages ProtobufCodecLite makes of a stream, and the    *)
(* dates and local times of Date and TimeZone.                              *)
(***************************************************************************)
EXTENDS MailService, AgentHistory, Schema, RpcChannel, AvatarStore, Codec,
        HttpContext, TimeZone, FiniteSetTheorems, SequenceTheorems,
        WellFoundedInduction, TLAPS

-----------------------------------------------------------------------------
(* MailService *)

\* The variables have their types.
MailTypeOK ==
  /\ codes \in [Emails -> [code : Codes \cup {"none"}, elapsed : Nat]]
  /\ sending \subseteq Emails \X Codes
  /\ inbox \subseteq Emails \X Codes
  /\ generated \in [Emails -> Nat]
  /\ last \in [Emails -> Codes \cup {"none"}]
  /\ age \in [Emails -> Nat]
  /\ used \in [Emails -> BOOLEAN]
  /\ accounts \in [Emails -> Nat]
  /\ hasty \in BOOLEAN /\ wrongly \in BOOLEAN

\* A stored entry is the last code generated, as old as that, not yet accepted
\* and not yet the ground of a registration.
EntryIsLast(e) ==
  codes[e] # NoEntry =>
    /\ codes[e].code = last[e]
    /\ codes[e].elapsed = age[e]
    /\ ~used[e]
    /\ generated[e] > 0
    /\ accounts[e] < generated[e]

\* A code that was generated and is gone was accepted or has expired.
GoneForAReason(e) ==
  (codes[e] = NoEntry /\ generated[e] > 0 /\ ~used[e]) => age[e] > ttl

MailInv ==
  /\ MailTypeOK
  /\ \A e \in Emails : EntryIsLast(e) /\ GoneForAReason(e)
  /\ CodesProveOnce

\* The initial state satisfies the invariant.
LEMMA MailInvInit == MailInit => MailInv
<1> SUFFICES ASSUME MailInit PROVE MailInv
  OBVIOUS
<1>1. MailTypeOK
  <2>1. /\ codes \in [Emails -> [code : Codes \cup {"none"}, elapsed : Nat]]
        /\ generated \in [Emails -> Nat] /\ age \in [Emails -> Nat]
        /\ last \in [Emails -> Codes \cup {"none"}]
        /\ accounts \in [Emails -> Nat]
    BY DEF MailInit, NoEntry
  <2>2. used \in [Emails -> BOOLEAN] /\ hasty \in BOOLEAN /\ wrongly \in BOOLEAN
    BY Zenon DEF MailInit
  <2> QED
    BY <2>1, <2>2 DEF MailInit, MailTypeOK
<1>2. ASSUME NEW e \in Emails PROVE EntryIsLast(e) /\ GoneForAReason(e)
  BY <1>2 DEF MailInit, EntryIsLast, GoneForAReason
<1>3. CodesProveOnce
  BY DEF MailInit, CodesProveOnce
<1> QED
  BY <1>1, <1>2, <1>3 DEF MailInv

\* Every request, mail and tick keeps the invariant.
LEMMA MailInvStep == MailInv /\ [MailNext]_mailVars => MailInv'
<1> SUFFICES ASSUME MailInv, [MailNext]_mailVars PROVE MailInv'
  OBVIOUS
<1> USE MailAssumption DEF MailInv, MailTypeOK, EntryIsLast, GoneForAReason, CodesProveOnce
<1>1. ASSUME NEW e \in Emails, NEW code \in Codes, SendCode(e, code) PROVE MailInv'
  BY <1>1 DEF SendCode, CooledDown, Generate, NoEntry
<1>2. ASSUME NEW mail \in sending, MailDelivered(mail) PROVE MailInv'
  BY <1>2 DEF MailDelivered, NoEntry
<1>3. ASSUME NEW mail \in sending, MailFailed(mail) PROVE MailInv'
  BY <1>3 DEF MailFailed, NoEntry
<1>4. ASSUME NEW mail \in inbox, VerifyRefused(mail[1], mail[2]) PROVE MailInv'
  <2>1. CASE codes' = codes
    BY <1>4, <2>1 DEF VerifyRefused
  <2>2. CASE codes[mail[1]].elapsed > ttl /\ codes' = [codes EXCEPT ![mail[1]] = NoEntry]
    BY <1>4, <2>2 DEF VerifyRefused, NoEntry
  <2> QED
    BY <1>4, <2>1, <2>2 DEF VerifyRefused
<1>5. ASSUME NEW mail \in inbox, NEW registered \in BOOLEAN,
             VerifyAccepted(mail[1], mail[2], registered)
      PROVE MailInv'
  BY <1>5 DEF VerifyAccepted, NoEntry
<1>6. CASE MailTick
  BY <1>6 DEF MailTick, Older, NoEntry
<1>7. CASE UNCHANGED mailVars
  BY <1>7 DEF mailVars
<1> QED
  BY <1>1, <1>2, <1>3, <1>4, <1>5, <1>6, <1>7 DEF MailNext

\* A code proves an address once, for any addresses, codes and times: GoMailServer
\* never accepts a code twice, or after its time, or one that another replaced.
THEOREM CodesAlwaysProveOnce == MailSpec => []CodesProveOnce
<1>1. MailInv => CodesProveOnce
  BY DEF MailInv
<1> QED
  BY <1>1, MailInvInit, MailInvStep, PTL DEF MailSpec

-----------------------------------------------------------------------------
(* AgentHistory *)

Messages == [of : Requests, role : {"user", "assistant"}]
Steps == {"new", "refused", "user", "userWrite", "assistant", "assistantWrite", "done"}

\* The variables have their types.
HistoryTypeOK ==
  /\ useRedis \in BOOLEAN /\ overlaps \in BOOLEAN
  /\ history \in Seq(Messages)
  /\ log \in Seq(Messages)
  /\ req \in [Requests -> Steps]
  /\ read \in [Requests -> Seq(Messages)]

\* What is in s was logged, and in that order.
LoggedInOrder(s, l) ==
  /\ \A i \in DOMAIN s : \E k \in DOMAIN l : l[k] = s[i]
  /\ \A i, j \in DOMAIN s :
       i < j => \E k, m \in DOMAIN l : k < m /\ l[k] = s[i] /\ l[m] = s[j]

\* s holds the messages at the end of the log, as many as are kept.
MostRecent(s, l) ==
  /\ Len(s) = IF Len(l) < maxLen THEN Len(l) ELSE maxLen
  /\ \A i \in DOMAIN s : s[i] = l[Len(l) - Len(s) + i]

WritingSteps == {"userWrite", "assistantWrite"}

\* Only MemoryCache writes what a request has read, and without overlaps that is
\* the list as it still is.
ReadIsFresh ==
  \A r \in Requests : req[r] \in WritingSteps => ~useRedis /\ (~overlaps => read[r] = history)

\* Without overlaps one request at most is in progress.
OneInProgress == ~overlaps => \A r, s \in InProgress : r = s

HistoryInv ==
  /\ HistoryTypeOK
  /\ OneInProgress /\ ReadIsFresh
  /\ Len(history) <= maxLen
  /\ (useRedis \/ ~overlaps) => MostRecent(history, log)
  /\ log # <<>> => history # <<>> /\ history[Len(history)] = log[Len(log)]
  /\ LoggedInOrder(history, log)
  /\ \A r \in Requests : LoggedInOrder(read[r], log)

\* LastOf keeps the end of a sequence.
LEMMA LastOfProperties ==
  ASSUME NEW S, NEW s \in Seq(S), NEW n \in Nat
  PROVE  /\ LastOf(s, n) \in Seq(S)
         /\ Len(LastOf(s, n)) = IF Len(s) > n THEN n ELSE Len(s)
         /\ \A i \in 1..Len(LastOf(s, n)) :
              LastOf(s, n)[i] = s[Len(s) - Len(LastOf(s, n)) + i]
<1> DEFINE N == Len(s)
           m == IF N > n THEN N - n + 1 ELSE 1
           w == SubSeq(s, m, N)
<1>1. N \in Nat /\ m \in Nat /\ m >= 1 /\ m <= N + 1
      /\ N - m + 1 = IF N > n THEN n ELSE N
  BY LenProperties
<1>2. \A i \in m..N : s[i] \in S
  BY <1>1, ElementOfSeq
<1>3. /\ w \in Seq(S)
      /\ Len(w) = IF m <= N THEN N - m + 1 ELSE 0
      /\ \A i \in 1..(N - m + 1) : w[i] = s[m + i - 1]
  BY <1>1, <1>2, SubSeqProperties
<1>4. LastOf(s, n) = w
  BY DEF LastOf
<1> HIDE DEF w, m, N
<1>5. Len(w) = N - m + 1
  BY <1>1, <1>3
<1>6. \A i \in 1..Len(w) : w[i] = s[N - Len(w) + i]
  <2> SUFFICES ASSUME NEW i \in 1..Len(w) PROVE w[i] = s[N - Len(w) + i]
    OBVIOUS
  <2>1. w[i] = s[m + i - 1]
    BY <1>3, <1>5
  <2>2. m + i - 1 = N - Len(w) + i
    BY <1>1, <1>5
  <2> QED
    BY <2>1, <2>2
<1> QED
  BY <1>1, <1>3, <1>4, <1>5, <1>6 DEF N

\* An appended message is the newest of the log and of the list.
LEMMA AppendInOrder ==
  ASSUME NEW S, NEW s \in Seq(S), NEW l \in Seq(S), NEW m \in S, NEW n \in Nat \ {0},
         LoggedInOrder(s, l)
  PROVE  /\ LoggedInOrder(s, Append(l, m))
         /\ LoggedInOrder(LastOf(Append(s, m), n), Append(l, m))
<1> DEFINE a == Append(s, m)
           t == LastOf(a, n)
           b == Append(l, m)
<1>1. /\ Len(s) \in Nat /\ Len(l) \in Nat
      /\ DOMAIN s = 1..Len(s) /\ DOMAIN l = 1..Len(l)
  BY LenProperties
<1>2. /\ a \in Seq(S) /\ Len(a) = Len(s) + 1 /\ a[Len(s) + 1] = m
      /\ \A i \in 1..Len(s) : a[i] = s[i]
  BY AppendProperties
<1>3. /\ b \in Seq(S) /\ Len(b) = Len(l) + 1 /\ b[Len(l) + 1] = m
      /\ \A i \in 1..Len(l) : b[i] = l[i]
  BY AppendProperties
<1>4. /\ t \in Seq(S) /\ Len(t) = IF Len(a) > n THEN n ELSE Len(a)
      /\ \A i \in 1..Len(t) : t[i] = a[Len(a) - Len(t) + i]
  BY <1>2, LastOfProperties
<1>5. DOMAIN a = 1..Len(a) /\ DOMAIN b = 1..Len(b) /\ DOMAIN t = 1..Len(t)
  BY <1>2, <1>3, <1>4, LenProperties
<1> HIDE DEF a, b, t
<1>d. \A k \in DOMAIN l : k \in DOMAIN b /\ b[k] = l[k]
  BY <1>1, <1>3, <1>5
<1>6. LoggedInOrder(s, b)
  <2>1. \A i \in DOMAIN s : \E k \in DOMAIN b : b[k] = s[i]
    BY <1>d DEF LoggedInOrder
  <2>2. ASSUME NEW i \in DOMAIN s, NEW j \in DOMAIN s, i < j
        PROVE  \E k, x \in DOMAIN b : k < x /\ b[k] = s[i] /\ b[x] = s[j]
    <3>1. PICK k \in DOMAIN l, x \in DOMAIN l : k < x /\ l[k] = s[i] /\ l[x] = s[j]
      BY <2>2 DEF LoggedInOrder
    <3> QED
      BY <3>1, <1>d
  <2> QED
    BY <2>1, <2>2 DEF LoggedInOrder
<1>7. LoggedInOrder(a, b)
  <2>1. ASSUME NEW i \in DOMAIN a PROVE \E k \in DOMAIN b : b[k] = a[i]
    <3>1. CASE i = Len(s) + 1
      BY <3>1, <1>1, <1>2, <1>3, <1>5
    <3>2. CASE i \in 1..Len(s)
      BY <3>2, <1>1, <1>2, <1>6 DEF LoggedInOrder
    <3> QED
      BY <1>1, <1>2, <1>5, <2>1, <3>1, <3>2
  <2>2. ASSUME NEW i \in DOMAIN a, NEW j \in DOMAIN a, i < j
        PROVE  \E k, x \in DOMAIN b : k < x /\ b[k] = a[i] /\ b[x] = a[j]
    <3>0. i \in 1..Len(s)
      BY <1>1, <1>2, <1>5, <2>2
    <3>1. CASE j = Len(s) + 1
      <4>1. PICK k \in DOMAIN l : l[k] = s[i]
        BY <3>0, <1>1 DEF LoggedInOrder
      <4>2. k \in DOMAIN b /\ Len(l) + 1 \in DOMAIN b /\ k < Len(l) + 1
        BY <1>1, <1>3, <1>5
      <4>3. b[k] = a[i] /\ b[Len(l) + 1] = a[j]
        BY <3>0, <3>1, <4>1, <1>1, <1>2, <1>3
      <4> QED
        BY <4>2, <4>3
    <3>2. CASE j \in 1..Len(s)
      BY <2>2, <3>0, <3>2, <1>1, <1>2, <1>6 DEF LoggedInOrder
    <3> QED
      BY <1>1, <1>2, <1>5, <2>2, <3>1, <3>2
  <2> QED
    BY <2>1, <2>2 DEF LoggedInOrder
<1>8. LoggedInOrder(t, b)
  <2> DEFINE d == Len(a) - Len(t)
  <2>1. d \in Nat /\ \A i \in DOMAIN t : d + i \in DOMAIN a /\ t[i] = a[d + i]
    <3>1. Len(a) \in Nat /\ Len(t) \in Nat /\ d \in Nat /\ Len(a) = d + Len(t)
      BY <1>1, <1>2, <1>4
    <3>2. \A i \in 1..Len(t) : t[i] = a[d + i]
      BY <1>4
    <3> HIDE DEF d
    <3>3. \A i \in 1..Len(t) : d + i \in 1..Len(a)
      BY <3>1
    <3> QED BY <1>5, <3>1, <3>2, <3>3
  <2>2. DOMAIN t \subseteq Int
    BY <1>4, <1>5
  <2> HIDE DEF d
  <2>3. ASSUME NEW i \in DOMAIN t PROVE \E k \in DOMAIN b : b[k] = t[i]
    BY <2>1, <2>3, <1>7 DEF LoggedInOrder
  <2>4. ASSUME NEW i \in DOMAIN t, NEW j \in DOMAIN t, i < j
        PROVE  \E k, x \in DOMAIN b : k < x /\ b[k] = t[i] /\ b[x] = t[j]
    <3>1. d + i < d + j /\ d + i \in DOMAIN a /\ d + j \in DOMAIN a
      BY <2>1, <2>2, <2>4
    <3>2. \E k, x \in DOMAIN b : k < x /\ b[k] = a[d + i] /\ b[x] = a[d + j]
      BY <3>1, <1>7 DEF LoggedInOrder
    <3> QED
      BY <3>2, <2>1
  <2> QED
    BY <2>3, <2>4 DEF LoggedInOrder
<1> QED
  BY <1>6, <1>8 DEF a, b, t

\* A list that holds the end of the log still does after an append to both.
LEMMA AppendRecent ==
  ASSUME NEW S, NEW s \in Seq(S), NEW l \in Seq(S), NEW m \in S, MostRecent(s, l)
  PROVE  MostRecent(LastOf(Append(s, m), maxLen), Append(l, m))
<1> DEFINE a == Append(s, m)
           t == LastOf(a, maxLen)
           b == Append(l, m)
<1>0. maxLen \in Nat \ {0}
  BY HistoryAssumption
<1>1. /\ Len(s) \in Nat /\ Len(l) \in Nat
      /\ DOMAIN s = 1..Len(s) /\ DOMAIN l = 1..Len(l)
  BY LenProperties
<1>2. /\ a \in Seq(S) /\ Len(a) = Len(s) + 1 /\ a[Len(s) + 1] = m
      /\ \A i \in 1..Len(s) : a[i] = s[i]
  BY AppendProperties
<1>3. /\ b \in Seq(S) /\ Len(b) = Len(l) + 1 /\ b[Len(l) + 1] = m
      /\ \A i \in 1..Len(l) : b[i] = l[i]
  BY AppendProperties
<1>4. /\ t \in Seq(S) /\ Len(t) = IF Len(a) > maxLen THEN maxLen ELSE Len(a)
      /\ \A i \in 1..Len(t) : t[i] = a[Len(a) - Len(t) + i]
  BY <1>0, <1>2, LastOfProperties
<1>5. DOMAIN t = 1..Len(t)
  BY <1>4, LenProperties
<1> HIDE DEF a, b, t
<1>6. Len(s) = IF Len(l) < maxLen THEN Len(l) ELSE maxLen
  BY DEF MostRecent
<1>7. Len(t) = IF Len(b) < maxLen THEN Len(b) ELSE maxLen
  BY <1>0, <1>1, <1>2, <1>3, <1>4, <1>6
<1>8. ASSUME NEW i \in DOMAIN t PROVE t[i] = b[Len(b) - Len(t) + i]
  <2> DEFINE x == Len(a) - Len(t) + i
             y == Len(b) - Len(t) + i
  <2>1. i \in 1..Len(t) /\ Len(t) \in Nat /\ x \in 1..Len(a) /\ y \in 1..Len(b)
    <3>1. i \in 1..Len(t) /\ Len(t) \in Nat /\ Len(t) <= Len(a) /\ Len(t) <= Len(b)
      BY <1>0, <1>1, <1>2, <1>3, <1>4, <1>5, <1>7, <1>8
    <3> QED
      BY <3>1, <1>1, <1>2, <1>3
  <2>2. t[i] = a[x]
    BY <2>1, <1>4
  <2>3. CASE i = Len(t)
    <3>1. x = Len(s) + 1 /\ y = Len(l) + 1
      BY <2>1, <2>3, <1>1, <1>2, <1>3
    <3> QED
      BY <2>2, <3>1, <1>2, <1>3
  <2>4. CASE i < Len(t)
    <3>1. x \in 1..Len(s) /\ y \in 1..Len(l) /\ y = Len(l) - Len(s) + x
      BY <2>1, <2>4, <1>1, <1>2, <1>3, SMTT(30)
    <3>2. a[x] = s[x] /\ b[y] = l[y]
      BY <3>1, <1>2, <1>3
    <3>3. s[x] = l[Len(l) - Len(s) + x]
      BY <3>1, <1>1 DEF MostRecent
    <3> QED
      BY <2>2, <3>1, <3>2, <3>3
  <2> QED
    BY <2>1, <2>3, <2>4
<1> QED
  BY <1>7, <1>8 DEF MostRecent, a, b, t

\* The initial state satisfies the invariant.
LEMMA HistoryInvInit == HistoryInit => HistoryInv
<1> SUFFICES ASSUME HistoryInit PROVE HistoryInv
  OBVIOUS
<1>0. maxLen \in Nat \ {0}
  BY HistoryAssumption
<1>1. HistoryTypeOK
  <2>1. overlaps \in BOOLEAN /\ useRedis \in BOOLEAN
    BY Zenon DEF HistoryInit
  <2> QED
    BY <2>1 DEF HistoryInit, HistoryTypeOK, Steps
<1>2. OneInProgress /\ ReadIsFresh
  BY DEF HistoryInit, OneInProgress, ReadIsFresh, InProgress, WritingSteps
<1>3. Len(history) <= maxLen /\ MostRecent(history, log)
  BY <1>0 DEF HistoryInit, MostRecent
<1>4. LoggedInOrder(history, log) /\ \A r \in Requests : LoggedInOrder(read[r], log)
  BY DEF HistoryInit, LoggedInOrder
<1> QED
  BY <1>1, <1>2, <1>3, <1>4 DEF HistoryInv, HistoryInit

\* A message appended to a list that was read from the history, or to the history
\* itself, keeps what the invariant says of the list and of the reads.
LEMMA AppendStep ==
  ASSUME HistoryInv, NEW r \in Requests, NEW role \in {"user", "assistant"},
         NEW s \in Seq(Messages), LoggedInOrder(s, log),
         (useRedis \/ ~overlaps) => s = history,
         history' = LastOf(Append(s, Msg(r, role)), maxLen),
         log' = Append(log, Msg(r, role)),
         UNCHANGED <<useRedis, read, overlaps>>
  PROVE  /\ history' \in Seq(Messages) /\ log' \in Seq(Messages)
         /\ Len(history') <= maxLen
         /\ (useRedis \/ ~overlaps) => MostRecent(history', log')
         /\ log' # <<>> => history' # <<>> /\ history'[Len(history')] = log'[Len(log')]
         /\ LoggedInOrder(history', log')
         /\ \A x \in Requests : LoggedInOrder(read'[x], log')
<1> DEFINE m == Msg(r, role)
<1>0. maxLen \in Nat \ {0} /\ HistoryTypeOK /\ m \in Messages
  BY HistoryAssumption DEF HistoryInv, Msg, Messages
<1> HIDE DEF m
<1>1. history' = LastOf(Append(s, m), maxLen) /\ log' = Append(log, m) /\ read' = read
  BY DEF m
<1>2. log \in Seq(Messages) /\ read \in [Requests -> Seq(Messages)]
  BY <1>0 DEF HistoryTypeOK
<1>3. Append(s, m) \in Seq(Messages) /\ Len(Append(s, m)) = Len(s) + 1 /\ Len(s) \in Nat
  BY <1>0, AppendProperties, LenProperties
<1> DEFINE a == Append(s, m)
           t == LastOf(a, maxLen)
<1>a. a \in Seq(Messages) /\ Len(a) \in Nat
  BY <1>3
<1> HIDE DEF a
<1>b. t \in Seq(Messages) /\ Len(t) = IF Len(a) > maxLen THEN maxLen ELSE Len(a)
  BY <1>0, <1>a, LastOfProperties
<1> HIDE DEF t
<1>c. history' = t
  BY <1>1 DEF a, t
<1>4. history' \in Seq(Messages) /\ Len(history') <= maxLen
  BY <1>0, <1>a, <1>b, <1>c
<1>5. log' \in Seq(Messages) /\ log'[Len(log')] = m
  BY <1>0, <1>1, <1>2, AppendProperties
<1>6. /\ LoggedInOrder(history', log')
      /\ history' # <<>> /\ history'[Len(history')] = m
  <2>1. LoggedInOrder(t, Append(log, m))
    BY <1>0, <1>2, AppendInOrder DEF a, t
  <2>2. Len(t) \in Nat /\ Len(t) >= 1 /\ t[Len(t)] = a[Len(a)]
    <3>1. \A i \in 1..Len(t) : t[i] = a[Len(a) - Len(t) + i]
      BY <1>0, <1>a, LastOfProperties DEF t
    <3>2. Len(a) >= 1
      BY <1>3 DEF a
    <3>3. Len(t) \in Nat /\ Len(t) >= 1
      BY <3>2, <1>0, <1>a, <1>b
    <3>4. Len(a) - Len(t) + Len(t) = Len(a) /\ Len(t) \in 1..Len(t)
      BY <3>3, <1>a
    <3> QED
      BY <3>1, <3>3, <3>4
  <2>3. a[Len(a)] = m
    BY <1>0, <1>3, AppendProperties DEF a
  <2>4. t # <<>>
    BY <2>2
  <2> QED
    BY <2>1, <2>2, <2>3, <2>4, <1>1, <1>c
<1>7. \A x \in Requests : LoggedInOrder(read'[x], log')
  <2> SUFFICES ASSUME NEW x \in Requests PROVE LoggedInOrder(read[x], log')
    BY <1>1
  <2>1. read[x] \in Seq(Messages) /\ LoggedInOrder(read[x], log)
    BY <1>2 DEF HistoryInv
  <2>2. LoggedInOrder(read[x], Append(log, m))
    BY <2>1, <1>0, <1>2, AppendInOrder
  <2> QED
    BY <2>2, <1>1
<1>8. (useRedis \/ ~overlaps) => MostRecent(history', log')
  <2> SUFFICES ASSUME useRedis \/ ~overlaps PROVE MostRecent(history', log')
    OBVIOUS
  <2>1. s = history /\ MostRecent(s, log)
    BY DEF HistoryInv
  <2> QED
    BY <2>1, <1>0, <1>1, <1>2, AppendRecent
<1> QED
  BY <1>4, <1>5, <1>6, <1>7, <1>8

\* Every step of a request keeps the invariant.
LEMMA HistoryInvStep == HistoryInv /\ [HistoryNext]_historyVars => HistoryInv'
<1> SUFFICES ASSUME HistoryInv, [HistoryNext]_historyVars PROVE HistoryInv'
  OBVIOUS
<1>t. HistoryTypeOK
  BY DEF HistoryInv
<1>n. maxLen \in Nat \ {0}
  BY HistoryAssumption
<1> DEFINE Same == UNCHANGED <<useRedis, history, log>>
<1>k. ASSUME Same, HistoryTypeOK', OneInProgress', ReadIsFresh', overlaps \/ ~overlaps',
             overlaps => overlaps', \A x \in Requests : LoggedInOrder(read'[x], log)
      PROVE  HistoryInv'
  BY <1>k DEF HistoryInv
<1>1. ASSUME NEW r \in Requests, req[r] = "new", RefuseRequest(r) PROVE HistoryInv'
  <2>1. Same /\ overlaps' = overlaps /\ read' = read /\ req' = [req EXCEPT ![r] = "refused"]
    BY <1>1 DEF RefuseRequest
  <2>2. HistoryTypeOK'
    BY <1>t, <2>1 DEF HistoryTypeOK, Steps
  <2>3. OneInProgress' /\ ReadIsFresh'
    BY <1>t, <2>1 DEF HistoryInv, HistoryTypeOK, OneInProgress, ReadIsFresh, InProgress, WritingSteps
  <2> QED
    BY <1>k, <2>1, <2>2, <2>3 DEF HistoryInv
<1>2. ASSUME NEW r \in Requests, req[r] = "new", Chat(r) PROVE HistoryInv'
  <2>1. /\ Same /\ overlaps' = (overlaps \/ InProgress # {}) /\ read' = read
        /\ req' = [req EXCEPT ![r] = "user"]
    BY <1>2 DEF Chat
  <2>2. overlaps' \in BOOLEAN
    BY <2>1, Zenon
  <2>3. HistoryTypeOK'
    BY <1>t, <2>1, <2>2 DEF HistoryTypeOK, Steps
  <2>4. OneInProgress'
    BY <1>t, <2>1 DEF HistoryInv, HistoryTypeOK, OneInProgress, InProgress
  <2>5. ReadIsFresh'
    BY <1>t, <2>1 DEF HistoryInv, HistoryTypeOK, ReadIsFresh, WritingSteps
  <2>6. ~overlaps' => ~overlaps
    BY <2>1
  <2> QED
    BY <2>1, <2>3, <2>4, <2>5, <2>6 DEF HistoryInv
<1>3. ASSUME NEW r \in Requests, NEW role \in {"user", "assistant"}, ReadHistory(r, role)
      PROVE  HistoryInv'
  <2>1. /\ Same /\ overlaps' = overlaps /\ ~useRedis /\ req[r] = role
        /\ read' = [read EXCEPT ![r] = LastOf(history, maxLen)]
        /\ req' = [req EXCEPT ![r] = Writing[role]]
    BY <1>3 DEF ReadHistory
  <2>2. Writing[role] \in WritingSteps
    BY DEF Writing, WritingSteps
  <2>3. LastOf(history, maxLen) = history
    <3>1. history \in Seq(Messages) /\ Len(history) \in Nat /\ Len(history) <= maxLen
      BY <1>t, LenProperties DEF HistoryInv, HistoryTypeOK
    <3>2. LastOf(history, maxLen) = SubSeq(history, 1, Len(history))
      <4>1. ~(Len(history) > maxLen)
        BY <1>n, <3>1
      <4> QED
        BY <4>1 DEF LastOf
    <3> QED
      BY <3>1, <3>2, SubSeqFull
  <2>4. HistoryTypeOK'
    BY <1>t, <2>1, <2>2, <2>3 DEF HistoryTypeOK, Steps, WritingSteps
  <2>5. OneInProgress'
    BY <1>t, <2>1, <2>2 DEF HistoryInv, HistoryTypeOK, OneInProgress, InProgress, WritingSteps
  <2>6. ReadIsFresh'
    BY <1>t, <2>1, <2>2, <2>3 DEF HistoryInv, HistoryTypeOK, ReadIsFresh
  <2>7. \A x \in Requests : LoggedInOrder(read'[x], log)
    BY <1>t, <2>1, <2>3 DEF HistoryInv, HistoryTypeOK
  <2> QED
    BY <1>k, <2>1, <2>4, <2>5, <2>6, <2>7
<1>a. ASSUME NEW r \in Requests, NEW role \in {"user", "assistant"},
             req[r] \notin {"new", "done", "refused"},
             req' = [req EXCEPT ![r] = Then(role)], UNCHANGED <<useRedis, read, overlaps>>,
             history' \in Seq(Messages), log' \in Seq(Messages)
      PROVE  HistoryTypeOK' /\ OneInProgress' /\ ReadIsFresh'
  <2>1. Then(role) \in {"assistant", "done"}
    BY DEF Then
  <2>2. HistoryTypeOK'
    BY <1>t, <1>a, <2>1 DEF HistoryTypeOK, Steps
  <2>3. OneInProgress'
    BY <1>t, <1>a, <2>1 DEF HistoryInv, HistoryTypeOK, OneInProgress, InProgress
  <2>4. ASSUME NEW x \in Requests, req'[x] \in WritingSteps PROVE x # r /\ req[x] \in WritingSteps
    BY <1>t, <1>a, <2>1, <2>4 DEF HistoryTypeOK, WritingSteps
  <2>5. ASSUME NEW x \in Requests, req'[x] \in WritingSteps, ~overlaps PROVE FALSE
    <3>1. x # r /\ x \in InProgress /\ r \in InProgress
      BY <1>a, <2>4, <2>5 DEF InProgress, WritingSteps
    <3> QED
      BY <3>1, <2>5 DEF HistoryInv, OneInProgress
  <2> QED
    BY <1>a, <2>2, <2>3, <2>4, <2>5 DEF ReadIsFresh, HistoryInv
<1>4. ASSUME NEW r \in Requests, NEW role \in {"user", "assistant"}, WriteHistory(r, role)
      PROVE  HistoryInv'
  <2>1. /\ req[r] = Writing[role] /\ req' = [req EXCEPT ![r] = Then(role)]
        /\ history' = LastOf(Append(read[r], Msg(r, role)), maxLen)
        /\ log' = Append(log, Msg(r, role))
        /\ UNCHANGED <<useRedis, read, overlaps>>
    BY <1>4 DEF WriteHistory
  <2>2. req[r] \in WritingSteps
    BY <2>1 DEF Writing, WritingSteps
  <2>3. read[r] \in Seq(Messages) /\ LoggedInOrder(read[r], log)
        /\ ((useRedis \/ ~overlaps) => read[r] = history)
    BY <1>t, <2>2 DEF HistoryInv, HistoryTypeOK, ReadIsFresh
  <2>4. /\ history' \in Seq(Messages) /\ log' \in Seq(Messages)
        /\ Len(history') <= maxLen
        /\ (useRedis \/ ~overlaps) => MostRecent(history', log')
        /\ log' # <<>> => history' # <<>> /\ history'[Len(history')] = log'[Len(log')]
        /\ LoggedInOrder(history', log')
        /\ \A x \in Requests : LoggedInOrder(read'[x], log')
    BY <2>1, <2>3, AppendStep
  <2>5. HistoryTypeOK' /\ OneInProgress' /\ ReadIsFresh'
    BY <1>a, <2>1, <2>2, <2>4 DEF WritingSteps
  <2> QED
    BY <2>1, <2>4, <2>5 DEF HistoryInv
<1>5. ASSUME NEW r \in Requests, NEW role \in {"user", "assistant"}, RedisAppend(r, role)
      PROVE  HistoryInv'
  <2>1. /\ useRedis /\ req[r] = role /\ req' = [req EXCEPT ![r] = Then(role)]
        /\ history' = LastOf(Append(history, Msg(r, role)), maxLen)
        /\ log' = Append(log, Msg(r, role))
        /\ UNCHANGED <<useRedis, read, overlaps>>
    BY <1>5 DEF RedisAppend
  <2>2. history \in Seq(Messages) /\ LoggedInOrder(history, log)
    BY <1>t DEF HistoryInv, HistoryTypeOK
  <2>3. /\ history' \in Seq(Messages) /\ log' \in Seq(Messages)
        /\ Len(history') <= maxLen
        /\ (useRedis \/ ~overlaps) => MostRecent(history', log')
        /\ log' # <<>> => history' # <<>> /\ history'[Len(history')] = log'[Len(log')]
        /\ LoggedInOrder(history', log')
        /\ \A x \in Requests : LoggedInOrder(read'[x], log')
    BY <2>1, <2>2, AppendStep
  <2>4. HistoryTypeOK' /\ OneInProgress' /\ ReadIsFresh'
    BY <1>a, <2>1, <2>3
  <2> QED
    BY <2>1, <2>3, <2>4 DEF HistoryInv
<1>6. ASSUME NEW r \in Requests, NEW role \in {"user", "assistant"}, RedisFails(r, role)
      PROVE  HistoryInv'
  <2>1. /\ Same /\ req[r] = role /\ req' = [req EXCEPT ![r] = Then(role)]
        /\ UNCHANGED <<useRedis, read, overlaps>>
    BY <1>6 DEF RedisFails
  <2>2. HistoryTypeOK' /\ OneInProgress' /\ ReadIsFresh'
    BY <1>a, <1>t, <2>1 DEF HistoryTypeOK
  <2> QED
    BY <1>k, <2>1, <2>2 DEF HistoryInv
<1>7. CASE UNCHANGED historyVars
  BY <1>7 DEF historyVars, HistoryInv, HistoryTypeOK, OneInProgress, ReadIsFresh, InProgress
<1> QED
  BY <1>1, <1>2, <1>3, <1>4, <1>5, <1>6, <1>7 DEF HistoryNext, ProcessMessage, HandleChat

\* For any requests and any length of the history: goagent keeps the most recent
\* messages complete and in order while Redis keeps the list or the requests of
\* the user do not overlap, and never repeats or turns around messages at all.
THEOREM HistoryAlwaysRecent == HistorySpec => []HistoryIsRecent
<1>1. HistoryInv => HistoryIsRecent
  <2> SUFFICES ASSUME HistoryInv PROVE HistoryIsRecent
    OBVIOUS
  <2> QED
    BY DEF HistoryInv, HistoryIsRecent, MostRecent, LoggedInOrder, Last
<1> QED
  BY <1>1, HistoryInvInit, HistoryInvStep, PTL DEF HistorySpec

-----------------------------------------------------------------------------
(* Schema *)

\* What Init has done to the tables before the one it is at.
TablesBefore(n) ==
  \A t \in DbTables : t < n => Exists(t) /\ (t \notin troubled => Complete(t))

\* While the columns of a table are altered, those neither to be added nor to be
\* modified any more are as declared.
AlterProgress ==
  /\ it \in DbTables
  /\ Exists(it)
  /\ rest \subseteq mapField[it] /\ mapChange \subseteq mapField[it]
  /\ \A c \in mapField[it] \ (rest \cup mapChange) :
       c \in DOMAIN tables[it] /\ tables[it][c] = "declared"

\* No column is lost, and none that is not declared is changed.
ColumnsKept ==
  \A t \in DbTables :
    /\ DOMAIN stored[t] \subseteq DOMAIN tables[t]
    /\ \A c \in DOMAIN stored[t] \ mapField[t] : tables[t][c] = stored[t][c]

SchemaInv ==
  /\ SchemaTypeOK
  /\ ColumnsKept
  /\ initPc \in {"down", "database"} => it = 1 /\ rest = {} /\ mapChange = {}
  /\ initPc \in {"table", "alter", "running"} => m_mysql
  /\ TablesBefore(it)
  /\ initPc = "alter" => AlterProgress
  /\ initPc \in {"create", "failed"} => it \in DbTables /\ it \in troubled
  /\ initPc = "running" => it = TableCount + 1

\* A layout is a function from some of the columns to definitions.
LEMMA LayoutType ==
  ASSUME NEW C \in SUBSET Columns, NEW f \in [C -> Definitions]
  PROVE  f \in Layouts
  BY DEF Layouts

\* The columns of a layout.
LEMMA LayoutDomain ==
  ASSUME NEW f \in Layouts
  PROVE  DOMAIN f \subseteq Columns /\ f \in [DOMAIN f -> Definitions]
<1>1. PICK C \in SUBSET Columns : f \in [C -> Definitions]
  BY DEF Layouts
<1> QED
  BY <1>1

\* The columns of a table are declared or foreign.
LEMMA DeclaredColumns == \A t \in DbTables : mapField[t] \subseteq Columns
  BY DEF Columns

\* CREATE TABLE keeps every layout, or gives the table its declared one.
LEMMA CreateKeeps ==
  ASSUME SchemaTypeOK, ColumnsKept, NEW t \in DbTables, t = it, NEW r \in Results, CreateTable(r),
         UNCHANGED stored
  PROVE  /\ tables' \in [DbTables -> Layouts]
         /\ m_mysql' = (r # "unreached")
         /\ ColumnsKept'
         /\ \A u \in DbTables \ {t} : tables'[u] = tables[u]
         /\ Exists(t) => tables' = tables
         /\ r = "ok" => Exists(t)'
         /\ r = "ok" /\ ~Exists(t) => Complete(t)'
<1> DEFINE new == [c \in mapField[t] |-> "declared"]
<1>1. new \in Layouts
  <2>1. mapField[t] \in SUBSET Columns
    BY DeclaredColumns
  <2>2. new \in [mapField[t] -> Definitions]
    BY DEF Definitions
  <2> QED
    BY <2>1, <2>2, LayoutType
<1>2. m_mysql' = (r # "unreached")
  BY DEF CreateTable, Execute
<1>3. DOMAIN new = mapField[t] /\ mapField[t] # {} /\ \A c \in mapField[t] : new[c] = "declared"
  BY SchemaAssumption
<1> HIDE DEF new
<1>4. CASE Ran(r) /\ ~Exists(t)
  <2>1. tables' = [tables EXCEPT ![t] = new]
    BY <1>4 DEF CreateTable, new
  <2>2. tables' \in [DbTables -> Layouts] /\ tables'[t] = new
        /\ \A u \in DbTables \ {t} : tables'[u] = tables[u]
    BY <2>1, <1>1 DEF SchemaTypeOK
  <2>3. DOMAIN stored[t] = {}
    BY <1>4 DEF Exists, ColumnsKept
  <2>4. ColumnsKept'
    BY <2>2, <2>3 DEF ColumnsKept
  <2>5. Exists(t)' /\ Complete(t)'
    BY <2>2, <1>3 DEF Exists, Complete
  <2> QED
    BY <1>2, <1>4, <2>2, <2>4, <2>5
<1>5. CASE ~(Ran(r) /\ ~Exists(t))
  <2>1. tables' = tables
    BY <1>5 DEF CreateTable
  <2>2. r = "ok" => Exists(t)
    BY <1>5 DEF Ran
  <2> QED
    BY <1>2, <2>1, <2>2 DEF ColumnsKept, SchemaTypeOK, Exists
<1> QED
  BY <1>4, <1>5

\* ALTER TABLE of column c touches no other column and no other table.
LEMMA AlterKeeps ==
  ASSUME SchemaTypeOK, ColumnsKept, NEW t \in DbTables, t = it,
         NEW c \in mapField[t], NEW r \in Results, AlterResult(c, r)
  PROVE  /\ tables' \in [DbTables -> Layouts]
         /\ m_mysql' = (r # "unreached")
         /\ ColumnsKept'
         /\ \A u \in DbTables \ {t} : tables'[u] = tables[u]
         /\ DOMAIN tables[t] \subseteq DOMAIN tables'[t]
         /\ \A x \in DOMAIN tables[t] \ {c} : tables'[t][x] = tables[t][x]
         /\ r = "ok" => c \in DOMAIN tables'[t] /\ tables'[t][c] = "declared"
<1> DEFINE old == tables[t]
           new == [x \in DOMAIN old \cup {c} |-> IF x = c THEN "declared" ELSE old[x]]
<1>1. old \in Layouts
  BY DEF SchemaTypeOK
<1>2. DOMAIN old \subseteq Columns /\ old \in [DOMAIN old -> Definitions]
  BY <1>1, LayoutDomain
<1>3. new \in Layouts
  <2>1. DOMAIN old \cup {c} \in SUBSET Columns
    BY <1>2, DeclaredColumns
  <2>2. new \in [DOMAIN old \cup {c} -> Definitions]
    BY <1>2 DEF Definitions
  <2> QED
    BY <2>1, <2>2, LayoutType
<1>4. /\ DOMAIN new = DOMAIN old \cup {c}
      /\ new[c] = "declared"
      /\ \A x \in DOMAIN old \ {c} : new[x] = old[x]
  OBVIOUS
<1>5. m_mysql' = (r # "unreached") /\ stored' = stored
  BY DEF AlterResult, Execute
<1>6. tables' = IF Ran(r) THEN [tables EXCEPT ![t] = new] ELSE tables
  BY DEF AlterResult, Altered
<1>7. r = "ok" => Ran(r)
  BY DEF Ran
<1> HIDE DEF new
<1>8. CASE Ran(r)
  <2>1. tables' \in [DbTables -> Layouts] /\ tables'[t] = new
        /\ \A u \in DbTables \ {t} : tables'[u] = tables[u]
    BY <1>3, <1>6, <1>8 DEF SchemaTypeOK
  <2>2. ColumnsKept'
    BY <1>4, <1>5, <2>1 DEF ColumnsKept
  <2> QED
    BY <1>4, <1>5, <2>1, <2>2
<1>9. CASE ~Ran(r)
  BY <1>5, <1>6, <1>7, <1>9 DEF ColumnsKept, SchemaTypeOK
<1> QED
  BY <1>8, <1>9

\* The tables before n stay as they are when only the table n changes and no
\* earlier table comes into trouble.
LEMMA BeforeKept ==
  ASSUME SchemaTypeOK, NEW n \in DbTables, TablesBefore(n),
         \A u \in DbTables \ {n} : tables'[u] = tables[u],
         \A u \in DbTables \ {n} : u \in troubled => u \in troubled'
  PROVE  TablesBefore(n)'
  BY SchemaAssumption DEF TablesBefore, Exists, Complete, DbTables

\* What was done to the table n counts when Init goes on to the next.
LEMMA BeforeNext ==
  ASSUME NEW n \in DbTables, TablesBefore(n)', Exists(n)',
         n \notin troubled' => Complete(n)'
  PROVE  TablesBefore(n + 1)'
  BY SchemaAssumption DEF TablesBefore, DbTables

\* The initial state satisfies the invariant.
LEMMA SchemaInvInit == SchemaInit => SchemaInv
<1> SUFFICES ASSUME SchemaInit PROVE SchemaInv
  OBVIOUS
<1>0. m_mysql \in BOOLEAN
  BY Zenon DEF SchemaInit
<1>1. SchemaTypeOK
  BY <1>0, SchemaAssumption DEF SchemaInit, SchemaTypeOK
<1>2. ColumnsKept
  BY DEF SchemaInit, ColumnsKept
<1>3. TablesBefore(it)
  BY SchemaAssumption DEF SchemaInit, TablesBefore, DbTables
<1> QED
  BY <1>1, <1>2, <1>3 DEF SchemaInit, SchemaInv

\* The end of the process, from any state, leaves the tables as they are.
LEMMA SchemaInvExit ==
  ASSUME SchemaInv, Exit, UNCHANGED <<tables, stored>>
  PROVE  SchemaInv'
<1>0. m_mysql' \in BOOLEAN
  BY Zenon DEF Exit
<1>1. SchemaTypeOK'
  BY <1>0, SchemaAssumption DEF SchemaInv, SchemaTypeOK, Exit
<1>2. ColumnsKept'
  BY DEF SchemaInv, ColumnsKept
<1>3. TablesBefore(it)'
  BY SchemaAssumption DEF Exit, TablesBefore, DbTables
<1> QED
  BY <1>1, <1>2, <1>3 DEF SchemaInv, Exit

\* An ALTER of a column that was to be added or modified keeps the invariant.
LEMMA AlterInv ==
  ASSUME SchemaInv, initPc = "alter", NEW r \in Results, NEW c \in rest \cup mapChange,
         AlterResult(c, r), rest' \subseteq rest, mapChange' \subseteq mapChange,
         r = "ok" => rest \cup mapChange \subseteq rest' \cup mapChange' \cup {c}
  PROVE  SchemaInv'
<1> USE SchemaAssumption
<1>1. SchemaTypeOK /\ ColumnsKept /\ AlterProgress /\ TablesBefore(it)
  BY DEF SchemaInv
<1>2. PICK t \in DbTables : t = it
  BY <1>1 DEF AlterProgress
<1>3. c \in mapField[t]
  BY <1>1, <1>2 DEF AlterProgress
<1>4. /\ tables' \in [DbTables -> Layouts]
      /\ m_mysql' = (r # "unreached")
      /\ ColumnsKept'
      /\ \A u \in DbTables \ {t} : tables'[u] = tables[u]
      /\ DOMAIN tables[t] \subseteq DOMAIN tables'[t]
      /\ \A x \in DOMAIN tables[t] \ {c} : tables'[t][x] = tables[t][x]
      /\ r = "ok" => c \in DOMAIN tables'[t] /\ tables'[t][c] = "declared"
  BY <1>1, <1>2, <1>3, AlterKeeps
<1>5. /\ stored' = stored /\ it' = t
      /\ initPc' = IF r = "ok" THEN "alter" ELSE "create"
      /\ troubled' = IF r = "ok" THEN troubled ELSE troubled \cup {t}
  BY <1>2 DEF AlterResult
<1>6. m_mysql' \in BOOLEAN /\ (r = "ok" => m_mysql')
  <2>1. r = "ok" => r # "unreached"
    OBVIOUS
  <2> QED
    BY <1>4, <2>1, Zenon
<1>7. SchemaTypeOK'
  BY <1>1, <1>2, <1>4, <1>5, <1>6 DEF SchemaTypeOK
<1>8. TablesBefore(it)'
  <2>1. TablesBefore(t)'
    BY <1>1, <1>2, <1>4, <1>5, BeforeKept
  <2> QED
    BY <2>1, <1>5 DEF TablesBefore, Exists, Complete
<1>9. r = "ok" => AlterProgress'
  <2> SUFFICES ASSUME r = "ok" PROVE AlterProgress'
    OBVIOUS
  <2>1. rest' \subseteq mapField[t] /\ mapChange' \subseteq mapField[t]
    BY <1>1, <1>2 DEF AlterProgress
  <2>2. DOMAIN tables'[t] # {}
    BY <1>4
  <2>3. ASSUME NEW x \in mapField[t] \ (rest' \cup mapChange')
        PROVE  x \in DOMAIN tables'[t] /\ tables'[t][x] = "declared"
    <3>1. CASE x = c
      BY <1>4, <3>1
    <3>2. CASE x # c
      <4>1. x \in mapField[t] \ (rest \cup mapChange)
        BY <2>3, <3>2
      <4>2. x \in DOMAIN tables[t] /\ tables[t][x] = "declared"
        BY <4>1, <1>1, <1>2 DEF AlterProgress
      <4> QED
        BY <4>2, <1>4, <3>2
    <3> QED
      BY <3>1, <3>2
  <2> QED
    BY <1>5, <2>1, <2>2, <2>3 DEF AlterProgress, Exists
<1> QED
  BY <1>4, <1>5, <1>6, <1>7, <1>8, <1>9 DEF SchemaInv

\* Every statement of Init, whatever comes of it, keeps the invariant.
LEMMA SchemaInvStep == SchemaInv /\ [SchemaNext]_schemaVars => SchemaInv'
<1> SUFFICES ASSUME SchemaInv, [SchemaNext]_schemaVars PROVE SchemaInv'
  OBVIOUS
<1> USE SchemaAssumption
<1>t. SchemaTypeOK /\ ColumnsKept
  BY DEF SchemaInv
<1>i. DbTables \subseteq Nat /\ \A t \in DbTables : t + 1 \in 1..(TableCount + 1)
  BY DEF DbTables
<1>1. CASE ConnectDb
  <2>1. m_mysql' \in BOOLEAN /\ m_mysql'
    BY <1>1, Zenon DEF ConnectDb
  <2>2. SchemaTypeOK' /\ ColumnsKept' /\ TablesBefore(it)'
    BY <1>1, <2>1 DEF ConnectDb, SchemaInv, SchemaTypeOK, ColumnsKept, TablesBefore, Exists, Complete
  <2> QED
    BY <1>1, <2>1, <2>2 DEF ConnectDb, SchemaInv
<1>2. ASSUME NEW r \in Results, CheckDatabase(r) PROVE SchemaInv'
  <2>1. CASE r # "ok"
    BY <1>2, <2>1, SchemaInvExit DEF CheckDatabase, CreateDatabase
  <2>2. CASE r = "ok"
    <3>1. m_mysql' \in BOOLEAN /\ m_mysql'
      BY <1>2, <2>2, Zenon DEF CheckDatabase, Query
    <3>2. initPc = "database" /\ initPc' = "table"
          /\ UNCHANGED <<tables, stored, it, rest, mapChange, troubled>>
      BY <1>2, <2>2 DEF CheckDatabase
    <3>3. SchemaTypeOK' /\ ColumnsKept' /\ TablesBefore(it)'
      BY <3>1, <3>2 DEF SchemaInv, SchemaTypeOK, ColumnsKept, TablesBefore, Exists, Complete
    <3> QED
      BY <3>1, <3>2, <3>3 DEF SchemaInv
  <2> QED
    BY <2>1, <2>2
<1>3. ASSUME NEW q \in Results, NEW r \in Results, CheckMissing(q, r) PROVE SchemaInv'
  <2>1. it \in DbTables /\ CreateTable(r) /\ stored' = stored /\ initPc = "table"
    BY <1>3 DEF CheckMissing
  <2>2. PICK n \in DbTables : n = it
    BY <2>1
  <2>3. /\ tables' \in [DbTables -> Layouts]
        /\ m_mysql' = (r # "unreached")
        /\ ColumnsKept'
        /\ \A u \in DbTables \ {n} : tables'[u] = tables[u]
        /\ r = "ok" => Exists(n)'
        /\ r = "ok" /\ ~Exists(n) => Complete(n)'
    BY <1>t, <2>1, <2>2, CreateKeeps
  <2>4. troubled' = IF q = "ok" /\ r = "ok" THEN troubled ELSE troubled \cup {n}
    BY <1>3, <2>2 DEF CheckMissing
  <2>5. TablesBefore(n)'
    BY <1>t, <2>2, <2>3, <2>4, BeforeKept DEF SchemaInv
  <2>6. CASE r = "ok"
    <3>1. it' = n + 1 /\ initPc' = "table" /\ rest' = rest /\ mapChange' = mapChange
      BY <1>3, <2>2, <2>6 DEF CheckMissing, NextTable
    <3>2. n \notin troubled' => Complete(n)'
      BY <1>3, <2>2, <2>3, <2>4, <2>6 DEF CheckMissing
    <3>3. TablesBefore(n + 1)'
      BY <2>2, <2>3, <2>5, <2>6, <3>2, BeforeNext
    <3>4. TablesBefore(it)'
      BY <3>1, <3>3 DEF TablesBefore, Exists, Complete
    <3>5. m_mysql' \in BOOLEAN /\ m_mysql'
      BY <2>3, <2>6, Zenon
    <3>6. SchemaTypeOK'
      BY <1>i, <1>t, <2>1, <2>3, <2>4, <3>1, <3>5 DEF SchemaTypeOK
    <3> QED
      BY <2>3, <3>1, <3>4, <3>5, <3>6 DEF SchemaInv
  <2>7. CASE r # "ok"
    <3>1. it' = it /\ initPc' = "create" /\ rest' = rest /\ mapChange' = mapChange
      BY <1>3, <2>7 DEF CheckMissing
    <3>2. TablesBefore(it)'
      BY <2>2, <2>5, <3>1 DEF TablesBefore, Exists, Complete
    <3>3. m_mysql' \in BOOLEAN
      BY <2>3, Zenon
    <3>4. SchemaTypeOK'
      BY <1>t, <2>1, <2>3, <2>4, <3>1, <3>3 DEF SchemaTypeOK
    <3> QED
      BY <2>1, <2>2, <2>3, <2>4, <2>7, <3>1, <3>2, <3>4 DEF SchemaInv
  <2> QED
    BY <2>6, <2>7
<1>4. CASE CheckColumns
  <2>1. m_mysql' \in BOOLEAN /\ m_mysql'
    BY <1>4, Zenon DEF CheckColumns, Query
  <2>2. /\ it \in DbTables /\ Exists(it) /\ initPc' = "alter"
        /\ rest' = mapField[it] \ DOMAIN tables[it]
        /\ mapChange' = mapField[it] \cap DOMAIN tables[it]
        /\ UNCHANGED <<tables, stored, it, troubled>>
    BY <1>4 DEF CheckColumns
  <2>3. SchemaTypeOK' /\ ColumnsKept' /\ TablesBefore(it)'
    BY <1>t, <2>1, <2>2, DeclaredColumns
    DEF SchemaInv, SchemaTypeOK, ColumnsKept, TablesBefore, Exists, Complete
  <2>4. AlterProgress'
    BY <2>2 DEF AlterProgress, Exists
  <2> QED
    BY <2>1, <2>2, <2>3, <2>4 DEF SchemaInv
<1>5. ASSUME NEW r \in Results, NEW c \in rest, AddColumn(c, r) PROVE SchemaInv'
  BY <1>5, AlterInv DEF AddColumn
<1>6. ASSUME NEW r \in Results, NEW c \in mapChange, ModifyColumn(c, r) PROVE SchemaInv'
  BY <1>6, AlterInv DEF ModifyColumn
<1>7. CASE TableChecked
  <2>1. initPc = "alter" /\ rest = {} /\ mapChange = {} /\ AlterProgress /\ TablesBefore(it)
    BY <1>7 DEF TableChecked, SchemaInv
  <2>2. PICK n \in DbTables : n = it
    BY <2>1 DEF AlterProgress
  <2>3. /\ it' = n + 1 /\ initPc' = "table"
        /\ UNCHANGED <<tables, stored, rest, mapChange, m_mysql, troubled>>
    BY <1>7, <2>2 DEF TableChecked, NextTable
  <2>4. Exists(n) /\ Complete(n)
    BY <2>1, <2>2 DEF AlterProgress, Complete
  <2>5. TablesBefore(n)' /\ Exists(n)' /\ Complete(n)'
    BY <2>1, <2>2, <2>3, <2>4 DEF TablesBefore, Exists, Complete
  <2>6. TablesBefore(n + 1)'
    BY <2>2, <2>5, BeforeNext
  <2>7. TablesBefore(it)'
    BY <2>3, <2>6 DEF TablesBefore, Exists, Complete
  <2>8. SchemaTypeOK' /\ ColumnsKept'
    BY <1>i, <1>t, <2>2, <2>3 DEF SchemaTypeOK, ColumnsKept
  <2> QED
    BY <2>1, <2>3, <2>7, <2>8 DEF SchemaInv
<1>8. ASSUME NEW r \in Results, CreateAfterCheck(r) PROVE SchemaInv'
  <2>1. initPc = "create" /\ it \in DbTables /\ CreateTable(r) /\ UNCHANGED <<stored, rest, mapChange, troubled>>
    BY <1>8 DEF CreateAfterCheck, NextTable, SchemaInv
  <2>2. PICK n \in DbTables : n = it
    BY <2>1
  <2>3. /\ tables' \in [DbTables -> Layouts]
        /\ m_mysql' = (r # "unreached")
        /\ ColumnsKept'
        /\ \A u \in DbTables \ {n} : tables'[u] = tables[u]
        /\ r = "ok" => Exists(n)'
    BY <1>t, <2>1, <2>2, CreateKeeps
  <2>4. TablesBefore(n)'
    BY <1>t, <2>1, <2>2, <2>3, BeforeKept DEF SchemaInv
  <2>5. n \in troubled
    BY <2>1, <2>2 DEF SchemaInv
  <2>6. CASE r = "ok"
    <3>1. it' = n + 1 /\ initPc' = "table"
      BY <1>8, <2>2, <2>6 DEF CreateAfterCheck, NextTable
    <3>2. TablesBefore(n + 1)'
      BY <2>1, <2>3, <2>4, <2>5, <2>6, BeforeNext
    <3>3. TablesBefore(it)'
      BY <3>1, <3>2 DEF TablesBefore, Exists, Complete
    <3>4. m_mysql' \in BOOLEAN /\ m_mysql'
      BY <2>3, <2>6, Zenon
    <3>5. SchemaTypeOK'
      BY <1>i, <1>t, <2>1, <2>3, <3>1, <3>4 DEF SchemaTypeOK
    <3> QED
      BY <2>3, <3>1, <3>3, <3>4, <3>5 DEF SchemaInv
  <2>7. CASE r # "ok"
    <3>1. it' = it /\ initPc' = "failed"
      BY <1>8, <2>7 DEF CreateAfterCheck
    <3>2. TablesBefore(it)'
      BY <2>2, <2>4, <3>1 DEF TablesBefore, Exists, Complete
    <3>3. m_mysql' \in BOOLEAN
      BY <2>3, Zenon
    <3>4. SchemaTypeOK'
      BY <1>t, <2>1, <2>3, <3>1, <3>3 DEF SchemaTypeOK
    <3> QED
      BY <2>1, <2>3, <2>5, <2>2, <3>1, <3>2, <3>4 DEF SchemaInv
  <2> QED
    BY <2>6, <2>7
<1>9. CASE InitFails \/ ProcessEnds
  BY <1>9, SchemaInvExit DEF InitFails, ProcessEnds
<1>10. CASE InitReturns
  <2>1. /\ initPc = "table" /\ it = TableCount + 1 /\ initPc' = "running"
        /\ UNCHANGED <<tables, stored, it, rest, mapChange, m_mysql, troubled>>
    BY <1>10 DEF InitReturns
  <2>2. SchemaTypeOK' /\ ColumnsKept' /\ TablesBefore(it)'
    BY <2>1 DEF SchemaInv, SchemaTypeOK, ColumnsKept, TablesBefore, Exists, Complete
  <2> QED
    BY <2>1, <2>2 DEF SchemaInv
<1>11. CASE UNCHANGED schemaVars
  BY <1>11 DEF schemaVars, SchemaInv, SchemaTypeOK, ColumnsKept, TablesBefore, Exists,
               Complete, AlterProgress
<1> QED
  BY <1>1, <1>2, <1>3, <1>4, <1>5, <1>6, <1>7, <1>8, <1>9, <1>10, <1>11 DEF SchemaNext

\* For any tables and columns, and however often Init is cut off or fails: a
\* server that runs has its connection and all tables, with every declared column
\* in those none of whose statements failed, and no start has lost a column.
THEOREM SchemaAlwaysSound == SchemaSpec => []SchemaSound
<1>1. SchemaInv => SchemaSound
  BY SchemaAssumption DEF SchemaInv, SchemaSound, ColumnsKept, TablesBefore, DbTables
<1> QED
  BY <1>1, SchemaInvInit, SchemaInvStep, PTL DEF SchemaSpec

-----------------------------------------------------------------------------
(* RpcChannel *)

RpcRequest == [id : Nat, of : Callers, kind : Kinds]
RpcResponse == [id : Nat, of : Callers, error : BOOLEAN]

\* The messages q on their way include one of caller c, and none has two.
Bears(q, c) == \E i \in DOMAIN q : q[i].of = c
OneEach(q) == \A i, j \in DOMAIN q : q[i].of = q[j].of => i = j
Served(c) == \E r \in serving : r.of = c

\* The registration that caller c makes.
CallOf(c) == [id |-> caller[c].id, of |-> c]
Registered(c) == CallOf(c) \in outstandings

\* The variables have their types.
RpcTypeOK ==
  /\ lastId \in Nat
  /\ caller \in [Callers -> [at : {"start", "first", "second", "sent"}, id : Nat,
                             kind : Kinds \cup {"none"}]]
  /\ toServer \in Seq(RpcRequest) /\ toClient \in Seq(RpcResponse) /\ serving \subseteq RpcRequest
  /\ \A c \in Callers : caller[c].at # "start" => caller[c].kind \in Kinds

\* Calls have different ids.
IdsApart ==
  /\ \A c \in Callers : caller[c].at # "start" => caller[c].id <= lastId
  /\ \A c, d \in Callers : /\ caller[c].at # "start" /\ caller[d].at # "start"
                           /\ caller[c].id = caller[d].id
                           => c = d

\* outstandings_ holds the registrations of callers, made before the request is
\* sent, until the channel is deleted.
OutstandingOK ==
  /\ \A o \in outstandings : /\ o.of \in Callers /\ o = CallOf(o.of)
                             /\ caller[o.of].at \in {"second", "sent"}
  /\ \A c \in Callers : caller[c].at = "second" => Registered(c)
  /\ ~channel => outstandings = {} /\ \A c \in Callers : caller[c].at \in {"start", "sent"}

\* What is on its way is the message of the call it names.
AskFits(x) ==
  caller[x.of].at = "sent" /\ x.id = caller[x.of].id /\ x.kind = caller[x.of].kind
ReplyFits(x) ==
  /\ caller[x.of].at = "sent" /\ x.id = caller[x.of].id
  /\ x.error <=> caller[x.of].kind # "ok"
MessagesFit ==
  /\ \A i \in DOMAIN toServer : AskFits(toServer[i])
  /\ \A x \in serving : AskFits(x) /\ x.kind = "ok"
  /\ \A i \in DOMAIN toClient : ReplyFits(toClient[i])

\* While the connection is up a registered call that was sent has one message on
\* its way; another call, or any when it is down, has none.
OneMessage ==
  /\ ~channel => ~rpcUp
  /\ OneEach(toServer) /\ OneEach(toClient)
  /\ \A c \in Callers :
       /\ ~(Bears(toServer, c) /\ Served(c)) /\ ~(Bears(toServer, c) /\ Bears(toClient, c))
       /\ ~(Served(c) /\ Bears(toClient, c))
       /\ (Bears(toServer, c) \/ Served(c) \/ Bears(toClient, c)) <=>
            (rpcUp /\ caller[c].at = "sent" /\ Registered(c))

\* A call that is over was answered, or its closure was deleted.
Answered ==
  /\ channel => dropped = {}
  /\ \A c \in Callers :
       /\ caller[c].at # "sent" \/ Registered(c) => answers[c] = <<>> /\ c \notin dropped
       /\ caller[c].at = "sent" /\ ~Registered(c) =>
            \/ /\ answers[c] = <<IF caller[c].kind = "ok" THEN c ELSE "nothing">>
               /\ c \notin dropped
            \/ answers[c] = <<>> /\ c \in dropped /\ ~channel
RpcInv ==
  /\ RpcTypeOK /\ IdsApart /\ OutstandingOK /\ MessagesFit /\ OneMessage /\ Answered
  /\ answers = [c \in Callers |-> answers[c]]

\* A message is put on the wire behind the others.
LEMMA BearsAppend ==
  ASSUME NEW S, NEW q \in Seq(S), NEW m \in S
  PROVE  /\ Append(q, m) \in Seq(S)
         /\ \A c : Bears(Append(q, m), c) <=> Bears(q, c) \/ m.of = c
         /\ OneEach(q) /\ ~Bears(q, m.of) => OneEach(Append(q, m))
         /\ \A i \in DOMAIN Append(q, m) : \/ i \in DOMAIN q /\ Append(q, m)[i] = q[i]
                                          \/ Append(q, m)[i] = m
<1> DEFINE p == Append(q, m)
           k == Len(q)
<1>1. DOMAIN q = 1..k /\ k \in Nat
  OBVIOUS
<1>2. /\ p \in Seq(S) /\ DOMAIN p = 1..(k + 1)
      /\ p[k + 1] = m /\ \A i \in 1..k : p[i] = q[i]
  BY AppendProperties
<1>3. 1..(k + 1) = (1..k) \cup {k + 1} /\ k + 1 \notin 1..k
  BY <1>1
<1> HIDE DEF p, k
<1>4. \A c : Bears(p, c) <=> Bears(q, c) \/ m.of = c
  BY <1>1, <1>2, <1>3 DEF Bears
<1>5. OneEach(q) /\ ~Bears(q, m.of) => OneEach(p)
  BY <1>1, <1>2, <1>3 DEF Bears, OneEach
<1>6. \A i \in DOMAIN p : \/ i \in DOMAIN q /\ p[i] = q[i]
                          \/ p[i] = m
  BY <1>1, <1>2, <1>3
<1> QED BY <1>2, <1>4, <1>5, <1>6 DEF p

\* The first message is taken off it.
LEMMA BearsTail ==
  ASSUME NEW S, NEW q \in Seq(S), q # <<>>
  PROVE  /\ Tail(q) \in Seq(S) /\ Head(q) \in S
         /\ \A c : Bears(q, c) <=> Bears(Tail(q), c) \/ Head(q).of = c
         /\ OneEach(q) => OneEach(Tail(q)) /\ ~Bears(Tail(q), Head(q).of)
         /\ \E i \in DOMAIN q : q[i] = Head(q)
         /\ \A i \in DOMAIN Tail(q) : \E j \in DOMAIN q : Tail(q)[i] = q[j]
<1> DEFINE p == Tail(q)
           h == Head(q)
           k == Len(q) - 1
<1>1. DOMAIN q = 1..(k + 1) /\ k \in Nat
  BY EmptySeq, LenProperties
<1>2. /\ p \in Seq(S) /\ DOMAIN p = 1..k
      /\ h \in S /\ h = q[1] /\ \A i \in 1..k : p[i] = q[i + 1]
  BY <1>1, HeadTailProperties
<1>3. \A j \in 1..k : j + 1 \in 1..(k + 1) /\ j + 1 # 1
  BY <1>1
<1>4. \A i, j \in 1..k : i + 1 = j + 1 => i = j
  BY <1>1
<1>5. 1 \in 1..(k + 1)
  BY <1>1
<1>6. \A i \in 1..(k + 1) : q[i] = h \/ \E j \in 1..k : q[i] = p[j]
  <2> SUFFICES ASSUME NEW i \in 1..(k + 1), i # 1 PROVE \E j \in 1..k : q[i] = p[j]
    BY <1>2
  <2>1. PICK j \in 1..k : i = j + 1
    <3>1. i - 1 \in 1..k /\ i = (i - 1) + 1
      BY <1>1
    <3> QED BY <3>1
  <2> QED BY <1>2, <2>1
<1> HIDE DEF p, h, k
<1>7. \A i \in 1..k : \E j \in 1..(k + 1) : j = i + 1 /\ j # 1 /\ q[j] = p[i]
  BY <1>2, <1>3
<1>8. \A c : Bears(q, c) <=> Bears(p, c) \/ h.of = c
  <2>1. ASSUME NEW c, Bears(q, c) PROVE Bears(p, c) \/ h.of = c
    <3>1. PICK i \in 1..(k + 1) : q[i].of = c
      BY <1>1, <2>1 DEF Bears
    <3>2. CASE q[i] = h
      BY <3>1, <3>2
    <3>3. CASE \E j \in 1..k : q[i] = p[j]
      BY <1>2, <3>1, <3>3 DEF Bears
    <3> QED BY <1>6, <3>2, <3>3
  <2>2. ASSUME NEW c, Bears(p, c) \/ h.of = c PROVE Bears(q, c)
    BY <1>1, <1>2, <1>5, <1>7, <2>2 DEF Bears
  <2> QED BY <2>1, <2>2
<1>9. OneEach(q) => OneEach(p)
  <2> SUFFICES ASSUME OneEach(q), NEW i \in 1..k, NEW j \in 1..k, p[i].of = p[j].of
               PROVE  i = j
    BY <1>2 DEF OneEach
  <2>1. PICK a \in 1..(k + 1), b \in 1..(k + 1) :
          a = i + 1 /\ b = j + 1 /\ q[a] = p[i] /\ q[b] = p[j]
    BY <1>7
  <2>2. a = b
    BY <1>1, <2>1 DEF OneEach
  <2> QED BY <1>4, <2>1, <2>2
<1>10. OneEach(q) => ~Bears(p, h.of)
  <2> SUFFICES ASSUME OneEach(q), NEW i \in 1..k, p[i].of = h.of PROVE FALSE
    BY <1>2 DEF Bears
  <2>1. PICK a \in 1..(k + 1) : a # 1 /\ q[a] = p[i]
    BY <1>7
  <2> QED BY <1>1, <1>2, <1>5, <2>1 DEF OneEach
<1>11. /\ \E i \in DOMAIN q : q[i] = h
       /\ \A i \in DOMAIN p : \E j \in DOMAIN q : p[i] = q[j]
  BY <1>1, <1>2, <1>5, <1>7
<1> QED BY <1>2, <1>8, <1>9, <1>10, <1>11 DEF p, h

\* Only what names a registered service and method and parses meets no error.
LEMMA ErrorFacts == \A k \in Kinds : Error[k] = "NO_ERROR" <=> k = "ok"
  BY RpcAssumption DEF Error

\* There are no calls at first.
LEMMA RpcInitInv == RpcInit => RpcInv
<1> SUFFICES ASSUME RpcInit PROVE RpcInv
  OBVIOUS
<1> USE DEF RpcInit
<1>1. \A c \in Callers : caller[c] = [at |-> "start", id |-> 0, kind |-> "none"]
  OBVIOUS
<1>2. RpcTypeOK
  BY <1>1 DEF RpcTypeOK
<1>3. IdsApart /\ OutstandingOK
  BY <1>1 DEF IdsApart, OutstandingOK
<1>4. MessagesFit /\ OneMessage
  BY <1>1 DEF MessagesFit, OneMessage, OneEach, Bears, Served
<1>5. Answered
  BY <1>1 DEF Answered, Registered
<1> QED BY <1>2, <1>3, <1>4, <1>5 DEF RpcInv

\* A message on its way names a caller.
LEMMA MessageOf ==
  ASSUME RpcTypeOK
  PROVE  /\ \A i \in DOMAIN toServer : toServer[i] \in RpcRequest /\ toServer[i].of \in Callers
         /\ \A i \in DOMAIN toClient : toClient[i] \in RpcResponse /\ toClient[i].of \in Callers
         /\ \A x \in serving : x \in RpcRequest /\ x.of \in Callers
<1>1. /\ \A i \in DOMAIN toServer : toServer[i] \in RpcRequest
      /\ \A i \in DOMAIN toClient : toClient[i] \in RpcResponse
      /\ \A x \in serving : x \in RpcRequest
  BY ElementOfSeq, LenProperties DEF RpcTypeOK
<1> QED BY <1>1 DEF RpcRequest, RpcResponse

\* A caller that has not sent its request has no message on its way.
LEMMA Unsent ==
  ASSUME RpcInv, NEW c \in Callers, caller[c].at # "sent"
  PROVE  /\ \A i \in DOMAIN toServer : toServer[i].of # c
         /\ \A x \in serving : x.of # c
         /\ \A i \in DOMAIN toClient : toClient[i].of # c
         /\ ~Bears(toServer, c) /\ ~Served(c) /\ ~Bears(toClient, c)
  BY DEF RpcInv, MessagesFit, AskFits, ReplyFits, Bears, Served

\* The id of a new call is greater than all before.
LEMMA TakeIdInv ==
  ASSUME RpcInv, NEW c \in Callers, NEW kind \in Kinds, TakeId(c, kind)
  PROVE  RpcInv'
<1> USE DEF RpcInv
<1>1. /\ channel /\ caller[c].at = "start" /\ lastId' = lastId + 1
      /\ caller' = [caller EXCEPT ![c] = [at |-> "first", id |-> lastId + 1, kind |-> kind]]
      /\ UNCHANGED <<rpcUp, channel, outstandings, toServer, toClient, serving, answers, dropped>>
  BY DEF TakeId
<1>2. lastId \in Nat /\ lastId + 1 \in Nat /\ \A n \in Nat : n <= lastId => n <= lastId + 1 /\ n # lastId + 1
  BY DEF RpcTypeOK
<1>3. /\ caller'[c] = [at |-> "first", id |-> lastId + 1, kind |-> kind]
      /\ \A d \in Callers : d # c => caller'[d] = caller[d]
  BY <1>1 DEF RpcTypeOK
<1>4. RpcTypeOK'
  BY <1>1, <1>2, <1>3 DEF RpcTypeOK
<1>5. \A d \in Callers : caller[d].id \in Nat
  BY DEF RpcTypeOK
<1>6. IdsApart'
  <2>1. lastId + 1 <= lastId + 1
    BY <1>2
  <2> QED BY <1>1, <1>2, <1>3, <1>5, <2>1 DEF IdsApart
<1>7. ~Registered(c) /\ ~Registered(c)' /\ \A o \in outstandings : o.of # c
  BY <1>1, <1>3 DEF OutstandingOK, Registered, CallOf
<1>8. \A d \in Callers : d # c => (Registered(d)' <=> Registered(d)) /\ CallOf(d)' = CallOf(d)
  BY <1>1, <1>3 DEF Registered, CallOf
<1>9. OutstandingOK'
  BY <1>1, <1>3, <1>7, <1>8 DEF OutstandingOK, Registered, CallOf
<1>10. MessagesFit'
  BY <1>1, <1>3, Unsent, MessageOf DEF MessagesFit, AskFits, ReplyFits
<1>11. OneMessage'
  BY <1>1, <1>3, <1>7, <1>8, Unsent DEF OneMessage, Served
<1>12. Answered'
  BY <1>1, <1>3, <1>7, <1>8 DEF Answered
<1> QED BY <1>1, <1>4, <1>6, <1>9, <1>10, <1>11, <1>12

\* The steps of CallMethod, in their order.
LEMMA StepFacts ==
  ASSUME RpcTypeOK, NEW c \in Callers
  PROVE  /\ Does(c, "register") => caller[c].at = "first"
         /\ Does(c, "send") => caller[c].at = "second"
         /\ DOMAIN Onward(c) = Callers
         /\ \A d \in Callers : d # c => Onward(c)[d] = caller[d]
         /\ Onward(c)[c].id = caller[c].id /\ Onward(c)[c].kind = caller[c].kind
         /\ Onward(c)[c].at = IF caller[c].at = "first" THEN "second" ELSE "sent"
         /\ Onward(c) \in [Callers -> [at : {"start", "first", "second", "sent"}, id : Nat,
                                     kind : Kinds \cup {"none"}]]
<1>2. /\ Does(c, "register") => caller[c].at = "first"
      /\ Does(c, "send") => caller[c].at = "second"
  BY DEF Does, First
<1>3. PICK x \in [at : {"start", "first", "second", "sent"}, id : Nat, kind : Kinds \cup {"none"}] :
        x = caller[c]
  BY DEF RpcTypeOK
<1>4. Onward(c) = [caller EXCEPT ![c] = [x EXCEPT !.at = IF x.at = "first" THEN "second" ELSE "sent"]]
  BY <1>3 DEF Onward, RpcTypeOK
<1>5. [x EXCEPT !.at = IF x.at = "first" THEN "second" ELSE "sent"] =
        [at |-> IF x.at = "first" THEN "second" ELSE "sent", id |-> x.id, kind |-> x.kind]
  OBVIOUS
<1> QED BY <1>2, <1>3, <1>4, <1>5 DEF RpcTypeOK

\* A call is registered before its request is sent.
LEMMA RegisterInv ==
  ASSUME RpcInv, NEW c \in Callers, Register(c)
  PROVE  RpcInv'
<1> USE DEF RpcInv
<1>1. /\ caller[c].at = "first"
      /\ outstandings' = outstandings \cup {CallOf(c)} /\ caller' = Onward(c)
      /\ UNCHANGED <<rpcUp, channel, lastId, toServer, toClient, serving, answers, dropped>>
  BY StepFacts DEF Register, CallOf
<1>2. /\ caller'[c].at = "second" /\ caller'[c].id = caller[c].id /\ caller'[c].kind = caller[c].kind
      /\ \A d \in Callers : d # c => caller'[d] = caller[d]
      /\ \A d \in Callers : CallOf(d)' = CallOf(d)
  BY <1>1, StepFacts DEF CallOf
<1>3. RpcTypeOK'
  <2>1. caller' \in [Callers -> [at : {"start", "first", "second", "sent"}, id : Nat,
                                kind : Kinds \cup {"none"}]]
    BY <1>1, StepFacts
  <2>2. \A d \in Callers : caller'[d].at # "start" => caller'[d].kind \in Kinds
    BY <1>1, <1>2 DEF RpcTypeOK
  <2> QED BY <1>1, <1>2, <2>1, <2>2 DEF RpcTypeOK
<1>4. IdsApart'
  BY <1>1, <1>2 DEF IdsApart
<1>5. CallOf(c).of = c /\ \A d \in Callers : CallOf(d).of = d
  BY DEF CallOf
<1>6. Registered(c)' /\ \A d \in Callers : d # c => (Registered(d)' <=> Registered(d))
  BY <1>1, <1>2, <1>5 DEF Registered
<1>7. OutstandingOK'
  <2>1. \A o \in outstandings' : /\ o.of \in Callers /\ o = CallOf(o.of)
                                /\ caller'[o.of].at \in {"second", "sent"}
    BY <1>1, <1>2, <1>5 DEF OutstandingOK
  <2>2. \A o \in outstandings' : o = CallOf(o.of)'
    BY <1>2, <2>1
  <2> QED BY <1>1, <1>2, <1>6, <2>1, <2>2 DEF OutstandingOK
<1>8. MessagesFit'
  BY <1>1, <1>2, Unsent, MessageOf DEF MessagesFit, AskFits, ReplyFits
<1>9. OneMessage'
  BY <1>1, <1>2, <1>6, Unsent DEF OneMessage, Served
<1>10. Answered'
  BY <1>1, <1>2, <1>6 DEF Answered
<1> QED BY <1>1, <1>3, <1>4, <1>7, <1>8, <1>9, <1>10

\* The request is sent, or dropped.
LEMMA SendRequestInv ==
  ASSUME RpcInv, NEW c \in Callers, SendRequest(c)
  PROVE  RpcInv'
<1> USE DEF RpcInv
<1> DEFINE m == [id |-> caller[c].id, of |-> c, kind |-> caller[c].kind]
<1>1. /\ caller[c].at = "second"
      /\ toServer' = (IF rpcUp THEN Append(toServer, m) ELSE toServer) /\ caller' = Onward(c)
      /\ UNCHANGED <<rpcUp, channel, lastId, outstandings, toClient, serving, answers, dropped>>
  BY StepFacts DEF SendRequest
<1>2. /\ caller'[c].at = "sent" /\ caller'[c].id = caller[c].id /\ caller'[c].kind = caller[c].kind
      /\ \A d \in Callers : d # c => caller'[d] = caller[d]
      /\ \A d \in Callers : CallOf(d)' = CallOf(d)
  BY <1>1, StepFacts DEF CallOf
<1>3. m \in RpcRequest /\ m.of = c /\ m.id = caller[c].id /\ m.kind = caller[c].kind
  BY <1>1 DEF RpcTypeOK, RpcRequest
<1> HIDE DEF m
<1>4. toServer \in Seq(RpcRequest)
  BY DEF RpcTypeOK
<1>5. /\ toServer' \in Seq(RpcRequest)
      /\ \A d : Bears(toServer', d) <=> Bears(toServer, d) \/ (rpcUp /\ c = d)
      /\ OneEach(toServer) /\ ~Bears(toServer, c) => OneEach(toServer')
      /\ \A i \in DOMAIN toServer' : \/ i \in DOMAIN toServer /\ toServer'[i] = toServer[i]
                                     \/ toServer'[i] = m
  <2>1. CASE rpcUp
    BY <1>1, <1>3, <1>4, <2>1, BearsAppend
  <2>2. CASE ~rpcUp
    BY <1>1, <1>4, <2>2
  <2> QED BY <2>1, <2>2
<1>6. RpcTypeOK'
  <2>1. caller' \in [Callers -> [at : {"start", "first", "second", "sent"}, id : Nat,
                                kind : Kinds \cup {"none"}]]
    BY <1>1, StepFacts
  <2>2. \A d \in Callers : caller'[d].at # "start" => caller'[d].kind \in Kinds
    BY <1>1, <1>2 DEF RpcTypeOK
  <2> QED BY <1>1, <1>2, <1>5, <2>1, <2>2 DEF RpcTypeOK
<1>7. IdsApart'
  BY <1>1, <1>2 DEF IdsApart
<1>8. Registered(c) /\ \A d \in Callers : Registered(d)' <=> Registered(d)
  BY <1>1, <1>2 DEF Registered, OutstandingOK
<1>9. OutstandingOK'
  <2>1. \A o \in outstandings' : /\ o.of \in Callers /\ o = CallOf(o.of)
                                /\ caller'[o.of].at \in {"second", "sent"}
    BY <1>1, <1>2 DEF OutstandingOK
  <2>2. \A o \in outstandings' : o = CallOf(o.of)'
    BY <1>2, <2>1
  <2> QED BY <1>1, <1>2, <1>8, <2>1, <2>2 DEF OutstandingOK
<1>10. MessagesFit'
  <2>1. \A i \in DOMAIN toServer' : AskFits(toServer[i])'
    BY <1>2, <1>3, <1>5, <1>1, Unsent, MessageOf DEF MessagesFit, AskFits
  <2>2. \A x \in serving' : AskFits(x)' /\ x.kind = "ok"
    BY <1>1, <1>2, Unsent, MessageOf DEF MessagesFit, AskFits
  <2>3. \A i \in DOMAIN toClient' : ReplyFits(toClient[i])'
    BY <1>1, <1>2, Unsent, MessageOf DEF MessagesFit, ReplyFits
  <2> QED BY <2>1, <2>2, <2>3 DEF MessagesFit
<1>11. OneMessage'
  BY <1>1, <1>2, <1>5, <1>8, Unsent DEF OneMessage, Served
<1>12. Answered'
  BY <1>1, <1>2, <1>8 DEF Answered
<1> QED BY <1>1, <1>6, <1>7, <1>9, <1>10, <1>11, <1>12

\* Messages change hands: the calls and their registrations stay.
LEMMA HandOnInv ==
  ASSUME RpcInv, UNCHANGED <<rpcUp, channel, lastId, caller, outstandings, answers, dropped>>,
         toServer' \in Seq(RpcRequest), toClient' \in Seq(RpcResponse), serving' \subseteq RpcRequest,
         MessagesFit', OneEach(toServer'), OneEach(toClient'),
         \A c \in Callers :
           /\ ~(Bears(toServer', c) /\ Served(c)') /\ ~(Bears(toServer', c) /\ Bears(toClient', c))
           /\ ~(Served(c)' /\ Bears(toClient', c))
           /\ (Bears(toServer', c) \/ Served(c)' \/ Bears(toClient', c)) <=>
                (Bears(toServer, c) \/ Served(c) \/ Bears(toClient, c))
  PROVE  RpcInv'
<1> USE DEF RpcInv
<1>1. RpcTypeOK' /\ IdsApart'
  BY DEF RpcTypeOK, IdsApart
<1>2. \A c \in Callers : Registered(c)' <=> Registered(c)
  BY DEF Registered, CallOf
<1>3. OutstandingOK' /\ Answered'
  BY <1>2 DEF OutstandingOK, Answered, CallOf
<1>4. OneMessage'
  BY <1>2 DEF OneMessage
<1> QED BY <1>1, <1>3, <1>4

\* A request reaches the server, which serves it or answers with an error.
LEMMA OnRpcRequestInv ==
  ASSUME RpcInv, OnRpcRequest
  PROVE  RpcInv'
<1> USE DEF RpcInv
<1> DEFINE r == Head(toServer)
           m == [id |-> r.id, of |-> r.of, error |-> TRUE]
<1>1. /\ toServer # <<>> /\ toServer' = Tail(toServer)
      /\ \/ Error[r.kind] = "NO_ERROR" /\ serving' = serving \cup {r} /\ toClient' = toClient
         \/ /\ Error[r.kind] # "NO_ERROR" /\ toClient' = Append(toClient, m)
            /\ serving' = serving
      /\ UNCHANGED <<rpcUp, channel, lastId, caller, outstandings, answers, dropped>>
  BY DEF OnRpcRequest
<1>2. toServer \in Seq(RpcRequest) /\ toClient \in Seq(RpcResponse) /\ serving \subseteq RpcRequest
  BY DEF RpcTypeOK
<1>3. /\ toServer' \in Seq(RpcRequest) /\ r \in RpcRequest
      /\ \A c : Bears(toServer, c) <=> Bears(toServer', c) \/ r.of = c
      /\ OneEach(toServer) => OneEach(toServer') /\ ~Bears(toServer', r.of)
      /\ \E i \in DOMAIN toServer : toServer[i] = r
      /\ \A i \in DOMAIN toServer' : \E j \in DOMAIN toServer : toServer'[i] = toServer[j]
  BY <1>1, <1>2, BearsTail
<1> HIDE DEF r
<1>4. AskFits(r) /\ r.of \in Callers /\ r.kind \in Kinds /\ Bears(toServer, r.of)
  BY <1>3 DEF MessagesFit, RpcRequest
<1>5. OneEach(toServer') /\ OneEach(toClient) /\ ~Served(r.of) /\ ~Bears(toClient, r.of)
  BY <1>3, <1>4 DEF OneMessage
<1>6. \A i \in DOMAIN toServer' : AskFits(toServer[i])'
  BY <1>1, <1>3 DEF MessagesFit, AskFits
<1>7. CASE Error[r.kind] = "NO_ERROR" /\ serving' = serving \cup {r} /\ toClient' = toClient
  <2>1. r.kind = "ok"
    BY <1>4, <1>7, ErrorFacts
  <2>2. MessagesFit'
    BY <1>1, <1>4, <1>6, <1>7, <2>1 DEF MessagesFit, AskFits, ReplyFits
  <2>3. \A c \in Callers : Served(c)' <=> Served(c) \/ r.of = c
    BY <1>7 DEF Served
  <2>4. \A c \in Callers :
          /\ ~(Bears(toServer', c) /\ Served(c)') /\ ~(Bears(toServer', c) /\ Bears(toClient', c))
          /\ ~(Served(c)' /\ Bears(toClient', c))
          /\ (Bears(toServer', c) \/ Served(c)' \/ Bears(toClient', c)) <=>
               (Bears(toServer, c) \/ Served(c) \/ Bears(toClient, c))
    BY <1>3, <1>5, <1>7, <2>3 DEF OneMessage
  <2> QED BY <1>1, <1>2, <1>3, <1>5, <1>7, <2>2, <2>4, HandOnInv
<1>8. CASE Error[r.kind] # "NO_ERROR" /\ toClient' = Append(toClient, m) /\ serving' = serving
  <2>1. r.kind # "ok"
    BY <1>4, <1>8, ErrorFacts
  <2>2. m \in RpcResponse /\ m.of = r.of /\ m.id = r.id /\ m.error
    BY <1>3 DEF RpcResponse, RpcRequest
  <2> HIDE DEF m
  <2>3. /\ toClient' \in Seq(RpcResponse)
        /\ \A c : Bears(toClient', c) <=> Bears(toClient, c) \/ r.of = c
        /\ OneEach(toClient) /\ ~Bears(toClient, r.of) => OneEach(toClient')
        /\ \A i \in DOMAIN toClient' : \/ i \in DOMAIN toClient /\ toClient'[i] = toClient[i]
                                       \/ toClient'[i] = m
    BY <1>2, <1>8, <2>2, BearsAppend
  <2>4. \A i \in DOMAIN toClient' : ReplyFits(toClient[i])'
    BY <1>1, <1>4, <2>1, <2>2, <2>3 DEF MessagesFit, AskFits, ReplyFits
  <2>5. MessagesFit'
    BY <1>1, <1>6, <1>8, <2>4 DEF MessagesFit, AskFits
  <2>6. \A c \in Callers : Served(c)' <=> Served(c)
    BY <1>8 DEF Served
  <2>7. \A c \in Callers :
          /\ ~(Bears(toServer', c) /\ Served(c)') /\ ~(Bears(toServer', c) /\ Bears(toClient', c))
          /\ ~(Served(c)' /\ Bears(toClient', c))
          /\ (Bears(toServer', c) \/ Served(c)' \/ Bears(toClient', c)) <=>
               (Bears(toServer, c) \/ Served(c) \/ Bears(toClient, c))
    BY <1>3, <1>5, <2>3, <2>6 DEF OneMessage
  <2> QED BY <1>1, <1>2, <1>3, <1>5, <1>8, <2>3, <2>5, <2>7, HandOnInv
<1> QED BY <1>1, <1>7, <1>8

\* A service finishes: the only request of its caller becomes a response.
LEMMA DoneCallbackInv ==
  ASSUME RpcInv, NEW r \in serving, DoneCallback(r)
  PROVE  RpcInv'
<1> USE DEF RpcInv
<1> DEFINE m == [id |-> r.id, of |-> r.of, error |-> FALSE]
<1>1. /\ serving' = serving \ {r} /\ toClient' = Append(toClient, m)
      /\ UNCHANGED <<rpcUp, channel, lastId, caller, outstandings, toServer, answers, dropped>>
  BY DEF DoneCallback
<1>2. toServer \in Seq(RpcRequest) /\ toClient \in Seq(RpcResponse) /\ serving \subseteq RpcRequest
  BY DEF RpcTypeOK
<1>3. /\ r \in RpcRequest /\ r.of \in Callers /\ AskFits(r) /\ r.kind = "ok" /\ Served(r.of)
  BY MessageOf DEF MessagesFit, Served
<1>4. m \in RpcResponse /\ m.of = r.of /\ m.id = r.id /\ m.error = FALSE
  BY <1>3 DEF RpcResponse, RpcRequest
<1> HIDE DEF m
<1>5. /\ toClient' \in Seq(RpcResponse)
      /\ \A c : Bears(toClient', c) <=> Bears(toClient, c) \/ r.of = c
      /\ OneEach(toClient) /\ ~Bears(toClient, r.of) => OneEach(toClient')
      /\ \A i \in DOMAIN toClient' : \/ i \in DOMAIN toClient /\ toClient'[i] = toClient[i]
                                     \/ toClient'[i] = m
  BY <1>1, <1>2, <1>4, BearsAppend
<1>6. OneEach(toServer) /\ OneEach(toClient) /\ ~Bears(toServer, r.of) /\ ~Bears(toClient, r.of)
  BY <1>3 DEF OneMessage
<1>7. \A x \in serving : x.of = r.of => x = r
  <2> SUFFICES ASSUME NEW x \in serving, x.of = r.of PROVE x = r
    OBVIOUS
  <2>1. x.id = r.id /\ x.kind = r.kind
    BY <1>3 DEF MessagesFit, AskFits
  <2>2. x \in RpcRequest
    BY <1>2
  <2> QED BY <1>3, <2>1, <2>2 DEF RpcRequest
<1>8. \A c \in Callers : Served(c)' <=> Served(c) /\ r.of # c
  BY <1>1, <1>7 DEF Served
<1>9. MessagesFit'
  <2>1. \A i \in DOMAIN toClient' : ReplyFits(toClient[i])'
    BY <1>1, <1>3, <1>4, <1>5 DEF MessagesFit, AskFits, ReplyFits
  <2>2. \A i \in DOMAIN toServer' : AskFits(toServer[i])'
    BY <1>1 DEF MessagesFit, AskFits
  <2>3. \A x \in serving' : AskFits(x)' /\ x.kind = "ok"
    BY <1>1 DEF MessagesFit, AskFits
  <2> QED BY <2>1, <2>2, <2>3 DEF MessagesFit
<1>10. \A c \in Callers :
         /\ ~(Bears(toServer', c) /\ Served(c)') /\ ~(Bears(toServer', c) /\ Bears(toClient', c))
         /\ ~(Served(c)' /\ Bears(toClient', c))
         /\ (Bears(toServer', c) \/ Served(c)' \/ Bears(toClient', c)) <=>
              (Bears(toServer, c) \/ Served(c) \/ Bears(toClient, c))
  BY <1>1, <1>3, <1>5, <1>6, <1>8 DEF OneMessage
<1> QED BY <1>1, <1>2, <1>5, <1>6, <1>9, <1>10, HandOnInv

\* The first answer.
LEMMA AppendToNone == \A x : Append(<<>>, x) = <<x>>
  OBVIOUS

\* A response finds the registration of its caller, and no other.
LEMMA OnRpcResponseInv ==
  ASSUME RpcInv, OnRpcResponse
  PROVE  RpcInv'
<1> USE DEF RpcInv
<1>0. PICK m : m = Head(toClient)
  OBVIOUS
<1> DEFINE found == {o \in outstandings : o.id = m.id}
           got == IF m.error THEN "nothing" ELSE m.of
<1>1. /\ toClient # <<>> /\ toClient' = Tail(toClient)
      /\ outstandings' = outstandings \ found
      /\ answers' = [c \in Callers |-> IF \E o \in found : o.of = c
                                       THEN Append(answers[c], got) ELSE answers[c]]
      /\ UNCHANGED <<rpcUp, channel, lastId, caller, toServer, serving, dropped>>
  BY <1>0 DEF OnRpcResponse
<1>2. toClient \in Seq(RpcResponse)
  BY DEF RpcTypeOK
<1>3. /\ toClient' \in Seq(RpcResponse) /\ m \in RpcResponse
      /\ \A c : Bears(toClient, c) <=> Bears(toClient', c) \/ m.of = c
      /\ OneEach(toClient) => OneEach(toClient') /\ ~Bears(toClient', m.of)
      /\ \E i \in DOMAIN toClient : toClient[i] = m
      /\ \A i \in DOMAIN toClient' : \E j \in DOMAIN toClient : toClient'[i] = toClient[j]
  BY <1>0, <1>1, <1>2, BearsTail
<1>4. ReplyFits(m) /\ m.of \in Callers /\ Bears(toClient, m.of)
  BY <1>3 DEF MessagesFit, RpcResponse
<1>5. /\ OneEach(toClient') /\ ~Bears(toClient', m.of) /\ ~Bears(toServer, m.of) /\ ~Served(m.of)
      /\ caller[m.of].at = "sent" /\ Registered(m.of)
  BY <1>3, <1>4 DEF OneMessage
<1>6. found = {CallOf(m.of)}
  <2>1. CallOf(m.of).id = m.id
    BY <1>4 DEF CallOf, ReplyFits
  <2>2. ASSUME NEW o \in outstandings, o.id = m.id PROVE o = CallOf(m.of)
    <3>1. o.of \in Callers /\ o = CallOf(o.of) /\ caller[o.of].at # "start"
      BY DEF OutstandingOK
    <3>2. o.id = caller[o.of].id
      BY <3>1 DEF CallOf
    <3>3. caller[o.of].id = caller[m.of].id
      BY <1>4, <2>2, <3>2 DEF ReplyFits
    <3>4. o.of = m.of
      BY <1>4, <1>5, <3>1, <3>3 DEF IdsApart
    <3> QED BY <3>1, <3>4
  <2> QED BY <1>5, <2>1, <2>2 DEF Registered
<1>7. \A c \in Callers : CallOf(c).of = c /\ CallOf(c)' = CallOf(c)
  BY <1>1 DEF CallOf
<1>8. /\ \A c \in Callers : c # m.of => answers'[c] = answers[c]
      /\ answers'[m.of] = Append(answers[m.of], got)
      /\ outstandings' = outstandings \ {CallOf(m.of)}
      /\ answers' = [c \in Callers |-> answers'[c]]
  BY <1>1, <1>4, <1>6, <1>7
<1>9. got = IF caller[m.of].kind = "ok" THEN m.of ELSE "nothing"
  BY <1>4 DEF ReplyFits
<1> HIDE DEF found, got
<1>10. ~Registered(m.of)' /\ \A c \in Callers : c # m.of => (Registered(c)' <=> Registered(c))
  BY <1>4, <1>7, <1>8 DEF Registered
<1>11. RpcTypeOK' /\ IdsApart'
  BY <1>1, <1>3 DEF RpcTypeOK, IdsApart
<1>12. OutstandingOK'
  <2>1. \A o \in outstandings' : /\ o.of \in Callers /\ o = CallOf(o.of)
                                /\ caller'[o.of].at \in {"second", "sent"}
    BY <1>1, <1>8 DEF OutstandingOK
  <2>2. \A o \in outstandings' : o = CallOf(o.of)'
    BY <1>7, <2>1
  <2>3. \A c \in Callers : caller'[c].at = "second" => Registered(c)'
    BY <1>1, <1>5, <1>10 DEF OutstandingOK
  <2> QED BY <1>1, <2>1, <2>2, <2>3 DEF OutstandingOK
<1>13. MessagesFit'
  <2>1. \A i \in DOMAIN toClient' : ReplyFits(toClient[i])'
    BY <1>1, <1>3 DEF MessagesFit, ReplyFits
  <2> QED BY <1>1, <2>1 DEF MessagesFit, AskFits
<1>14. OneMessage'
  <2>1. \A c \in Callers : Served(c)' <=> Served(c)
    BY <1>1 DEF Served
  <2> QED BY <1>1, <1>3, <1>5, <1>10, <2>1 DEF OneMessage
<1>15. Answered'
  <2>1. answers[m.of] = <<>> /\ m.of \notin dropped
    BY <1>4, <1>5 DEF Answered
  <2>2. answers'[m.of] = <<got>>
    BY <1>8, <2>1, AppendToNone
  <2>3. answers'[m.of] = <<IF caller[m.of].kind = "ok" THEN m.of ELSE "nothing">>
    BY <1>9, <2>2
  <2> DEFINE Settled(c) ==
        /\ caller[c].at # "sent" \/ Registered(c) => answers[c] = <<>> /\ c \notin dropped
        /\ caller[c].at = "sent" /\ ~Registered(c) =>
             \/ /\ answers[c] = <<IF caller[c].kind = "ok" THEN c ELSE "nothing">>
                /\ c \notin dropped
             \/ answers[c] = <<>> /\ c \in dropped /\ ~channel
  <2>4. Settled(m.of)'
    BY <1>1, <1>5, <1>10, <2>1, <2>3
  <2>5. ASSUME NEW c \in Callers, c # m.of PROVE Settled(c)'
    <3>1. Settled(c)
      BY DEF Answered
    <3> QED BY <1>1, <1>8, <1>10, <2>5, <3>1
  <2>6. \A c \in Callers : Settled(c)'
    BY <2>4, <2>5
  <2> QED BY <1>1, <2>6 DEF Answered
<1> QED BY <1>8, <1>11, <1>12, <1>13, <1>14, <1>15

\* The connection is lost with all messages on their way; the calls stay.
LEMMA ConnectionLostInv ==
  ASSUME RpcInv, ConnectionLost
  PROVE  RpcInv'
<1> USE DEF RpcInv
<1>1. /\ ~rpcUp' /\ serving' = {} /\ toServer' = <<>> /\ toClient' = <<>>
      /\ UNCHANGED <<channel, lastId, caller, outstandings, answers, dropped>>
  BY DEF ConnectionLost
<1>2. RpcTypeOK' /\ IdsApart' /\ MessagesFit'
  BY <1>1 DEF RpcTypeOK, IdsApart, MessagesFit
<1>3. \A c \in Callers : (Registered(c)' <=> Registered(c)) /\ CallOf(c)' = CallOf(c)
  BY <1>1 DEF Registered, CallOf
<1>4. OneMessage'
  BY <1>1, <1>3 DEF OneMessage, OneEach, Bears, Served
<1>5. OutstandingOK' /\ Answered'
  BY <1>1, <1>3 DEF OutstandingOK, Answered, CallOf
<1> QED BY <1>1, <1>2, <1>4, <1>5

\* The channel is deleted: calls without an answer lose their closures.
LEMMA DeleteChannelInv ==
  ASSUME RpcInv, DeleteChannel
  PROVE  RpcInv'
<1> USE DEF RpcInv
<1>1. /\ channel /\ ~channel' /\ ~rpcUp /\ \A c \in Callers : caller[c].at \in {"start", "sent"}
      /\ dropped' = {o.of : o \in outstandings}
      /\ outstandings' = {}
      /\ UNCHANGED <<rpcUp, lastId, caller, toServer, toClient, serving, answers>>
  BY DEF DeleteChannel
<1>2. RpcTypeOK' /\ IdsApart' /\ MessagesFit'
  BY <1>1 DEF RpcTypeOK, IdsApart, MessagesFit, AskFits, ReplyFits
<1>3. \A c \in Callers : ~Registered(c)'
  BY <1>1 DEF Registered
<1>4. OneMessage'
  BY <1>1, <1>3 DEF OneMessage, OneEach, Bears, Served
<1>5. \A c \in Callers : c \in dropped' <=> Registered(c)
  BY <1>1 DEF OutstandingOK, Registered, CallOf
<1>6. \A c \in Callers : caller[c].at # "sent" => ~Registered(c)
  BY <1>1 DEF OutstandingOK, Registered, CallOf
<1>7. Answered'
  BY <1>1, <1>3, <1>5, <1>6 DEF Answered
<1>8. OutstandingOK'
  BY <1>1 DEF OutstandingOK
<1> QED BY <1>1, <1>2, <1>4, <1>7, <1>8

\* Every step keeps the invariant.
LEMMA RpcNextInv == RpcInv /\ [RpcNext]_rpcVars => RpcInv'
<1> SUFFICES ASSUME RpcInv, [RpcNext]_rpcVars PROVE RpcInv'
  OBVIOUS
<1>1. CASE \E c \in Callers, kind \in Kinds : TakeId(c, kind)
  BY <1>1, TakeIdInv
<1>2. CASE \E c \in Callers : Register(c) \/ SendRequest(c)
  BY <1>2, RegisterInv, SendRequestInv
<1>3. CASE OnRpcRequest
  BY <1>3, OnRpcRequestInv
<1>4. CASE \E r \in serving : DoneCallback(r)
  BY <1>4, DoneCallbackInv
<1>5. CASE OnRpcResponse
  BY <1>5, OnRpcResponseInv
<1>6. CASE ConnectionLost
  BY <1>6, ConnectionLostInv
<1>8. CASE DeleteChannel
  BY <1>8, DeleteChannelInv
<1>7. CASE UNCHANGED rpcVars
  <2>1. UNCHANGED <<rpcUp, channel, lastId, caller, outstandings, toServer, toClient, serving,
                    answers, dropped>>
    BY <1>7 DEF rpcVars
  <2>2. RpcTypeOK' /\ IdsApart' /\ OutstandingOK' /\ MessagesFit'
    BY <2>1 DEF RpcInv, RpcTypeOK, IdsApart, OutstandingOK, MessagesFit, AskFits, ReplyFits,
                Registered, CallOf
  <2>3. OneMessage' /\ Answered'
    BY <2>1 DEF RpcInv, OneMessage, Answered, Served, Registered, CallOf
  <2> QED BY <2>1, <2>2, <2>3 DEF RpcInv
<1> QED BY <1>1, <1>2, <1>3, <1>4, <1>5, <1>6, <1>7, <1>8 DEF RpcNext

\* RpcChannel, for any number of threads that call at once: while the connection
\* is up a call that was sent waits for exactly one response that finds its
\* registration, or its closure ran once with the response to its own request;
\* after the loss of the connection a call without an answer hangs until the
\* channel is deleted, and its closure with it.
THEOREM CallsAlwaysAnsweredOnce == RpcSpec => []CallsAnsweredOnce
<1>1. RpcInv => CallsAnsweredOnce
  <2> SUFFICES ASSUME RpcInv, NEW c \in Callers
               PROVE  /\ caller[c].at # "sent" => answers[c] = <<>> /\ c \notin dropped
                      /\ caller[c].at = "sent" /\ Outstanding(c) =>
                           /\ channel /\ answers[c] = <<>> /\ c \notin dropped
                           /\ rpcUp => \E x \in OnTheWay(c) : OnTheWay(c) = {x}
                           /\ ~rpcUp => OnTheWay(c) = {}
                      /\ caller[c].at = "sent" /\ ~Outstanding(c) =>
                           /\ OnTheWay(c) = {}
                           /\ \/ /\ answers[c] = <<IF caller[c].kind = "ok" THEN c ELSE "nothing">>
                                 /\ c \notin dropped
                              \/ answers[c] = <<>> /\ c \in dropped /\ ~channel
    BY Zenon DEF CallsAnsweredOnce
  <2> USE DEF RpcInv
  <2>1. /\ Outstanding(c) <=> Registered(c)
        /\ Outstanding(c) => channel
    BY DEF OutstandingOK, Outstanding, Registered, CallOf
  <2>4. ~(Bears(toServer, c) \/ Served(c) \/ Bears(toClient, c)) => OnTheWay(c) = {}
    BY DEF OnTheWay, Bears, Served, Range
  <2>2. ASSUME Bears(toServer, c) \/ Served(c) \/ Bears(toClient, c)
        PROVE  \E x \in OnTheWay(c) : OnTheWay(c) = {x}
    <3> DEFINE mine == OnTheWay(c)
    <3>1. CASE Bears(toServer, c)
      <4>1. PICK i \in DOMAIN toServer : toServer[i].of = c
        BY <3>1 DEF Bears
      <4>2. \A x \in Range(toServer) : x.of = c => x = toServer[i]
        BY <4>1 DEF Range, OneMessage, OneEach
      <4>3. /\ \A x \in serving : x.of # c
            /\ \A x \in Range(toClient) : x.of # c
        BY <3>1 DEF OneMessage, Served, Bears, Range
      <4>4. mine = {toServer[i]}
        BY <4>1, <4>2, <4>3 DEF Range, OnTheWay
      <4> QED BY <4>4
    <3>2. CASE Served(c)
      <4>1. PICK r \in serving : r.of = c
        BY <3>2 DEF Served
      <4>2. \A x \in serving : x.of = c => x = r
        <5> SUFFICES ASSUME NEW x \in serving, x.of = c PROVE x = r
          OBVIOUS
        <5>1. x.id = r.id /\ x.kind = r.kind
          BY <4>1 DEF MessagesFit, AskFits
        <5>2. x \in RpcRequest /\ r \in RpcRequest
          BY MessageOf
        <5> QED BY <4>1, <5>1, <5>2 DEF RpcRequest
      <4>3. /\ \A x \in Range(toServer) : x.of # c
            /\ \A x \in Range(toClient) : x.of # c
        BY <3>2 DEF OneMessage, Bears, Range
      <4>4. mine = {r}
        BY <4>1, <4>2, <4>3 DEF OnTheWay
      <4> QED BY <4>4
    <3>3. CASE Bears(toClient, c)
      <4>1. PICK i \in DOMAIN toClient : toClient[i].of = c
        BY <3>3 DEF Bears
      <4>2. \A x \in Range(toClient) : x.of = c => x = toClient[i]
        BY <4>1 DEF Range, OneMessage, OneEach
      <4>3. /\ \A x \in serving : x.of # c
            /\ \A x \in Range(toServer) : x.of # c
        BY <3>3 DEF OneMessage, Served, Bears, Range
      <4>4. mine = {toClient[i]}
        BY <4>1, <4>2, <4>3 DEF Range, OnTheWay
      <4> QED BY <4>4
    <3> QED BY <2>2, <3>1, <3>2, <3>3
  <2>3. (Bears(toServer, c) \/ Served(c) \/ Bears(toClient, c)) <=>
          (rpcUp /\ caller[c].at = "sent" /\ Registered(c))
    BY DEF OneMessage
  <2> QED BY <2>1, <2>2, <2>3, <2>4 DEF Answered
<1> QED BY <1>1, RpcInitInv, RpcNextInv, PTL DEF RpcSpec

-----------------------------------------------------------------------------
(* AvatarStore *)

Active(r) == upload[r] \notin {"new", "done"}

\* The variables have their types, and names and paths belong to their users.
AvatarTypeOK ==
  /\ second \in Nat
  /\ dir = [n \in DOMAIN dir |-> dir[n]] /\ DOMAIN dir \subseteq Users \X Nat
  /\ upload \in [Reqs -> {"new", "listed", "resized", "created", "done"}]
  /\ listed = [r \in Reqs |-> listed[r]] /\ path = [r \in Reqs |-> path[r]]
  /\ current \in [Users -> Uploads \cup {NoAvatar}]
  /\ \A r \in Reqs :
       /\ \A n \in listed[r] : n[1] = UserOf[r]
       /\ upload[r] = "created" => path[r][1] = UserOf[r]
       /\ upload[r] \in {"resized", "created"} => r \in Uploads

\* Two requests of a user at the same time are noticed.
ClashesSeen ==
  \A r, s \in Reqs : r # s /\ UserOf[r] = UserOf[s] /\ Active(r) /\ Active(s) =>
                       UserOf[r] \in clashed

\* What the last request of u left, with no error in its removals and with one.
Left(u) ==
  /\ current[u] # NoAvatar =>
       \E n \in FilesOf(u) : dir[n] = [by |-> current[u], whole |-> TRUE]
  /\ u \notin botched =>
       IF current[u] = NoAvatar THEN FilesOf(u) = {} ELSE \E n : FilesOf(u) = {n}

\* Where request r of u is, with no other one at work.
InHand(u, r) ==
  /\ upload[r] = "listed" => (u \notin botched => listed[r] = FilesOf(u))
  /\ upload[r] = "resized" => (u \notin botched => FilesOf(u) = {})
  /\ upload[r] = "created" => /\ path[r] \in FilesOf(u)
                              /\ u \notin botched => FilesOf(u) = {path[r]}
                              /\ dir[path[r]] = [by |-> r, whole |-> FALSE]
UserOK(u) ==
  /\ (\A r \in Reqs : UserOf[r] = u => ~Active(r)) => Left(u)
  /\ \A r \in Reqs : UserOf[r] = u => InHand(u, r)
AvatarInv ==
  /\ AvatarTypeOK /\ ClashesSeen
  /\ \A u \in Users \ clashed : UserOK(u)

\* Nothing of u is touched.
Untouched(u) ==
  /\ FilesOf(u)' = FilesOf(u)
  /\ \A n \in FilesOf(u) : dir'[n] = dir[n]
  /\ current'[u] = current[u] /\ (u \in botched' <=> u \in botched)
  /\ \A s \in Reqs : UserOf[s] = u => /\ upload'[s] = upload[s]
                                      /\ listed'[s] = listed[s]
                                      /\ path'[s] = path[s]

\* Alone(r): r is the only request of its user at work.
Alone(r) == \A s \in Reqs \ {r} : UserOf[s] = UserOf[r] => ~Active(s)

\* FilesOf only depends on the names in the directory.
LEMMA UntouchedKept ==
  ASSUME NEW u \in Users, UserOK(u), Untouched(u)
  PROVE  UserOK(u)'
<1>1. Left(u) => Left(u)'
  BY DEF Left, Untouched
<1>2. ASSUME NEW r \in Reqs, UserOf[r] = u
      PROVE  InHand(u, r)'
  BY <1>2 DEF UserOK, InHand, Untouched
<1> QED BY <1>1, <1>2 DEF UserOK, Untouched, Active

\* A step that makes no request busy keeps clashes seen.
LEMMA ClashesKept ==
  ASSUME ClashesSeen, clashed' = clashed,
         \A s \in Reqs : Active(s)' => Active(s)
  PROVE  ClashesSeen'
BY DEF ClashesSeen

\* While a request of a user without clashes is at work, no other one is.
LEMMA AloneAtWork ==
  ASSUME ClashesSeen, NEW r \in Reqs, Active(r), UserOf[r] \notin clashed
  PROVE  Alone(r)
BY DEF ClashesSeen, Alone

\* The requests of u but r are idle before and after, so only r counts.
LEMMA OnlyOne ==
  ASSUME NEW r \in Reqs, Alone(r),
         \A s \in Reqs \ {r} : upload'[s] = upload[s],
         InHand(UserOf[r], r)',
         ~Active(r)' => Left(UserOf[r])'
  PROVE  UserOK(UserOf[r])'
<1> DEFINE u == UserOf[r]
<1>1. ASSUME NEW s \in Reqs, UserOf[s] = u
      PROVE  InHand(u, s)'
  <2>1. CASE s = r
    BY <2>1
  <2>2. CASE s # r
    BY <1>1, <2>2 DEF Alone, Active, InHand
  <2> QED BY <2>1, <2>2
<1> QED BY <1>1 DEF UserOK

\* A request touches the files, the avatar and the requests of its user only.
LEMMA OthersKept ==
  ASSUME AvatarInv, NEW r \in Reqs, clashed \subseteq clashed',
         \A s \in Reqs \ {r} : /\ upload'[s] = upload[s]
                               /\ listed'[s] = listed[s]
                               /\ path'[s] = path[s],
         \A u \in Users \ {UserOf[r]} : current'[u] = current[u] /\ (u \in botched' <=> u \in botched),
         \A u \in Users \ {UserOf[r]} :
           /\ FilesOf(u)' = FilesOf(u)
           /\ \A n \in FilesOf(u) : dir'[n] = dir[n],
         UserOf[r] \notin clashed' => UserOK(UserOf[r])'
  PROVE  \A u \in Users \ clashed' : UserOK(u)'
<1> SUFFICES ASSUME NEW u \in Users, u \notin clashed' PROVE UserOK(u)'
  OBVIOUS
<1>1. CASE u = UserOf[r]
  BY <1>1
<1>2. CASE u # UserOf[r]
  <2>1. UserOK(u)
    BY DEF AvatarInv
  <2>2. Untouched(u)
    BY <1>2 DEF Untouched
  <2> QED BY <2>1, <2>2, UntouchedKept
<1> QED BY <1>1, <1>2

\* The initial states: no files and no requests.
LEMMA AvatarInitInv ==
  AvatarInit => AvatarInv
<1> SUFFICES ASSUME AvatarInit PROVE AvatarInv
  OBVIOUS
<1>1. DOMAIN dir = {}
  BY DEF AvatarInit
<1>2. AvatarTypeOK
  BY <1>1 DEF AvatarInit, AvatarTypeOK
<1>3. ClashesSeen
  BY DEF AvatarInit, ClashesSeen, Active
<1>4. \A u \in Users : FilesOf(u) = {} /\ current[u] = NoAvatar
  BY <1>1 DEF AvatarInit, FilesOf
<1>5. \A s \in Reqs : upload[s] = "new"
  BY DEF AvatarInit
<1>6. \A u \in Users : Left(u)
  BY <1>4 DEF Left
<1>7. \A u \in Users : UserOK(u)
  <2> SUFFICES ASSUME NEW u \in Users PROVE UserOK(u)
    OBVIOUS
  <2>1. \A s \in Reqs : InHand(u, s)
    BY <1>5 DEF InHand
  <2> QED BY <1>6, <2>1 DEF UserOK
<1> QED BY <1>2, <1>3, <1>7 DEF AvatarInv

\* A refused upload leaves everything but itself.
LEMMA RefuseInv ==
  ASSUME AvatarInv, NEW r \in Reqs, upload[r] = "new", Refuse(r)
  PROVE  AvatarInv'
<1> USE DEF Refuse, Finish
<1>0. UserOf[r] \in Users
  BY DEF Users
<1>1. current' = current
  BY <1>0 DEF AvatarInv, AvatarTypeOK
<1>2. upload' = [upload EXCEPT ![r] = "done"] /\ upload \in [Reqs -> {"new", "listed", "resized", "created", "done"}]
  BY DEF AvatarInv, AvatarTypeOK
<1>3. AvatarTypeOK'
  <2>1. /\ AvatarTypeOK /\ dir' = dir /\ listed' = listed
        /\ path' = path /\ second' = second
    BY DEF AvatarInv
  <2>2. \A s \in Reqs : upload'[s] = upload[s] \/ upload'[s] = "done"
    BY <1>2
  <2>3. upload' \in [Reqs -> {"new", "listed", "resized", "created", "done"}]
    BY <1>2
  <2> HIDE DEF Refuse, Finish
  <2> QED BY <1>1, <2>1, <2>2, <2>3 DEF AvatarTypeOK
<1>4. ClashesSeen'
  BY <1>2, ClashesKept DEF AvatarInv, Active
<1>5. ASSUME NEW u \in Users, UserOK(u) PROVE UserOK(u)'
  <2>1. Left(u)' = Left(u)
    BY <1>1 DEF Left, FilesOf
  <2>2. ASSUME NEW s \in Reqs, UserOf[s] = u PROVE InHand(u, s)'
    <3>1. InHand(u, s)
      BY <1>5, <2>2 DEF UserOK
    <3>2. upload'[s] = upload[s] \/ upload'[s] = "done"
      BY <1>2
    <3> QED BY <3>1, <3>2 DEF InHand, FilesOf
  <2>3. \A s \in Reqs : Active(s) => Active(s)'
    BY <1>2 DEF Active
  <2> QED BY <1>5, <2>1, <2>2, <2>3 DEF UserOK
<1> QED BY <1>3, <1>4, <1>5 DEF AvatarInv

\* A listing is the directory as it is, and the user's other requests at work
\* are recorded.
LEMMA ListOldInv ==
  ASSUME AvatarInv, NEW r \in Reqs, upload[r] = "new", ListOld(r)
  PROVE  AvatarInv'
<1>0. UserOf[r] \in Users
  BY DEF Users
<1>f. PICK found \in SUBSET FilesOf(UserOf[r]) :
        /\ listed' = [listed EXCEPT ![r] = found]
        /\ botched' = IF found = FilesOf(UserOf[r]) THEN botched \ {UserOf[r]}
                      ELSE botched \cup {UserOf[r]}
  BY DEF ListOld
<1> USE DEF ListOld
<1>1. /\ upload \in [Reqs -> {"new", "listed", "resized", "created", "done"}]
      /\ listed = [s \in Reqs |-> listed[s]]
      /\ upload' = [upload EXCEPT ![r] = "listed"]
      /\ listed' = [listed EXCEPT ![r] = found]
  BY <1>f DEF AvatarInv, AvatarTypeOK
<1>2. clashed \subseteq clashed' /\ (UserOf[r] \notin clashed' => Busy(r) = {})
  OBVIOUS
<1>3. AvatarTypeOK'
  <2>1. ASSUME NEW s \in Reqs, NEW n \in listed'[s] PROVE n[1] = UserOf[s]
    BY <1>1, <2>1 DEF AvatarInv, AvatarTypeOK, FilesOf
  <2>2. listed' = [s \in Reqs |-> listed'[s]]
    BY <1>1
  <2> QED BY <1>1, <2>1, <2>2 DEF AvatarInv, AvatarTypeOK
<1>4. ClashesSeen'
  <2> SUFFICES ASSUME NEW p \in Reqs, NEW q \in Reqs, p # q, UserOf[p] = UserOf[q],
                      Active(p)', Active(q)'
               PROVE  UserOf[p] \in clashed'
    BY DEF ClashesSeen
  <2>1. CASE p # r /\ q # r
    BY <1>1, <1>2, <2>1 DEF AvatarInv, ClashesSeen, Active
  <2>2. CASE p = r
    <3>1. q \in Busy(r)
      BY <1>1, <2>2 DEF Busy, Active
    <3> QED BY <2>2, <3>1, <1>2
  <2>3. CASE q = r
    <3>1. p \in Busy(r)
      BY <1>1, <2>3 DEF Busy, Active
    <3> QED BY <2>3, <3>1, <1>2
  <2> QED BY <2>1, <2>2, <2>3
<1>5. ASSUME UserOf[r] \notin clashed' PROVE UserOK(UserOf[r])'
  <2> DEFINE u == UserOf[r]
  <2>1. UserOK(u) /\ Alone(r)
    BY <1>0, <1>2, <1>5 DEF AvatarInv, Alone, Busy, Active
  <2>2. Active(r)'
    BY <1>1 DEF Active
  <2>4. InHand(u, r)'
    BY <1>1, <1>f DEF InHand, FilesOf
  <2>5. \A s \in Reqs \ {r} : upload'[s] = upload[s]
    BY <1>1
  <2> QED BY <2>1, <2>2, <2>4, <2>5, OnlyOne
<1>6. \A u \in Users \ clashed' : UserOK(u)'
  <2>1. \A s \in Reqs \ {r} : /\ upload'[s] = upload[s]
                              /\ listed'[s] = listed[s]
                              /\ path'[s] = path[s]
    BY <1>1
  <2>2. \A u \in Users \ {UserOf[r]} :
           /\ FilesOf(u)' = FilesOf(u)
           /\ \A n \in FilesOf(u) : dir'[n] = dir[n]
    BY DEF FilesOf
  <2>3. current' = current /\ \A u \in Users \ {UserOf[r]} : (u \in botched' <=> u \in botched)
    BY <1>f
  <2> HIDE DEF ListOld
  <2> QED BY <1>2, <1>5, <2>1, <2>2, <2>3, OthersKept
<1> QED BY <1>3, <1>4, <1>6 DEF AvatarInv

\* A request that is over: its user's files must be as it left them.
LEMMA FinishFacts ==
  ASSUME AvatarTypeOK, NEW r \in Reqs, NEW left, Finish(r, left)
  PROVE  /\ upload' = [upload EXCEPT ![r] = "done"]
         /\ upload' \in [Reqs -> {"new", "listed", "resized", "created", "done"}]
         /\ upload'[r] = "done"
         /\ \A s \in Reqs \ {r} : upload'[s] = upload[s]
         /\ UserOf[r] \in Users
         /\ current'[UserOf[r]] = left
         /\ \A u \in Users \ {UserOf[r]} : current'[u] = current[u]
         /\ left \in Uploads \cup {NoAvatar} => current' \in [Users -> Uploads \cup {NoAvatar}]
         /\ \A s \in Reqs : Active(s)' => Active(s)
BY DEF AvatarTypeOK, Finish, Users, Active

\* The old files are gone once removed, for a deletion for good.
LEMMA RemoveOldInv ==
  ASSUME AvatarInv, NEW r \in Reqs, NEW removed, RemoveOld(r, removed)
  PROVE  AvatarInv'
<1> USE DEF RemoveOld
<1>0. UserOf[r] \in Users /\ AvatarTypeOK
  BY DEF Users, AvatarInv
<1>1. \A n \in removed : n[1] = UserOf[r]
  BY <1>0 DEF AvatarTypeOK
<1>2. /\ DOMAIN dir' = DOMAIN dir \ removed
      /\ \A n \in DOMAIN dir' : dir'[n] = dir[n]
      /\ \A v : FilesOf(v)' = FilesOf(v) \ removed
      /\ \A v : v # UserOf[r] => FilesOf(v)' = FilesOf(v)
  <2>1. dir' = DirWithout(removed)
    OBVIOUS
  <2> HIDE DEF RemoveOld
  <2> QED BY <1>1, <2>1 DEF DirWithout, FilesOf
<1>3. /\ upload' \in [Reqs -> {"new", "listed", "resized", "created", "done"}]
      /\ \A s \in Reqs \ {r} : upload'[s] = upload[s]
      /\ \A s \in Reqs : Active(s)' => Active(s)
      /\ current' \in [Users -> Uploads \cup {NoAvatar}]
      /\ \A u \in Users \ {UserOf[r]} : current'[u] = current[u] /\ (u \in botched' <=> u \in botched)
      /\ \/ r \in Uploads /\ upload'[r] = "resized"
         \/ upload'[r] = "done" /\ current'[UserOf[r]] = NoAvatar
  <2>1. CASE r \in Uploads
    BY <2>1, <1>0 DEF AvatarTypeOK, Active
  <2>2. CASE r \notin Uploads
    <3>1. Finish(r, NoAvatar) /\ \A u \in Users \ {UserOf[r]} : u \in botched' <=> u \in botched
      BY <2>2
    <3> HIDE DEF RemoveOld
    <3>2. PICK left : left = NoAvatar
      OBVIOUS
    <3>3. Finish(r, left)
      BY <3>1, <3>2, Zenon
    <3> QED BY <1>0, <3>1, <3>2, <3>3, FinishFacts
  <2> QED BY <2>1, <2>2
<1>4. AvatarTypeOK'
  <2>1. dir' = [n \in DOMAIN dir' |-> dir'[n]]
    BY DEF DirWithout
  <2>2. /\ listed' = [s \in Reqs |-> listed'[s]] /\ listed'[r] = {}
        /\ \A s \in Reqs \ {r} : listed'[s] = listed[s]
    BY <1>0 DEF AvatarTypeOK
  <2> QED BY <1>0, <1>2, <1>3, <2>1, <2>2 DEF AvatarTypeOK
<1>5. ClashesSeen'
  BY <1>3, ClashesKept DEF AvatarInv
<1>6. ASSUME UserOf[r] \notin clashed' PROVE UserOK(UserOf[r])'
  <2> DEFINE u == UserOf[r]
  <2>1. Alone(r) /\ UserOK(u)
    BY <1>0, <1>6, AloneAtWork DEF AvatarInv, Active
  <2>2. u \notin botched' => FilesOf(u)' = {}
    BY <1>2, <2>1 DEF UserOK, InHand
  <2>3. InHand(u, r)'
    BY <1>3, <2>2 DEF InHand
  <2>4. ~Active(r)' => Left(u)'
    BY <1>3, <2>2 DEF Left, Active
  <2> HIDE DEF RemoveOld
  <2> QED BY <1>3, <2>1, <2>3, <2>4, OnlyOne
<1>7. \A u \in Users \ clashed' : UserOK(u)'
  <2>1. \A u \in Users \ {UserOf[r]} :
           /\ FilesOf(u)' = FilesOf(u)
           /\ \A n \in FilesOf(u) : dir'[n] = dir[n]
    BY <1>2 DEF FilesOf
  <2>2. /\ clashed \subseteq clashed'
        /\ \A s \in Reqs \ {r} : listed'[s] = listed[s] /\ path'[s] = path[s]
    BY <1>0 DEF AvatarTypeOK
  <2> HIDE DEF RemoveOld
  <2> QED BY <1>3, <1>6, <2>1, <2>2, OthersKept
<1> QED BY <1>4, <1>5, <1>7 DEF AvatarInv

\* The new file is the user's only one.
LEMMA CreateFileInv ==
  ASSUME AvatarAssumption, AvatarInv, NEW r \in Reqs, CreateFile(r)
  PROVE  AvatarInv'
<1> DEFINE u == UserOf[r]
           name == <<UserOf[r], second>>
<1> USE DEF CreateFile
<1>0. u \in Users /\ AvatarTypeOK
  BY DEF Users, AvatarInv
<1>1. /\ DOMAIN dir' = DOMAIN dir \cup {name}
      /\ dir' = [n \in DOMAIN dir' |-> dir'[n]]
      /\ dir'[name] = [by |-> r, whole |-> FALSE]
      /\ \A n \in DOMAIN dir \ {name} : dir'[n] = dir[n]
  OBVIOUS
<1>2. /\ upload' \in [Reqs -> {"new", "listed", "resized", "created", "done"}]
      /\ upload'[r] = "created"
      /\ \A s \in Reqs \ {r} : upload'[s] = upload[s] /\ path'[s] = path[s]
      /\ path'[r] = name /\ path' = [s \in Reqs |-> path'[s]]
      /\ \A s \in Reqs : Active(s)' => Active(s)
      /\ listed' = listed /\ current' = current /\ second' = second /\ clashed' = clashed
      /\ upload[r] = "resized" /\ botched' = botched
  BY <1>0 DEF AvatarTypeOK, Active
<1> HIDE DEF CreateFile
<1>3. AvatarTypeOK'
  <2>1. name \in Users \X Nat /\ name[1] = u
    BY <1>0 DEF AvatarTypeOK
  <2> QED BY <1>0, <1>1, <1>2, <2>1 DEF AvatarTypeOK
<1>4. ClashesSeen'
  BY <1>2, ClashesKept DEF AvatarInv
<1>5. \A v : FilesOf(v)' = IF v = u THEN FilesOf(v) \cup {name} ELSE FilesOf(v)
  BY <1>1 DEF FilesOf
<1>6. ASSUME u \notin clashed' PROVE UserOK(u)'
  <2>1. Alone(r) /\ UserOK(u)
    BY <1>0, <1>2, <1>6, AloneAtWork DEF AvatarInv, Active
  <2>2. name \in FilesOf(u)' /\ (u \notin botched => FilesOf(u)' = {name})
    BY <1>2, <1>5, <2>1 DEF UserOK, InHand
  <2>3. InHand(u, r)'
    BY <1>1, <1>2, <2>2 DEF InHand
  <2> QED BY <1>2, <2>1, <2>3, OnlyOne DEF Active
<1>7. \A v \in Users \ clashed' : UserOK(v)'
  <2>1. \A v \in Users \ {UserOf[r]} :
           /\ FilesOf(v)' = FilesOf(v)
           /\ \A n \in FilesOf(v) : dir'[n] = dir[n]
    BY <1>1, <1>5 DEF FilesOf
  <2> QED BY <1>2, <1>6, <2>1, OthersKept
<1> QED BY <1>3, <1>4, <1>7 DEF AvatarInv

\* A save that cannot create its file leaves no avatar.
LEMMA CreateFailsInv ==
  ASSUME AvatarInv, NEW r \in Reqs, CreateFails(r)
  PROVE  AvatarInv'
<1> DEFINE u == UserOf[r]
<1>0. AvatarTypeOK /\ Finish(r, NoAvatar)
  BY DEF AvatarInv, CreateFails
<1>1. /\ upload' \in [Reqs -> {"new", "listed", "resized", "created", "done"}]
      /\ upload'[r] = "done"
      /\ \A s \in Reqs \ {r} : upload'[s] = upload[s]
      /\ u \in Users
      /\ current'[u] = NoAvatar
      /\ \A v \in Users \ {u} : current'[v] = current[v]
      /\ current' \in [Users -> Uploads \cup {NoAvatar}]
      /\ \A s \in Reqs : Active(s)' => Active(s)
  BY <1>0, FinishFacts
<1>2. /\ dir' = dir /\ listed' = listed /\ path' = path
      /\ second' = second /\ clashed' = clashed /\ upload[r] = "resized"
      /\ botched' = botched
  BY DEF CreateFails
<1>3. AvatarTypeOK'
  BY <1>0, <1>1, <1>2 DEF AvatarTypeOK
<1>4. ClashesSeen'
  BY <1>1, <1>2, ClashesKept DEF AvatarInv
<1>5. \A v : FilesOf(v)' = FilesOf(v)
  BY <1>2 DEF FilesOf
<1>6. ASSUME u \notin clashed' PROVE UserOK(u)'
  <2>1. Alone(r) /\ UserOK(u)
    BY <1>1, <1>2, <1>6, AloneAtWork DEF AvatarInv, Active
  <2>2. u \notin botched' => FilesOf(u)' = {}
    BY <1>2, <1>5, <2>1 DEF UserOK, InHand
  <2>3. InHand(u, r)' /\ Left(u)'
    BY <1>1, <2>2 DEF InHand, Left
  <2> QED BY <1>1, <2>1, <2>3, OnlyOne
<1>7. \A v \in Users \ clashed' : UserOK(v)'
  BY <1>1, <1>2, <1>5, <1>6, OthersKept
<1> QED BY <1>3, <1>4, <1>7 DEF AvatarInv

\* The encoded avatar is whole and is the user's.
LEMMA EncodeInv ==
  ASSUME AvatarAssumption, AvatarInv, NEW r \in Reqs, Encode(r)
  PROVE  AvatarInv'
<1> DEFINE u == UserOf[r]
           mine == path[r] \in DOMAIN dir /\ dir[path[r]].by = r
<1>0. AvatarTypeOK /\ Finish(r, r)
  BY DEF AvatarInv, Encode
<1>1. /\ upload' \in [Reqs -> {"new", "listed", "resized", "created", "done"}]
      /\ upload'[r] = "done"
      /\ \A s \in Reqs \ {r} : upload'[s] = upload[s]
      /\ u \in Users
      /\ current'[u] = r
      /\ \A v \in Users \ {u} : current'[v] = current[v]
      /\ r \in Uploads \cup {NoAvatar} => current' \in [Users -> Uploads \cup {NoAvatar}]
      /\ \A s \in Reqs : Active(s)' => Active(s)
  BY <1>0, FinishFacts
<1>2. /\ listed' = listed /\ path' = [path EXCEPT ![r] = NoPath]
      /\ second' = second /\ clashed' = clashed /\ upload[r] = "created"
      /\ botched' = botched
      /\ dir' = IF mine THEN [dir EXCEPT ![path[r]].whole = TRUE] ELSE dir
  BY DEF Encode
<1>p. path' = [s \in Reqs |-> path'[s]] /\ \A s \in Reqs \ {r} : path'[s] = path[s]
  BY <1>0, <1>2 DEF AvatarTypeOK
<1>3. r \in Uploads /\ path[r][1] = u /\ r # NoAvatar
  BY <1>0, <1>2 DEF AvatarTypeOK, AvatarAssumption, NoAvatar
<1>4. /\ DOMAIN dir' = DOMAIN dir
      /\ dir' = [n \in DOMAIN dir' |-> dir'[n]]
      /\ \A n \in DOMAIN dir : n # path[r] => dir'[n] = dir[n]
      /\ mine => dir'[path[r]] = [dir[path[r]] EXCEPT !.whole = TRUE]
  BY <1>0, <1>2 DEF AvatarTypeOK
<1>5. AvatarTypeOK'
  BY <1>0, <1>1, <1>2, <1>p, <1>3, <1>4 DEF AvatarTypeOK
<1>6. ClashesSeen'
  BY <1>1, <1>2, ClashesKept DEF AvatarInv
<1>7. \A v : FilesOf(v)' = FilesOf(v)
  BY <1>4 DEF FilesOf
<1>8. ASSUME u \notin clashed' PROVE UserOK(u)'
  <2>1. Alone(r) /\ UserOK(u)
    BY <1>1, <1>2, <1>8, AloneAtWork DEF AvatarInv, Active
  <2>2. /\ path[r] \in FilesOf(u) /\ (u \notin botched => FilesOf(u) = {path[r]})
        /\ dir[path[r]] = [by |-> r, whole |-> FALSE]
    BY <1>2, <2>1 DEF UserOK, InHand
  <2>3. path[r] \in DOMAIN dir /\ mine
    BY <2>2 DEF FilesOf
  <2>4. dir'[path[r]] = [by |-> r, whole |-> TRUE]
    BY <1>4, <2>2, <2>3
  <2>5. Left(u)'
    <3>1. current'[u] = r /\ botched' = botched /\ FilesOf(u)' = FilesOf(u)
      BY <1>1, <1>2, <1>7
    <3>2. \E n \in FilesOf(u)' : dir'[n] = [by |-> current'[u], whole |-> TRUE]
      BY <2>2, <2>4, <3>1
    <3>3. u \notin botched' => \E n : FilesOf(u)' = {n}
      BY <2>2, <3>1
    <3> HIDE DEF u
    <3> QED BY <1>3, <3>1, <3>2, <3>3 DEF Left
  <2>6. InHand(u, r)'
    BY <1>1 DEF InHand
  <2> QED BY <1>1, <2>1, <2>5, <2>6, OnlyOne
<1>9. \A v \in Users \ clashed' : UserOK(v)'
  <2>1. \A v \in Users \ {UserOf[r]} :
           /\ FilesOf(v)' = FilesOf(v)
           /\ \A n \in FilesOf(v) : dir'[n] = dir[n]
    BY <1>3, <1>4, <1>7 DEF FilesOf
  <2>2. /\ AvatarInv /\ clashed \subseteq clashed'
        /\ \A s \in Reqs \ {r} : listed'[s] = listed[s] /\ path'[s] = path[s]
        /\ \A v \in Users \ {UserOf[r]} : v \in botched' <=> v \in botched
        /\ UserOf[r] \notin clashed' => UserOK(UserOf[r])'
    BY <1>2, <1>p, <1>8
  <2>3. /\ \A s \in Reqs \ {r} : upload'[s] = upload[s]
        /\ \A v \in Users \ {UserOf[r]} : current'[v] = current[v]
    BY <1>1
  <2> QED BY <2>1, <2>2, <2>3, OthersKept
<1> QED BY <1>5, <1>6, <1>9 DEF AvatarInv

\* A failed encoding takes its own file away, if it can.
LEMMA EncodeFailsInv ==
  ASSUME AvatarInv, NEW r \in Reqs, NEW removed, EncodeFails(r, removed)
  PROVE  AvatarInv'
<1> DEFINE u == UserOf[r]
           names == IF removed THEN {path[r]} ELSE {}
<1>0. AvatarTypeOK /\ Finish(r, NoAvatar)
  BY DEF AvatarInv, EncodeFails
<1>1. /\ upload' \in [Reqs -> {"new", "listed", "resized", "created", "done"}]
      /\ upload'[r] = "done"
      /\ \A s \in Reqs \ {r} : upload'[s] = upload[s]
      /\ u \in Users
      /\ current'[u] = NoAvatar
      /\ \A v \in Users \ {u} : current'[v] = current[v]
      /\ current' \in [Users -> Uploads \cup {NoAvatar}]
      /\ \A s \in Reqs : Active(s)' => Active(s)
  BY <1>0, FinishFacts
<1>2. /\ listed' = listed /\ path' = [path EXCEPT ![r] = NoPath]
      /\ second' = second /\ clashed' = clashed /\ upload[r] = "created"
      /\ dir' = IF removed THEN DirWithout({path[r]}) ELSE dir
      /\ botched' = IF removed THEN botched ELSE botched \cup {u}
  BY DEF EncodeFails
<1>p. path' = [s \in Reqs |-> path'[s]] /\ \A s \in Reqs \ {r} : path'[s] = path[s]
  BY <1>0, <1>2 DEF AvatarTypeOK
<1>3. \A n \in names : n[1] = u
  BY <1>0, <1>2 DEF AvatarTypeOK
<1>4. /\ DOMAIN dir' = DOMAIN dir \ names
      /\ \A n \in DOMAIN dir' : dir'[n] = dir[n]
      /\ \A v : FilesOf(v)' = FilesOf(v) \ names
      /\ \A v : v # u => FilesOf(v)' = FilesOf(v)
  <2>1. dir' = [n \in DOMAIN dir \ names |-> dir[n]]
    BY <1>0, <1>2 DEF DirWithout, AvatarTypeOK
  <2>2. /\ DOMAIN dir' = DOMAIN dir \ names
        /\ \A n \in DOMAIN dir' : dir'[n] = dir[n]
    BY <2>1
  <2>3. \A v : FilesOf(v)' = FilesOf(v) \ names
    BY <2>2 DEF FilesOf
  <2>4. \A v : v # u => FilesOf(v)' = FilesOf(v)
    BY <1>3, <2>3 DEF FilesOf
  <2> QED BY <2>2, <2>3, <2>4
<1>5. AvatarTypeOK'
  <2>1. dir' = [n \in DOMAIN dir' |-> dir'[n]]
    BY <1>0, <1>2 DEF DirWithout, AvatarTypeOK
  <2> QED BY <1>0, <1>1, <1>2, <1>p, <1>4, <2>1 DEF AvatarTypeOK
<1>6. ClashesSeen'
  BY <1>1, <1>2, ClashesKept DEF AvatarInv
<1>7. ASSUME u \notin clashed' PROVE UserOK(u)'
  <2>1. Alone(r) /\ UserOK(u)
    BY <1>1, <1>2, <1>7, AloneAtWork DEF AvatarInv, Active
  <2>2. u \notin botched' => FilesOf(u)' = {}
    BY <1>2, <1>4, <2>1 DEF UserOK, InHand
  <2>3. InHand(u, r)' /\ Left(u)'
    BY <1>1, <2>2 DEF InHand, Left
  <2> QED BY <1>1, <2>1, <2>3, OnlyOne
<1>8. \A v \in Users \ clashed' : UserOK(v)'
  <2>1. \A v \in Users \ {UserOf[r]} :
           /\ FilesOf(v)' = FilesOf(v)
           /\ \A n \in FilesOf(v) : dir'[n] = dir[n]
    BY <1>4 DEF FilesOf
  <2> QED BY <1>1, <1>2, <1>p, <1>7, <2>1, OthersKept
<1> QED BY <1>5, <1>6, <1>8 DEF AvatarInv

\* Every step keeps the invariant.
LEMMA AvatarNextInv ==
  AvatarInv /\ [AvatarNext]_avatarVars => AvatarInv'
<1> SUFFICES ASSUME AvatarInv, [AvatarNext]_avatarVars PROVE AvatarInv'
  OBVIOUS
<1>1. ASSUME NEW r \in Reqs, NEW empty \in BOOLEAN, NEW fits \in BOOLEAN, Upload(r, empty, fits)
      PROVE  AvatarInv'
  BY <1>1, RefuseInv, ListOldInv DEF Upload
<1>2. ASSUME NEW r \in Reqs, NEW isPost \in BOOLEAN, NEW hasFile \in BOOLEAN,
             NEW named \in BOOLEAN, NEW fits \in BOOLEAN,
             HandleUpload(r, isPost, hasFile, named, fits)
      PROVE  AvatarInv'
  BY <1>2, RefuseInv, ListOldInv DEF HandleUpload
<1>3. ASSUME NEW r \in Reqs, Delete(r) PROVE AvatarInv'
  BY <1>3, ListOldInv DEF Delete
<1>4. ASSUME NEW r \in Reqs, NEW removed \in SUBSET listed[r], RemoveOld(r, removed)
      PROVE  AvatarInv'
  BY <1>4, RemoveOldInv
<1>5. ASSUME NEW r \in Reqs, CreateFile(r) PROVE AvatarInv'
  BY <1>5, CreateFileInv, AvatarAssumption
<1>6. ASSUME NEW r \in Reqs, CreateFails(r) PROVE AvatarInv'
  BY <1>6, CreateFailsInv
<1>7. ASSUME NEW r \in Reqs, Encode(r) PROVE AvatarInv'
  BY <1>7, EncodeInv, AvatarAssumption
<1>8. ASSUME NEW r \in Reqs, NEW removed \in BOOLEAN, EncodeFails(r, removed)
      PROVE  AvatarInv'
  BY <1>8, EncodeFailsInv
<1>9. ASSUME AvatarTick \/ UNCHANGED avatarVars PROVE AvatarInv'
  <2>1. /\ dir' = dir /\ upload' = upload /\ listed' = listed /\ path' = path
        /\ current' = current /\ clashed' = clashed /\ botched' = botched
        /\ second' = second \/ second' = second + 1
    BY <1>9 DEF AvatarTick, avatarVars
  <2>2. AvatarTypeOK'
    BY <2>1 DEF AvatarInv, AvatarTypeOK
  <2>3. ClashesSeen'
    BY <2>1 DEF AvatarInv, ClashesSeen, Active
  <2>4. \A u \in Users \ clashed' : UserOK(u)'
    <3> SUFFICES ASSUME NEW u \in Users, u \notin clashed' PROVE UserOK(u)'
      OBVIOUS
    <3>1. UserOK(u) /\ Untouched(u)
      BY <2>1 DEF AvatarInv, Untouched, FilesOf
    <3> QED BY <3>1, UntouchedKept
  <2> QED BY <2>2, <2>3, <2>4 DEF AvatarInv
<1> QED BY <1>1, <1>2, <1>3, <1>4, <1>5, <1>6, <1>7, <1>8, <1>9 DEF AvatarNext

\* GoImageServer, with any set of requests at the same time: between the
\* requests of a user that never overlapped, the directory holds the whole
\* avatar of that user's last successful upload, whatever the other users'
\* requests did; when the last removal met no error nothing else of the user is
\* there and GetUrl names it, and after a deletion or a failed save nothing is.
THEOREM AvatarAlwaysLastUpload ==
  AvatarSpec => []AvatarIsLastUpload
<1>1. AvatarInv => AvatarIsLastUpload
  <2> SUFFICES ASSUME AvatarInv, NEW u \in Users, u \notin clashed,
                      \A r \in Reqs : UserOf[r] = u => upload[r] \in {"new", "done"}
               PROVE  /\ current[u] # NoAvatar =>
                           \E n \in FilesOf(u) : dir[n] = [by |-> current[u], whole |-> TRUE]
                      /\ u \notin botched =>
                           IF current[u] = NoAvatar
                           THEN FilesOf(u) = {} /\ GetFilename(u) = NoPath
                           ELSE /\ FilesOf(u) = {GetFilename(u)}
                                /\ \A n \in FilesOf(u) :
                                     dir[n] = [by |-> current[u], whole |-> TRUE]
    BY DEF AvatarIsLastUpload, FilesOf
  <2>1. Left(u)
    BY DEF AvatarInv, UserOK, Active
  <2>2. CASE current[u] = NoAvatar
    BY <2>1, <2>2 DEF Left, GetFilename
  <2>3. CASE current[u] # NoAvatar
    <3>1. PICK n \in FilesOf(u) : dir[n] = [by |-> current[u], whole |-> TRUE]
      BY <2>1, <2>3 DEF Left
    <3>2. ASSUME u \notin botched
          PROVE  FilesOf(u) = {GetFilename(u)} /\ FilesOf(u) = {n}
      <4>1. FilesOf(u) = {n}
        BY <2>1, <2>3, <3>1, <3>2 DEF Left
      <4>2. n[2] \in Nat
        BY <3>1 DEF AvatarInv, AvatarTypeOK, FilesOf
      <4>3. \E m \in FilesOf(u) : \A k \in FilesOf(u) : m[2] <= k[2]
        BY <4>1, <4>2
      <4>4. GetFilename(u) \in FilesOf(u)
        BY <4>1, <4>3 DEF GetFilename
      <4> QED BY <4>1, <4>4
    <3> QED BY <2>3, <3>1, <3>2
  <2> QED BY <2>2, <2>3
<1> QED BY <1>1, AvatarInitInv, AvatarNextInv, PTL DEF AvatarSpec

-----------------------------------------------------------------------------
(* Buffer *)

Byte == 0..255

\* A buffer: bytes, the two indices in order, and room for the prefix.
BufOK(b) ==
  /\ b \in [data : Seq(Byte), readerIndex : Nat, writerIndex : Nat]
  /\ b.readerIndex <= b.writerIndex /\ b.writerIndex <= Len(b.data)
  /\ kCheapPrepend <= Len(b.data)

\* The bytes between the indices of b are those of c.
Holds(b, c) ==
  /\ c \in Seq(Byte) /\ Len(c) = b.writerIndex - b.readerIndex
  /\ \A i \in 1..Len(c) : c[i] = b.data[b.readerIndex + i]

\* The inductive invariant.
BufferInv == BufOK(buf) /\ Holds(buf, content)

\* A non-empty set of naturals has a least element.
LEMMA LeastNat ==
  ASSUME NEW T, T \subseteq Nat, T # {}
  PROVE  \E x \in T : \A y \in T : x <= y
<1>1. PICK x \in T : \A y \in T : ~(<<y, x>> \in OpToRel(<, Nat))
  BY NatLessThanWellFounded, WFMin
<1>2. \A y \in T : ~(y < x)
  BY <1>1 DEF OpToRel
<1> QED BY <1>2

\* The fields of a buffer after an assignment to one of them.
LEMMA FieldFacts ==
  ASSUME NEW S, NEW e \in S, NEW j \in Nat,
         NEW b \in [data : S, readerIndex : Nat, writerIndex : Nat]
  PROVE  /\ LET m == [b EXCEPT !.data = e]
            IN /\ m.data = e /\ m.readerIndex = b.readerIndex
               /\ m.writerIndex = b.writerIndex
               /\ m \in [data : S, readerIndex : Nat, writerIndex : Nat]
         /\ LET m == [b EXCEPT !.writerIndex = j]
            IN /\ m.data = b.data /\ m.readerIndex = b.readerIndex
               /\ m.writerIndex = j
               /\ m \in [data : S, readerIndex : Nat, writerIndex : Nat]
<1>1. LET m == [b EXCEPT !.data = e]
      IN /\ m.data = e /\ m.readerIndex = b.readerIndex
         /\ m.writerIndex = b.writerIndex
         /\ m \in [data : S, readerIndex : Nat, writerIndex : Nat]
  OBVIOUS
<1>2. LET m == [b EXCEPT !.writerIndex = j]
      IN /\ m.data = b.data /\ m.readerIndex = b.readerIndex
         /\ m.writerIndex = j
         /\ m \in [data : S, readerIndex : Nat, writerIndex : Nat]
  OBVIOUS
<1> QED BY <1>1, <1>2

\* A piece of a byte sequence.
LEMMA PieceFacts ==
  ASSUME NEW d \in Seq(Byte), NEW r \in Nat, NEW w \in Nat, r <= w, w <= Len(d)
  PROVE  /\ SubSeq(d, r + 1, w) \in Seq(Byte) /\ Len(SubSeq(d, r + 1, w)) = w - r
         /\ \A i \in 1..(w - r) : SubSeq(d, r + 1, w)[i] = d[r + i]
<1>1. PICK m \in Int : m = r + 1
  OBVIOUS
<1>2. \A i \in m..w : d[i] \in Byte
  BY <1>1, ElementOfSeq
<1>3. /\ SubSeq(d, m, w) \in Seq(Byte)
      /\ Len(SubSeq(d, m, w)) = IF m <= w THEN w - m + 1 ELSE 0
      /\ \A i \in 1..(w - m + 1) : SubSeq(d, m, w)[i] = d[m + i - 1]
  BY <1>2, SubSeqProperties
<1> DEFINE piece == SubSeq(d, m, w)
<1> HIDE DEF piece
<1>4. Len(piece) = w - r
  BY <1>1, <1>3 DEF piece
<1>5. \A i \in 1..(w - r) : i \in 1..(w - m + 1) /\ m + i - 1 = r + i
  BY <1>1
<1> QED BY <1>1, <1>3, <1>4, <1>5 DEF piece

\* Sequences of bytes that agree everywhere are equal.
LEMMA SameBytes ==
  ASSUME NEW s \in Seq(Byte), NEW t \in Seq(Byte), Len(s) = Len(t),
         \A i \in 1..Len(s) : s[i] = t[i]
  PROVE  s = t
BY SeqEqual

\* toStringPiece is what the buffer holds.
LEMMA PieceHeld ==
  ASSUME NEW b, BufOK(b)
  PROVE  /\ Holds(b, toStringPiece(b))
         /\ \A c : Holds(b, c) => c = toStringPiece(b)
<1>1. /\ b.data \in Seq(Byte) /\ b.readerIndex \in Nat /\ b.writerIndex \in Nat
      /\ b.readerIndex <= b.writerIndex /\ b.writerIndex <= Len(b.data)
  BY DEF BufOK
<1>2. Holds(b, toStringPiece(b))
  <2> DEFINE p == SubSeq(b.data, b.readerIndex + 1, b.writerIndex)
             n == b.writerIndex - b.readerIndex
  <2>1. p \in Seq(Byte) /\ Len(p) = n /\ \A i \in 1..n : p[i] = b.data[b.readerIndex + i]
    BY <1>1, PieceFacts
  <2> HIDE DEF p, n
  <2>2. Holds(b, p)
    BY <2>1 DEF Holds, n
  <2> QED BY <2>2 DEF p, toStringPiece
<1>3. ASSUME NEW c, Holds(b, c) PROVE c = toStringPiece(b)
  BY <1>2, <1>3, SameBytes DEF Holds
<1> QED BY <1>2, <1>3

\* std::copy changes the bytes it covers.
LEMMA CopyFacts ==
  ASSUME NEW d \in Seq(Byte), NEW s \in Seq(Byte), NEW pos \in Nat, pos + Len(s) <= Len(d)
  PROVE  /\ Copy(d, s, pos) \in Seq(Byte) /\ Len(Copy(d, s, pos)) = Len(d)
         /\ \A i \in 1..Len(s) : Copy(d, s, pos)[pos + i] = s[i]
         /\ \A i \in 1..Len(d) : (i <= pos \/ i > pos + Len(s)) => Copy(d, s, pos)[i] = d[i]
<1>1. Len(d) \in Nat /\ Len(s) \in Nat /\ DOMAIN d = 1..Len(d)
  BY LenProperties
<1>2. ASSUME NEW i \in 1..Len(d)
      PROVE  (IF i > pos /\ i <= pos + Len(s) THEN s[i - pos] ELSE d[i]) \in Byte
  <2>1. CASE i > pos /\ i <= pos + Len(s)
    <3>1. PICK j \in 1..Len(s) : j = i - pos
      BY <1>1, <2>1
    <3> QED BY <2>1, <3>1, ElementOfSeq
  <2>2. CASE ~(i > pos /\ i <= pos + Len(s))
    BY <2>2, ElementOfSeq
  <2> QED BY <2>1, <2>2
<1>3. Copy(d, s, pos) \in [1..Len(d) -> Byte]
  BY <1>1, <1>2 DEF Copy
<1>4. Copy(d, s, pos) \in Seq(Byte) /\ Len(Copy(d, s, pos)) = Len(d)
  BY <1>1, <1>3
<1>5. ASSUME NEW i \in 1..Len(s) PROVE Copy(d, s, pos)[pos + i] = s[i]
  <2>1. PICK j \in 1..Len(d) : j = pos + i
    BY <1>1
  <2>2. j - pos = i /\ j > pos /\ j <= pos + Len(s)
    BY <1>1, <2>1
  <2> QED BY <1>1, <2>1, <2>2 DEF Copy
<1>6. ASSUME NEW i \in 1..Len(d), i <= pos \/ i > pos + Len(s)
      PROVE  Copy(d, s, pos)[i] = d[i]
  BY <1>1, <1>6 DEF Copy
<1> QED BY <1>4, <1>5, <1>6

\* Two byte sequences one after the other.
LEMMA JoinFacts ==
  ASSUME NEW s \in Seq(Byte), NEW t \in Seq(Byte)
  PROVE  /\ s \o t \in Seq(Byte) /\ Len(s \o t) = Len(s) + Len(t)
         /\ \A i \in 1..Len(s) : (s \o t)[i] = s[i]
         /\ \A i \in 1..Len(t) : (s \o t)[Len(s) + i] = t[i]
<1>0. PICK m \in Nat : m = Len(s)
  BY LenProperties
<1>1. PICK k \in Nat : k = Len(t)
  BY LenProperties
<1>2. /\ s \o t \in Seq(Byte) /\ Len(s \o t) = Len(s) + Len(t)
      /\ \A i \in 1..(Len(s) + Len(t)) : (s \o t)[i] = IF i <= Len(s) THEN s[i] ELSE t[i - Len(s)]
  BY ConcatProperties
<1>3. PICK j : j = s \o t
  OBVIOUS
<1>4. \A i \in 1..(m + k) : j[i] = IF i <= m THEN s[i] ELSE t[i - m]
  BY <1>0, <1>1, <1>2, <1>3
<1>5. ASSUME NEW i \in 1..m PROVE j[i] = s[i]
  BY <1>4
<1>6. ASSUME NEW i \in 1..k PROVE j[m + i] = t[i]
  <2>1. PICK q \in 1..(m + k) : q = m + i /\ ~(q <= m) /\ q - m = i
    OBVIOUS
  <2> QED BY <1>4, <2>1
<1> QED BY <1>0, <1>1, <1>2, <1>3, <1>5, <1>6

\* What it takes to hold t.
LEMMA HoldsIf ==
  ASSUME NEW b, NEW t \in Seq(Byte), NEW r \in Nat, NEW k \in Nat,
         b.readerIndex = r, b.writerIndex = r + k, Len(t) = k,
         \A i \in 1..k : t[i] = b.data[r + i]
  PROVE  Holds(b, t)
BY DEF Holds

\* vector::resize adds zeros at the end.
LEMMA GrowFacts ==
  ASSUME NEW d \in Seq(Byte), NEW n \in Nat
  PROVE  /\ d \o Zeros(n) \in Seq(Byte) /\ Len(d \o Zeros(n)) = Len(d) + n
         /\ \A i \in 1..Len(d) : (d \o Zeros(n))[i] = d[i]
<1> DEFINE z == Zeros(n)
<1>1. z \in Seq(Byte) /\ Len(z) = n
  BY DEF Zeros, Byte
<1> HIDE DEF z
<1>2. Len(d) \in Nat
  BY LenProperties
<1>4. /\ d \o z \in Seq(Byte) /\ Len(d \o z) = Len(d) + n
      /\ \A i \in 1..Len(d) : (d \o z)[i] = d[i]
  <2> HIDE DEF z
  <2> QED BY <1>1, <1>2, JoinFacts
<1> QED BY <1>4 DEF z

\* A new buffer is empty.
LEMMA NewBufferOK ==
  BufOK(NewBuffer) /\ Holds(NewBuffer, <<>>)
<1>1. PICK n \in Nat : n = kCheapPrepend + kInitialSize
  BY BufferAssumption
<1>2. Zeros(n) \in Seq(Byte) /\ Len(Zeros(n)) = n
  BY DEF Zeros, Byte
<1>3. /\ NewBuffer.data = Zeros(n) /\ NewBuffer.readerIndex = kCheapPrepend
      /\ NewBuffer.writerIndex = kCheapPrepend
      /\ NewBuffer = [data |-> Zeros(n), readerIndex |-> kCheapPrepend, writerIndex |-> kCheapPrepend]
  BY <1>1 DEF NewBuffer
<1>4. BufOK(NewBuffer)
  BY <1>1, <1>2, <1>3, BufferAssumption DEF BufOK
<1>5. Holds(NewBuffer, <<>>)
  BY <1>3, BufferAssumption, EmptySeq DEF Holds
<1> QED BY <1>4, <1>5

\* makeSpace leaves the content as it is and room for len bytes.  It moves the
\* content only towards the front, as the code asserts: kCheapPrepend < readerIndex_.
LEMMA MakeSpaceFacts ==
  ASSUME NEW b, BufOK(b), NEW c, Holds(b, c), NEW len \in Nat, writableBytes(b) < len
  PROVE  /\ BufOK(makeSpace(b, len)) /\ Holds(makeSpace(b, len), c)
         /\ writableBytes(makeSpace(b, len)) >= len
         /\ makeSpace(b, len).readerIndex # b.readerIndex => kCheapPrepend < b.readerIndex
<1> DEFINE d == b.data
           r == b.readerIndex
           w == b.writerIndex
           n == Len(d)
           m == makeSpace(b, len)
           s == toStringPiece(b)
<1>0. /\ b \in [data : Seq(Byte), readerIndex : Nat, writerIndex : Nat]
      /\ d \in Seq(Byte) /\ r \in Nat /\ w \in Nat /\ n \in Nat
      /\ r <= w /\ w <= n /\ kCheapPrepend <= n /\ kCheapPrepend \in Nat
      /\ n - w < len
  BY LenProperties, BufferAssumption DEF BufOK, writableBytes
<1>1. /\ s \in Seq(Byte) /\ Len(s) = w - r /\ \A i \in 1..(w - r) : s[i] = d[r + i]
      /\ c = s
  BY PieceHeld DEF Holds
<1>2. CASE writableBytes(b) + prependableBytes(b) < len + kCheapPrepend
  <2>1. PICK k \in Nat : k = w + len - n
    BY <1>0
  <2>2. m = [b EXCEPT !.data = d \o Zeros(k)]
    BY <1>2, <2>1 DEF makeSpace
  <2>3. /\ d \o Zeros(k) \in Seq(Byte) /\ Len(d \o Zeros(k)) = n + k
        /\ \A i \in 1..n : (d \o Zeros(k))[i] = d[i]
    BY <1>0, GrowFacts
  <2> DEFINE grown == d \o Zeros(k)
  <2>4. m.data = grown /\ m.readerIndex = r /\ m.writerIndex = w
        /\ m \in [data : Seq(Byte), readerIndex : Nat, writerIndex : Nat]
    <3>1. PICK e \in Seq(Byte) : e = grown
      BY <2>3
    <3>2. m = [b EXCEPT !.data = e]
      BY <2>2, <3>1
    <3> HIDE DEF m, grown
    <3> QED BY <1>0, <3>1, <3>2, FieldFacts
  <2> HIDE DEF m, grown, d, n, r, w, s
  <2>5. BufOK(m)
    BY <1>0, <2>3, <2>4 DEF BufOK, grown
  <2>6. writableBytes(m) >= len
    <3>1. Len(m.data) = n + k /\ m.writerIndex = w
      BY <2>3, <2>4 DEF grown
    <3>2. (n + k) - w >= len
      BY <1>0, <2>1
    <3> QED BY <3>1, <3>2 DEF writableBytes
  <2>7. Holds(m, c)
    <3>1. ASSUME NEW i \in 1..(w - r) PROVE c[i] = grown[r + i]
      <4>1. PICK j \in 1..n : j = r + i
        BY <1>0
      <4> QED BY <1>1, <2>3, <4>1 DEF grown
    <3> QED BY <1>1, <2>4, <3>1 DEF Holds
  <2> QED BY <2>4, <2>5, <2>6, <2>7 DEF m, r
<1>3. CASE ~(writableBytes(b) + prependableBytes(b) < len + kCheapPrepend)
  <2> DEFINE moved == Copy(d, s, kCheapPrepend)
             k == kCheapPrepend
  <2>1. kCheapPrepend < r
    BY <1>0, <1>3 DEF writableBytes, prependableBytes
  <2>2. m = [data |-> moved, readerIndex |-> k, writerIndex |-> k + (w - r)]
    BY <1>3 DEF makeSpace, readableBytes
  <2>3. k + Len(s) <= n
    BY <1>0, <1>1, <2>1
  <2>4. /\ moved \in Seq(Byte) /\ Len(moved) = n
        /\ \A i \in 1..Len(s) : moved[k + i] = s[i]
    BY <1>0, <1>1, <2>3, CopyFacts
  <2>5. k + (w - r) \in Nat /\ k \in Nat
    BY <1>0
  <2>5a. /\ m.data = moved /\ m.readerIndex = k /\ m.writerIndex = k + (w - r)
         /\ m \in [data : Seq(Byte), readerIndex : Nat, writerIndex : Nat]
    <3> HIDE DEF m, moved, d, n, r, w, s, k
    <3>1. PICK j \in Nat : j = k + (w - r)
      BY <2>5
    <3>2. m = [data |-> moved, readerIndex |-> k, writerIndex |-> j]
      BY <2>2, <3>1
    <3>3. m.data = moved /\ m.readerIndex = k /\ m.writerIndex = j
      BY <3>2
    <3>4. [data |-> moved, readerIndex |-> k, writerIndex |-> j]
             \in [data : Seq(Byte), readerIndex : Nat, writerIndex : Nat]
      BY <2>4, <2>5, <3>1
    <3> QED BY <3>1, <3>2, <3>3, <3>4
  <2>6. writableBytes(m) >= len
    <3>1. n - w + r >= len + kCheapPrepend
      BY <1>0, <1>3 DEF writableBytes, prependableBytes
    <3> HIDE DEF m, moved, d, n, r, w, s
    <3>2. Len(m.data) = n /\ m.writerIndex = k + (w - r)
      BY <2>4, <2>5a
    <3>3. n - (k + (w - r)) >= len
      BY <1>0, <3>1
    <3> QED BY <3>2, <3>3 DEF writableBytes
  <2> HIDE DEF m, moved, d, n, r, w, s
  <2>7. BufOK(m)
    BY <1>0, <1>1, <2>3, <2>4, <2>5, <2>5a DEF BufOK
  <2>8. Holds(m, c)
    <3>1. PICK v \in Nat : v = w - r
      BY <1>0
    <3>2. Len(s) = v /\ (\A i \in 1..v : s[i] = moved[k + i]) /\ m.writerIndex = k + v
      BY <1>1, <2>4, <2>5a, <3>1
    <3> HIDE DEF k
    <3>3. PICK a \in Nat : a = k
      BY <2>5
    <3>4. /\ m.readerIndex = a /\ m.writerIndex = a + v /\ c \in Seq(Byte) /\ Len(c) = v
          /\ \A i \in 1..v : c[i] = m.data[a + i]
      BY <1>1, <2>5a, <3>2, <3>3
    <3> QED BY <3>4, HoldsIf, ZenonT(30)
  <2> QED BY <2>1, <2>6, <2>7, <2>8 DEF m, r
<1> QED BY <1>2, <1>3

\* ensureWritableBytes ends with its assertion, writableBytes() >= len.
LEMMA EnsureFacts ==
  ASSUME NEW b, BufOK(b), NEW c, Holds(b, c), NEW len \in Nat
  PROVE  /\ BufOK(ensureWritableBytes(b, len)) /\ Holds(ensureWritableBytes(b, len), c)
         /\ writableBytes(ensureWritableBytes(b, len)) >= len
<1>1. CASE writableBytes(b) < len
  BY <1>1, MakeSpaceFacts DEF ensureWritableBytes
<1>2. CASE ~(writableBytes(b) < len)
  <2>1. writableBytes(b) \in Int
    BY LenProperties DEF BufOK, writableBytes
  <2> QED BY <1>2, <2>1 DEF ensureWritableBytes
<1> QED BY <1>1, <1>2

\* Bytes written behind the content, where there is room, end up behind it.
LEMMA WriteFacts ==
  ASSUME NEW b, BufOK(b), NEW c, Holds(b, c), NEW s \in Seq(Byte), Len(s) <= writableBytes(b)
  PROVE  LET x == hasWritten([b EXCEPT !.data = Copy(@, s, b.writerIndex)], Len(s))
         IN BufOK(x) /\ Holds(x, c \o s) /\ Len(x.data) = Len(b.data)
<1> DEFINE d == b.data
           r == b.readerIndex
           w == b.writerIndex
           new == Copy(d, s, w)
           x == hasWritten([b EXCEPT !.data = Copy(@, s, b.writerIndex)], Len(s))
           len == Len(s)
           n == Len(d)
<1>0. /\ b \in [data : Seq(Byte), readerIndex : Nat, writerIndex : Nat]
      /\ d \in Seq(Byte) /\ r \in Nat /\ w \in Nat /\ n \in Nat /\ len \in Nat
      /\ r <= w /\ w <= n /\ kCheapPrepend <= n
      /\ w + len <= n
  BY LenProperties DEF BufOK, writableBytes
<1>1. c \in Seq(Byte) /\ Len(c) = w - r /\ \A i \in 1..(w - r) : c[i] = d[r + i]
  BY DEF Holds
<1>2. /\ new \in Seq(Byte) /\ Len(new) = n
      /\ \A i \in 1..len : new[w + i] = s[i]
      /\ \A i \in 1..n : (i <= w \/ i > w + len) => new[i] = d[i]
  BY <1>0, CopyFacts
<1>3. /\ x.data = new /\ x.readerIndex = r /\ x.writerIndex = w + len
      /\ x \in [data : Seq(Byte), readerIndex : Nat, writerIndex : Nat]
  <2>1. PICK y : y = [b EXCEPT !.data = new]
    OBVIOUS
  <2>2. x = [y EXCEPT !.writerIndex = y.writerIndex + len]
    BY <2>1 DEF hasWritten
  <2> HIDE DEF x, new, len
  <2>3. /\ y.data = new /\ y.readerIndex = r /\ y.writerIndex = w
        /\ y \in [data : Seq(Byte), readerIndex : Nat, writerIndex : Nat]
    BY <1>0, <1>2, <2>1
  <2>4. w + len \in Nat
    BY <1>0
  <2> HIDE DEF r, w
  <2> QED BY <2>2, <2>3, <2>4
<1> HIDE DEF x, new, len, d, r, w, n
<1>4. BufOK(x)
  BY <1>0, <1>2, <1>3 DEF BufOK
<1>5. PICK v \in Nat : v = w - r /\ Len(c) = v
  BY <1>0, <1>1
<1>6. /\ c \o s \in Seq(Byte) /\ Len(c \o s) = v + len
      /\ \A i \in 1..v : (c \o s)[i] = c[i]
      /\ \A i \in 1..len : (c \o s)[v + i] = s[i]
  <2>1. Len(s) = len /\ len \in Nat
    BY <1>0 DEF len
  <2>2. c \in Seq(Byte) /\ s \in Seq(Byte) /\ v \in Nat /\ Len(c) = v
    BY <1>1, <1>5
  <2>3. /\ c \o s \in Seq(Byte) /\ Len(c \o s) = Len(c) + Len(s)
        /\ \A i \in 1..Len(c) : (c \o s)[i] = c[i]
        /\ \A i \in 1..Len(s) : (c \o s)[Len(c) + i] = s[i]
    BY <2>2, JoinFacts
  <2> QED BY <2>1, <2>2, <2>3, Zenon
<1>7. Holds(x, c \o s)
  <2>1. PICK t \in Seq(Byte) : t = c \o s
    BY <1>6
  <2>2. PICK k \in Nat : k = v + len
    BY <1>0, <1>5
  <2>3. ASSUME NEW i \in 1..k PROVE t[i] = new[r + i]
    <3>1. CASE i <= v
      <4>1. PICK j \in 1..n : j = r + i /\ j <= w
        BY <1>0, <1>5, <3>1
      <4>2. i \in 1..v /\ i \in 1..(w - r)
        BY <1>5, <3>1
      <4>3. t[i] = c[i] /\ c[i] = d[j]
        BY <1>1, <1>6, <2>1, <4>1, <4>2
      <4>4. new[j] = d[j]
        BY <1>2, <4>1
      <4> QED BY <4>1, <4>3, <4>4
    <3>2. CASE ~(i <= v)
      <4>1. PICK j \in 1..len : j = i - v
        BY <1>0, <1>5, <2>2, <3>2
      <4>2. r + i = w + j /\ i = v + j
        BY <1>0, <1>5, <4>1
      <4>3. t[v + j] = s[j] /\ new[w + j] = s[j]
        BY <1>2, <1>6, <2>1, <4>1
      <4> QED BY <4>2, <4>3
    <3> QED BY <3>1, <3>2
  <2>4. x.writerIndex = r + k /\ Len(t) = k
    BY <1>0, <1>3, <1>5, <1>6, <2>1, <2>2
  <2>5. PICK p \in Nat : p = r
    BY <1>0
  <2>6. /\ x.readerIndex = p /\ x.writerIndex = p + k
        /\ \A i \in 1..k : t[i] = x.data[p + i]
    BY <1>3, <2>3, <2>4, <2>5
  <2>7. Holds(x, t)
    BY <2>1, <2>2, <2>4, <2>5, <2>6, HoldsIf
  <2> QED BY <2>1, <2>7
<1> QED BY <1>2, <1>3, <1>4, <1>7 DEF x, d, n

\* append: the bytes come behind the content, whatever was moved or grown.
LEMMA AppendFacts ==
  ASSUME NEW b, BufOK(b), NEW c, Holds(b, c), NEW s \in Seq(Byte)
  PROVE  BufOK(append(b, s)) /\ Holds(append(b, s), c \o s)
<1> DEFINE e == ensureWritableBytes(b, Len(s))
<1>1. Len(s) \in Nat
  BY LenProperties
<1>2. BufOK(e) /\ Holds(e, c) /\ writableBytes(e) >= Len(s)
  BY <1>1, EnsureFacts
<1>3. writableBytes(e) \in Int
  BY <1>2, LenProperties DEF BufOK, writableBytes
<1>4. append(b, s) = hasWritten([e EXCEPT !.data = Copy(@, s, e.writerIndex)], Len(s))
  BY DEF append
<1> HIDE DEF e
<1> QED BY <1>1, <1>2, <1>3, <1>4, WriteFacts

\* prepend: the bytes come before the content, in the room before it.
LEMMA PrependFacts ==
  ASSUME NEW b, BufOK(b), NEW c, Holds(b, c), NEW s \in Seq(Byte), Len(s) <= prependableBytes(b)
  PROVE  BufOK(prepend(b, s)) /\ Holds(prepend(b, s), s \o c)
<1> DEFINE d == b.data
           r == b.readerIndex
           w == b.writerIndex
           len == Len(s)
           n == Len(d)
           new == Copy(d, s, r - len)
           x == prepend(b, s)
<1>0. /\ b \in [data : Seq(Byte), readerIndex : Nat, writerIndex : Nat]
      /\ d \in Seq(Byte) /\ r \in Nat /\ w \in Nat /\ n \in Nat /\ len \in Nat
      /\ r <= w /\ w <= n /\ kCheapPrepend <= n
      /\ len <= r /\ r - len \in Nat
  BY LenProperties DEF BufOK, prependableBytes
<1>1. c \in Seq(Byte) /\ Len(c) = w - r /\ \A i \in 1..(w - r) : c[i] = d[r + i]
  BY DEF Holds
<1>2. /\ new \in Seq(Byte) /\ Len(new) = n
      /\ \A i \in 1..len : new[(r - len) + i] = s[i]
      /\ \A i \in 1..n : (i <= r - len \/ i > (r - len) + len) => new[i] = d[i]
  <2>1. (r - len) + len <= n
    BY <1>0
  <2> QED BY <1>0, <2>1, CopyFacts
<1>3. /\ x.data = new /\ x.readerIndex = r - len /\ x.writerIndex = w
      /\ x \in [data : Seq(Byte), readerIndex : Nat, writerIndex : Nat]
  <2>1. x = [b EXCEPT !.readerIndex = r - len, !.data = new]
    BY DEF prepend
  <2> HIDE DEF x, new, len, r
  <2> QED BY <1>0, <1>2, <2>1 DEF r
<1> HIDE DEF x, new, len, d, r, w, n
<1>4. BufOK(x)
  BY <1>0, <1>2, <1>3 DEF BufOK
<1>5. PICK v \in Nat : v = w - r /\ Len(c) = v
  BY <1>0, <1>1
<1>6. /\ s \o c \in Seq(Byte) /\ Len(s \o c) = len + v
      /\ \A i \in 1..len : (s \o c)[i] = s[i]
      /\ \A i \in 1..v : (s \o c)[len + i] = c[i]
  <2>1. Len(s) = len /\ len \in Nat
    BY <1>0 DEF len
  <2>2. c \in Seq(Byte) /\ s \in Seq(Byte) /\ v \in Nat /\ Len(c) = v
    BY <1>1, <1>5
  <2>3. /\ s \o c \in Seq(Byte) /\ Len(s \o c) = Len(s) + Len(c)
        /\ \A i \in 1..Len(s) : (s \o c)[i] = s[i]
        /\ \A i \in 1..Len(c) : (s \o c)[Len(s) + i] = c[i]
    BY <2>2, JoinFacts
  <2> QED BY <2>1, <2>2, <2>3, Zenon
<1>7. Holds(x, s \o c)
  <2>1. PICK t \in Seq(Byte) : t = s \o c
    BY <1>6
  <2>2. PICK k \in Nat : k = len + v
    BY <1>0, <1>5
  <2>0. PICK p \in Nat : p = r - len
    BY <1>0
  <2>3. ASSUME NEW i \in 1..k PROVE t[i] = new[p + i]
    <3>1. CASE i <= len
      <4>1. i \in 1..len
        BY <1>0, <3>1
      <4> QED BY <1>2, <1>6, <2>0, <2>1, <4>1
    <3>2. CASE ~(i <= len)
      <4>1. PICK j \in 1..v : j = i - len
        BY <1>0, <1>5, <2>2, <3>2
      <4>2. PICK q \in 1..n : q = p + i /\ q > (r - len) + len /\ q = r + j
        BY <1>0, <1>5, <2>0, <3>2, <4>1
      <4>3. i = len + j /\ j \in 1..(w - r)
        BY <1>0, <1>5, <4>1
      <4>4. t[len + j] = c[j] /\ c[j] = d[r + j]
        BY <1>1, <1>6, <2>1, <4>1, <4>3
      <4>5. new[q] = d[q]
        BY <1>2, <4>2
      <4> QED BY <4>2, <4>3, <4>4, <4>5
    <3> QED BY <3>1, <3>2
  <2>4. x.readerIndex = p /\ x.writerIndex = p + k /\ Len(t) = k
    BY <1>0, <1>3, <1>5, <1>6, <2>0, <2>1, <2>2
  <2>5. Holds(x, t)
    BY <1>3, <2>0, <2>1, <2>2, <2>3, <2>4, HoldsIf
  <2> QED BY <2>1, <2>5
<1> QED BY <1>4, <1>7 DEF x

\* retrieve: the first len bytes go, and with the last one the indices go back.
LEMMA RetrieveFacts ==
  ASSUME NEW b, BufOK(b), NEW c, Holds(b, c), NEW len \in Nat, len <= Len(c)
  PROVE  BufOK(retrieve(b, len)) /\ Holds(retrieve(b, len), SubSeq(c, len + 1, Len(c)))
<1> DEFINE d == b.data
           r == b.readerIndex
           w == b.writerIndex
           n == Len(d)
           x == retrieve(b, len)
<1>0. /\ b \in [data : Seq(Byte), readerIndex : Nat, writerIndex : Nat]
      /\ d \in Seq(Byte) /\ r \in Nat /\ w \in Nat /\ n \in Nat
      /\ r <= w /\ w <= n /\ kCheapPrepend <= n /\ kCheapPrepend \in Nat
  BY LenProperties, BufferAssumption DEF BufOK
<1>1. PICK v \in Nat : v = w - r /\ Len(c) = v /\ v >= len
  BY <1>0 DEF Holds
<1>2. c \in Seq(Byte) /\ \A i \in 1..v : c[i] = d[r + i]
  BY <1>1 DEF Holds
<1>3. PICK t \in Seq(Byte) : /\ t = SubSeq(c, len + 1, Len(c)) /\ Len(t) = v - len
                             /\ \A i \in 1..(v - len) : t[i] = c[len + i]
  <2>1. len <= v /\ v <= Len(c)
    BY <1>1
  <2> QED BY <1>1, <1>2, <2>1, PieceFacts
<1>4. PICK k \in Nat : k = v - len
  BY <1>1
<1>5. CASE len < v
  <2>1. x = [b EXCEPT !.readerIndex = r + len]
    BY <1>1, <1>5 DEF retrieve, readableBytes
  <2>2. PICK p \in Nat : p = r + len
    BY <1>0
  <2>3. /\ x.data = d /\ x.readerIndex = p /\ x.writerIndex = w
        /\ x \in [data : Seq(Byte), readerIndex : Nat, writerIndex : Nat]
    BY <1>0, <2>1, <2>2
  <2> HIDE DEF x, d, r, w, n
  <2>4. BufOK(x)
    BY <1>0, <1>1, <1>5, <2>2, <2>3 DEF BufOK, n
  <2>5. \A i \in 1..k : t[i] = x.data[p + i]
    <3> SUFFICES ASSUME NEW i \in 1..k PROVE t[i] = x.data[p + i]
      OBVIOUS
    <3>1. PICK j \in 1..v : j = len + i
      BY <1>1, <1>4
    <3>2. p + i = r + j
      BY <1>0, <2>2, <3>1
    <3> QED BY <1>2, <1>3, <1>4, <2>3, <3>1, <3>2
  <2>6. x.writerIndex = p + k /\ Len(t) = k
    BY <1>0, <1>1, <1>3, <1>4, <2>2, <2>3
  <2>7. Holds(x, t)
    BY <1>3, <1>4, <2>2, <2>3, <2>5, <2>6, HoldsIf
  <2> QED BY <1>3, <2>4, <2>7 DEF x
<1>6. CASE ~(len < v)
  <2>1. x = [b EXCEPT !.readerIndex = kCheapPrepend, !.writerIndex = kCheapPrepend]
    BY <1>1, <1>6 DEF retrieve, retrieveAll, readableBytes
  <2>2. /\ x.data = d /\ x.readerIndex = kCheapPrepend /\ x.writerIndex = kCheapPrepend
        /\ x \in [data : Seq(Byte), readerIndex : Nat, writerIndex : Nat]
    BY <1>0, <2>1
  <2> HIDE DEF x, d, r, w, n
  <2>3. BufOK(x)
    BY <1>0, <2>2 DEF BufOK, n
  <2>4. Holds(x, t)
    <3>1. Len(t) = 0 /\ x.writerIndex - x.readerIndex = 0
      BY <1>0, <1>1, <1>3, <1>6, <2>2
    <3> QED BY <1>3, <3>1 DEF Holds
  <2> QED BY <1>3, <2>3, <2>4 DEF x
<1> QED BY <1>5, <1>6

\* unwrite: the last len bytes go.
LEMMA UnwriteFacts ==
  ASSUME NEW b, BufOK(b), NEW c, Holds(b, c), NEW len \in Nat, len <= Len(c)
  PROVE  BufOK(unwrite(b, len)) /\ Holds(unwrite(b, len), SubSeq(c, 1, Len(c) - len))
<1> DEFINE d == b.data
           r == b.readerIndex
           w == b.writerIndex
           n == Len(d)
           x == unwrite(b, len)
<1>0. /\ b \in [data : Seq(Byte), readerIndex : Nat, writerIndex : Nat]
      /\ d \in Seq(Byte) /\ r \in Nat /\ w \in Nat /\ n \in Nat
      /\ r <= w /\ w <= n /\ kCheapPrepend <= n
  BY LenProperties DEF BufOK
<1>1. PICK v \in Nat : v = w - r /\ Len(c) = v /\ v >= len
  BY <1>0 DEF Holds
<1>2. c \in Seq(Byte) /\ \A i \in 1..v : c[i] = d[r + i]
  BY <1>1 DEF Holds
<1>3. PICK k \in Nat : k = v - len /\ k <= Len(c)
  BY <1>1
<1>4. PICK t \in Seq(Byte) : /\ t = SubSeq(c, 1, k) /\ Len(t) = k
                             /\ \A i \in 1..k : t[i] = c[i]
  <2>1. /\ SubSeq(c, 0 + 1, k) \in Seq(Byte) /\ Len(SubSeq(c, 0 + 1, k)) = k - 0
        /\ \A i \in 1..(k - 0) : SubSeq(c, 0 + 1, k)[i] = c[0 + i]
    BY <1>2, <1>3, PieceFacts
  <2>2. PICK t : t = SubSeq(c, 1, k)
    OBVIOUS
  <2>3. t = SubSeq(c, 0 + 1, k)
    BY <2>2
  <2>4. t \in Seq(Byte) /\ Len(t) = k /\ \A i \in 1..k : t[i] = c[i]
    BY <2>1, <2>3
  <2> QED BY <2>2, <2>4
<1>5. PICK p \in Nat : p = w - len
  BY <1>0, <1>1
<1>6. x = [b EXCEPT !.writerIndex = p]
  BY <1>5 DEF unwrite
<1>7. /\ x.data = d /\ x.readerIndex = r /\ x.writerIndex = p
      /\ x \in [data : Seq(Byte), readerIndex : Nat, writerIndex : Nat]
  <2> HIDE DEF x
  <2> QED BY <1>0, <1>5, <1>6, FieldFacts
<1>8. PICK q \in Nat : q = r
  BY <1>0
<1> HIDE DEF x, d, r, w, n
<1>9. BufOK(x)
  BY <1>0, <1>1, <1>5, <1>7 DEF BufOK, n
<1>10. /\ x.readerIndex = q /\ x.writerIndex = q + k
       /\ \A i \in 1..k : t[i] = x.data[q + i]
  <2>1. x.readerIndex = q
    BY <1>7, <1>8
  <2>2. p = q + k
    BY <1>0, <1>1, <1>3, <1>5, <1>8
  <2>3. \A i \in 1..k : i \in 1..v
    BY <1>1, <1>3
  <2>4. \A i \in 1..k : t[i] = d[r + i]
    BY <1>2, <1>4, <2>3
  <2> QED BY <1>7, <1>8, <2>1, <2>2, <2>4
<1>11. Holds(x, t)
  BY <1>3, <1>4, <1>8, <1>10, HoldsIf
<1>12. SubSeq(c, 1, Len(c) - len) = t
  BY <1>1, <1>3, <1>4
<1> QED BY <1>9, <1>11, <1>12 DEF x

\* shrink: the content moves to a new vector.
LEMMA ShrinkFacts ==
  ASSUME NEW b, BufOK(b), NEW c, Holds(b, c), NEW reserve \in Nat
  PROVE  BufOK(shrink(b, reserve)) /\ Holds(shrink(b, reserve), c)
<1>1. c = toStringPiece(b) /\ c \in Seq(Byte)
  BY PieceHeld DEF Holds
<1>2. PICK n \in Nat : n = readableBytes(b) + reserve
  BY DEF BufOK, readableBytes
<1>3. PICK e : e = ensureWritableBytes(NewBuffer, n)
  OBVIOUS
<1>4. BufOK(e) /\ Holds(e, <<>>)
  BY <1>2, <1>3, NewBufferOK, EnsureFacts
<1>5. BufOK(append(e, c)) /\ Holds(append(e, c), <<>> \o c)
  BY <1>1, <1>4, AppendFacts
<1>6. <<>> \o c = c
  BY <1>1, ConcatEmptySeq
<1> QED BY <1>1, <1>2, <1>3, <1>5, <1>6 DEF shrink

\* readFd: all bytes read come behind the content, in order, also those that
\* went through extrabuf.
LEMMA ReadFdFacts ==
  ASSUME NEW b, BufOK(b), NEW c, Holds(b, c), NEW s \in Seq(Byte)
  PROVE  BufOK(readFd(b, s)) /\ Holds(readFd(b, s), c \o s)
<1>0. PICK m \in Nat : m = writableBytes(b)
  BY LenProperties DEF BufOK, writableBytes
<1>1. PICK k \in Nat : k = Len(s)
  BY LenProperties
<1>2. CASE k <= m
  <2>1. readFd(b, s) = hasWritten([b EXCEPT !.data = Copy(@, s, b.writerIndex)], Len(s))
    BY <1>0, <1>1, <1>2 DEF readFd
  <2> QED BY <1>0, <1>1, <1>2, <2>1, WriteFacts
<1>3. CASE ~(k <= m)
  <2>1. PICK s1 : s1 = SubSeq(s, 1, m)
    OBVIOUS
  <2>2. PICK s2 : s2 = SubSeq(s, m + 1, k)
    OBVIOUS
  <2>3. s1 \in Seq(Byte) /\ Len(s1) = m /\ \A i \in 1..m : s1[i] = s[i]
    <3>0. m <= Len(s) /\ 0 <= m /\ 0 \in Nat
      BY <1>0, <1>1, <1>3
    <3>1. /\ SubSeq(s, 0 + 1, m) \in Seq(Byte) /\ Len(SubSeq(s, 0 + 1, m)) = m - 0
          /\ \A i \in 1..(m - 0) : SubSeq(s, 0 + 1, m)[i] = s[0 + i]
      BY <3>0, PieceFacts
    <3>2. s1 = SubSeq(s, 0 + 1, m)
      BY <2>1
    <3> QED BY <1>0, <3>1, <3>2
  <2>4. s2 \in Seq(Byte) /\ Len(s2) = k - m /\ \A i \in 1..(k - m) : s2[i] = s[m + i]
    BY <1>1, <1>3, <2>2, PieceFacts
  <2>5. s1 \o s2 = s
    <3>1. PICK l \in Nat : l = k - m
      BY <1>3
    <3>2. /\ s1 \o s2 \in Seq(Byte) /\ Len(s1 \o s2) = m + l
          /\ \A i \in 1..m : (s1 \o s2)[i] = s1[i]
          /\ \A i \in 1..l : (s1 \o s2)[m + i] = s2[i]
      <4>1. s1 \in Seq(Byte) /\ s2 \in Seq(Byte) /\ Len(s1) = m /\ Len(s2) = l
        BY <2>3, <2>4, <3>1
      <4>2. /\ s1 \o s2 \in Seq(Byte) /\ Len(s1 \o s2) = Len(s1) + Len(s2)
            /\ \A i \in 1..Len(s1) : (s1 \o s2)[i] = s1[i]
            /\ \A i \in 1..Len(s2) : (s1 \o s2)[Len(s1) + i] = s2[i]
        BY <4>1, JoinFacts
      <4> QED BY <4>1, <4>2, Zenon
    <3>3. PICK t : t = s1 \o s2
      OBVIOUS
    <3>4. ASSUME NEW i \in 1..k PROVE t[i] = s[i]
      <4>1. CASE i <= m
        BY <2>3, <3>2, <3>3, <4>1
      <4>2. CASE ~(i <= m)
        <5>1. PICK j \in 1..l : i = m + j
          <6>1. i - m \in 1..l /\ i = m + (i - m)
            BY <3>1, <4>2
          <6> QED BY <6>1
        <5> QED BY <2>4, <3>1, <3>2, <3>3, <5>1
      <4> QED BY <4>1, <4>2
    <3>5. Len(t) = Len(s)
      <4>1. Len(t) = m + l
        BY <3>2, <3>3, Zenon
      <4> QED BY <1>1, <1>3, <3>1, <4>1
    <3> QED BY <1>1, <3>2, <3>3, <3>4, <3>5, SameBytes
  <2>6. PICK y : y = hasWritten([b EXCEPT !.data = Copy(@, s1, b.writerIndex)], Len(s1))
    OBVIOUS
  <2>7. BufOK(y) /\ Holds(y, c \o s1)
    BY <1>0, <2>3, <2>6, WriteFacts
  <2>8. y = [b EXCEPT !.data = Copy(@, s1, b.writerIndex), !.writerIndex = Len(b.data)]
    <3>1. b.writerIndex + m = Len(b.data)
      BY <1>0, LenProperties DEF writableBytes, BufOK
    <3>2. PICK new : new = Copy(b.data, s1, b.writerIndex)
      OBVIOUS
    <3>3. y = [[b EXCEPT !.data = new] EXCEPT !.writerIndex = @ + m]
      BY <2>3, <2>6, <3>2 DEF hasWritten
    <3>4. b \in [data : Seq(Byte), readerIndex : Nat, writerIndex : Nat]
      BY DEF BufOK
    <3>5. y = [b EXCEPT !.data = new, !.writerIndex = b.writerIndex + m]
      BY <3>3, <3>4
    <3> QED BY <3>1, <3>2, <3>5
  <2>9. readFd(b, s) = append(y, s2)
    BY <1>0, <1>1, <1>3, <2>1, <2>2, <2>8 DEF readFd
  <2>10. BufOK(append(y, s2)) /\ Holds(append(y, s2), (c \o s1) \o s2)
    BY <2>4, <2>7, AppendFacts
  <2>11. (c \o s1) \o s2 = c \o (s1 \o s2)
    <3>1. c \in Seq(Byte)
      BY DEF Holds
    <3>2. s1 \in Seq(Byte) /\ s2 \in Seq(Byte)
      BY <2>3, <2>4
    <3> QED BY ONLY <3>1, <3>2, ConcatAssociative
  <2> QED BY <2>5, <2>9, <2>10, <2>11
<1> QED BY <1>2, <1>3

\* A digit to the base 256.
LEMMA OneDigit ==
  ASSUME NEW a \in Nat, a < 256
  PROVE  (a \div 1) % 256 = a
<1>1. a \div 1 = a
  OBVIOUS
<1>2. a % 256 = a
  OBVIOUS
<1> QED BY <1>1, <1>2

\* The last digit of a number, and what is left of it.
LEMMA LastDigit ==
  ASSUME NEW a \in Nat, NEW b \in Nat, b < 256, NEW x \in Nat, x = 256 * a + b
  PROVE  x \div 256 = a /\ (x \div 1) % 256 = b
<1>1. x \div 1 = x
  OBVIOUS
<1>2. x \div 256 = a
  OBVIOUS
<1>3. x % 256 = b
  OBVIOUS
<1> QED BY <1>1, <1>2, <1>3

\* One byte of a number, and the numbers two and four bytes spell.
Digit(x, radix) == (x \div radix) % 256
Two(a, b) == 256 * a + b
Four(a, b, c, d) == 256 * (256 * (256 * a + b) + c) + d

\* Bytes are numbers below 256.
LEMMA ByteIsDigit ==
  ASSUME NEW a \in Byte
  PROVE  a \in Nat /\ a < 256
BY DEF Byte

\* The radices, and the digits they give of one byte ...
LEMMA OneByte ==
  ASSUME NEW a \in Byte
  PROVE  Digit(a, Radix[1]) = a
<1>1. a \in Nat /\ a < 256
  BY ByteIsDigit
<1>2. Radix[1] = 1
  BY DEF Radix
<1>3. (a \div 1) % 256 = a
  BY <1>1, OneDigit
<1> QED BY <1>2, <1>3 DEF Digit

\* ... of two ...
LEMMA TwoBytes ==
  ASSUME NEW a \in Byte, NEW b \in Byte
  PROVE  Digit(Two(a, b), Radix[2]) = a /\ Digit(Two(a, b), Radix[1]) = b
<1>1. a \in Nat /\ a < 256 /\ b \in Nat /\ b < 256
  BY ByteIsDigit
<1>2. Radix[1] = 1 /\ Radix[2] = 256
  BY DEF Radix
<1>3. PICK x \in Nat : x = 256 * a + b
  BY <1>1
<1>4. x \div 256 = a /\ (x \div 1) % 256 = b
  BY <1>1, <1>3, LastDigit
<1>5. a % 256 = a
  BY <1>1
<1>6. Two(a, b) = x
  BY <1>3 DEF Two
<1>7. Digit(x, 256) = a /\ Digit(x, 1) = b
  BY <1>4, <1>5 DEF Digit
<1> QED BY <1>2, <1>6, <1>7

\* ... and of four.
LEMMA FourBytes ==
  ASSUME NEW a \in Byte, NEW b \in Byte, NEW c \in Byte, NEW d \in Byte
  PROVE  /\ Digit(Four(a, b, c, d), Radix[4]) = a /\ Digit(Four(a, b, c, d), Radix[3]) = b
         /\ Digit(Four(a, b, c, d), Radix[2]) = c /\ Digit(Four(a, b, c, d), Radix[1]) = d
<1>1. /\ a \in Nat /\ a < 256 /\ b \in Nat /\ b < 256
      /\ c \in Nat /\ c < 256 /\ d \in Nat /\ d < 256
  BY ByteIsDigit
<1>2. Radix[1] = 1 /\ Radix[2] = 256 /\ Radix[3] = 256 * 256 /\ Radix[4] = 256 * 256 * 256
  BY DEF Radix
<1>3. PICK z \in Nat : z = 256 * a + b
  BY <1>1
<1>4. PICK y \in Nat : y = 256 * z + c
  BY <1>1
<1>5. PICK x \in Nat : x = 256 * y + d
  BY <1>1
<1>6. x \div 256 = y /\ (x \div 1) % 256 = d
  BY <1>1, <1>5, LastDigit
<1>7. y % 256 = c
  BY <1>1, <1>4
<1>8. z % 256 = b /\ a % 256 = a
  BY <1>1, <1>3
<1>9. x = 256 * (256 * z + c) + d
  BY <1>4, <1>5
<1>10. x \div (256 * 256) = z
  BY <1>1, <1>9
<1>11. x = 256 * (256 * (256 * a + b) + c) + d
  BY <1>3, <1>9
<1>12. x \div (256 * 256 * 256) = a
  BY <1>1, <1>11
<1>13. Four(a, b, c, d) = x
  BY <1>11 DEF Four
<1>14. Digit(x, 1) = d
  BY <1>6 DEF Digit
<1>15. Digit(x, 256) = c
  BY <1>6, <1>7 DEF Digit
<1>16. Digit(x, 256 * 256) = b
  BY <1>8, <1>10 DEF Digit
<1>17. Digit(x, 256 * 256 * 256) = a
  BY <1>8, <1>12 DEF Digit
<1> QED BY <1>2, <1>13, <1>14, <1>15, <1>16, <1>17

\* The bytes of ToNetwork and the numbers of FromNetwork, by their digits.
LEMMA NetworkDigits ==
  /\ \A x : /\ ToNetwork(x, 1)[1] = Digit(x, Radix[1])
            /\ ToNetwork(x, 2)[1] = Digit(x, Radix[2])
            /\ ToNetwork(x, 2)[2] = Digit(x, Radix[1])
            /\ ToNetwork(x, 4)[1] = Digit(x, Radix[4])
            /\ ToNetwork(x, 4)[2] = Digit(x, Radix[3])
            /\ ToNetwork(x, 4)[3] = Digit(x, Radix[2])
            /\ ToNetwork(x, 4)[4] = Digit(x, Radix[1])
  /\ \A s : /\ Len(s) = 1 => FromNetwork(s) = s[1]
            /\ Len(s) = 2 => FromNetwork(s) = Two(s[1], s[2])
            /\ Len(s) = 4 => FromNetwork(s) = Four(s[1], s[2], s[3], s[4])
<1>1. ASSUME NEW x, NEW n \in Nat, NEW i \in 1..n, NEW k \in Nat, k = n - i + 1
      PROVE  ToNetwork(x, n)[i] = Digit(x, Radix[k])
  BY <1>1 DEF ToNetwork, Digit
<1>2. ASSUME NEW x
      PROVE  /\ ToNetwork(x, 1)[1] = Digit(x, Radix[1])
             /\ ToNetwork(x, 2)[1] = Digit(x, Radix[2])
             /\ ToNetwork(x, 2)[2] = Digit(x, Radix[1])
             /\ ToNetwork(x, 4)[1] = Digit(x, Radix[4])
             /\ ToNetwork(x, 4)[2] = Digit(x, Radix[3])
             /\ ToNetwork(x, 4)[3] = Digit(x, Radix[2])
             /\ ToNetwork(x, 4)[4] = Digit(x, Radix[1])
  BY <1>1
<1>3. ASSUME NEW s
      PROVE  /\ Len(s) = 1 => FromNetwork(s) = s[1]
             /\ Len(s) = 2 => FromNetwork(s) = Two(s[1], s[2])
             /\ Len(s) = 4 => FromNetwork(s) = Four(s[1], s[2], s[3], s[4])
  BY DEF FromNetwork, Two, Four
<1> QED BY <1>2, <1>3

\* The integers of 8, 16 and 32 bits come back from their bytes.
LEMMA NetworkRoundTrip ==
  ASSUME NEW s \in Seq(Byte), NEW n \in {1, 2, 4}, Len(s) = n
  PROVE  ToNetwork(FromNetwork(s), n) = s
<1>1. \A i \in 1..n : s[i] \in Byte
  BY ElementOfSeq
<1>2. PICK x : x = FromNetwork(s)
  OBVIOUS
<1>3. PICK t : t = ToNetwork(x, n)
  OBVIOUS
<1>4. \A i \in 1..n : t[i] = s[i]
  <2>1. CASE n = 1
    BY <1>1, <1>2, <1>3, <2>1, NetworkDigits, OneByte
  <2>2. CASE n = 2
    BY <1>1, <1>2, <1>3, <2>2, NetworkDigits, TwoBytes
  <2>3. CASE n = 4
    <3>1. s[1] \in Byte /\ s[2] \in Byte /\ s[3] \in Byte /\ s[4] \in Byte
      BY <1>1, <2>3
    <3>2. x = Four(s[1], s[2], s[3], s[4])
      BY <1>2, <2>3, NetworkDigits
    <3>3. /\ Digit(x, Radix[4]) = s[1] /\ Digit(x, Radix[3]) = s[2]
          /\ Digit(x, Radix[2]) = s[3] /\ Digit(x, Radix[1]) = s[4]
      BY <3>1, <3>2, FourBytes
    <3>4. t[1] = s[1] /\ t[2] = s[2] /\ t[3] = s[3] /\ t[4] = s[4]
      BY <1>3, <2>3, <3>3, NetworkDigits
    <3> QED BY <2>3, <3>4
  <2> QED BY <2>1, <2>2, <2>3
<1>5. DOMAIN t = 1..n /\ t = [i \in 1..n |-> t[i]]
  BY <1>3 DEF ToNetwork
<1>6. t \in Seq(Byte) /\ Len(t) = n
  BY <1>1, <1>4, <1>5
<1> QED BY <1>2, <1>3, <1>4, <1>6, SameBytes

\* peek sees the first bytes of the content.
LEMMA PeekFacts ==
  ASSUME NEW b, BufOK(b), NEW c, Holds(b, c), NEW len \in Nat, len <= Len(c)
  PROVE  /\ peek(b, len) = SubSeq(c, 1, len)
         /\ peek(b, len) \in Seq(Byte) /\ Len(peek(b, len)) = len
<1>0. /\ b.data \in Seq(Byte) /\ b.readerIndex \in Nat /\ b.writerIndex \in Nat
      /\ b.writerIndex <= Len(b.data) /\ Len(b.data) \in Nat
      /\ c \in Seq(Byte) /\ Len(c) = b.writerIndex - b.readerIndex
      /\ \A i \in 1..Len(c) : c[i] = b.data[b.readerIndex + i]
  BY LenProperties DEF BufOK, Holds
<1>1. PICK r \in Nat : r = b.readerIndex
  BY <1>0
<1>1a. PICK d \in Seq(Byte) : d = b.data
  BY <1>0
<1>1b. PICK w \in Nat : w = b.writerIndex /\ w <= Len(d)
  BY <1>0, <1>1a
<1>1c. Len(c) = w - r /\ Len(d) \in Nat
  BY <1>0, <1>1, <1>1a, <1>1b
<1>2. PICK q \in Nat : q = r + len /\ r <= q /\ q <= Len(d)
  BY <1>1b, <1>1c
<1>3. PICK p : p = SubSeq(d, r + 1, q)
  OBVIOUS
<1>4. p \in Seq(Byte) /\ Len(p) = q - r /\ \A i \in 1..(q - r) : p[i] = d[r + i]
  BY <1>2, <1>3, PieceFacts
<1>5. PICK t : t = SubSeq(c, 0 + 1, len)
  OBVIOUS
<1>6. t \in Seq(Byte) /\ Len(t) = len - 0 /\ \A i \in 1..(len - 0) : t[i] = c[0 + i]
  BY <1>0, <1>5, PieceFacts
<1>7. \A i \in 1..len : i \in 1..Len(c) /\ i \in 1..(q - r) /\ i \in 1..(len - 0) /\ 0 + i = i
  BY <1>0, <1>2
<1>8. Len(p) = len /\ Len(t) = len
  BY <1>2, <1>4, <1>6
<1>9. \A i \in 1..len : p[i] = t[i]
  BY <1>0, <1>1, <1>1a, <1>4, <1>6, <1>7, ZenonT(30)
<1>10. p = t
  BY <1>4, <1>6, <1>8, <1>9, SameBytes
<1>11. peek(b, len) = p /\ SubSeq(c, 1, len) = t
  BY <1>1, <1>1a, <1>2, <1>3, <1>5 DEF peek
<1> QED BY <1>4, <1>8, <1>10, <1>11

\* Where the pattern, of k bytes, begins in the bytes c.
Matches(c, pattern, k) ==
  {i \in 0..(Len(c) - k) : SubSeq(c, i + 1, i + k) = pattern}

\* The search for a pattern: -1 without a match, otherwise the first one.
LEMMA FindFacts ==
  ASSUME NEW b, BufOK(b), NEW c, Holds(b, c), NEW pattern
  PROVE  LET at == Matches(c, pattern, Len(pattern))
             f == Find(b, pattern)
         IN \/ f = -1 /\ at = {}
            \/ f \in at /\ f \in Nat /\ \A j \in at : f <= j
<1> DEFINE at == Matches(c, pattern, Len(pattern))
<1>1. c = toStringPiece(b) /\ Len(c) \in Nat
  BY PieceHeld, LenProperties DEF Holds
<1>2. Find(b, pattern) = IF at = {} THEN -1 ELSE CHOOSE i \in at : \A j \in at : i <= j
  BY <1>1 DEF Find, Matches
<1>3. at \subseteq Nat
  BY DEF Matches
<1> HIDE DEF at
<1>4. at # {} => \E i \in at : \A j \in at : i <= j
  BY <1>3, LeastNat
<1>5. \/ Find(b, pattern) = -1 /\ at = {}
      \/ Find(b, pattern) \in at /\ Find(b, pattern) \in Nat /\ \A j \in at : Find(b, pattern) <= j
  BY <1>2, <1>3, <1>4
<1> QED BY <1>5 DEF at

\* findEOL finds the first newline.
LEMMA EolFacts ==
  ASSUME NEW b, BufOK(b), NEW c, Holds(b, c)
  PROVE  \/ findEOL(b) = -1 /\ \A i \in 1..Len(c) : c[i] # 10
         \/ /\ findEOL(b) \in Nat /\ findEOL(b) + 1 \in 1..Len(c)
            /\ c[findEOL(b) + 1] = 10 /\ \A i \in 1..findEOL(b) : c[i] # 10
<1> DEFINE at == {i \in 0..(Len(c) - 1) : SubSeq(c, i + 1, i + 1) = <<10>>}
<1>0. c \in Seq(Byte) /\ Len(c) \in Nat
  BY LenProperties DEF Holds
<1>1. ASSUME NEW i \in 0..(Len(c) - 1)
      PROVE  SubSeq(c, i + 1, i + 1) = <<10>> <=> c[i + 1] = 10
  <2>1. PICK k \in Nat : k = i + 1 /\ i <= k /\ k <= Len(c)
    BY <1>0
  <2>2. PICK p : p = SubSeq(c, i + 1, k)
    OBVIOUS
  <2>3. p \in Seq(Byte) /\ Len(p) = k - i /\ \A j \in 1..(k - i) : p[j] = c[i + j]
    BY <1>0, <2>1, <2>2, PieceFacts
  <2>4. Len(p) = 1 /\ p[1] = c[i + 1]
    BY <2>1, <2>3
  <2>5. p = <<10>> <=> p[1] = 10
    <3>1. <<10>> \in Seq(Byte) /\ Len(<<10>>) = 1 /\ <<10>>[1] = 10
      BY DEF Byte
    <3>2. p[1] = 10 => p = <<10>>
      BY <2>3, <2>4, <3>1, SameBytes
    <3> QED BY <3>2
  <2> QED BY <2>1, <2>2, <2>4, <2>5
<1>2. PICK f : f = findEOL(b)
  OBVIOUS
<1>3. \/ f = -1 /\ at = {}
      \/ f \in at /\ f \in Nat /\ \A j \in at : f <= j
  <2>1. Len(<<10>>) = 1
    OBVIOUS
  <2>2. f = Find(b, <<10>>)
    BY <1>2 DEF findEOL
  <2>3. \/ f = -1 /\ Matches(c, <<10>>, 1) = {}
        \/ /\ f \in Matches(c, <<10>>, 1) /\ f \in Nat
           /\ \A j \in Matches(c, <<10>>, 1) : f <= j
    BY <2>1, <2>2, FindFacts
  <2>4. at = Matches(c, <<10>>, 1)
    BY DEF Matches
  <2> QED BY <2>3, <2>4
<1>4. \A i \in 0..(Len(c) - 1) : i \in at <=> c[i + 1] = 10
  BY <1>1
<1>5. at \subseteq 0..(Len(c) - 1)
  OBVIOUS
<1> HIDE DEF at
<1>6. CASE f = -1 /\ at = {}
  <2>1. ASSUME NEW i \in 1..Len(c) PROVE c[i] # 10
    <3>1. PICK j \in 0..(Len(c) - 1) : i = j + 1
      <4>1. i - 1 \in 0..(Len(c) - 1) /\ i = (i - 1) + 1
        BY <1>0
      <4> QED BY <4>1
    <3> QED BY <1>4, <1>6, <3>1
  <2> QED BY <1>2, <1>6, <2>1
<1>7. CASE f \in at /\ f \in Nat /\ \A j \in at : f <= j
  <2>1. f + 1 \in 1..Len(c) /\ c[f + 1] = 10
    BY <1>0, <1>4, <1>5, <1>7
  <2>2. ASSUME NEW i \in 1..f PROVE c[i] # 10
    <3>1. PICK j \in 0..(Len(c) - 1) : i = j + 1 /\ j < f
      <4>1. i - 1 \in 0..(Len(c) - 1) /\ i = (i - 1) + 1 /\ i - 1 < f
        BY <1>0, <1>7, <2>1
      <4> QED BY <4>1
    <3>2. j \notin at
      BY <1>7, <3>1
    <3> QED BY <1>4, <3>1, <3>2
  <2> QED BY <1>2, <1>7, <2>1, <2>2
<1> QED BY <1>3, <1>6, <1>7

\* findCRLF finds the first carriage return that a newline follows.
LEMMA CrlfFacts ==
  ASSUME NEW b, BufOK(b), NEW c, Holds(b, c)
  PROVE  LET f == findCRLF(b)
         IN \/ f = -1 /\ \A i \in 0..(Len(c) - 2) : ~CrlfAt(c, i)
            \/ f \in Nat /\ CrlfAt(c, f) /\ \A i \in 0..(f - 1) : ~CrlfAt(c, i)
<1> DEFINE at == Matches(c, <<13, 10>>, 2)
<1>0. c \in Seq(Byte) /\ Len(c) \in Nat
  BY LenProperties DEF Holds
<1>1. ASSUME NEW i \in 0..(Len(c) - 2)
      PROVE  SubSeq(c, i + 1, i + 2) = <<13, 10>> <=> CrlfAt(c, i)
  <2>1. PICK k \in Nat : k = i + 2 /\ i <= k /\ k <= Len(c)
    BY <1>0
  <2>2. PICK p : p = SubSeq(c, i + 1, k)
    OBVIOUS
  <2>3. p \in Seq(Byte) /\ Len(p) = k - i /\ \A j \in 1..(k - i) : p[j] = c[i + j]
    BY <1>0, <2>1, <2>2, PieceFacts
  <2>4. k - i = 2 /\ 1 \in 1..(k - i) /\ 2 \in 1..(k - i)
    BY <2>1
  <2>5. Len(p) = 2 /\ p[1] = c[i + 1] /\ p[2] = c[i + 2]
    BY <2>3, <2>4
  <2>6. p = <<13, 10>> <=> p[1] = 13 /\ p[2] = 10
    <3>1. PICK q : q = <<13, 10>>
      OBVIOUS
    <3>2. q \in Seq(Byte) /\ Len(q) = 2 /\ q[1] = 13 /\ q[2] = 10
      BY <3>1 DEF Byte
    <3>3. ASSUME p[1] = 13, p[2] = 10 PROVE p = q
      <4>1. \A j \in 1..2 : p[j] = q[j]
        BY <3>2, <3>3
      <4> QED BY <2>3, <2>5, <3>2, <4>1, SameBytes
    <3> QED BY <3>1, <3>2, <3>3
  <2> QED BY <2>1, <2>2, <2>5, <2>6 DEF CrlfAt
<1>2. PICK f : f = findCRLF(b)
  OBVIOUS
<1>3. \/ f = -1 /\ at = {}
      \/ f \in at /\ f \in Nat /\ \A j \in at : f <= j
  <2>1. Len(<<13, 10>>) = 2
    OBVIOUS
  <2>2. f = Find(b, <<13, 10>>)
    BY <1>2 DEF findCRLF
  <2> QED BY <2>1, <2>2, FindFacts
<1>4. \A i \in 0..(Len(c) - 2) : i \in at <=> CrlfAt(c, i)
  BY <1>1 DEF Matches
<1>5. at \subseteq 0..(Len(c) - 2)
  BY DEF Matches
<1> HIDE DEF at
<1>6. CASE f = -1 /\ at = {}
  BY <1>2, <1>4, <1>6
<1>7. CASE f \in at /\ f \in Nat /\ \A j \in at : f <= j
  <2>1. CrlfAt(c, f)
    BY <1>4, <1>5, <1>7
  <2>2. ASSUME NEW i \in 0..(f - 1) PROVE ~CrlfAt(c, i)
    <3>1. i \in 0..(Len(c) - 2) /\ i < f
      BY <1>0, <1>5, <1>7
    <3>2. i \notin at
      BY <1>7, <3>1
    <3> QED BY <1>4, <3>1, <3>2
  <2> QED BY <1>2, <1>7, <2>1, <2>2
<1> QED BY <1>3, <1>6, <1>7

\* Every call keeps the buffer and the queue together.
LEMMA BufferNextInv ==
  BufferInv /\ [BufferNext]_bufferVars => BufferInv'
<1> SUFFICES ASSUME BufferInv, [BufferNext]_bufferVars PROVE BufferInv'
  OBVIOUS
<1>0. BufOK(buf) /\ Holds(buf, content)
  BY DEF BufferInv
<1>1. content \in Seq(Byte) /\ Len(content) \in Nat
  BY <1>0, LenProperties DEF Holds
<1>2. ASSUME NEW n \in Nat, NEW s \in Chunks(n) PROVE s \in Seq(Byte)
  <2>1. PICK k \in 1..n : s \in [1..k -> Bytes]
    BY DEF Chunks
  <2>2. s \in [1..k -> Byte]
    BY <2>1, BufferAssumption DEF Byte
  <2> QED BY <2>2
<1>3. ASSUME NEW s \in Seq(Byte), AppendBytes(s) PROVE BufferInv'
  <2>1. PICK x : x = append(buf, s)
    OBVIOUS
  <2>2. BufOK(x) /\ Holds(x, content \o s)
    BY <1>0, <2>1, AppendFacts
  <2> QED BY <1>3, <2>1, <2>2 DEF AppendBytes, BufferInv
<1>4. ASSUME NEW s \in Seq(Byte), ReadFd(s) PROVE BufferInv'
  <2>1. PICK x : x = readFd(buf, s)
    OBVIOUS
  <2>2. BufOK(x) /\ Holds(x, content \o s)
    BY <1>0, <2>1, ReadFdFacts
  <2> QED BY <1>4, <2>1, <2>2 DEF ReadFd, BufferInv
<1>5. ASSUME NEW s \in Seq(Byte), Prepend(s) PROVE BufferInv'
  <2>1. PICK x : x = prepend(buf, s)
    OBVIOUS
  <2>2. BufOK(x) /\ Holds(x, s \o content)
    BY <1>0, <1>5, <2>1, PrependFacts DEF Prepend
  <2> QED BY <1>5, <2>1, <2>2 DEF Prepend, BufferInv
<1>6. ASSUME NEW n \in Nat, Retrieve(n) PROVE BufferInv'
  <2>1. PICK x : x = retrieve(buf, n)
    OBVIOUS
  <2>2. BufOK(x) /\ Holds(x, SubSeq(content, n + 1, Len(content)))
    BY <1>0, <1>6, <2>1, RetrieveFacts DEF Retrieve
  <2> QED BY <1>6, <2>1, <2>2 DEF Retrieve, BufferInv
<1>7. ASSUME NEW n \in Nat, Unwrite(n) PROVE BufferInv'
  <2>1. PICK x : x = unwrite(buf, n)
    OBVIOUS
  <2>2. BufOK(x) /\ Holds(x, SubSeq(content, 1, Len(content) - n))
    BY <1>0, <1>7, <2>1, UnwriteFacts DEF Unwrite
  <2> QED BY <1>7, <2>1, <2>2 DEF Unwrite, BufferInv
<1>8. ASSUME NEW n \in Nat, Shrink(n) PROVE BufferInv'
  <2>1. PICK x : x = shrink(buf, n)
    OBVIOUS
  <2>2. BufOK(x) /\ Holds(x, content)
    BY <1>0, <2>1, ShrinkFacts
  <2> QED BY <1>8, <2>1, <2>2 DEF Shrink, BufferInv
<1>9. ASSUME NEW size \in {1, 2, 4}, ReadInt(size) PROVE BufferInv'
  <2>1. PICK x : x = retrieve(buf, size)
    OBVIOUS
  <2>2. BufOK(x) /\ Holds(x, SubSeq(content, size + 1, Len(content)))
    BY <1>0, <1>9, <2>1, RetrieveFacts DEF ReadInt
  <2> QED BY <1>9, <2>1, <2>2 DEF ReadInt, readInt, BufferInv
<1>10. ASSUME NEW size \in {1, 2, 4}, size <= Len(content)
       PROVE  /\ SubSeq(content, 1, size) \in Seq(Byte)
              /\ Len(SubSeq(content, 1, size)) = size
              /\ ToNetwork(peekInt(buf, size), size) = SubSeq(content, 1, size)
  <2>1. PICK p : p = peek(buf, size)
    OBVIOUS
  <2>2. p = SubSeq(content, 1, size) /\ p \in Seq(Byte) /\ Len(p) = size
    BY <1>0, <1>10, <2>1, PeekFacts
  <2>3. ToNetwork(FromNetwork(p), size) = p
    BY <2>2, NetworkRoundTrip
  <2> QED BY <2>1, <2>2, <2>3 DEF peekInt
<1>11. ASSUME NEW size \in {1, 2, 4}, AppendInt(size) PROVE BufferInv'
  <2>0. PICK p \in Seq(Byte) : /\ p = SubSeq(content, 1, size)
                               /\ ToNetwork(peekInt(buf, size), size) = p
    BY <1>10, <1>11 DEF AppendInt
  <2>1. PICK x : x = append(buf, p)
    OBVIOUS
  <2>2. BufOK(x) /\ Holds(x, content \o p)
    BY <1>0, <2>1, AppendFacts
  <2> QED BY <1>11, <2>0, <2>1, <2>2 DEF AppendInt, appendInt, BufferInv
<1>12. ASSUME NEW size \in {1, 2, 4}, PrependInt(size) PROVE BufferInv'
  <2>0. PICK p \in Seq(Byte) : /\ p = SubSeq(content, 1, size) /\ Len(p) = size
                               /\ ToNetwork(peekInt(buf, size), size) = p
    BY <1>10, <1>12 DEF PrependInt
  <2>1. PICK x : x = prepend(buf, p)
    OBVIOUS
  <2>2. BufOK(x) /\ Holds(x, p \o content)
    BY <1>0, <1>12, <2>0, <2>1, PrependFacts DEF PrependInt
  <2> QED BY <1>12, <2>0, <2>1, <2>2 DEF PrependInt, prependInt, BufferInv
<1>13. ASSUME UNCHANGED bufferVars PROVE BufferInv'
  BY <1>13 DEF bufferVars, BufferInv
<1>14. MaxContent \in Nat
  BY BufferAssumption
<1> QED BY <1>2, <1>3, <1>4, <1>5, <1>6, <1>7, <1>8, <1>9, <1>11, <1>12, <1>13, <1>14
        DEF BufferNext

\* Buffer, for every size of the vector, of the prefix and of extrabuf: whatever
\* appends, reads of the descriptor, prepends, retrievals, integers and shrinks
\* came before, the bytes between the indices are the queue of the calls and
\* the indices stay in bounds; findEOL and findCRLF find the first match.
THEOREM BufferAlwaysByteQueue ==
  BufferSpec => []BufferIsByteQueue
<1>1. BufferInit => BufferInv
  BY NewBufferOK DEF BufferInit, BufferInv
<1>2. BufferInv => BufferIsByteQueue
  <2> SUFFICES ASSUME BufferInv PROVE BufferIsByteQueue
    OBVIOUS
  <2>0. BufOK(buf) /\ Holds(buf, content)
    BY DEF BufferInv
  <2>1. toStringPiece(buf) = content
    BY <2>0, PieceHeld
  <2>2. PICK eol : eol = findEOL(buf)
    OBVIOUS
  <2>3. PICK crlf : crlf = findCRLF(buf)
    OBVIOUS
  <2>4. content \in Seq(Byte) /\ Len(content) \in Nat /\ DOMAIN content = 1..Len(content)
    BY <2>0, LenProperties DEF Holds
  <2>5. \/ eol = -1 /\ \A i \in 1..Len(content) : content[i] # 10
        \/ /\ eol \in Nat /\ eol + 1 \in 1..Len(content)
           /\ content[eol + 1] = 10 /\ \A i \in 1..eol : content[i] # 10
    BY <2>0, <2>2, EolFacts
  <2>6. IF crlf = -1 THEN \A i \in 0..(Len(content) - 2) : ~CrlfAt(content, i)
        ELSE CrlfAt(content, crlf) /\ \A i \in 0..(crlf - 1) : ~CrlfAt(content, i)
    BY <2>0, <2>3, CrlfFacts
  <2>7. IF eol = -1 THEN \A i \in DOMAIN content : content[i] # 10
        ELSE content[eol + 1] = 10 /\ \A i \in 1..eol : content[i] # 10
    BY <2>4, <2>5
  <2>8. /\ 0 <= buf.readerIndex /\ buf.readerIndex <= buf.writerIndex
        /\ buf.writerIndex <= Len(buf.data)
    BY <2>0 DEF BufOK
  <2> QED BY <2>1, <2>2, <2>3, <2>6, <2>7, <2>8 DEF BufferIsByteQueue
<1> QED BY <1>1, <1>2, BufferNextInv, PTL DEF BufferSpec

-----------------------------------------------------------------------------
(* HttpContext.  The invariant follows the reference: f is the walk of Answers *)
(* over the lines sent so far, and an open connection stands at a line k of it *)
(* whose pieces are still to be parsed.                                        *)

\* The sets the variables range over.
AnyLine == UNION {Lines(n) : n \in Nat}
AnyRequest == [method : Known \cup {"kInvalid"}, path : Nat,
               version : {"kUnknown", "1.0", "1.1"}, connection : Values \cup {""}]
AnyResponse == {Response(r) : r \in AnyRequest} \cup {BadRequest}
AnyReading == [out : Seq(AnyResponse), req : AnyRequest, up : BOOLEAN]

\* The equation of the recursive function in Answers.
Reads(f, lines) ==
  f = [i \in 0..Len(lines) |-> IF i = 0 THEN NothingRead ELSE Answer(f[i - 1], lines[i])]

\* s is where t starts.
Starts(s, t) == Len(s) <= Len(t) /\ \A i \in 1..Len(s) : s[i] = t[i]

\* x is the j-th piece of the stream.
IsPiece(x, j) ==
  \E i \in 1..Len(clientLines) :
    \/ j = 2 * i - 1 /\ x = [line |-> clientLines[i], crlf |-> FALSE]
    \/ j = 2 * i /\ x = [line |-> clientLines[i], crlf |-> TRUE]

\* The buffer and the wire hold the pieces of the lines after the k-th.
PiecesFrom(k) ==
  /\ Len(httpBuf) + Len(httpWire) = 2 * (Len(clientLines) - k)
  /\ \A i \in 1..Len(httpBuf) : IsPiece(httpBuf[i], 2 * k + i)
  /\ \A i \in 1..Len(httpWire) : IsPiece(httpWire[i], 2 * k + Len(httpBuf) + i)

\* What the parser has made of the lines it took out.
Parsed(r) ==
  \/ /\ parseState = "kExpectRequestLine" /\ request = NoRequest
     /\ r = [out |-> responses, req |-> NoRequest, up |-> TRUE]
  \/ /\ parseState = "kExpectHeaders" /\ request.method # "kInvalid"
     /\ r = [out |-> responses, req |-> request, up |-> TRUE]
  \/ /\ parseState = "kGotAll"
     /\ r = [out |-> Append(responses, Response(request)), req |-> NoRequest,
             up |-> ~Closes(request)]

\* The variables have their types.
HttpTypeOK ==
  /\ clientLines \in Seq(AnyLine)
  /\ httpBuf \in Seq([line : AnyLine, crlf : BOOLEAN])
  /\ httpWire \in Seq([line : AnyLine, crlf : BOOLEAN])
  /\ request \in AnyRequest
  /\ responses \in Seq(AnyResponse)
  /\ httpUp \in BOOLEAN

\* The responses are answers of the walk, those before line k when the
\* connection is open.
Follows(f) ==
  /\ Reads(f, clientLines)
  /\ \A i \in 0..Len(clientLines) :
       f[i] \in AnyReading /\ Starts(f[i].out, f[Len(clientLines)].out)
  /\ Starts(responses, f[Len(clientLines)].out)
  /\ httpUp => \E k \in 0..Len(clientLines) : PiecesFrom(k) /\ Parsed(f[k])

HttpInv == HttpTypeOK /\ \E f : Follows(f)

\* The fields of a line by its kind.
LEMMA LineFacts ==
  \A l \in AnyLine :
    /\ l.kind = "request" => l.path \in Nat
    /\ l.kind = "Connection" => l.value \in Values
  BY DEF AnyLine, Lines, RequestLine, Connection, Other, Empty

\* The request of a fresh context.
LEMMA NoRequestFacts == NoRequest \in AnyRequest /\ NoRequest.method = "kInvalid"
  BY DEF NoRequest, AnyRequest

\* processRequestLine: a line it accepts sets a method.
LEMMA RequestLineFacts ==
  ASSUME NEW r \in AnyRequest, NEW l \in AnyLine
  PROVE  /\ ProcessRequestLine(r, l).req \in AnyRequest
         /\ ProcessRequestLine(r, l).ok => ProcessRequestLine(r, l).req.method # "kInvalid"
         /\ ProcessRequestLine(r, l).ok \in BOOLEAN
<1>1. CASE ~SetMethod(l)
  BY <1>1 DEF ProcessRequestLine
<1>2. CASE SetMethod(l)
  <2>1. l.path \in Nat /\ l.method \in Known
    BY <1>2, LineFacts DEF SetMethod
  <2>2. "kInvalid" \notin Known
    BY DEF Known
  <2>3. ProcessRequestLine(r, l).req \in AnyRequest
    BY <1>2, <2>1 DEF ProcessRequestLine, AnyRequest
  <2>4. ProcessRequestLine(r, l).req.method = l.method
    BY <1>2, <2>1 DEF ProcessRequestLine, AnyRequest
  <2>5. ProcessRequestLine(r, l).ok = (l.version \in {"1.0", "1.1"})
    BY <1>2 DEF ProcessRequestLine
  <2> QED BY <2>1, <2>2, <2>3, <2>4, <2>5, NoRequestFacts
<1> QED BY <1>1, <1>2

\* A header leaves the method alone.
LEMMA AddHeaderFacts ==
  ASSUME NEW r \in AnyRequest, NEW l \in AnyLine
  PROVE  AddHeader(r, l) \in AnyRequest /\ AddHeader(r, l).method = r.method
  BY LineFacts DEF AddHeader, AnyRequest

\* What is sent is a response, and closes as onRequest decides.
LEMMA ResponseFacts ==
  /\ \A r \in AnyRequest : Response(r) \in AnyResponse /\ Response(r).close = Closes(r)
  /\ BadRequest \in AnyResponse /\ BadRequest.close = TRUE
<1>1. \A r : Response(r).close = Closes(r)
  BY DEF Response
<1>2. BadRequest.close = TRUE
  BY DEF BadRequest
<1> QED BY <1>1, <1>2 DEF AnyResponse

\* A sequence starts itself and a longer one.
LEMMA StartsAppend ==
  ASSUME NEW S, NEW s \in Seq(S), NEW x \in S
  PROVE  Append(s, x) \in Seq(S) /\ Starts(s, Append(s, x)) /\ Starts(s, s)
<1>1. PICK n \in Nat : n = Len(s)
  BY LenProperties
<1>2. PICK t : t = Append(s, x)
  OBVIOUS
<1>3. t \in Seq(S) /\ Len(t) = n + 1 /\ \A i \in 1..n : t[i] = s[i]
  BY <1>1, <1>2, AppendProperties
<1> QED BY <1>1, <1>2, <1>3 DEF Starts

\* Starts is transitive ...
LEMMA StartsTransitive ==
  ASSUME NEW S, NEW s \in Seq(S), NEW t \in Seq(S), NEW u \in Seq(S),
         Starts(s, t), Starts(t, u)
  PROVE  Starts(s, u)
<1>1. Len(s) \in Nat /\ Len(t) \in Nat /\ Len(u) \in Nat
  BY LenProperties
<1> QED BY <1>1 DEF Starts

\* ... and is IsPrefix.
LEMMA StartsIsPrefix ==
  ASSUME NEW S, NEW s \in Seq(S), NEW t \in Seq(S), Starts(s, t)
  PROVE  IsPrefix(s, t)
<1>1. PICK n \in Nat : n = Len(s)
  BY LenProperties
<1>2. Len(t) \in Nat /\ n <= Len(t) /\ \A i \in 1..n : s[i] = t[i] /\ s[i] \in S /\ t[i] \in S
  BY <1>1, LenProperties, ElementOfSeq DEF Starts
<1>3. PICK a : a = SubSeq(s, 1, n)
  OBVIOUS
<1>4. PICK b : b = SubSeq(t, 1, n)
  OBVIOUS
<1>5. a = s
  BY <1>1, <1>3, SubSeqFull
<1>6. /\ b \in Seq(S) /\ Len(b) = (IF 1 <= n THEN n - 1 + 1 ELSE 0)
      /\ \A i \in 1..(n - 1 + 1) : b[i] = t[1 + i - 1]
  BY <1>2, <1>4, SubSeqProperties
<1>7. Len(b) = n /\ \A i \in 1..n : b[i] = t[i]
  BY <1>6
<1>8. b = s
  BY <1>1, <1>2, <1>6, <1>7, SeqEqual
<1> QED BY <1>1, <1>2, <1>3, <1>4, <1>5, <1>8 DEF IsPrefix

\* A line makes the answers longer.
LEMMA AnswerFacts ==
  ASSUME NEW r \in AnyReading, NEW l \in AnyLine
  PROVE  Answer(r, l) \in AnyReading /\ Starts(r.out, Answer(r, l).out)
<1>1. r.out \in Seq(AnyResponse) /\ r.req \in AnyRequest /\ r.up \in BOOLEAN
  BY DEF AnyReading
<1>2. CASE ~r.up
  BY <1>1, <1>2, StartsAppend, ResponseFacts DEF Answer
<1>3. CASE r.up /\ r.req = NoRequest /\ ProcessRequestLine(NoRequest, l).ok
  <2>1. Answer(r, l) = [r EXCEPT !.req = ProcessRequestLine(NoRequest, l).req]
    BY <1>3 DEF Answer
  <2>2. ProcessRequestLine(NoRequest, l).req \in AnyRequest
    BY NoRequestFacts, RequestLineFacts
  <2>3. Starts(r.out, r.out)
    BY <1>1, StartsAppend, ResponseFacts
  <2>4. Answer(r, l) \in AnyReading /\ Answer(r, l).out = r.out
    BY <2>1, <2>2 DEF AnyReading
  <2> QED BY <2>3, <2>4
<1>4. CASE r.up /\ r.req = NoRequest /\ ~ProcessRequestLine(NoRequest, l).ok
  <2>1. Answer(r, l) = [r EXCEPT !.up = FALSE, !.out = Append(r.out, BadRequest)]
    BY <1>4 DEF Answer, AnyReading
  <2>2. Append(r.out, BadRequest) \in Seq(AnyResponse) /\ Starts(r.out, Append(r.out, BadRequest))
    BY <1>1, StartsAppend, ResponseFacts
  <2>4. Answer(r, l) \in AnyReading /\ Answer(r, l).out = Append(r.out, BadRequest)
    BY <2>1, <2>2 DEF AnyReading
  <2> QED BY <2>2, <2>4
<1>5. CASE r.up /\ r.req # NoRequest /\ HasColon(l)
  <2>1. Answer(r, l) = [r EXCEPT !.req = AddHeader(r.req, l)]
    BY <1>5 DEF Answer, AnyReading
  <2>2. AddHeader(r.req, l) \in AnyRequest
    BY <1>1, AddHeaderFacts
  <2>3. Starts(r.out, r.out)
    BY <1>1, StartsAppend, ResponseFacts
  <2>4. Answer(r, l) \in AnyReading /\ Answer(r, l).out = r.out
    BY <2>1, <2>2 DEF AnyReading
  <2> QED BY <2>3, <2>4
<1>6. CASE r.up /\ r.req # NoRequest /\ ~HasColon(l)
  <2>1. Answer(r, l) = [out |-> Append(r.out, Response(r.req)), req |-> NoRequest,
                        up |-> ~Closes(r.req)]
    BY <1>6 DEF Answer
  <2>2. /\ Append(r.out, Response(r.req)) \in Seq(AnyResponse)
        /\ Starts(r.out, Append(r.out, Response(r.req)))
    BY <1>1, StartsAppend, ResponseFacts
  <2>3. Answer(r, l) \in AnyReading /\ Answer(r, l).out = Append(r.out, Response(r.req))
    BY <2>1, <2>2, NoRequestFacts DEF AnyReading
  <2> QED BY <2>2, <2>3
<1> QED BY <1>1, <1>2, <1>3, <1>4, <1>5, <1>6

\* The walk over one line more.
LEMMA ReadsAppend ==
  ASSUME NEW s \in Seq(AnyLine), NEW l \in AnyLine, NEW f, Reads(f, s)
  PROVE  \E g : /\ Reads(g, Append(s, l))
               /\ \A i \in 0..Len(s) : g[i] = f[i]
               /\ g[Len(s) + 1] = Answer(f[Len(s)], l)
<1>1. PICK n \in Nat : n = Len(s)
  BY LenProperties
<1>2. PICK m \in Nat : m = n + 1
  OBVIOUS
<1>3. PICK t : t = Append(s, l)
  OBVIOUS
<1>4. Len(t) = m /\ (\A i \in 1..n : t[i] = s[i]) /\ t[m] = l
  BY <1>1, <1>2, <1>3, AppendProperties
<1>5. \A i \in 0..n : f[i] = IF i = 0 THEN NothingRead ELSE Answer(f[i - 1], s[i])
  BY <1>1 DEF Reads
<1> DEFINE g == [i \in 0..m |-> IF i <= n THEN f[i] ELSE Answer(f[n], l)]
<1>6. (\A i \in 0..n : g[i] = f[i]) /\ g[m] = Answer(f[n], l)
  BY <1>2
<1>7. ASSUME NEW i \in 0..m
      PROVE  g[i] = IF i = 0 THEN NothingRead ELSE Answer(g[i - 1], t[i])
  <2>1. CASE i = 0
    BY <1>5, <1>6, <2>1
  <2>2. CASE i # 0 /\ i <= n
    <3>1. g[i] = f[i] /\ g[i - 1] = f[i - 1] /\ t[i] = s[i]
      BY <1>4, <1>6, <2>2
    <3> QED BY <1>5, <2>2, <3>1
  <2>3. CASE i = m
    <3>1. i - 1 = n /\ i # 0
      BY <1>2, <2>3
    <3>2. g[n] = f[n]
      BY <1>6
    <3> QED BY <1>4, <1>6, <2>3, <3>1, <3>2
  <2> QED BY <1>2, <2>1, <2>2, <2>3
<1>8. g = [i \in 0..m |-> g[i]]
  OBVIOUS
<1> HIDE DEF g
<1>9. Reads(g, t)
  BY <1>4, <1>7, <1>8 DEF Reads
<1> QED BY <1>1, <1>2, <1>3, <1>6, <1>9

\* There is only one walk, and Answers is where it ends.
LEMMA AnswersAre ==
  ASSUME NEW s, Len(s) \in Nat, NEW f, Reads(f, s)
  PROVE  Answers(s) = f[Len(s)].out
<1>1. PICK n \in Nat : n = Len(s)
  OBVIOUS
<1>2. PICK g : g = CHOOSE h : Reads(h, s)
  OBVIOUS
<1>3. Answers(s) = g[n].out
  BY <1>1, <1>2 DEF Answers, Reads
<1>4. Reads(g, s)
  BY <1>2
<1>5. \A i \in 0..n : /\ f[i] = IF i = 0 THEN NothingRead ELSE Answer(f[i - 1], s[i])
                      /\ g[i] = IF i = 0 THEN NothingRead ELSE Answer(g[i - 1], s[i])
  BY <1>1, <1>4 DEF Reads
<1> DEFINE T == {i \in 0..n : f[i] # g[i]}
<1>6. SUFFICES ASSUME f[n] # g[n] PROVE FALSE
  BY <1>1, <1>3
<1>7. T \subseteq Nat /\ T # {}
  BY <1>6
<1>8. PICK x \in T : \A y \in T : x <= y
  BY <1>7, LeastNat
<1>9. CASE x = 0
  BY <1>5, <1>8, <1>9
<1>10. CASE x # 0
  <2>1. x - 1 \in 0..n /\ ~(x <= x - 1)
    BY <1>8, <1>10
  <2>2. f[x - 1] = g[x - 1]
    BY <1>8, <2>1
  <2> QED BY <1>5, <1>8, <1>10, <2>2
<1> QED BY <1>9, <1>10

\* The initial state satisfies the invariant.
LEMMA HttpInitInv == HttpInit => HttpInv
<1> SUFFICES ASSUME HttpInit PROVE HttpInv
  OBVIOUS
<1>1. /\ clientLines = <<>> /\ httpWire = <<>> /\ httpBuf = <<>> /\ responses = <<>>
      /\ parseState = "kExpectRequestLine" /\ request = NoRequest /\ httpUp = TRUE
  BY DEF HttpInit
<1>2. Len(<<>>) = 0 /\ \A S : <<>> \in Seq(S)
  OBVIOUS
<1>3. HttpTypeOK
  BY <1>1, <1>2, NoRequestFacts DEF HttpTypeOK
<1>4. PICK f : f = [i \in 0..0 |-> NothingRead]
  OBVIOUS
<1>5. f[0] = NothingRead /\ Reads(f, clientLines)
  BY <1>1, <1>2, <1>4 DEF Reads
<1>6. NothingRead \in AnyReading /\ NothingRead.out = <<>>
  BY <1>2, NoRequestFacts DEF NothingRead, AnyReading
<1>7. Starts(<<>>, <<>>)
  BY <1>2 DEF Starts
<1>8. PiecesFrom(0)
  BY <1>1, <1>2 DEF PiecesFrom
<1>9. Parsed(f[0])
  BY <1>1, <1>5 DEF Parsed, NothingRead
<1>10. Follows(f)
  <2>1. \A i \in 0..Len(clientLines) : i = 0
    BY <1>1, <1>2
  <2>2. 0 \in 0..Len(clientLines) /\ Len(clientLines) = 0
    BY <1>1, <1>2
  <2> QED BY <1>1, <1>5, <1>6, <1>7, <1>8, <1>9, <2>1, <2>2 DEF Follows
<1> QED BY <1>3, <1>10 DEF HttpInv

\* A sequence with two elements more.
LEMMA TwoMore ==
  ASSUME NEW S, NEW s \in Seq(S), NEW a \in S, NEW b \in S
  PROVE  /\ Len(s \o <<a, b>>) = Len(s) + 2
         /\ \A i \in 1..Len(s) : (s \o <<a, b>>)[i] = s[i]
         /\ (s \o <<a, b>>)[Len(s) + 1] = a /\ (s \o <<a, b>>)[Len(s) + 2] = b
<1>1. PICK n \in Nat : n = Len(s)
  BY LenProperties
<1>2. PICK t \in Seq(S) : t = <<a, b>>
  <2>1. <<a, b>> \in Seq(S)
    OBVIOUS
  <2> QED BY <2>1, Zenon
<1>3. Len(t) = 2 /\ t[1] = a /\ t[2] = b
  BY <1>2
<1>4. PICK v : v = s \o t
  OBVIOUS
<1>5. Len(v) = n + 2 /\ \A i \in 1..(n + 2) : v[i] = IF i <= n THEN s[i] ELSE t[i - n]
  <2>1. /\ Len(s \o t) = Len(s) + Len(t)
        /\ \A i \in 1..Len(s) + Len(t) : (s \o t)[i] = IF i <= Len(s) THEN s[i] ELSE t[i - Len(s)]
    BY ConcatProperties, ZenonT(30)
  <2> QED BY <1>1, <1>3, <1>4, <2>1, ZenonT(30)
<1>6. \A i \in 1..n : v[i] = s[i]
  <2>1. \A i \in 1..n : i \in 1..(n + 2) /\ i <= n
    OBVIOUS
  <2> QED BY <1>5, <2>1, ZenonT(30)
<1>7. v[n + 1] = t[1] /\ v[n + 2] = t[2]
  <2>1. /\ n + 1 \in 1..(n + 2) /\ ~(n + 1 <= n) /\ (n + 1) - n = 1
        /\ n + 2 \in 1..(n + 2) /\ ~(n + 2 <= n) /\ (n + 2) - n = 2
    OBVIOUS
  <2>2. v[n + 1] = t[(n + 1) - n] /\ v[n + 2] = t[(n + 2) - n]
    BY <1>5, <2>1, ZenonT(30)
  <2> QED BY <2>1, <2>2
<1> QED BY <1>1, <1>2, <1>3, <1>4, <1>5, <1>6, <1>7

\* A line the client sends is two pieces more on the wire.
LEMMA ClientSendsPieces ==
  ASSUME HttpTypeOK, NEW line \in AnyLine, ClientSends(line),
         NEW k \in 0..Len(clientLines), PiecesFrom(k)
  PROVE  PiecesFrom(k)'
<1>1. PICK n \in Nat : n = Len(clientLines)
  BY LenProperties DEF HttpTypeOK
<1>2. /\ Len(clientLines') = n + 1 /\ clientLines'[n + 1] = line
      /\ \A i \in 1..n : clientLines'[i] = clientLines[i]
  BY <1>1, AppendProperties DEF HttpTypeOK, ClientSends
<1> DEFINE a == [line |-> line, crlf |-> FALSE]
           b == [line |-> line, crlf |-> TRUE]
           P == [line : AnyLine, crlf : BOOLEAN]
<1>3. a \in P /\ b \in P
  BY Zenon
<1>4. httpWire' = httpWire \o <<a, b>> /\ httpBuf' = httpBuf /\ httpWire \in Seq(P)
  BY DEF ClientSends, HttpTypeOK
<1>5. PICK w \in Nat : w = Len(httpWire)
  BY LenProperties DEF HttpTypeOK
<1>6. PICK q \in Nat : q = Len(httpBuf)
  BY LenProperties DEF HttpTypeOK
<1> HIDE DEF P, a, b
<1>8. /\ Len(httpWire') = w + 2
      /\ \A i \in 1..w : httpWire'[i] = httpWire[i]
      /\ httpWire'[w + 1] = a /\ httpWire'[w + 2] = b
  BY <1>3, <1>4, <1>5, TwoMore
<1>9. httpWire'[w + 1] = a /\ httpWire'[w + 2] = b
  BY <1>8
<1>10. q + w = 2 * (n - k)
  BY <1>1, <1>5, <1>6 DEF PiecesFrom
<1>11. \A x, j : IsPiece(x, j) => IsPiece(x, j)'
  <2> SUFFICES ASSUME NEW x, NEW j, IsPiece(x, j) PROVE IsPiece(x, j)'
    OBVIOUS
  <2>1. PICK i \in 1..n : \/ j = 2 * i - 1 /\ x = [line |-> clientLines[i], crlf |-> FALSE]
                          \/ j = 2 * i /\ x = [line |-> clientLines[i], crlf |-> TRUE]
    BY <1>1 DEF IsPiece
  <2>2. i \in 1..Len(clientLines') /\ clientLines'[i] = clientLines[i]
    BY <1>2
  <2> QED BY <2>1, <2>2 DEF IsPiece
<1>12. IsPiece(a, 2 * k + q + w + 1)' /\ IsPiece(b, 2 * k + q + w + 2)'
  <2>1. n + 1 \in 1..Len(clientLines')
    BY <1>2
  <2>2. 2 * k + q + w + 1 = 2 * (n + 1) - 1 /\ 2 * k + q + w + 2 = 2 * (n + 1)
    BY <1>10, <1>1
  <2> QED BY <1>2, <2>1, <2>2 DEF IsPiece, a, b
<1>13. Len(httpBuf') + Len(httpWire') = 2 * (Len(clientLines') - k)
  <2>1. Len(httpBuf') = q /\ Len(httpWire') = w + 2 /\ Len(clientLines') = n + 1
    BY <1>2, <1>4, <1>6, <1>8
  <2>2. q + (w + 2) = 2 * ((n + 1) - k)
    BY <1>1, <1>10
  <2> QED BY <2>1, <2>2
<1>14. \A i \in 1..Len(httpBuf') : IsPiece(httpBuf[i], 2 * k + i)'
  BY <1>4, <1>11 DEF PiecesFrom
<1>15. ASSUME NEW i \in 1..Len(httpWire')
       PROVE  IsPiece(httpWire[i], 2 * k + Len(httpBuf) + i)'
  <2>1. CASE i <= w
    <3>1. IsPiece(httpWire[i], 2 * k + q + i)
      BY <1>5, <1>6, <1>8, <2>1 DEF PiecesFrom
    <3>2. httpWire'[i] = httpWire[i]
      BY <1>8, <2>1
    <3> QED BY <1>4, <1>6, <1>11, <3>1, <3>2
  <2>2. CASE i = w + 1
    <3>1. 2 * k + q + i = 2 * k + q + w + 1
      BY <1>1, <2>2
    <3> QED BY <1>4, <1>6, <1>9, <1>12, <2>2, <3>1
  <2>3. CASE i = w + 2
    <3>1. 2 * k + q + i = 2 * k + q + w + 2
      BY <1>1, <2>3
    <3> QED BY <1>4, <1>6, <1>9, <1>12, <2>3, <3>1
  <2> QED BY <1>8, <2>1, <2>2, <2>3
<1> QED BY <1>13, <1>14, <1>15 DEF PiecesFrom

\* The parser takes no piece out: data goes from the wire to the buffer.
LEMMA ReceivePieces ==
  ASSUME HttpTypeOK, NEW m \in 1..Len(httpWire), HttpReceive(m)
  PROVE  /\ httpBuf' \in Seq([line : AnyLine, crlf : BOOLEAN])
         /\ httpWire' \in Seq([line : AnyLine, crlf : BOOLEAN])
         /\ \A k \in 0..Len(clientLines) : PiecesFrom(k) => PiecesFrom(k)'
<1> DEFINE P == [line : AnyLine, crlf : BOOLEAN]
<1>1. httpBuf \in Seq(P) /\ httpWire \in Seq(P)
  BY DEF HttpTypeOK
<1> HIDE DEF P
<1>2. PICK w \in Nat : w = Len(httpWire)
  BY <1>1, LenProperties
<1>3. PICK q \in Nat : q = Len(httpBuf)
  BY <1>1, LenProperties
<1>4. PICK u : u = SubSeq(httpWire, 1, m)
  OBVIOUS
<1>5. m \in Nat /\ 1 <= m /\ m <= w /\ \A i \in 1..w : httpWire[i] \in P
  BY <1>1, <1>2, ElementOfSeq
<1>6. u \in Seq(P) /\ Len(u) = m /\ \A i \in 1..m : u[i] = httpWire[i]
  <2>1. \A i \in 1..m : httpWire[i] \in P
    BY <1>5
  <2>2. /\ u \in Seq(P) /\ Len(u) = (IF 1 <= m THEN m - 1 + 1 ELSE 0)
        /\ \A i \in 1..(m - 1 + 1) : u[i] = httpWire[1 + i - 1]
    BY <1>4, <1>5, <2>1, SubSeqProperties
  <2> QED BY <1>5, <2>2
<1>7. /\ httpBuf' \in Seq(P) /\ Len(httpBuf') = q + m
      /\ \A i \in 1..(q + m) : httpBuf'[i] = IF i <= q THEN httpBuf[i] ELSE u[i - q]
  <2>1. httpBuf' = httpBuf \o u
    BY <1>4 DEF HttpReceive
  <2>2. PICK v : v = httpBuf \o u
    OBVIOUS
  <2>3. PICK x : x = httpBuf
    OBVIOUS
  <2>4. /\ v \in Seq(P) /\ Len(v) = q + m
        /\ \A i \in 1..(q + m) : v[i] = IF i <= q THEN x[i] ELSE u[i - q]
    BY <1>1, <1>3, <1>6, <2>2, <2>3, ConcatProperties
  <2> QED BY <2>1, <2>2, <2>3, <2>4
<1>8. /\ httpWire' \in Seq(P) /\ Len(httpWire') = w - m
      /\ \A i \in 1..(w - m) : httpWire'[i] = httpWire[m + i]
  <2>1. PICK p \in Nat : p = m + 1
    BY <1>5
  <2>2. PICK v : v = SubSeq(httpWire, p, w)
    OBVIOUS
  <2>3. \A i \in p..w : httpWire[i] \in P
    BY <1>5, <2>1
  <2>4. /\ v \in Seq(P) /\ Len(v) = (IF p <= w THEN w - p + 1 ELSE 0)
        /\ \A i \in 1..(w - p + 1) : v[i] = httpWire[p + i - 1]
    BY <2>1, <2>2, <2>3, SubSeqProperties
  <2>5. Len(v) = w - m
    BY <1>5, <2>1, <2>4
  <2>6. \A i \in 1..(w - m) : v[i] = httpWire[m + i]
    BY <1>5, <2>1, <2>4
  <2>7. httpWire' = v
    BY <1>2, <2>1, <2>2 DEF HttpReceive
  <2> QED BY <2>4, <2>5, <2>6, <2>7
<1>9. clientLines' = clientLines
  BY DEF HttpReceive
<1>10. ASSUME NEW k \in 0..Len(clientLines), PiecesFrom(k) PROVE PiecesFrom(k)'
  <2>1. k \in Nat /\ Len(clientLines) \in Nat
    BY LenProperties DEF HttpTypeOK
  <2>2. /\ q + w = 2 * (Len(clientLines) - k)
        /\ \A i \in 1..q : IsPiece(httpBuf[i], 2 * k + i)
        /\ \A i \in 1..w : IsPiece(httpWire[i], 2 * k + q + i)
    BY <1>2, <1>3, <1>10 DEF PiecesFrom
  <2>3. (q + m) + (w - m) = 2 * (Len(clientLines) - k)
    BY <1>5, <2>2
  <2>4. ASSUME NEW i \in 1..(q + m) PROVE IsPiece(httpBuf'[i], 2 * k + i)
    <3>1. CASE i <= q
      <4>1. i \in 1..q /\ httpBuf'[i] = httpBuf[i]
        BY <1>7, <3>1
      <4> QED BY <2>2, <4>1
    <3>2. CASE ~(i <= q)
      <4>1. PICK d \in 1..w : i = q + d /\ d <= m
        <5>1. i - q \in 1..w /\ i = q + (i - q) /\ i - q <= m
          BY <1>5, <3>2
        <5> QED BY <5>1
      <4>2. i - q = d
        BY <4>1
      <4>3. httpBuf'[i] = httpWire[d]
        <5>1. httpBuf'[i] = u[d]
          BY <1>7, <3>2, <4>2
        <5>2. d \in 1..m
          BY <4>1, <1>5
        <5> QED BY <1>6, <5>1, <5>2
      <4>4. 2 * k + q + d = 2 * k + i
        BY <4>1, <2>1
      <4> QED BY <2>2, <4>3, <4>4
    <3> QED BY <3>1, <3>2
  <2>5. ASSUME NEW i \in 1..(w - m) PROVE IsPiece(httpWire'[i], 2 * k + (q + m) + i)
    <3>1. PICK d \in 1..w : d = m + i
      <4>1. m + i \in 1..w
        BY <1>5
      <4> QED BY <4>1, Zenon
    <3>2. httpWire'[i] = httpWire[d]
      BY <1>8, <3>1
    <3>3. 2 * k + q + d = 2 * k + (q + m) + i
      BY <1>5, <2>1, <3>1
    <3> QED BY <2>2, <3>2, <3>3
  <2> QED BY <1>7, <1>8, <1>9, <2>3, <2>4, <2>5 DEF PiecesFrom, IsPiece
<1> QED BY <1>7, <1>8, <1>10 DEF P

\* A whole line in the buffer is the one after the k-th.
LEMMA LinePieces ==
  ASSUME HttpTypeOK, HasLine, NEW k \in 0..Len(clientLines), PiecesFrom(k)
  PROVE  k + 1 \in 1..Len(clientLines) /\ Line = clientLines[k + 1]
<1>1. k \in Nat /\ Len(clientLines) \in Nat /\ Len(httpBuf) \in Nat /\ Len(httpWire) \in Nat
  BY LenProperties DEF HttpTypeOK
<1>2. PICK h \in 1..Len(httpBuf) : httpBuf[h].crlf
  BY <1>1, LenProperties DEF HasLine, HttpTypeOK
<1>3. 1 \in 1..Len(httpBuf)
  BY <1>1, <1>2
<1>4. IsPiece(httpBuf[1], 2 * k + 1)
  BY <1>3 DEF PiecesFrom
<1>5. PICK i \in 1..Len(clientLines) :
        \/ 2 * k + 1 = 2 * i - 1 /\ httpBuf[1] = [line |-> clientLines[i], crlf |-> FALSE]
        \/ 2 * k + 1 = 2 * i /\ httpBuf[1] = [line |-> clientLines[i], crlf |-> TRUE]
  BY <1>4 DEF IsPiece
<1>6. 2 * k + 1 # 2 * i
  BY <1>1
<1>7. 2 * k + 1 = 2 * i - 1 /\ httpBuf[1] = [line |-> clientLines[i], crlf |-> FALSE]
  BY <1>5, <1>6
<1>8. i = k + 1
  BY <1>1, <1>7
<1> QED BY <1>7, <1>8 DEF Line

\* Taking the two pieces out leaves those of the lines after that.
LEMMA TakeLine ==
  ASSUME HttpTypeOK, HasLine, httpBuf' = SubSeq(httpBuf, 3, Len(httpBuf)),
         UNCHANGED <<httpWire, clientLines>>
  PROVE  /\ httpBuf' \in Seq([line : AnyLine, crlf : BOOLEAN])
         /\ \A k \in 0..Len(clientLines) : PiecesFrom(k) => PiecesFrom(k + 1)'
<1> DEFINE P == [line : AnyLine, crlf : BOOLEAN]
<1>1. httpBuf \in Seq(P)
  BY DEF HttpTypeOK
<1> HIDE DEF P
<1>2. PICK q \in Nat : q = Len(httpBuf)
  BY <1>1, LenProperties
<1>3. \A i \in 3..q : httpBuf[i] \in P
  BY <1>1, <1>2, ElementOfSeq
<1>4. PICK v : v = SubSeq(httpBuf, 3, q)
  OBVIOUS
<1>5. /\ v \in Seq(P) /\ Len(v) = (IF 3 <= q THEN q - 3 + 1 ELSE 0)
      /\ \A i \in 1..(q - 3 + 1) : v[i] = httpBuf[3 + i - 1]
  BY <1>2, <1>3, <1>4, SubSeqProperties
<1>6. httpBuf' = v
  BY <1>2, <1>4
<1>7. ASSUME NEW k \in 0..Len(clientLines), PiecesFrom(k) PROVE PiecesFrom(k + 1)'
  <2>1. PICK n \in Nat : n = Len(clientLines)
    BY LenProperties DEF HttpTypeOK
  <2>2. PICK w \in Nat : w = Len(httpWire)
    BY LenProperties DEF HttpTypeOK
  <2>3. k \in Nat
    BY <2>1
  <2>4. /\ q + w = 2 * (n - k)
        /\ \A i \in 1..q : IsPiece(httpBuf[i], 2 * k + i)
        /\ \A i \in 1..w : IsPiece(httpWire[i], 2 * k + q + i)
    BY <1>2, <1>7, <2>1, <2>2 DEF PiecesFrom
  <2>5. q >= 2
    <3>1. PICK h \in 1..q : httpBuf[h].crlf
      BY <1>1, <1>2, LenProperties DEF HasLine
    <3>2. IsPiece(httpBuf[h], 2 * k + h)
      BY <2>4
    <3>3. SUFFICES ASSUME h = 1 PROVE FALSE
      BY <3>1
    <3>4. PICK i \in 1..n :
            \/ 2 * k + 1 = 2 * i - 1 /\ httpBuf[1] = [line |-> clientLines[i], crlf |-> FALSE]
            \/ 2 * k + 1 = 2 * i /\ httpBuf[1] = [line |-> clientLines[i], crlf |-> TRUE]
      BY <2>1, <3>2, <3>3 DEF IsPiece
    <3>5. 2 * k + 1 # 2 * i
      BY <2>3
    <3>6. httpBuf[1].crlf = FALSE
      BY <3>4, <3>5
    <3> QED BY <3>1, <3>3, <3>6
  <2>6. Len(v) = q - 2 /\ \A i \in 1..(q - 2) : v[i] = httpBuf[i + 2]
    BY <1>5, <2>5
  <2>7. (q - 2) + w = 2 * (n - (k + 1))
    BY <2>3, <2>4
  <2>8. ASSUME NEW i \in 1..(q - 2) PROVE IsPiece(v[i], 2 * (k + 1) + i)
    <3>1. PICK d \in 1..q : d = i + 2
      OBVIOUS
    <3>2. 2 * (k + 1) + i = 2 * k + d
      BY <2>3, <3>1
    <3> QED BY <2>4, <2>6, <3>1, <3>2
  <2>9. ASSUME NEW i \in 1..w PROVE IsPiece(httpWire[i], 2 * (k + 1) + (q - 2) + i)
    <3>1. 2 * (k + 1) + (q - 2) + i = 2 * k + q + i
      BY <2>3
    <3> QED BY <2>4, <3>1
  <2>10. /\ Len(httpBuf') = q - 2 /\ Len(httpWire') = w /\ Len(clientLines') = n
         /\ httpWire' = httpWire /\ httpBuf' = v
    BY <1>6, <2>1, <2>2, <2>6
  <2>11. \A x, j : IsPiece(x, j) => IsPiece(x, j)'
    BY DEF IsPiece
  <2> QED BY <2>7, <2>8, <2>9, <2>10, <2>11 DEF PiecesFrom
<1> QED BY <1>5, <1>6, <1>7 DEF P

\* The steps that leave the lines alone: the walk of the reference stays, and
\* the parser stands at a line of it.
LEMMA SameWalk ==
  ASSUME HttpInv, HttpTypeOK', UNCHANGED clientLines,
         ASSUME NEW f, Follows(f), NEW k \in 0..Len(clientLines),
                httpUp, PiecesFrom(k), Parsed(f[k])
         PROVE  /\ Starts(responses, f[Len(clientLines)].out)'
                /\ httpUp' => \E j \in 0..Len(clientLines) : PiecesFrom(j)' /\ Parsed(f[j])',
         ~httpUp => ~httpUp' /\ responses' = responses
  PROVE  HttpInv'
<1>1. PICK f : Follows(f)
  BY DEF HttpInv
<1>2. Starts(responses, f[Len(clientLines)].out)' /\
      (httpUp => \E k \in 0..Len(clientLines) : PiecesFrom(k) /\ Parsed(f[k]))'
  <2>1. CASE httpUp
    <3>1. PICK k \in 0..Len(clientLines) : PiecesFrom(k) /\ Parsed(f[k])
      BY <1>1, <2>1 DEF Follows
    <3>2. /\ Starts(responses, f[Len(clientLines)].out)'
          /\ httpUp' => \E j \in 0..Len(clientLines) : PiecesFrom(j)' /\ Parsed(f[j])'
      BY <1>1, <2>1, <3>1
    <3> QED BY <3>2
  <2>2. CASE ~httpUp
    <3>1. Starts(responses, f[Len(clientLines)].out)
      BY <1>1 DEF Follows
    <3> QED BY <2>2, <3>1
  <2> QED BY <2>1, <2>2
<1>3. Follows(f)'
  BY <1>1, <1>2 DEF Follows, Reads
<1> QED BY <1>3 DEF HttpInv

\* A line of the client makes the walk longer by one.
LEMMA ClientSendsInv ==
  ASSUME HttpInv, NEW line \in AnyLine, ClientSends(line)
  PROVE  HttpInv'
<1> DEFINE P == [line : AnyLine, crlf : BOOLEAN]
<1>0. HttpTypeOK
  BY DEF HttpInv
<1>1. clientLines' \in Seq(AnyLine)
  BY <1>0, AppendProperties DEF HttpTypeOK, ClientSends
<1>2. httpWire' \in Seq(P)
  <2>1. PICK t : t = <<[line |-> line, crlf |-> FALSE], [line |-> line, crlf |-> TRUE]>>
    OBVIOUS
  <2>2. t \in Seq(P)
    BY <2>1
  <2>3. httpWire' = httpWire \o t
    BY <2>1 DEF ClientSends
  <2>4. httpWire \in Seq(P)
    BY <1>0 DEF HttpTypeOK
  <2> HIDE DEF P
  <2> QED BY <2>2, <2>3, <2>4, ConcatProperties
<1>3. HttpTypeOK'
  BY <1>0, <1>1, <1>2 DEF HttpTypeOK, ClientSends
<1>4. PICK f : Follows(f)
  BY DEF HttpInv
<1>5. PICK n \in Nat : n = Len(clientLines)
  BY <1>0, LenProperties DEF HttpTypeOK
<1>6. clientLines \in Seq(AnyLine) /\ clientLines' = Append(clientLines, line) /\ Reads(f, clientLines)
  BY <1>0, <1>4 DEF HttpTypeOK, ClientSends, Follows
<1>7. PICK g : /\ Reads(g, Append(clientLines, line))
               /\ \A i \in 0..n : g[i] = f[i]
               /\ g[n + 1] = Answer(f[n], line)
  BY <1>5, <1>6, ReadsAppend
<1>8. Len(clientLines') = n + 1
  BY <1>5, <1>6, AppendProperties
<1>9. /\ \A i \in 0..n : f[i] \in AnyReading /\ Starts(f[i].out, f[n].out)
      /\ Starts(responses, f[n].out)
  BY <1>4, <1>5 DEF Follows
<1>10. \A r \in AnyReading : r.out \in Seq(AnyResponse)
  BY DEF AnyReading
<1>11. f[n] \in AnyReading /\ f[n].out \in Seq(AnyResponse)
  BY <1>9, <1>10
<1>12. g[n + 1] \in AnyReading /\ Starts(f[n].out, g[n + 1].out)
  BY <1>7, <1>11, AnswerFacts
<1>13. ASSUME NEW i \in 0..(n + 1)
       PROVE  g[i] \in AnyReading /\ Starts(g[i].out, g[n + 1].out)
  <2>1. CASE i \in 0..n
    <3>1. g[i] = f[i] /\ f[i].out \in Seq(AnyResponse) /\ g[n + 1].out \in Seq(AnyResponse)
      BY <1>7, <1>9, <1>10, <1>12, <2>1
    <3>2. Starts(f[i].out, g[n + 1].out)
      BY <1>9, <1>11, <1>12, <2>1, <3>1, StartsTransitive
    <3> QED BY <1>9, <2>1, <3>1, <3>2
  <2>2. CASE i = n + 1
    <3>1. g[n + 1].out \in Seq(AnyResponse)
      BY <1>10, <1>12
    <3>2. Starts(g[n + 1].out, g[n + 1].out)
      BY <3>1, StartsAppend, ResponseFacts
    <3> QED BY <1>12, <2>2, <3>2
  <2> QED BY <2>1, <2>2
<1>14. Starts(responses', g[n + 1].out)
  <2>1. responses' = responses /\ responses \in Seq(AnyResponse)
    BY <1>0 DEF ClientSends, HttpTypeOK
  <2>2. g[n + 1].out \in Seq(AnyResponse)
    BY <1>10, <1>12
  <2>3. Starts(responses, g[n + 1].out)
    BY <1>9, <1>11, <1>12, <2>1, <2>2, StartsTransitive
  <2> QED BY <2>1, <2>3
<1>15. ASSUME httpUp' PROVE \E k \in 0..(n + 1) : PiecesFrom(k)' /\ Parsed(g[k])'
  <2>1. httpUp
    BY <1>15 DEF ClientSends
  <2>2. PICK k \in 0..n : PiecesFrom(k) /\ Parsed(f[k])
    BY <1>4, <1>5, <2>1 DEF Follows
  <2>3. PiecesFrom(k)'
    BY <1>0, <1>5, <2>2, ClientSendsPieces
  <2>4. Parsed(g[k])'
    BY <1>7, <2>2 DEF Parsed, ClientSends
  <2>5. k \in 0..(n + 1)
    OBVIOUS
  <2> QED BY <2>3, <2>4, <2>5
<1>16. Follows(g)'
  <2>1. Reads(g, clientLines')
    BY <1>6, <1>7
  <2> QED BY <1>8, <1>13, <1>14, <1>15, <2>1 DEF Follows
<1> QED BY <1>3, <1>16 DEF HttpInv

\* The walk at the next line.
LEMMA WalkStep ==
  ASSUME HttpTypeOK, NEW f, Follows(f), NEW k \in 0..Len(clientLines),
         k + 1 \in 1..Len(clientLines)
  PROVE  f[k + 1] = Answer(f[k], clientLines[k + 1]) /\ k + 1 \in 0..Len(clientLines)
<1>1. PICK n \in Nat : n = Len(clientLines)
  BY LenProperties DEF HttpTypeOK
<1>2. PICK j \in 0..n : j = k + 1
  <2>1. k + 1 \in 0..n
    BY <1>1
  <2> QED BY <2>1, Zenon
<1>3. j # 0 /\ j - 1 = k
  BY <1>1, <1>2
<1>4. f[j] = IF j = 0 THEN NothingRead ELSE Answer(f[j - 1], clientLines[j])
  BY <1>1, <1>2 DEF Follows, Reads
<1> QED BY <1>1, <1>2, <1>3, <1>4

\* HttpReceive.
LEMMA HttpReceiveInv ==
  ASSUME HttpInv, NEW m \in 1..Len(httpWire), HttpReceive(m) PROVE HttpInv'
<1>0. HttpTypeOK
  BY DEF HttpInv
<1>1. UNCHANGED <<clientLines, parseState, request, httpUp, responses>>
  BY DEF HttpReceive
<1>2. HttpTypeOK'
  BY <1>0, <1>1, ReceivePieces DEF HttpTypeOK
<1>3. ASSUME NEW f, Follows(f), NEW k \in 0..Len(clientLines), httpUp, PiecesFrom(k), Parsed(f[k])
      PROVE  /\ Starts(responses, f[Len(clientLines)].out)'
             /\ httpUp' => \E j \in 0..Len(clientLines) : PiecesFrom(j)' /\ Parsed(f[j])'
  <2>1. PiecesFrom(k)'
    BY <1>0, <1>3, ReceivePieces
  <2>2. Parsed(f[k])'
    BY <1>1, <1>3 DEF Parsed
  <2>3. Starts(responses, f[Len(clientLines)].out)'
    BY <1>1, <1>3 DEF Follows
  <2> QED BY <2>1, <2>2, <2>3
<1>4. ~httpUp => ~httpUp' /\ responses' = responses
  BY <1>1
<1> QED BY <1>1, <1>2, <1>3, <1>4, SameWalk

\* Steps that touch none of this.
LEMMA IdleInv ==
  ASSUME HttpInv,
         UNCHANGED <<clientLines, httpWire, httpBuf, parseState, request, httpUp, responses>>
  PROVE  HttpInv'
<1>1. PICK f : HttpTypeOK /\ Follows(f)
  BY DEF HttpInv
<1>2. HttpTypeOK'
  BY <1>1 DEF HttpTypeOK
<1>3. Follows(f)'
  BY <1>1 DEF Follows, Reads, PiecesFrom, IsPiece, Parsed
<1> QED BY <1>2, <1>3 DEF HttpInv

\* send and shutdown.
LEMMA SendFacts ==
  ASSUME HttpTypeOK, NEW r \in AnyResponse, Send(r)
  PROVE  /\ responses' \in Seq(AnyResponse) /\ httpUp' \in BOOLEAN
         /\ ~httpUp => ~httpUp' /\ responses' = responses
         /\ httpUp => responses' = Append(responses, r) /\ httpUp' = ~r.close
<1>1. responses \in Seq(AnyResponse) /\ httpUp \in BOOLEAN
  BY DEF HttpTypeOK
<1>2. responses' \in Seq(AnyResponse)
  BY <1>1, AppendProperties DEF Send
<1>3. httpUp' \in BOOLEAN
  BY <1>1, Zenon DEF Send
<1>4. ~httpUp => ~httpUp' /\ responses' = responses
  BY <1>1 DEF Send
<1>5. httpUp => responses' = Append(responses, r) /\ httpUp' = ~r.close
  BY <1>1 DEF Send
<1> QED BY <1>2, <1>3, <1>4, <1>5

\* The line in front of the buffer.
LEMMA LineType == HttpTypeOK /\ HasLine => Line \in AnyLine
<1> SUFFICES ASSUME HttpTypeOK, HasLine PROVE Line \in AnyLine
  OBVIOUS
<1>1. httpBuf \in Seq([line : AnyLine, crlf : BOOLEAN]) /\ Len(httpBuf) \in Nat
  BY LenProperties DEF HttpTypeOK
<1>2. PICK h \in 1..Len(httpBuf) : TRUE
  BY <1>1, LenProperties DEF HasLine
<1>3. 1 \in 1..Len(httpBuf)
  BY <1>1, <1>2
<1>4. httpBuf[1] \in [line : AnyLine, crlf : BOOLEAN]
  BY <1>1, <1>3, ElementOfSeq
<1> QED BY <1>4 DEF Line

\* Where the parser stands in an open connection.
LEMMA ParsedCases ==
  ASSUME NEW r, Parsed(r)
  PROVE  /\ parseState = "kExpectRequestLine" =>
              request = NoRequest /\ r.out = responses /\ r.req = NoRequest /\ r.up = TRUE
         /\ parseState = "kExpectHeaders" =>
              /\ request.method # "kInvalid" /\ request # NoRequest
              /\ r.out = responses /\ r.req = request /\ r.up = TRUE
         /\ parseState = "kGotAll" =>
              /\ r = [out |-> Append(responses, Response(request)), req |-> NoRequest,
                      up |-> ~Closes(request)]
              /\ r.out = Append(responses, Response(request))
<1>1. ASSUME parseState = "kGotAll"
      PROVE  /\ r = [out |-> Append(responses, Response(request)), req |-> NoRequest,
                     up |-> ~Closes(request)]
             /\ r.out = Append(responses, Response(request))
  <2>1. r = [out |-> Append(responses, Response(request)), req |-> NoRequest,
             up |-> ~Closes(request)]
    BY <1>1 DEF Parsed
  <2>2. r.out = Append(responses, Response(request))
    BY <2>1
  <2> QED BY <2>1, <2>2
<1> QED BY <1>1, NoRequestFacts DEF Parsed

\* A request line is taken, refused with 400, or parsed again after that.
LEMMA ParseRequestLineInv == ASSUME HttpInv, ParseRequestLine PROVE HttpInv'
<1>0. HttpTypeOK
  BY DEF HttpInv
<1>1. /\ HasLine /\ parseState = "kExpectRequestLine"
      /\ UNCHANGED <<clientLines, httpWire>>
  BY DEF ParseRequestLine
<1>2. Line \in AnyLine /\ request \in AnyRequest
  BY <1>0, <1>1, LineType DEF HttpTypeOK
<1>3. CASE Line.kind # "empty" /\ request.method # "kInvalid"
  <2>1. UNCHANGED <<clientLines, httpWire, httpBuf, parseState, request, httpUp, responses>>
    BY <1>3 DEF ParseRequestLine
  <2> QED BY <2>1, IdleInv
<1>4. CASE ~(Line.kind # "empty" /\ request.method # "kInvalid")
  <2> DEFINE result == ProcessRequestLine(request, Line)
  <2>1. /\ request' = result.req
        /\ result.ok => /\ httpBuf' = SubSeq(httpBuf, 3, Len(httpBuf))
                        /\ parseState' = "kExpectHeaders"
                        /\ UNCHANGED <<httpUp, responses>>
        /\ ~result.ok => Send(BadRequest) /\ UNCHANGED <<httpBuf, parseState>>
    BY <1>4 DEF ParseRequestLine
  <2>2. result.req \in AnyRequest /\ (result.ok => result.req.method # "kInvalid")
    BY <1>2, RequestLineFacts
  <2> HIDE DEF result
  <2>3. HttpTypeOK'
    <3>1. CASE result.ok
      <4>1. httpBuf' \in Seq([line : AnyLine, crlf : BOOLEAN])
        BY <1>0, <1>1, <2>1, <3>1, TakeLine
      <4> QED BY <1>0, <1>1, <2>1, <2>2, <3>1, <4>1 DEF HttpTypeOK
    <3>2. CASE ~result.ok
      <4>1. responses' \in Seq(AnyResponse) /\ httpUp' \in BOOLEAN
        BY <1>0, <2>1, <3>2, ResponseFacts, SendFacts
      <4> QED BY <1>0, <1>1, <2>1, <2>2, <3>2, <4>1 DEF HttpTypeOK
    <3> QED BY <3>1, <3>2
  <2>4. ~httpUp => ~httpUp' /\ responses' = responses
    <3>1. CASE result.ok
      BY <2>1, <3>1
    <3>2. CASE ~result.ok
      BY <1>0, <2>1, <3>2, ResponseFacts, SendFacts
    <3> QED BY <3>1, <3>2
  <2>5. ASSUME NEW f, Follows(f), NEW k \in 0..Len(clientLines), httpUp,
               PiecesFrom(k), Parsed(f[k])
        PROVE  /\ Starts(responses, f[Len(clientLines)].out)'
               /\ httpUp' => \E j \in 0..Len(clientLines) : PiecesFrom(j)' /\ Parsed(f[j])'
    <3>1. k + 1 \in 1..Len(clientLines) /\ Line = clientLines[k + 1]
      BY <1>0, <1>1, <2>5, LinePieces
    <3>2. f[k + 1] = Answer(f[k], Line) /\ k + 1 \in 0..Len(clientLines)
      BY <1>0, <2>5, <3>1, WalkStep
    <3>3. request = NoRequest /\ f[k].out = responses /\ f[k].req = NoRequest /\ f[k].up = TRUE
      BY <1>1, <2>5, ParsedCases
    <3>4. f[k] \in AnyReading
      BY <2>5 DEF Follows
    <3>5. CASE result.ok
      <4>1. Answer(f[k], Line) = [f[k] EXCEPT !.req = result.req]
        BY <3>3, <3>5 DEF Answer, result
      <4>2. f[k + 1] = [out |-> responses, req |-> result.req, up |-> TRUE]
        BY <3>2, <3>3, <3>4, <4>1 DEF AnyReading
      <4>3. Parsed(f[k + 1])'
        BY <2>1, <2>2, <3>5, <4>2 DEF Parsed
      <4>4. PiecesFrom(k + 1)'
        BY <1>0, <1>1, <2>1, <2>5, <3>5, TakeLine
      <4>5. Starts(responses, f[Len(clientLines)].out)'
        BY <1>1, <2>1, <2>5, <3>5 DEF Follows
      <4> QED BY <3>2, <4>3, <4>4, <4>5
    <3>6. CASE ~result.ok
      <4>1. Answer(f[k], Line) = [f[k] EXCEPT !.up = FALSE, !.out = Append(f[k].out, BadRequest)]
        BY <3>3, <3>4, <3>6 DEF Answer, result, AnyReading
      <4>2. f[k + 1].out = Append(responses, BadRequest)
        BY <3>2, <3>3, <3>4, <4>1 DEF AnyReading
      <4>3. responses' = Append(responses, BadRequest) /\ ~httpUp'
        BY <1>0, <2>1, <2>5, <3>6, ResponseFacts, SendFacts
      <4>4. Starts(f[k + 1].out, f[Len(clientLines)].out)
        BY <2>5, <3>2 DEF Follows
      <4> QED BY <1>1, <4>2, <4>3, <4>4
    <3> QED BY <3>5, <3>6
  <2> QED BY <1>1, <2>3, <2>4, <2>5, SameWalk
<1> QED BY <1>3, <1>4

\* A header or the end of the headers.
LEMMA ParseHeaderInv == ASSUME HttpInv, ParseHeader PROVE HttpInv'
<1>0. HttpTypeOK
  BY DEF HttpInv
<1>1. /\ HasLine /\ parseState = "kExpectHeaders"
      /\ httpBuf' = SubSeq(httpBuf, 3, Len(httpBuf))
      /\ UNCHANGED <<clientLines, httpWire, httpUp, responses>>
      /\ HasColon(Line) => request' = AddHeader(request, Line) /\ parseState' = "kExpectHeaders"
      /\ ~HasColon(Line) => request' = request /\ parseState' = "kGotAll"
  BY DEF ParseHeader
<1>2. Line \in AnyLine /\ request \in AnyRequest
  BY <1>0, <1>1, LineType DEF HttpTypeOK
<1>3. request' \in AnyRequest
  BY <1>1, <1>2, AddHeaderFacts
<1>4. HttpTypeOK'
  <2>1. httpBuf' \in Seq([line : AnyLine, crlf : BOOLEAN])
    BY <1>0, <1>1, TakeLine
  <2> QED BY <1>0, <1>1, <1>3, <2>1 DEF HttpTypeOK
<1>5. ASSUME NEW f, Follows(f), NEW k \in 0..Len(clientLines), httpUp,
             PiecesFrom(k), Parsed(f[k])
      PROVE  /\ Starts(responses, f[Len(clientLines)].out)'
             /\ httpUp' => \E j \in 0..Len(clientLines) : PiecesFrom(j)' /\ Parsed(f[j])'
  <2>1. k + 1 \in 1..Len(clientLines) /\ Line = clientLines[k + 1]
    BY <1>0, <1>1, <1>5, LinePieces
  <2>2. f[k + 1] = Answer(f[k], Line) /\ k + 1 \in 0..Len(clientLines)
    BY <1>0, <1>5, <2>1, WalkStep
  <2>3. /\ request.method # "kInvalid" /\ request # NoRequest
        /\ f[k].out = responses /\ f[k].req = request /\ f[k].up = TRUE
    BY <1>1, <1>5, ParsedCases
  <2>4. f[k] \in AnyReading
    BY <1>5 DEF Follows
  <2>5. PiecesFrom(k + 1)'
    BY <1>0, <1>1, <1>5, TakeLine
  <2>6. Starts(responses, f[Len(clientLines)].out)'
    BY <1>1, <1>5 DEF Follows
  <2>7. CASE HasColon(Line)
    <3>1. Answer(f[k], Line) = [f[k] EXCEPT !.req = AddHeader(f[k].req, Line)]
      BY <2>3, <2>4, <2>7 DEF Answer, AnyReading
    <3>2. f[k + 1] = [out |-> responses, req |-> request', up |-> TRUE]
      BY <1>1, <2>2, <2>3, <2>4, <2>7, <3>1 DEF AnyReading
    <3>3. request'.method # "kInvalid"
      BY <1>1, <1>2, <2>3, <2>7, AddHeaderFacts
    <3>4. Parsed(f[k + 1])'
      BY <1>1, <2>7, <3>2, <3>3 DEF Parsed
    <3> QED BY <2>2, <2>5, <2>6, <3>4
  <2>8. CASE ~HasColon(Line)
    <3>1. f[k + 1] = [out |-> Append(responses, Response(request)), req |-> NoRequest,
                      up |-> ~Closes(request)]
      BY <2>2, <2>3, <2>8 DEF Answer
    <3>2. Parsed(f[k + 1])'
      BY <1>1, <2>8, <3>1 DEF Parsed, Response, Closes
    <3> QED BY <2>2, <2>5, <2>6, <3>2
  <2> QED BY <2>7, <2>8
<1>6. ~httpUp => ~httpUp' /\ responses' = responses
  BY <1>1
<1> QED BY <1>1, <1>4, <1>5, <1>6, SameWalk

\* The answer, and the reset of the context.
LEMMA OnRequestInv == ASSUME HttpInv, OnRequest PROVE HttpInv'
<1>0. HttpTypeOK
  BY DEF HttpInv
<1>1. UNCHANGED <<clientLines, httpWire, httpBuf>>
  BY DEF OnRequest
<1>2. CASE parseState # "kGotAll"
  <2>1. UNCHANGED <<parseState, request, httpUp, responses>>
    BY <1>2 DEF OnRequest
  <2> QED BY <1>1, <2>1, IdleInv
<1>3. CASE parseState = "kGotAll"
  <2>1. /\ Send(Response(request)) /\ parseState' = "kExpectRequestLine"
        /\ request' = NoRequest
    BY <1>3 DEF OnRequest, ResetRequest
  <2>2. request \in AnyRequest /\ Response(request) \in AnyResponse
    BY <1>0, ResponseFacts DEF HttpTypeOK
  <2>3. /\ responses' \in Seq(AnyResponse) /\ httpUp' \in BOOLEAN
        /\ ~httpUp => ~httpUp' /\ responses' = responses
        /\ httpUp => /\ responses' = Append(responses, Response(request))
                     /\ httpUp' = ~Response(request).close
    BY <1>0, <2>1, <2>2, SendFacts
  <2>4. HttpTypeOK'
    BY <1>0, <1>1, <2>1, <2>3, NoRequestFacts DEF HttpTypeOK
  <2>5. ASSUME NEW f, Follows(f), NEW k \in 0..Len(clientLines), httpUp,
               PiecesFrom(k), Parsed(f[k])
        PROVE  /\ Starts(responses, f[Len(clientLines)].out)'
               /\ httpUp' => \E j \in 0..Len(clientLines) : PiecesFrom(j)' /\ Parsed(f[j])'
    <3>1. f[k] = [out |-> Append(responses, Response(request)), req |-> NoRequest,
                  up |-> ~Closes(request)]
      BY <1>3, <2>5, ParsedCases
    <3>2. f[k].out = responses' /\ Starts(f[k].out, f[Len(clientLines)].out)
      <4>1. f[k].out = Append(responses, Response(request))
        BY <1>3, <2>5, ParsedCases
      <4>2. responses' = Append(responses, Response(request))
        BY <2>3, <2>5
      <4>3. Starts(f[k].out, f[Len(clientLines)].out)
        BY <2>5 DEF Follows
      <4> QED BY <4>1, <4>2, <4>3, Zenon
    <3>3. PiecesFrom(k)'
      BY <1>1, <2>5 DEF PiecesFrom, IsPiece
    <3>4. ASSUME httpUp' PROVE Parsed(f[k])'
      <4>1. ~Closes(request)
        BY <2>2, <2>3, <2>5, <3>4, ResponseFacts
      <4>2. (~Closes(request)) = TRUE
        BY <4>1, Zenon
      <4>3. f[k] = [out |-> responses', req |-> NoRequest, up |-> TRUE]
        BY <2>3, <2>5, <3>1, <4>2
      <4> QED BY <2>1, <4>3 DEF Parsed
    <3> QED BY <1>1, <3>2, <3>3, <3>4
  <2> QED BY <1>1, <2>3, <2>4, <2>5, SameWalk
<1> QED BY <1>2, <1>3

\* Every step keeps the invariant.
LEMMA HttpNextInv == HttpInv /\ [HttpNext]_httpVars => HttpInv'
<1> SUFFICES ASSUME HttpInv, [HttpNext]_httpVars PROVE HttpInv'
  OBVIOUS
<1>1. ASSUME NEW line \in Lines(Len(clientLines) + 1), ClientSends(line) PROVE HttpInv'
  <2>1. Len(clientLines) + 1 \in Nat
    BY LenProperties DEF HttpInv, HttpTypeOK
  <2>2. line \in AnyLine
    BY <2>1 DEF AnyLine
  <2> QED BY <1>1, <2>2, ClientSendsInv
<1>2. ASSUME NoLine PROVE HttpInv'
  BY <1>2, IdleInv DEF NoLine
<1>3. ASSUME UNCHANGED httpVars PROVE HttpInv'
  BY <1>3, IdleInv DEF httpVars
<1> QED BY <1>1, <1>2, <1>3, HttpReceiveInv, ParseRequestLineInv, ParseHeaderInv,
           OnRequestInv DEF HttpNext

\* The invariant implies the property.
LEMMA HttpInvMatches == HttpInv => ResponsesMatchStream
<1> SUFFICES ASSUME HttpInv PROVE ResponsesMatchStream
  OBVIOUS
<1>1. PICK f : HttpTypeOK /\ Follows(f)
  BY DEF HttpInv
<1>2. PICK n \in Nat : n = Len(clientLines)
  BY <1>1, LenProperties DEF HttpTypeOK
<1>3. Answers(clientLines) = f[n].out
  BY <1>1, <1>2, AnswersAre DEF Follows
<1>4. f[n] \in AnyReading /\ Starts(responses, f[n].out)
  BY <1>1, <1>2 DEF Follows
<1>5. f[n].out \in Seq(AnyResponse) /\ responses \in Seq(AnyResponse)
  BY <1>1, <1>4 DEF AnyReading, HttpTypeOK
<1>6. IsPrefix(responses, f[n].out)
  BY <1>4, <1>5, StartsIsPrefix
<1> QED BY <1>3, <1>6 DEF ResponsesMatchStream

\* For any lines, any cut into pieces and any arrival of them, the responses on
\* a connection are a prefix of the answers to its lines read one by one: the
\* state HttpContext keeps between calls of onMessage, and its reset, carry
\* nothing from one request to the next.
THEOREM ResponsesAlwaysMatch == HttpSpec => []ResponsesMatchStream
<1>1. HttpInit => HttpInv
  BY HttpInitInv
<1>2. HttpInv /\ [HttpNext]_httpVars => HttpInv'
  BY HttpNextInv
<1>3. HttpInv => ResponsesMatchStream
  BY HttpInvMatches
<1> QED BY <1>1, <1>2, <1>3, PTL DEF HttpSpec

-----------------------------------------------------------------------------
(* Codec *)

\* A number and its last byte.
LEMMA SplitByte ==
  ASSUME NEW x \in Nat
  PROVE  \E q \in Nat, r \in Byte : x = 256 * q + r
<1>1. x \div 256 \in Nat /\ x % 256 \in 0..255 /\ x = 256 * (x \div 256) + (x % 256)
  OBVIOUS
<1> QED BY <1>1 DEF Byte

\* A number of 31 bits comes back from its four bytes.
LEMMA LengthRoundTrip ==
  ASSUME NEW x \in Nat, x <= Int32Max
  PROVE  /\ ToNetwork(x, 4) \in Seq(Byte) /\ Len(ToNetwork(x, 4)) = 4
         /\ FromNetwork(ToNetwork(x, 4)) = x
<1>1. PICK q \in Nat, d \in Byte : x = 256 * q + d
  BY SplitByte
<1>2. PICK p \in Nat, c \in Byte : q = 256 * p + c
  BY SplitByte
<1>3. PICK o \in Nat, b \in Byte : p = 256 * o + b
  BY SplitByte
<1>4. d \in Nat /\ c \in Nat /\ b \in Nat
  BY DEF Byte
<1>5. q <= 8388607
  BY <1>1, <1>4, SMT DEF Int32Max
<1>6. p <= 32767
  BY <1>2, <1>4, <1>5
<1>7. o \in Byte
  BY <1>3, <1>4, <1>6 DEF Byte
<1>8. x = Four(o, b, c, d)
  BY <1>1, <1>2, <1>3 DEF Four
<1>9. PICK t : t = ToNetwork(x, 4)
  OBVIOUS
<1>10. t[1] = o /\ t[2] = b /\ t[3] = c /\ t[4] = d
  <2>1. /\ Digit(x, Radix[4]) = o /\ Digit(x, Radix[3]) = b
        /\ Digit(x, Radix[2]) = c /\ Digit(x, Radix[1]) = d
    BY <1>7, <1>8, FourBytes
  <2> QED BY <1>9, <2>1, NetworkDigits
<1>11. DOMAIN t = 1..4 /\ t = [i \in 1..4 |-> t[i]]
  BY <1>9 DEF ToNetwork
<1>12. t \in Seq(Byte) /\ Len(t) = 4
  <2>1. \A i \in 1..4 : t[i] \in Byte
    BY <1>7, <1>10
  <2> QED BY <1>11, <2>1
<1>13. FromNetwork(t) = x
  BY <1>8, <1>10, <1>12, NetworkDigits
<1> QED BY <1>9, <1>12, <1>13

\* Two bytes of any number.
LEMMA ShortBytes ==
  ASSUME NEW x \in Nat
  PROVE  ToNetwork(x, 2) \in Seq(Byte) /\ Len(ToNetwork(x, 2)) = 2
<1>1. PICK t : t = ToNetwork(x, 2)
  OBVIOUS
<1>2. DOMAIN t = 1..2 /\ t = [i \in 1..2 |-> t[i]]
  BY <1>1 DEF ToNetwork
<1>3. t[1] = Digit(x, Radix[2]) /\ t[2] = Digit(x, Radix[1])
  BY <1>1, NetworkDigits
<1>4. Radix[1] = 1 /\ Radix[2] = 256
  BY DEF Radix
<1>5. (x \div 256) % 256 \in Byte /\ (x \div 1) % 256 \in Byte
  BY DEF Byte
<1>6. \A i \in 1..2 : t[i] \in Byte
  BY <1>3, <1>4, <1>5 DEF Digit
<1>7. t \in Seq(Byte) /\ Len(t) = 2
  BY <1>2, <1>6
<1> QED BY <1>1, <1>7

\* Four bytes of any number.
LEMMA FourBytesLong ==
  ASSUME NEW x \in Nat
  PROVE  ToNetwork(x, 4) \in Seq(Byte) /\ Len(ToNetwork(x, 4)) = 4
<1>1. PICK t : t = ToNetwork(x, 4)
  OBVIOUS
<1>2. DOMAIN t = 1..4 /\ t = [i \in 1..4 |-> t[i]]
  BY <1>1 DEF ToNetwork
<1>3. /\ t[1] = Digit(x, Radix[4]) /\ t[2] = Digit(x, Radix[3])
      /\ t[3] = Digit(x, Radix[2]) /\ t[4] = Digit(x, Radix[1])
  BY <1>1, NetworkDigits
<1>4. Radix[1] = 1 /\ Radix[2] = 256 /\ Radix[3] = 65536 /\ Radix[4] = 16777216
  BY DEF Radix
<1>5. /\ (x \div 16777216) % 256 \in Byte /\ (x \div 65536) % 256 \in Byte
      /\ (x \div 256) % 256 \in Byte /\ (x \div 1) % 256 \in Byte
  BY DEF Byte
<1>6. \A i \in 1..4 : t[i] \in Byte
  BY <1>3, <1>4, <1>5 DEF Digit
<1>7. t \in Seq(Byte) /\ Len(t) = 4
  BY <1>2, <1>6
<1> QED BY <1>1, <1>7

\* The equation of the recursive function in Checksum, up to n.
Sums(f, n, s) == f = [i \in 0..n |-> IF i = 0 THEN <<1, 0>> ELSE SumStep(f[i - 1], s[i])]

\* There is a function that satisfies it.
LEMMA SumsExist ==
  ASSUME NEW s, NEW m \in Nat
  PROVE  \E f : Sums(f, m, s)
<1> DEFINE T == {n \in Nat : ~\E f : Sums(f, n, s)}
<1>1. SUFFICES ASSUME m \in T PROVE FALSE
  OBVIOUS
<1>2. PICK x \in T : \A y \in T : x <= y
  BY <1>1, LeastNat
<1>3. x \in Nat /\ ~\E f : Sums(f, x, s)
  BY <1>2
<1>4. CASE x = 0
  <2> DEFINE f == [i \in 0..0 |-> <<1, 0>>]
  <2>1. Sums(f, 0, s)
    BY DEF Sums
  <2> QED BY <1>3, <1>4, <2>1
<1>5. CASE x # 0
  <2>1. PICK n \in Nat : x = n + 1
    <3>1. x - 1 \in Nat /\ x = (x - 1) + 1
      BY <1>3, <1>5
    <3> QED BY <3>1
  <2>2. n \notin T
    BY <1>2, <2>1
  <2>3. PICK f : Sums(f, n, s)
    BY <2>2
  <2> DEFINE g == [i \in 0..x |-> IF i <= n THEN f[i] ELSE SumStep(f[n], s[x])]
  <2>4. \A i \in 0..n : f[i] = IF i = 0 THEN <<1, 0>> ELSE SumStep(f[i - 1], s[i])
    BY <2>3 DEF Sums
  <2>5. ASSUME NEW i \in 0..x
        PROVE  g[i] = IF i = 0 THEN <<1, 0>> ELSE SumStep(g[i - 1], s[i])
    <3>1. CASE i = 0
      BY <2>4, <3>1
    <3>2. CASE i # 0 /\ i <= n
      <4>1. g[i] = f[i] /\ g[i - 1] = f[i - 1]
        BY <2>1, <3>2
      <4> QED BY <2>4, <3>2, <4>1
    <3>3. CASE i = x
      <4>1. g[i - 1] = f[n] /\ g[i] = SumStep(f[n], s[x])
        BY <2>1, <3>3
      <4> QED BY <2>1, <3>3, <4>1
    <3> QED BY <2>1, <3>1, <3>2, <3>3
  <2>6. g = [i \in 0..x |-> g[i]]
    OBVIOUS
  <2> HIDE DEF g
  <2>7. Sums(g, x, s)
    BY <2>5, <2>6 DEF Sums
  <2> QED BY <1>3, <2>7
<1> QED BY <1>4, <1>5

\* adler32 is four bytes.
LEMMA ChecksumFacts ==
  ASSUME NEW s \in Seq(Byte)
  PROVE  Checksum(s) \in Seq(Byte) /\ Len(Checksum(s)) = 4
<1>1. PICK n \in Nat : n = Len(s)
  BY LenProperties
<1>2. PICK f : f = CHOOSE g : Sums(g, n, s)
  OBVIOUS
<1>3. Sums(f, n, s)
  BY <1>2, SumsExist
<1>4. Checksum(s) = ToNetwork(f[n][2], 2) \o ToNetwork(f[n][1], 2)
  BY <1>1, <1>2 DEF Checksum, Sums
<1>5. \A i \in 0..n : f[i] = IF i = 0 THEN <<1, 0>> ELSE SumStep(f[i - 1], s[i])
  BY <1>3 DEF Sums
<1> DEFINE T == {i \in 0..n : ~(f[i][1] \in Nat /\ f[i][2] \in Nat)}
<1>6. n \notin T
  <2>1. SUFFICES ASSUME n \in T PROVE FALSE
    OBVIOUS
  <2>2. PICK x \in T : \A y \in T : x <= y
    <3>1. T \subseteq Nat /\ T # {}
      BY <2>1
    <3> HIDE DEF T
    <3> QED BY <3>1, LeastNat
  <2>3. x \in 0..n /\ ~(f[x][1] \in Nat /\ f[x][2] \in Nat)
    BY <2>2
  <2>4. CASE x = 0
    BY <1>5, <2>3, <2>4
  <2>5. CASE x # 0
    <3>1. PICK w \in 0..n : w = x - 1 /\ w < x
      <4>1. x - 1 \in 0..n /\ x - 1 < x
        BY <2>3, <2>5
      <4> QED BY <4>1
    <3>2. f[w][1] \in Nat /\ f[w][2] \in Nat
      BY <2>2, <2>3, <3>1
    <3>3. s[x] \in Nat
      <4>1. x \in 1..n
        BY <2>3, <2>5
      <4>2. s[x] \in Byte
        BY <1>1, <4>1, ElementOfSeq
      <4> QED BY <4>2, ByteIsDigit
    <3>4. f[x] = SumStep(f[w], s[x])
      BY <1>5, <2>3, <2>5, <3>1
    <3>5. PICK a \in Nat : a = (f[w][1] + s[x]) % 65521
      BY <3>2, <3>3
    <3>6. (f[w][2] + a) % 65521 \in Nat
      BY <3>2
    <3>7. f[x] = <<a, (f[w][2] + a) % 65521>>
      BY <3>4, <3>5 DEF SumStep
    <3> QED BY <2>3, <3>6, <3>7
  <2> QED BY <2>4, <2>5
<1>7. f[n][1] \in Nat /\ f[n][2] \in Nat
  BY <1>6
<1> HIDE DEF T
<1>8. PICK a \in Seq(Byte) : a = ToNetwork(f[n][2], 2) /\ Len(a) = 2
  BY <1>7, ShortBytes
<1>9. PICK b \in Seq(Byte) : b = ToNetwork(f[n][1], 2) /\ Len(b) = 2
  BY <1>7, ShortBytes
<1>10. a \o b \in Seq(Byte) /\ Len(a \o b) = 4
  <2>1. a \o b \in Seq(Byte) /\ Len(a \o b) = Len(a) + Len(b)
    BY JoinFacts
  <2>2. Len(a) = 2 /\ Len(b) = 2
    BY <1>8, <1>9, Zenon
  <2> QED BY <2>1, <2>2
<1> QED BY <1>4, <1>8, <1>9, <1>10

\* The two parts of a joined sequence.
LEMMA JoinSplit ==
  ASSUME NEW s \in Seq(Byte), NEW t \in Seq(Byte)
  PROVE  /\ SubSeq(s \o t, 1, Len(s)) = s
         /\ SubSeq(s \o t, Len(s) + 1, Len(s) + Len(t)) = t
<1>0. PICK m \in Nat, n \in Nat : m = Len(s) /\ n = Len(s) + Len(t)
  BY LenProperties
<1>1. PICK x \in Seq(Byte) : x = s \o t
  BY JoinFacts
<1>2. /\ Len(x) = n
      /\ \A i \in 1..m : x[i] = s[i]
      /\ \A i \in 1..Len(t) : x[m + i] = t[i]
  BY <1>0, <1>1, JoinFacts
<1>3. Len(t) \in Nat /\ m <= n /\ n - m = Len(t)
  BY <1>0, LenProperties
<1>4. PICK a : a = SubSeq(x, 0 + 1, m)
  OBVIOUS
<1>5. a \in Seq(Byte) /\ Len(a) = m - 0 /\ \A i \in 1..(m - 0) : a[i] = x[0 + i]
  BY <1>2, <1>3, <1>4, PieceFacts
<1>6. Len(a) = m /\ \A i \in 1..m : a[i] = s[i]
  <2>1. m - 0 = m
    BY <1>0
  <2>2. ASSUME NEW i \in 1..m PROVE a[i] = s[i]
    <3>1. 0 + i = i
      BY <2>2
    <3>2. a[i] = x[0 + i]
      BY <1>5, <2>1, <2>2, Zenon
    <3>3. x[i] = s[i]
      BY <1>2, <2>2, Zenon
    <3> QED BY <3>1, <3>2, <3>3, Zenon
  <2> QED BY <1>5, <2>1, <2>2, Zenon
<1>7. a = s
  BY <1>0, <1>5, <1>6, SameBytes
<1>8. PICK b : b = SubSeq(x, m + 1, n)
  OBVIOUS
<1>9. b \in Seq(Byte) /\ Len(b) = n - m /\ \A i \in 1..(n - m) : b[i] = x[m + i]
  <2>1. m <= n /\ n <= Len(x)
    BY <1>2, <1>3
  <2> QED BY <1>8, <2>1, PieceFacts
<1>10. b = t
  BY <1>2, <1>3, <1>9, SameBytes
<1> QED BY <1>0, <1>1, <1>4, <1>7, <1>8, <1>10

\* The prependable bytes are never given to the content of a buffer that is only
\* appended to.
LEMMA RoomInFront ==
  ASSUME NEW b, BufOK(b), NEW c, Holds(b, c), kCheapPrepend <= b.readerIndex, NEW len \in Nat
  PROVE  kCheapPrepend <= ensureWritableBytes(b, len).readerIndex
<1>1. CASE writableBytes(b) < len
  <2>1. CASE writableBytes(b) + prependableBytes(b) < len + kCheapPrepend
    <3>1. makeSpace(b, len) = [b EXCEPT !.data = b.data \o Zeros(b.writerIndex + len - Len(b.data))]
      BY <2>1 DEF makeSpace, BufOK
    <3>2. makeSpace(b, len).readerIndex = b.readerIndex
      BY <3>1 DEF BufOK
    <3> QED BY <1>1, <3>2 DEF ensureWritableBytes
  <2>2. CASE ~(writableBytes(b) + prependableBytes(b) < len + kCheapPrepend)
    <3>1. makeSpace(b, len).readerIndex = kCheapPrepend
      BY <2>2 DEF makeSpace
    <3> QED BY <1>1, <3>1, BufferAssumption DEF ensureWritableBytes
  <2> QED BY <2>1, <2>2
<1>2. CASE ~(writableBytes(b) < len)
  BY <1>2 DEF ensureWritableBytes
<1> QED BY <1>1, <1>2

\* Writing moves the write index only.
LEMMA WrittenReader ==
  ASSUME NEW e, BufOK(e), NEW s
  PROVE  hasWritten([e EXCEPT !.data = Copy(@, s, e.writerIndex)], Len(s)).readerIndex
           = e.readerIndex
<1>1. PICK m : m = [e EXCEPT !.data = Copy(@, s, e.writerIndex)]
  OBVIOUS
<1>2. m.readerIndex = e.readerIndex /\ m = [data |-> m.data, readerIndex |-> m.readerIndex, writerIndex |-> m.writerIndex]
  BY <1>1 DEF BufOK
<1>3. hasWritten(m, Len(s)).readerIndex = m.readerIndex
  BY <1>2 DEF hasWritten
<1> QED BY <1>1, <1>2, <1>3

\* What appending to a buffer leaves in it, and in front of it.
LEMMA AppendRoom ==
  ASSUME NEW b, BufOK(b), NEW c, Holds(b, c), kCheapPrepend <= b.readerIndex,
         NEW s \in Seq(Byte)
  PROVE  /\ BufOK(append(b, s)) /\ Holds(append(b, s), c \o s)
         /\ kCheapPrepend <= append(b, s).readerIndex
<1>1. PICK n \in Nat : n = Len(s)
  BY LenProperties
<1>2. PICK e : e = ensureWritableBytes(b, n)
  OBVIOUS
<1>3. BufOK(e) /\ kCheapPrepend <= e.readerIndex
  BY <1>2, EnsureFacts, RoomInFront
<1>4. append(b, s) = hasWritten([e EXCEPT !.data = Copy(@, s, e.writerIndex)], Len(s))
  BY <1>1, <1>2 DEF append
<1>5. append(b, s).readerIndex = e.readerIndex
  BY <1>3, <1>4, WrittenReader
<1> QED BY <1>3, <1>5, AppendFacts

\* fillEmptyBuffer: length, tag, payload and checksum.
LEMMA FrameIs ==
  ASSUME NEW p \in Seq(Byte)
  PROVE  Frame(p) = ToNetwork(Len(Tag) + Len(p) + 4, 4) \o ((Tag \o p) \o Checksum(Tag \o p))
<1>t. Tag \in Seq(Byte) /\ Len(Tag) \in Nat /\ Len(p) \in Nat /\ 4 <= kCheapPrepend
  BY CodecAssumption, LenProperties DEF Byte
<1>1. PICK b1 : b1 = append(NewBuffer, Tag)
  OBVIOUS
<1>2. BufOK(b1) /\ Holds(b1, Tag) /\ kCheapPrepend <= b1.readerIndex
  <2>1. NewBuffer.readerIndex = kCheapPrepend
    BY DEF NewBuffer
  <2>2. BufOK(NewBuffer) /\ Holds(NewBuffer, <<>>) /\ kCheapPrepend <= NewBuffer.readerIndex
    BY <2>1, NewBufferOK, BufferAssumption
  <2>3. Holds(b1, <<>> \o Tag) /\ BufOK(b1) /\ kCheapPrepend <= b1.readerIndex
    BY <1>t, <1>1, <2>2, AppendRoom
  <2>4. <<>> \o Tag = Tag
    BY <1>t, ConcatEmptySeq
  <2> QED BY <2>3, <2>4
<1>3. PICK n \in Nat : n = Len(p) + 4
  BY <1>t
<1>4. PICK e : e = ensureWritableBytes(b1, n)
  OBVIOUS
<1>5. BufOK(e) /\ Holds(e, Tag) /\ writableBytes(e) >= n /\ kCheapPrepend <= e.readerIndex
  BY <1>2, <1>4, EnsureFacts, RoomInFront
<1>6. PICK b2 : b2 = hasWritten([e EXCEPT !.data = Copy(@, p, e.writerIndex)], Len(p))
  OBVIOUS
<1>7. b2 = SerializeToBuffer(b1, p)
  BY <1>3, <1>4, <1>6 DEF SerializeToBuffer, kChecksumLen
<1>8. BufOK(b2) /\ Holds(b2, Tag \o p) /\ kCheapPrepend <= b2.readerIndex
  <2>1. Len(p) <= writableBytes(e)
    <3>1. writableBytes(e) \in Int
      BY <1>5, LenProperties DEF writableBytes, BufOK
    <3> QED BY <1>t, <1>3, <1>5, <3>1
  <2>2. BufOK(b2) /\ Holds(b2, Tag \o p)
    BY <1>5, <1>6, <2>1, WriteFacts
  <2>3. b2.readerIndex = e.readerIndex
    BY <1>5, <1>6, WrittenReader
  <2> QED BY <1>5, <2>2, <2>3
<1>9. PICK s \in Seq(Byte) : s = Tag \o p /\ Len(s) = Len(Tag) + Len(p)
  BY <1>t, JoinFacts
<1>10. toStringPiece(b2) = s
  BY <1>8, <1>9, PieceHeld
<1>11. PICK k \in Seq(Byte) : k = Checksum(s) /\ Len(k) = 4
  BY ChecksumFacts
<1>12. PICK b3 : b3 = append(b2, k)
  OBVIOUS
<1>13. PICK c \in Seq(Byte) : c = s \o k /\ Len(c) = Len(s) + 4
  <2>1. s \o k \in Seq(Byte) /\ Len(s \o k) = Len(s) + Len(k)
    BY JoinFacts
  <2> QED BY <1>11, <2>1, Zenon
<1>14. BufOK(b3) /\ Holds(b3, c) /\ kCheapPrepend <= b3.readerIndex
  BY <1>8, <1>9, <1>12, <1>13, AppendRoom
<1>15. readableBytes(b3) = Len(Tag) + Len(p) + 4
  <2>1. b3.writerIndex - b3.readerIndex = Len(c)
    BY <1>14 DEF Holds
  <2>2. Len(c) = Len(Tag) + Len(p) + 4
    BY <1>9, <1>13
  <2> QED BY <2>1, <2>2 DEF readableBytes
<1>16. PICK x \in Nat : x = Len(Tag) + Len(p) + 4
  BY <1>t
<1>17. PICK h : h = ToNetwork(x, 4)
  OBVIOUS
<1>18. h \in Seq(Byte) /\ Len(h) = 4
  BY <1>16, <1>17, FourBytesLong
<1>19. PICK b4 : b4 = prepend(b3, h)
  OBVIOUS
<1>20. Holds(b4, h \o c) /\ BufOK(b4)
  <2>1. Len(h) <= prependableBytes(b3)
    BY <1>t, <1>14, <1>18, BufferAssumption DEF prependableBytes, BufOK
  <2> QED BY <1>14, <1>18, <1>19, <2>1, PrependFacts
<1>21. toStringPiece(b4) = h \o c
  BY <1>20, PieceHeld
<1>22. FillEmptyBuffer(p) = b4
  <2>1. append(SerializeToBuffer(append(NewBuffer, Tag), p),
               Checksum(toStringPiece(SerializeToBuffer(append(NewBuffer, Tag), p)))) = b3
    BY <1>1, <1>7, <1>10, <1>11, <1>12, Zenon
  <2>2. prependInt(b3, readableBytes(b3), kHeaderLen) = b4
    BY <1>15, <1>16, <1>17, <1>19 DEF prependInt, kHeaderLen
  <2> QED BY <2>1, <2>2, Zenon DEF FillEmptyBuffer
<1> QED BY <1>9, <1>11, <1>13, <1>16, <1>17, <1>21, <1>22, Zenon DEF Frame

\* parse of a body with a tag t, a payload p and a checksum k.
LEMMA ParseOf ==
  ASSUME NEW t \in Seq(Byte), Len(t) = Len(Tag), NEW p \in Seq(Byte),
         NEW k \in Seq(Byte), Len(k) = 4
  PROVE  Parse((t \o p) \o k) =
           IF Checksum(t \o p) # k THEN [error |-> "kCheckSumError", payload |-> p]
           ELSE IF t # Tag THEN [error |-> "kUnknownMessageType", payload |-> p]
           ELSE IF p \in Unparsable THEN [error |-> "kParseError", payload |-> p]
           ELSE [error |-> "kNoError", payload |-> p]
<1>1. PICK s \in Seq(Byte) : s = t \o p /\ Len(s) = Len(t) + Len(p)
  BY JoinFacts
<1>2. PICK x \in Seq(Byte) : x = s \o k /\ Len(x) = Len(s) + Len(k)
  BY JoinFacts
<1>3. PICK m \in Nat : m = Len(s)
  BY LenProperties
<1>4. PICK n \in Nat : n = Len(x)
  BY LenProperties
<1>5. n = m + 4 /\ n - 4 = m /\ (n - 4) + 1 = m + 1 /\ n = Len(s) + Len(k)
  BY <1>2, <1>3, <1>4
<1>6. SubSeq(x, 1, m) = s /\ SubSeq(x, m + 1, n) = k
  <2>1. SubSeq(s \o k, 1, Len(s)) = s /\ SubSeq(s \o k, Len(s) + 1, Len(s) + Len(k)) = k
    BY JoinSplit
  <2> QED BY <1>2, <1>3, <1>5, <2>1, Zenon
<1>7. SubSeq(x, 1, n - 4) = s /\ SubSeq(x, (n - 4) + 1, n) = k
  BY <1>5, <1>6
<1>8. PICK j \in Nat : j = Len(t)
  BY LenProperties
<1>9. SubSeq(s, 1, j) = t /\ SubSeq(s, j + 1, m) = p
  <2>1. m = Len(t) + Len(p)
    BY <1>1, <1>3
  <2>2. SubSeq(t \o p, 1, Len(t)) = t /\ SubSeq(t \o p, Len(t) + 1, Len(t) + Len(p)) = p
    BY JoinSplit
  <2> QED BY <1>1, <1>8, <2>1, <2>2, Zenon
<1>10. SubSeq(s, 1, Len(Tag)) = t /\ SubSeq(s, Len(Tag) + 1, Len(s)) = p
  BY <1>3, <1>8, <1>9
<1>11. SubSeq(x, 1, Len(x) - kChecksumLen) = s
       /\ SubSeq(x, Len(x) - kChecksumLen + 1, Len(x)) = k
  BY <1>4, <1>7 DEF kChecksumLen
<1> QED BY <1>1, <1>2, <1>10, <1>11 DEF Parse

\* What onMessage makes of a frame that is whole in the buffer: it is delivered
\* if it is a good one, and refused for its length or its body if not.
LengthOf(y) == FromNetwork(SubSeq(y, 1, 4))
InRange(n) == kMinMessageLen <= n /\ n <= kMaxMessageLen
FrameOK(f) ==
  /\ f.bytes \in Seq(Byte) /\ Len(f.bytes) >= 4
  /\ LengthOf(f.bytes) \in Nat
  /\ ~InRange(LengthOf(f.bytes)) => ~f.ok
  /\ InRange(LengthOf(f.bytes)) =>
       /\ Len(f.bytes) = LengthOf(f.bytes) + 4
       /\ f.ok <=> Parse(SubSeq(f.bytes, 5, LengthOf(f.bytes) + 4)).error = "kNoError"
       /\ f.ok => Parse(SubSeq(f.bytes, 5, LengthOf(f.bytes) + 4)).payload = f.payload

\* The least length onMessage accepts: a tag, no payload and a checksum.
LEMMA MinFacts == kMinMessageLen \in Nat /\ kMinMessageLen = Len(Tag) + 4 /\ kMinMessageLen > 4
<1>1. Tag \in Seq(Byte) /\ Len(Tag) \in Nat /\ Len(Tag) # 0
  <2>1. Tag \in Seq(Byte)
    BY CodecAssumption DEF Byte
  <2>2. Len(Tag) \in Nat
    BY <2>1, LenProperties
  <2>3. Len(Tag) # 0
    BY <2>1, CodecAssumption, EmptySeq
  <2> QED BY <2>1, <2>2, <2>3
<1> QED BY <1>1 DEF kMinMessageLen, kChecksumLen

\* A frame by its parts.
LEMMA PartsOK ==
  ASSUME NEW f, NEW t \in Seq(Byte), Len(t) = Len(Tag), NEW p \in Seq(Byte),
         NEW k \in Seq(Byte), Len(k) = 4,
         NEW x \in Nat, x = Len(Tag) + Len(p) + 4, x <= Int32Max,
         f.bytes = ToNetwork(x, 4) \o ((t \o p) \o k),
         f.ok => x <= kMaxMessageLen /\ f.payload = p,
         f.ok <=> Checksum(t \o p) = k /\ t = Tag /\ p \notin Unparsable
  PROVE  FrameOK(f)
<1>1. PICK y : y = f.bytes
  OBVIOUS
<1>2. /\ y \in Seq(Byte) /\ Len(y) = x + 4 /\ LengthOf(y) = x
      /\ SubSeq(y, 5, x + 4) = (t \o p) \o k
  <2>0. y = ToNetwork(x, 4) \o ((t \o p) \o k)
    BY <1>1, Zenon
  <2>1. PICK h \in Seq(Byte) : h = ToNetwork(x, 4) /\ Len(h) = 4 /\ FromNetwork(h) = x
    BY LengthRoundTrip
  <2>2. PICK s \in Seq(Byte) : s = t \o p /\ Len(s) = Len(t) + Len(p)
    <3>1. t \o p \in Seq(Byte) /\ Len(t \o p) = Len(t) + Len(p)
      BY JoinFacts, ZenonT(30)
    <3> QED BY <3>1, Zenon
  <2>3. PICK c \in Seq(Byte) : c = s \o k /\ Len(c) = Len(s) + Len(k)
    <3>1. s \o k \in Seq(Byte) /\ Len(s \o k) = Len(s) + Len(k)
      BY JoinFacts, ZenonT(30)
    <3> QED BY <3>1, Zenon
  <2>4. Len(c) = x
    <3>1. Len(Tag) \in Nat /\ Len(p) \in Nat
      BY CodecAssumption, LenProperties
    <3> QED BY <2>2, <2>3, <3>1
  <2>5. h \o c \in Seq(Byte) /\ Len(h \o c) = Len(h) + Len(c)
    BY JoinFacts
  <2>6. y = h \o c
    BY <2>0, <2>1, <2>2, <2>3
  <2>7. PICK n \in Nat : n = x + 4
    OBVIOUS
  <2>8. n = Len(h) + Len(c) /\ 4 = Len(h)
    <3>1. Len(h) = 4
      BY <2>1
    <3> QED BY <2>4, <2>7, <3>1
  <2>9. SubSeq(h \o c, 1, 4) = h /\ SubSeq(h \o c, 4 + 1, n) = c
    <3>1. SubSeq(h \o c, 1, Len(h)) = h /\ SubSeq(h \o c, Len(h) + 1, Len(h) + Len(c)) = c
      BY JoinSplit
    <3> QED BY <2>8, <3>1, Zenon
  <2>10. SubSeq(y, 1, 4) = h /\ SubSeq(y, 5, n) = c
    <3>1. 4 + 1 = 5
      OBVIOUS
    <3> QED BY <2>6, <2>9, <3>1, Zenon
  <2> QED BY <2>1, <2>2, <2>3, <2>5, <2>6, <2>7, <2>8, <2>10 DEF LengthOf
<1>3. PICK r : r = Parse((t \o p) \o k)
  OBVIOUS
<1>4. r = IF Checksum(t \o p) # k THEN [error |-> "kCheckSumError", payload |-> p]
          ELSE IF t # Tag THEN [error |-> "kUnknownMessageType", payload |-> p]
          ELSE IF p \in Unparsable THEN [error |-> "kParseError", payload |-> p]
          ELSE [error |-> "kNoError", payload |-> p]
  BY <1>3, ParseOf
<1>5. f.ok <=> r.error = "kNoError"
  BY <1>4
<1>6. f.ok => r.payload = f.payload
  BY <1>4
<1>7. Len(Tag) \in Nat /\ Len(p) \in Nat
  BY LenProperties, CodecAssumption
<1>8. kMinMessageLen <= x
  BY <1>7, MinFacts
<1>9. ~InRange(x) => ~f.ok
  BY <1>8 DEF InRange
<1>11. PICK q : q = SubSeq(y, 5, LengthOf(y) + 4)
  OBVIOUS
<1>12. Parse(q) = r
  BY <1>2, <1>3, <1>11
<1>13. /\ y \in Seq(Byte) /\ Len(y) >= 4 /\ LengthOf(y) \in Nat
       /\ ~InRange(LengthOf(y)) => ~f.ok
       /\ Len(y) = LengthOf(y) + 4
  BY <1>2, <1>9
<1>14. (f.ok <=> Parse(q).error = "kNoError") /\ (f.ok => Parse(q).payload = f.payload)
  BY <1>5, <1>6, <1>12, Zenon
<1> HIDE DEF Parse
<1> QED BY <1>1, <1>11, <1>13, <1>14 DEF FrameOK

\* The frames of send: those of messages, and those of payloads that do not parse.
LEMMA SentFrameOK ==
  ASSUME NEW p \in Payloads \cup Unparsable, NEW f, f.bytes = Frame(p),
         f.ok <=> p \notin Unparsable, f.ok => f.payload = p
  PROVE  FrameOK(f)
<1>1. p \in Seq(Byte) /\ Tag \in Seq(Byte) /\ Len(Tag) + Len(p) + 4 <= kMaxMessageLen
  BY CodecAssumption DEF Byte
<1>2. Len(Tag) \in Nat /\ Len(p) \in Nat
  BY <1>1, LenProperties
<1>3. PICK x \in Nat : x = Len(Tag) + Len(p) + 4
  BY <1>2
<1>4. x <= kMaxMessageLen /\ kMaxMessageLen < Int32Max /\ kMaxMessageLen \in Nat
  BY <1>1, <1>3, CodecAssumption
<1>5. x <= Int32Max
  BY <1>4, SMT DEF Int32Max
<1>6. PICK k \in Seq(Byte) : k = Checksum(Tag \o p) /\ Len(k) = 4
  <2>1. Tag \o p \in Seq(Byte)
    BY <1>1, JoinFacts, ZenonT(30)
  <2>2. Checksum(Tag \o p) \in Seq(Byte) /\ Len(Checksum(Tag \o p)) = 4
    BY <2>1, ChecksumFacts, ZenonT(30)
  <2> QED BY <2>2, Zenon
<1>7. f.bytes = ToNetwork(x, 4) \o ((Tag \o p) \o k)
  <2>1. Frame(p) = ToNetwork(Len(Tag) + Len(p) + 4, 4) \o ((Tag \o p) \o Checksum(Tag \o p))
    BY <1>1, FrameIs, ZenonT(30)
  <2> QED BY <1>3, <1>6, <2>1, Zenon
<1>8. f.ok <=> Checksum(Tag \o p) = k /\ Tag = Tag /\ p \notin Unparsable
  BY <1>6, Zenon
<1>9. f.ok => x <= kMaxMessageLen /\ f.payload = p
  BY <1>4
<1> QED BY <1>1, <1>3, <1>5, <1>6, <1>7, <1>8, <1>9, PartsOK, ZenonT(60)

\* A frame with a length onMessage does not accept.
LEMMA LengthRefused ==
  ASSUME NEW f, ~f.ok, NEW x \in Nat, x <= Int32Max, ~InRange(x),
         NEW n \in Nat, f.bytes = ToNetwork(x, 4) \o Zeros(n)
  PROVE  FrameOK(f)
<1>1. PICK h \in Seq(Byte) : h = ToNetwork(x, 4) /\ Len(h) = 4 /\ FromNetwork(h) = x
  BY LengthRoundTrip
<1>3. PICK z \in Seq(Byte) : z = Zeros(n) /\ Len(z) = n
  <2>1. Zeros(n) \in Seq(Byte) /\ Len(Zeros(n)) = n
    BY DEF Zeros, Byte
  <2> QED BY <2>1, Zenon
<1>4. PICK y : y = f.bytes
  OBVIOUS
<1>5. y = h \o z
  BY <1>1, <1>3, <1>4, Zenon
<1>6. y \in Seq(Byte) /\ Len(y) = Len(h) + Len(z)
  <2>1. h \o z \in Seq(Byte) /\ Len(h \o z) = Len(h) + Len(z)
    BY JoinFacts, ZenonT(30)
  <2> QED BY <1>5, <2>1, Zenon
<1>7. SubSeq(y, 1, 4) = h
  <2>1. SubSeq(h \o z, 1, Len(h)) = h
    BY JoinSplit, ZenonT(30)
  <2> QED BY <1>1, <1>5, <2>1, Zenon
<1>8. LengthOf(y) = x
  BY <1>1, <1>7, Zenon DEF LengthOf
<1>9. Len(y) >= 4
  BY <1>1, <1>3, <1>6
<1> QED BY <1>4, <1>6, <1>8, <1>9 DEF FrameOK

\* A changed byte.
LEMMA ByteChanged ==
  ASSUME NEW s \in Seq(Byte), NEW i \in 1..Len(s)
  PROVE  /\ [s EXCEPT ![i] = (@ + 1) % 256] \in Seq(Byte)
         /\ Len([s EXCEPT ![i] = (@ + 1) % 256]) = Len(s)
         /\ [s EXCEPT ![i] = (@ + 1) % 256] # s
<1>1. s[i] \in Byte
  BY ElementOfSeq
<1>2. PICK v : v = (s[i] + 1) % 256
  OBVIOUS
<1>3. v \in Byte /\ v # s[i]
  <2>1. PICK w \in 0..255 : w = s[i]
    BY <1>1 DEF Byte
  <2>2. (w + 1) % 256 \in 0..255 /\ (w + 1) % 256 # w
    <3>1. CASE w = 255
      BY <3>1
    <3>2. CASE w # 255
      BY <3>2
    <3> QED BY <3>1, <3>2
  <2> QED BY <1>2, <2>1, <2>2 DEF Byte
<1>4. PICK t : t = [s EXCEPT ![i] = v]
  OBVIOUS
<1>5. t \in Seq(Byte) /\ Len(t) = Len(s)
  BY <1>3, <1>4, ExceptSeq
<1>6. t[i] = v
  <2>1. \A j \in 1..Len(s) : t[j] = IF j = i THEN v ELSE s[j]
    BY <1>3, <1>4, ExceptSeq
  <2> QED BY <2>1
<1>7. [s EXCEPT ![i] = (@ + 1) % 256] = t
  BY <1>2, <1>4
<1> QED BY <1>3, <1>5, <1>6, <1>7

\* A sequence with another last byte.
Bump(s) == [s EXCEPT ![Len(s)] = (@ + 1) % 256]

\* The last byte of a joined sequence is the last one of its second part.
LEMMA BumpJoin ==
  ASSUME NEW s \in Seq(Byte), NEW t \in Seq(Byte), Len(t) > 0
  PROVE  Bump(s \o t) = s \o Bump(t)
<1>1. PICK m \in Nat, k \in Nat : m = Len(s) /\ k = Len(t)
  BY LenProperties
<1>2. PICK x \in Seq(Byte) : x = s \o t
  BY JoinFacts
<1>3. /\ Len(x) = m + k /\ (\A i \in 1..m : x[i] = s[i]) /\ \A i \in 1..k : x[m + i] = t[i]
  BY <1>1, <1>2, JoinFacts
<1>4. PICK n \in Nat : n = m + k
  OBVIOUS
<1>5. k \in 1..k /\ n \in 1..n /\ x[n] = t[k]
  <2>1. k \in 1..k
    BY <1>1
  <2> QED BY <1>3, <1>4, <2>1
<1>6. PICK v : v = (t[k] + 1) % 256
  OBVIOUS
<1>7. v \in Byte
  <2>1. PICK w \in 0..255 : w = t[k]
    <3>1. t[k] \in Byte
      BY <1>1, <1>5, ElementOfSeq
    <3> QED BY <3>1 DEF Byte
  <2>2. (w + 1) % 256 \in 0..255
    OBVIOUS
  <2> QED BY <1>6, <2>1, <2>2 DEF Byte
<1>8. PICK a : a = [x EXCEPT ![n] = v]
  OBVIOUS
<1>9. a = Bump(s \o t)
  BY <1>2, <1>3, <1>4, <1>5, <1>6, <1>8 DEF Bump
<1>10. PICK b : b = [t EXCEPT ![k] = v]
  OBVIOUS
<1>11. b = Bump(t)
  BY <1>1, <1>6, <1>10 DEF Bump
<1>12. /\ a \in Seq(Byte) /\ Len(a) = n
       /\ \A i \in 1..n : a[i] = IF i = n THEN v ELSE x[i]
  <2>1. n \in 1..Len(x)
    BY <1>3, <1>4, <1>5
  <2>2. /\ a \in Seq(Byte) /\ Len(a) = Len(x)
        /\ \A i \in 1..Len(x) : a[i] = IF i = n THEN v ELSE x[i]
    BY <1>7, <1>8, <2>1, ExceptSeq
  <2> QED BY <1>3, <1>4, <2>2
<1>13. /\ b \in Seq(Byte) /\ Len(b) = k
       /\ \A i \in 1..k : b[i] = IF i = k THEN v ELSE t[i]
  <2>1. k \in 1..Len(t)
    BY <1>1, <1>5
  <2>2. /\ b \in Seq(Byte) /\ Len(b) = Len(t)
        /\ \A i \in 1..Len(t) : b[i] = IF i = k THEN v ELSE t[i]
    BY <1>7, <1>10, <2>1, ExceptSeq
  <2> QED BY <1>1, <2>2
<1>14. PICK c \in Seq(Byte) : c = s \o b
  BY <1>13, JoinFacts
<1>15. /\ Len(c) = m + k /\ (\A i \in 1..m : c[i] = s[i]) /\ \A i \in 1..k : c[m + i] = b[i]
  <2>1. /\ Len(s \o b) = Len(s) + Len(b) /\ (\A i \in 1..Len(s) : (s \o b)[i] = s[i])
        /\ \A i \in 1..Len(b) : (s \o b)[Len(s) + i] = b[i]
    BY <1>13, JoinFacts
  <2> QED BY <1>1, <1>13, <1>14, <2>1
<1>16. ASSUME NEW i \in 1..n PROVE a[i] = c[i]
  <2>1. CASE i <= m
    <3>1. i \in 1..m /\ i # n
      BY <1>4, <1>5, <2>1
    <3> QED BY <1>3, <1>12, <1>15, <3>1
  <2>2. CASE ~(i <= m)
    <3>1. PICK j \in 1..k : i = m + j
      <4>1. i - m \in 1..k /\ i = m + (i - m)
        BY <1>4, <2>2
      <4> QED BY <4>1, Zenon
    <3>2. c[i] = b[j] /\ x[i] = t[j] /\ (i = n <=> j = k)
      BY <1>3, <1>4, <1>15, <3>1
    <3> QED BY <1>12, <1>13, <3>2
  <2> QED BY <2>1, <2>2
<1>17. a = c
  BY <1>4, <1>12, <1>15, <1>16, SameBytes
<1> QED BY <1>9, <1>11, <1>14, <1>17

\* The frames no send makes.
LEMMA BadFrameOK ==
  ASSUME NEW kind \in BadKinds, NEW f, f.bytes = Bad(kind), ~f.ok
  PROVE  FrameOK(f)
<1>t. Tag \in Seq(Byte) /\ Len(Tag) \in Nat /\ 1 \in 1..Len(Tag)
  <2>1. Tag \in Seq(Byte) /\ Len(Tag) \in Nat
    BY CodecAssumption, LenProperties DEF Byte
  <2> QED BY <2>1, MinFacts
<1>m. /\ kMinMessageLen \in Nat /\ kMinMessageLen > 4 /\ kMinMessageLen = Len(Tag) + 4
      /\ kMaxMessageLen \in Nat /\ kMaxMessageLen < Int32Max /\ Int32Max \in Nat
      /\ kMinMessageLen <= kMaxMessageLen
  BY MinFacts, CodecAssumption, SMT DEF Int32Max
<1>1. CASE kind = "tooLong"
  <2>1. PICK x \in Nat : x = kMaxMessageLen + 1
    BY <1>m
  <2>2. x <= Int32Max /\ ~InRange(x)
    BY <1>m, <2>1 DEF InRange
  <2>3. f.bytes = ToNetwork(x, 4) \o Zeros(kMinMessageLen)
    <3>1. Bad("tooLong") = ToNetwork(kMaxMessageLen + 1, 4) \o Zeros(kMinMessageLen)
      BY DEF Bad, kHeaderLen
    <3> QED BY <1>1, <2>1, <3>1
  <2>4. PICK n \in Nat : n = kMinMessageLen
    BY <1>m
  <2>5. f.bytes = ToNetwork(x, 4) \o Zeros(n)
    BY <2>3, <2>4, Zenon
  <2> QED BY <2>2, <2>5, LengthRefused
<1>e. PICK e \in Seq(Byte) : e = <<>> /\ Len(e) = 0
  <2>1. <<>> \in Seq(Byte) /\ Len(<<>>) = 0
    OBVIOUS
  <2> QED BY <2>1, Zenon
<1>x. PICK x \in Nat : x = kMinMessageLen /\ x = Len(Tag) + Len(e) + 4 /\ x <= Int32Max
  <2>1. kMinMessageLen = Len(Tag) + Len(e) + 4 /\ kMinMessageLen <= Int32Max
    BY <1>t, <1>m, <1>e
  <2> QED BY <1>m, <2>1, Zenon
<1>h. PICK h \in Seq(Byte) : h = ToNetwork(x, 4) /\ Len(h) = 4
  BY FourBytesLong
<1>3. CASE kind = "checksum"
  <2>1. PICK s \in Seq(Byte) : s = Tag \o e
    BY <1>t, JoinFacts
  <2>2. PICK k \in Seq(Byte) : k = Checksum(s) /\ Len(k) = 4
    BY ChecksumFacts
  <2>3. Frame(e) = h \o (s \o k)
    <3>1. Frame(e) = ToNetwork(Len(Tag) + Len(e) + 4, 4) \o ((Tag \o e) \o Checksum(Tag \o e))
      BY FrameIs
    <3> QED BY <1>x, <1>h, <2>1, <2>2, <3>1, Zenon
  <2>4. Bad("checksum") = Bump(Frame(e))
    BY <1>e DEF Bad, Bump
  <2>5. PICK c \in Seq(Byte) : c = s \o k /\ Len(c) > 0
    <3>1. s \o k \in Seq(Byte) /\ Len(s \o k) = Len(s) + Len(k) /\ Len(s) \in Nat
      BY JoinFacts, LenProperties
    <3>2. Len(s \o k) > 0
      BY <2>2, <3>1
    <3> QED BY <3>1, <3>2, Zenon
  <2>6. Bump(h \o c) = h \o Bump(c)
    BY <2>5, BumpJoin
  <2>7. Bump(s \o k) = s \o Bump(k)
    <3>1. Len(k) > 0
      BY <2>2
    <3> QED BY <3>1, BumpJoin
  <2>8. PICK j \in Seq(Byte) : j = Bump(k) /\ Len(j) = 4 /\ j # k
    <3>1. Len(k) \in 1..Len(k)
      BY <2>2
    <3>2. Bump(k) \in Seq(Byte) /\ Len(Bump(k)) = Len(k) /\ Bump(k) # k
      BY <3>1, ByteChanged DEF Bump
    <3> QED BY <2>2, <3>2, Zenon
  <2>9. f.bytes = ToNetwork(x, 4) \o ((Tag \o e) \o j)
    BY <1>3, <1>h, <2>1, <2>3, <2>4, <2>5, <2>6, <2>7, <2>8, Zenon
  <2>10. /\ f.ok <=> Checksum(Tag \o e) = j /\ Tag = Tag /\ e \notin Unparsable
         /\ f.ok => x <= kMaxMessageLen /\ f.payload = e
    BY <2>1, <2>2, <2>8, Zenon
  <2> QED BY <1>t, <1>x, <2>8, <2>9, <2>10, PartsOK, ZenonT(60)
<1>4. CASE kind = "tag"
  <2>1. PICK t \in Seq(Byte) : /\ t = [Tag EXCEPT ![1] = (@ + 1) % 256]
                               /\ Len(t) = Len(Tag) /\ t # Tag
    <3>1. /\ [Tag EXCEPT ![1] = (@ + 1) % 256] \in Seq(Byte)
          /\ Len([Tag EXCEPT ![1] = (@ + 1) % 256]) = Len(Tag)
          /\ [Tag EXCEPT ![1] = (@ + 1) % 256] # Tag
      BY <1>t, ByteChanged
    <3> QED BY <3>1, Zenon
  <2>2. PICK k \in Seq(Byte) : k = Checksum(t) /\ Len(k) = 4
    BY ChecksumFacts
  <2>3. Bad("tag") = (ToNetwork(kMinMessageLen, 4) \o t) \o k
    BY <2>1, <2>2 DEF Bad, kHeaderLen
  <2>4. (h \o t) \o k = h \o (t \o k)
    BY ConcatAssociative
  <2>5. t \o e = t
    BY <1>e, ConcatEmptySeq
  <2>6. f.bytes = ToNetwork(x, 4) \o ((t \o e) \o k)
    BY <1>4, <1>x, <1>h, <2>3, <2>4, <2>5, Zenon
  <2>7. /\ f.ok <=> Checksum(t \o e) = k /\ t = Tag /\ e \notin Unparsable
        /\ f.ok => x <= kMaxMessageLen /\ f.payload = e
    BY <2>1, Zenon
  <2>8. Len(t) = Len(Tag) /\ Len(k) = 4 /\ x = Len(Tag) + Len(e) + 4 /\ x <= Int32Max
    BY <1>x, <2>1, <2>2, Zenon
  <2> QED BY <2>6, <2>7, <2>8, PartsOK, ZenonT(60)
<1> QED BY <1>1, <1>3, <1>4 DEF BadKinds

\* The frames a peer may send.
LEMMA FramesOK == \A f \in Frames : FrameOK(f)
<1> SUFFICES ASSUME NEW f \in Frames PROVE FrameOK(f)
  OBVIOUS
<1>1. ASSUME NEW p \in Payloads, f = Good(p) PROVE FrameOK(f)
  <2>1. f.bytes = Frame(p) /\ f.payload = p /\ f.ok
    BY <1>1 DEF Good
  <2>2. p \notin Unparsable
    BY CodecAssumption
  <2> QED BY <2>1, <2>2, SentFrameOK
<1>2. ASSUME NEW p \in Unparsable, f = Refused(Frame(p)) PROVE FrameOK(f)
  <2>1. f.bytes = Frame(p) /\ ~f.ok
    BY <1>2 DEF Refused
  <2> QED BY <2>1, SentFrameOK
<1>3. ASSUME NEW kind \in BadKinds, f = Refused(Bad(kind)) PROVE FrameOK(f)
  <2>1. f.bytes = Bad(kind) /\ ~f.ok
    BY <1>3 DEF Refused
  <2> QED BY <2>1, BadFrameOK
<1>4. ASSUME NEW n \in ShortLens, f = Refused(Short(n)) PROVE FrameOK(f)
  <2>1. f.bytes = ToNetwork(n, 4) \o Zeros(n) /\ ~f.ok
    BY <1>4 DEF Refused, Short, kHeaderLen
  <2>2. n \in Nat /\ n <= Int32Max /\ ~InRange(n)
    <3>1. kMinMessageLen <= kMaxMessageLen /\ kMaxMessageLen < Int32Max
      BY MinFacts, CodecAssumption, SMT DEF Int32Max
    <3>2. n \in Nat /\ n < kMinMessageLen
      BY MinFacts, CodecAssumption
    <3> QED BY <3>1, <3>2, MinFacts, CodecAssumption, SMT DEF InRange, Int32Max
  <2> QED BY <2>1, <2>2, LengthRefused
<1> QED BY <1>1, <1>2, <1>3, <1>4 DEF Frames

\* Three parts.
LEMMA Regroup ==
  ASSUME NEW a \in Seq(Byte), NEW b \in Seq(Byte), NEW c \in Seq(Byte)
  PROVE  (a \o b) \o c = a \o (b \o c)
BY ConcatAssociative, SMTT(30)

\* Bytes cut in two ways begin alike.
LEMMA SameStart ==
  ASSUME NEW x \in Seq(Byte), NEW y \in Seq(Byte), NEW c \in Seq(Byte), NEW w \in Seq(Byte),
         x \o y = c \o w, NEW n \in Nat, n <= Len(x), n <= Len(c)
  PROVE  SubSeq(x, 1, n) = SubSeq(c, 1, n)
<1>1. /\ \A i \in 1..Len(x) : (x \o y)[i] = x[i]
      /\ \A i \in 1..Len(c) : (c \o w)[i] = c[i]
  <2>1. \A i \in 1..Len(x) : (x \o y)[i] = x[i]
    BY JoinFacts
  <2>2. \A i \in 1..Len(c) : (c \o w)[i] = c[i]
    BY JoinFacts
  <2> QED BY <2>1, <2>2
<1>2. Len(x) \in Nat /\ Len(c) \in Nat
  BY LenProperties
<1>3. \A i \in 1..n : i \in 1..Len(x) /\ i \in 1..Len(c)
  BY <1>2
<1>4. \A i \in 1..n : x[i] = c[i]
  BY <1>1, <1>3, Zenon
<1>5. PICK a : a = SubSeq(x, 0 + 1, n)
  OBVIOUS
<1>6. a \in Seq(Byte) /\ Len(a) = n - 0 /\ \A i \in 1..(n - 0) : a[i] = x[0 + i]
  BY <1>2, <1>5, PieceFacts
<1>7. PICK b : b = SubSeq(c, 0 + 1, n)
  OBVIOUS
<1>8. b \in Seq(Byte) /\ Len(b) = n - 0 /\ \A i \in 1..(n - 0) : b[i] = c[0 + i]
  BY <1>2, <1>7, PieceFacts
<1>9. Len(a) = Len(b) /\ \A i \in 1..Len(a) : a[i] = b[i]
  <2>1. Len(a) = n /\ Len(b) = n
    BY <1>6, <1>8
  <2>2. \A i \in 1..n : i \in 1..(n - 0) /\ 0 + i = i
    OBVIOUS
  <2>3. \A i \in 1..n : a[i] = b[i]
    BY <1>4, <1>6, <1>8, <2>2, Zenon
  <2> QED BY <2>1, <2>3, Zenon
<1>10. a = b
  BY <1>6, <1>8, <1>9, SameBytes
<1> QED BY <1>5, <1>7, <1>10

\* The two parts of a sequence.
Parted(c, m) ==
  /\ SubSeq(c, 1, m) \in Seq(Byte) /\ SubSeq(c, m + 1, Len(c)) \in Seq(Byte)
  /\ c = SubSeq(c, 1, m) \o SubSeq(c, m + 1, Len(c))

\* A sequence can be parted anywhere.
LEMMA CutJoin ==
  ASSUME NEW c \in Seq(Byte), NEW m \in Nat, m <= Len(c)
  PROVE  Parted(c, m)
<1>1. PICK n \in Nat : n = Len(c) /\ m <= n
  BY LenProperties
<1>2. PICK d : d = SubSeq(c, m + 1, n)
  OBVIOUS
<1>3. d \in Seq(Byte) /\ Len(d) = n - m /\ \A i \in 1..(n - m) : d[i] = c[m + i]
  BY <1>1, <1>2, PieceFacts
<1>4. PICK x : x = SubSeq(c, 1, m)
  OBVIOUS
<1>5. x \in Seq(Byte) /\ Len(x) = m /\ \A i \in 1..m : x[i] = c[i]
  <2>1. PICK a : a = SubSeq(c, 0 + 1, m)
    OBVIOUS
  <2>2. a \in Seq(Byte) /\ Len(a) = m - 0 /\ \A i \in 1..(m - 0) : a[i] = c[0 + i]
    BY <1>1, <2>1, PieceFacts
  <2>3. a = x
    BY <1>4, <2>1
  <2> QED BY <2>2, <2>3
<1>6. c = x \o d
  <2>1. PICK z \in Seq(Byte) : z = x \o d
    BY <1>3, <1>5, JoinFacts
  <2>2. /\ Len(x \o d) = Len(x) + Len(d)
        /\ \A i \in 1..Len(x) : (x \o d)[i] = x[i]
        /\ \A i \in 1..Len(d) : (x \o d)[Len(x) + i] = d[i]
    BY <1>3, <1>5, JoinFacts
  <2>3. /\ Len(z) = n /\ (\A i \in 1..m : z[i] = x[i])
        /\ \A i \in 1..(n - m) : z[m + i] = d[i]
    <3>1. PICK l \in Nat : l = n - m
      <4>1. n - m \in Nat
        BY <1>1
      <4> QED BY <4>1, Zenon
    <3>2. Len(x) = m /\ Len(d) = l /\ m + l = n
      BY <1>1, <1>3, <1>5, <3>1
    <3>3. /\ Len(z) = m + l /\ (\A i \in 1..m : z[i] = x[i])
          /\ \A i \in 1..l : z[m + i] = d[i]
      BY <2>1, <2>2, <3>2, Zenon
    <3> QED BY <3>1, <3>2, <3>3
  <2>5. ASSUME NEW i \in 1..n PROVE z[i] = c[i]
    <3>1. CASE i <= m
      BY <1>5, <2>3, <3>1
    <3>2. CASE ~(i <= m)
      <4>1. PICK j \in 1..(n - m) : i = m + j
        <5>1. i - m \in 1..(n - m) /\ i = m + (i - m)
          BY <1>1, <3>2
        <5> QED BY <5>1, Zenon
      <4> QED BY <1>3, <2>3, <4>1
    <3> QED BY <3>1, <3>2
  <2>6. z = c
    BY <1>1, <2>3, <2>5, SameBytes
  <2> QED BY <2>1, <2>6
<1> QED BY <1>1, <1>2, <1>3, <1>4, <1>5, <1>6 DEF Parted

\* A first part x that lies within the other first part c, and what is behind it.
Within(x, y, c, w) ==
  /\ SubSeq(c, 1, Len(x)) = x
  /\ \E d \in Seq(Byte) : d = SubSeq(c, Len(x) + 1, Len(c)) /\ y = d \o w

\* Bytes cut in two ways, the one first part not longer than the other.
LEMMA CutBehind ==
  ASSUME NEW x \in Seq(Byte), NEW y \in Seq(Byte), NEW c \in Seq(Byte), NEW w \in Seq(Byte),
         x \o y = c \o w, Len(x) <= Len(c)
  PROVE  Within(x, y, c, w)
<1>1. PICK m \in Nat, n \in Nat : m = Len(x) /\ n = Len(c)
  BY LenProperties
<1>2. PICK d : d = SubSeq(c, m + 1, n)
  OBVIOUS
<1>3. m <= n /\ n <= Len(c)
  BY <1>1
<1>4. d \in Seq(Byte) /\ Len(d) = n - m /\ \A i \in 1..(n - m) : d[i] = c[m + i]
  BY <1>2, <1>3, PieceFacts
<1>5. SubSeq(c, 1, m) = x
  <2>1. SubSeq(x, 1, m) = SubSeq(c, 1, m)
    <3>1. m <= Len(x) /\ m <= Len(c)
      BY <1>1, <1>3
    <3>2. x \o y = c \o w
      OBVIOUS
    <3> QED BY ONLY x \in Seq(Byte), y \in Seq(Byte), c \in Seq(Byte), w \in Seq(Byte),
                    m \in Nat, <3>1, <3>2, SameStart, ZenonT(40)
  <2>2. SubSeq(x, 1, m) = x
    BY <1>1, SubSeqFull
  <2> QED BY <2>1, <2>2
<1>6. c = x \o d
  <2>0. m <= Len(c)
    BY <1>1
  <2>1. Parted(c, m)
    BY <2>0, CutJoin, Zenon
  <2> QED BY <1>1, <1>2, <1>5, <2>1, Zenon DEF Parted
<1>7. x \o y = x \o (d \o w)
  <2>1. (x \o d) \o w = x \o (d \o w)
    <3>1. x \in Seq(Byte) /\ d \in Seq(Byte) /\ w \in Seq(Byte)
      BY <1>4
    <3> QED BY <3>1, Regroup, Zenon
  <2> QED BY <1>6, <2>1
<1>8. y = d \o w
  <2>1. PICK e \in Seq(Byte) : e = d \o w
    BY <1>4, JoinFacts
  <2>2. SubSeq(x \o y, Len(x) + 1, Len(x) + Len(y)) = y
    BY JoinSplit
  <2>3. SubSeq(x \o e, Len(x) + 1, Len(x) + Len(e)) = e
    BY JoinSplit
  <2>4. Len(x \o y) = Len(x) + Len(y) /\ Len(x \o e) = Len(x) + Len(e)
    BY JoinFacts
  <2>5. x \o y = x \o e
    BY <1>7, <2>1
  <2>6. Len(x) + Len(y) = Len(x) + Len(e)
    BY <2>4, <2>5
  <2>7. PICK p, q : p = Len(x) + 1 /\ q = Len(x) + Len(y) /\ q = Len(x) + Len(e)
    BY <2>6, Zenon
  <2>8. SubSeq(x \o y, p, q) = y /\ SubSeq(x \o e, p, q) = e
    BY <2>2, <2>3, <2>7, Zenon
  <2> QED BY <2>1, <2>5, <2>8, Zenon
<1> QED BY <1>1, <1>2, <1>4, <1>5, <1>8 DEF Within

-----------------------------------------------------------------------------
(* The codec's machine *)

ErrorCode ==
  {"kInvalidLength", "kCheckSumError", "kUnknownMessageType", "kParseError", "kNoError"}

\* What the input buffer holds.
Got == toStringPiece(input)

\* R[i] are the bytes the peer has sent behind its first i frames.
Behind(R) ==
  /\ R \in [0..Len(sentFrames) -> Seq(Byte)] /\ R[Len(sentFrames)] = <<>>
  /\ \A i \in 1..Len(sentFrames) : R[i - 1] = sentFrames[i].bytes \o R[i]

\* onMessage cannot go on with the bytes c: the next frame is not complete.
Waits(c) == \/ Len(c) < kMinMessageLen + 4
            \/ InRange(LengthOf(c)) /\ Len(c) < LengthOf(c) + 4

\* The inductive invariant: the buffer and the wire hold what the peer sent behind
\* the frames already delivered, those are good, the next one is bad once an
\* error is reported, and onMessage returns only where it has to wait.
CodecTypeOK ==
  /\ sentFrames \in Seq(Frames) /\ wire \in Seq(Byte) /\ BufOK(input)
  /\ delivered \in Seq(Seq(Byte)) /\ reported \in Seq(ErrorCode)
  /\ dispatching \in BOOLEAN /\ connected \in BOOLEAN
CodecOrder ==
  /\ Len(delivered) <= Len(sentFrames)
  /\ \A i \in 1..Len(delivered) : sentFrames[i].ok /\ delivered[i] = sentFrames[i].payload
  /\ reported # <<>> => /\ Len(delivered) < Len(sentFrames)
                        /\ ~sentFrames[Len(delivered) + 1].ok
                        /\ Len(Got) >= kMinMessageLen + 4
  /\ connected <=> reported = <<>>
  /\ ~dispatching => reported # <<>> \/ Waits(Got)
CodecInv ==
  /\ CodecTypeOK
  /\ CodecOrder
  /\ \E R : Behind(R) /\ R[Len(delivered)] = Got \o wire

\* The next frame, once the buffer holds enough of it.
LEMMA NextFrame ==
  ASSUME CodecTypeOK, CodecOrder, NEW R, Behind(R), R[Len(delivered)] = Got \o wire,
         \/ Len(Got) >= kMinMessageLen + 4
         \/ wire = <<>> /\ Len(delivered) < Len(sentFrames)
  PROVE  /\ Got \in Seq(Byte) /\ Len(Got) >= 4
         /\ Len(delivered) < Len(sentFrames)
         /\ LET f == sentFrames[Len(delivered) + 1]
            IN /\ f \in Frames /\ FrameOK(f) /\ LengthOf(Got) = LengthOf(f.bytes)
               /\ R[Len(delivered) + 1] \in Seq(Byte)
               /\ f.bytes \o R[Len(delivered) + 1] = Got \o wire
               /\ wire = <<>> => Len(f.bytes) <= Len(Got)
<1>1. PICK k \in Nat, n \in Nat : k = Len(delivered) /\ n = Len(sentFrames) /\ k <= n
  BY LenProperties DEF CodecTypeOK, CodecOrder
<1>2. PICK c \in Seq(Byte) : c = Got
  <2>1. Got \in Seq(Byte)
    BY PieceHeld DEF CodecTypeOK, Got, Holds
  <2> QED BY <2>1, Zenon
<1>3. PICK w \in Seq(Byte) : w = wire
  BY DEF CodecTypeOK
<1>4. Len(c \o w) = Len(c) + Len(w) /\ Len(c) \in Nat /\ Len(w) \in Nat
  BY JoinFacts, LenProperties
<1>5. k < n
  <2>1. CASE Len(c) >= kMinMessageLen + 4
    <3>1. Len(c \o w) # 0
      BY <1>4, <2>1, MinFacts
    <3>2. CASE k = n
      <4>1. c \o w = <<>>
        BY <1>1, <1>2, <1>3, <3>2 DEF Behind
      <4> QED BY <3>1, <4>1
    <3> QED BY <1>1, <3>2
  <2>2. CASE wire = <<>> /\ Len(delivered) < Len(sentFrames)
    BY <1>1, <2>2
  <2> QED BY <1>2, <2>1, <2>2
<1>6. PICK j \in 1..n : j = k + 1 /\ j - 1 = k
  BY <1>5
<1>7. PICK f \in Frames : f = sentFrames[j]
  <2>1. sentFrames[j] \in Frames
    BY <1>1, ElementOfSeq DEF CodecTypeOK
  <2> QED BY <2>1, Zenon
<1>8. FrameOK(f)
  BY FramesOK
<1>9. PICK x \in Seq(Byte) : x = f.bytes /\ Len(x) >= 4
  BY <1>8 DEF FrameOK
<1>10. PICK y \in Seq(Byte) : y = R[j]
  <2>1. R \in [0..n -> Seq(Byte)] /\ j \in 0..n
    BY <1>1 DEF Behind
  <2>2. R[j] \in Seq(Byte)
    BY <2>1
  <2> QED BY <2>2, Zenon
<1>11. x \o y = c \o w
  <2>1. R[j - 1] = sentFrames[j].bytes \o R[j]
    BY <1>1 DEF Behind
  <2>2. R[j - 1] = Got \o wire
    BY <1>1, <1>6
  <2> QED BY <1>2, <1>3, <1>7, <1>9, <1>10, <2>1, <2>2
<1>12. w = <<>> => Len(x) <= Len(c)
  <2>1. Len(x \o y) = Len(x) + Len(y) /\ Len(x) \in Nat /\ Len(y) \in Nat
    BY JoinFacts, LenProperties
  <2>2. w = <<>> => Len(w) = 0
    OBVIOUS
  <2>3. Len(c \o w) = Len(x \o y)
    BY <1>11
  <2> QED BY <1>4, <2>1, <2>2, <2>3
<1>13. Len(c) >= 4
  <2>1. Len(x) \in Nat
    BY LenProperties
  <2> QED BY <1>2, <1>3, <1>4, <1>9, <1>12, <2>1, MinFacts
<1>14. LengthOf(c) = LengthOf(x)
  <2>1. 4 \in Nat /\ 4 <= Len(x) /\ 4 <= Len(c)
    BY <1>4, <1>9, <1>13, MinFacts, LenProperties
  <2>2. SubSeq(x, 1, 4) = SubSeq(c, 1, 4)
    BY ONLY x \in Seq(Byte), y \in Seq(Byte), c \in Seq(Byte), w \in Seq(Byte),
            <1>11, <2>1, SameStart, ZenonT(40)
  <2> QED BY <2>2, Zenon DEF LengthOf
<1> QED BY <1>1, <1>2, <1>3, <1>5, <1>6, <1>7, <1>8, <1>9, <1>10, <1>11, <1>12, <1>13, <1>14

\* Holding back nothing: a waiting onMessage has all frames behind it, or before
\* it a bad one that is short.
LEMMA WaitsForAll ==
  ASSUME CodecInv, wire = <<>>, Waits(Got), Len(delivered) < Len(sentFrames)
  PROVE  /\ ~sentFrames[Len(delivered) + 1].ok
         /\ Len(sentFrames[Len(delivered) + 1].bytes) < kMinMessageLen + 4
         /\ Len(Got) < kMinMessageLen + 4
<1>1. PICK R : Behind(R) /\ R[Len(delivered)] = Got \o wire
  BY DEF CodecInv
<1>2. PICK f : f = sentFrames[Len(delivered) + 1]
  OBVIOUS
<1>3. /\ Got \in Seq(Byte) /\ FrameOK(f) /\ LengthOf(Got) = LengthOf(f.bytes)
      /\ Len(f.bytes) <= Len(Got)
  BY <1>1, <1>2, NextFrame DEF CodecInv
<1>4. /\ Len(Got) \in Nat /\ Len(f.bytes) \in Nat /\ LengthOf(Got) \in Nat
      /\ kMinMessageLen \in Nat
      /\ InRange(LengthOf(Got)) => Len(f.bytes) = LengthOf(Got) + 4
      /\ ~InRange(LengthOf(Got)) => ~f.ok
  BY <1>3, LenProperties, MinFacts DEF FrameOK
<1>5. ~(InRange(LengthOf(Got)) /\ Len(Got) < LengthOf(Got) + 4)
  BY <1>3, <1>4
<1>6. Len(Got) < kMinMessageLen + 4
  BY <1>5 DEF Waits
<1>7. Len(f.bytes) < kMinMessageLen + 4
  BY <1>3, <1>4, <1>6
<1>8. ~InRange(LengthOf(Got))
  BY <1>4, <1>7 DEF InRange
<1> QED BY <1>2, <1>4, <1>6, <1>7, <1>8

\* A payload is a sequence of bytes.
LEMMA PayloadsAreBytes == \A f \in Frames : f.payload \in Seq(Byte)
<1>1. \A p \in Payloads : p \in Seq(Byte)
  BY CodecAssumption DEF Byte
<1>2. <<>> \in Seq(Byte)
  OBVIOUS
<1> SUFFICES ASSUME NEW f \in Frames PROVE f.payload \in Seq(Byte)
  OBVIOUS
<1>3. (\E p \in Payloads : f = Good(p)) \/ \E y : f = Refused(y)
  BY DEF Frames
<1>4. ASSUME NEW p \in Payloads, f = Good(p) PROVE f.payload \in Seq(Byte)
  BY <1>1, <1>4 DEF Good
<1>5. ASSUME NEW y, f = Refused(y) PROVE f.payload \in Seq(Byte)
  BY <1>2, <1>5 DEF Refused
<1> QED BY <1>3, <1>4, <1>5

\* Nothing sent: the invariant holds with the one empty tail.
LEMMA CodecInitially == CodecInit => CodecInv
<1> SUFFICES ASSUME CodecInit PROVE CodecInv
  OBVIOUS
<1>1. BufOK(input) /\ Holds(input, <<>>)
  BY NewBufferOK DEF CodecInit
<1>2. Got = <<>>
  BY <1>1, PieceHeld DEF Got
<1>3. CodecTypeOK
  <2>1. <<>> \in Seq(Frames) /\ <<>> \in Seq(Byte) /\ <<>> \in Seq(Seq(Byte)) /\ <<>> \in Seq(ErrorCode)
    OBVIOUS
  <2> QED BY <1>1, <2>1 DEF CodecInit, CodecTypeOK
<1>4. Len(<<>>) = 0
  OBVIOUS
<1>5. Waits(Got)
  BY <1>2, <1>4, MinFacts DEF Waits
<1>6. CodecOrder
  BY <1>4, <1>5 DEF CodecInit, CodecOrder
<1>7. \E R : Behind(R) /\ R[Len(delivered)] = Got \o wire
  <2>1. PICK R : R = [i \in 0..0 |-> <<>>]
    OBVIOUS
  <2>2. Len(sentFrames) = 0 /\ Len(delivered) = 0
    BY <1>4 DEF CodecInit
  <2>3. Behind(R)
    BY <2>1, <2>2 DEF Behind
  <2>4. R[Len(delivered)] = Got \o wire
    <3>1. <<>> \o <<>> = <<>>
      OBVIOUS
    <3> QED BY <1>2, <2>1, <2>2, <3>1 DEF CodecInit
  <2> QED BY <2>3, <2>4, Zenon
<1> QED BY <1>3, <1>6, <1>7 DEF CodecInv

\* PeerSends: every tail of the stream grows by the frame.
LEMMA PeerSendsKeeps ==
  ASSUME CodecInv, NEW g \in Frames, PeerSends(g)
  PROVE  CodecInv'
<1>0. PICK R : Behind(R) /\ R[Len(delivered)] = Got \o wire
  BY DEF CodecInv
<1>1. PICK b \in Seq(Byte) : b = g.bytes
  BY FramesOK DEF FrameOK
<1>2. PICK n \in Nat, k \in Nat : n = Len(sentFrames) /\ k = Len(delivered) /\ k <= n
  BY LenProperties DEF CodecInv, CodecTypeOK, CodecOrder
<1>3. PICK s : s = sentFrames
  OBVIOUS
<1>4. PICK t : t = sentFrames'
  OBVIOUS
<1>5. /\ s \in Seq(Frames) /\ Len(s) = n /\ t \in Seq(Frames) /\ Len(t) = n + 1
      /\ (\A i \in 1..n : t[i] = s[i]) /\ t[n + 1] = g
  <2>1. s \in Seq(Frames) /\ Len(s) = n /\ t = Append(s, g)
    BY <1>2, <1>3, <1>4 DEF CodecInv, CodecTypeOK, PeerSends
  <2> QED BY <2>1, AppendProperties
<1>6. UNCHANGED <<input, dispatching, connected, reported, delivered>> /\ wire' = wire \o b
  BY <1>1 DEF PeerSends
<1>7. Got' = Got /\ Got \in Seq(Byte) /\ wire \in Seq(Byte)
  BY <1>6, PieceHeld DEF Got, CodecInv, CodecTypeOK, Holds
<1>8. CodecTypeOK'
  <2>1. wire' \in Seq(Byte)
    BY <1>6, <1>7, JoinFacts
  <2> QED BY <1>4, <1>5, <1>6, <2>1 DEF CodecInv, CodecTypeOK
<1>9. CodecOrder'
  <2>1. /\ Len(delivered') = k /\ Len(sentFrames') = n + 1 /\ k <= n + 1
    BY <1>2, <1>4, <1>5, <1>6
  <2>2. \A i \in 1..k : sentFrames'[i].ok /\ delivered'[i] = sentFrames'[i].payload
    BY <1>2, <1>3, <1>4, <1>5, <1>6 DEF CodecInv, CodecOrder
  <2>3. reported # <<>> =>
          k < n /\ ~sentFrames'[k + 1].ok /\ Len(Got) >= kMinMessageLen + 4
    <3>1. reported # <<>> =>
            k < n /\ ~sentFrames[k + 1].ok /\ Len(Got) >= kMinMessageLen + 4
      BY <1>2 DEF CodecInv, CodecOrder
    <3>2. k < n => k + 1 \in 1..n
      OBVIOUS
    <3> QED BY <1>3, <1>4, <1>5, <3>1, <3>2
  <2>4. (connected <=> reported = <<>>) /\ (~dispatching => reported # <<>> \/ Waits(Got))
    BY DEF CodecInv, CodecOrder
  <2>5. (connected' <=> reported' = <<>>) /\ (~dispatching' => reported' # <<>> \/ Waits(Got'))
    BY <1>6, <1>7, <2>4
  <2>6. reported' # <<>> =>
          k < n + 1 /\ ~sentFrames'[k + 1].ok /\ Len(Got') >= kMinMessageLen + 4
    BY <1>6, <1>7, <2>3
  <2> QED BY <2>1, <2>2, <2>5, <2>6 DEF CodecOrder, Waits
<1>10. PICK Q : Q = [i \in 0..(n + 1) |-> IF i <= n THEN R[i] \o b ELSE <<>>]
  OBVIOUS
<1>11. R \in [0..n -> Seq(Byte)] /\ R[n] = <<>> /\ \A i \in 1..n : R[i - 1] = s[i].bytes \o R[i]
  BY <1>0, <1>2, <1>3 DEF Behind
<1>12. \A i \in 0..n : R[i] \in Seq(Byte) /\ R[i] \o b \in Seq(Byte) /\ Q[i] = R[i] \o b
  <2> TAKE i \in 0..n
  <2>1. R[i] \in Seq(Byte) /\ i \in 0..(n + 1) /\ i <= n
    BY <1>11
  <2>2. R[i] \o b \in Seq(Byte)
    BY <2>1, JoinFacts
  <2> QED BY <1>10, <2>1, <2>2
<1>13. Q[n + 1] = <<>> /\ Q \in [0..(n + 1) -> Seq(Byte)]
  <2>1. <<>> \in Seq(Byte)
    OBVIOUS
  <2>2. n + 1 \in 0..(n + 1) /\ ~(n + 1 <= n)
    OBVIOUS
  <2>3. Q[n + 1] = <<>>
    BY <1>10, <2>2
  <2>4. ASSUME NEW i \in 0..(n + 1) PROVE (IF i <= n THEN R[i] \o b ELSE <<>>) \in Seq(Byte)
    <3>1. CASE i <= n
      <4>1. i \in 0..n
        BY <3>1
      <4> QED BY <1>12, <3>1, <4>1
    <3>2. CASE ~(i <= n)
      BY <2>1, <3>2
    <3> QED BY <3>1, <3>2
  <2>5. Q \in [0..(n + 1) -> Seq(Byte)]
    BY <1>10, <2>4
  <2> QED BY <2>3, <2>5
<1>14. ASSUME NEW i \in 1..(n + 1) PROVE Q[i - 1] = t[i].bytes \o Q[i]
  <2>1. CASE i <= n
    <3>1. i \in 1..n /\ i \in 0..n
      BY <2>1
    <3>2. PICK j \in 0..n : j = i - 1
      BY <2>1
    <3>3. PICK x \in Seq(Byte) : x = s[i].bytes
      <4>1. s[i] \in Frames
        BY <1>5, <3>1, ElementOfSeq
      <4>2. s[i].bytes \in Seq(Byte)
        BY <4>1, FramesOK DEF FrameOK
      <4> QED BY <4>2, Zenon
    <3>4. PICK y \in Seq(Byte) : y = R[i]
      BY <1>12, <3>1, Zenon
    <3>5. Q[j] = R[j] \o b /\ Q[i] = y \o b /\ R[j] = x \o y
      BY <1>11, <1>12, <3>1, <3>2, <3>3, <3>4
    <3>6. (x \o y) \o b = x \o (y \o b)
      BY Regroup, Zenon
    <3>7. t[i].bytes = x
      BY <1>5, <3>1, <3>3
    <3> QED BY <3>2, <3>5, <3>6, <3>7, Zenon
  <2>2. CASE ~(i <= n)
    <3>1. i = n + 1 /\ i - 1 = n /\ n \in 0..n
      BY <2>2
    <3>2. Q[n] = <<>> \o b
      BY <1>11, <1>12, <3>1
    <3>3. <<>> \o b = b /\ b \o <<>> = b
      BY ConcatEmptySeq
    <3>4. t[i].bytes = b
      BY <1>1, <1>5, <3>1
    <3> QED BY <1>13, <3>1, <3>2, <3>3, <3>4, Zenon
  <2> QED BY <2>1, <2>2
<1>15. Behind(Q)'
  <2>1. Len(sentFrames') = n + 1
    BY <1>4, <1>5
  <2> QED BY <1>4, <1>13, <1>14, <2>1 DEF Behind
<1>16. Q[Len(delivered')] = Got' \o wire'
  <2>1. Q[k] = (Got \o wire) \o b
    <3>1. k \in 0..n
      BY <1>2
    <3> QED BY <1>0, <1>2, <1>12, <3>1
  <2>2. (Got \o wire) \o b = Got \o (wire \o b)
    BY <1>7, Regroup, Zenon
  <2> QED BY <1>2, <1>6, <1>7, <2>1, <2>2
<1> QED BY <1>8, <1>9, <1>15, <1>16 DEF CodecInv

\* Receive: bytes move from the wire into the buffer.
LEMMA ReceiveKeeps ==
  ASSUME CodecInv, NEW m \in 1..Len(wire), Receive(m)
  PROVE  CodecInv'
<1>0. PICK R : Behind(R) /\ R[Len(delivered)] = Got \o wire
  BY DEF CodecInv
<1>1. PICK w \in Seq(Byte) : w = wire
  BY DEF CodecInv, CodecTypeOK
<1>2. PICK c \in Seq(Byte) : c = Got /\ Holds(input, c)
  <2>1. Holds(input, Got)
    BY PieceHeld DEF CodecInv, CodecTypeOK, Got
  <2>2. Got \in Seq(Byte)
    BY <2>1 DEF Holds
  <2> QED BY <2>1, <2>2, Zenon
<1>3. m \in Nat /\ m <= Len(w)
  BY <1>1, LenProperties
<1>4. PICK a \in Seq(Byte) : a = SubSeq(w, 1, m) /\ Len(a) = m
  <2>1. PICK a : a = SubSeq(w, 0 + 1, m)
    OBVIOUS
  <2>2. a \in Seq(Byte) /\ Len(a) = m - 0
    BY <1>3, <2>1, PieceFacts
  <2>3. a = SubSeq(w, 1, m) /\ Len(a) = m
    BY <1>3, <2>1, <2>2
  <2> QED BY <2>2, <2>3
<1>5. PICK v \in Seq(Byte) : v = SubSeq(w, m + 1, Len(w)) /\ w = a \o v
  <2>1. Parted(w, m)
    BY <1>3, CutJoin, Zenon
  <2> QED BY <1>4, <2>1, Zenon DEF Parted
<1>6. /\ input' = readFd(input, a) /\ wire' = v /\ dispatching'
      /\ UNCHANGED <<connected, reported, sentFrames, delivered>>
  BY <1>1, <1>4, <1>5 DEF Receive
<1>7. BufOK(input') /\ Holds(input', c \o a)
  <2>1. BufOK(readFd(input, a)) /\ Holds(readFd(input, a), c \o a)
    BY <1>2, ReadFdFacts DEF CodecInv, CodecTypeOK
  <2> QED BY <1>6, <2>1
<1>8. Got' = c \o a
  BY <1>7, PieceHeld DEF Got
<1>9. CodecTypeOK'
  <2>1. dispatching' = TRUE
    BY DEF Receive
  <2> QED BY <1>6, <1>7, <2>1 DEF CodecInv, CodecTypeOK
<1>10. CodecOrder'
  <2>1. Len(Got) >= kMinMessageLen + 4 => Len(Got') >= kMinMessageLen + 4
    <3>1. Len(c \o a) = Len(c) + Len(a) /\ Len(c) \in Nat /\ Len(a) \in Nat
      BY JoinFacts, LenProperties
    <3> QED BY <1>2, <1>8, <3>1, MinFacts
  <2> QED BY <1>6, <2>1 DEF CodecInv, CodecOrder
<1>11. R[Len(delivered')] = Got' \o wire'
  <2>1. (c \o a) \o v = c \o (a \o v)
    BY Regroup, Zenon
  <2> QED BY <1>0, <1>1, <1>2, <1>5, <1>6, <1>8, <2>1
<1>12. Behind(R)'
  BY <1>0, <1>6 DEF Behind
<1> QED BY <1>9, <1>10, <1>11, <1>12 DEF CodecInv

\* OnMessage: it stops where it has to wait, ...
LEMMA StopKeeps ==
  ASSUME CodecInv, Waits(Got), dispatching' = FALSE,
         UNCHANGED <<input, connected, reported, delivered, wire, sentFrames>>
  PROVE  CodecInv'
<1>1. Got' = Got
  BY DEF Got
<1>2. PICK R : Behind(R) /\ R[Len(delivered)] = Got \o wire
  BY DEF CodecInv
<1>3. Behind(R)' /\ R[Len(delivered')] = Got' \o wire'
  BY <1>1, <1>2 DEF Behind
<1>4. CodecTypeOK'
  BY DEF CodecInv, CodecTypeOK
<1>5. CodecOrder'
  BY <1>1 DEF CodecInv, CodecOrder, Waits
<1> QED BY <1>3, <1>4, <1>5 DEF CodecInv

\* ... reports a frame that is bad, ...
LEMMA ReportKeeps ==
  ASSUME CodecInv, Len(delivered) < Len(sentFrames), ~sentFrames[Len(delivered) + 1].ok,
         Len(Got) >= kMinMessageLen + 4, NEW code \in ErrorCode, ReportError(code), UNCHANGED <<wire, sentFrames>>
  PROVE  CodecInv'
<1>1. /\ UNCHANGED <<input, delivered, wire, sentFrames>>
      /\ connected' = FALSE /\ dispatching' = FALSE
  BY DEF ReportError
<1>2. reported' \in Seq(ErrorCode) /\ reported' # <<>>
  <2>1. reported' = Append(reported, code)
    BY DEF ReportError
  <2>2. PICK s \in Seq(ErrorCode) : s = reported
    BY DEF CodecInv, CodecTypeOK
  <2>3. Append(s, code) \in Seq(ErrorCode) /\ Len(Append(s, code)) # 0
    BY AppendProperties
  <2> QED BY <2>1, <2>2, <2>3
<1>3. Got' = Got
  BY <1>1 DEF Got
<1>4. PICK R : Behind(R) /\ R[Len(delivered)] = Got \o wire
  BY DEF CodecInv
<1>5. Behind(R)' /\ R[Len(delivered')] = Got' \o wire'
  BY <1>1, <1>3, <1>4 DEF Behind
<1>6. CodecTypeOK'
  BY <1>1, <1>2 DEF CodecInv, CodecTypeOK
<1>7. CodecOrder'
  BY <1>1, <1>2, <1>3 DEF CodecInv, CodecOrder
<1> QED BY <1>5, <1>6, <1>7 DEF CodecInv

\* ... and delivers a good one, whose bytes leave the buffer.
LEMMA DeliverKeeps ==
  ASSUME CodecInv, NEW R, Behind(R), R[Len(delivered)] = Got \o wire,
         Len(Got) >= kMinMessageLen + 4, InRange(LengthOf(Got)), Len(Got) >= LengthOf(Got) + 4,
         sentFrames[Len(delivered) + 1].ok,
         Deliver(sentFrames[Len(delivered) + 1].payload, LengthOf(Got)), dispatching,
         UNCHANGED <<wire, sentFrames>>
  PROVE  CodecInv'
<1>1. PICK k \in Nat, n \in Nat : k = Len(delivered) /\ n = Len(sentFrames)
  BY LenProperties DEF CodecInv, CodecTypeOK
<1>2. PICK f : f = sentFrames[k + 1]
  OBVIOUS
<1>3. /\ Got \in Seq(Byte) /\ k < n /\ f \in Frames /\ FrameOK(f)
      /\ LengthOf(Got) = LengthOf(f.bytes) /\ R[k + 1] \in Seq(Byte)
      /\ f.bytes \o R[k + 1] = Got \o wire
  BY <1>1, <1>2, NextFrame DEF CodecInv
<1>4. PICK c \in Seq(Byte) : c = Got
  BY <1>3
<1>5. PICK x \in Seq(Byte) : x = f.bytes
  BY <1>3 DEF FrameOK
<1>6. PICK y \in Seq(Byte) : y = R[k + 1]
  BY <1>3
<1>7. PICK w \in Seq(Byte) : w = wire
  BY DEF CodecInv, CodecTypeOK
<1>8. PICK q \in Nat : q = LengthOf(c) + 4 /\ q = Len(x) /\ q <= Len(c)
  <2>1. LengthOf(x) \in Nat /\ Len(x) = LengthOf(x) + 4 /\ LengthOf(c) = LengthOf(x)
    BY <1>3, <1>4, <1>5 DEF FrameOK
  <2>2. LengthOf(c) + 4 \in Nat /\ LengthOf(c) + 4 = Len(x) /\ LengthOf(c) + 4 <= Len(c)
    BY <1>4, <2>1, LenProperties
  <2> QED BY <2>2, Zenon
<1>9. PICK d : d = SubSeq(c, q + 1, Len(c))
  OBVIOUS
<1>10. d \in Seq(Byte) /\ y = d \o w
  <2>1. x \o y = c \o w
    BY <1>3, <1>4, <1>5, <1>6, <1>7
  <2>2. Len(x) <= Len(c)
    BY <1>8
  <2>3. PICK e \in Seq(Byte) : e = SubSeq(c, Len(x) + 1, Len(c)) /\ y = e \o w
    <3>1. Within(x, y, c, w)
      BY <2>1, <2>2, CutBehind, Zenon
    <3> QED BY <3>1, Zenon DEF Within
  <2> QED BY <1>8, <1>9, <2>3, Zenon
<1>11. input' = retrieve(input, q)
  <2>1. q = kHeaderLen + LengthOf(Got)
    <3>1. LengthOf(c) \in Nat
      BY <1>3, <1>4 DEF FrameOK
    <3> QED BY <1>4, <1>8, <3>1 DEF kHeaderLen
  <2> QED BY <2>1 DEF Deliver
<1>12. BufOK(input') /\ Holds(input', d)
  <2>1. BufOK(input) /\ Holds(input, c)
    BY <1>4, PieceHeld DEF CodecInv, CodecTypeOK, Got
  <2>2. BufOK(retrieve(input, q)) /\ Holds(retrieve(input, q), SubSeq(c, q + 1, Len(c)))
    BY <1>8, <2>1, RetrieveFacts, Zenon
  <2> QED BY <1>9, <1>11, <2>2, Zenon
<1>13. Got' = d
  BY <1>12, PieceHeld DEF Got
<1>14. /\ delivered' \in Seq(Seq(Byte)) /\ Len(delivered') = k + 1
       /\ (\A i \in 1..k : delivered'[i] = delivered[i]) /\ delivered'[k + 1] = f.payload
  <2>1. f.payload \in Seq(Byte)
    BY <1>3, PayloadsAreBytes
  <2>2. delivered \in Seq(Seq(Byte)) /\ delivered' = Append(delivered, f.payload)
    BY <1>1, <1>2 DEF Deliver, CodecInv, CodecTypeOK
  <2> QED BY <1>1, <2>1, <2>2, AppendProperties
<1>15. UNCHANGED <<dispatching, connected, reported, wire, sentFrames>>
  BY DEF Deliver
<1>16. CodecTypeOK'
  BY <1>12, <1>14, <1>15 DEF CodecInv, CodecTypeOK
<1>17. reported = <<>>
  BY <1>1, <1>2 DEF CodecInv, CodecOrder
<1>18. CodecOrder'
  <2>1. Len(delivered') <= Len(sentFrames')
    BY <1>1, <1>3, <1>14, <1>15
  <2>2. ASSUME NEW i \in 1..(k + 1)
        PROVE  sentFrames[i].ok /\ delivered'[i] = sentFrames[i].payload
    <3>1. CASE i = k + 1
      BY <1>1, <1>2, <1>14, <3>1
    <3>2. CASE i # k + 1
      <4>1. i \in 1..k
        BY <3>2
      <4> QED BY <1>1, <1>14, <4>1 DEF CodecInv, CodecOrder
    <3> QED BY <3>1, <3>2
  <2>3. \A i \in 1..Len(delivered') :
          sentFrames'[i].ok /\ delivered'[i] = sentFrames'[i].payload
    BY <1>14, <1>15, <2>2
  <2>4. reported' = <<>> /\ dispatching' /\ (connected' <=> reported' = <<>>)
    BY <1>15, <1>17 DEF CodecInv, CodecOrder
  <2> QED BY <2>1, <2>3, <2>4 DEF CodecOrder
<1>19. Behind(R)'
  BY <1>15 DEF Behind
<1>20. R[Len(delivered')] = Got' \o wire'
  BY <1>6, <1>7, <1>10, <1>13, <1>14, <1>15
<1> QED BY <1>16, <1>18, <1>19, <1>20 DEF CodecInv

\* parse ends with a code and what it took for the payload.
LEMMA ErrorsAreCodes == \A body : Parse(body).error \in ErrorCode
<1> TAKE body
<1>1. \E p : \/ Parse(body) = [error |-> "kCheckSumError", payload |-> p]
             \/ Parse(body) = [error |-> "kUnknownMessageType", payload |-> p]
             \/ Parse(body) = [error |-> "kParseError", payload |-> p]
             \/ Parse(body) = [error |-> "kNoError", payload |-> p]
  BY DEF Parse
<1> QED BY <1>1 DEF ErrorCode

\* An iteration of onMessage does one of these.
LEMMA OnMessageKeeps ==
  ASSUME CodecInv, OnMessage
  PROVE  CodecInv'
<1>0. PICK R : Behind(R) /\ R[Len(delivered)] = Got \o wire
  BY DEF CodecInv
<1>1. PICK c \in Seq(Byte) : c = Got /\ Holds(input, c)
  <2>1. Holds(input, Got)
    BY PieceHeld DEF CodecInv, CodecTypeOK, Got
  <2>2. Got \in Seq(Byte)
    BY <2>1 DEF Holds
  <2> QED BY <2>1, <2>2, Zenon
<1>2. readableBytes(input) = Len(c) /\ Len(c) \in Nat /\ BufOK(input)
  BY <1>1, LenProperties DEF Holds, readableBytes, CodecInv, CodecTypeOK
<1>3. dispatching /\ UNCHANGED <<wire, sentFrames>>
  BY DEF OnMessage
<1>4. CASE Len(c) < kMinMessageLen + 4
  <2>1. dispatching' = FALSE /\ UNCHANGED <<input, connected, reported, delivered>>
    BY <1>2, <1>4 DEF OnMessage, kHeaderLen
  <2>2. Waits(Got)
    BY <1>1, <1>4 DEF Waits
  <2> QED BY <1>3, <2>1, <2>2, StopKeeps
<1>5. CASE ~(Len(c) < kMinMessageLen + 4)
  <2>0. Len(Got) >= kMinMessageLen + 4 /\ 4 <= Len(c) /\ 4 \in Nat
    BY <1>1, <1>2, <1>5, MinFacts
  <2>1. PICK f : f = sentFrames[Len(delivered) + 1]
    OBVIOUS
  <2>2. /\ Len(delivered) < Len(sentFrames) /\ f \in Frames /\ FrameOK(f)
        /\ LengthOf(c) = LengthOf(f.bytes) /\ R[Len(delivered) + 1] \in Seq(Byte)
        /\ f.bytes \o R[Len(delivered) + 1] = c \o wire
    BY <1>0, <1>1, <2>0, <2>1, NextFrame DEF CodecInv
  <2>3. PICK q \in Nat : q = LengthOf(c)
    BY <2>2 DEF FrameOK
  <2>4. peekInt(input, kHeaderLen) = q
    <3>1. peek(input, 4) = SubSeq(c, 1, 4)
      BY <1>1, <1>2, <2>0, PeekFacts
    <3> QED BY <2>3, <3>1 DEF peekInt, kHeaderLen, LengthOf
  <2>5. ~(readableBytes(input) < kMinMessageLen + kHeaderLen)
    BY <1>2, <1>5 DEF kHeaderLen
  <2>6. CASE ~InRange(q)
    <3>1. ~f.ok
      BY <2>2, <2>3, <2>6 DEF FrameOK
    <3>2. q > kMaxMessageLen \/ q < kMinMessageLen
      BY <2>6, MinFacts, CodecAssumption DEF InRange
    <3>3. ReportError("kInvalidLength")
      BY <2>4, <2>5, <3>2 DEF OnMessage
    <3>4. PICK code \in ErrorCode : code = "kInvalidLength"
      BY DEF ErrorCode
    <3> QED BY <1>3, <2>0, <2>1, <2>2, <3>1, <3>3, <3>4, ReportKeeps
  <2>7. CASE InRange(q)
    <3>0. ~(q > kMaxMessageLen \/ q < kMinMessageLen)
      BY <2>7, MinFacts, CodecAssumption DEF InRange
    <3>1. PICK p \in Nat : p = kHeaderLen + q /\ p = q + 4
      <4>1. kHeaderLen + q \in Nat /\ kHeaderLen + q = q + 4
        BY DEF kHeaderLen
      <4> QED BY <4>1, Zenon
    <3>2. WholeFrame <=> Len(c) >= p
      BY <1>2, <2>4, <3>1 DEF WholeFrame
    <3>3. CASE ~(Len(c) >= p)
      <4>1. dispatching' = FALSE /\ UNCHANGED <<input, connected, reported, delivered>>
        BY <2>4, <2>5, <3>0, <3>2, <3>3 DEF OnMessage
      <4>2. Waits(Got)
        BY <1>1, <1>2, <2>3, <2>7, <3>1, <3>3 DEF Waits
      <4> QED BY <1>3, <4>1, <4>2, StopKeeps
    <3>4. CASE Len(c) >= p
      <4>1. PICK x \in Seq(Byte) : x = f.bytes
        BY <2>2 DEF FrameOK
      <4>2. Len(x) = p
        BY <2>2, <2>3, <2>7, <3>1, <4>1 DEF FrameOK
      <4>3. peek(input, p) = x
        <5>1. peek(input, p) = SubSeq(c, 1, p)
          BY <1>1, <1>2, <3>4, PeekFacts
        <5>2. SubSeq(c, 1, Len(x)) = x
          <6>1. PICK y \in Seq(Byte) : y = R[Len(delivered) + 1]
            BY <2>2
          <6>2. PICK w \in Seq(Byte) : w = wire
            BY DEF CodecInv, CodecTypeOK
          <6>3. x \o y = c \o w /\ Len(x) <= Len(c)
            BY <1>2, <2>2, <3>4, <4>1, <4>2, <6>1, <6>2
          <6>4. Within(x, y, c, w)
            BY <6>3, CutBehind, Zenon
          <6> QED BY <6>4 DEF Within
        <5> QED BY <4>2, <5>1, <5>2
      <4>4. PICK r : r = Parse(SubSeq(x, 5, p))
        OBVIOUS
      <4>5. r = Parse(SubSeq(peek(input, kHeaderLen + q), kHeaderLen + 1, kHeaderLen + q))
        <5>1. kHeaderLen + 1 = 5
          BY DEF kHeaderLen
        <5> QED BY <3>1, <4>3, <4>4, <5>1, Zenon
      <4>6. f.ok <=> r.error = "kNoError"
        BY <2>2, <2>3, <2>7, <3>1, <4>1, <4>4 DEF FrameOK
      <4>7. f.ok => r.payload = f.payload
        BY <2>2, <2>3, <2>7, <3>1, <4>1, <4>4 DEF FrameOK
      <4>8. r.error \in ErrorCode
        BY <4>4, ErrorsAreCodes
      <4>9. IF r.error = "kNoError" THEN Deliver(r.payload, q) ELSE RefuseFrame(r.error, q)
        BY <2>4, <2>5, <3>0, <3>2, <3>4, <4>5 DEF OnMessage
      <4>10. CASE f.ok
        <5>1. Deliver(f.payload, LengthOf(Got))
          BY <1>1, <2>3, <4>6, <4>7, <4>9, <4>10
        <5>2. InRange(LengthOf(Got)) /\ Len(Got) >= LengthOf(Got) + 4
          BY <1>1, <2>3, <2>7, <3>1, <3>4
        <5> QED BY <1>0, <1>3, <2>0, <2>1, <4>10, <5>1, <5>2, DeliverKeeps
      <4>11. CASE ~f.ok
        <5>1. ReportError(r.error)
          BY <4>6, <4>9, <4>11 DEF RefuseFrame
        <5> QED BY <1>3, <2>0, <2>1, <2>2, <4>8, <4>11, <5>1, ReportKeeps
      <4> QED BY <4>10, <4>11
    <3> QED BY <3>3, <3>4
  <2> QED BY <2>6, <2>7
<1> QED BY <1>4, <1>5

\* Every step keeps the invariant.
LEMMA CodecStep == CodecInv /\ [CodecNext]_codecVars => CodecInv'
<1> SUFFICES ASSUME CodecInv, [CodecNext]_codecVars PROVE CodecInv'
  OBVIOUS
<1>1. ASSUME NEW f \in Frames, PeerSends(f) PROVE CodecInv'
  BY <1>1, PeerSendsKeeps
<1>2. ASSUME NEW n \in 1..Len(wire), Receive(n) PROVE CodecInv'
  BY <1>2, ReceiveKeeps
<1>3. CASE OnMessage
  BY <1>3, OnMessageKeeps
<1>4. CASE UNCHANGED codecVars
  <2>1. UNCHANGED <<wire, input, dispatching, connected, reported, sentFrames, delivered>>
    BY <1>4 DEF codecVars
  <2>2. Got' = Got
    BY <2>1 DEF Got
  <2>3. CodecTypeOK'
    BY <2>1 DEF CodecInv, CodecTypeOK
  <2>4. CodecOrder'
    BY <2>1, <2>2 DEF CodecInv, CodecOrder, Waits
  <2>5. PICK R : Behind(R) /\ R[Len(delivered)] = Got \o wire
    BY DEF CodecInv
  <2>6. Behind(R)' /\ R[Len(delivered')] = Got' \o wire'
    BY <2>1, <2>2, <2>5 DEF Behind
  <2> QED BY <2>3, <2>4, <2>6 DEF CodecInv
<1> QED BY <1>1, <1>2, <1>3, <1>4 DEF CodecNext

\* The first bad frame is the least index of one.
LEMMA FirstBadIs ==
  ASSUME sentFrames \in Seq(Frames), NEW k \in Nat, k <= Len(sentFrames),
         \A i \in 1..k : sentFrames[i].ok
  PROVE  /\ FirstBad \in Nat /\ k < FirstBad
         /\ k < Len(sentFrames) /\ ~sentFrames[k + 1].ok => FirstBad = k + 1
         /\ k = Len(sentFrames) => FirstBad = k + 1
<1>1. PICK n \in Nat : n = Len(sentFrames)
  BY LenProperties
<1>2. DOMAIN sentFrames = 1..n
  BY <1>1, LenProperties
<1>3. PICK B : B = {i \in 1..n : ~sentFrames[i].ok}
  OBVIOUS
<1>4. FirstBad = IF B # {} THEN Min(B) ELSE n + 1
  BY <1>1, <1>2, <1>3 DEF FirstBad, SelectInSeq
<1>5. CASE B = {}
  <2>1. FirstBad = n + 1
    BY <1>4, <1>5
  <2>2. k < n => sentFrames[k + 1].ok
    <3>1. k < n => k + 1 \in 1..n
      OBVIOUS
    <3> QED BY <1>3, <1>5, <3>1
  <2> QED BY <1>1, <2>1, <2>2
<1>6. CASE B # {}
  <2>1. B \subseteq Nat
    BY <1>3
  <2>2. \E x \in B : \A y \in B : x <= y
    BY <1>6, <2>1, LeastNat
  <2>3. Min(B) \in B /\ \A y \in B : Min(B) <= y
    BY <2>2 DEF Min
  <2>4. PICK m \in B : m = FirstBad /\ \A y \in B : m <= y
    BY <1>4, <1>6, <2>3
  <2>5. m \in 1..n /\ ~sentFrames[m].ok
    BY <1>3, <2>4
  <2>6. k < m
    BY <2>5
  <2>7. CASE k < n /\ ~sentFrames[k + 1].ok
    <3>1. k + 1 \in B
      BY <1>3, <2>7
    <3>2. m <= k + 1
      BY <2>4, <3>1
    <3> QED BY <1>1, <2>4, <2>5, <2>6, <3>2
  <2>8. k # n
    BY <1>1, <2>5, <2>6
  <2> QED BY <1>1, <2>4, <2>5, <2>6, <2>7, <2>8
<1> QED BY <1>5, <1>6

\* The invariant says what the codec promises.
LEMMA CodecInvDecodes == CodecInv => StreamDecoded
<1> SUFFICES ASSUME CodecInv PROVE StreamDecoded
  OBVIOUS
<1>1. PICK k \in Nat, n \in Nat : k = Len(delivered) /\ n = Len(sentFrames) /\ k <= n
  BY LenProperties DEF CodecInv, CodecTypeOK, CodecOrder
<1>2. \A i \in 1..k : sentFrames[i].ok /\ delivered[i] = sentFrames[i].payload
  BY <1>1 DEF CodecInv, CodecOrder
<1>3. PICK b : b = FirstBad
  OBVIOUS
<1>4. /\ b \in Nat /\ k < b
      /\ k < n /\ ~sentFrames[k + 1].ok => b = k + 1
      /\ k = n => b = k + 1
  BY <1>1, <1>2, <1>3, FirstBadIs DEF CodecInv, CodecTypeOK
<1>5. PICK A : A = Acceptable
  OBVIOUS
<1>6. A = [i \in 1..(b - 1) |-> sentFrames[i].payload]
  BY <1>3, <1>5 DEF Acceptable
<1>7. delivered \in Seq(Seq(Byte)) /\ Len(delivered) = k
  BY <1>1 DEF CodecInv, CodecTypeOK
<1>8. b = k + 1 => delivered = A
  <2>1. b = k + 1 => b - 1 = k
    OBVIOUS
  <2>2. delivered = [i \in 1..k |-> delivered[i]]
    BY <1>7, LenProperties
  <2>3. delivered = [i \in 1..k |-> sentFrames[i].payload]
    BY <1>2, <2>2
  <2> QED BY <1>6, <2>1, <2>3
<1>9. IsPrefix(delivered, A)
  <2>1. PICK m \in Nat : m = b - 1 /\ k <= m
    BY <1>4
  <2>2. Len(A) = m
    BY <1>6, <2>1
  <2>3. SubSeq(delivered, 1, k) = SubSeq(A, 1, k)
    <3>1. \A i \in 1..k : delivered[i] = A[i]
      BY <1>2, <1>6, <2>1
    <3> QED BY <3>1
  <2> QED BY <1>7, <2>1, <2>2, <2>3 DEF IsPrefix
<1>10. reported # <<>> => b = k + 1 /\ b <= n
  BY <1>1, <1>4 DEF CodecInv, CodecOrder
<1>11. DeliveredIsPrefix
  BY <1>1, <1>3, <1>5, <1>8, <1>9, <1>10 DEF DeliveredIsPrefix
<1>l. /\ readableBytes(input) = Len(Got) /\ kMinMessageLen + kHeaderLen = kMinMessageLen + 4
      /\ Len(Got) \in Nat /\ kMinMessageLen \in Nat
  <2>1. Holds(input, Got)
    BY PieceHeld DEF CodecInv, CodecTypeOK, Got
  <2>2. readableBytes(input) = Len(Got) /\ Len(Got) \in Nat
    BY <2>1, LenProperties DEF Holds, readableBytes
  <2> QED BY <2>2, MinFacts DEF kHeaderLen
<1>12. ASSUME wire = <<>>, ~dispatching
       PROVE  /\ delivered = Acceptable
              /\ (reported # <<>>) <=> (FirstBad <= Len(sentFrames) /\ ~ShortWaits)
              /\ connected <=> reported = <<>>
  <2>0. connected <=> reported = <<>>
    BY DEF CodecInv, CodecOrder
  <2>1. CASE reported # <<>>
    <3>1. Len(Got) >= kMinMessageLen + 4
      BY <2>1 DEF CodecInv, CodecOrder
    <3>2. ~ShortWaits
      BY <1>l, <3>1 DEF ShortWaits
    <3> QED BY <1>1, <1>3, <1>5, <1>8, <1>10, <2>0, <2>1, <3>2
  <2>2. CASE reported = <<>>
    <3>1. Waits(Got)
      BY <1>12, <2>2 DEF CodecInv, CodecOrder
    <3>2. CASE k = n
      <4>1. b = k + 1 /\ ~(b <= n)
        BY <1>4, <3>2
      <4> QED BY <1>1, <1>3, <1>5, <1>8, <2>0, <2>2, <4>1
    <3>3. CASE k < n
      <4>1. /\ ~sentFrames[k + 1].ok /\ Len(sentFrames[k + 1].bytes) < kMinMessageLen + 4
            /\ Len(Got) < kMinMessageLen + 4
        BY <1>1, <1>12, <3>1, <3>3, WaitsForAll
      <4>2. b = k + 1 /\ b <= n
        BY <1>4, <3>3, <4>1
      <4>3. ShortWaits
        BY <1>1, <1>3, <1>l, <4>1, <4>2 DEF ShortWaits
      <4> QED BY <1>3, <1>5, <1>8, <2>0, <2>2, <4>2, <4>3
    <3> QED BY <1>1, <3>2, <3>3
  <2> QED BY <2>1, <2>2
<1> QED BY <1>11, <1>12 DEF StreamDecoded, NothingLeftBehind

\* However TCP cuts the stream, for every tag, limit and set of messages: the
\* messages of the frames before the first bad one are delivered whole and in
\* order, nothing behind it is, and onMessage never leaves a whole frame waiting,
\* but for a bad one shorter than any message that no further bytes follow.
THEOREM StreamAlwaysDecoded == CodecSpec => []StreamDecoded
<1>1. CodecInit => CodecInv
  BY CodecInitially
<1>2. CodecInv /\ [CodecNext]_codecVars => CodecInv'
  BY CodecStep
<1>3. CodecInv => StreamDecoded
  BY CodecInvDecodes
<1> QED BY <1>1, <1>2, <1>3, PTL DEF CodecSpec

-----------------------------------------------------------------------------
(* TimeZone *)

\* The days before year y of a calendar that begins its years in March.
YearDays(y) == y * 365 + y \div 4 - y \div 100 + y \div 400

\* ... by century and year of the century.
LEMMA YearDaysIs ==
  ASSUME NEW b \in Int, NEW d \in 0..99
  PROVE  /\ (b * 146097) \div 4 = 36524 * b + (b \div 4)
         /\ (1461 * d) \div 4 = 365 * d + (d \div 4)
         /\ YearDays(100 * b + d) = 36524 * b + (b \div 4) + 365 * d + (d \div 4)
<1>1. PICK p \in Int, q \in Int : p = b \div 4 /\ q = d \div 4
  BY SMT
<1>2. 4 * p <= b /\ b <= 4 * p + 3 /\ 4 * q <= d /\ d <= 4 * q + 3
  BY <1>1, SMT
<1>3. (b * 146097) \div 4 = 36524 * b + p
  BY <1>2, SMT
<1>4. (1461 * d) \div 4 = 365 * d + q
  BY <1>2, SMT
<1>5. PICK y \in Int : y = 100 * b + d
  BY SMT
<1>6. y \div 4 = 25 * b + q
  BY <1>2, <1>5, SMT
<1>7. y \div 100 = b
  BY <1>5, SMT
<1>8. y \div 400 = p
  BY <1>2, <1>5, SMT
<1>9. YearDays(y) = 36524 * b + p + 365 * d + q
  BY <1>5, <1>6, <1>7, <1>8, SMT DEF YearDays
<1> QED BY <1>1, <1>3, <1>4, <1>5, <1>9, SMT

\* The number of a date, with n = 1 in January and February.
LEMMA NumberIs ==
  ASSUME NEW Y \in Int, NEW M \in 1..12, NEW D \in Int, NEW n \in 0..1, n = 1 <=> M <= 2
  PROVE  getJulianDayNumber([year |-> Y, month |-> M, day |-> D]) =
           D + (153 * (M + 12 * n - 3) + 2) \div 5 + YearDays(Y + 4800 - n) - 32045
<1>1. PICK r : r = [year |-> Y, month |-> M, day |-> D]
  OBVIOUS
<1>2. r.year = Y /\ r.month = M /\ r.day = D
  BY <1>1
<1>3. (14 - M) \div 12 = n
  BY SMT
<1> QED BY <1>1, <1>2, <1>3, SMT DEF getJulianDayNumber, YearDays

\* The numbers of getYearMonthDay.
PartB(a, b) == b = (4 * a + 3) \div 146097
PartC(a, b, c) == c = a - (b * 146097) \div 4
PartD(c, d) == d = (4 * c + 3) \div 1461
PartE(c, d, e) == e = c - (1461 * d) \div 4
PartM(e, m) == m = (5 * e + 2) \div 153
Parts(a, b, c, d, e, m) ==
  PartB(a, b) /\ PartC(a, b, c) /\ PartD(c, d) /\ PartE(c, d, e) /\ PartM(e, m)
DaysTo(a, b, d, e) == a = e + YearDays(100 * b + d)

\* They are in range, and the days they count are all days.
LEMMA PartsExist ==
  ASSUME NEW a \in Int
  PROVE  \E b \in Int, c \in Int, d \in 0..99, e \in 0..365, m \in 0..11 :
           Parts(a, b, c, d, e, m) /\ DaysTo(a, b, d, e)
<1>1. PICK b \in Int : /\ b = (4 * a + 3) \div 146097
                       /\ 146097 * b <= 4 * a + 3 /\ 4 * a + 3 <= 146097 * b + 146096
  BY SMT
<1>2. PICK p \in Int : p = b \div 4 /\ 4 * p <= b /\ b <= 4 * p + 3
  BY SMT
<1>3. PICK c \in Int : c = a - (b * 146097) \div 4
  BY SMT
<1>4. c = a - (36524 * b + p)
  BY <1>2, <1>3, SMT
<1>5. 0 <= c /\ c <= 36524
  BY <1>1, <1>2, <1>4, SMT
<1>6. PICK d \in Int : /\ d = (4 * c + 3) \div 1461
                       /\ 1461 * d <= 4 * c + 3 /\ 4 * c + 3 <= 1461 * d + 1460
  BY SMT
<1>7. d \in 0..99
  BY <1>5, <1>6, SMT
<1>8. PICK q \in Int : q = d \div 4 /\ 4 * q <= d /\ d <= 4 * q + 3
  BY SMT
<1>9. PICK e \in Int : e = c - (1461 * d) \div 4
  BY SMT
<1>10. e = c - (365 * d + q)
  BY <1>8, <1>9, SMT
<1>11. e \in 0..365
  BY <1>6, <1>8, <1>10, SMT
<1>12. PICK m \in Int : m = (5 * e + 2) \div 153
  BY SMT
<1>13. m \in 0..11
  BY <1>11, <1>12, SMT
<1>14. DaysTo(a, b, d, e)
  <2>1. YearDays(100 * b + d) = 36524 * b + (b \div 4) + 365 * d + (d \div 4)
    BY <1>7, YearDaysIs, SMT
  <2> QED BY <1>2, <1>4, <1>8, <1>10, <2>1, SMT DEF DaysTo
<1>15. Parts(a, b, c, d, e, m)
  <2>1. PartB(a, b)
    BY <1>1, SMT DEF PartB
  <2>2. PartC(a, b, c)
    BY <1>3, SMT DEF PartC
  <2>3. PartD(c, d)
    BY <1>6, SMT DEF PartD
  <2>4. PartE(c, d, e)
    BY <1>9, SMT DEF PartE
  <2>5. PartM(e, m)
    BY <1>12, SMT DEF PartM
  <2> QED BY <2>1, <2>2, <2>3, <2>4, <2>5, Zenon DEF Parts
<1> QED BY <1>7, <1>11, <1>13, <1>14, <1>15, Zenon

\* A day number comes back from its date.
LEMMA NumberDateNumber ==
  ASSUME NEW j \in Int
  PROVE  /\ getYearMonthDay(j) \in [year : Int, month : 1..12, day : Int]
         /\ getJulianDayNumber(getYearMonthDay(j)) = j
<1>1. PICK a \in Int : a = j + 32044
  BY SMT
<1>2. PICK b \in Int, c \in Int, d \in 0..99, e \in 0..365, m \in 0..11 :
        Parts(a, b, c, d, e, m) /\ DaysTo(a, b, d, e)
  BY PartsExist, Zenon
<1>3. PICK n \in 0..1 : n = m \div 10 /\ (n = 1 <=> m >= 10)
  BY SMT
<1>4. PICK x \in Int : x = (153 * m + 2) \div 5
  BY SMT
<1>5. PICK Y \in Int, M \in Int, D \in Int :
        Y = b * 100 + d - 4800 + n /\ M = m + 3 - 12 * n /\ D = e - x + 1
  BY SMT
<1> DEFINE r == [year |-> Y, month |-> M, day |-> D]
<1>6. getYearMonthDay(j) = r
  <2>1. PartB(a, b) /\ PartC(a, b, c) /\ PartD(c, d) /\ PartE(c, d, e) /\ PartM(e, m)
    BY <1>2, Zenon DEF Parts
  <2> DEFINE aa == j + 32044
             bb == (4 * aa + 3) \div 146097
             cc == aa - (bb * 146097) \div 4
             dd == (4 * cc + 3) \div 1461
             ee == cc - (1461 * dd) \div 4
             mm == (5 * ee + 2) \div 153
  <2>2. getYearMonthDay(j) = [year |-> bb * 100 + dd - 4800 + mm \div 10,
                              month |-> mm + 3 - 12 * (mm \div 10),
                              day |-> ee - (153 * mm + 2) \div 5 + 1]
    BY SMT DEF getYearMonthDay
  <2>3. aa = a
    BY <1>1, SMT
  <2> HIDE DEF aa
  <2>4. bb = b
    BY <2>1, <2>3, SMT DEF PartB
  <2> HIDE DEF bb
  <2>5. cc = c
    BY <2>1, <2>3, <2>4, SMT DEF PartC
  <2> HIDE DEF cc
  <2>6. dd = d
    BY <2>1, <2>5, SMT DEF PartD
  <2> HIDE DEF dd
  <2>7. ee = e
    BY <2>1, <2>5, <2>6, SMT DEF PartE
  <2> HIDE DEF ee
  <2>8. mm = m
    BY <2>1, <2>7, SMT DEF PartM
  <2> HIDE DEF mm
  <2> QED BY <1>3, <1>4, <1>5, <2>2, <2>4, <2>6, <2>7, <2>8, SMT
<1>7. r \in [year : Int, month : 1..12, day : Int]
  BY <1>3, <1>5, SMT
<1>10. getJulianDayNumber(r) = D + x + YearDays(100 * b + d) - 32045
  <2>1. M \in 1..12 /\ (n = 1 <=> M <= 2)
    BY <1>3, <1>5, SMT
  <2>2. getJulianDayNumber(r) =
           D + (153 * (M + 12 * n - 3) + 2) \div 5 + YearDays(Y + 4800 - n) - 32045
    BY <2>1, NumberIs, SMT
  <2>3. M + 12 * n - 3 = m /\ Y + 4800 - n = 100 * b + d
    BY <1>5, SMT
  <2> QED BY <1>4, <2>2, <2>3, SMT
<1>11. a = e + YearDays(100 * b + d)
  BY <1>2, SMT DEF DaysTo
<1>12. YearDays(100 * b + d) \in Int
  BY SMT DEF YearDays
<1>13. getJulianDayNumber(r) = j
  BY <1>1, <1>5, <1>10, <1>11, <1>12, SMT
<1> HIDE DEF r
<1> QED BY <1>6, <1>7, <1>13, SMT

\* A date of the calendar.
IsDate(r) ==
  /\ r \in [year : Int, month : 1..12, day : 1..31]
  /\ r.day <= DaysIn(r.year, r.month)

\* The months from March on: the days before month m.
LEMMA MonthDays ==
  ASSUME NEW m \in 0..11
  PROVE  (153 * m + 2) \div 5 =
           CASE m = 0 -> 0 [] m = 1 -> 31 [] m = 2 -> 61 [] m = 3 -> 92 [] m = 4 -> 122
             [] m = 5 -> 153 [] m = 6 -> 184 [] m = 7 -> 214 [] m = 8 -> 245
             [] m = 9 -> 275 [] m = 10 -> 306 [] m = 11 -> 337
BY SMT

\* The parts of a date of the calendar are those of its number.
LEMMA DateNumberDate ==
  ASSUME NEW r, IsDate(r)
  PROVE  getYearMonthDay(getJulianDayNumber(r)) = r
<1>1. PICK Y \in Int, M \in 1..12, D \in 1..31 :
        r = [year |-> Y, month |-> M, day |-> D] /\ D <= DaysIn(Y, M)
  <2>1. r \in [year : Int, month : 1..12, day : 1..31] /\ r.day <= DaysIn(r.year, r.month)
    BY DEF IsDate
  <2>2. r = [year |-> r.year, month |-> r.month, day |-> r.day]
    BY <2>1
  <2> QED BY <2>1, <2>2
<1>2. PICK n \in 0..1 : n = (14 - M) \div 12 /\ (n = 1 <=> M <= 2)
  BY SMT
<1>3. PICK y \in Int : y = Y + 4800 - n
  BY SMT
<1>4. PICK m \in 0..11 : m = M + 12 * n - 3
  BY <1>2, SMT
<1>5. PICK x \in Int : x = (153 * m + 2) \div 5
  BY SMT
<1>6. PICK j \in Int : j = getJulianDayNumber(r) /\ j = D + x + YearDays(y) - 32045
  <2>1. getJulianDayNumber(r) = D + x + YearDays(y) - 32045
    BY <1>1, <1>2, <1>3, <1>4, <1>5, SMT DEF getJulianDayNumber, YearDays
  <2>2. D + x + YearDays(y) - 32045 \in Int
    BY SMT DEF YearDays
  <2> QED BY <2>1, <2>2, SMT
\* century and year
<1>7. PICK b \in Int, s \in 0..99 : y = 100 * b + s
  <2>1. y \div 100 \in Int /\ y - 100 * (y \div 100) \in 0..99
    BY SMT
  <2> QED BY <2>1, SMT
<1>8. PICK p \in Int, q \in Int : /\ p = b \div 4 /\ 4 * p <= b /\ b <= 4 * p + 3
                                  /\ q = s \div 4 /\ 4 * q <= s /\ s <= 4 * q + 3
  BY SMT
<1>9. YearDays(y) = 36524 * b + p + 365 * s + q
  BY <1>7, <1>8, YearDaysIs, SMT
\* the day of the year
<1>10. PICK e \in Int : e = D - 1 + x
  BY SMT
<1>11. /\ e \in 0..365 /\ m = (5 * e + 2) \div 153
       /\ e = 365 => m = 11 /\ D = 29 /\ n = 1 /\ IsLeap(Y)
  <2>1. /\ M \in {4, 6, 9, 11} => D <= 30
        /\ M = 2 => D <= 29 /\ (D = 29 => IsLeap(Y))
    <3>1. CASE M \in {4, 6, 9, 11}
      BY <1>1, <3>1, SMT DEF DaysIn
    <3>2. CASE M = 2
      <4>1. DaysIn(Y, M) = IF IsLeap(Y) THEN 29 ELSE 28
        BY <3>2, SMT DEF DaysIn
      <4> QED BY <1>1, <3>2, <4>1, SMT
    <3> QED BY <3>1, <3>2, SMT
  <2>2. /\ m = 0 => x = 0 /\ M = 3 /\ n = 0
        /\ m = 1 => x = 31 /\ M = 4 /\ n = 0
        /\ m = 2 => x = 61 /\ M = 5 /\ n = 0
        /\ m = 3 => x = 92 /\ M = 6 /\ n = 0
        /\ m = 4 => x = 122 /\ M = 7 /\ n = 0
        /\ m = 5 => x = 153 /\ M = 8 /\ n = 0
        /\ m = 6 => x = 184 /\ M = 9 /\ n = 0
        /\ m = 7 => x = 214 /\ M = 10 /\ n = 0
        /\ m = 8 => x = 245 /\ M = 11 /\ n = 0
        /\ m = 9 => x = 275 /\ M = 12 /\ n = 0
        /\ m = 10 => x = 306 /\ M = 1 /\ n = 1
        /\ m = 11 => x = 337 /\ M = 2 /\ n = 1
    BY <1>2, <1>4, <1>5, SMT
  <2>3. /\ 153 * m <= 5 * e + 2 /\ 5 * e + 2 < 153 * m + 153
        /\ 0 <= e /\ e <= 365 /\ (e = 365 => m = 11 /\ D = 29 /\ n = 1 /\ M = 2)
    <3>1. CASE m \in 0..3
      BY <1>10, <2>1, <2>2, <3>1, SMT
    <3>2. CASE m \in 4..7
      BY <1>10, <2>1, <2>2, <3>2, SMT
    <3>3. CASE m \in 8..11
      BY <1>10, <2>1, <2>2, <3>3, SMT
    <3> QED BY <3>1, <3>2, <3>3, SMT
  <2>4. m = (5 * e + 2) \div 153
    BY <2>3, SMT
  <2>5. e = 365 => IsLeap(Y)
    BY <2>1, <2>3, SMT
  <2> QED BY <2>3, <2>4, <2>5, SMT
<1>12. e = 365 => s = 4 * q + 3 /\ (s = 99 => b = 4 * p + 3)
  BY <1>3, <1>7, <1>8, <1>11, SMT DEF IsLeap
<1>13. PICK c \in Int : c = e + 365 * s + q
  BY SMT
<1>14. PICK a \in Int : a = j + 32044 /\ a = c + 36524 * b + p
  BY <1>6, <1>9, <1>10, <1>13, SMT
<1>15. s = (4 * c + 3) \div 1461
  BY <1>8, <1>11, <1>12, <1>13, SMT
<1>16. b = (4 * a + 3) \div 146097
  BY <1>8, <1>11, <1>12, <1>13, <1>14, SMT
<1>17. c = a - (b * 146097) \div 4 /\ e = c - (1461 * s) \div 4
  BY <1>8, <1>13, <1>14, YearDaysIs, SMT
<1>18. n = m \div 10
  BY <1>2, <1>4, SMT
<1>19. getYearMonthDay(j) = [year |-> b * 100 + s - 4800 + n, month |-> m + 3 - 12 * n, day |-> e - x + 1]
  <2> DEFINE aa == j + 32044
             bb == (4 * aa + 3) \div 146097
             cc == aa - (bb * 146097) \div 4
             dd == (4 * cc + 3) \div 1461
             ee == cc - (1461 * dd) \div 4
             mm == (5 * ee + 2) \div 153
  <2>2. getYearMonthDay(j) = [year |-> bb * 100 + dd - 4800 + mm \div 10,
                              month |-> mm + 3 - 12 * (mm \div 10),
                              day |-> ee - (153 * mm + 2) \div 5 + 1]
    BY SMT DEF getYearMonthDay
  <2>3. aa = a
    BY <1>14, SMT
  <2> HIDE DEF aa
  <2>4. bb = b
    BY <1>16, <2>3, SMT
  <2> HIDE DEF bb
  <2>5. cc = c
    BY <1>17, <2>3, <2>4, SMT
  <2> HIDE DEF cc
  <2>6. dd = s
    BY <1>15, <2>5, SMT
  <2> HIDE DEF dd
  <2>7. ee = e
    BY <1>17, <2>5, <2>6, SMT
  <2> HIDE DEF ee
  <2>8. mm = m
    BY <1>11, <2>7, SMT
  <2> HIDE DEF mm
  <2> QED BY <1>5, <1>18, <2>2, <2>4, <2>6, <2>7, <2>8, SMT
<1>20. b * 100 + s - 4800 + n = Y /\ m + 3 - 12 * n = M /\ e - x + 1 = D
  BY <1>3, <1>4, <1>7, <1>10, SMT
<1> QED BY <1>1, <1>6, <1>19, <1>20, SMT

\* A year that ends with the February of year z is a day longer when z is leap.
LEMMA YearLength ==
  ASSUME NEW z \in Int
  PROVE  YearDays(z) = YearDays(z - 1) + (IF IsLeap(z) THEN 366 ELSE 365)
<1>1. z \div 4 - (z - 1) \div 4 = IF z % 4 = 0 THEN 1 ELSE 0
  BY SMT
<1>2. z \div 100 - (z - 1) \div 100 = IF z % 100 = 0 THEN 1 ELSE 0
  BY SMT
<1>3. z \div 400 - (z - 1) \div 400 = IF z % 400 = 0 THEN 1 ELSE 0
  BY SMT
<1>4. (z % 400 = 0 => z % 100 = 0) /\ (z % 100 = 0 => z % 4 = 0)
  BY SMT
<1>5. PICK p \in Int, q \in Int, r \in Int, p1 \in Int, q1 \in Int, r1 \in Int :
        /\ p = z \div 4 /\ q = z \div 100 /\ r = z \div 400
        /\ p1 = (z - 1) \div 4 /\ q1 = (z - 1) \div 100 /\ r1 = (z - 1) \div 400
  BY SMT
<1>6. YearDays(z) = z * 365 + p - q + r /\ YearDays(z - 1) = (z - 1) * 365 + p1 - q1 + r1
  BY <1>5, SMT DEF YearDays
<1>7. (p - p1) - (q - q1) + (r - r1) = IF IsLeap(z) THEN 1 ELSE 0
  BY <1>1, <1>2, <1>3, <1>4, <1>5, SMT DEF IsLeap
<1> QED BY <1>6, <1>7, SMT

\* 4800 years are a whole number of 400.
LEMMA LeapShift ==
  ASSUME NEW z \in Int
  PROVE  IsLeap(z + 4800) <=> IsLeap(z)
<1>1. (z + 4800) % 4 = z % 4 /\ (z + 4800) % 100 = z % 100 /\ (z + 4800) % 400 = z % 400
  BY SMT
<1> QED BY <1>1, SMT DEF IsLeap

\* The day after a date, as NextDay walks.
DayAfter(r) ==
  IF r.day < DaysIn(r.year, r.month) THEN [r EXCEPT !.day = @ + 1]
  ELSE IF r.month < 12 THEN [r EXCEPT !.day = 1, !.month = @ + 1]
  ELSE [year |-> r.year + 1, month |-> 1, day |-> 1]

\* The lengths of the months.
LEMMA MonthLengths ==
  ASSUME NEW Y \in Int, NEW M \in 1..12
  PROVE  /\ M \in {4, 6, 9, 11} => DaysIn(Y, M) = 30
         /\ M \in {1, 3, 5, 7, 8, 10, 12} => DaysIn(Y, M) = 31
         /\ M = 2 => DaysIn(Y, M) = IF IsLeap(Y) THEN 29 ELSE 28
         /\ DaysIn(Y, M) \in 28..31
<1>1. CASE M \in {4, 6, 9, 11}
  BY <1>1, SMT DEF DaysIn
<1>2. CASE M = 2
  <2>1. DaysIn(Y, M) = IF IsLeap(Y) THEN 29 ELSE 28
    BY <1>2, SMT DEF DaysIn
  <2> QED BY <1>2, <2>1, SMT
<1>3. CASE M \in {1, 3, 5, 7, 8, 10, 12}
  BY <1>3, SMT DEF DaysIn
<1> QED BY <1>1, <1>2, <1>3, SMT

\* The number of the day after is the next number.
LEMMA DayAfterNumber ==
  ASSUME NEW r, IsDate(r)
  PROVE  IsDate(DayAfter(r)) /\ getJulianDayNumber(DayAfter(r)) = getJulianDayNumber(r) + 1
<1>1. PICK Y \in Int, M \in 1..12, D \in 1..31 :
        r = [year |-> Y, month |-> M, day |-> D] /\ D <= DaysIn(Y, M)
  <2>1. r \in [year : Int, month : 1..12, day : 1..31] /\ r.day <= DaysIn(r.year, r.month)
    BY DEF IsDate
  <2>2. r = [year |-> r.year, month |-> r.month, day |-> r.day]
    BY <2>1
  <2> QED BY <2>1, <2>2
<1>2. PICK N \in 28..31 : N = DaysIn(Y, M)
  BY MonthLengths, SMT
<1>3. PICK n \in 0..1 : n = 1 <=> M <= 2
  <2>1. CASE M <= 2
    BY <2>1, SMT
  <2>2. CASE ~(M <= 2)
    BY <2>2, SMT
  <2> QED BY <2>1, <2>2
<1>4. PICK x \in Int : x = (153 * (M + 12 * n - 3) + 2) \div 5
  BY SMT
<1>5. PICK w \in Int : w = YearDays(Y + 4800 - n)
  BY SMT DEF YearDays
<1>6. getJulianDayNumber(r) = D + x + w - 32045
  <2>1. getJulianDayNumber(r) =
           D + (153 * (M + 12 * n - 3) + 2) \div 5 + YearDays(Y + 4800 - n) - 32045
    BY <1>1, <1>3, NumberIs, SMT
  <2> QED BY <1>4, <1>5, <2>1, SMT
<1>7. r.year = Y /\ r.month = M /\ r.day = D
  BY <1>1
<1>8. CASE D < N
  <2>1. DayAfter(r) = [year |-> Y, month |-> M, day |-> D + 1]
    BY <1>1, <1>2, <1>7, <1>8, SMT DEF DayAfter
  <2>2. getJulianDayNumber([year |-> Y, month |-> M, day |-> D + 1]) =
          D + 1 + (153 * (M + 12 * n - 3) + 2) \div 5 + YearDays(Y + 4800 - n) - 32045
    <3>1. D + 1 \in Int
      BY SMT
    <3> QED BY <1>3, <3>1, NumberIs, SMT
  <2>3. IsDate([year |-> Y, month |-> M, day |-> D + 1])
    BY <1>2, <1>8, SMT DEF IsDate
  <2> QED BY <1>4, <1>5, <1>6, <2>1, <2>2, <2>3, SMT
<1>9. CASE D = N /\ M < 12
  <2>1. DayAfter(r) = [year |-> Y, month |-> M + 1, day |-> 1]
    <3>1. DayAfter(r) = [r EXCEPT !.day = 1, !.month = @ + 1]
      BY <1>2, <1>7, <1>9, SMT DEF DayAfter
    <3>2. PICK q : q = [r EXCEPT !.day = 1]
      OBVIOUS
    <3>3. q = [year |-> Y, month |-> M, day |-> 1]
      BY <1>1, <3>2, SMT
    <3>4. [q EXCEPT !.month = M + 1] = [year |-> Y, month |-> M + 1, day |-> 1]
      BY <3>3, SMT
    <3>5. DayAfter(r) = [q EXCEPT !.month = M + 1]
      BY <1>7, <3>1, <3>2, Zenon
    <3> QED BY <3>4, <3>5, Zenon
  <2>2. IsDate([year |-> Y, month |-> M + 1, day |-> 1])
    <3>1. M + 1 \in 1..12
      BY <1>9, SMT
    <3>2. DaysIn(Y, M + 1) \in 28..31
      BY <3>1, MonthLengths, SMT
    <3> QED BY <3>1, <3>2, SMT DEF IsDate
  <2>3. CASE M = 2
    <3>1. getJulianDayNumber([year |-> Y, month |-> M + 1, day |-> 1]) =
            1 + (153 * (M + 1 + 12 * 0 - 3) + 2) \div 5 + YearDays(Y + 4800 - 0) - 32045
      <4>1. M + 1 \in 1..12 /\ 0 \in 0..1 /\ 1 \in Int /\ (0 = 1 <=> M + 1 <= 2)
        BY <2>3, SMT
      <4> HIDE <2>3
      <4> QED BY <4>1, NumberIs, SMT
    <3>2. n = 1 /\ x = 337 /\ (153 * (M + 1 + 12 * 0 - 3) + 2) \div 5 = 0
      BY <1>3, <1>4, <2>3, SMT
    <3>3. PICK z \in Int : z = Y + 4800
      BY SMT
    <3>4. YearDays(z) = YearDays(z - 1) + (IF IsLeap(z) THEN 366 ELSE 365)
      BY YearLength, SMT
    <3>5. D = IF IsLeap(z) THEN 29 ELSE 28
      <4>1. IsLeap(z) <=> IsLeap(Y)
        BY <3>3, LeapShift
      <4>2. DaysIn(Y, M) = IF IsLeap(Y) THEN 29 ELSE 28
        BY <2>3, MonthLengths, SMT
      <4> QED BY <1>2, <1>9, <4>1, <4>2, SMT
    <3>6. z - 1 = Y + 4800 - n /\ z = Y + 4800 - 0
      BY <3>2, <3>3, SMT
    <3>7. YearDays(Y + 4800 - 0) = w + (IF IsLeap(z) THEN 366 ELSE 365)
      BY <1>5, <3>4, <3>6, SMT
    <3>8. getJulianDayNumber([year |-> Y, month |-> M + 1, day |-> 1]) = getJulianDayNumber(r) + 1
      BY <1>6, <3>1, <3>2, <3>5, <3>7, SMT
    <3> QED BY <2>1, <2>2, <3>8, SMT
  <2>4. CASE M # 2
    <3>1. getJulianDayNumber([year |-> Y, month |-> M + 1, day |-> 1]) =
            1 + (153 * (M + 1 + 12 * n - 3) + 2) \div 5 + YearDays(Y + 4800 - n) - 32045
      <4>1. M + 1 \in 1..12 /\ 1 \in Int /\ (n = 1 <=> M + 1 <= 2)
        BY <1>3, <1>9, <2>4, SMT
      <4> QED BY <4>1, NumberIs, SMT
    <3>2. (153 * (M + 1 + 12 * n - 3) + 2) \div 5 = x + D
      <4>1. /\ M \in {4, 6, 9, 11} => D = 30
            /\ M \in {1, 3, 5, 7, 8, 10} => D = 31
        BY <1>2, <1>9, MonthLengths, SMT
      <4> QED BY <1>3, <1>4, <1>9, <2>4, <4>1, SMT
    <3>3. getJulianDayNumber([year |-> Y, month |-> M + 1, day |-> 1]) = getJulianDayNumber(r) + 1
      BY <1>5, <1>6, <3>1, <3>2, SMT
    <3> QED BY <2>1, <2>2, <3>3, SMT
  <2> QED BY <2>3, <2>4
<1>10. CASE D = N /\ M = 12
  <2>1. DayAfter(r) = [year |-> Y + 1, month |-> 1, day |-> 1]
    BY <1>1, <1>2, <1>7, <1>10, SMT DEF DayAfter
  <2>2. IsDate([year |-> Y + 1, month |-> 1, day |-> 1])
    <3>1. Y + 1 \in Int /\ 1 \in 1..12
      BY SMT
    <3>2. DaysIn(Y + 1, 1) \in 28..31
      BY <3>1, MonthLengths, SMT
    <3> QED BY <3>1, <3>2, SMT DEF IsDate
  <2>3. getJulianDayNumber([year |-> Y + 1, month |-> 1, day |-> 1]) =
          1 + (153 * (1 + 12 * 1 - 3) + 2) \div 5 + YearDays(Y + 1 + 4800 - 1) - 32045
    <3>1. Y + 1 \in Int /\ 1 \in 1..12 /\ 1 \in Int /\ 1 \in 0..1 /\ (1 = 1 <=> 1 <= 2)
      BY SMT
    <3> QED BY <3>1, NumberIs, SMT
  <2>4. n = 0 /\ x = 275 /\ D = 31 /\ (153 * (1 + 12 * 1 - 3) + 2) \div 5 = 306
    BY <1>2, <1>3, <1>4, <1>10, MonthLengths, SMT
  <2>5. Y + 1 + 4800 - 1 = Y + 4800 - n
    BY <2>4, SMT
  <2>6. getJulianDayNumber([year |-> Y + 1, month |-> 1, day |-> 1]) = getJulianDayNumber(r) + 1
    BY <1>5, <1>6, <2>3, <2>4, <2>5, SMT
  <2> QED BY <2>1, <2>2, <2>6, SMT
<1> QED BY <1>1, <1>2, <1>8, <1>9, <1>10, SMT

\* t is second s of day d.
IsSplit(t, s, d) ==
  SecondsAndDays(t) = <<s, d>> /\ t = 86400 * d + s /\ 0 <= s /\ s < 86400

\* Seconds of the day and days put together give the time.
LEMMA TimeIsSplit ==
  ASSUME NEW t \in Int
  PROVE  \E s \in Int, d \in Int : IsSplit(t, s, d)
<1>1. kSecondsPerDay = 86400
  BY SMT DEF kSecondsPerDay
<1>2. PICK q \in Int : q = TruncatedDiv(t, 86400)
  BY SMT DEF TruncatedDiv
<1>3. PICK r \in Int : r = TruncatedMod(t, 86400) /\ r = t - 86400 * q
  BY <1>2, SMT DEF TruncatedMod
<1>4. r < 0 => t < 0
  BY <1>2, <1>3, SMT DEF TruncatedDiv
<1>5. r < 86400 /\ r > -86400
  BY <1>2, <1>3, SMT DEF TruncatedDiv
<1>6. CASE r < 0
  <2>1. SecondsAndDays(t) = <<r + 86400, q - 1>>
    BY <1>1, <1>2, <1>3, <1>6, SMT DEF SecondsAndDays
  <2>2. r + 86400 \in Int /\ 0 <= r + 86400 /\ r + 86400 < 86400 /\ q - 1 \in Int /\ t = 86400 * (q - 1) + (r + 86400)
    BY <1>3, <1>5, <1>6, SMT
  <2>3. IsSplit(t, r + 86400, q - 1)
    BY <2>1, <2>2, SMT DEF IsSplit
  <2> QED BY <2>2, <2>3, SMT
<1>7. CASE r >= 0
  <2>1. SecondsAndDays(t) = <<r, q>>
    BY <1>1, <1>2, <1>3, <1>7, SMT DEF SecondsAndDays
  <2>2. 0 <= r /\ r < 86400 /\ t = 86400 * q + r
    BY <1>3, <1>5, <1>7, SMT
  <2>3. IsSplit(t, r, q)
    BY <2>1, <2>2, SMT DEF IsSplit
  <2> QED BY <2>3, SMT
<1> QED BY <1>6, <1>7, SMT

\* The epoch has the number the walk starts with.
LEMMA EpochNumber == kJulianDayOf1970_01_01 = 2440588
<1>1. PICK Y \in Int : Y = 1970
  BY SMT
<1>2. getJulianDayNumber([year |-> Y, month |-> 1, day |-> 1]) =
        1 + (153 * (1 + 12 * 1 - 3) + 2) \div 5 + YearDays(Y + 4800 - 1) - 32045
  <2>1. 1 \in 1..12 /\ 1 \in Int /\ 1 \in 0..1 /\ (1 = 1 <=> 1 <= 2)
    BY SMT
  <2> QED BY <2>1, NumberIs, SMT
<1>3. YearDays(Y + 4800 - 1) = 2472326
  BY <1>1, SMT DEF YearDays
<1>4. getJulianDayNumber([year |-> Y, month |-> 1, day |-> 1]) = 2440588
  BY <1>2, <1>3, SMT
<1> QED BY <1>1, <1>4, SMT DEF kJulianDayOf1970_01_01

\* A time broken down and put together again is the same time.
LEMMA BreakRoundTrip ==
  ASSUME NEW t \in Int
  PROVE  fromUtcTime(BreakTime(t)) = t
<1>1. PICK s \in Int, d \in Int : IsSplit(t, s, d)
  BY TimeIsSplit, Zenon
<1>2. PICK j \in Int : j = d + kJulianDayOf1970_01_01
  BY EpochNumber, SMT
<1>3. PICK g : g = getYearMonthDay(j)
  OBVIOUS
<1>4. getJulianDayNumber(g) = j
  BY <1>3, NumberDateNumber, Zenon
<1>5. PICK f : f = fillHMS(s)
  OBVIOUS
<1>6. f.hour = s \div 3600 /\ f.minute = (s \div 60) % 60 /\ f.second = s % 60
  BY <1>5, Zenon DEF fillHMS
<1>7. f.hour * 3600 + f.minute * 60 + f.second = s
  <2>1. PICK h \in Int, m \in Int : h = s \div 3600 /\ m = s \div 60
    BY SMT
  <2>2. m \div 60 = h
    BY <2>1, SMT
  <2>3. m = 60 * h + (m % 60) /\ s = 60 * m + (s % 60)
    BY <2>1, <2>2, SMT
  <2> QED BY <1>6, <2>1, <2>3, SMT
<1>8. f.hour \in Int /\ f.minute \in Int /\ f.second \in Int
  BY <1>6, SMT
<1>9. PICK b : b = BreakTime(t)
  OBVIOUS
<1>10. b = [date |-> g, time |-> f]
  <2>1. PICK sd : sd = SecondsAndDays(t) /\ sd[1] = s /\ sd[2] = d
    BY <1>1, SMT DEF IsSplit
  <2> QED BY <1>2, <1>3, <1>5, <1>9, <2>1, Zenon DEF BreakTime
<1>11. b.date = g /\ b.time = f
  BY <1>10, Zenon
<1>12. fromUtcTime(b) = (j - kJulianDayOf1970_01_01) * 86400 + f.hour * 3600 + f.minute * 60 + f.second
  BY <1>4, <1>11, SMT DEF fromUtcTime, kSecondsPerDay
<1>13. (j - kJulianDayOf1970_01_01) * 86400 = 86400 * d
  BY <1>2, EpochNumber, SMT
<1>14. PICK h \in Int, m \in Int : h = f.hour * 3600 /\ m = f.minute * 60
  BY <1>8, SMT
<1>15. h + m + f.second = s
  BY <1>7, <1>14, SMT
<1>16. fromUtcTime(b) = 86400 * d + h + m + f.second
  BY <1>12, <1>13, <1>14, SMT
<1>17. t = 86400 * d + s
  BY <1>1, SMT DEF IsSplit
<1> QED BY <1>8, <1>9, <1>15, <1>16, <1>17, SMT

\* The search has a result, and it is the only one.
IsUpperBound(times, t, i) ==
  /\ i \in 1..Len(times) + 1
  /\ i <= Len(times) => t < times[i]
  /\ \A j \in 1..i - 1 : times[j] <= t

\* The search ends on an element or past the end.
LEMMA UpperBoundExists ==
  ASSUME NEW times \in Seq(Int), NEW t \in Int
  PROVE  \E i \in 1..Len(times) + 1 : IsUpperBound(times, t, i)
<1>1. PICK n \in Nat : n = Len(times)
  BY SMT
<1> DEFINE T == {i \in 1..n + 1 : i <= n => t < times[i]}
<1>2. T \subseteq Nat /\ n + 1 \in T
  BY SMT
<1> HIDE DEF T
<1>3. PICK i \in T : \A y \in T : i <= y
  BY <1>2, LeastNat, Zenon
<1> USE DEF T
<1>4. i \in 1..n + 1 /\ (i <= n => t < times[i])
  BY <1>3, SMT
<1>5. ASSUME NEW j \in 1..i - 1 PROVE times[j] <= t
  <2>1. j \in 1..n /\ times[j] \in Int
    BY <1>1, <1>4, SMT
  <2>2. j \notin T
    <3> HIDE DEF T
    <3> QED BY <1>3, <1>4, SMT
  <2> QED BY <2>1, <2>2, SMT
<1> QED BY <1>1, <1>4, <1>5, SMT DEF IsUpperBound

\* The search has one result.
LEMMA UpperBoundIs ==
  ASSUME NEW times \in Seq(Int), NEW t \in Int, NEW i, IsUpperBound(times, t, i)
  PROVE  UpperBound(times, t) = i
<1>1. \E k \in 1..Len(times) + 1 : IsUpperBound(times, t, k)
  BY UpperBoundExists, Zenon
<1>2. PICK k : k = UpperBound(times, t)
  OBVIOUS
<1>3. k \in 1..Len(times) + 1 /\ IsUpperBound(times, t, k)
  <2>1. UpperBound(times, t) = CHOOSE h \in 1..Len(times) + 1 : IsUpperBound(times, t, h)
    <3>1. \A h \in 1..Len(times) + 1 :
            IsUpperBound(times, t, h) <=>
              ((h <= Len(times) => t < times[h]) /\ \A j \in 1..h - 1 : times[j] <= t)
      BY Zenon DEF IsUpperBound
    <3> QED BY <3>1, Zenon DEF UpperBound
  <2> QED BY <1>1, <1>2, <2>1, Zenon
<1>4. PICK n \in Nat : n = Len(times) /\ \A j \in 1..n : times[j] \in Int
  BY SMT
<1>5. ~(i < k) /\ ~(k < i) /\ i \in Int /\ k \in Int
  BY <1>3, <1>4, SMT DEF IsUpperBound
<1> QED BY <1>2, <1>5, SMT

\* The zone by its changes of offset 1..Changes: the moment of each, the offset
\* from it on (0: before all of them), the local time it ends and the last local
\* time before it.
Changes == Len(zone.transitions)
MomentOf(i) == zone.transitions[i].utctime
OffsetFrom(i) == IF i = 0 THEN zone.localtimes[1] ELSE OffsetAt(i)
LocalFrom(i) == zone.transitions[i].localtime
LastBefore(i) == MomentOf(i) - 1 + OffsetFrom(i - 1)

InOrder(i, j) ==
  /\ MomentOf(i) < MomentOf(j)
  /\ LastBefore(i) < LastBefore(j) /\ LastBefore(i) < LocalFrom(j)
  /\ LocalFrom(i) < LastBefore(j) /\ LocalFrom(i) < LocalFrom(j)

ZoneInOrder ==
  /\ Changes \in Nat
  /\ \A i \in 1..Changes : /\ MomentOf(i) \in Int /\ LocalFrom(i) \in Int
                           /\ LocalFrom(i) = MomentOf(i) + OffsetFrom(i)
  /\ \A i \in 0..Changes : /\ OffsetFrom(i) \in Int
                           /\ \E h \in DOMAIN zone.localtimes : OffsetFrom(i) = zone.localtimes[h]
  /\ \A h \in DOMAIN zone.localtimes : zone.localtimes[h] \in Int
  /\ \A i, j \in 1..Changes : i < j => InOrder(i, j)
  /\ UtcTimes \in Seq(Int) /\ Len(UtcTimes) = Changes
  /\ LocalTimes \in Seq(Int) /\ Len(LocalTimes) = Changes
  /\ \A i \in 1..Changes : UtcTimes[i] = MomentOf(i) /\ LocalTimes[i] = LocalFrom(i)

\* Moment c is after change s and before the next one.
InSegment(s, c) ==
  (s > 0 => MomentOf(s) <= c) /\ (s < Changes => c < MomentOf(s + 1))

\* The moments between two changes have the offset of the first.
LEMMA SegmentIs ==
  ASSUME ZoneInOrder, NEW c \in Int, NEW s \in 0..Changes, InSegment(s, c)
  PROVE  UpperBound(UtcTimes, c) = s + 1 /\ findLocalTime(c) = OffsetFrom(s)
<1>1. Changes \in Nat /\ UtcTimes \in Seq(Int) /\ Len(UtcTimes) = Changes
  BY DEF ZoneInOrder
<1>2. ASSUME NEW j \in 1..s PROVE MomentOf(j) <= c
  <2>1. MomentOf(j) \in Int /\ MomentOf(s) \in Int /\ MomentOf(s) <= c
    BY <1>1, SMT DEF ZoneInOrder, InSegment
  <2>2. j < s => MomentOf(j) < MomentOf(s)
    BY <1>1, SMT DEF ZoneInOrder, InOrder
  <2>3. CASE j < s
    BY <2>1, <2>2, <2>3, SMT
  <2>4. CASE j = s
    BY <2>1, <2>4
  <2> QED BY <2>3, <2>4, SMT
<1>3. IsUpperBound(UtcTimes, c, s + 1)
  <2>1. s + 1 \in 1..Changes + 1
    BY <1>1, SMT
  <2>2. s + 1 <= Changes => c < UtcTimes[s + 1]
    BY <1>1, SMT DEF ZoneInOrder, InSegment
  <2>3. \A j \in 1..(s + 1) - 1 : UtcTimes[j] <= c
    <3>1. ASSUME NEW j \in 1..s PROVE UtcTimes[j] <= c
      BY <1>1, <1>2, SMT DEF ZoneInOrder
    <3> QED BY <1>1, <3>1, SMT
  <2> QED BY <1>1, <2>1, <2>2, <2>3, SMT DEF IsUpperBound
<1>4. UpperBound(UtcTimes, c) = s + 1
  BY <1>1, <1>3, UpperBoundIs, SMT
<1>5. findLocalTime(c) = OffsetFrom(s)
  <2>1. findLocalTime(c) = IF s + 1 = 1 THEN zone.localtimes[1] ELSE OffsetAt((s + 1) - 1)
    BY <1>4, SMT DEF findLocalTime
  <2>2. s \in Nat /\ (s + 1) - 1 = s /\ (s + 1 = 1 <=> s = 0)
    BY <1>1, SMT
  <2> QED BY <2>1, <2>2, Zenon DEF OffsetFrom
<1> QED BY <1>4, <1>5

\* Every moment is between two changes, before the first or after the last.
LEMMA SegmentOf ==
  ASSUME ZoneInOrder, NEW c \in Int
  PROVE  \E s \in 0..Changes : InSegment(s, c)
<1>1. Changes \in Nat /\ UtcTimes \in Seq(Int) /\ Len(UtcTimes) = Changes
  BY DEF ZoneInOrder
<1>2. PICK i \in 1..Len(UtcTimes) + 1 : IsUpperBound(UtcTimes, c, i)
  BY <1>1, UpperBoundExists, Zenon
<1>3. PICK s \in 0..Changes : i = s + 1
  BY <1>1, <1>2, SMT
<1>4. s > 0 => MomentOf(s) <= c
  <2>1. s > 0 => UtcTimes[s] <= c
    BY <1>1, <1>2, <1>3, SMT DEF IsUpperBound
  <2>2. s > 0 => UtcTimes[s] = MomentOf(s)
    BY <1>1, SMT DEF ZoneInOrder
  <2> QED BY <2>1, <2>2, Zenon
<1>5. s < Changes => c < MomentOf(s + 1)
  <2>1. s < Changes => c < UtcTimes[s + 1]
    BY <1>1, <1>2, <1>3, SMT DEF IsUpperBound
  <2>2. s < Changes => UtcTimes[s + 1] = MomentOf(s + 1)
    BY <1>1, SMT DEF ZoneInOrder
  <2> QED BY <2>1, <2>2, Zenon
<1> QED BY <1>4, <1>5, Zenon DEF InSegment

\* Local time x is shown after change s, before the next one.
ShownBy(s, x) == InSegment(s, x - OffsetFrom(s))

\* The moments at which clocks show local time x, by the change before them.
LEMMA ShowsIs ==
  ASSUME ZoneInOrder, NEW x \in Int, NEW u
  PROVE  u \in Shows(BreakTime(x)) <=>
           \E s \in 0..Changes : ShownBy(s, x) /\ u = x - OffsetFrom(s)
<1>1. \A h \in DOMAIN zone.localtimes : zone.localtimes[h] \in Int
  BY DEF ZoneInOrder
<1>2. \A i \in 0..Changes : /\ OffsetFrom(i) \in Int
                            /\ \E h \in DOMAIN zone.localtimes : OffsetFrom(i) = zone.localtimes[h]
  BY DEF ZoneInOrder
<1>3. fromUtcTime(BreakTime(x)) = x
  BY BreakRoundTrip
<1>4. u \in Shows(BreakTime(x)) <=>
        /\ \E h \in DOMAIN zone.localtimes : u = x - zone.localtimes[h]
        /\ toLocalTime(u) = BreakTime(x)
  BY <1>3, Zenon DEF Shows
<1>5. ASSUME u \in Shows(BreakTime(x))
      PROVE  \E s \in 0..Changes : ShownBy(s, x) /\ u = x - OffsetFrom(s)
  <2>1. PICK h \in DOMAIN zone.localtimes : u = x - zone.localtimes[h]
    BY <1>4, <1>5, Zenon
  <2>2. u \in Int
    BY <1>1, <2>1, SMT
  <2>3. PICK s \in 0..Changes : InSegment(s, u)
    BY <2>2, SegmentOf, Zenon
  <2>4. findLocalTime(u) = OffsetFrom(s)
    BY <2>2, <2>3, SegmentIs, Zenon
  <2>5. PICK y \in Int : y = u + OffsetFrom(s)
    BY <1>2, <2>2, SMT
  <2>6. BreakTime(y) = BreakTime(x)
    BY <1>4, <1>5, <2>4, <2>5, Zenon DEF toLocalTime
  <2>7. fromUtcTime(BreakTime(y)) = y
    BY BreakRoundTrip
  <2>8. y = x
    BY <1>3, <2>6, <2>7, Zenon
  <2>9. u = x - OffsetFrom(s)
    BY <1>2, <2>2, <2>5, <2>8, SMT
  <2> QED BY <2>3, <2>9, Zenon DEF ShownBy
<1>6. ASSUME NEW s \in 0..Changes, ShownBy(s, x), u = x - OffsetFrom(s)
      PROVE  u \in Shows(BreakTime(x))
  <2>1. u \in Int /\ u + OffsetFrom(s) = x
    BY <1>2, <1>6, SMT
  <2>2. InSegment(s, u)
    BY <1>6 DEF ShownBy
  <2>3. findLocalTime(u) = OffsetFrom(s)
    BY <2>1, <2>2, SegmentIs, Zenon
  <2>4. toLocalTime(u) = BreakTime(x)
    BY <2>1, <2>3, Zenon DEF toLocalTime
  <2>5. \E h \in DOMAIN zone.localtimes : u = x - zone.localtimes[h]
    BY <1>2, <1>6, Zenon
  <2> QED BY <1>4, <2>4, <2>5, Zenon
<1> QED BY <1>5, <1>6, Zenon

\* Local time x, before change k ends, is shown after change k - 1 unless change

\* k skips it, and also before change k - 1 if that one repeats it.
LEMMA Showing ==
  ASSUME ZoneInOrder, NEW x \in Int, NEW k, IsUpperBound(LocalTimes, x, k),
         NEW s \in 0..Changes
  PROVE  ShownBy(s, x) <=> \/ s = k - 1 /\ (k <= Changes => x <= LastBefore(k))
                           \/ s = k - 2 /\ x <= LastBefore(k - 1)
<1>1. Changes \in Nat /\ LocalTimes \in Seq(Int) /\ Len(LocalTimes) = Changes
  BY DEF ZoneInOrder
<1>2. \A i \in 1..Changes : /\ MomentOf(i) \in Int /\ LocalFrom(i) \in Int
                            /\ LocalFrom(i) = MomentOf(i) + OffsetFrom(i)
                            /\ OffsetFrom(i - 1) \in Int
                            /\ LastBefore(i) = MomentOf(i) - 1 + OffsetFrom(i - 1)
                            /\ LastBefore(i) \in Int
  BY <1>1, SMT DEF ZoneInOrder, LastBefore
<1>3. \A i \in 0..Changes : OffsetFrom(i) \in Int
  BY DEF ZoneInOrder
<1>4. \A i, j \in 1..Changes : i < j => InOrder(i, j)
  BY DEF ZoneInOrder
<1>5. k \in 1..Changes + 1
  BY <1>1, SMT DEF IsUpperBound
<1>6. \A j \in 1..k - 1 : LocalFrom(j) <= x
  BY <1>1, <1>5, SMT DEF IsUpperBound, ZoneInOrder
<1>7. k <= Changes => x < LocalFrom(k)
  BY <1>1, <1>5, SMT DEF IsUpperBound, ZoneInOrder
<1>8. ShownBy(s, x) <=> (s > 0 => LocalFrom(s) <= x) /\ (s < Changes => x <= LastBefore(s + 1))
  <2>1. s > 0 => (MomentOf(s) <= x - OffsetFrom(s) <=> LocalFrom(s) <= x)
    <3>1. s > 0 => s \in 1..Changes
      BY <1>1, SMT
    <3>2. s > 0 => LocalFrom(s) = MomentOf(s) + OffsetFrom(s) /\ MomentOf(s) \in Int
      BY <1>2, <3>1, Zenon
    <3>3. OffsetFrom(s) \in Int
      BY <1>3, Zenon
    <3> QED BY <3>2, <3>3, SMT
  <2>2. s < Changes => (x - OffsetFrom(s) < MomentOf(s + 1) <=> x <= LastBefore(s + 1))
    <3>1. s < Changes => s + 1 \in 1..Changes /\ (s + 1) - 1 = s
      BY <1>1, SMT
    <3>2. s < Changes => LastBefore(s + 1) = MomentOf(s + 1) - 1 + OffsetFrom(s) /\ MomentOf(s + 1) \in Int
      BY <1>2, <3>1, SMT
    <3> QED BY <1>3, <3>2, SMT
  <2> QED BY <2>1, <2>2, Zenon DEF ShownBy, InSegment
<1>9. ASSUME ShownBy(s, x) PROVE s \in {k - 1, k - 2}
  <2>1. ~(s > k - 1)
    <3> SUFFICES ASSUME s > k - 1 PROVE FALSE
      OBVIOUS
    <3>1. k \in 1..Changes /\ s \in 1..Changes /\ k <= s
      BY <1>1, <1>5, SMT
    <3>2. x < LocalFrom(k) /\ LocalFrom(s) <= x
      BY <1>7, <1>8, <1>9, <3>1, SMT
    <3>3. k < s => LocalFrom(k) < LocalFrom(s)
      BY <1>4, <3>1, SMT DEF InOrder
    <3> QED BY <1>2, <3>1, <3>2, <3>3, SMT
  <2>2. ~(s < k - 2)
    <3> SUFFICES ASSUME s < k - 2 PROVE FALSE
      OBVIOUS
    <3>1. s + 1 \in 1..Changes /\ k - 1 \in 1..Changes /\ s + 1 < k - 1 /\ s < Changes
      BY <1>1, <1>5, SMT
    <3>2. x <= LastBefore(s + 1)
      BY <1>8, <1>9, <3>1, SMT
    <3>3. InOrder(s + 1, k - 1)
      BY <1>4, <3>1, SMT
    <3>4. LastBefore(s + 1) < LocalFrom(k - 1)
      BY <3>3, Zenon DEF InOrder
    <3>5. LocalFrom(k - 1) <= x
      BY <1>5, <1>6, <3>1, SMT
    <3> QED BY <1>2, <3>1, <3>2, <3>4, <3>5, SMT
  <2> QED BY <1>1, <1>5, <2>1, <2>2, SMT
<1>10. CASE s = k - 1
  <2>1. s > 0 => LocalFrom(s) <= x
    BY <1>1, <1>5, <1>6, <1>10, SMT
  <2>2. s + 1 = k /\ (s < Changes <=> k <= Changes) /\ s # k - 2
    BY <1>1, <1>5, <1>10, SMT
  <2> QED BY <1>8, <1>10, <2>1, <2>2, Zenon
<1>11. CASE s = k - 2
  <2>1. s + 1 = k - 1 /\ s < Changes /\ s # k - 1
    BY <1>1, <1>5, <1>11, SMT
  <2>2. s > 0 => LocalFrom(s) <= x
    BY <1>1, <1>5, <1>6, <1>11, SMT
  <2> QED BY <1>8, <1>11, <2>1, <2>2, Zenon
<1> QED BY <1>9, <1>10, <1>11, Zenon

\* What the second findLocalTime answers for local time x, before change k.
OffsetAnswers(dt, b, x, k) ==
  /\ k = 1 => findLocalOffset(dt, b) = OffsetFrom(0)
  /\ k > 1 /\ k = Changes + 1 => findLocalOffset(dt, b) = OffsetFrom(Changes)
  /\ k > 1 /\ k <= Changes /\ LastBefore(k) < x =>
       findLocalOffset(dt, b) = IF b THEN OffsetFrom(k) ELSE OffsetFrom(k - 1)
  /\ k > 1 /\ k <= Changes /\ ~(LastBefore(k) < x) =>
       findLocalOffset(dt, b) =
         IF k - 1 > 1 /\ x <= LastBefore(k - 1)
         THEN IF b THEN OffsetFrom(k - 1) ELSE OffsetFrom((k - 1) - 1)
         ELSE OffsetFrom(k - 1)

\* The answers of the second findLocalTime, by its four branches.
LEMMA OffsetOf ==
  ASSUME ZoneInOrder, NEW x \in Int, NEW k, IsUpperBound(LocalTimes, x, k),
         NEW dt, fromUtcTime(dt) = x, NEW b \in BOOLEAN
  PROVE  OffsetAnswers(dt, b, x, k)
<1> USE DEF OffsetAnswers
<1>1. Changes \in Nat /\ LocalTimes \in Seq(Int) /\ Len(LocalTimes) = Changes
  BY DEF ZoneInOrder
<1>2. k \in 1..Changes + 1
  BY <1>1, SMT DEF IsUpperBound
<1>3. UpperBound(LocalTimes, x) = k
  BY <1>1, UpperBoundIs, Zenon
<1> DEFINE Either(j) == OffsetAt(IF b THEN j ELSE j - 1)
<1>4. findLocalOffset(dt, b) =
        CASE k = 1 -> zone.localtimes[1]
          [] k > 1 /\ k = Changes + 1 -> OffsetAt(Changes)
          [] k > 1 /\ k <= Changes /\ IsSkip(k, x) -> Either(k)
          [] k > 1 /\ k <= Changes /\ ~IsSkip(k, x) ->
               IF k - 1 > 1 /\ x <= PriorSecond(k - 1) THEN Either(k - 1) ELSE OffsetAt(k - 1)
  BY <1>3, Zenon DEF findLocalOffset, Changes
<1>5. \A i \in Nat : i > 0 => OffsetFrom(i) = OffsetAt(i)
  BY SMT DEF OffsetFrom
<1>6. \A i \in Nat : i > 1 => PriorSecond(i) = LastBefore(i)
  <2>1. SUFFICES ASSUME NEW i \in Nat, i > 1 PROVE PriorSecond(i) = LastBefore(i)
    BY Zenon
  <2>2. OffsetFrom(i - 1) = OffsetAt(i - 1)
    BY <1>5, <2>1, SMT
  <2> QED BY <2>2, Zenon DEF PriorSecond, LastBefore, MomentOf
<1>7. CASE k = 1
  <2>1. findLocalOffset(dt, b) = zone.localtimes[1]
    BY <1>4, <1>7, SMT
  <2>2. ~(k > 1)
    BY <1>7, SMT
  <2> QED BY <2>1, <2>2, Zenon DEF OffsetFrom
<1>8. CASE k > 1 /\ k = Changes + 1
  <2>1. findLocalOffset(dt, b) = OffsetAt(Changes)
    BY <1>1, <1>4, <1>8, SMT
  <2>2. OffsetFrom(Changes) = OffsetAt(Changes)
    BY <1>1, <1>5, <1>8, SMT
  <2>3. k # 1 /\ ~(k <= Changes)
    BY <1>1, <1>8, SMT
  <2> QED BY <2>1, <2>2, <2>3, Zenon
<1>9. CASE k > 1 /\ k <= Changes
  <2>1. k \in Nat /\ k - 1 \in Nat /\ k - 1 > 0 /\ k # 1 /\ k # Changes + 1
    BY <1>1, <1>9, <1>2, SMT
  <2>2. IsSkip(k, x) <=> LastBefore(k) < x
    BY <1>6, <1>9, <2>1, Zenon DEF IsSkip
  <2>3. OffsetFrom(k) = OffsetAt(k) /\ OffsetFrom(k - 1) = OffsetAt(k - 1)
    BY <1>5, <1>9, <2>1, SMT
  <2>4. CASE IsSkip(k, x)
    <3>1. findLocalOffset(dt, b) = Either(k)
      BY <1>4, <1>9, <2>1, <2>4, Zenon
    <3>2. Either(k) = IF b THEN OffsetFrom(k) ELSE OffsetFrom(k - 1)
      BY <2>3, Zenon
    <3> QED BY <2>1, <2>2, <2>4, <3>1, <3>2, Zenon
  <2>5. CASE ~IsSkip(k, x)
    <3>1. findLocalOffset(dt, b) =
            IF k - 1 > 1 /\ x <= PriorSecond(k - 1) THEN Either(k - 1) ELSE OffsetAt(k - 1)
      BY <1>4, <1>9, <2>1, <2>5, Zenon
    <3>2. k - 1 > 1 => PriorSecond(k - 1) = LastBefore(k - 1)
      BY <1>6, <2>1, Zenon
    <3>3. k - 1 > 1 => OffsetFrom((k - 1) - 1) = OffsetAt((k - 1) - 1)
      BY <1>5, <2>1, SMT
    <3>4. k - 1 > 1 => Either(k - 1) = IF b THEN OffsetFrom(k - 1) ELSE OffsetFrom((k - 1) - 1)
      BY <2>3, <3>3, Zenon
    <3>5. CASE k - 1 > 1 /\ x <= LastBefore(k - 1)
      BY <2>1, <2>2, <2>5, <3>1, <3>2, <3>4, <3>5, Zenon
    <3>6. CASE ~(k - 1 > 1 /\ x <= LastBefore(k - 1))
      BY <2>1, <2>2, <2>3, <2>5, <3>1, <3>2, <3>6, Zenon
    <3> QED BY <3>5, <3>6
  <2> QED BY <2>4, <2>5
<1> QED BY <1>1, <1>2, <1>7, <1>8, <1>9, SMT

\* A set within a pair has at most two elements.
LEMMA PairCardinality ==
  ASSUME NEW a, NEW b, NEW S, S \subseteq {a, b}
  PROVE  Cardinality(S) <= 2
<1>1. IsFiniteSet({a}) /\ Cardinality({a}) = 1
  BY FS_Singleton
<1>2. IsFiniteSet({a} \cup {b}) /\ Cardinality({a} \cup {b}) \in {1, 2}
  BY <1>1, FS_AddElement, SMT
<1>3. {a} \cup {b} = {a, b}
  OBVIOUS
<1>4. Cardinality(S) <= Cardinality({a, b}) /\ Cardinality(S) \in Nat
  BY <1>2, <1>3, FS_Subset, FS_CardinalityType, Zenon
<1> QED BY <1>2, <1>3, <1>4, SMT

\* The offsets before and after the times of a change.
LEMMA Offsets ==
  ASSUME ZoneInOrder
  PROVE  /\ Changes \in Nat
         /\ \A i \in 1..Changes : /\ MomentOf(i) \in Int /\ LocalFrom(i) \in Int
                                  /\ LocalFrom(i) = MomentOf(i) + OffsetFrom(i)
                                  /\ LastBefore(i) = MomentOf(i) - 1 + OffsetFrom(i - 1)
                                  /\ LastBefore(i) \in Int
         /\ \A i \in 0..Changes : OffsetFrom(i) \in Int
<1>1. Changes \in Nat
  BY DEF ZoneInOrder
<1>2. \A i \in 1..Changes : /\ MomentOf(i) \in Int /\ LocalFrom(i) \in Int
                            /\ LocalFrom(i) = MomentOf(i) + OffsetFrom(i)
                            /\ OffsetFrom(i - 1) \in Int
                            /\ LastBefore(i) = MomentOf(i) - 1 + OffsetFrom(i - 1)
                            /\ LastBefore(i) \in Int
  BY <1>1, SMT DEF ZoneInOrder, LastBefore
<1>3. \A i \in 0..Changes : OffsetFrom(i) \in Int
  BY DEF ZoneInOrder
<1> QED BY <1>1, <1>2, <1>3

\* The search for a local time ends after all changes that end before it.
LEMMA LocalBounds ==
  ASSUME ZoneInOrder, NEW x \in Int
  PROVE  \E k \in 1..Changes + 1 :
           /\ IsUpperBound(LocalTimes, x, k)
           /\ \A j \in 1..k - 1 : LocalFrom(j) <= x
<1>1. Changes \in Nat /\ LocalTimes \in Seq(Int) /\ Len(LocalTimes) = Changes
  BY DEF ZoneInOrder
<1>2. PICK k \in 1..Len(LocalTimes) + 1 : IsUpperBound(LocalTimes, x, k)
  BY <1>1, UpperBoundExists, Zenon
<1>3. \A j \in 1..k - 1 : LocalFrom(j) <= x
  BY <1>1, <1>2, SMT DEF IsUpperBound, ZoneInOrder
<1> QED BY <1>1, <1>2, <1>3, Zenon

\* fromLocalTime gives back a moment that toLocalTime was given.
LEMMA ZoneRoundTrips ==
  ASSUME ZoneInOrder, clock \in Int
  PROVE  RoundTrips
<1> DEFINE dt == toLocalTime(clock)
           shows == Shows(dt)
<1> HIDE DEF dt, shows
<1>1. PICK s0 \in 0..Changes : InSegment(s0, clock)
  BY SegmentOf, Zenon
<1>2. findLocalTime(clock) = OffsetFrom(s0)
  BY <1>1, SegmentIs, Zenon
<1>3. PICK x \in Int : x = clock + OffsetFrom(s0)
  BY Offsets, SMT
<1>4. dt = BreakTime(x)
  BY <1>2, <1>3, Zenon DEF toLocalTime, dt
<1>5. fromUtcTime(dt) = x
  BY <1>4, BreakRoundTrip, Zenon
<1>6. x - OffsetFrom(s0) = clock
  BY <1>1, <1>3, Offsets, SMT
<1>7. ShownBy(s0, x)
  BY <1>1, <1>6, Zenon DEF ShownBy
<1>8. PICK k \in 1..Changes + 1 : /\ IsUpperBound(LocalTimes, x, k)
                                  /\ \A j \in 1..k - 1 : LocalFrom(j) <= x
  BY LocalBounds, Zenon
<1>9. \A s \in 0..Changes :
        ShownBy(s, x) <=> \/ s = k - 1 /\ (k <= Changes => x <= LastBefore(k))
                          \/ s = k - 2 /\ x <= LastBefore(k - 1)
  BY <1>8, Showing, Zenon
<1>10. k - 1 \in 0..Changes /\ Changes \in Nat
  BY <1>8, Offsets, SMT
<1>11. k <= Changes => x <= LastBefore(k)
  <2> SUFFICES ASSUME k <= Changes PROVE x <= LastBefore(k)
    OBVIOUS
  <2>1. CASE s0 = k - 1
    <3>1. s0 # k - 2
      BY <1>8, <1>10, <2>1, SMT
    <3> QED BY <1>7, <1>9, <3>1, Zenon
  <2>2. CASE s0 = k - 2 /\ x <= LastBefore(k - 1)
    <3>1. k - 1 \in 1..Changes /\ k \in 1..Changes /\ k - 1 < k
      BY <1>1, <1>8, <1>10, <2>2, SMT
    <3>2. InOrder(k - 1, k)
      BY <3>1, Zenon DEF ZoneInOrder
    <3>3. LastBefore(k - 1) < LastBefore(k)
      BY <3>2, Zenon DEF InOrder
    <3>4. LastBefore(k - 1) \in Int /\ LastBefore(k) \in Int
      BY <3>1, Offsets, Zenon
    <3> QED BY <2>2, <3>3, <3>4, SMT
  <2> QED BY <1>7, <1>9, <2>1, <2>2, Zenon
<1>12. ShownBy(k - 1, x)
  BY <1>9, <1>10, <1>11, Zenon
<1>13. PICK later \in Int : later = x - OffsetFrom(k - 1)
  BY <1>10, Offsets, SMT
<1>14. UpperBound(UtcTimes, later) = k
  <2>1. InSegment(k - 1, later)
    BY <1>12, <1>13, Zenon DEF ShownBy
  <2>2. UpperBound(UtcTimes, later) = (k - 1) + 1
    BY <1>10, <2>1, SegmentIs, Zenon
  <2> QED BY <1>8, <1>10, <2>2, SMT
<1> DEFINE Twice == k >= 2 /\ x <= LastBefore(k - 1)
<1>15. PICK earlier \in Int : earlier = IF Twice THEN x - OffsetFrom(k - 2) ELSE later
  <2>1. CASE Twice
    <3>1. k - 2 \in 0..Changes
      BY <1>8, <1>10, <2>1, SMT
    <3>2. x - OffsetFrom(k - 2) \in Int
      BY <3>1, Offsets, SMT
    <3> QED BY <2>1, <3>2, Zenon
  <2>2. CASE ~Twice
    BY <2>2, Zenon
  <2> QED BY <2>1, <2>2
<1>16. earlier <= later
  <2>1. CASE Twice
    <3>1. k - 1 \in 1..Changes /\ (k - 1) - 1 = k - 2 /\ k - 1 \in 1..k - 1
      BY <1>8, <1>10, <2>1, SMT
    <3>2. LastBefore(k - 1) = MomentOf(k - 1) - 1 + OffsetFrom(k - 2)
      BY <3>1, Offsets, Zenon
    <3>3. LocalFrom(k - 1) = MomentOf(k - 1) + OffsetFrom(k - 1) /\ MomentOf(k - 1) \in Int
      BY <3>1, Offsets, Zenon
    <3>4. LocalFrom(k - 1) <= x
      BY <1>8, <3>1, Zenon
    <3>5. OffsetFrom(k - 1) \in Int /\ OffsetFrom(k - 2) \in Int
      BY <1>8, <1>10, <2>1, Offsets, SMT
    <3>6. earlier = x - OffsetFrom(k - 2)
      BY <1>15, <2>1, Zenon
    <3> QED BY <1>13, <2>1, <3>2, <3>3, <3>4, <3>5, <3>6, SMT
  <2>2. CASE ~Twice
    <3>1. earlier = later
      BY <1>15, <2>2, Zenon
    <3> QED BY <3>1, SMT
  <2> QED BY <2>1, <2>2
<1>17. shows = Shows(dt)
  BY Zenon DEF shows
<1>18. shows = {later, earlier}
  <2>1. \A u : u \in shows <=> \E s \in 0..Changes : ShownBy(s, x) /\ u = x - OffsetFrom(s)
    BY <1>4, <1>17, ShowsIs, Zenon
  <2>2. later \in shows
    BY <1>10, <1>12, <1>13, <2>1, Zenon
  <2>3. earlier \in shows
    <3>1. CASE Twice
      <4>1. k - 2 \in 0..Changes
        BY <1>8, <1>10, <3>1, SMT
      <4>2. ShownBy(k - 2, x)
        BY <1>9, <3>1, <4>1, Zenon
      <4> QED BY <1>15, <2>1, <3>1, <4>1, <4>2, Zenon
    <3>2. CASE ~Twice
      BY <1>15, <2>2, <3>2, Zenon
    <3> QED BY <3>1, <3>2
  <2>4. ASSUME NEW u \in shows PROVE u \in {later, earlier}
    <3>1. PICK s \in 0..Changes : ShownBy(s, x) /\ u = x - OffsetFrom(s)
      BY <2>1, <2>4, Zenon
    <3>2. CASE s = k - 1
      BY <1>13, <3>1, <3>2, Zenon
    <3>3. CASE s = k - 2 /\ x <= LastBefore(k - 1)
      <4>1. Twice
        BY <1>8, <1>10, <3>1, <3>3, SMT
      <4> QED BY <1>15, <3>1, <3>3, <4>1, Zenon
    <3> QED BY <1>9, <3>1, <3>2, <3>3, Zenon
  <2> QED BY <2>2, <2>3, <2>4, Zenon
<1> HIDE DEF Twice
<1>19. clock \in shows
  <2>1. clock \in Shows(BreakTime(x)) <=>
           \E s \in 0..Changes : ShownBy(s, x) /\ clock = x - OffsetFrom(s)
    BY ShowsIs, Zenon
  <2>2. \E s \in 0..Changes : ShownBy(s, x) /\ clock = x - OffsetFrom(s)
    BY <1>6, <1>7, Zenon
  <2> QED BY <1>4, <1>17, <2>1, <2>2, Zenon
<1>20. Cardinality(shows) <= 2
  BY <1>18, PairCardinality, Zenon
<1>21. (CHOOSE u \in shows : \A v \in shows : v <= u) = later
  <2>1. \A v \in shows : v <= later
    BY <1>16, <1>18, SMT
  <2>2. ASSUME NEW u \in shows, \A v \in shows : v <= u PROVE u = later
    BY <1>16, <1>18, <2>2, SMT
  <2>3. later \in shows
    BY <1>18, Zenon
  <2> QED BY <2>1, <2>2, <2>3, Zenon
<1>22. (CHOOSE u \in shows : \A v \in shows : u <= v) = earlier
  <2>1. \A v \in shows : earlier <= v
    BY <1>16, <1>18, SMT
  <2>2. ASSUME NEW u \in shows, \A v \in shows : u <= v PROVE u = earlier
    BY <1>16, <1>18, <2>2, SMT
  <2>3. earlier \in shows
    BY <1>18, Zenon
  <2> QED BY <2>1, <2>2, <2>3, Zenon
<1>23. ASSUME NEW b \in BOOLEAN
       PROVE  findLocalOffset(dt, b) =
                IF b \/ k - 1 \in {1, Changes} \/ ~Twice THEN OffsetFrom(k - 1) ELSE OffsetFrom(k - 2)
  <2>0. OffsetAnswers(dt, b, x, k)
    BY <1>5, <1>8, OffsetOf, Zenon
  <2>1. CASE k = 1
    <3>1. findLocalOffset(dt, b) = OffsetFrom(0)
      BY <2>0, <2>1, Zenon DEF OffsetAnswers
    <3>2. k - 1 = 0 /\ ~Twice
      BY <2>1, SMT DEF Twice
    <3> QED BY <3>1, <3>2, Zenon
  <2>2. CASE k > 1 /\ k = Changes + 1
    <3>1. findLocalOffset(dt, b) = OffsetFrom(Changes)
      BY <2>0, <2>2, Zenon DEF OffsetAnswers
    <3>2. k - 1 = Changes
      BY <1>10, <2>2, SMT
    <3> QED BY <3>1, <3>2, Zenon
  <2>3. CASE k > 1 /\ k <= Changes
    <3>1. ~(LastBefore(k) < x)
      <4>1. k \in 1..Changes
        BY <1>8, <1>10, <2>3, SMT
      <4>2. LastBefore(k) \in Int
        BY <4>1, Offsets, Zenon
      <4> QED BY <1>11, <2>3, <4>2, SMT
    <3>2. findLocalOffset(dt, b) =
            IF k - 1 > 1 /\ x <= LastBefore(k - 1)
            THEN IF b THEN OffsetFrom(k - 1) ELSE OffsetFrom((k - 1) - 1)
            ELSE OffsetFrom(k - 1)
      BY <2>0, <2>3, <3>1, Zenon DEF OffsetAnswers
    <3>3. /\ (k - 1) - 1 = k - 2 /\ k - 1 # Changes /\ k >= 2
          /\ k - 1 > 1 <=> k - 1 # 1
      BY <1>8, <1>10, <2>3, SMT
    <3> QED BY <3>2, <3>3, Zenon DEF Twice
  <2> QED BY <1>8, <1>10, <2>1, <2>2, <2>3, SMT
<1>24. fromLocalTime(dt, TRUE) = later
  <2>1. findLocalOffset(dt, TRUE) = OffsetFrom(k - 1)
    BY <1>23, Zenon
  <2> QED BY <1>5, <1>13, <2>1, Zenon DEF fromLocalTime
<1>25. fromLocalTime(dt, FALSE) = IF k - 1 \in {1, Changes} THEN later ELSE earlier
  <2>1. findLocalOffset(dt, FALSE) =
          IF k - 1 \in {1, Changes} \/ ~Twice THEN OffsetFrom(k - 1) ELSE OffsetFrom(k - 2)
    BY <1>23, Zenon
  <2>2. fromLocalTime(dt, FALSE) = x - findLocalOffset(dt, FALSE)
    BY <1>5, Zenon DEF fromLocalTime
  <2>3. CASE k - 1 \in {1, Changes}
    BY <1>13, <2>1, <2>2, <2>3, Zenon
  <2>4. CASE k - 1 \notin {1, Changes} /\ Twice
    BY <1>15, <2>1, <2>2, <2>4, Zenon
  <2>5. CASE k - 1 \notin {1, Changes} /\ ~Twice
    BY <1>13, <1>15, <2>1, <2>2, <2>5, Zenon
  <2> QED BY <2>3, <2>4, <2>5, Zenon
<1>26. LET lastShown == CHOOSE u \in shows : \A v \in shows : v <= u
           firstShown == CHOOSE u \in shows : \A v \in shows : u <= v
           i == UpperBound(UtcTimes, lastShown) - 1
       IN /\ clock \in shows /\ Cardinality(shows) <= 2
          /\ fromLocalTime(dt, TRUE) = lastShown
          /\ fromLocalTime(dt, FALSE) =
               IF i \in {1, Changes} THEN lastShown ELSE firstShown
  BY <1>14, <1>19, <1>20, <1>21, <1>22, <1>24, <1>25, Zenon
<1> QED BY <1>26, Zenon DEF RoundTrips, Changes, shows, dt

\* A local time that a change skips is read as asked for.
LEMMA ZoneSkippedTimes ==
  ASSUME ZoneInOrder
  PROVE  SkippedTimes
<1> DEFINE Local(i, d) == zone.transitions[i].localtime + d
           Result(dt, local, i) == /\ Shows(dt) = {}
                                   /\ fromLocalTime(dt, TRUE) = local - OffsetAt(i)
                                   /\ fromLocalTime(dt, FALSE) = local - OffsetAt(i - 1)
<1> SUFFICES ASSUME NEW i \in 2..Len(zone.transitions), NEW d \in Around,
                    PriorSecond(i) < Local(i, d), d < 0
             PROVE  Result(BreakTime(Local(i, d)), Local(i, d), i)
  BY Zenon DEF SkippedTimes
<1>0. i \in 2..Changes /\ Local(i, d) = LocalFrom(i) + d
  BY Zenon DEF Changes, LocalFrom
<1>1. Changes \in Nat /\ i \in 1..Changes /\ i - 1 \in 1..Changes /\ i - 1 < i /\ i > 1 /\ i <= Changes
  BY <1>0, Offsets, SMT
<1>2. OffsetFrom(i) = OffsetAt(i) /\ OffsetFrom(i - 1) = OffsetAt(i - 1)
  BY <1>1, SMT DEF OffsetFrom
<1>3. PriorSecond(i) = LastBefore(i)
  BY <1>2, Zenon DEF PriorSecond, LastBefore, MomentOf
<1>4. d \in Int
  <2>1. Around \subseteq Int
    BY TimeZoneAssumption, SMT
  <2> QED BY <2>1, SMT
<1>5. PICK x \in Int : x = LocalFrom(i) + d /\ x = Local(i, d)
  <2>1. LocalFrom(i) \in Int
    BY <1>1, Offsets, Zenon
  <2>2. LocalFrom(i) + d \in Int
    BY <1>4, <2>1, SMT
  <2> QED BY <1>0, <2>2, Zenon
<1>6. LastBefore(i) < x /\ x < LocalFrom(i)
  <2>1. LocalFrom(i) \in Int
    BY <1>1, Offsets, Zenon
  <2> QED BY <1>3, <1>4, <1>5, <2>1, SMT
<1>7. LastBefore(i) \in Int /\ LastBefore(i - 1) \in Int
  BY <1>1, Offsets, Zenon
<1>8. IsUpperBound(LocalTimes, x, i)
  <2>1. LocalTimes \in Seq(Int) /\ Len(LocalTimes) = Changes
    BY DEF ZoneInOrder
  <2>2. x < LocalTimes[i]
    BY <1>1, <1>6, Zenon DEF ZoneInOrder
  <2>3. ASSUME NEW j \in 1..i - 1 PROVE LocalTimes[j] <= x
    <3>1. j \in 1..Changes /\ j < i
      BY <1>1, SMT
    <3>2. InOrder(j, i)
      BY <1>1, <3>1, Zenon DEF ZoneInOrder
    <3>3. LocalFrom(j) < LastBefore(i)
      BY <3>2, Zenon DEF InOrder
    <3>4. LocalFrom(j) \in Int /\ LocalTimes[j] = LocalFrom(j)
      BY <3>1, Zenon DEF ZoneInOrder
    <3> QED BY <1>6, <1>7, <3>3, <3>4, SMT
  <2> QED BY <1>1, <2>1, <2>2, <2>3, SMT DEF IsUpperBound
<1>9. Shows(BreakTime(x)) = {}
  <2>1. ASSUME NEW u, u \in Shows(BreakTime(x)) PROVE FALSE
    <3>1. PICK s \in 0..Changes : ShownBy(s, x)
      BY <2>1, ShowsIs, Zenon
    <3>2. \/ s = i - 1 /\ (i <= Changes => x <= LastBefore(i))
          \/ s = i - 2 /\ x <= LastBefore(i - 1)
      BY <1>8, <3>1, Showing, Zenon
    <3>3. x <= LastBefore(i) \/ x <= LastBefore(i - 1)
      BY <1>1, <3>2, Zenon
    <3>4. InOrder(i - 1, i)
      BY <1>1, Zenon DEF ZoneInOrder
    <3>5. LastBefore(i - 1) < LastBefore(i)
      BY <3>4, Zenon DEF InOrder
    <3> QED BY <1>6, <1>7, <3>3, <3>5, SMT
  <2> QED BY <2>1, Zenon
<1>10. fromUtcTime(BreakTime(x)) = x
  BY BreakRoundTrip, Zenon
<1>11. ASSUME NEW b \in BOOLEAN
       PROVE  findLocalOffset(BreakTime(x), b) = IF b THEN OffsetFrom(i) ELSE OffsetFrom(i - 1)
  <2>1. OffsetAnswers(BreakTime(x), b, x, i)
    BY <1>8, <1>10, OffsetOf, Zenon
  <2> QED BY <1>1, <1>6, <2>1, Zenon DEF OffsetAnswers
<1>12. /\ fromLocalTime(BreakTime(x), TRUE) = x - OffsetAt(i)
       /\ fromLocalTime(BreakTime(x), FALSE) = x - OffsetAt(i - 1)
  <2>1. findLocalOffset(BreakTime(x), TRUE) = OffsetAt(i)
    BY <1>2, <1>11, Zenon
  <2>2. findLocalOffset(BreakTime(x), FALSE) = OffsetAt(i - 1)
    BY <1>2, <1>11, Zenon
  <2> QED BY <1>10, <2>1, <2>2, Zenon DEF fromLocalTime
<1>13. Result(BreakTime(x), x, i)
  BY <1>9, <1>12, Zenon
<1> HIDE DEF Local, Result
<1> QED BY <1>5, <1>13, Zenon

\* A well-formed file gives a zone whose changes are in order.
LEMMA ZoneIsInOrder ==
  ASSUME NEW file \in Files, zone = readTimeZoneFile(file), zone # Invalid
  PROVE  ZoneInOrder
<1>1. WellFormed(zone)
  BY ZoneFilesAssumption, Zenon
<1>2. PICK block : zone = readDataBlock(block)
  BY Zenon DEF readTimeZoneFile
<1> DEFINE Entry(i) == LET t == block.trans[i]
                       IN [utctime |-> t[1], localtime |-> t[1] + block.offsets[t[2]],
                           localtimeIdx |-> t[2]]
           transitions == [i \in DOMAIN block.trans |-> Entry(i)]
<1>3. zone = [status |-> "valid", localtimes |-> block.offsets, transitions |-> transitions]
  BY <1>2, Zenon DEF readDataBlock
<1>4. zone.localtimes = block.offsets /\ zone.transitions = transitions
  <2> HIDE DEF transitions
  <2> QED BY <1>3, SMT
<1>5. PICK lt : lt = zone.localtimes
  OBVIOUS
<1>6. PICK tr : tr = zone.transitions
  OBVIOUS
<1>7. /\ lt \in Seq(Int) /\ lt # <<>>
      /\ tr \in Seq([utctime : Int, localtime : Int, localtimeIdx : DOMAIN lt])
  BY <1>1, <1>5, <1>6, Zenon DEF WellFormed
<1>8. /\ Changes \in Nat /\ Changes = Len(tr) /\ DOMAIN tr = 1..Changes
      /\ 1 \in DOMAIN lt
      /\ \A h \in DOMAIN lt : lt[h] \in Int
      /\ \A i \in 1..Changes : /\ tr[i].utctime \in Int /\ tr[i].localtime \in Int
                               /\ tr[i].localtimeIdx \in DOMAIN lt
  <2>1. Changes = Len(tr)
    BY <1>6, Zenon DEF Changes
  <2>2. Len(tr) \in Nat /\ DOMAIN tr = 1..Len(tr)
    BY <1>7, SMT
  <2>3. \A i \in 1..Len(tr) : tr[i] \in [utctime : Int, localtime : Int, localtimeIdx : DOMAIN lt]
    <3>1. PICK R : R = [utctime : Int, localtime : Int, localtimeIdx : DOMAIN lt]
      OBVIOUS
    <3>2. tr \in Seq(R)
      BY <1>7, <3>1, Zenon
    <3>3. \A i \in 1..Len(tr) : tr[i] \in R
      BY <3>2, SMT
    <3> QED BY <3>1, <3>3, Zenon
  <2>4. 1 \in DOMAIN lt /\ \A h \in DOMAIN lt : lt[h] \in Int
    BY <1>7, SMT
  <2> QED BY <2>1, <2>2, <2>3, <2>4, SMT
<1>9. \A i \in 1..Changes : /\ MomentOf(i) = tr[i].utctime /\ LocalFrom(i) = tr[i].localtime
                            /\ OffsetFrom(i) = lt[tr[i].localtimeIdx]
  <2>1. \A i \in 1..Changes : i # 0
    BY <1>8, SMT
  <2> QED BY <1>5, <1>6, <2>1, Zenon DEF MomentOf, LocalFrom, OffsetFrom, OffsetAt
<1>10. OffsetFrom(0) = lt[1]
  BY <1>5, Zenon DEF OffsetFrom
<1>11. ASSUME NEW i \in 1..Changes
       PROVE  /\ MomentOf(i) \in Int /\ LocalFrom(i) \in Int
              /\ LocalFrom(i) = MomentOf(i) + OffsetFrom(i)
  <2>1. MomentOf(i) \in Int /\ LocalFrom(i) \in Int
    BY <1>8, <1>9, Zenon
  <2>2. i \in DOMAIN block.trans /\ tr[i] = Entry(i)
    <3>1. i \in DOMAIN transitions
      BY <1>4, <1>6, <1>8, Zenon
    <3> QED BY <1>4, <1>6, <3>1, Zenon
  <2>3. /\ Entry(i).utctime = block.trans[i][1] /\ Entry(i).localtimeIdx = block.trans[i][2]
        /\ Entry(i).localtime = block.trans[i][1] + block.offsets[block.trans[i][2]]
    BY Zenon
  <2>4. LocalFrom(i) = MomentOf(i) + OffsetFrom(i)
    <3> HIDE DEF Entry
    <3>1. PICK p, q : p = block.trans[i][1] /\ q = block.trans[i][2]
      OBVIOUS
    <3>2. tr[i].utctime = p /\ tr[i].localtimeIdx = q /\ tr[i].localtime = p + block.offsets[q]
      BY <2>2, <2>3, <3>1, Zenon
    <3>3. block.offsets = lt
      BY <1>4, <1>5, Zenon
    <3>4. MomentOf(i) = p /\ OffsetFrom(i) = lt[q]
      BY <1>9, <3>2, Zenon
    <3>5. LocalFrom(i) = p + lt[q]
      BY <1>9, <3>2, <3>3, Zenon
    <3> QED BY <3>4, <3>5, Zenon
  <2> QED BY <2>1, <2>4
<1>12. ASSUME NEW i \in 0..Changes
       PROVE  /\ OffsetFrom(i) \in Int
              /\ \E h \in DOMAIN zone.localtimes : OffsetFrom(i) = zone.localtimes[h]
  <2>1. CASE i = 0
    BY <1>5, <1>8, <1>10, <2>1, Zenon
  <2>2. CASE i \in 1..Changes
    BY <1>5, <1>8, <1>9, <2>2, Zenon
  <2> QED BY <1>8, <2>1, <2>2, SMT
<1>13. ASSUME NEW i \in 1..Changes, NEW j \in 1..Changes, i < j PROVE InOrder(i, j)
  <2> DEFINE Utc(h) == zone.transitions[h].utctime
             Offset(h) == IF h = 0 THEN zone.localtimes[1]
                          ELSE zone.localtimes[zone.transitions[h].localtimeIdx]
             Begins(h) == Utc(h) - 1 + Offset(h - 1)
             Ends(h) == Utc(h) + Offset(h)
  <2>1. i \in DOMAIN zone.transitions /\ j \in DOMAIN zone.transitions
    BY <1>6, <1>8, Zenon
  <2>2. /\ Utc(i) < Utc(j)
        /\ Begins(i) < Begins(j) /\ Begins(i) < Ends(j)
        /\ Ends(i) < Begins(j) /\ Ends(i) < Ends(j)
    BY <1>1, <1>13, <2>1, Zenon DEF WellFormed
  <2>3. ASSUME NEW h \in 1..Changes
        PROVE  Utc(h) = MomentOf(h) /\ Begins(h) = LastBefore(h) /\ Ends(h) = LocalFrom(h)
    <3>1. Utc(h) = MomentOf(h) /\ Offset(h) = OffsetFrom(h) /\ Offset(h - 1) = OffsetFrom(h - 1)
      BY Zenon DEF MomentOf, OffsetFrom, OffsetAt
    <3>2. LocalFrom(h) = MomentOf(h) + OffsetFrom(h)
      BY <1>11, Zenon
    <3> QED BY <3>1, <3>2, Zenon DEF LastBefore
  <2> HIDE DEF Utc, Begins, Ends
  <2>4. /\ Utc(i) = MomentOf(i) /\ Begins(i) = LastBefore(i) /\ Ends(i) = LocalFrom(i)
        /\ Utc(j) = MomentOf(j) /\ Begins(j) = LastBefore(j) /\ Ends(j) = LocalFrom(j)
    BY <2>3, Zenon
  <2> QED BY <2>2, <2>4, Zenon DEF InOrder
<1>14. /\ UtcTimes = [i \in 1..Changes |-> MomentOf(i)]
       /\ LocalTimes = [i \in 1..Changes |-> LocalFrom(i)]
  <2>1. DOMAIN zone.transitions = 1..Changes
    BY <1>6, <1>8, Zenon
  <2> QED BY <2>1, Zenon DEF UtcTimes, LocalTimes, MomentOf, LocalFrom
<1>15. /\ UtcTimes \in Seq(Int) /\ Len(UtcTimes) = Changes
       /\ LocalTimes \in Seq(Int) /\ Len(LocalTimes) = Changes
       /\ \A i \in 1..Changes : UtcTimes[i] = MomentOf(i) /\ LocalTimes[i] = LocalFrom(i)
  BY <1>8, <1>11, <1>14, SMT
<1>16. \A h \in DOMAIN zone.localtimes : zone.localtimes[h] \in Int
  BY <1>5, <1>8, Zenon
<1> QED BY <1>8, <1>11, <1>12, <1>13, <1>15, <1>16, Zenon DEF ZoneInOrder

\* The date walked so far and its number, the zone read from a file, any clock.
ClockInv ==
  /\ IsDate(date) /\ jdn = getJulianDayNumber(date)
  /\ zone = NotLoaded \/ zone = Invalid \/ \E file \in Files : zone = readTimeZoneFile(file)
  /\ clock \in Int

\* The walk and the clock start in the invariant.
LEMMA ClockInvInit == ClockInit => ClockInv
<1> SUFFICES ASSUME ClockInit PROVE ClockInv
  OBVIOUS
<1>1. PICK Y \in Int : Y = 1970
  BY SMT
<1>2. date = [year |-> Y, month |-> 1, day |-> 1]
  BY <1>1, SMT DEF ClockInit
<1>3. IsDate(date)
  <2>1. DaysIn(Y, 1) \in 28..31
    <3>1. 1 \in 1..12
      BY SMT
    <3> QED BY <3>1, MonthLengths, SMT
  <2> QED BY <1>2, <2>1, SMT DEF IsDate
<1>4. jdn = getJulianDayNumber(date)
  <2>1. getJulianDayNumber(date) = kJulianDayOf1970_01_01
    BY <1>1, <1>2, SMT DEF kJulianDayOf1970_01_01
  <2> QED BY <2>1, EpochNumber, SMT DEF ClockInit
<1>5. zone = NotLoaded /\ clock \in Int
  BY SMT DEF ClockInit
<1> QED BY <1>3, <1>4, <1>5, Zenon DEF ClockInv

\* Loading a file, reading the clock and the next day keep it.
LEMMA ClockInvNext == ClockInv /\ [ClockNext]_clockVars => ClockInv'
<1> SUFFICES ASSUME ClockInv, [ClockNext]_clockVars PROVE ClockInv'
  OBVIOUS
<1>1. CASE \E file \in Files : LoadZoneFile(file)
  <2>1. PICK file \in Files : LoadZoneFile(file)
    BY <1>1
  <2> QED BY <2>1, Zenon DEF ClockInv, LoadZoneFile
<1>2. CASE zone \notin {NotLoaded, Invalid} /\ \E t \in Moments : ReadClock(t)
  <2>1. PICK t \in Moments : ReadClock(t)
    BY <1>2
  <2>2. ZoneInOrder
    BY <1>2, ZoneIsInOrder, Zenon DEF ClockInv
  <2>3. t \in Int
    <3>1. CASE t = 0
      BY <3>1, SMT
    <3>2. ASSUME NEW i \in DOMAIN zone.transitions, NEW d \in Around,
                 t = zone.transitions[i].utctime + d
          PROVE  t \in Int
      <4>1. DOMAIN zone.transitions = DOMAIN UtcTimes /\ UtcTimes[i] = zone.transitions[i].utctime
        BY Zenon DEF UtcTimes
      <4>2. UtcTimes \in Seq(Int)
        BY <2>2 DEF ZoneInOrder
      <4>3. UtcTimes[i] \in Int
        BY <4>1, <4>2, SMT
      <4>4. Around \subseteq Int
        BY TimeZoneAssumption, SMT
      <4> QED BY <3>2, <4>1, <4>3, <4>4, SMT
    <3>3. \/ t = 0
          \/ \E i \in DOMAIN zone.transitions, d \in Around :
               t = zone.transitions[i].utctime + d
      BY <2>1, SMT DEF Moments
    <3> QED BY <3>1, <3>2, <3>3, Zenon
  <2> QED BY <2>1, <2>3, Zenon DEF ClockInv, ReadClock
<1>3. CASE NextDay
  <2>1. date' = DayAfter(date) /\ jdn' = jdn + 1 /\ zone' = zone /\ clock' = clock
    BY <1>3, Zenon DEF NextDay, DayAfter
  <2>2. IsDate(DayAfter(date)) /\ getJulianDayNumber(DayAfter(date)) = getJulianDayNumber(date) + 1
    BY DayAfterNumber, Zenon DEF ClockInv
  <2>3. IsDate(date') /\ jdn' = getJulianDayNumber(date')
    BY <2>1, <2>2, Zenon DEF ClockInv
  <2> QED BY <2>1, <2>3, Zenon DEF ClockInv
<1>4. CASE UNCHANGED clockVars
  BY <1>4, Zenon DEF ClockInv, clockVars
<1> QED BY <1>1, <1>2, <1>3, <1>4, Zenon DEF ClockNext

\* In a state of the invariant every conversion is right.
LEMMA ClockInvConverts == ClockInv => TimesConvert
<1> SUFFICES ASSUME ClockInv PROVE TimesConvert
  OBVIOUS
<1>1. CalendarAgrees
  BY DateNumberDate, Zenon DEF ClockInv, CalendarAgrees
<1>2. ASSUME zone \notin {NotLoaded, Invalid}
      PROVE  RoundTrips /\ SkippedTimes /\ fromUtcTime(BreakTime(-clock)) = -clock
  <2>1. ZoneInOrder
    BY <1>2, ZoneIsInOrder, Zenon DEF ClockInv
  <2>2. clock \in Int
    BY DEF ClockInv
  <2>3. -clock \in Int
    BY <2>2, SMT
  <2>4. fromUtcTime(BreakTime(-clock)) = -clock
    BY <2>3, BreakRoundTrip, Zenon
  <2> QED BY <2>1, <2>2, <2>4, ZoneRoundTrips, ZoneSkippedTimes, Zenon
<1> QED BY <1>1, <1>2, Zenon DEF TimesConvert

\* Date, DateTime and TimeZone convert without error for every day from
\* 1970-01-01 on, the clocks around every change of offset and every well-formed
\* zone file: dates and day numbers are each other's inverse, a local time gives
\* the moment back it was made from, of two the one asked for (away from the
\* first and the last change), and a skipped one is read with the offset asked for.
THEOREM TimesAlwaysConvert == ClockSpec => []TimesConvert
<1>1. ClockInit => ClockInv
  BY ClockInvInit
<1>2. ClockInv /\ [ClockNext]_clockVars => ClockInv'
  BY ClockInvNext
<1>3. ClockInv => TimesConvert
  BY ClockInvConverts
<1> QED BY <1>1, <1>2, <1>3, PTL DEF ClockSpec
=============================================================================
