----------------------------- MODULE MCServices ------------------------------
(***************************************************************************)
(* What the servers read, keep and answer, for TLC: the buffer, the codecs   *)
(* and protocols on top of it, the pollers, the calendar, and the services   *)
(* beside IMServer.  They share no state here: a behaviour is one of the     *)
(* component part names while the others stay in their initial states, so    *)
(* the run checks each of them.                                              *)
(***************************************************************************)
EXTENDS Codec, HttpContext, TimeZone, Poller, MailService, AgentHistory,
        AvatarStore, RpcChannel, Schema

\* Codec: the tag of IMCodec, two messages, and one no protobuf parser takes.
MCTag == <<73, 77, 48, 49>>
MCPayloads == {<<>>, <<1, 2, 3>>}
MCUnparsable == {<<255>>}

\* AvatarStore: two uploads and a deletion of user 1, an upload of user 11,
\* whose number begins the same, and one over HTTP.
MCUserOf == [u1 |-> 1, u2 |-> 1, u3 |-> 11, u4 |-> 0, d1 |-> 1]

\* TimeZone: PRC as it is, a zone with one offset, and a zone of the west whose
\* changes lie on both sides of the epoch; in files with and without a second
\* block, and in four the reader refuses.
Block(offsets, trans) ==
  [leapcnt |-> 0, isutccnt |-> 0, isstdcnt |-> Len(offsets), short |-> FALSE,
   offsets |-> offsets, trans |-> trans]
PRC == Block(<<29143, 32400, 28800>>,
             <<<<-649987200, 3>>, <<621968400, 3>>, <<640116000, 2>>,
               <<653418000, 3>>, <<671565600, 2>>, <<684867600, 3>>>>)
Fixed == Block(<<28800>>, <<>>)
Early == Block(<<-18000, -14400>>,
               <<<<-100000000, 2>>, <<-80000000, 1>>, <<-60000000, 2>>, <<100000000, 1>>>>)
ZoneFile(head, version, v1, v2) ==
  [head |-> head, version |-> version, head2 |-> "TZif", v1 |-> v1, v2 |-> v2]
MCFiles ==
  {ZoneFile("TZif", "2", Fixed, PRC), ZoneFile("TZif", "2", PRC, Early),
   ZoneFile("TZif", "", Fixed, PRC), ZoneFile("XX", "2", Fixed, PRC),
   ZoneFile("TZif", "2", Fixed, [PRC EXCEPT !.leapcnt = 1]),
   ZoneFile("TZif", "2", Fixed, [PRC EXCEPT !.trans = Append(@, <<700000000, 4>>)]),
   [ZoneFile("TZif", "2", Fixed, PRC) EXCEPT !.head2 = "XX"]}
MCAround == {-5400, -3601, -3600, -3599, -1800, -1, 0, 1, 1800, 3599, 3600, 3601, 5400}

\* Schema: a table of two columns, one of them in both tables, and of one.
MCmapField == <<{1, 2}, {2}>>
NoColumns == [c \in {} |-> "old"]

VARIABLE part

mcVars == <<bufferVars, codecVars, httpVars, clockVars, pollerVars, mailVars,
            historyVars, avatarVars, rpcVars, schemaVars, part>>

Init ==
  /\ part \in {"Buffer", "Codec", "HttpContext", "TimeZone", "Poller",
               "MailService", "AgentHistory", "AvatarStore", "RpcChannel", "Schema"}
  /\ BufferInit /\ CodecInit /\ HttpInit /\ ClockInit /\ PollerInit /\ MailInit
  /\ HistoryInit /\ (useRedis => part = "AgentHistory")
  /\ AvatarInit /\ RpcInit
  /\ SchemaInit /\ (part # "Schema" => \A t \in DbTables : tables[t] = NoColumns)

Next ==
  \/ /\ part = "Buffer" /\ BufferNext
     /\ UNCHANGED <<codecVars, httpVars, clockVars, pollerVars, mailVars,
                    historyVars, avatarVars, rpcVars, schemaVars, part>>
  \/ /\ part = "Codec" /\ CodecNext
     /\ UNCHANGED <<bufferVars, httpVars, clockVars, pollerVars, mailVars,
                    historyVars, avatarVars, rpcVars, schemaVars, part>>
  \/ /\ part = "HttpContext" /\ HttpNext
     /\ UNCHANGED <<bufferVars, codecVars, clockVars, pollerVars, mailVars,
                    historyVars, avatarVars, rpcVars, schemaVars, part>>
  \/ /\ part = "TimeZone" /\ ClockNext
     /\ UNCHANGED <<bufferVars, codecVars, httpVars, pollerVars, mailVars,
                    historyVars, avatarVars, rpcVars, schemaVars, part>>
  \/ /\ part = "Poller" /\ PollerNext
     /\ UNCHANGED <<bufferVars, codecVars, httpVars, clockVars, mailVars,
                    historyVars, avatarVars, rpcVars, schemaVars, part>>
  \/ /\ part = "MailService" /\ MailNext
     /\ UNCHANGED <<bufferVars, codecVars, httpVars, clockVars, pollerVars,
                    historyVars, avatarVars, rpcVars, schemaVars, part>>
  \/ /\ part = "AgentHistory" /\ HistoryNext
     /\ UNCHANGED <<bufferVars, codecVars, httpVars, clockVars, pollerVars,
                    mailVars, avatarVars, rpcVars, schemaVars, part>>
  \/ /\ part = "AvatarStore" /\ AvatarNext
     /\ UNCHANGED <<bufferVars, codecVars, httpVars, clockVars, pollerVars,
                    mailVars, historyVars, rpcVars, schemaVars, part>>
  \/ /\ part = "RpcChannel" /\ RpcNext
     /\ UNCHANGED <<bufferVars, codecVars, httpVars, clockVars, pollerVars,
                    mailVars, historyVars, avatarVars, schemaVars, part>>
  \/ /\ part = "Schema" /\ SchemaNext
     /\ UNCHANGED <<bufferVars, codecVars, httpVars, clockVars, pollerVars,
                    mailVars, historyVars, avatarVars, rpcVars, part>>

Spec == Init /\ [][Next]_mcVars
=============================================================================
