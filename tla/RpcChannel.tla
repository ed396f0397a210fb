----------------------------- MODULE RpcChannel -----------------------------
(***************************************************************************)
(* net/protorpc: the RpcChannel of a client and the one RpcServer makes for  *)
(* its connection.  Threads call CallMethod at the same time, each up to the *)
(* next shared variable in a step; the loop of the client takes responses    *)
(* off the wire meanwhile.  Services answer in any order.  A request is      *)
(* known by the caller that sent it, a response by the request it is for.    *)
(*                                                                         *)
(* The connection may be lost at any moment, also within CallMethod, and     *)
(* with it what is on the way: RpcServer drops its channel then, while the   *)
(* client's stays with its calls until its owner deletes it.  Calls made in  *)
(* between are registered and never sent.                                   *)
(*                                                                         *)
(* What the raw pointers to a channel ask of their owners is assumed: a      *)
(* service runs its closure before the connection is lost, and a client      *)
(* deletes its channel after that, with no thread in CallMethod.             *)
(***************************************************************************)
EXTENDS Integers, Sequences, SequencesExt

CONSTANTS
  Callers,  \* threads that call a method
  Kinds     \* what is asked for, see Error

ASSUME RpcAssumption == Kinds \subseteq {"ok", "service", "method", "request"}

VARIABLES
  rpcUp,         \* the connection is up
  channel,       \* the RpcChannel of the client exists
  lastId,        \* id_
  caller,        \* callers: [at, id, kind]
  outstandings,  \* outstandings_: set of [id, of]
  toServer,      \* requests on the way: [id, of, kind]
  toClient,      \* responses on the way: [id, of, error]
  serving,       \* requests a service has not finished
  answers,       \* history: for each caller, what its closure ran with
  dropped        \* history: callers whose closure the destructor deleted

rpcVars == <<rpcUp, channel, lastId, caller, outstandings, toServer, toClient, serving,
             answers, dropped>>

-----------------------------------------------------------------------------
(* CallMethod of the client *)

\* The id is taken from an atomic counter.
TakeId(c, kind) ==
  /\ channel /\ caller[c].at = "start"
  /\ lastId' = lastId + 1
  /\ caller' = [caller EXCEPT ![c] = [at |-> "first", id |-> lastId + 1, kind |-> kind]]
  /\ UNCHANGED <<rpcUp, channel, outstandings, toServer, toClient, serving, answers, dropped>>

\* Faulty: the request is sent before the call is registered.
SendingFirst == "send"

\* CallMethod registers the call, then sends the request.
First == "register"
Does(c, what) == caller[c].at = IF what = First THEN "first" ELSE "second"
Onward(c) == [caller EXCEPT ![c].at = IF @ = "first" THEN "second" ELSE "sent"]

\* outstandings_[id] = out, under the mutex.
Register(c) ==
  /\ Does(c, "register")
  /\ outstandings' = outstandings \cup {[id |-> caller[c].id, of |-> c]}
  /\ caller' = Onward(c)
  /\ UNCHANGED <<rpcUp, channel, lastId, toServer, toClient, serving, answers, dropped>>

\* codec_.send: a connection that is not up drops the request.
SendRequest(c) ==
  /\ Does(c, "send")
  /\ toServer' = IF rpcUp THEN Append(toServer, [id |-> caller[c].id, of |-> c,
                                                 kind |-> caller[c].kind])
                 ELSE toServer
  /\ caller' = Onward(c)
  /\ UNCHANGED <<rpcUp, channel, lastId, outstandings, toClient, serving, answers, dropped>>

-----------------------------------------------------------------------------
(* onRpcMessage *)

\* REQUEST: the error each kind of request meets; "ok" names a method of a
\* registered service with a request that parses.
Error == [ok |-> "NO_ERROR", service |-> "NO_SERVICE",
          method |-> "NO_METHOD", request |-> "INVALID_REQUEST"]

OnRpcRequest ==
  /\ toServer # <<>>
  /\ toServer' = Tail(toServer)
  /\ LET r == Head(toServer)
     IN IF Error[r.kind] = "NO_ERROR"
        THEN serving' = serving \cup {r} /\ UNCHANGED toClient
        ELSE /\ toClient' = Append(toClient, [id |-> r.id, of |-> r.of, error |-> TRUE])
             /\ UNCHANGED serving
  /\ UNCHANGED <<rpcUp, channel, lastId, caller, outstandings, answers, dropped>>

\* The service runs its closure.
DoneCallback(r) ==
  /\ serving' = serving \ {r}
  /\ toClient' = Append(toClient, [id |-> r.id, of |-> r.of, error |-> FALSE])
  /\ UNCHANGED <<rpcUp, channel, lastId, caller, outstandings, toServer, answers, dropped>>

\* RESPONSE: the call with this id, if there is one, is over; without a response
\* in the message its closure runs all the same.
OnRpcResponse ==
  /\ toClient # <<>>
  /\ toClient' = Tail(toClient)
  /\ LET m == Head(toClient)
         found == {o \in outstandings : o.id = m.id}
     IN /\ outstandings' = outstandings \ found
        /\ answers' = [c \in Callers |->
             IF \E o \in found : o.of = c
             THEN Append(answers[c], IF m.error THEN "nothing" ELSE m.of) ELSE answers[c]]
  /\ UNCHANGED <<rpcUp, channel, lastId, caller, toServer, serving, dropped>>

\* The connection is lost: RpcServer::onConnection drops its channel, and no
\* message arrives any more.  What one end still does before it notices cannot
\* be seen at the other.
ConnectionLost ==
  /\ rpcUp /\ rpcUp' = FALSE
  /\ serving' = {} /\ toServer' = <<>> /\ toClient' = <<>>
  /\ UNCHANGED <<channel, lastId, caller, outstandings, answers, dropped>>

\* The owner of the client's channel deletes it, with what the calls that were
\* not answered left in outstandings_.
DeleteChannel ==
  /\ channel /\ ~rpcUp
  /\ \A c \in Callers : caller[c].at \in {"start", "sent"}
  /\ channel' = FALSE
  /\ dropped' = {o.of : o \in outstandings}
  /\ outstandings' = {}
  /\ UNCHANGED <<rpcUp, lastId, caller, toServer, toClient, serving, answers>>

-----------------------------------------------------------------------------
RpcInit ==
  /\ rpcUp = TRUE /\ channel = TRUE /\ lastId = 0 /\ outstandings = {} /\ serving = {}
  /\ caller = [c \in Callers |-> [at |-> "start", id |-> 0, kind |-> "none"]]
  /\ toServer = <<>> /\ toClient = <<>>
  /\ answers = [c \in Callers |-> <<>>] /\ dropped = {}

RpcNext ==
  \/ \E c \in Callers, kind \in Kinds : TakeId(c, kind)
  \/ \E c \in Callers : Register(c) \/ SendRequest(c)
  \/ OnRpcRequest
  \/ \E r \in serving : DoneCallback(r)
  \/ OnRpcResponse
  \/ ConnectionLost
  \/ DeleteChannel

RpcSpec == RpcInit /\ [][RpcNext]_rpcVars

-----------------------------------------------------------------------------
\* The messages on their way for a call, and whether it is in outstandings_.
OnTheWay(c) == {x \in Range(toServer) \cup serving \cup Range(toClient) : x.of = c}
Outstanding(c) == \E o \in outstandings : o.of = c

\* Every caller that has sent its request is, while the connection is up, either
\* waiting for exactly one response, which will find its registration, or its
\* closure ran once, with the response to its own request, or with nothing when
\* that was in error.  Once the connection is lost, also in the middle of
\* CallMethod or before it, a call without an answer hangs, with its closure
\* kept, until the owner deletes the channel, which deletes the closure.  No two
\* of these, and no other closure ever runs.
CallsAnsweredOnce ==
  \A c \in Callers :
    LET sent == caller[c].at = "sent"
        answered == answers[c] = <<IF caller[c].kind = "ok" THEN c ELSE "nothing">>
        open == answers[c] = <<>> /\ c \notin dropped
    IN /\ ~sent => open
       /\ sent => \/ /\ rpcUp /\ open /\ Outstanding(c)
                     /\ \E x \in OnTheWay(c) : OnTheWay(c) = {x}
                  \/ answered /\ c \notin dropped /\ ~Outstanding(c) /\ OnTheWay(c) = {}
                  \/ ~rpcUp /\ channel /\ open /\ Outstanding(c) /\ OnTheWay(c) = {}
                  \/ ~channel /\ answers[c] = <<>> /\ c \in dropped /\ ~Outstanding(c)
=============================================================================
