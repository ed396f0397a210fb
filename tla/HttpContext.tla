---------------------------- MODULE HttpContext -----------------------------
(***************************************************************************)
(* One connection of HttpServer (net/http): the line-by-line parser of      *)
(* HttpContext, which keeps its state between calls of onMessage, and the    *)
(* answers.  A line is a record; on the wire it is two pieces, the second   *)
(* with the CRLF, and TCP may deliver any number of pieces at a time.  A     *)
(* call of onMessage handles at most one request, so a second one in the    *)
(* buffer waits for the next data.  Each line of parseRequest's loop is a    *)
(* step.                                                                    *)
(***************************************************************************)
EXTENDS Integers, Sequences, SequencesExt

CONSTANTS
  Methods,     \* methods clients use, some of them unknown to setMethod
  Versions,    \* what stands after the path: "1.0", "1.1" or anything else
  Values,      \* values of the Connection header
  MaxLines     \* bound on the lines a client sends

ASSUME HttpAssumption == MaxLines \in Nat

VARIABLES
  clientLines, \* history: lines the client has sent
  httpWire,    \* pieces on the way
  httpBuf,     \* pieces in the input buffer
  parseState,  \* state_
  request,     \* request_
  parsing,     \* "idle", or onMessage is running: "parse" or "done"
  httpUp,      \* the connection is not shut down
  responses,   \* history: responses sent
  aborted      \* an assertion ended the process

httpVars == <<clientLines, httpWire, httpBuf, parseState, request, parsing,
              httpUp, responses, aborted>>

\* Request lines carry a number standing for path and query; a header line has
\* a field and a value; a line without a colon ends the headers.
RequestLine(m, n, v) == [kind |-> "request", method |-> m, path |-> n, version |-> v]
Connection(v) == [kind |-> "Connection", value |-> v]
Other == [kind |-> "Other", value |-> "x"]
Empty == [kind |-> "empty"]
Lines(n) == {RequestLine(m, n, v) : m \in Methods, v \in Versions}
              \cup {Connection(v) : v \in Values} \cup {Other, Empty}

Known == {"GET", "POST", "HEAD", "PUT", "DELETE"}
NoRequest == [method |-> "kInvalid", path |-> 0, version |-> "kUnknown",
              connection |-> ""]

\* setMethod returns whether it knows the method.
SetMethod(line) == line.kind = "request" /\ line.method \in Known

\* processRequestLine: what is set before the line turns out bad stays set.
ProcessRequestLine(req, line) ==
  IF ~SetMethod(line)
  THEN [ok |-> FALSE, req |-> req]
  ELSE [ok |-> line.version \in {"1.0", "1.1"},
        req |-> [req EXCEPT !.method = line.method, !.path = line.path,
                   !.version = IF line.version \in {"1.0", "1.1"} THEN line.version ELSE @]]

\* addHeader: the map keeps the last value of a field.
AddHeader(req, line) ==
  IF line.kind = "Connection" THEN [req EXCEPT !.connection = line.value] ELSE req
HasColon(line) == line.kind \in {"Connection", "Other"}

\* onRequest: the header of the request decides whether the server closes.
Closes(req) == \/ req.connection = "close"
               \/ req.version = "1.0" /\ req.connection # "Keep-Alive"
Response(req) == [status |-> 200, path |-> req.path, close |-> Closes(req)]
BadRequest == [status |-> 400, path |-> 0, close |-> TRUE]

-----------------------------------------------------------------------------
ClientSends(line) ==
  /\ Len(clientLines) < MaxLines
  /\ clientLines' = Append(clientLines, line)
  /\ httpWire' = httpWire \o <<[line |-> line, crlf |-> FALSE], [line |-> line, crlf |-> TRUE]>>
  /\ UNCHANGED <<httpBuf, parseState, request, parsing, httpUp, responses, aborted>>

HttpReceive(n) ==
  /\ parsing = "idle" /\ ~aborted
  /\ httpBuf' = httpBuf \o SubSeq(httpWire, 1, n)
  /\ httpWire' = SubSeq(httpWire, n + 1, Len(httpWire))
  /\ parsing' = "parse"
  /\ UNCHANGED <<clientLines, parseState, request, httpUp, responses, aborted>>

HasLine == \E i \in DOMAIN httpBuf : httpBuf[i].crlf
Line == httpBuf[1].line

NoLine ==
  /\ parsing = "parse" /\ ~HasLine
  /\ parsing' = "done"
  /\ UNCHANGED <<clientLines, httpWire, httpBuf, parseState, request, httpUp, responses, aborted>>

\* send and shutdown: nothing goes out after a shutdown.
Send(resp) ==
  /\ responses' = IF httpUp THEN Append(responses, resp) ELSE responses
  /\ httpUp' = (httpUp /\ ~resp.close)

\* kExpectRequestLine.  A bad line stays in the buffer and is parsed again
\* with the next data, where setMethod asserts that no method is set.
ParseRequestLine ==
  LET result == ProcessRequestLine(request, Line)
  IN /\ parsing = "parse" /\ HasLine /\ parseState = "kExpectRequestLine" /\ ~aborted
     /\ IF Line.kind # "empty" /\ request.method # "kInvalid"
        THEN /\ aborted' = TRUE
             /\ UNCHANGED <<httpBuf, parseState, request, parsing, httpUp, responses>>
        ELSE /\ request' = result.req
             /\ UNCHANGED aborted
             /\ IF result.ok
                THEN /\ httpBuf' = SubSeq(httpBuf, 3, Len(httpBuf))
                     /\ parseState' = "kExpectHeaders"
                     /\ UNCHANGED <<parsing, httpUp, responses>>
                ELSE /\ Send(BadRequest)
                     /\ parsing' = "done"
                     /\ UNCHANGED <<httpBuf, parseState>>
     /\ UNCHANGED <<clientLines, httpWire>>

\* kExpectHeaders.
ParseHeader ==
  /\ parsing = "parse" /\ HasLine /\ parseState = "kExpectHeaders" /\ ~aborted
  /\ IF HasColon(Line)
     THEN request' = AddHeader(request, Line) /\ UNCHANGED <<parseState, parsing>>
     ELSE parseState' = "kGotAll" /\ parsing' = "done" /\ UNCHANGED request
  /\ httpBuf' = SubSeq(httpBuf, 3, Len(httpBuf))
  /\ UNCHANGED <<clientLines, httpWire, httpUp, responses, aborted>>

\* Faulty: the context keeps the request it has answered.
KeepRequest == [request EXCEPT !.method = "kInvalid"]

ResetRequest == NoRequest

\* The rest of onMessage: onRequest and reset when a request is complete.
OnRequest ==
  /\ parsing = "done" /\ ~aborted
  /\ parsing' = "idle"
  /\ IF parseState = "kGotAll"
     THEN /\ Send(Response(request))
          /\ parseState' = "kExpectRequestLine"
          /\ request' = ResetRequest
     ELSE UNCHANGED <<parseState, request, httpUp, responses>>
  /\ UNCHANGED <<clientLines, httpWire, httpBuf, aborted>>

HttpInit ==
  /\ clientLines = <<>> /\ httpWire = <<>> /\ httpBuf = <<>>
  /\ parseState = "kExpectRequestLine" /\ request = NoRequest /\ parsing = "idle"
  /\ httpUp = TRUE /\ responses = <<>> /\ aborted = FALSE

HttpNext ==
  \/ \E line \in Lines(Len(clientLines) + 1) : ClientSends(line)
  \/ \E n \in 1..Len(httpWire) : HttpReceive(n)
  \/ NoLine
  \/ ParseRequestLine
  \/ ParseHeader
  \/ OnRequest

HttpSpec == HttpInit /\ [][HttpNext]_httpVars

-----------------------------------------------------------------------------
\* Reference: the answers to a stream of whole lines read one after the other.
Answer(acc, line) ==
  IF ~acc.up THEN acc
  ELSE IF acc.req = NoRequest
  THEN LET result == ProcessRequestLine(NoRequest, line)
       IN IF result.ok THEN [acc EXCEPT !.req = result.req]
          ELSE [acc EXCEPT !.up = FALSE, !.out = Append(@, BadRequest)]
  ELSE IF HasColon(line) THEN [acc EXCEPT !.req = AddHeader(@, line)]
  ELSE [out |-> Append(acc.out, Response(acc.req)), req |-> NoRequest,
        up |-> ~Closes(acc.req)]
NothingRead == [out |-> <<>>, req |-> NoRequest, up |-> TRUE]
Answers(lines) ==
  LET after[i \in 0..Len(lines)] ==
        IF i = 0 THEN NothingRead ELSE Answer(after[i - 1], lines[i])
  IN after[Len(lines)].out

\* However the requests are cut and pipelined, the responses are those of the
\* lines read one by one, in order: no header or method of one request reaches
\* the next, and nothing is answered after a bad request or a closing answer.
ResponsesMatchStream == IsPrefix(responses, Answers(clientLines))
=============================================================================
