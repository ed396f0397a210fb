-------------------------------- MODULE Codec -------------------------------
(***************************************************************************)
(* ProtobufCodecLite (net/protobuf) as IMCodec uses it: frames              *)
(*   length(4) tag(4) payload checksum(4)                                   *)
(* cut into arbitrary pieces by TCP, put together in the connection's input *)
(* Buffer, checked and delivered.  After a bad frame the connection is only *)
(* shut down for writing: its bytes stay in the buffer and the peer may go  *)
(* on sending.  Each iteration of onMessage's loop is a step.               *)
(***************************************************************************)
EXTENDS Buffer, FiniteSets

CONSTANTS
  Tag,              \* tag_, a sequence of bytes ("IM01")
  kMaxMessageLen,
  Payloads,         \* serialized messages
  Unparsable,       \* payloads ParseFromArray refuses
  ShortLens,        \* lengths below that of any message, which a peer may send
  MaxFrames         \* bound on the frames a peer sends

Int32Max == 2147483647

\* The header fits into the prependable bytes and a length into an int32_t; send
\* does not check that a message is one the receiver accepts.
ASSUME CodecAssumption ==
  /\ Tag \in Seq(0..255) /\ Tag # <<>> /\ 4 <= kCheapPrepend
  /\ kMaxMessageLen \in Nat /\ kMaxMessageLen < Int32Max /\ Len(Tag) + 4 <= kMaxMessageLen
  /\ MaxFrames \in Nat
  /\ Payloads \cup Unparsable \subseteq Seq(0..255)
  /\ Payloads \cap Unparsable = {}
  /\ \A p \in Payloads \cup Unparsable : Len(Tag) + Len(p) + 4 <= kMaxMessageLen
  /\ \A n \in ShortLens : n \in Nat /\ n < Len(Tag) + 4

VARIABLES
  wire,         \* bytes on the way
  input,        \* the connection's input buffer
  dispatching,  \* onMessage is running
  connected,    \* conn->connected(): not shut down yet
  reported,     \* history: error codes given to the error callback
  sentFrames,   \* history: what the peer sent
  delivered     \* history: payloads given to the message callback

codecVars == <<wire, input, dispatching, connected, reported, sentFrames, delivered>>

kHeaderLen == 4
kChecksumLen == 4
kMinMessageLen == Len(Tag) + kChecksumLen

\* adler32, as four bytes.
SumStep(acc, byte) == LET a == (acc[1] + byte) % 65521 IN <<a, (acc[2] + a) % 65521>>
Checksum(s) ==
  LET sum[i \in 0..Len(s)] == IF i = 0 THEN <<1, 0>> ELSE SumStep(sum[i - 1], s[i])
  IN ToNetwork(sum[Len(s)][2], 2) \o ToNetwork(sum[Len(s)][1], 2)

\* serializeToBuffer: room for the payload and the checksum is made first.
SerializeToBuffer(b, payload) ==
  LET e == ensureWritableBytes(b, Len(payload) + kChecksumLen)
  IN hasWritten([e EXCEPT !.data = Copy(@, payload, e.writerIndex)], Len(payload))

\* fillEmptyBuffer; send passes its content on.
FillEmptyBuffer(payload) ==
  LET body == SerializeToBuffer(append(NewBuffer, Tag), payload)
      summed == append(body, Checksum(toStringPiece(body)))
  IN prependInt(summed, readableBytes(summed), kHeaderLen)
Frame(payload) == toStringPiece(FillEmptyBuffer(payload))

\* What a peer may send: frames of send() and frames no send() makes.
Bad(kind) ==
  LET good == Frame(<<>>)
      other == [Tag EXCEPT ![1] = (@ + 1) % 256]
  IN CASE kind = "tooLong"  -> ToNetwork(kMaxMessageLen + 1, kHeaderLen) \o Zeros(kMinMessageLen)
       [] kind = "checksum" -> [good EXCEPT ![Len(good)] = (@ + 1) % 256]
       [] kind = "tag" -> ToNetwork(kMinMessageLen, kHeaderLen) \o other \o Checksum(other)
BadKinds == {"tooLong", "checksum", "tag"}
\* A whole frame of a length no message has; onMessage looks at its length only
\* once kMinMessageLen + kHeaderLen bytes have come, those behind it included.
Short(n) == ToNetwork(n, kHeaderLen) \o Zeros(n)
Good(payload) == [payload |-> payload, bytes |-> Frame(payload), ok |-> TRUE]
Refused(bytes) == [payload |-> <<>>, bytes |-> bytes, ok |-> FALSE]
Frames == {Good(p) : p \in Payloads}
            \cup {Refused(Frame(p)) : p \in Unparsable}
            \cup {Refused(Bad(k)) : k \in BadKinds}
            \cup {Refused(Short(n)) : n \in ShortLens}

\* parse: the payload, or an error.
Parse(body) ==
  LET signed == SubSeq(body, 1, Len(body) - kChecksumLen)
      payload == SubSeq(signed, Len(Tag) + 1, Len(signed))
  IN IF Checksum(signed) # SubSeq(body, Len(body) - kChecksumLen + 1, Len(body))
     THEN [error |-> "kCheckSumError", payload |-> payload]
     ELSE IF SubSeq(signed, 1, Len(Tag)) # Tag
     THEN [error |-> "kUnknownMessageType", payload |-> payload]
     ELSE IF payload \in Unparsable
     THEN [error |-> "kParseError", payload |-> payload]
     ELSE [error |-> "kNoError", payload |-> payload]

-----------------------------------------------------------------------------
PeerSends(f) ==
  /\ Len(sentFrames) < MaxFrames
  /\ sentFrames' = Append(sentFrames, f)
  /\ wire' = wire \o f.bytes
  /\ UNCHANGED <<input, dispatching, connected, reported, delivered>>

\* The connection reads n bytes and calls IMCodec::onMessage.
Receive(n) ==
  /\ ~dispatching
  /\ 0 < n /\ n <= Len(wire) /\ n <= ReadFdMax(input)
  /\ input' = readFd(input, SubSeq(wire, 1, n))
  /\ wire' = SubSeq(wire, n + 1, Len(wire))
  /\ dispatching' = TRUE
  /\ UNCHANGED <<connected, reported, sentFrames, delivered>>

\* defaultErrorCallback; the loop ends.
ReportError(code) ==
  /\ reported' = Append(reported, code)
  /\ connected' = FALSE
  /\ dispatching' = FALSE
  /\ UNCHANGED <<input, delivered>>

WholeFrame == readableBytes(input) >= kHeaderLen + peekInt(input, kHeaderLen)

\* Faulty: a bad frame is skipped; one frame is taken per call.
SkipFrame(code, len) ==
  /\ reported' = Append(reported, code)
  /\ connected' = FALSE
  /\ input' = retrieve(input, kHeaderLen + len)
  /\ UNCHANGED <<dispatching, delivered>>
DeliverOne(payload, len) ==
  /\ delivered' = Append(delivered, payload)
  /\ input' = retrieve(input, kHeaderLen + len)
  /\ dispatching' = FALSE
  /\ UNCHANGED <<connected, reported>>

RefuseFrame(code, len) == ReportError(code)
Deliver(payload, len) ==
  /\ delivered' = Append(delivered, payload)
  /\ input' = retrieve(input, kHeaderLen + len)
  /\ UNCHANGED <<dispatching, connected, reported>>

\* One iteration of onMessage.
OnMessage ==
  LET len == peekInt(input, kHeaderLen)
      result == Parse(SubSeq(peek(input, kHeaderLen + len), kHeaderLen + 1, kHeaderLen + len))
  IN /\ dispatching
     /\ IF readableBytes(input) < kMinMessageLen + kHeaderLen
        THEN dispatching' = FALSE /\ UNCHANGED <<input, connected, reported, delivered>>
        ELSE IF len > kMaxMessageLen \/ len < kMinMessageLen
        THEN ReportError("kInvalidLength")
        ELSE IF ~WholeFrame
        THEN dispatching' = FALSE /\ UNCHANGED <<input, connected, reported, delivered>>
        ELSE IF result.error = "kNoError"
        THEN Deliver(result.payload, len)
        ELSE RefuseFrame(result.error, len)
     /\ UNCHANGED <<wire, sentFrames>>

CodecInit ==
  /\ wire = <<>> /\ input = NewBuffer /\ dispatching = FALSE /\ connected = TRUE
  /\ reported = <<>> /\ sentFrames = <<>> /\ delivered = <<>>

CodecNext ==
  \/ \E f \in Frames : PeerSends(f)
  \/ \E n \in 1..Len(wire) : Receive(n)
  \/ OnMessage

CodecSpec == CodecInit /\ [][CodecNext]_codecVars

-----------------------------------------------------------------------------
FirstBad == IF \E i \in DOMAIN sentFrames : ~sentFrames[i].ok
            THEN SelectInSeq(sentFrames, LAMBDA f : ~f.ok) ELSE Len(sentFrames) + 1
Acceptable == [i \in 1..(FirstBad - 1) |-> sentFrames[i].payload]

\* However TCP cuts the stream, the messages delivered are those of the frames
\* before the first bad one, in order; nothing after it is ever delivered, no
\* matter how much the peer still sends, and no good frame is reported.
DeliveredIsPrefix ==
  /\ IsPrefix(delivered, Acceptable)
  /\ reported # <<>> => delivered = Acceptable /\ FirstBad <= Len(sentFrames)

\* The first bad frame is a short one, and not even with all that was sent behind
\* it are there the bytes from which on onMessage looks at a length.
ShortWaits ==
  /\ FirstBad <= Len(sentFrames)
  /\ Len(sentFrames[FirstBad].bytes) < kMinMessageLen + kHeaderLen
  /\ readableBytes(input) < kMinMessageLen + kHeaderLen

\* When all bytes have arrived and onMessage has returned, every frame before
\* the first bad one has been delivered, the bad one has been reported and the
\* connection is shut down just then: no whole frame waits for more data, but for
\* a bad one shorter than any message, which waits until bytes follow it.
NothingLeftBehind ==
  (wire = <<>> /\ ~dispatching) =>
    /\ delivered = Acceptable
    /\ (reported # <<>>) <=> (FirstBad <= Len(sentFrames) /\ ~ShortWaits)
    /\ connected <=> reported = <<>>

\* The codec turns the byte stream into the peer's messages, whole and in order.
StreamDecoded == DeliveredIsPrefix /\ NothingLeftBehind
=============================================================================
