------------------------------- MODULE Buffer -------------------------------
(***************************************************************************)
(* Buffer (net/Buffer.h, Buffer.cc): bytes between two indices of a vector. *)
(* The operators are the member functions, on a record of the three fields; *)
(* readerIndex_ counts the bytes before the content, as in the source.  The *)
(* machine below calls them in any order beside the byte queue they promise *)
(* to be.                                                                   *)
(***************************************************************************)
EXTENDS Integers, Sequences, SequencesExt

CONSTANTS
  kCheapPrepend,
  kInitialSize,
  ExtraBuf,       \* sizeof extrabuf in readFd
  Bytes,          \* bytes the machine writes
  MaxContent      \* bound on the bytes in the machine's buffer

ASSUME BufferAssumption ==
  /\ kCheapPrepend \in Nat /\ kInitialSize \in Nat
  /\ ExtraBuf \in Nat /\ MaxContent \in Nat
  /\ Bytes \subseteq 0..255

Zeros(n) == [i \in 1..n |-> 0]
NewBuffer == [data |-> Zeros(kCheapPrepend + kInitialSize),
              readerIndex |-> kCheapPrepend, writerIndex |-> kCheapPrepend]

readableBytes(b) == b.writerIndex - b.readerIndex
writableBytes(b) == Len(b.data) - b.writerIndex
prependableBytes(b) == b.readerIndex
toStringPiece(b) == SubSeq(b.data, b.readerIndex + 1, b.writerIndex)
peek(b, len) == SubSeq(b.data, b.readerIndex + 1, b.readerIndex + len)

\* std::copy of s to the bytes from position pos on.
Copy(data, s, pos) ==
  [i \in DOMAIN data |-> IF i > pos /\ i <= pos + Len(s) THEN s[i - pos] ELSE data[i]]

\* findCRLF, findEOL: the number of bytes before the first one, or -1.
Find(b, pattern) ==
  LET s == toStringPiece(b)
      at == {i \in 0..(Len(s) - Len(pattern)) :
               SubSeq(s, i + 1, i + Len(pattern)) = pattern}
  IN IF at = {} THEN -1 ELSE CHOOSE i \in at : \A j \in at : i <= j
findCRLF(b) == Find(b, <<13, 10>>)
findEOL(b) == Find(b, <<10>>)

retrieveAll(b) == [b EXCEPT !.readerIndex = kCheapPrepend, !.writerIndex = kCheapPrepend]
retrieve(b, len) ==
  IF len < readableBytes(b) THEN [b EXCEPT !.readerIndex = @ + len] ELSE retrieveAll(b)

\* Faulty: the new write index forgets the prependable bytes.
makeSpaceAtZero(b, len) ==
  IF writableBytes(b) + prependableBytes(b) < len + kCheapPrepend
  THEN [b EXCEPT !.data = @ \o Zeros(b.writerIndex + len - Len(@))]
  ELSE [data |-> Copy(b.data, toStringPiece(b), kCheapPrepend),
        readerIndex |-> kCheapPrepend,
        writerIndex |-> readableBytes(b)]

\* makeSpace: grow, or move the content to the front.
makeSpace(b, len) ==
  IF writableBytes(b) + prependableBytes(b) < len + kCheapPrepend
  THEN [b EXCEPT !.data = @ \o Zeros(b.writerIndex + len - Len(@))]
  ELSE [data |-> Copy(b.data, toStringPiece(b), kCheapPrepend),
        readerIndex |-> kCheapPrepend,
        writerIndex |-> kCheapPrepend + readableBytes(b)]

ensureWritableBytes(b, len) == IF writableBytes(b) < len THEN makeSpace(b, len) ELSE b
hasWritten(b, len) == [b EXCEPT !.writerIndex = @ + len]
unwrite(b, len) == [b EXCEPT !.writerIndex = @ - len]

append(b, s) ==
  LET e == ensureWritableBytes(b, Len(s))
  IN hasWritten([e EXCEPT !.data = Copy(@, s, e.writerIndex)], Len(s))

prepend(b, s) ==
  [b EXCEPT !.readerIndex = @ - Len(s), !.data = Copy(@, s, b.readerIndex - Len(s))]

shrink(b, reserve) ==
  append(ensureWritableBytes(NewBuffer, readableBytes(b) + reserve), toStringPiece(b))

\* hostToNetwork and back, for integers of 8, 16 and 32 bits: size bytes, the
\* most significant one first.  Those of 64 bits are beyond TLC's integers.
Radix == <<1, 256, 256 * 256, 256 * 256 * 256>>
ToNetwork(x, size) == [i \in 1..size |-> (x \div Radix[size - i + 1]) % 256]
FromNetwork(s) ==
  IF Len(s) = 1 THEN s[1]
  ELSE IF Len(s) = 2 THEN 256 * s[1] + s[2]
  ELSE 256 * (256 * (256 * s[1] + s[2]) + s[3]) + s[4]
appendInt(b, x, size) == append(b, ToNetwork(x, size))
prependInt(b, x, size) == prepend(b, ToNetwork(x, size))
peekInt(b, size) == FromNetwork(peek(b, size))
readInt(b, size) == retrieve(b, size)

\* readFd of a descriptor that yields the bytes s: what does not fit behind the
\* content goes through extrabuf.
readFd(b, s) ==
  LET writable == writableBytes(b)
  IN IF Len(s) <= writable
     THEN hasWritten([b EXCEPT !.data = Copy(@, s, b.writerIndex)], Len(s))
     ELSE append([b EXCEPT !.data = Copy(@, SubSeq(s, 1, writable), b.writerIndex),
                           !.writerIndex = Len(b.data)],
                 SubSeq(s, writable + 1, Len(s)))
ReadFdMax(b) == writableBytes(b) + ExtraBuf

-----------------------------------------------------------------------------
(* A buffer used in any order, beside the byte queue it stands for *)

VARIABLES buf, content

bufferVars == <<buf, content>>
Chunks(n) == UNION {[1..k -> Bytes] : k \in 1..n}
Room == MaxContent - Len(content)

AppendBytes(s) ==
  /\ Len(s) <= Room
  /\ buf' = append(buf, s) /\ content' = content \o s
ReadFd(s) ==
  /\ Len(s) <= Room /\ Len(s) <= ReadFdMax(buf)
  /\ buf' = readFd(buf, s) /\ content' = content \o s
Prepend(s) ==
  /\ Len(s) <= prependableBytes(buf) /\ Len(s) <= Room
  /\ buf' = prepend(buf, s) /\ content' = s \o content
Retrieve(n) ==
  /\ n <= Len(content)
  /\ buf' = retrieve(buf, n) /\ content' = SubSeq(content, n + 1, Len(content))
Unwrite(n) ==
  /\ n <= Len(content)
  /\ buf' = unwrite(buf, n) /\ content' = SubSeq(content, 1, Len(content) - n)
Shrink(n) == buf' = shrink(buf, n) /\ UNCHANGED content
ReadInt(size) ==
  /\ size <= Len(content)
  /\ buf' = readInt(buf, size)
  /\ content' = SubSeq(content, size + 1, Len(content))
AppendInt(size) ==
  /\ 0 < size /\ size <= Len(content) /\ size <= Room
  /\ buf' = appendInt(buf, peekInt(buf, size), size)
  /\ content' = content \o SubSeq(content, 1, size)
PrependInt(size) ==
  /\ 0 < size /\ size <= Len(content) /\ size <= Room /\ size <= prependableBytes(buf)
  /\ buf' = prependInt(buf, peekInt(buf, size), size)
  /\ content' = SubSeq(content, 1, size) \o content

BufferInit == buf = NewBuffer /\ content = <<>>
BufferNext ==
  \/ \E s \in Chunks(2) : AppendBytes(s)
  \/ \E s \in Chunks(3) : ReadFd(s)
  \/ \E s \in Chunks(2) : Prepend(s)
  \/ \E n \in 0..MaxContent : Retrieve(n)
  \/ \E n \in 1..MaxContent : Unwrite(n)
  \/ \E n \in {0, 2} : Shrink(n)
  \/ \E size \in {1, 2, 4} : ReadInt(size)
  \/ \E size \in {1, 2, 4} : AppendInt(size)
  \/ \E size \in {1, 2, 4} : PrependInt(size)

BufferSpec == BufferInit /\ [][BufferNext]_bufferVars

\* A carriage return and a newline follow the first i bytes of s.
CrlfAt(s, i) == s[i + 1] = 13 /\ s[i + 2] = 10

\* Whatever the history of growing, moving and wrapping back to the front, the
\* bytes between the indices are the queue the calls describe, an integer read
\* being the one written (Buffer.h's picture: readerIndex <= writerIndex <=
\* size), and searches find the first match in it.
BufferIsByteQueue ==
  LET eol == findEOL(buf)
      crlf == findCRLF(buf)
  IN /\ 0 <= buf.readerIndex /\ buf.readerIndex <= buf.writerIndex
     /\ buf.writerIndex <= Len(buf.data)
     /\ toStringPiece(buf) = content
     /\ IF eol = -1 THEN \A i \in DOMAIN content : content[i] # 10
        ELSE content[eol + 1] = 10 /\ \A i \in 1..eol : content[i] # 10
     /\ IF crlf = -1 THEN \A i \in 0..(Len(content) - 2) : ~CrlfAt(content, i)
        ELSE CrlfAt(content, crlf) /\ \A i \in 0..(crlf - 1) : ~CrlfAt(content, i)
=============================================================================
