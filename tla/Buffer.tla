-------------------------------- MODULE Buffer --------------------------------
(***************************************************************************)
(* The input and output buffer of a connection (src/src/Buffer.{h,cc}):    *)
(* a vector with a reader and a writer index, whose operations slide,      *)
(* grow and reset it.  Each operation is a function on the record that     *)
(* stands for a Buffer; the specification calls them in any order.         *)
(***************************************************************************)
EXTENDS Integers, Sequences

CONSTANTS
    Byte,
    Zero,               \* a byte of buffer_ that was never written
    kCheapPrepend,      \* 8 in the code
    kInitialSize,       \* 1024 in the code
    ExtraBuf,           \* size of extrabuf in readFd, 65536 in the code
    MaxLen,             \* bound: bytes of one append or read
    MaxReadable         \* bound: bytes in the buffer

ASSUME PrependAssumption == kCheapPrepend \in Nat
ASSUME SizeAssumption == kInitialSize \in Nat
ASSUME ExtraBufAssumption == ExtraBuf \in Nat
ASSUME BoundsAssumption == MaxLen \in Nat /\ MaxReadable \in Nat

VARIABLES
    buf,        \* the Buffer: buffer_, readerIndex_ and writerIndex_
    in,         \* history: the bytes of the last append or read
    out         \* what the last operation that reads bytes handed out

vars == <<buf, in, out>>

Zeros(n) == [i \in 1..n |-> Zero]

-----------------------------------------------------------------------------
size(b) == Len(b.bytes)
readableBytes(b) == b.writer - b.reader
writableBytes(b) == size(b) - b.writer
prependableBytes(b) == b.reader

\* [begin() + from, begin() + to)
Slice(b, from, to) == SubSeq(b.bytes, from + 1, to)

\* The readable bytes, from peek() on.
Content(b) == Slice(b, b.reader, b.writer)

RetrieveAll(b) == [b EXCEPT !.reader = kCheapPrepend, !.writer = kCheapPrepend]

RetrieveKeepsWriter(b, len) ==      \* mutant: resets one index only
    IF len < readableBytes(b) THEN [b EXCEPT !.reader = @ + len]
                              ELSE [b EXCEPT !.reader = kCheapPrepend]

Retrieve(b, len) ==
    IF len < readableBytes(b) THEN [b EXCEPT !.reader = @ + len]
                              ELSE RetrieveAll(b)

\* std::copy of data to begin() + at, and the vector's resize.
Copy(bytes, at, data) ==
    [i \in 1..Len(bytes) |->
        IF i \in at + 1..at + Len(data) THEN data[i - at] ELSE bytes[i]]
Resize(bytes, n) == bytes \o Zeros(n - Len(bytes))

MakeSpaceCountsPrepend(b, len) ==   \* mutant: lets data into the prepend area
    IF writableBytes(b) + prependableBytes(b) < len
    THEN [b EXCEPT !.bytes = Resize(@, b.writer + len)]
    ELSE [bytes |-> Copy(b.bytes, kCheapPrepend, Content(b)),
          reader |-> kCheapPrepend,
          writer |-> kCheapPrepend + readableBytes(b)]

MakeSpaceAlwaysGrows(b, len) ==     \* mutant: never slides
    [b EXCEPT !.bytes = Resize(@, b.writer + len)]

\* Grow, or slide the readable bytes down to kCheapPrepend.
MakeSpace(b, len) ==
    IF writableBytes(b) + prependableBytes(b) < len + kCheapPrepend
    THEN [b EXCEPT !.bytes = Resize(@, b.writer + len)]
    ELSE [bytes |-> Copy(b.bytes, kCheapPrepend, Content(b)),
          reader |-> kCheapPrepend,
          writer |-> kCheapPrepend + readableBytes(b)]

EnsureWriteableBytes(b, len) ==
    IF writableBytes(b) < len THEN MakeSpace(b, len) ELSE b

\* append: make room, copy to beginWrite(), advance.
Appended(b, data) ==
    LET e == EnsureWriteableBytes(b, Len(data))
    IN  [e EXCEPT !.bytes = Copy(@, e.writer, data), !.writer = @ + Len(data)]

\* readFd when readv has delivered data: what fits went straight into the
\* writable bytes, the rest into extrabuf.
ReadFd(b, data) ==
    LET writable == writableBytes(b)
        n == Len(data)
        direct == SubSeq(data, 1, IF n <= writable THEN n ELSE writable)
        filled == [b EXCEPT !.bytes = Copy(@, b.writer, direct)]
    IN  IF n <= writable THEN [filled EXCEPT !.writer = @ + n]
        ELSE Appended([filled EXCEPT !.writer = size(b)],
                     SubSeq(data, writable + 1, n))

\* How much readv can deliver: extrabuf is used when it is the larger one.
ReadCapacity(b) ==
    writableBytes(b) + (IF writableBytes(b) < ExtraBuf THEN ExtraBuf ELSE 0)

-----------------------------------------------------------------------------
Data == UNION {[1..n -> Byte] : n \in 0..MaxLen}

Init ==
    /\ buf = [bytes |-> Zeros(kCheapPrepend + kInitialSize),
              reader |-> kCheapPrepend, writer |-> kCheapPrepend]
    /\ in = <<>>
    /\ out = <<>>

\* TcpConnection::sendInLoop keeps what it could not write.
DoAppend ==
    \E data \in Data :
        /\ readableBytes(buf) + Len(data) <= MaxReadable
        /\ buf' = Appended(buf, data)
        /\ in' = data
        /\ UNCHANGED out

\* TcpConnection::handleRead; an error of readv leaves the buffer alone.
DoReadFd ==
    \E data \in Data :
        /\ Len(data) <= ReadCapacity(buf)
        /\ readableBytes(buf) + Len(data) <= MaxReadable
        /\ buf' = ReadFd(buf, data)
        /\ in' = data
        /\ UNCHANGED out

\* writeFd: the kernel takes a part of the readable bytes, which stay.
WriteFd ==
    \E n \in 0..readableBytes(buf) :
        /\ out' = Slice(buf, buf.reader, buf.reader + n)
        /\ UNCHANGED <<buf, in>>

\* handleWrite retrieves what writeFd wrote; a user may retrieve any length.
DoRetrieve ==
    \E len \in 0..MaxReadable :
        /\ buf' = Retrieve(buf, len)
        /\ UNCHANGED <<in, out>>

\* retrieveAsString and retrieveAllAsString.
RetrieveAsString ==
    \E len \in 0..readableBytes(buf) :
        /\ out' = Slice(buf, buf.reader, buf.reader + len)
        /\ buf' = Retrieve(buf, len)
        /\ UNCHANGED in

Next == DoAppend \/ DoReadFd \/ WriteFd \/ DoRetrieve \/ RetrieveAsString

Spec == Init /\ [][Next]_vars

-----------------------------------------------------------------------------
(* 0 <= kCheapPrepend <= readerIndex_ <= writerIndex_ <= size, the picture at *)
(* the head of Buffer.h with the prepend area intact: no size_t difference    *)
(* wraps around and every copy stays inside the vector.                       *)
IndicesInOrder ==
    /\ buf.reader \in Nat /\ buf.writer \in Nat
    /\ kCheapPrepend <= buf.reader
    /\ buf.reader <= buf.writer
    /\ buf.writer <= size(buf)

(* Sliding, growing and the detour over extrabuf lose, repeat or reorder no   *)
(* byte: the buffer is a queue of bytes.                                      *)
BQ == INSTANCE ByteQueue WITH content <- Content(buf)

ImplementsByteQueue == BQ!Spec

(* The vector grows only when its readable bytes and the new ones do not fit  *)
(* behind the prepend area of the old one.                                    *)
GrowsOnlyWhenFull ==
    [][size(buf') > size(buf)
        => readableBytes(buf') > size(buf) - kCheapPrepend]_vars
=============================================================================
