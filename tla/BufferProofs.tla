----------------------------- MODULE BufferProofs -----------------------------
(***************************************************************************)
(* Proofs about Buffer.tla for any initial size, prepend area and bounds.  *)
(***************************************************************************)
EXTENDS Buffer, SequenceTheorems, TLAPS

Cell == Byte \cup {Zero}
BufferRecord == [bytes : Seq(Cell), reader : Nat, writer : Nat]

\* The indices of one Buffer are in order.
InOrder(b) ==
    /\ b \in BufferRecord
    /\ kCheapPrepend <= b.reader
    /\ b.reader <= b.writer
    /\ b.writer <= size(b)

-----------------------------------------------------------------------------
LEMMA ZerosType ==
    ASSUME NEW n \in Nat
    PROVE  Zeros(n) \in Seq(Cell) /\ Len(Zeros(n)) = n
BY DEF Zeros, Cell

LEMMA ResizeType ==
    ASSUME NEW bytes \in Seq(Cell), NEW n \in Nat, Len(bytes) <= n
    PROVE  Resize(bytes, n) \in Seq(Cell) /\ Len(Resize(bytes, n)) = n
<1>1. Len(bytes) \in Nat /\ n - Len(bytes) \in Nat
  BY LenProperties
<1>2. /\ Zeros(n - Len(bytes)) \in Seq(Cell)
      /\ Len(Zeros(n - Len(bytes))) = n - Len(bytes)
  BY <1>1, ZerosType
<1> QED
  BY <1>1, <1>2, ConcatProperties DEF Resize

LEMMA CopyType ==
    ASSUME NEW bytes \in Seq(Cell), NEW at \in Nat, NEW data \in Seq(Cell)
    PROVE  /\ Copy(bytes, at, data) \in Seq(Cell)
           /\ Len(Copy(bytes, at, data)) = Len(bytes)
<1>1. Len(bytes) \in Nat /\ Len(data) \in Nat
  BY LenProperties
<1>2. \A i \in 1..Len(bytes) :
         i \in at + 1..at + Len(data) => i - at \in 1..Len(data)
  BY <1>1
<1>3. \A i \in 1..Len(data) : data[i] \in Cell
  BY ElementOfSeq
<1>4. \A i \in 1..Len(bytes) : bytes[i] \in Cell
  BY ElementOfSeq
<1>5. Copy(bytes, at, data) \in [1..Len(bytes) -> Cell]
  BY <1>2, <1>3, <1>4 DEF Copy
<1> QED
  BY <1>1, <1>5

LEMMA SliceType ==
    ASSUME NEW b \in BufferRecord, InOrder(b), NEW n \in Nat,
           b.reader + n <= b.writer
    PROVE  /\ Slice(b, b.reader, b.reader + n) \in Seq(Cell)
           /\ Len(Slice(b, b.reader, b.reader + n)) = n
<1>1. b.bytes \in Seq(Cell) /\ b.reader \in Nat /\ b.writer \in Nat
  BY DEF BufferRecord
<1>2. \A i \in b.reader + 1..b.reader + n : b.bytes[i] \in Cell
  BY <1>1, ElementOfSeq DEF InOrder, size
<1> DEFINE from == b.reader + 1
           to == b.reader + n
           s == SubSeq(b.bytes, from, to)
<1>3. from \in Int /\ to \in Int /\ to - from + 1 = n
  BY <1>1
<1>4. s \in Seq(Cell) /\ Len(s) = IF from <= to THEN to - from + 1 ELSE 0
  <2> HIDE DEF from, to
  <2>1. \A i \in from..to : b.bytes[i] \in Cell
    BY <1>2 DEF from, to
  <2> QED
    BY <1>3, <2>1, SubSeqProperties
<1>5. Len(s) = n
  BY <1>1, <1>4
<1> QED
  BY <1>4, <1>5 DEF Slice

LEMMA ContentType ==
    ASSUME NEW b \in BufferRecord, InOrder(b)
    PROVE  Content(b) \in Seq(Cell) /\ Len(Content(b)) = readableBytes(b)
<1>1. readableBytes(b) \in Nat /\ b.reader + readableBytes(b) = b.writer
  BY DEF BufferRecord, InOrder, readableBytes
<1> DEFINE n == readableBytes(b)
<1> HIDE DEF n
<1>2. n \in Nat /\ b.reader + n = b.writer /\ b.reader + n <= b.writer
  BY <1>1 DEF n, BufferRecord
<1>3. /\ Slice(b, b.reader, b.reader + n) \in Seq(Cell)
      /\ Len(Slice(b, b.reader, b.reader + n)) = n
  BY <1>2, SliceType
<1> QED
  BY <1>2, <1>3 DEF Content, n

LEMMA RetrieveInOrder ==
    ASSUME NEW b \in BufferRecord, InOrder(b), NEW len \in Nat
    PROVE  InOrder(Retrieve(b, len))
<1>1. /\ b.bytes \in Seq(Cell) /\ b.reader \in Nat /\ b.writer \in Nat
      /\ Len(b.bytes) \in Nat /\ kCheapPrepend \in Nat
      /\ kCheapPrepend <= b.reader
      /\ b.reader <= b.writer
      /\ b.writer <= Len(b.bytes)
  BY PrependAssumption, LenProperties DEF InOrder, BufferRecord, size
<1> DEFINE r == Retrieve(b, len)
<1>2. CASE len < readableBytes(b)
  <2>1. r = [b EXCEPT !.reader = @ + len]
    BY <1>2 DEF Retrieve
  <2>2. /\ r \in BufferRecord
        /\ r.bytes = b.bytes /\ r.reader = b.reader + len /\ r.writer = b.writer
    BY <1>1, <2>1 DEF BufferRecord
  <2> HIDE DEF r
  <2>3. InOrder(r)
    BY <1>1, <1>2, <2>2 DEF InOrder, size, readableBytes
  <2> QED
    BY <2>3 DEF r
<1>3. CASE ~(len < readableBytes(b))
  <2>1. r = [b EXCEPT !.reader = kCheapPrepend, !.writer = kCheapPrepend]
    BY <1>3 DEF Retrieve, RetrieveAll
  <2>2. /\ r \in BufferRecord
        /\ r.bytes = b.bytes
        /\ r.reader = kCheapPrepend /\ r.writer = kCheapPrepend
    BY <1>1, <2>1 DEF BufferRecord
  <2> HIDE DEF r
  <2>3. InOrder(r)
    BY <1>1, <2>2 DEF InOrder, size
  <2> QED
    BY <2>3 DEF r
<1> QED
  BY <1>2, <1>3

\* After ensureWriteableBytes(len) there is room for len bytes, and the number
\* of readable bytes is the same.
LEMMA EnsureMakesRoom ==
    ASSUME NEW b \in BufferRecord, InOrder(b), NEW len \in Nat
    PROVE  LET e == EnsureWriteableBytes(b, len)
           IN  /\ InOrder(e)
               /\ len <= writableBytes(e)
               /\ readableBytes(e) = readableBytes(b)
<1> DEFINE e == EnsureWriteableBytes(b, len)
<1>1. /\ b.bytes \in Seq(Cell) /\ b.reader \in Nat /\ b.writer \in Nat
      /\ size(b) \in Nat /\ kCheapPrepend \in Nat
      /\ kCheapPrepend <= b.reader
      /\ b.reader <= b.writer
      /\ b.writer <= size(b)
  BY PrependAssumption, LenProperties DEF InOrder, BufferRecord, size
<1>2. CASE ~(writableBytes(b) < len)
  BY <1>1, <1>2 DEF EnsureWriteableBytes, writableBytes
<1>3. CASE /\ writableBytes(b) < len
           /\ writableBytes(b) + prependableBytes(b) < len + kCheapPrepend
  <2>1. e = [b EXCEPT !.bytes = Resize(@, b.writer + len)]
    BY <1>3 DEF EnsureWriteableBytes, MakeSpace
  <2>2. Len(b.bytes) <= b.writer + len
    BY <1>1, <1>3 DEF writableBytes, size
  <2>3. /\ Resize(b.bytes, b.writer + len) \in Seq(Cell)
        /\ Len(Resize(b.bytes, b.writer + len)) = b.writer + len
    BY <1>1, <2>2, ResizeType
  <2>4. /\ e \in BufferRecord
        /\ e.bytes = Resize(b.bytes, b.writer + len)
        /\ e.reader = b.reader /\ e.writer = b.writer
    BY <2>1, <2>3 DEF BufferRecord
  <2> HIDE DEF e
  <2> QED
    BY <1>1, <2>3, <2>4
       DEF InOrder, size, writableBytes, readableBytes, e
<1>4. CASE /\ writableBytes(b) < len
           /\ ~(writableBytes(b) + prependableBytes(b) < len + kCheapPrepend)
  <2> DEFINE moved == Copy(b.bytes, kCheapPrepend, Content(b))
  <2>1. e = [bytes |-> moved, reader |-> kCheapPrepend,
             writer |-> kCheapPrepend + readableBytes(b)]
    BY <1>4 DEF EnsureWriteableBytes, MakeSpace
  <2>2. moved \in Seq(Cell) /\ Len(moved) = Len(b.bytes)
    BY <1>1, ContentType, CopyType
  <2> HIDE DEF moved
  <2>3. /\ e.bytes = moved
        /\ e.reader = kCheapPrepend
        /\ e.writer = kCheapPrepend + readableBytes(b)
    BY <2>1
  <2>4. readableBytes(b) \in Nat
    BY <1>1 DEF readableBytes
  <2>5. e \in BufferRecord
    BY <1>1, <2>1, <2>2, <2>4 DEF BufferRecord
  <2> HIDE DEF e
  <2>6. readableBytes(e) = readableBytes(b) /\ size(e) = size(b)
    BY <1>1, <2>2, <2>3, <2>4 DEF readableBytes, size
  <2>7. e.writer <= size(e) /\ len <= writableBytes(e)
    BY <1>1, <1>4, <2>3, <2>6
       DEF writableBytes, prependableBytes, readableBytes
  <2>8. InOrder(e)
    BY <1>1, <2>3, <2>4, <2>5, <2>7 DEF InOrder
  <2> QED
    BY <2>6, <2>7, <2>8 DEF e
<1> QED
  BY <1>2, <1>3, <1>4

LEMMA AppendInOrder ==
    ASSUME NEW b \in BufferRecord, InOrder(b), NEW data \in Seq(Cell)
    PROVE  /\ InOrder(Appended(b, data))
           /\ readableBytes(Appended(b, data)) = readableBytes(b) + Len(data)
<1> DEFINE e == EnsureWriteableBytes(b, Len(data))
           bytes == Copy(e.bytes, e.writer, data)
<1>1. Len(data) \in Nat
  BY LenProperties
<1>2. InOrder(e) /\ Len(data) <= writableBytes(e)
                 /\ readableBytes(e) = readableBytes(b)
  BY <1>1, EnsureMakesRoom
<1> HIDE DEF e
<1>3. /\ e \in BufferRecord
      /\ e.bytes \in Seq(Cell) /\ e.writer \in Nat /\ e.reader \in Nat
      /\ Len(e.bytes) \in Nat
  BY <1>2, LenProperties DEF InOrder, BufferRecord
<1>4. bytes \in Seq(Cell) /\ Len(bytes) = Len(e.bytes)
  BY <1>3, CopyType
<1> DEFINE w == e.writer + Len(data)
<1>5. Appended(b, data) = [e EXCEPT !.bytes = bytes, !.writer = w] /\ w \in Nat
  BY <1>1, <1>3 DEF Appended, e
<1> DEFINE a == Appended(b, data)
<1> HIDE DEF bytes, w
<1>6. /\ a \in BufferRecord /\ a.bytes = bytes /\ a.reader = e.reader
      /\ a.writer = w
  BY <1>3, <1>4, <1>5 DEF BufferRecord
<1> HIDE DEF a
<1>7. InOrder(a) /\ readableBytes(a) = readableBytes(b) + Len(data)
  BY <1>1, <1>2, <1>3, <1>4, <1>6, PrependAssumption
     DEF InOrder, writableBytes, readableBytes, size, w
<1> QED
  BY <1>7 DEF a

LEMMA ReadFdInOrder ==
    ASSUME NEW b \in BufferRecord, InOrder(b), NEW data \in Seq(Cell)
    PROVE  InOrder(ReadFd(b, data))
<1> DEFINE writable == writableBytes(b)
           n == Len(data)
           fits == IF n <= writable THEN n ELSE writable
           direct == SubSeq(data, 1, fits)
           bytes == Copy(b.bytes, b.writer, direct)
           filled == [b EXCEPT !.bytes = bytes]
<1>1. /\ b.bytes \in Seq(Cell) /\ b.reader \in Nat /\ b.writer \in Nat
      /\ Len(b.bytes) \in Nat /\ n \in Nat /\ writable \in Nat /\ fits \in 0..n
  BY LenProperties DEF InOrder, BufferRecord, size, writableBytes
<1>2. \A i \in 1..n : data[i] \in Cell
  BY ElementOfSeq
<1>3. direct \in Seq(Cell)
  <2>1. \A i \in 1..fits : data[i] \in Cell
    BY <1>1, <1>2
  <2> HIDE DEF fits
  <2> QED
    BY <1>1, <2>1, SubSeqProperties
<1>4. bytes \in Seq(Cell) /\ Len(bytes) = Len(b.bytes)
  BY <1>1, <1>3, CopyType
<1> HIDE DEF bytes
<1>5. /\ filled.bytes = bytes /\ filled.writer = b.writer
      /\ filled.reader = b.reader /\ filled \in BufferRecord
  BY <1>1, <1>4 DEF BufferRecord
<1>6. CASE n <= writable
  <2> DEFINE r == [filled EXCEPT !.writer = @ + n]
  <2>1. ReadFd(b, data) = r
    BY <1>6 DEF ReadFd, bytes
  <2> HIDE DEF filled
  <2>2. /\ r \in BufferRecord /\ r.bytes = bytes /\ r.reader = b.reader
        /\ r.writer = b.writer + n
    BY <1>1, <1>4, <1>5 DEF BufferRecord
  <2> HIDE DEF r
  <2>3. InOrder(r)
    BY <1>1, <1>4, <1>6, <2>2, PrependAssumption
       DEF InOrder, size, writableBytes
  <2> QED
    BY <2>1, <2>3 DEF r
<1>7. CASE ~(n <= writable)
  <2> DEFINE full == [filled EXCEPT !.writer = size(b)]
             rest == SubSeq(data, writable + 1, n)
  <2>1. ReadFd(b, data) = Appended(full, rest)
    BY <1>7 DEF ReadFd, bytes
  <2>2. /\ full \in BufferRecord /\ full.bytes = bytes
        /\ full.reader = b.reader /\ full.writer = Len(b.bytes)
    BY <1>1, <1>4, <1>5 DEF BufferRecord, size
  <2>3. rest \in Seq(Cell)
    <3>1. \A i \in writable + 1..n : data[i] \in Cell
      BY <1>1, <1>2
    <3> QED
      BY <1>1, <3>1, SubSeqProperties
  <2> HIDE DEF full, rest
  <2>4. InOrder(full)
    BY <1>1, <1>4, <2>2, PrependAssumption DEF InOrder, size
  <2> QED
    BY <2>1, <2>2, <2>3, <2>4, AppendInOrder
<1> QED
  BY <1>6, <1>7

-----------------------------------------------------------------------------
(* The readable bytes.                                                        *)

\* s are the readable bytes of b.
Holds(b, s) ==
    /\ InOrder(b) /\ s \in Seq(Cell)
    /\ Len(s) = readableBytes(b)
    /\ \A i \in 1..Len(s) : b.bytes[b.reader + i] = s[i]

LEMMA SliceBytes ==
    ASSUME NEW b \in BufferRecord, InOrder(b), NEW n \in Nat,
           b.reader + n <= b.writer, NEW i \in 1..n
    PROVE  Slice(b, b.reader, b.reader + n)[i] = b.bytes[b.reader + i]
<1>1. b.bytes \in Seq(Cell) /\ b.reader \in Nat /\ b.writer \in Nat
  BY DEF BufferRecord
<1>2. \A k \in b.reader + 1..b.reader + n : b.bytes[k] \in Cell
  BY <1>1, ElementOfSeq DEF InOrder, size
<1> DEFINE from == b.reader + 1
           to == b.reader + n
<1>3. from \in Int /\ to \in Int /\ i \in 1..to - from + 1
      /\ from + i - 1 = b.reader + i
  BY <1>1
<1>4. SubSeq(b.bytes, from, to)[i] = b.bytes[from + i - 1]
  <2> HIDE DEF from, to
  <2>1. \A k \in from..to : b.bytes[k] \in Cell
    BY <1>2 DEF from, to
  <2> QED
    BY <1>3, <2>1, SubSeqProperties
<1> QED
  BY <1>3, <1>4 DEF Slice

LEMMA ContentHolds ==
    ASSUME NEW b, InOrder(b) PROVE Holds(b, Content(b))
<1>1. /\ b \in BufferRecord /\ readableBytes(b) \in Nat
      /\ b.reader + readableBytes(b) = b.writer
      /\ b.writer \in Nat
  BY DEF BufferRecord, InOrder, readableBytes
<1>2. Content(b) \in Seq(Cell) /\ Len(Content(b)) = readableBytes(b)
  BY <1>1, ContentType
<1>3. PICK n \in Nat : n = readableBytes(b)
  BY <1>1
<1>4. ASSUME NEW i \in 1..n PROVE Content(b)[i] = b.bytes[b.reader + i]
  <2>1. Slice(b, b.reader, b.reader + n)[i] = b.bytes[b.reader + i]
    BY <1>1, <1>3, SliceBytes
  <2> QED
    BY <1>1, <1>3, <2>1 DEF Content
<1> QED
  BY <1>2, <1>3, <1>4 DEF Holds

LEMMA HeldIsContent ==
    ASSUME NEW b, NEW s, Holds(b, s) PROVE Content(b) = s
<1>1. Holds(b, Content(b))
  BY ContentHolds DEF Holds
<1>2. /\ s \in Seq(Cell) /\ Content(b) \in Seq(Cell) /\ Len(Content(b)) = Len(s)
      /\ \A i \in 1..Len(Content(b)) : Content(b)[i] = s[i]
  BY <1>1 DEF Holds
<1> QED
  BY <1>2, SeqEqual

LEMMA ResizeBytes ==
    ASSUME NEW bytes \in Seq(Cell), NEW n \in Nat, Len(bytes) <= n,
           NEW k \in 1..Len(bytes)
    PROVE  Resize(bytes, n)[k] = bytes[k]
<1>1. Len(bytes) \in Nat /\ n - Len(bytes) \in Nat
  BY LenProperties
<1>2. PICK z \in Seq(Cell) : z = Zeros(n - Len(bytes))
  BY <1>1, ZerosType
<1>3. Len(z) \in Nat /\ Resize(bytes, n) = bytes \o z
  BY <1>2, LenProperties DEF Resize
<1>4. k \in 1..Len(bytes) + Len(z) /\ k <= Len(bytes)
  BY <1>1, <1>3
<1>5. (bytes \o z)[k] = bytes[k]
  BY <1>4, ConcatProperties
<1> QED
  BY <1>3, <1>5

\* Growing and sliding move the readable bytes, and keep them.
LEMMA EnsureKeepsContent ==
    ASSUME NEW b, InOrder(b), NEW len \in Nat
    PROVE  Holds(EnsureWriteableBytes(b, len), Content(b))
<1> DEFINE e == EnsureWriteableBytes(b, len)
           s == Content(b)
<1>1. /\ b \in BufferRecord
      /\ b.bytes \in Seq(Cell) /\ b.reader \in Nat /\ b.writer \in Nat
      /\ Len(b.bytes) \in Nat /\ kCheapPrepend \in Nat
      /\ kCheapPrepend <= b.reader
      /\ b.reader <= b.writer
      /\ b.writer <= Len(b.bytes)
  BY PrependAssumption, LenProperties DEF InOrder, BufferRecord, size
<1>2. Holds(b, s)
  BY ContentHolds
<1>3. InOrder(e) /\ readableBytes(e) = readableBytes(b)
  BY <1>1, EnsureMakesRoom
<1>4. s \in Seq(Cell) /\ Len(s) = b.writer - b.reader
      /\ \A i \in 1..Len(s) : b.bytes[b.reader + i] = s[i]
  BY <1>2 DEF Holds, readableBytes
<1> HIDE DEF s
<1>5. ASSUME NEW i \in 1..Len(s) PROVE e.bytes[e.reader + i] = s[i]
  <2>1. CASE ~(writableBytes(b) < len)
    BY <1>4, <2>1 DEF EnsureWriteableBytes
  <2>2. CASE /\ writableBytes(b) < len
             /\ writableBytes(b) + prependableBytes(b) < len + kCheapPrepend
    <3>1. e = [b EXCEPT !.bytes = Resize(@, b.writer + len)]
      BY <2>2 DEF EnsureWriteableBytes, MakeSpace
    <3>2. e.bytes = Resize(b.bytes, b.writer + len) /\ e.reader = b.reader
      BY <1>1, <3>1 DEF BufferRecord
    <3>3. b.writer + len - Len(b.bytes) \in Nat
      BY <1>1, <2>2 DEF writableBytes, size
    <3>4. ASSUME NEW k \in 1..Len(b.bytes)
          PROVE  Resize(b.bytes, b.writer + len)[k] = b.bytes[k]
      <4>1. PICK n \in Nat : n = b.writer + len
        BY <1>1
      <4>2. Len(b.bytes) <= n
        BY <1>1, <3>3, <4>1
      <4> QED
        BY <1>1, <4>1, <4>2, ResizeBytes
    <3>5. b.reader + i \in 1..Len(b.bytes)
      BY <1>1, <1>4
    <3> QED
      BY <1>4, <3>2, <3>4, <3>5
  <2>3. CASE /\ writableBytes(b) < len
             /\ ~(writableBytes(b) + prependableBytes(b) < len + kCheapPrepend)
    <3>1. e.bytes = Copy(b.bytes, kCheapPrepend, s) /\ e.reader = kCheapPrepend
      BY <2>3 DEF EnsureWriteableBytes, MakeSpace, s
    <3>2. PICK j : j = kCheapPrepend + i
      OBVIOUS
    <3>3. /\ j \in 1..Len(b.bytes)
          /\ j \in kCheapPrepend + 1..kCheapPrepend + Len(s)
          /\ j - kCheapPrepend = i
      BY <1>1, <1>4, <3>2
    <3>4. Copy(b.bytes, kCheapPrepend, s)[j] = s[i]
      <4> HIDE DEF e
      <4>1. Copy(b.bytes, kCheapPrepend, s)[j] = s[j - kCheapPrepend]
        BY <3>3 DEF Copy
      <4> QED
        BY <3>3, <4>1
    <3> HIDE DEF e
    <3> QED
      BY <3>1, <3>2, <3>4
  <2> QED
    BY <2>1, <2>2, <2>3
<1>6. Len(s) = readableBytes(b)
  BY <1>4 DEF readableBytes
<1> HIDE DEF e
<1>7. Holds(e, s)
  BY <1>3, <1>4, <1>5, <1>6 DEF Holds
<1> QED
  BY <1>7 DEF e, s

\* Bytes copied behind the readable ones are readable when writerIndex_ follows.
LEMMA WriteAddsContent ==
    ASSUME NEW b, NEW s, Holds(b, s), NEW data \in Seq(Cell), NEW a, InOrder(a),
           Len(data) <= writableBytes(b),
           a.bytes = Copy(b.bytes, b.writer, data), a.reader = b.reader,
           a.writer = b.writer + Len(data)
    PROVE  Holds(a, s \o data)
<1>1. /\ b \in BufferRecord
      /\ b.bytes \in Seq(Cell) /\ b.reader \in Nat /\ b.writer \in Nat
      /\ Len(b.bytes) \in Nat /\ Len(data) \in Nat
      /\ b.reader <= b.writer /\ b.writer + Len(data) <= Len(b.bytes)
      /\ s \in Seq(Cell) /\ Len(s) = b.writer - b.reader /\ Len(s) \in Nat
      /\ \A i \in 1..Len(s) : b.bytes[b.reader + i] = s[i]
  BY LenProperties
     DEF Holds, InOrder, BufferRecord, size, readableBytes, writableBytes
<1>2. /\ s \o data \in Seq(Cell) /\ Len(s \o data) = Len(s) + Len(data)
      /\ \A i \in 1..Len(s) + Len(data) :
            (s \o data)[i] = IF i <= Len(s) THEN s[i] ELSE data[i - Len(s)]
  BY <1>1, ConcatProperties
<1>3. readableBytes(a) = Len(s) + Len(data)
  BY <1>1 DEF readableBytes
<1>4. ASSUME NEW i \in 1..Len(s) + Len(data)
      PROVE  a.bytes[a.reader + i] = (s \o data)[i]
  <2> DEFINE k == b.reader + i
  <2>1. k \in 1..Len(b.bytes)
    BY <1>1
  <2>2. a.bytes[k] = IF k \in b.writer + 1..b.writer + Len(data)
                     THEN data[k - b.writer] ELSE b.bytes[k]
    BY <2>1 DEF Copy
  <2>3. CASE i <= Len(s)
    <3>1. k \notin b.writer + 1..b.writer + Len(data) /\ i \in 1..Len(s)
      BY <1>1, <2>3
    <3> QED
      BY <1>1, <1>2, <2>2, <2>3, <3>1
  <2>4. CASE ~(i <= Len(s))
    <3>1. k \in b.writer + 1..b.writer + Len(data) /\ k - b.writer = i - Len(s)
      BY <1>1, <2>4
    <3> QED
      BY <1>2, <2>2, <2>4, <3>1
  <2> QED
    BY <2>3, <2>4
<1> QED
  BY <1>2, <1>3, <1>4 DEF Holds

LEMMA AppendAddsContent ==
    ASSUME NEW b, InOrder(b), NEW data \in Seq(Cell)
    PROVE  Content(Appended(b, data)) = Content(b) \o data
<1> DEFINE e == EnsureWriteableBytes(b, Len(data))
           a == Appended(b, data)
<1>1. Len(data) \in Nat /\ b \in BufferRecord
  BY LenProperties DEF InOrder
<1>2. Holds(e, Content(b)) /\ Len(data) <= writableBytes(e) /\ e \in BufferRecord
  BY <1>1, EnsureMakesRoom, EnsureKeepsContent DEF InOrder
<1>3. a = [e EXCEPT !.bytes = Copy(@, e.writer, data), !.writer = @ + Len(data)]
  BY DEF Appended
<1>4. InOrder(a)
  BY <1>1, AppendInOrder
<1> HIDE DEF e
<1>5. /\ a.bytes = Copy(e.bytes, e.writer, data) /\ a.reader = e.reader
      /\ a.writer = e.writer + Len(data)
  BY <1>2, <1>3 DEF BufferRecord
<1> HIDE DEF a
<1>6. Holds(a, Content(b) \o data)
  BY <1>2, <1>4, <1>5, WriteAddsContent
<1> QED
  BY <1>6, HeldIsContent DEF a

LEMMA DropProperties ==
    ASSUME NEW data \in Seq(Cell), NEW m \in 0..Len(data)
    PROVE  LET y == SubSeq(data, m + 1, Len(data))
           IN  /\ y \in Seq(Cell) /\ Len(y) = Len(data) - m
               /\ \A i \in 1..Len(data) - m : y[i] = data[m + i]
<1> DEFINE n == Len(data)
           from == m + 1
<1>1. n \in Nat /\ m \in Nat /\ \A i \in 1..n : data[i] \in Cell
  BY LenProperties, ElementOfSeq
<1>2. from \in Int /\ n \in Int /\ \A i \in from..n : data[i] \in Cell
  BY <1>1
<1> HIDE DEF n
<1>3. /\ n - from + 1 = n - m /\ (from <= n \/ n - m = 0)
      /\ \A i \in 1..n - m : from + i - 1 = m + i
  <2>1. n \in Nat /\ m \in Nat /\ m <= n
    BY <1>1 DEF n
  <2> QED
    BY <2>1
<1> HIDE DEF from
<1>4. /\ SubSeq(data, from, n) \in Seq(Cell)
      /\ Len(SubSeq(data, from, n)) = IF from <= n THEN n - from + 1 ELSE 0
      /\ \A i \in 1..n - from + 1 : SubSeq(data, from, n)[i] = data[from + i - 1]
  BY <1>2, SubSeqProperties
<1>5. /\ Len(SubSeq(data, from, n)) = n - m
      /\ \A i \in 1..n - m : SubSeq(data, from, n)[i] = data[m + i]
  BY <1>1, <1>3, <1>4
<1> QED
  BY <1>4, <1>5 DEF from, n

\* data is its first m bytes and the others.
LEMMA SplitData ==
    ASSUME NEW data \in Seq(Cell), NEW m \in 0..Len(data)
    PROVE  /\ SubSeq(data, 1, m) \in Seq(Cell) /\ Len(SubSeq(data, 1, m)) = m
           /\ SubSeq(data, m + 1, Len(data)) \in Seq(Cell)
           /\ SubSeq(data, 1, m) \o SubSeq(data, m + 1, Len(data)) = data
<1> DEFINE n == Len(data)
           x == SubSeq(data, 1, m)
           y == SubSeq(data, m + 1, n)
<1>1. n \in Nat /\ m \in Nat /\ \A i \in 1..n : data[i] \in Cell
  BY LenProperties, ElementOfSeq
<1>2. /\ x \in Seq(Cell) /\ Len(x) = m /\ \A i \in 1..m : x[i] = data[i]
  <2>1. \A i \in 1..m : data[i] \in Cell
    BY <1>1
  <2>2. /\ x \in Seq(Cell) /\ Len(x) = IF 1 <= m THEN m - 1 + 1 ELSE 0
        /\ \A i \in 1..m - 1 + 1 : x[i] = data[1 + i - 1]
    BY <1>1, <2>1, SubSeqProperties
  <2> QED
    BY <1>1, <2>2
<1>3. /\ y \in Seq(Cell) /\ Len(y) = n - m
      /\ \A i \in 1..n - m : y[i] = data[m + i]
  BY DropProperties
<1> HIDE DEF x, y
<1>4. /\ x \o y \in Seq(Cell) /\ Len(x \o y) = n
      /\ \A i \in 1..n : (x \o y)[i] = data[i]
  <2>1. /\ x \o y \in Seq(Cell) /\ Len(x \o y) = Len(x) + Len(y)
        /\ \A i \in 1..Len(x) + Len(y) :
              (x \o y)[i] = IF i <= Len(x) THEN x[i] ELSE y[i - Len(x)]
    BY <1>2, <1>3, ConcatProperties
  <2>2. Len(x) + Len(y) = n
    BY <1>1, <1>2, <1>3
  <2>3. ASSUME NEW i \in 1..n PROVE (x \o y)[i] = data[i]
    <3>1. CASE i <= m
      BY <1>1, <1>2, <2>1, <2>2, <3>1
    <3>2. CASE ~(i <= m)
      <4>1. i - m \in 1..n - m /\ m + (i - m) = i
        BY <1>1, <3>2
      <4> QED
        BY <1>2, <1>3, <2>1, <2>2, <3>2, <4>1
    <3> QED
      BY <3>1, <3>2
  <2> QED
    BY <2>1, <2>2, <2>3
<1>5. x \o y = data
  BY <1>4, SeqEqual
<1> QED
  BY <1>2, <1>3, <1>5 DEF x, y

LEMMA ReadFdAddsContent ==
    ASSUME NEW b, InOrder(b), NEW data \in Seq(Cell)
    PROVE  Content(ReadFd(b, data)) = Content(b) \o data
<1> DEFINE writable == writableBytes(b)
           n == Len(data)
           s == Content(b)
<1>1. /\ b \in BufferRecord
      /\ b.bytes \in Seq(Cell) /\ b.reader \in Nat /\ b.writer \in Nat
      /\ Len(b.bytes) \in Nat /\ n \in Nat /\ writable \in Nat
      /\ b.writer + writable = Len(b.bytes)
      /\ kCheapPrepend <= b.reader /\ b.reader <= b.writer
      /\ b.writer <= Len(b.bytes) /\ kCheapPrepend \in Nat
  BY LenProperties, PrependAssumption
     DEF InOrder, BufferRecord, size, writableBytes
<1>2. Holds(b, s) /\ s \in Seq(Cell)
  BY ContentHolds DEF Holds
<1> HIDE DEF s
<1>3. CASE n <= writable
  <2>1. SubSeq(data, 1, n) = data
    <3>1. /\ SubSeq(data, 1, n) \in Seq(Cell) /\ Len(SubSeq(data, 1, n)) = n
          /\ SubSeq(data, 1, n) \o SubSeq(data, n + 1, n) = data
      <4>1. n \in 0..Len(data)
        BY <1>1
      <4> QED
        BY <4>1, SplitData
    <3>2. SubSeq(data, n + 1, n) = <<>>
      BY <1>1, SubSeqEmpty
    <3> QED
      BY <3>1, <3>2, ConcatEmptySeq
  <2> DEFINE a == ReadFd(b, data)
             bytes == Copy(b.bytes, b.writer, data)
  <2>2. a = [[b EXCEPT !.bytes = bytes] EXCEPT !.writer = @ + n]
    BY <1>3, <2>1 DEF ReadFd
  <2>3. a.bytes = bytes /\ a.reader = b.reader /\ a.writer = b.writer + n
    <3> HIDE DEF bytes
    <3> QED
      BY <1>1, <2>2 DEF BufferRecord
  <2>4. InOrder(a)
    BY <1>1, ReadFdInOrder
  <2> HIDE DEF a
  <2>5. Holds(a, s \o data)
    BY <1>1, <1>2, <1>3, <2>3, <2>4, WriteAddsContent
  <2> QED
    BY <2>5, HeldIsContent DEF a, s
<1>4. CASE ~(n <= writable)
  <2> DEFINE direct == SubSeq(data, 1, writable)
             rest == SubSeq(data, writable + 1, n)
             bytes == Copy(b.bytes, b.writer, direct)
             full == [[b EXCEPT !.bytes = bytes] EXCEPT !.writer = size(b)]
  <2>1. ReadFd(b, data) = Appended(full, rest)
    BY <1>4 DEF ReadFd
  <2>2. /\ direct \in Seq(Cell) /\ Len(direct) = writable
        /\ rest \in Seq(Cell) /\ direct \o rest = data
    <3>1. writable \in 0..Len(data)
      BY <1>1, <1>4
    <3> QED
      BY <3>1, SplitData
  <2>3. bytes \in Seq(Cell) /\ Len(bytes) = Len(b.bytes)
    BY <1>1, <2>2, CopyType
  <2>4. /\ full.bytes = bytes /\ full.reader = b.reader
        /\ full.writer = Len(b.bytes) /\ full \in BufferRecord
    <3> HIDE DEF bytes
    <3> QED
      BY <1>1, <2>3 DEF BufferRecord, size
  <2> HIDE DEF full
  <2>5. InOrder(full)
    BY <1>1, <2>3, <2>4 DEF InOrder, size
  <2> HIDE DEF direct, rest
  <2>6. Holds(full, s \o direct)
    BY <1>1, <1>2, <2>2, <2>4, <2>5, WriteAddsContent
  <2>7. Content(full) = s \o direct
    BY <2>6, HeldIsContent
  <2>8. Content(Appended(full, rest)) = (s \o direct) \o rest
    BY <2>2, <2>5, <2>7, AppendAddsContent
  <2>9. (s \o direct) \o rest = s \o (direct \o rest)
    <3>1. \A x, y, z \in Seq(Cell) : (x \o y) \o z = x \o (y \o z)
      BY ConcatAssociative
    <3> HIDE DEF bytes
    <3> QED
      BY <1>2, <2>2, <3>1, Zenon
  <2> QED
    BY <2>1, <2>2, <2>8, <2>9 DEF s
<1> QED
  BY <1>3, <1>4

\* The readable bytes from the n-th on.
LEMMA RetrieveDropsContent ==
    ASSUME NEW b, InOrder(b), NEW len \in Nat
    PROVE  \E n \in 0..Len(Content(b)) :
              /\ Content(Retrieve(b, len)) = SubSeq(Content(b), n + 1, Len(Content(b)))
              /\ len <= Len(Content(b)) => n = len
<1> DEFINE s == Content(b)
           r == Retrieve(b, len)
<1>1. /\ b \in BufferRecord
      /\ b.bytes \in Seq(Cell) /\ b.reader \in Nat /\ b.writer \in Nat
      /\ b.reader <= b.writer /\ kCheapPrepend \in Nat
  BY PrependAssumption DEF InOrder, BufferRecord
<1>2. Holds(b, s) /\ s \in Seq(Cell) /\ Len(s) = b.writer - b.reader
  BY ContentHolds DEF Holds, readableBytes
<1>3. InOrder(r)
  BY <1>1, RetrieveInOrder
<1> HIDE DEF s
<1>4. Len(s) \in Nat
  BY <1>2, LenProperties
<1>5. CASE len < readableBytes(b)
  <2>1. r = [b EXCEPT !.reader = @ + len]
    BY <1>5 DEF Retrieve
  <2>2. r.bytes = b.bytes /\ r.reader = b.reader + len /\ r.writer = b.writer
    BY <1>1, <2>1 DEF BufferRecord
  <2> HIDE DEF r
  <2> DEFINE t == SubSeq(s, len + 1, Len(s))
  <2>3. /\ t \in Seq(Cell) /\ Len(t) = Len(s) - len
        /\ \A i \in 1..Len(s) - len : t[i] = s[len + i]
    <3>1. len \in 0..Len(s)
      BY <1>2, <1>4, <1>5 DEF readableBytes
    <3> QED
      BY <1>2, <3>1, DropProperties
  <2>4. Len(t) = readableBytes(r)
    BY <1>1, <1>2, <2>2, <2>3 DEF readableBytes
  <2>5. ASSUME NEW i \in 1..Len(t) PROVE r.bytes[r.reader + i] = t[i]
    <3>1. len + i \in 1..Len(s) /\ r.reader + i = b.reader + (len + i)
          /\ i \in 1..Len(s) - len
      BY <1>1, <1>4, <2>2, <2>3
    <3>2. b.bytes[b.reader + (len + i)] = s[len + i]
      BY <1>2, <3>1 DEF Holds
    <3> QED
      BY <2>2, <2>3, <3>1, <3>2
  <2> HIDE DEF t
  <2>6. Content(r) = t
    BY <1>3, <2>3, <2>4, <2>5, HeldIsContent DEF Holds
  <2>7. len \in 0..Len(s)
    BY <1>2, <1>4, <1>5 DEF readableBytes
  <2> QED
    BY <2>6, <2>7 DEF t, s, r
<1>6. CASE ~(len < readableBytes(b))
  <2>1. r = [b EXCEPT !.reader = kCheapPrepend, !.writer = kCheapPrepend]
    BY <1>6 DEF Retrieve, RetrieveAll
  <2>2. r.reader = kCheapPrepend /\ r.writer = kCheapPrepend
    BY <1>1, <2>1 DEF BufferRecord
  <2> HIDE DEF r
  <2>3. Holds(r, <<>>)
    BY <1>1, <1>3, <2>2, EmptySeq DEF Holds, readableBytes
  <2>4. Content(r) = <<>>
    BY <2>3, HeldIsContent
  <2>5. SubSeq(s, Len(s) + 1, Len(s)) = <<>>
    BY <1>4, SubSeqEmpty
  <2>6. Len(s) \in 0..Len(s) /\ (len <= Len(s) => Len(s) = len)
    BY <1>2, <1>4, <1>6 DEF readableBytes
  <2> QED
    BY <2>4, <2>5, <2>6 DEF s, r
<1> QED
  BY <1>5, <1>6

\* What writeFd and retrieveAsString hand out.
LEMMA SliceIsPrefix ==
    ASSUME NEW b, InOrder(b), NEW n \in 0..readableBytes(b)
    PROVE  /\ Slice(b, b.reader, b.reader + n) = SubSeq(Content(b), 1, n)
           /\ n \in 0..Len(Content(b))
<1> DEFINE s == Content(b)
           t == Slice(b, b.reader, b.reader + n)
<1>1. /\ b \in BufferRecord /\ b.reader \in Nat /\ b.writer \in Nat
      /\ n \in Nat /\ b.reader + n <= b.writer
  BY DEF InOrder, BufferRecord, readableBytes
<1>2. Holds(b, s) /\ s \in Seq(Cell) /\ Len(s) = readableBytes(b)
  BY ContentHolds DEF Holds
<1>3. t \in Seq(Cell) /\ Len(t) = n
  BY <1>1, SliceType
<1>4. \A i \in 1..n : t[i] = b.bytes[b.reader + i]
  BY <1>1, SliceBytes
<1> HIDE DEF s, t
<1>5. n \in 0..Len(s)
  BY <1>2
<1>6. /\ SubSeq(s, 1, n) \in Seq(Cell) /\ Len(SubSeq(s, 1, n)) = n
      /\ \A i \in 1..n : SubSeq(s, 1, n)[i] = s[i]
  <2>1. \A i \in 1..n : s[i] \in Cell
    BY <1>1, <1>2, <1>5, ElementOfSeq, LenProperties
  <2> QED
    BY <1>1, <2>1, SubSeqProperties
<1>7. \A i \in 1..n : t[i] = s[i]
  <2>1. \A i \in 1..n : i \in 1..Len(s)
    BY <1>1, <1>2, LenProperties, <1>5
  <2> QED
    BY <1>2, <1>4, <2>1 DEF Holds
<1>8. t = SubSeq(s, 1, n)
  BY <1>3, <1>6, <1>7, SeqEqual
<1> QED
  BY <1>5, <1>8 DEF s, t

-----------------------------------------------------------------------------
(* No operation leaves the indices out of order (Buffer.h:12-16).             *)
THEOREM Inductive == Spec => []InOrder(buf)
<1>1. Init => InOrder(buf)
  <2> SUFFICES ASSUME Init PROVE InOrder(buf)
    OBVIOUS
  <2>1. kCheapPrepend + kInitialSize \in Nat
    BY PrependAssumption, SizeAssumption
  <2>2. /\ Zeros(kCheapPrepend + kInitialSize) \in Seq(Cell)
        /\ Len(Zeros(kCheapPrepend + kInitialSize))
                = kCheapPrepend + kInitialSize
    BY <2>1, ZerosType
  <2> QED
    BY <2>2, PrependAssumption, SizeAssumption
       DEF Init, InOrder, BufferRecord, size
<1>2. InOrder(buf) /\ [Next]_vars => InOrder(buf)'
  <2> SUFFICES ASSUME InOrder(buf), [Next]_vars PROVE InOrder(buf')
    BY DEF InOrder, size
  <2>1. buf \in BufferRecord
    BY DEF InOrder
  <2>2. Data \subseteq Seq(Cell)
    BY DEF Data, Cell
  <2>3. \A n \in 0..readableBytes(buf) : n \in Nat
    BY <2>1 DEF InOrder, BufferRecord, readableBytes
  <2>4. CASE DoAppend
    BY <2>1, <2>2, <2>4, AppendInOrder DEF DoAppend
  <2>5. CASE DoReadFd
    BY <2>1, <2>2, <2>5, ReadFdInOrder DEF DoReadFd
  <2>6. CASE DoRetrieve
    BY <2>1, <2>6, BoundsAssumption, RetrieveInOrder DEF DoRetrieve
  <2>7. CASE RetrieveAsString
    BY <2>1, <2>3, <2>7, RetrieveInOrder DEF RetrieveAsString
  <2>8. CASE WriteFd \/ UNCHANGED vars
    BY <2>8 DEF WriteFd, vars
  <2> QED
    BY <2>4, <2>5, <2>6, <2>7, <2>8 DEF Next
<1> QED
  BY <1>1, <1>2, PTL DEF Spec

(* The indices of a Buffer stay in order whatever is appended, read from a    *)
(* socket or retrieved.                                                       *)
THEOREM IndicesStayInOrder == Spec => []IndicesInOrder
<1>1. InOrder(buf) => IndicesInOrder
  BY DEF InOrder, BufferRecord, IndicesInOrder
<1> QED
  BY <1>1, Inductive, PTL

(* A Buffer is a queue of bytes: sliding, growing and the detour over         *)
(* extrabuf lose, repeat or reorder nothing.                                  *)
THEOREM BufferIsByteQueue == Spec => ImplementsByteQueue
<1>1. Init => BQ!Init
  <2> SUFFICES ASSUME Init PROVE BQ!Init
    OBVIOUS
  <2>1. SubSeq(buf.bytes, kCheapPrepend + 1, kCheapPrepend) = <<>>
    BY PrependAssumption, SubSeqEmpty
  <2> QED
    BY <2>1 DEF Init, BQ!Init, Content, Slice
<1>2. InOrder(buf) /\ [Next]_vars => [BQ!Next]_(BQ!vars)
  <2> SUFFICES ASSUME InOrder(buf), [Next]_vars PROVE [BQ!Next]_(BQ!vars)
    OBVIOUS
  <2>1. Data \subseteq Seq(Byte) /\ Data \subseteq Seq(Cell)
    BY DEF Data, Cell
  <2>2. readableBytes(buf) \in Nat /\ \A n \in 0..readableBytes(buf) : n \in Nat
    BY DEF InOrder, BufferRecord, readableBytes
  <2>3. CASE DoAppend
    <3>1. PICK data \in Data : buf' = Appended(buf, data) /\ in' = data /\ out' = out
      BY <2>3 DEF DoAppend
    <3>2. Content(buf)' = Content(buf) \o in'
      BY <2>1, <3>1, AppendAddsContent DEF Content, Slice
    <3> QED
      BY <2>1, <3>1, <3>2 DEF BQ!Next, BQ!Put
  <2>4. CASE DoReadFd
    <3>1. PICK data \in Data : buf' = ReadFd(buf, data) /\ in' = data /\ out' = out
      BY <2>4 DEF DoReadFd
    <3>2. Content(buf)' = Content(buf) \o in'
      BY <2>1, <3>1, ReadFdAddsContent DEF Content, Slice
    <3> QED
      BY <2>1, <3>1, <3>2 DEF BQ!Next, BQ!Put
  <2>5. CASE WriteFd
    <3>1. PICK n \in 0..readableBytes(buf) :
              out' = Slice(buf, buf.reader, buf.reader + n)
      BY <2>5 DEF WriteFd
    <3>2. buf' = buf /\ in' = in
      BY <2>5 DEF WriteFd
    <3>3. out' = SubSeq(Content(buf), 1, n) /\ n \in 0..Len(Content(buf))
      BY <3>1, SliceIsPrefix
    <3>4. Content(buf)' = Content(buf)
      BY <3>2 DEF Content, Slice
    <3> QED
      BY <3>2, <3>3, <3>4 DEF BQ!Next, BQ!Peek, BQ!Prefix
  <2>6. CASE DoRetrieve
    <3>1. PICK len \in 0..MaxReadable : buf' = Retrieve(buf, len)
      BY <2>6 DEF DoRetrieve
    <3>2. in' = in /\ out' = out /\ len \in Nat
      BY <2>6, BoundsAssumption DEF DoRetrieve
    <3>3. PICK n \in 0..Len(Content(buf)) :
              Content(buf') = SubSeq(Content(buf), n + 1, Len(Content(buf)))
      BY <3>1, <3>2, RetrieveDropsContent
    <3>4. Content(buf)' = Content(buf')
      BY DEF Content, Slice
    <3> QED
      BY <3>2, <3>3, <3>4 DEF BQ!Next, BQ!Drop, BQ!Rest
  <2>7. CASE RetrieveAsString
    <3>1. PICK n \in 0..readableBytes(buf) :
              /\ out' = Slice(buf, buf.reader, buf.reader + n)
              /\ buf' = Retrieve(buf, n)
      BY <2>7 DEF RetrieveAsString
    <3>2. in' = in
      BY <2>7 DEF RetrieveAsString
    <3>3. out' = SubSeq(Content(buf), 1, n) /\ n \in 0..Len(Content(buf))
      BY <3>1, SliceIsPrefix
    <3>4. PICK m \in 0..Len(Content(buf)) :
              /\ Content(buf') = SubSeq(Content(buf), m + 1, Len(Content(buf)))
              /\ n <= Len(Content(buf)) => m = n
      BY <2>2, <3>1, RetrieveDropsContent
    <3>5. n = m
      BY <3>3, <3>4
    <3>6. Content(buf)' = Content(buf')
      BY DEF Content, Slice
    <3> QED
      BY <3>2, <3>3, <3>4, <3>5, <3>6
         DEF BQ!Next, BQ!Take, BQ!Rest, BQ!Prefix
  <2>8. CASE UNCHANGED vars
    BY <2>8 DEF vars, BQ!vars, Content, Slice
  <2> QED
    BY <2>3, <2>4, <2>5, <2>6, <2>7, <2>8 DEF Next
<1> QED
  BY <1>1, <1>2, Inductive, PTL DEF Spec, ImplementsByteQueue, BQ!Spec

LEMMA AppendGrowsWhenFull ==
    ASSUME NEW b, InOrder(b), NEW data \in Seq(Cell),
           size(Appended(b, data)) > size(b)
    PROVE  readableBytes(b) + Len(data) > size(b) - kCheapPrepend
<1> DEFINE len == Len(data)
           e == EnsureWriteableBytes(b, len)
<1>1. /\ b \in BufferRecord
      /\ b.bytes \in Seq(Cell) /\ b.reader \in Nat /\ b.writer \in Nat
      /\ size(b) \in Nat /\ kCheapPrepend \in Nat /\ len \in Nat
  BY PrependAssumption, LenProperties DEF InOrder, BufferRecord, size
<1>2. InOrder(e) /\ e \in BufferRecord
  BY <1>1, EnsureMakesRoom DEF InOrder
<1>3. size(Appended(b, data)) = size(e)
  <2>1. Appended(b, data) =
            [e EXCEPT !.bytes = Copy(@, e.writer, data), !.writer = @ + len]
    BY DEF Appended
  <2> HIDE DEF e
  <2>2. Appended(b, data).bytes = Copy(e.bytes, e.writer, data)
    BY <1>2, <2>1 DEF BufferRecord
  <2>3. Len(Copy(e.bytes, e.writer, data)) = Len(e.bytes)
    BY <1>2, CopyType DEF BufferRecord
  <2> QED
    BY <2>2, <2>3 DEF size
<1>4. CASE ~(writableBytes(b) < len)
  BY <1>1, <1>3, <1>4 DEF EnsureWriteableBytes
<1>5. CASE writableBytes(b) + prependableBytes(b) < len + kCheapPrepend
  BY <1>1, <1>5 DEF writableBytes, prependableBytes, readableBytes
<1>6. CASE /\ writableBytes(b) < len
           /\ ~(writableBytes(b) + prependableBytes(b) < len + kCheapPrepend)
  <2>1. e.bytes = Copy(b.bytes, kCheapPrepend, Content(b))
    BY <1>6 DEF EnsureWriteableBytes, MakeSpace
  <2>2. Len(Copy(b.bytes, kCheapPrepend, Content(b))) = Len(b.bytes)
    BY <1>1, ContentType, CopyType
  <2>3. size(e) = size(b)
    BY <2>1, <2>2 DEF size
  <2> QED
    BY <1>1, <1>3, <2>3
<1> QED
  BY <1>4, <1>5, <1>6

LEMMA ReadFdGrowsWhenFull ==
    ASSUME NEW b, InOrder(b), NEW data \in Seq(Cell),
           size(ReadFd(b, data)) > size(b)
    PROVE  readableBytes(ReadFd(b, data)) > size(b) - kCheapPrepend
<1> DEFINE writable == writableBytes(b)
           n == Len(data)
           direct == SubSeq(data, 1, IF n <= writable THEN n ELSE writable)
           rest == SubSeq(data, writable + 1, n)
           bytes == Copy(b.bytes, b.writer, direct)
           filled == [b EXCEPT !.bytes = bytes]
           full == [filled EXCEPT !.writer = size(b)]
<1>1. /\ b \in BufferRecord
      /\ b.bytes \in Seq(Cell) /\ b.reader \in Nat /\ b.writer \in Nat
      /\ size(b) \in Nat /\ kCheapPrepend \in Nat /\ n \in Nat /\ writable \in Nat
      /\ kCheapPrepend <= b.reader /\ b.reader <= b.writer /\ b.writer <= size(b)
  BY PrependAssumption, LenProperties
     DEF InOrder, BufferRecord, size, writableBytes
<1>2. direct \in Seq(Cell)
  <2> DEFINE m == IF n <= writable THEN n ELSE writable
  <2>1. m \in 0..Len(data)
    BY <1>1
  <2> HIDE DEF m
  <2>2. SubSeq(data, 1, m) \in Seq(Cell)
    BY <2>1, SplitData
  <2> QED
    BY <2>2 DEF m
<1>3. bytes \in Seq(Cell) /\ Len(bytes) = Len(b.bytes)
  BY <1>1, <1>2, CopyType
<1>4. CASE n <= writable
  <2>1. ReadFd(b, data) = [filled EXCEPT !.writer = @ + n]
    BY <1>4 DEF ReadFd
  <2> HIDE DEF bytes
  <2>2. ReadFd(b, data).bytes = bytes
    BY <1>1, <2>1 DEF BufferRecord
  <2> QED
    BY <1>1, <1>3, <2>2 DEF size
<1>5. CASE ~(n <= writable)
  <2>1. ReadFd(b, data) = Appended(full, rest)
    BY <1>5 DEF ReadFd
  <2>2. rest \in Seq(Cell) /\ Len(rest) \in Nat
    <3>1. writable \in 0..Len(data)
      BY <1>1, <1>5
    <3> QED
      BY <3>1, SplitData, LenProperties
  <2> HIDE DEF bytes
  <2>3. /\ full.bytes = bytes /\ full.reader = b.reader
        /\ full.writer = size(b) /\ full \in BufferRecord
    BY <1>1, <1>3 DEF BufferRecord
  <2> HIDE DEF full, rest
  <2>4. size(full) = size(b) /\ InOrder(full)
    BY <1>1, <1>3, <2>3 DEF InOrder, size
  <2>5. readableBytes(full) + Len(rest) > size(full) - kCheapPrepend
    BY <2>1, <2>2, <2>4, AppendGrowsWhenFull
  <2>6. readableBytes(Appended(full, rest)) = readableBytes(full) + Len(rest)
    BY <2>2, <2>3, <2>4, AppendInOrder
  <2> QED
    BY <2>1, <2>4, <2>5, <2>6
<1> QED
  BY <1>4, <1>5

(* The vector grows only when the readable bytes and the new ones do not fit  *)
(* behind the prepend area, also when readFd fills it first.                  *)
THEOREM VectorGrowsWhenFull == Spec => GrowsOnlyWhenFull
<1> DEFINE Grows == size(buf') > size(buf)
                        => readableBytes(buf') > size(buf) - kCheapPrepend
<1>1. ASSUME InOrder(buf), Next PROVE Grows
  <2>1. /\ buf \in BufferRecord /\ buf.bytes \in Seq(Cell)
        /\ buf.reader \in Nat /\ buf.writer \in Nat /\ size(buf) \in Nat
        /\ Data \subseteq Seq(Cell) /\ kCheapPrepend <= buf.reader
        /\ buf.reader <= buf.writer /\ buf.writer <= size(buf)
        /\ kCheapPrepend \in Nat
    BY <1>1, PrependAssumption, LenProperties
       DEF InOrder, BufferRecord, size, Data, Cell
  <2>2. ASSUME buf'.bytes = buf.bytes PROVE Grows
    BY <2>1, <2>2 DEF size
  <2>3. CASE DoAppend
    <3>1. PICK data \in Data : buf' = Appended(buf, data)
      BY <2>3 DEF DoAppend
    <3>2. readableBytes(buf') = readableBytes(buf) + Len(data)
      BY <1>1, <2>1, <3>1, AppendInOrder
    <3> QED
      BY <1>1, <2>1, <3>1, <3>2, AppendGrowsWhenFull
  <2>4. CASE DoReadFd
    <3>1. PICK data \in Data : buf' = ReadFd(buf, data)
      BY <2>4 DEF DoReadFd
    <3>2. data \in Seq(Cell) /\ Len(data) \in Nat
      BY <2>1, LenProperties
    <3> QED
      BY <1>1, <3>1, <3>2, ReadFdGrowsWhenFull
  <2>5. CASE DoRetrieve \/ RetrieveAsString
    <3>1. PICK len : buf' = Retrieve(buf, len)
      BY <2>5 DEF DoRetrieve, RetrieveAsString
    <3>2. buf'.bytes = buf.bytes
      BY <2>1, <3>1 DEF Retrieve, RetrieveAll, BufferRecord
    <3> QED
      BY <2>2, <3>2
  <2>6. CASE WriteFd
    BY <2>2, <2>6 DEF WriteFd
  <2> QED
    BY <1>1, <2>3, <2>4, <2>5, <2>6 DEF Next
<1>2. InOrder(buf) /\ [Next]_vars => [Grows]_vars
  BY <1>1
<1> QED
  BY <1>2, Inductive, PTL DEF Spec, GrowsOnlyWhenFull
=============================================================================
