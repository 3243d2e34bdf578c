---------------------------- MODULE BufferProofs ----------------------------
(***************************************************************************)
(* Proofs about Buffer, for every byte set and all sizes.                  *)
(***************************************************************************)
EXTENDS Buffer, SequenceTheorems, TLAPS

Valid(b) ==
  /\ b \in Buffers
  /\ kCheapPrepend <= b.readerIndex_
  /\ b.readerIndex_ <= b.writerIndex_
  /\ b.writerIndex_ <= Len(b.buffer_)

-----------------------------------------------------------------------------
(* Arrays *)

\* An array is a sequence.
LEMMA FunIsSeq ==
  ASSUME NEW S, NEW n \in Nat, NEW f \in [1..n -> S]
  PROVE  f \in Seq(S) /\ Len(f) = n
<1>1. f \in Seq(S)
  BY SeqDef
<1>2. DOMAIN f = 1..n /\ DOMAIN f = 1..Len(f) /\ Len(f) \in Nat
  BY <1>1, LenProperties
<1> QED
  BY <1>1, <1>2

\* resize keeps the old elements.
LEMMA ResizeProperties ==
  ASSUME NEW mem \in Seq(Bytes), NEW size \in Nat
  PROVE  /\ Resize(mem, size) \in Seq(Bytes)
         /\ Len(Resize(mem, size)) = size
         /\ \A i \in 1..size : i <= Len(mem) => Resize(mem, size)[i] = mem[i]
<1>1. Resize(mem, size) \in [1..size -> Bytes]
  BY BufferAssumption DEF Resize
<1>2. \A i \in 1..size : i <= Len(mem) => Resize(mem, size)[i] = mem[i]
  BY DEF Resize
<1> QED
  BY <1>1, <1>2, FunIsSeq

\* copy changes the target range and nothing else.
LEMMA CopyToProperties ==
  ASSUME NEW mem \in Seq(Bytes), NEW at \in Nat, NEW data \in Seq(Bytes)
  PROVE  /\ CopyTo(mem, at, data) \in Seq(Bytes)
         /\ Len(CopyTo(mem, at, data)) = Len(mem)
         /\ \A i \in 1..Len(mem) :
              CopyTo(mem, at, data)[i] =
                IF at < i /\ i <= at + Len(data) THEN data[i - at] ELSE mem[i]
<1> DEFINE c == CopyTo(mem, at, data)
<1>1. Len(mem) \in Nat /\ Len(data) \in Nat
  BY LenProperties
<1>2. ASSUME NEW i \in 1..Len(mem)
      PROVE  (IF at < i /\ i <= at + Len(data) THEN data[i - at] ELSE mem[i]) \in Bytes
  BY <1>1, ElementOfSeq
<1>3. c \in [1..Len(mem) -> Bytes]
  BY <1>2 DEF CopyTo
<1>4. \A i \in 1..Len(mem) :
        c[i] = IF at < i /\ i <= at + Len(data) THEN data[i - at] ELSE mem[i]
  BY DEF CopyTo
<1> QED
  BY <1>1, <1>3, <1>4, FunIsSeq

\* The unread bytes of a valid buffer.
LEMMA ContentProperties ==
  ASSUME NEW b, Valid(b)
  PROVE  /\ Content(b) \in Seq(Bytes)
         /\ Len(Content(b)) = readableBytes(b)
         /\ readableBytes(b) \in Nat
         /\ \A i \in 1..readableBytes(b) : Content(b)[i] = b.buffer_[b.readerIndex_ + i]
<1> DEFINE m == b.readerIndex_ + 1
           n == b.writerIndex_
<1>1. m \in Nat /\ n \in Nat /\ m <= n + 1 /\ n <= Len(b.buffer_) /\ b.buffer_ \in Seq(Bytes)
      /\ Len(b.buffer_) \in Nat /\ 1 <= m
  BY LenProperties DEF Valid, Buffers
<1>2. \A i \in m..n : b.buffer_[i] \in Bytes
  BY <1>1, ElementOfSeq
<1>3. /\ SubSeq(b.buffer_, m, n) \in Seq(Bytes)
      /\ Len(SubSeq(b.buffer_, m, n)) = IF m <= n THEN n-m+1 ELSE 0
      /\ \A i \in 1..(n-m+1) : SubSeq(b.buffer_, m, n)[i] = b.buffer_[m+i-1]
  <2> HIDE DEF m, n
  <2> QED
    BY <1>1, <1>2, SubSeqProperties
<1>4. readableBytes(b) = n - m + 1 /\ readableBytes(b) \in Nat
  BY <1>1 DEF readableBytes, Valid, Buffers
<1>5. Content(b) = SubSeq(b.buffer_, m, n)
  BY DEF Content
<1>6. \A i \in 1..(n-m+1) : m + i - 1 = b.readerIndex_ + i
  BY <1>1 DEF Valid, Buffers
<1>7. (IF m <= n THEN n-m+1 ELSE 0) = n-m+1
  BY <1>1
<1> HIDE DEF m, n
<1> QED
  BY <1>1, <1>3, <1>4, <1>5, <1>6, <1>7

\* Buffers with the same unread bytes have the same content.
LEMMA SameContent ==
  ASSUME NEW b, Valid(b), NEW c, Valid(c), readableBytes(b) = readableBytes(c),
         \A i \in 1..readableBytes(b) :
            b.buffer_[b.readerIndex_ + i] = c.buffer_[c.readerIndex_ + i]
  PROVE  Content(b) = Content(c)
<1>1. /\ Content(b) \in Seq(Bytes) /\ Content(c) \in Seq(Bytes)
      /\ Len(Content(b)) = Len(Content(c))
      /\ \A i \in 1..Len(Content(b)) : Content(b)[i] = Content(c)[i]
  BY ContentProperties
<1> QED
  BY <1>1, SeqEqual

-----------------------------------------------------------------------------
(* append *)

\* makeSpace makes room for len bytes, keeps the unread bytes, and grows the
\* vector only as far as MemoryBound allows.
LEMMA MakeSpaceProperties ==
  ASSUME NEW b, Valid(b), NEW len \in Nat, writableBytes(b) < len,
         NEW m, m = makeSpace(b, len)
  PROVE  /\ Valid(m)
         /\ Content(m) = Content(b)
         /\ readableBytes(m) = readableBytes(b)
         /\ len <= writableBytes(m)
         /\ \/ Len(m.buffer_) = Len(b.buffer_)
            \/ Len(m.buffer_) < kCheapPrepend + 2 * (readableBytes(b) + len)
<1> DEFINE r == b.readerIndex_
           w == b.writerIndex_
           size == Len(b.buffer_)
<1>1. /\ r \in Nat /\ w \in Nat /\ size \in Nat /\ b.buffer_ \in Seq(Bytes)
      /\ kCheapPrepend \in Nat /\ kCheapPrepend <= r /\ r <= w /\ w <= size
      /\ b = [buffer_ |-> b.buffer_, readerIndex_ |-> r, writerIndex_ |-> w]
  BY LenProperties, BufferAssumption DEF Valid, Buffers
<1>2. readableBytes(b) = w - r /\ writableBytes(b) = size - w /\ prependableBytes(b) = r
  BY DEF readableBytes, writableBytes, prependableBytes
<1>3. CASE (size - w) + r < len + kCheapPrepend
  <2>1. m = [buffer_ |-> Resize(b.buffer_, w + len), readerIndex_ |-> r, writerIndex_ |-> w]
    BY <1>1, <1>2, <1>3 DEF makeSpace
  <2>2. /\ Resize(b.buffer_, w + len) \in Seq(Bytes)
        /\ Len(Resize(b.buffer_, w + len)) = w + len
        /\ \A i \in 1..(w + len) : i <= size => Resize(b.buffer_, w + len)[i] = b.buffer_[i]
    <3>1. w + len \in Nat
      BY <1>1
    <3> HIDE DEF w
    <3> QED
      BY <1>1, <3>1, ResizeProperties
  <2>3. Valid(m)
    BY <1>1, <2>1, <2>2 DEF Valid, Buffers
  <2>4. readableBytes(m) = w - r /\ writableBytes(m) = len
    BY <1>1, <2>1, <2>2 DEF readableBytes, writableBytes
  <2>5. ASSUME NEW i \in 1..(w - r)
        PROVE  m.buffer_[m.readerIndex_ + i] = b.buffer_[r + i]
    <3>1. r + i \in 1..(w + len) /\ r + i <= size
      BY <1>1
    <3>2. m.buffer_ = Resize(b.buffer_, w + len) /\ m.readerIndex_ = r
      BY <2>1
    <3> HIDE DEF r, w, size
    <3> QED
      BY <2>2, <3>1, <3>2
  <2>6. Content(m) = Content(b)
    BY <1>2, <2>3, <2>4, <2>5, SameContent
  <2>7. w + len < kCheapPrepend + 2 * ((w - r) + len)
    BY <1>1, <1>3
  <2>8. Len(m.buffer_) = w + len
    BY <2>1, <2>2
  <2> HIDE DEF r, w, size
  <2> QED
    BY <1>1, <1>2, <2>3, <2>4, <2>6, <2>7, <2>8
<1>4. CASE ~((size - w) + r < len + kCheapPrepend)
  <2> DEFINE mem == CopyTo(b.buffer_, kCheapPrepend, Content(b))
  <2>1. m = [buffer_ |-> mem, readerIndex_ |-> kCheapPrepend,
             writerIndex_ |-> kCheapPrepend + (w - r)]
    BY <1>1, <1>2, <1>4 DEF makeSpace
  <2>2. /\ Content(b) \in Seq(Bytes)
        /\ Len(Content(b)) = w - r
        /\ \A i \in 1..(w - r) : Content(b)[i] = b.buffer_[r + i]
    BY <1>2, ContentProperties
  <2>3. /\ mem \in Seq(Bytes)
        /\ Len(mem) = size
        /\ \A i \in 1..size : mem[i] = IF kCheapPrepend < i /\ i <= kCheapPrepend + Len(Content(b))
                                       THEN Content(b)[i - kCheapPrepend] ELSE b.buffer_[i]
    BY <1>1, <2>2, CopyToProperties
  <2> HIDE DEF mem
  <2>4. Valid(m)
    BY <1>1, <2>1, <2>3 DEF Valid, Buffers
  <2>5. readableBytes(m) = w - r /\ writableBytes(m) = size - (kCheapPrepend + (w - r))
    BY <1>1, <2>1, <2>3 DEF readableBytes, writableBytes
  <2>6. ASSUME NEW i \in 1..(w - r)
        PROVE  m.buffer_[m.readerIndex_ + i] = b.buffer_[r + i]
    <3>1. /\ kCheapPrepend + i \in 1..size
          /\ kCheapPrepend < kCheapPrepend + i
          /\ kCheapPrepend + i <= kCheapPrepend + (w - r)
          /\ (kCheapPrepend + i) - kCheapPrepend = i
      BY <1>1, <1>4
    <3>2. mem[kCheapPrepend + i] = Content(b)[i]
      <4> HIDE DEF r, w, size
      <4> QED
        BY <2>2, <2>3, <3>1
    <3> QED
      BY <2>1, <2>2, <3>2
  <2>7. Content(m) = Content(b)
    BY <1>2, <2>4, <2>5, <2>6, SameContent
  <2>8. len <= size - (kCheapPrepend + (w - r))
    BY <1>1, <1>4
  <2>9. Len(m.buffer_) = Len(b.buffer_)
    BY <2>1, <2>3
  <2> HIDE DEF r, w, size
  <2> QED
    BY <1>1, <1>2, <2>4, <2>5, <2>7, <2>8, <2>9
<1> QED
  BY <1>3, <1>4

\* What ensureWritableSpace adds to makeSpace.
LEMMA EnsureProperties ==
  ASSUME NEW b, Valid(b), NEW len \in Nat, NEW e, e = ensureWritableSpace(b, len)
  PROVE  /\ Valid(e)
         /\ Content(e) = Content(b)
         /\ readableBytes(e) = readableBytes(b)
         /\ len <= writableBytes(e)
         /\ \/ Len(e.buffer_) = Len(b.buffer_)
            \/ Len(e.buffer_) < kCheapPrepend + 2 * (readableBytes(b) + len)
<1>1. writableBytes(b) \in Nat
  BY LenProperties DEF Valid, Buffers, writableBytes
<1>2. CASE writableBytes(b) < len
  BY <1>2, MakeSpaceProperties DEF ensureWritableSpace
<1>3. CASE ~(writableBytes(b) < len)
  BY <1>1, <1>3 DEF ensureWritableSpace
<1> QED
  BY <1>2, <1>3

\* Copying data to the writer index and moving that index past it appends data.
LEMMA FillProperties ==
  ASSUME NEW e, Valid(e), NEW data \in Seq(Bytes), Len(data) <= writableBytes(e), NEW a,
         a = Fill(e, data)
  PROVE  /\ Valid(a)
         /\ Content(a) = Content(e) \o data
         /\ readableBytes(a) = readableBytes(e) + Len(data)
         /\ Len(a.buffer_) = Len(e.buffer_)
<1> DEFINE n == Len(data)
           r == e.readerIndex_
           w == e.writerIndex_
           mem == CopyTo(e.buffer_, w, data)
<1>2. n \in Nat
  BY LenProperties
<1>4. /\ r \in Nat /\ w \in Nat /\ e.buffer_ \in Seq(Bytes) /\ Len(e.buffer_) \in Nat
      /\ kCheapPrepend \in Nat /\ kCheapPrepend <= r /\ r <= w /\ w + n <= Len(e.buffer_)
      /\ readableBytes(e) = w - r
  BY <1>2, LenProperties, BufferAssumption
     DEF Valid, Buffers, writableBytes, readableBytes
<1>5. /\ mem \in Seq(Bytes) /\ Len(mem) = Len(e.buffer_)
      /\ \A i \in 1..Len(e.buffer_) :
           mem[i] = IF w < i /\ i <= w + n THEN data[i - w] ELSE e.buffer_[i]
  BY <1>4, CopyToProperties
<1>6. a = [buffer_ |-> mem, readerIndex_ |-> r, writerIndex_ |-> w + n]
  BY DEF Fill
<1> HIDE DEF mem
<1>7. Valid(a)
  BY <1>2, <1>4, <1>5, <1>6 DEF Valid, Buffers
<1>8. readableBytes(a) = (w - r) + n /\ readableBytes(a) = readableBytes(e) + n
  BY <1>2, <1>4, <1>6 DEF readableBytes
<1>9. Content(a) = Content(e) \o data
  <2> HIDE DEF r, w, n
  <2>1. /\ Content(a) \in Seq(Bytes) /\ Len(Content(a)) = (w - r) + n
        /\ \A i \in 1..((w - r) + n) : Content(a)[i] = mem[r + i]
    BY <1>6, <1>7, <1>8, ContentProperties
  <2>2. /\ Content(e) \in Seq(Bytes) /\ Len(Content(e)) = w - r
        /\ \A i \in 1..(w - r) : Content(e)[i] = e.buffer_[r + i]
    BY <1>4, ContentProperties DEF r
  <2> DEFINE c == Content(e)
  <2>c. /\ c \o data \in Seq(Bytes)
        /\ Len(c \o data) = Len(c) + Len(data)
        /\ \A i \in 1..(Len(c) + Len(data)) :
             (c \o data)[i] = IF i <= Len(c) THEN c[i] ELSE data[i - Len(c)]
    <3>1. c \in Seq(Bytes)
      BY <2>2
    <3> HIDE DEF c
    <3> QED
      BY <3>1, ConcatProperties
  <2>3. /\ Content(e) \o data \in Seq(Bytes)
        /\ Len(Content(e) \o data) = (w - r) + n
        /\ \A i \in 1..((w - r) + n) : (Content(e) \o data)[i] =
               IF i <= w - r THEN Content(e)[i] ELSE data[i - (w - r)]
    BY <2>2, <2>c DEF n
  <2>4. ASSUME NEW i \in 1..((w - r) + n)
        PROVE  Content(a)[i] = (Content(e) \o data)[i]
    <3>1. r + i \in 1..Len(e.buffer_)
      BY <1>2, <1>4
    <3>2. CASE i <= w - r
      <4>1. ~(w < r + i) /\ i \in 1..(w - r)
        BY <1>2, <1>4, <3>2
      <4>2. mem[r + i] = e.buffer_[r + i]
        BY <1>5, <3>1, <4>1
      <4>3. Content(a)[i] = mem[r + i]
        BY <2>1
      <4>4. Content(e)[i] = e.buffer_[r + i]
        BY <2>2, <4>1
      <4> QED
        BY <2>3, <3>2, <4>2, <4>3, <4>4
    <3>3. CASE ~(i <= w - r)
      <4>1. w < r + i /\ r + i <= w + n /\ (r + i) - w = i - (w - r)
        BY <1>2, <1>4, <3>3
      <4> QED
        BY <1>5, <2>1, <2>3, <3>1, <3>3, <4>1
    <3> QED
      BY <3>2, <3>3
  <2> QED
    BY <2>1, <2>3, <2>4, SeqEqual
<1>10. Len(a.buffer_) = Len(e.buffer_)
  BY <1>5, <1>6
<1> QED
  BY <1>7, <1>8, <1>9, <1>10

\* A sequence is its first v elements followed by the others.
LEMMA SplitProperties ==
  ASSUME NEW data \in Seq(Bytes), NEW v \in Nat, v <= Len(data)
  PROVE  /\ SubSeq(data, 1, v) \in Seq(Bytes)
         /\ Len(SubSeq(data, 1, v)) = v
         /\ SubSeq(data, v + 1, Len(data)) \in Seq(Bytes)
         /\ Len(SubSeq(data, v + 1, Len(data))) = Len(data) - v
         /\ SubSeq(data, 1, v) \o SubSeq(data, v + 1, Len(data)) = data
<1> DEFINE n == Len(data)
           p == SubSeq(data, 1, v)
           q == SubSeq(data, v + 1, n)
<1>1. n \in Nat /\ \A i \in 1..n : data[i] \in Bytes
  BY LenProperties, ElementOfSeq
<1>2. p \in Seq(Bytes) /\ Len(p) = v /\ \A i \in 1..v : p[i] = data[i]
  BY <1>1, SubSeqProperties
<1>3. q \in Seq(Bytes) /\ Len(q) = n - v /\ \A i \in 1..(n - v) : q[i] = data[v + i]
  BY <1>1, SubSeqProperties
<1> HIDE DEF p, q, n
<1>4. /\ p \o q \in Seq(Bytes) /\ Len(p \o q) = n
      /\ \A i \in 1..n : (p \o q)[i] = IF i <= v THEN p[i] ELSE q[i - v]
  BY <1>1, <1>2, <1>3, ConcatProperties DEF n
<1>5. ASSUME NEW i \in 1..n
      PROVE  (p \o q)[i] = data[i]
  <2>1. CASE i <= v
    BY <1>1, <1>2, <1>4, <2>1
  <2>2. CASE ~(i <= v)
    <3>1. i - v \in 1..(n - v) /\ v + (i - v) = i
      BY <1>1, <2>2
    <3> QED
      BY <1>3, <1>4, <2>2, <3>1
  <2> QED
    BY <2>1, <2>2
<1>6. p \o q = data
  BY <1>1, <1>4, <1>5, SeqEqual DEF n
<1> QED
  BY <1>2, <1>3, <1>6 DEF p, q, n

\* append puts the data behind the unread bytes.
LEMMA AppendDataProperties ==
  ASSUME NEW b, Valid(b), NEW data \in Seq(Bytes), NEW a, a = append(b, data)
  PROVE  /\ Valid(a)
         /\ Content(a) = Content(b) \o data
         /\ readableBytes(a) = readableBytes(b) + Len(data)
         /\ \/ Len(a.buffer_) = Len(b.buffer_)
            \/ Len(a.buffer_) < kCheapPrepend + 2 * readableBytes(a)
<1> DEFINE n == Len(data)
<1>1. PICK e : e = ensureWritableSpace(b, n)
  OBVIOUS
<1>2. n \in Nat
  BY LenProperties
<1>3. /\ Valid(e)
      /\ Content(e) = Content(b)
      /\ readableBytes(e) = readableBytes(b)
      /\ n <= writableBytes(e)
      /\ \/ Len(e.buffer_) = Len(b.buffer_)
         \/ Len(e.buffer_) < kCheapPrepend + 2 * (readableBytes(b) + n)
  BY <1>1, <1>2, EnsureProperties
<1>4. a = Fill(e, data)
  BY <1>1 DEF append
<1>5. /\ Valid(a)
      /\ Content(a) = Content(e) \o data
      /\ readableBytes(a) = readableBytes(e) + n
      /\ Len(a.buffer_) = Len(e.buffer_)
  BY <1>3, <1>4, FillProperties
<1> QED
  BY <1>3, <1>5

\* readFd appends what readv delivered, wherever readv put it.
LEMMA ReadFdProperties ==
  ASSUME NEW b, Valid(b), NEW data \in Seq(Bytes), NEW a, a = readFd(b, data)
  PROVE  /\ Valid(a)
         /\ Content(a) = Content(b) \o data
         /\ readableBytes(a) = readableBytes(b) + Len(data)
         /\ \/ Len(a.buffer_) = Len(b.buffer_)
            \/ Len(a.buffer_) < kCheapPrepend + 2 * readableBytes(a)
<1> DEFINE n == Len(data)
           v == writableBytes(b)
<1>1. /\ n \in Nat /\ v \in Nat /\ Len(b.buffer_) \in Nat /\ b.writerIndex_ \in Nat
      /\ b.writerIndex_ + v = Len(b.buffer_) /\ b \in Buffers
  BY LenProperties DEF Valid, Buffers, writableBytes
<1>2. CASE n <= v
  BY <1>2, FillProperties DEF readFd
<1>3. CASE ~(n <= v)
  <2>1. PICK p : p = SubSeq(data, 1, v)
    OBVIOUS
  <2>2. PICK q : q = SubSeq(data, v + 1, n)
    OBVIOUS
  <2>3. /\ p \in Seq(Bytes) /\ q \in Seq(Bytes) /\ Len(p) = v /\ Len(q) = n - v
        /\ p \o q = data
    <3>1. v \in Nat /\ v <= Len(data)
      BY <1>1, <1>3
    <3> HIDE DEF v
    <3> QED
      BY <2>1, <2>2, <3>1, SplitProperties
  <2>4. PICK g : g = Fill(b, p)
    OBVIOUS
  <2>5. a = append(g, q)
    BY <1>3, <2>1, <2>2, <2>4 DEF readFd
  <2>6. /\ Valid(g)
        /\ Content(g) = Content(b) \o p
        /\ readableBytes(g) = readableBytes(b) + v
        /\ Len(g.buffer_) = Len(b.buffer_)
    <3>1. p \in Seq(Bytes) /\ Len(p) <= writableBytes(b) /\ Len(p) = v
      BY <1>1, <2>3
    <3> HIDE DEF v
    <3> QED
      BY <2>4, <3>1, FillProperties
  <2>7. /\ Valid(a)
        /\ Content(a) = Content(g) \o q
        /\ readableBytes(a) = readableBytes(g) + Len(q)
        /\ \/ Len(a.buffer_) = Len(g.buffer_)
           \/ Len(a.buffer_) < kCheapPrepend + 2 * readableBytes(a)
    BY <2>3, <2>5, <2>6, AppendDataProperties
  <2>8. Content(b) \in Seq(Bytes) /\ readableBytes(b) \in Nat
    BY ContentProperties
  <2>9. Content(a) = Content(b) \o data
    <3>1. PICK c : c = Content(b)
      OBVIOUS
    <3>2. p \in Seq(Bytes) /\ q \in Seq(Bytes) /\ c \in Seq(Bytes)
      BY <2>3, <2>8, <3>1
    <3>3. (c \o p) \o q = c \o (p \o q)
      BY ONLY <3>2, ConcatAssociative
    <3> QED
      BY <2>3, <2>6, <2>7, <3>1, <3>3
  <2>10. readableBytes(a) = readableBytes(b) + n
    <3> HIDE DEF v, n
    <3> QED
      BY <1>1, <2>3, <2>6, <2>7, <2>8
  <2> QED
    BY <2>6, <2>7, <2>9, <2>10
<1> QED
  BY <1>2, <1>3

-----------------------------------------------------------------------------
(* retrieve and writeFd *)

\* A buffer whose unread bytes are those of b from the k-th on.
LEMMA SkipProperties ==
  ASSUME NEW b, Valid(b), NEW k \in Nat, k <= readableBytes(b),
         NEW c, Valid(c), readableBytes(c) = readableBytes(b) - k,
         \A i \in 1..(readableBytes(b) - k) :
            c.buffer_[c.readerIndex_ + i] = b.buffer_[b.readerIndex_ + (k + i)]
  PROVE  Content(c) = SubSeq(Content(b), k + 1, Len(Content(b)))
<1>1. PICK s : s = Content(b)
  OBVIOUS
<1>2. PICK n : n = readableBytes(b)
  OBVIOUS
<1>3. /\ s \in Seq(Bytes) /\ Len(s) = n /\ n \in Nat
      /\ \A i \in 1..n : s[i] = b.buffer_[b.readerIndex_ + i]
  BY <1>1, <1>2, ContentProperties
<1>4. /\ SubSeq(s, k + 1, n) \in Seq(Bytes)
      /\ Len(SubSeq(s, k + 1, n)) = n - k
      /\ \A i \in 1..(n - k) : SubSeq(s, k + 1, n)[i] = s[k + i]
  <2>1. \A i \in (k + 1)..n : s[i] \in Bytes
    BY <1>3, ElementOfSeq
  <2> QED
    BY <1>2, <1>3, <2>1, SubSeqProperties
<1>5. /\ Content(c) \in Seq(Bytes) /\ Len(Content(c)) = n - k
      /\ \A i \in 1..(n - k) : Content(c)[i] = c.buffer_[c.readerIndex_ + i]
  BY <1>2, ContentProperties
<1>6. ASSUME NEW i \in 1..(n - k)
      PROVE  Content(c)[i] = SubSeq(s, k + 1, n)[i]
  <2>1. k + i \in 1..n
    BY <1>2, <1>3
  <2>2. c.buffer_[c.readerIndex_ + i] = b.buffer_[b.readerIndex_ + (k + i)]
    BY <1>2
  <2> QED
    BY <1>3, <1>4, <1>5, <2>1, <2>2
<1>7. Content(c) = SubSeq(s, k + 1, n)
  BY <1>4, <1>5, <1>6, SeqEqual
<1> QED
  BY <1>1, <1>3, <1>7

\* What an operation that removes k bytes leaves behind.
Consumed(b, k, c) ==
  /\ Valid(c)
  /\ Content(c) = SubSeq(Content(b), k + 1, Len(Content(b)))
  /\ readableBytes(c) = readableBytes(b) - k
  /\ Len(c.buffer_) = Len(b.buffer_)

\* resetIndices removes every unread byte.
LEMMA ResetProperties ==
  ASSUME NEW b, Valid(b), NEW c, c = resetIndices(b)
  PROVE  Consumed(b, readableBytes(b), c)
<1>r. b \in [buffer_ : Seq(Bytes), readerIndex_ : Nat, writerIndex_ : Nat]
  BY DEF Valid, Buffers
<1>a. c = [buffer_ |-> b.buffer_, readerIndex_ |-> kCheapPrepend,
           writerIndex_ |-> kCheapPrepend]
  BY <1>r DEF resetIndices
<1>1. /\ readableBytes(b) \in Nat
      /\ c = [buffer_ |-> b.buffer_, readerIndex_ |-> kCheapPrepend,
              writerIndex_ |-> kCheapPrepend]
      /\ kCheapPrepend \in Nat /\ kCheapPrepend <= Len(b.buffer_)
  BY <1>a, LenProperties, BufferAssumption DEF Valid, Buffers, readableBytes
<1>2. Valid(c) /\ readableBytes(c) = 0
  BY <1>1 DEF Valid, Buffers, readableBytes
<1>3. /\ readableBytes(b) <= readableBytes(b)
      /\ readableBytes(c) = readableBytes(b) - readableBytes(b)
      /\ 1..(readableBytes(b) - readableBytes(b)) = {}
  BY <1>1, <1>2
<1>4. Content(c) = SubSeq(Content(b), readableBytes(b) + 1, Len(Content(b)))
  BY <1>1, <1>2, <1>3, SkipProperties
<1> QED
  BY <1>1, <1>2, <1>3, <1>4 DEF Consumed

\* writeFd removes the bytes write() took.
LEMMA WriteFdProperties ==
  ASSUME NEW b, Valid(b), NEW k \in Nat, k <= readableBytes(b), NEW c, c = writeFd(b, k)
  PROVE  Consumed(b, k, c)
<1>1. /\ b.readerIndex_ \in Nat /\ b.writerIndex_ \in Nat
      /\ c = [buffer_ |-> b.buffer_, readerIndex_ |-> b.readerIndex_ + k,
              writerIndex_ |-> b.writerIndex_]
      /\ kCheapPrepend \in Nat
  <2>1. b \in [buffer_ : Seq(Bytes), readerIndex_ : Nat, writerIndex_ : Nat]
    BY DEF Valid, Buffers
  <2> QED
    BY <2>1, BufferAssumption DEF writeFd
<1>2. Valid(c) /\ readableBytes(c) = readableBytes(b) - k
  BY <1>1 DEF Valid, Buffers, readableBytes
<1>3. readableBytes(b) \in Nat
  BY ContentProperties
<1>4. ASSUME NEW i \in 1..(readableBytes(b) - k)
      PROVE  c.buffer_[c.readerIndex_ + i] = b.buffer_[b.readerIndex_ + (k + i)]
  <2>1. (b.readerIndex_ + k) + i = b.readerIndex_ + (k + i)
    BY <1>1, <1>3
  <2> QED
    BY <1>1, <2>1
<1>5. Content(c) = SubSeq(Content(b), k + 1, Len(Content(b)))
  BY <1>2, <1>4, SkipProperties
<1> QED
  BY <1>1, <1>2, <1>5 DEF Consumed

\* retrieve removes len bytes, or all of them.
LEMMA RetrieveProperties ==
  ASSUME NEW b, Valid(b), NEW len \in Nat, NEW c, c = retrieve(b, len)
  PROVE  Consumed(b, MinOf(len, readableBytes(b)), c)
<1>1. PICK k : k = MinOf(len, readableBytes(b))
  OBVIOUS
<1>2. /\ readableBytes(b) \in Nat /\ k \in Nat /\ k <= readableBytes(b)
      /\ b.readerIndex_ \in Nat /\ b.writerIndex_ \in Nat
  BY <1>1, ContentProperties DEF MinOf, Valid, Buffers
<1>3. b.readerIndex_ + k = b.writerIndex_ <=> k = readableBytes(b)
  BY <1>2 DEF readableBytes
<1>4. CASE b.readerIndex_ + k = b.writerIndex_
  BY <1>1, <1>3, <1>4, ResetProperties DEF retrieve
<1>5. CASE b.readerIndex_ + k # b.writerIndex_
  <2>1. c = writeFd(b, k)
    BY <1>1, <1>5 DEF retrieve, writeFd
  <2> QED
    BY <1>1, <1>2, <2>1, WriteFdProperties
<1> QED
  BY <1>4, <1>5

-----------------------------------------------------------------------------
(* The specification *)

\* The inductive invariant: MemoryBound needs that peak really is an upper bound,
\* and that makeSpace starts from ordered indices.
BufferInv ==
  /\ Valid(buf)
  /\ moved \in Seq(Bytes)
  /\ peak \in Nat
  /\ readableBytes(buf) <= peak
  /\ MemoryBound

\* The effect of one operation on the queue, and on the size of the vector.
QueueStep ==
  /\ Valid(buf')
  /\ moved' \in Seq(Bytes)
  /\ peak' = MaxOf(peak, readableBytes(buf'))
  /\ \/ Len(buf'.buffer_) = Len(buf.buffer_)
     \/ Len(buf'.buffer_) < kCheapPrepend + 2 * readableBytes(buf')
  /\ \/ Content(buf') = Content(buf) \o moved'
     \/ \E n \in 0..Len(Content(buf)) :
          /\ Content(buf') = SubSeq(Content(buf), n + 1, Len(Content(buf)))
          /\ moved' \in {<<>>, SubSeq(Content(buf), 1, n)}

\* Removing k bytes, and handing out nothing or exactly these bytes, is a step.
LEMMA ConsumedIsQueueStep ==
  ASSUME Valid(buf), NEW STATE k, k \in Nat, k <= readableBytes(buf),
         NEW STATE bytes, bytes \in {<<>>, SubSeq(Content(buf), 1, k)},
         NEW STATE c, Consumed(buf, k, c), Update(c, bytes)
  PROVE  QueueStep
<1>1. Content(buf) \in Seq(Bytes) /\ Len(Content(buf)) = readableBytes(buf)
  BY ContentProperties
<1>2. PICK s : s = Content(buf)
  OBVIOUS
<1>3. SubSeq(s, 1, k) \in Seq(Bytes)
  BY <1>1, <1>2, SplitProperties
<1>4. <<>> \in Seq(Bytes)
  OBVIOUS
<1>5. bytes \in Seq(Bytes)
  BY <1>2, <1>3, <1>4
<1>7. k \in 0..Len(Content(buf))
  BY <1>1, LenProperties
<1>6. buf' = c /\ moved' = bytes /\ peak' = MaxOf(peak, readableBytes(c))
  BY DEF Update
<1> QED
  BY <1>5, <1>6, <1>7 DEF QueueStep, Consumed

\* Every action of a valid buffer is such a step.
LEMMA NextIsQueueStep ==
  ASSUME Valid(buf), Next
  PROVE  QueueStep
<1>1. ASSUME NEW data \in Chunks PROVE data \in Seq(Bytes)
  <2>1. PICK n \in 0..MaxChunk : data \in [1..n -> Bytes]
    BY DEF Chunks
  <2>2. n \in Nat
    BY BufferAssumption
  <2> QED
    BY <2>1, <2>2, FunIsSeq
<1>2. readableBytes(buf) \in Nat
  BY ContentProperties
<1>3. ASSUME NEW data \in Chunks, AppendData(data) PROVE QueueStep
  <2>1. data \in Seq(Bytes) /\ buf' = append(buf, data) /\ moved' = data
        /\ peak' = MaxOf(peak, readableBytes(buf'))
    BY <1>1, <1>3 DEF AppendData, Update
  <2>2. /\ Valid(buf') /\ Content(buf') = Content(buf) \o data
        /\ \/ Len(buf'.buffer_) = Len(buf.buffer_)
           \/ Len(buf'.buffer_) < kCheapPrepend + 2 * readableBytes(buf')
    BY <2>1, AppendDataProperties
  <2> QED
    BY <2>1, <2>2 DEF QueueStep
<1>4. ASSUME NEW data \in Chunks, ReadFd(data) PROVE QueueStep
  <2>1. data \in Seq(Bytes) /\ buf' = readFd(buf, data) /\ moved' = data
        /\ peak' = MaxOf(peak, readableBytes(buf'))
    BY <1>1, <1>4 DEF ReadFd, Update
  <2>2. /\ Valid(buf') /\ Content(buf') = Content(buf) \o data
        /\ \/ Len(buf'.buffer_) = Len(buf.buffer_)
           \/ Len(buf'.buffer_) < kCheapPrepend + 2 * readableBytes(buf')
    BY <2>1, ReadFdProperties
  <2> QED
    BY <2>1, <2>2 DEF QueueStep
<1>5. ASSUME NEW len \in 0..(MaxReadable + 1)
      PROVE  len \in Nat /\ MinOf(len, readableBytes(buf)) \in Nat
             /\ MinOf(len, readableBytes(buf)) <= readableBytes(buf)
  BY <1>2, BufferAssumption DEF MinOf
<1>6. ASSUME NEW len \in 0..(MaxReadable + 1), Retrieve(len) PROVE QueueStep
  <2>1. Consumed(buf, MinOf(len, readableBytes(buf)), retrieve(buf, len))
    BY <1>5, RetrieveProperties
  <2> QED
    BY <1>5, <1>6, <2>1, ConsumedIsQueueStep DEF Retrieve
<1>7. ASSUME NEW len \in 0..(MaxReadable + 1), RetrieveAsString(len) PROVE QueueStep
  <2>1. PICK n : n = MinOf(len, readableBytes(buf))
    OBVIOUS
  <2>2. n \in Nat /\ n <= readableBytes(buf) /\ MinOf(n, readableBytes(buf)) = n
    BY <1>5, <2>1 DEF MinOf
  <2>3. Consumed(buf, n, retrieve(buf, n))
    BY <2>2, RetrieveProperties
  <2>4. Update(retrieve(buf, n), SubSeq(Content(buf), 1, n))
    BY <1>7, <2>1 DEF RetrieveAsString
  <2> QED
    BY <2>2, <2>3, <2>4, ConsumedIsQueueStep
<1>8. ASSUME NEW len \in 0..(MaxReadable + 1), WriteFd(len) PROVE QueueStep
  <2>1. len \in Nat /\ len <= readableBytes(buf)
        /\ Update(writeFd(buf, len), SubSeq(Content(buf), 1, len))
    BY <1>5, <1>8 DEF WriteFd
  <2>2. Consumed(buf, len, writeFd(buf, len))
    BY <2>1, WriteFdProperties
  <2> QED
    BY <2>1, <2>2, ConsumedIsQueueStep
<1>9. ASSUME RetrieveAll PROVE QueueStep
  <2>1. Consumed(buf, readableBytes(buf), resetIndices(buf))
    BY ResetProperties
  <2>2. readableBytes(buf) <= readableBytes(buf)
    BY <1>2
  <2> QED
    BY <1>2, <1>9, <2>1, <2>2, ConsumedIsQueueStep DEF RetrieveAll
<1> QED
  BY <1>3, <1>4, <1>6, <1>7, <1>8, <1>9 DEF Next

\* The empty buffer.
LEMMA InitProperties ==
  ASSUME Init
  PROVE  BufferInv /\ Content(buf) = <<>>
<1> DEFINE mem == [i \in 1..(kCheapPrepend + kInitialSize) |-> 0]
<1>1. mem \in Seq(Bytes) /\ Len(mem) = kCheapPrepend + kInitialSize
  BY BufferAssumption, FunIsSeq
<1> HIDE DEF mem
<1>2. buf = [buffer_ |-> mem, readerIndex_ |-> kCheapPrepend, writerIndex_ |-> kCheapPrepend]
  BY DEF Init, mem
<1>3. Valid(buf) /\ readableBytes(buf) = 0
  BY <1>1, <1>2, BufferAssumption DEF Valid, Buffers, readableBytes
<1>4. MemoryBound
  BY <1>1, <1>2, BufferAssumption DEF MemoryBound
<1>5. moved = <<>> /\ peak = 0 /\ moved \in Seq(Bytes)
  BY DEF Init
<1>6. Content(buf) = <<>>
  BY <1>3, ContentProperties, EmptySeq
<1> QED
  BY <1>3, <1>4, <1>5, <1>6 DEF BufferInv

\* BufferInv is inductive.
LEMMA BufferInvStep ==
  ASSUME BufferInv, [Next]_vars
  PROVE  BufferInv'
<1>1. CASE Next
  <2>1. QueueStep
    BY <1>1, NextIsQueueStep DEF BufferInv
  <2>2. readableBytes(buf') \in Nat
    BY <2>1, ContentProperties DEF QueueStep
  <2>3. peak' \in Nat /\ peak <= peak' /\ readableBytes(buf') <= peak' /\ peak \in Nat
    BY <2>1, <2>2 DEF QueueStep, MaxOf, BufferInv
  <2>4. Len(buf.buffer_) \in Nat /\ Len(buf'.buffer_) \in Nat
    BY <2>1, LenProperties DEF QueueStep, BufferInv, Valid, Buffers
  <2>5. MemoryBound'
    BY <2>1, <2>2, <2>3, <2>4, BufferAssumption DEF QueueStep, BufferInv, MemoryBound
  <2> QED
    BY <2>1, <2>3, <2>5 DEF QueueStep, BufferInv, Valid, readableBytes
<1>2. CASE UNCHANGED vars
  BY <1>2 DEF vars, BufferInv, Valid, MemoryBound, readableBytes
<1> QED
  BY <1>1, <1>2

\* Every reachable buffer is well formed.
THEOREM BufferInvariant == Spec => []BufferInv
<1>1. Init => BufferInv
  BY InitProperties
<1>2. BufferInv /\ [Next]_vars => BufferInv'
  BY BufferInvStep
<1> QED
  BY <1>1, <1>2, PTL DEF Spec

\* The state of a Buffer keeps its type.
THEOREM BufferTypeCorrect == Spec => []TypeOK
<1>1. BufferInv => TypeOK
  BY DEF BufferInv, Valid, TypeOK
<1> QED
  BY <1>1, BufferInvariant, PTL

\* No sequence of Buffer calls makes the indices cross or leave the vector.
THEOREM IndicesOrdered == Spec => []IndexOrder
<1>1. BufferInv => IndexOrder
  BY DEF BufferInv, Valid, IndexOrder
<1> QED
  BY <1>1, BufferInvariant, PTL

\* makeSpace bounds the vector by the most it ever held at once.
THEOREM MemoryBounded == Spec => []MemoryBound
<1>1. BufferInv => MemoryBound
  BY DEF BufferInv
<1> QED
  BY <1>1, BufferInvariant, PTL

\* A Buffer is a FIFO queue of bytes, whatever the sizes and the calls.
THEOREM BufferImplementsByteQueue == Spec => ImplementsByteQueue
<1>1. Init => BQ!Init
  BY InitProperties DEF Init, BQ!Init
<1>2. BufferInv /\ [Next]_vars => [BQ!Next]_BQ!bqVars
  <2>1. ASSUME BufferInv, Next PROVE BQ!Next
    <3>1. QueueStep
      BY <2>1, NextIsQueueStep DEF BufferInv
    <3>2. CASE Content(buf') = Content(buf) \o moved'
      BY <3>1, <3>2 DEF QueueStep, BQ!Next, BQ!Put, Content
    <3>3. CASE \E n \in 0..Len(Content(buf)) :
                 /\ Content(buf') = SubSeq(Content(buf), n + 1, Len(Content(buf)))
                 /\ moved' \in {<<>>, SubSeq(Content(buf), 1, n)}
      BY <3>3 DEF BQ!Next, BQ!Take, BQ!Drop, Content
    <3> QED
      BY <3>1, <3>2, <3>3 DEF QueueStep
  <2>2. UNCHANGED vars => UNCHANGED BQ!bqVars
    BY DEF vars, BQ!bqVars, Content
  <2> QED
    BY <2>1, <2>2
<1> QED
  BY <1>1, <1>2, BufferInvariant, PTL DEF Spec, ImplementsByteQueue, BQ!Spec
=============================================================================
