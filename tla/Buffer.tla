------------------------------- MODULE Buffer -------------------------------
(***************************************************************************)
(* Buffer: a growable array with a reader and a writer index.  A buffer is *)
(* a record whose fields carry the class's member names; buffer_ is the    *)
(* vector, position i of the program being element i + 1 of the sequence.  *)
(***************************************************************************)
EXTENDS Naturals, Sequences

CONSTANTS
  Bytes,            \* the values of a char, 0 among them
  kCheapPrepend,
  kInitialSize,
  kExtraBufSize,    \* size of extrabuf_, readFd's second target
  MaxChunk,         \* bound: bytes one call brings in
  MaxReadable       \* bound: bytes the buffer holds unread

ASSUME BufferAssumption ==
  /\ 0 \in Bytes
  /\ kCheapPrepend \in Nat
  /\ kInitialSize \in Nat
  /\ kExtraBufSize \in Nat
  /\ MaxChunk \in Nat
  /\ MaxReadable \in Nat

VARIABLES
  buf,   \* the Buffer object
  moved, \* the bytes the last operation brought in, or handed out
  peak   \* the largest number of unread bytes so far

vars == <<buf, moved, peak>>

MinOf(m, n) == IF m <= n THEN m ELSE n
MaxOf(m, n) == IF m <= n THEN n ELSE m

Buffers == [buffer_ : Seq(Bytes), readerIndex_ : Nat, writerIndex_ : Nat]

-----------------------------------------------------------------------------
(* The members of class Buffer, as functions of the object *)

readableBytes(b) == b.writerIndex_ - b.readerIndex_
writableBytes(b) == Len(b.buffer_) - b.writerIndex_
prependableBytes(b) == b.readerIndex_

\* The unread bytes: readableBytes() of them, from peek().
Content(b) == SubSeq(b.buffer_, b.readerIndex_ + 1, b.writerIndex_)

resetIndices(b) ==
  [b EXCEPT !.readerIndex_ = kCheapPrepend, !.writerIndex_ = kCheapPrepend]

\* std::vector::resize: new elements are zero.
Resize(mem, size) == [i \in 1..size |-> IF i <= Len(mem) THEN mem[i] ELSE 0]

\* std::copy and std::copy_n of data to position at.
CopyTo(mem, at, data) ==
  [i \in 1..Len(mem) |-> IF at < i /\ i <= at + Len(data) THEN data[i - at] ELSE mem[i]]

\* Mutant: the vector always grows, the freed space in front is never reused.
makeSpace_NeverCompacts(b, len) ==
  [b EXCEPT !.buffer_ = Resize(b.buffer_, b.writerIndex_ + len)]

\* Mutant: the reader index is moved back past the start of the vector.
makeSpace_WrongSign(b, len) ==
  IF writableBytes(b) + prependableBytes(b) < len + kCheapPrepend
  THEN [b EXCEPT !.buffer_ = Resize(b.buffer_, b.writerIndex_ + len)]
  ELSE [buffer_ |-> CopyTo(b.buffer_, kCheapPrepend, Content(b)),
        readerIndex_ |-> 0 - kCheapPrepend,
        writerIndex_ |-> readableBytes(b)]

\* Grow when the space in front and behind together is too small, else move the
\* unread bytes to the front.
makeSpace(b, len) ==
  IF writableBytes(b) + prependableBytes(b) < len + kCheapPrepend
  THEN [b EXCEPT !.buffer_ = Resize(b.buffer_, b.writerIndex_ + len)]
  ELSE [buffer_ |-> CopyTo(b.buffer_, kCheapPrepend, Content(b)),
        readerIndex_ |-> kCheapPrepend,
        writerIndex_ |-> kCheapPrepend + readableBytes(b)]

ensureWritableSpace(b, len) ==
  IF writableBytes(b) < len THEN makeSpace(b, len) ELSE b

\* Bytes copied to beginWrite(), and the writer index moved past them.
Fill(b, data) ==
  [buffer_ |-> CopyTo(b.buffer_, b.writerIndex_, data),
   readerIndex_ |-> b.readerIndex_,
   writerIndex_ |-> b.writerIndex_ + Len(data)]

append(b, data) == Fill(ensureWritableSpace(b, Len(data)), data)

\* Mutant: len is not clamped to the readable bytes.
retrieve_NoClamp(b, len) == [b EXCEPT !.readerIndex_ = b.readerIndex_ + len]

retrieve(b, len) ==
  LET reader == b.readerIndex_ + MinOf(len, readableBytes(b))
  IN  IF reader = b.writerIndex_ THEN resetIndices(b)
                                 ELSE [b EXCEPT !.readerIndex_ = reader]

\* The most readv can deliver: the space behind the writer, and the extra
\* buffer when that space is the smaller of the two.
ReadCapacity(b) ==
  IF writableBytes(b) < kExtraBufSize THEN writableBytes(b) + kExtraBufSize
                                      ELSE writableBytes(b)

\* Mutant: the overflow is appended before the writer index reaches the end.
readFd_StaleWriter(b, data) ==
  LET writable == writableBytes(b)
  IN  IF Len(data) <= writable THEN Fill(b, data)
                               ELSE append(b, SubSeq(data, writable + 1, Len(data)))

\* readFd and handleReadResult: readv fills the vector up to its end, what is
\* left over arrives in the extra buffer and is appended.
readFd(b, data) ==
  LET writable == writableBytes(b)
  IN  IF Len(data) <= writable THEN Fill(b, data)
      ELSE append(Fill(b, SubSeq(data, 1, writable)), SubSeq(data, writable + 1, Len(data)))

\* writeFd, when write() takes n bytes: the reader index moves, and an emptied
\* buffer is not reset.
writeFd(b, n) == [b EXCEPT !.readerIndex_ = b.readerIndex_ + n]

-----------------------------------------------------------------------------
(* One buffer under any sequence of calls *)

Chunks == UNION {[1..n -> Bytes] : n \in 0..MaxChunk}

Init ==
  /\ buf = [buffer_ |-> [i \in 1..(kCheapPrepend + kInitialSize) |-> 0],
            readerIndex_ |-> kCheapPrepend,
            writerIndex_ |-> kCheapPrepend]
  /\ moved = <<>>
  /\ peak = 0

Update(b, bytes) ==
  /\ buf' = b
  /\ moved' = bytes
  /\ peak' = MaxOf(peak, readableBytes(b))

Fits(data) == readableBytes(buf) + Len(data) <= MaxReadable

AppendData(data) == Fits(data) /\ Update(append(buf, data), data)

Retrieve(len) == Update(retrieve(buf, len), <<>>)

RetrieveAll == Update(resetIndices(buf), <<>>)

\* The string is copied out before the indices move.
RetrieveAsString(len) ==
  LET n == MinOf(len, readableBytes(buf))
  IN  Update(retrieve(buf, n), SubSeq(Content(buf), 1, n))

\* readv returns -1 (nothing changes), 0 (end of file) or the bytes in data.
ReadFd(data) ==
  /\ Fits(data)
  /\ Len(data) <= ReadCapacity(buf)
  /\ Update(readFd(buf, data), data)

\* write() takes the first n unread bytes.
WriteFd(n) ==
  /\ n <= readableBytes(buf)
  /\ Update(writeFd(buf, n), SubSeq(Content(buf), 1, n))

Next ==
  \/ \E data \in Chunks : AppendData(data) \/ ReadFd(data)
  \/ \E len \in 0..(MaxReadable + 1) : Retrieve(len) \/ RetrieveAsString(len) \/ WriteFd(len)
  \/ RetrieveAll

Spec == Init /\ [][Next]_vars

-----------------------------------------------------------------------------
(* Properties *)

TypeOK ==
  /\ buf \in Buffers
  /\ moved \in Seq(Bytes)
  /\ peak \in Nat

\* The indices never cross each other or leave the vector, and the prepend area
\* stays free: every copy and every peek() of the class stays inside buffer_.
IndexOrder ==
  /\ kCheapPrepend <= buf.readerIndex_
  /\ buf.readerIndex_ <= buf.writerIndex_
  /\ buf.writerIndex_ <= Len(buf.buffer_)

\* makeSpace reuses the space of consumed bytes: however many bytes pass
\* through, the vector never outgrows twice the most it had to hold at once.
MemoryBound ==
  \/ Len(buf.buffer_) <= kCheapPrepend + kInitialSize
  \/ Len(buf.buffer_) < kCheapPrepend + 2 * peak

\* Compaction, growth, the two-part read and the index resets are invisible: the
\* Buffer is a FIFO queue of bytes.
BQ == INSTANCE ByteQueue WITH content <- Content(buf)
ImplementsByteQueue == BQ!Spec
=============================================================================
