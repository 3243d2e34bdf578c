------------------------- MODULE TcpConnectionProofs -------------------------
(***************************************************************************)
(* Safety of a TcpConnection for any number and size of sends and any      *)
(* high-water mark.                                                        *)
(***************************************************************************)
EXTENDS TcpConnection, SequenceTheorems, TLAPS

\* TypeOK, one variable at a time.
Values ==
  /\ state_ \in {"Connecting", "Connected", "Disconnecting", "Disconnected"}
  /\ events_ \in SUBSET {"read", "write"}
  /\ index_ \in {"KNew", "KAdded", "KDeleted"}
  /\ outputBuffer_ \in Seq(1..accepted)
  /\ wire \in Seq(1..accepted)
  /\ pc \in {"poll", "events", "functors", "dead"}
  /\ revents_ \in SUBSET {"HUP", "ERR", "IN", "OUT"}
  /\ callback \in {"none", "user", "close", "destroy"}
  /\ pendingFunctors_ \in Seq(Functors)
  /\ functors \in Seq(Functors)
  /\ caller \in Sends \cup {Op("idle"), Op("shutdown")}
  /\ peer \in {"open", "fin", "rst", "reset"}
  /\ asked \in 0..MaxBytes
  /\ accepted \in Nat
  /\ removals \in 0..2
  /\ up \in 0..2
  /\ down \in 0..2

Flags ==
  /\ inMap \in BOOLEAN
  /\ fin \in BOOLEAN
  /\ inbox \in BOOLEAN
  /\ killed \in BOOLEAN
  /\ closed \in BOOLEAN
  /\ late \in BOOLEAN
  /\ reopened \in BOOLEAN
  /\ shut \in BOOLEAN
  /\ partial \in BOOLEAN
  /\ gone \in BOOLEAN

Types == Values /\ Flags

-----------------------------------------------------------------------------
(* The queues of functors *)

\* No functor of q does op.
Free(q, op) == \A k \in 1..Len(q) : q[k].op # op

\* All functors of q do op.
All(q, op) == \A k \in 1..Len(q) : q[k].op = op

\* connectEstablished is the first functor of q, and only connectDestroyed may follow.
FirstEstablished(q) ==
  /\ q # <<>>
  /\ q[1].op = "established"
  /\ \A k \in 2..Len(q) : q[k].op = "destroyed"

\* connectEstablished is queued once, before everything else, and runs once; until
\* then nothing can have happened to the connection.
EstablishedFirst ==
  /\ up > 0 => Free(functors, "established") /\ Free(pendingFunctors_, "established")
  /\ up = 0 =>
       /\ \/ functors = <<>> /\ FirstEstablished(pendingFunctors_)
          \/ FirstEstablished(functors) /\ All(pendingFunctors_, "destroyed")
       /\ state_ = "Connecting" /\ callback = "none" /\ caller = Op("idle")
       /\ events_ = {} /\ index_ = "KNew" /\ revents_ = {} /\ outputBuffer_ = <<>>
       /\ ~fin /\ ~closed /\ ~late /\ ~reopened /\ ~gone /\ down = 0

\* A connection that was told to shut down, or is closed, is never Connected again.
NeverBack ==
  /\ fin \/ closed \/ caller = Op("shutdown") => state_ \notin {"Connecting", "Connected"}
  /\ state_ \in {"Connecting", "Connected"} =>
       Free(functors, "shutdown") /\ Free(pendingFunctors_, "shutdown")

\* What the phase of the loop and the callback that runs say of the rest.
PhaseInv ==
  /\ functors # <<>> => pc = "functors"
  /\ pc # "events" => revents_ = {}
  /\ callback \in {"close", "destroy"} => closed
  /\ gone => closed

\* Until it is closed, the channel is registered, and writing just when there is
\* output.
OpenInv ==
  ~closed => /\ down = 0
             /\ isWriting <=> outputBuffer_ # <<>>
             /\ up > 0 => "read" \in events_ /\ index_ = "KAdded"

\* Once it is closed, no report of the channel can close it again, unless a queued
\* send registers it again.
ClosedInv ==
  closed /\ ~reopened => /\ index_ # "KAdded"
                         /\ revents_ \cap {"HUP", "IN"} = {}
                         /\ isWriting => revents_ = {}
                         /\ down <= 1

\* With the write side shut down, only a late send on a closed connection starts writing.
FinInv == fin /\ isWriting => closed /\ late

Control == EstablishedFirst /\ NeverBack /\ PhaseInv /\ OpenInv /\ ClosedInv /\ FinInv /\ KilledOnlyByLateSend

-----------------------------------------------------------------------------
(* The order of the bytes *)

Sorted(s, n) == \A j, k \in 1..n : j < k => s[j] < s[k]

\* The first n elements of s are bytes up to a.
Within(s, n, a) == \A k \in 1..n : s[k] \in 1..a

\* The first n elements of t count on from a.
Counts(t, n, a) == \A k \in 1..n : t[k] = a + k

\* r is the m elements of s, then the n elements of t.
Extends(r, s, m, t, n) == (\A k \in 1..m : r[k] = s[k]) /\ (\A k \in 1..n : r[m + k] = t[k])

\* The m bytes of w, and the n bytes of o behind them, are in increasing order; if they
\* are whole, they are the bytes 1 to a.
InLine(w, m, o, n, a, whole) ==
  /\ Sorted(w, m)
  /\ Sorted(o, n)
  /\ \A j \in 1..m, k \in 1..n : w[j] < o[k]
  /\ whole => /\ m + n = a
              /\ \A k \in 1..m : w[k] = k
              /\ \A k \in 1..n : o[k] = m + k

\* The bytes on the wire and those in the buffer; before a partial write they are all
\* the bytes taken over.
Data == InLine(wire, Len(wire), outputBuffer_, Len(outputBuffer_), accepted, ~partial)

IInv == Types /\ Control /\ Data

-----------------------------------------------------------------------------
(* Lemmas on sequences *)

\* A function on 1..n is a sequence of length n.
LEMMA FunctionIsSequence ==
  ASSUME NEW S, NEW n \in Nat, NEW f \in [1..n -> S]
  PROVE  f \in Seq(S) /\ Len(f) = n
<1>1. f \in Seq(S)
  BY SeqDef
<1>2. DOMAIN f = 1..Len(f) /\ Len(f) \in Nat
  BY <1>1, LenProperties
<1> QED BY <1>1, <1>2

\* The first n elements of a sequence, and what is left when they are dropped.
LEMMA Cut ==
  ASSUME NEW S, NEW s \in Seq(S), NEW n \in 0..Len(s)
  PROVE  /\ SubSeq(s, 1, n) \in Seq(S)
         /\ Len(SubSeq(s, 1, n)) = n
         /\ \A k \in 1..n : SubSeq(s, 1, n)[k] = s[k]
         /\ Drop(s, n) \in Seq(S)
         /\ Len(Drop(s, n)) = Len(s) - n
         /\ \A k \in 1..(Len(s) - n) : Drop(s, n)[k] = s[n + k]
<1>1. Len(s) \in Nat /\ n \in Nat /\ n <= Len(s) /\ \A k \in 1..Len(s) : s[k] \in S
  BY LenProperties, ElementOfSeq
<1>2. \A k \in 1..n : s[k] \in S
  BY <1>1
<1>3. \A k \in (n + 1)..Len(s) : s[k] \in S
  BY <1>1
<1>4. /\ SubSeq(s, 1, n) \in Seq(S)
      /\ Len(SubSeq(s, 1, n)) = IF 1 <= n THEN n - 1 + 1 ELSE 0
      /\ \A k \in 1..(n - 1 + 1) : SubSeq(s, 1, n)[k] = s[1 + k - 1]
  BY <1>1, <1>2, SubSeqProperties
<1>5. /\ SubSeq(s, n + 1, Len(s)) \in Seq(S)
      /\ Len(SubSeq(s, n + 1, Len(s))) = IF n + 1 <= Len(s) THEN Len(s) - (n + 1) + 1 ELSE 0
      /\ \A k \in 1..(Len(s) - (n + 1) + 1) : SubSeq(s, n + 1, Len(s))[k] = s[n + 1 + k - 1]
  <2>1. n + 1 \in Int /\ Len(s) \in Int
    BY <1>1
  <2> QED BY <1>3, <2>1, SubSeqProperties
<1>6. Len(SubSeq(s, 1, n)) = n /\ \A k \in 1..n : SubSeq(s, 1, n)[k] = s[k]
  BY <1>1, <1>4
<1>7. /\ Len(SubSeq(s, n + 1, Len(s))) = Len(s) - n
      /\ \A k \in 1..(Len(s) - n) : SubSeq(s, n + 1, Len(s))[k] = s[n + k]
  BY <1>1, <1>5
<1> QED BY <1>4, <1>5, <1>6, <1>7 DEF Drop

\* A wider set of elements.
LEMMA WiderSeq ==
  ASSUME NEW S, NEW T, S \subseteq T, NEW s \in Seq(S)
  PROVE  s \in Seq(T)
<1>1. Len(s) \in Nat /\ s \in [1..Len(s) -> S]
  BY LenProperties
<1>2. s \in [1..Len(s) -> T]
  BY <1>1
<1> QED BY <1>1, <1>2, SeqDef

\* The bytes of a send are those that follow the ones accepted so far.
LEMMA NextBytesProperties ==
  ASSUME accepted \in Nat, NEW len \in Nat
  PROVE  /\ NextBytes(len) \in Seq(1..(accepted + len))
         /\ Len(NextBytes(len)) = len
         /\ Counts(NextBytes(len), len, accepted)
<1>1. NextBytes(len) \in [1..len -> 1..(accepted + len)]
  BY DEF NextBytes
<1>2. Counts(NextBytes(len), len, accepted)
  BY DEF NextBytes, Counts
<1> QED BY <1>1, <1>2, FunctionIsSequence

\* The elements of a concatenation.
LEMMA Joined ==
  ASSUME NEW S, NEW s \in Seq(S), NEW t \in Seq(S), NEW r, r = s \o t
  PROVE  /\ r \in Seq(S)
         /\ Len(r) = Len(s) + Len(t)
         /\ Extends(r, s, Len(s), t, Len(t))
         /\ Len(s) \in Nat /\ Len(t) \in Nat
<1>1. Len(s) \in Nat /\ Len(t) \in Nat
  BY LenProperties
<1>2. /\ r \in Seq(S)
      /\ Len(r) = Len(s) + Len(t)
      /\ \A k \in 1..(Len(s) + Len(t)) : r[k] = IF k <= Len(s) THEN s[k] ELSE t[k - Len(s)]
  BY ConcatProperties
<1>3. ASSUME NEW k \in 1..Len(s) PROVE r[k] = s[k]
  BY <1>1, <1>2
<1>4. ASSUME NEW k \in 1..Len(t) PROVE r[Len(s) + k] = t[k]
  <2>1. /\ Len(s) + k \in 1..(Len(s) + Len(t))
        /\ ~(Len(s) + k <= Len(s))
        /\ Len(s) + k - Len(s) = k
    BY <1>1
  <2> QED BY <1>2, <2>1
<1> QED BY <1>1, <1>2, <1>3, <1>4 DEF Extends

\* Two sorted sequences, the second behind the first, make a sorted one.
LEMMA SortedJoin ==
  ASSUME NEW m \in Nat, NEW n \in Nat, NEW r,
         \A j, k \in 1..m : j < k => r[j] < r[k],
         \A j, k \in 1..n : j < k => r[m + j] < r[m + k],
         \A j \in 1..m, k \in 1..n : r[j] < r[m + k]
  PROVE  Sorted(r, m + n)
<1> SUFFICES ASSUME NEW j \in 1..(m + n), NEW k \in 1..(m + n), j < k
             PROVE  r[j] < r[k]
  BY DEF Sorted
<1>1. CASE k <= m
  BY <1>1
<1>2. CASE j > m
  <2>1. j - m \in 1..n /\ k - m \in 1..n /\ j - m < k - m /\ m + (j - m) = j /\ m + (k - m) = k
    BY <1>2
  <2> QED BY <2>1
<1>3. CASE j <= m /\ k > m
  <2>1. k - m \in 1..n /\ m + (k - m) = k /\ j \in 1..m
    BY <1>3
  <2> QED BY <2>1
<1> QED BY <1>1, <1>2, <1>3

\* New bytes b, of which the first n go to the wire and the other l are buffered, when
\* nothing was buffered before.
LEMMA InLineWritten ==
  ASSUME NEW a \in Nat, NEW m \in Nat, NEW w, Within(w, m, a),
         NEW o, NEW whole \in BOOLEAN, InLine(w, m, o, 0, a, whole),
         NEW n \in Nat, NEW b, Counts(b, n, a),
         NEW l \in Nat, NEW p, Counts(p, l, a + n),
         NEW v, Extends(v, w, m, b, n)
  PROVE  InLine(v, m + n, p, l, a + n + l, whole)
<1>1. \A k \in 1..(m + n) : \/ k \in 1..m /\ v[k] = w[k]
                            \/ k - m \in 1..n /\ v[k] = b[k - m]
  <2>1. ASSUME NEW k \in 1..(m + n), k > m PROVE k - m \in 1..n /\ v[k] = b[k - m]
    <3>1. k - m \in 1..n /\ m + (k - m) = k
      BY <2>1
    <3> QED BY <3>1 DEF Extends
  <2> QED BY <2>1 DEF Extends
<1> USE DEF Within, Counts, Extends
<1>2. Sorted(v, m + n)
  <2>1. ASSUME NEW j \in 1..m, NEW k \in 1..m, j < k PROVE v[j] < v[k]
    <3>1. w[j] < w[k]
      BY <2>1 DEF InLine, Sorted
    <3> QED BY <3>1
  <2>2. ASSUME NEW j \in 1..n, NEW k \in 1..n, j < k PROVE v[m + j] < v[m + k]
    <3>1. v[m + j] = a + j /\ v[m + k] = a + k
      OBVIOUS
    <3> QED BY <2>2, <3>1
  <2>3. ASSUME NEW j \in 1..m, NEW k \in 1..n PROVE v[j] < v[m + k]
    <3>1. v[m + k] = a + k /\ v[j] \in 1..a
      OBVIOUS
    <3> QED BY <3>1
  <2> QED BY <2>1, <2>2, <2>3, SortedJoin
<1>3. Sorted(p, l)
  BY DEF Sorted
<1>4. ASSUME NEW j \in 1..(m + n), NEW k \in 1..l PROVE v[j] < p[k]
  <2>1. CASE j \in 1..m /\ v[j] = w[j]
    <3>1. v[j] \in 1..a /\ p[k] = a + n + k
      BY <2>1
    <3> QED BY <3>1
  <2>2. CASE j - m \in 1..n /\ v[j] = b[j - m]
    <3>1. v[j] = a + (j - m) /\ p[k] = a + n + k
      BY <2>2
    <3> QED BY <2>2, <3>1
  <2> QED BY <1>1, <2>1, <2>2
<1>5. ASSUME whole PROVE m + n + l = a + n + l
  <2>1. m + 0 = a
    BY <1>5 DEF InLine
  <2> QED BY <2>1
<1>6. ASSUME whole, NEW k \in 1..(m + n) PROVE v[k] = k
  <2>1. m + 0 = a /\ \A i1 \in 1..m : w[i1] = i1
    BY <1>6 DEF InLine
  <2>2. CASE k \in 1..m /\ v[k] = w[k]
    BY <2>1, <2>2
  <2>3. CASE k - m \in 1..n /\ v[k] = b[k - m]
    <3>1. v[k] = a + (k - m)
      BY <2>3
    <3> QED BY <2>1, <3>1
  <2> QED BY <1>1, <2>2, <2>3
<1>7. ASSUME whole, NEW k \in 1..l PROVE p[k] = m + n + k
  <2>1. m + 0 = a
    BY <1>7 DEF InLine
  <2> QED BY <2>1
<1> QED BY <1>2, <1>3, <1>4, <1>5, <1>6, <1>7 DEF InLine

\* The new bytes b behind the buffered ones.
LEMMA InLineBuffered ==
  ASSUME NEW a \in Nat, NEW m \in Nat, NEW w, Within(w, m, a),
         NEW l \in Nat, NEW o, Within(o, l, a),
         NEW whole \in BOOLEAN, InLine(w, m, o, l, a, whole),
         NEW n \in Nat, NEW b, Counts(b, n, a),
         NEW p, Extends(p, o, l, b, n)
  PROVE  InLine(w, m, p, l + n, a + n, whole)
<1>1. \A k \in 1..(l + n) : \/ k \in 1..l /\ p[k] = o[k]
                            \/ k - l \in 1..n /\ p[k] = b[k - l]
  <2>1. ASSUME NEW k \in 1..(l + n), k > l PROVE k - l \in 1..n /\ p[k] = b[k - l]
    <3>1. k - l \in 1..n /\ l + (k - l) = k
      BY <2>1
    <3> QED BY <3>1 DEF Extends
  <2> QED BY <2>1 DEF Extends
<1> USE DEF Within, Counts, Extends
<1>2. Sorted(p, l + n)
  <2>1. ASSUME NEW j \in 1..l, NEW k \in 1..l, j < k PROVE p[j] < p[k]
    <3>1. o[j] < o[k]
      BY <2>1 DEF InLine, Sorted
    <3> QED BY <3>1
  <2>2. ASSUME NEW j \in 1..n, NEW k \in 1..n, j < k PROVE p[l + j] < p[l + k]
    <3>1. p[l + j] = a + j /\ p[l + k] = a + k
      OBVIOUS
    <3> QED BY <2>2, <3>1
  <2>3. ASSUME NEW j \in 1..l, NEW k \in 1..n PROVE p[j] < p[l + k]
    <3>1. p[l + k] = a + k /\ p[j] \in 1..a
      OBVIOUS
    <3> QED BY <3>1
  <2> QED BY <2>1, <2>2, <2>3, SortedJoin
<1>3. ASSUME NEW j \in 1..m, NEW k \in 1..(l + n) PROVE w[j] < p[k]
  <2>1. CASE k \in 1..l /\ p[k] = o[k]
    BY <2>1 DEF InLine
  <2>2. CASE k - l \in 1..n /\ p[k] = b[k - l]
    <3>1. p[k] = a + (k - l) /\ w[j] \in 1..a
      BY <2>2
    <3> QED BY <2>2, <3>1
  <2> QED BY <1>1, <2>1, <2>2
<1>4. ASSUME whole, NEW k \in 1..(l + n) PROVE p[k] = m + k
  <2>1. m + l = a /\ \A i1 \in 1..l : o[i1] = m + i1
    BY <1>4 DEF InLine
  <2>2. CASE k \in 1..l /\ p[k] = o[k]
    BY <2>1, <2>2
  <2>3. CASE k - l \in 1..n /\ p[k] = b[k - l]
    <3>1. p[k] = a + (k - l)
      BY <2>3
    <3> QED BY <2>1, <3>1
  <2> QED BY <1>1, <2>2, <2>3
<1>5. ASSUME whole PROVE m + (l + n) = a + n /\ \A k \in 1..m : w[k] = k
  <2>1. m + l = a /\ \A i1 \in 1..m : w[i1] = i1
    BY <1>5 DEF InLine
  <2> QED BY <2>1
<1>6. Sorted(w, m)
  BY DEF InLine
<1> QED BY <1>2, <1>3, <1>4, <1>5, <1>6 DEF InLine

\* The first n buffered bytes go to the wire, and the first d leave the buffer.
LEMMA InLineFlushed ==
  ASSUME NEW a \in Nat, NEW m \in Nat, NEW w, Within(w, m, a),
         NEW l \in Nat, NEW o, Within(o, l, a),
         NEW whole \in BOOLEAN, InLine(w, m, o, l, a, whole),
         NEW n \in 0..l, NEW d \in n..l,
         NEW v, Extends(v, w, m, o, n),
         NEW still \in BOOLEAN, still => whole /\ n = l,
         NEW p, \A k \in 1..(l - d) : p[k] = o[d + k]
  PROVE  InLine(v, m + n, p, l - d, a, still)
<1>0. n \in Nat /\ d \in Nat /\ l - d \in Nat
  OBVIOUS
<1>1. \A k \in 1..(m + n) : \/ k \in 1..m /\ v[k] = w[k]
                            \/ k - m \in 1..n /\ v[k] = o[k - m]
  <2>1. ASSUME NEW k \in 1..(m + n), k > m PROVE k - m \in 1..n /\ v[k] = o[k - m]
    <3>1. k - m \in 1..n /\ m + (k - m) = k
      BY <1>0, <2>1
    <3> QED BY <3>1 DEF Extends
  <2> QED BY <1>0, <2>1 DEF Extends
<1> USE DEF Within, Counts, Extends
<1>2. Sorted(v, m + n)
  <2>1. ASSUME NEW j \in 1..m, NEW k \in 1..m, j < k PROVE v[j] < v[k]
    <3>1. w[j] < w[k]
      BY <2>1 DEF InLine, Sorted
    <3> QED BY <3>1
  <2>2. ASSUME NEW j \in 1..n, NEW k \in 1..n, j < k PROVE v[m + j] < v[m + k]
    <3>1. j \in 1..l /\ k \in 1..l
      OBVIOUS
    <3>2. o[j] < o[k]
      BY <2>2, <3>1 DEF InLine, Sorted
    <3>3. v[m + j] = o[j] /\ v[m + k] = o[k]
      OBVIOUS
    <3> QED BY <3>2, <3>3
  <2>3. ASSUME NEW j \in 1..m, NEW k \in 1..n PROVE v[j] < v[m + k]
    <3>1. k \in 1..l
      OBVIOUS
    <3>2. w[j] < o[k]
      BY <3>1 DEF InLine
    <3>3. v[j] = w[j] /\ v[m + k] = o[k]
      OBVIOUS
    <3> QED BY <3>2, <3>3
  <2> QED BY <1>0, <2>1, <2>2, <2>3, SortedJoin
<1>3. Sorted(p, l - d)
  <2> SUFFICES ASSUME NEW j \in 1..(l - d), NEW k \in 1..(l - d), j < k PROVE p[j] < p[k]
    BY DEF Sorted
  <2>1. d + j \in 1..l /\ d + k \in 1..l /\ d + j < d + k
    OBVIOUS
  <2>2. o[d + j] < o[d + k]
    BY <2>1 DEF InLine, Sorted
  <2> QED BY <2>2
<1>4. ASSUME NEW j \in 1..(m + n), NEW k \in 1..(l - d) PROVE v[j] < p[k]
  <2>0. d + k \in 1..l /\ p[k] = o[d + k]
    OBVIOUS
  <2>1. CASE j \in 1..m /\ v[j] = w[j]
    BY <2>0, <2>1 DEF InLine
  <2>2. CASE j - m \in 1..n /\ v[j] = o[j - m]
    <3>1. j - m \in 1..l /\ j - m < d + k
      BY <2>2
    <3>2. o[j - m] < o[d + k]
      BY <2>0, <3>1 DEF InLine, Sorted
    <3> QED BY <2>0, <2>2, <3>2
  <2> QED BY <1>1, <2>1, <2>2
<1>5. ASSUME still, NEW k \in 1..(m + n) PROVE v[k] = k
  <2>1. (\A i1 \in 1..m : w[i1] = i1) /\ (\A i1 \in 1..l : o[i1] = m + i1)
    BY <1>5 DEF InLine
  <2>2. CASE k \in 1..m /\ v[k] = w[k]
    BY <2>1, <2>2
  <2>3. CASE k - m \in 1..n /\ v[k] = o[k - m]
    <3>1. o[k - m] = m + (k - m)
      BY <1>5, <2>1, <2>3
    <3> QED BY <2>3, <3>1
  <2> QED BY <1>1, <2>2, <2>3
<1>6. ASSUME still PROVE m + n + (l - d) = a /\ l - d = 0
  <2>1. m + l = a
    BY <1>6 DEF InLine
  <2> QED BY <1>6, <2>1
<1>7. ASSUME still, NEW k \in 1..(l - d) PROVE p[k] = m + n + k
  BY <1>6, <1>7
<1> QED BY <1>2, <1>3, <1>4, <1>5, <1>6, <1>7 DEF InLine

\* Elements of a sequence of bytes.
LEMMA ByteSeq ==
  ASSUME NEW a \in Nat, NEW s \in Seq(1..a)
  PROVE  Len(s) \in Nat /\ Within(s, Len(s), a)
BY LenProperties, ElementOfSeq DEF Within

-----------------------------------------------------------------------------
(* Lemmas on the queues *)

Names == {"established", "destroyed", "shutdown", "writeComplete", "highWater"}

\* Appending a functor to a queue.
LEMMA AppendFunctor ==
  ASSUME NEW q \in Seq(Functors), NEW f \in Functors, NEW r, r = Append(q, f)
  PROVE  /\ r \in Seq(Functors)
         /\ \A op : Free(r, op) <=> Free(q, op) /\ f.op # op
         /\ f.op = "destroyed" => /\ All(q, "destroyed") => All(r, "destroyed")
                                  /\ FirstEstablished(q) => FirstEstablished(r)
<1>1. /\ r \in Seq(Functors)
      /\ Len(q) \in Nat
      /\ Len(r) = Len(q) + 1
      /\ \A k \in 1..Len(q) : r[k] = q[k]
      /\ r[Len(q) + 1] = f
  BY AppendProperties, LenProperties
<1>2. \A k \in 1..Len(r) : k \in 1..Len(q) \/ k = Len(q) + 1
  BY <1>1
<1>3. q # <<>> => Len(q) >= 1
  BY EmptySeq
<1>4. \A op : Free(r, op) <=> Free(q, op) /\ f.op # op
  <2>1. 1..Len(q) \subseteq 1..Len(r) /\ Len(q) + 1 \in 1..Len(r)
    BY <1>1
  <2> QED BY <1>1, <1>2, <2>1 DEF Free
<1>5. f.op = "destroyed" /\ All(q, "destroyed") => All(r, "destroyed")
  BY <1>1, <1>2 DEF All
<1>6. ASSUME f.op = "destroyed", FirstEstablished(q) PROVE FirstEstablished(r)
  <2>1. r # <<>>
    BY <1>1, EmptySeq
  <2>2. r[1] = q[1]
    BY <1>1, <1>3, <1>6 DEF FirstEstablished
  <2>3. \A k \in 2..Len(r) : r[k].op = "destroyed"
    BY <1>1, <1>2, <1>6 DEF FirstEstablished
  <2> QED BY <1>6, <2>1, <2>2, <2>3 DEF FirstEstablished
<1> QED BY <1>1, <1>4, <1>5, <1>6

\* Every functor built from a name.
LEMMA NamedFunctor ==
  ASSUME NEW name \in Names
  PROVE  Op(name) \in Functors /\ Op(name).op = name
BY DEF Names, Functors, Op

\* queueInLoop of one named functor is an Append, and of none a stutter.
LEMMA QueueIsAppend ==
  ASSUME pendingFunctors_ \in Seq(Functors)
  PROVE  /\ Queue(<<>>) => pendingFunctors_' = pendingFunctors_
         /\ \A name \in Names : Queue(<<name>>) => pendingFunctors_' = Append(pendingFunctors_, Op(name))
<1>1. ASSUME Queue(<<>>) PROVE pendingFunctors_' = pendingFunctors_
  <2>1. [k \in 1..Len(<<>>) |-> Op(<<>>[k])] \in [1..0 -> Functors]
    OBVIOUS
  <2>2. PICK t : t = [k \in 1..Len(<<>>) |-> Op(<<>>[k])]
    OBVIOUS
  <2>3. t \in Seq(Functors) /\ Len(t) = 0
    BY <2>1, <2>2, FunctionIsSequence
  <2>4. t = <<>>
    BY <2>3, EmptySeq
  <2>5. pendingFunctors_' = pendingFunctors_ \o t
    BY <1>1, <2>2 DEF Queue
  <2> QED BY <2>4, <2>5, ConcatEmptySeq
<1>2. ASSUME NEW name \in Names, Queue(<<name>>)
      PROVE  pendingFunctors_' = Append(pendingFunctors_, Op(name))
  <2>1. [k \in 1..Len(<<name>>) |-> Op(<<name>>[k])] = <<Op(name)>>
    OBVIOUS
  <2>2. pendingFunctors_' = pendingFunctors_ \o <<Op(name)>>
    BY <1>2, <2>1 DEF Queue
  <2>3. Op(name) \in Functors
    BY NamedFunctor
  <2> QED BY <2>2, <2>3, AppendIsConcat
<1> QED BY <1>1, <1>2

\* What is left of a batch when its first functor is taken.
LEMMA RunFunctor ==
  ASSUME NEW q \in Seq(Functors), q # <<>>, NEW r, r = Tail(q)
  PROVE  /\ r \in Seq(Functors)
         /\ Head(q) \in Functors
         /\ Head(q) = q[1]
         /\ 1 \in 1..Len(q)
         /\ \A op : Free(q, op) => Free(r, op)
         /\ \A op : Free(r, op) /\ Head(q).op # op => Free(q, op)
         /\ FirstEstablished(q) => All(r, "destroyed")
<1>1. /\ r \in Seq(Functors)
      /\ Head(q) \in Functors
      /\ Len(r) = Len(q) - 1
      /\ \A k \in 1..Len(r) : r[k] = q[k + 1]
      /\ Len(q) \in Nat \ {0}
  BY HeadTailProperties, EmptySeq
<1>2. \A k \in 1..Len(r) : k + 1 \in 1..Len(q) /\ k + 1 \in 2..Len(q)
  BY <1>1
<1>3. Head(q) = q[1]
  OBVIOUS
<1>4. \A op : Free(q, op) => Free(r, op)
  BY <1>1, <1>2 DEF Free
<1>5. FirstEstablished(q) => All(r, "destroyed")
  BY <1>1, <1>2 DEF FirstEstablished, All
<1>6. 1 \in 1..Len(q)
  BY <1>1
<1>7. ASSUME NEW op, Free(r, op), Head(q).op # op PROVE Free(q, op)
  <2>1. ASSUME NEW k \in 1..Len(q) PROVE k = 1 \/ (k - 1 \in 1..Len(r) /\ q[k] = r[k - 1])
    <3>1. CASE k # 1
      <4>1. k - 1 \in 1..Len(r) /\ (k - 1) + 1 = k
        BY <1>1, <3>1
      <4> QED BY <1>1, <4>1
    <3> QED BY <3>1
  <2> QED BY <1>3, <1>7, <2>1 DEF Free
<1> QED BY <1>1, <1>3, <1>4, <1>5, <1>6, <1>7

-----------------------------------------------------------------------------
(* sendInLoop *)

\* sendInLoop queues callbacks of the user only.
QueueGrows ==
  /\ pendingFunctors_' \in Seq(Functors)
  /\ \A op \in {"established", "destroyed", "shutdown"} :
       Free(pendingFunctors_', op) <=> Free(pendingFunctors_, op)

\* queueInLoop of a user callback.
LEMMA QueueCallback ==
  ASSUME pendingFunctors_ \in Seq(Functors), NEW names,
         names \in {<<>>, <<"writeComplete">>, <<"highWater">>}, Queue(names)
  PROVE  QueueGrows
<1>1. CASE names = <<>>
  BY <1>1, QueueIsAppend DEF QueueGrows
<1>2. ASSUME NEW name \in {"writeComplete", "highWater"}, names = <<name>> PROVE QueueGrows
  <2>1. name \in Names
    BY DEF Names
  <2>2. pendingFunctors_' = Append(pendingFunctors_, Op(name)) /\ Op(name) \in Functors /\ Op(name).op = name
    BY <1>2, <2>1, QueueIsAppend, NamedFunctor
  <2> QED BY <2>2, AppendFunctor DEF QueueGrows
<1> QED BY <1>1, <1>2

\* What is not written is buffered behind the rest, and watched.
LEMMA BufferRestEffect ==
  ASSUME Types, NEW n \in Nat, accepted <= n, NEW rest \in Seq(1..n), BufferRest(rest)
  PROVE  /\ outputBuffer_' \in Seq(1..n)
         /\ Len(outputBuffer_') = Len(outputBuffer_) + Len(rest)
         /\ Extends(outputBuffer_', outputBuffer_, Len(outputBuffer_), rest, Len(rest))
         /\ Len(outputBuffer_) \in Nat /\ Len(rest) \in Nat
         /\ QueueGrows
         /\ WatchForRoom
<1>1. outputBuffer_ \in Seq(1..n)
  <2>1. outputBuffer_ \in Seq(1..accepted) /\ 1..accepted \subseteq 1..n
    BY DEF Types, Values, Flags
  <2> QED BY <2>1, WiderSeq
<1>2. outputBuffer_' = outputBuffer_ \o rest
  BY DEF BufferRest
<1>3. /\ outputBuffer_' \in Seq(1..n)
      /\ Len(outputBuffer_') = Len(outputBuffer_) + Len(rest)
      /\ Extends(outputBuffer_', outputBuffer_, Len(outputBuffer_), rest, Len(rest))
      /\ Len(outputBuffer_) \in Nat /\ Len(rest) \in Nat
  BY <1>1, <1>2, Joined DEF Extends
<1>4. QueueGrows
  <2>1. HighWater(Len(rest)) \in {<<>>, <<"writeComplete">>, <<"highWater">>}
    BY DEF HighWater
  <2>2. Queue(HighWater(Len(rest))) /\ pendingFunctors_ \in Seq(Functors)
    BY DEF BufferRest, Types, Values
  <2> QED BY <2>1, <2>2, QueueCallback
<1> QED BY <1>3, <1>4 DEF BufferRest

\* Bytes that go to the wire.
LEMMA WireGrows ==
  ASSUME Types, NEW n \in Nat, accepted <= n, NEW more \in Seq(1..n), wire' = wire \o more
  PROVE  /\ wire' \in Seq(1..n)
         /\ Len(wire') = Len(wire) + Len(more)
         /\ Extends(wire', wire, Len(wire), more, Len(more))
<1>1. wire \in Seq(1..n)
  <2>1. wire \in Seq(1..accepted) /\ 1..accepted \subseteq 1..n
    BY DEF Types, Values, Flags
  <2> QED BY <2>1, WiderSeq
<1> QED BY <1>1, Joined DEF Extends

\* The three ways through sendInLoop: the write fails and the data is dropped, everything
\* is written, or something is buffered behind what was there.
LEMMA SendCases ==
  ASSUME Types, NEW len \in 1..MaxLen, sendInLoop(len)
  PROVE  /\ QueueGrows
         /\ peer' = peer \/ (peer = "rst" /\ peer' = "reset")
         /\ killed' = killed \/ (WriteFails /\ killed' = TRUE)
         /\ accepted' \in Nat
         /\ outputBuffer_' \in Seq(1..accepted') /\ wire' \in Seq(1..accepted')
         /\ \/ UNCHANGED <<outputBuffer_, events_, index_>>
            \/ ~(WriteFails /\ NothingWaits) /\ outputBuffer_' # <<>> /\ WatchForRoom
         /\ Data /\ partial' = partial => Data'
<1>0. len \in Nat /\ len > 0 /\ accepted \in Nat /\ partial \in BOOLEAN
      /\ wire \in Seq(1..accepted) /\ outputBuffer_ \in Seq(1..accepted)
      /\ pendingFunctors_ \in Seq(Functors)
  BY ConnectionAssumption DEF Types, Values, Flags
<1>1. CASE /\ NothingWaits
           /\ FailedWrite
           /\ UNCHANGED <<outputBuffer_, channelVars, pendingFunctors_, wire, accepted>>
  <2>1. UNCHANGED <<outputBuffer_, events_, index_, pendingFunctors_, wire, accepted>>
    BY <1>1 DEF channelVars
  <2>2. peer' = peer \/ (peer = "rst" /\ peer' = "reset")
    BY <1>1 DEF FailedWrite
  <2>3. killed' = killed \/ (WriteFails /\ killed' = TRUE)
    BY <1>1 DEF FailedWrite
  <2>4. Data /\ partial' = partial => Data'
    BY <2>1 DEF Data
  <2>5. QueueGrows
    BY <1>0, <2>1 DEF QueueGrows
  <2> QED BY <1>0, <2>1, <2>2, <2>3, <2>4, <2>5
<1>2. PICK n \in Nat : n = accepted + len /\ accepted <= n
  BY <1>0
<1>3. PICK b \in Seq(1..n) : b = NextBytes(len) /\ Len(b) = len /\ Counts(b, len, accepted)
  BY <1>0, <1>2, NextBytesProperties
<1>4. CASE /\ NothingWaits
           /\ ~WriteFails
           /\ \E nwrote \in 0..len :
                /\ wire' = wire \o SubSeq(NextBytes(len), 1, nwrote)
                /\ IF nwrote = len THEN Queue(<<"writeComplete">>) /\ UNCHANGED <<outputBuffer_, channelVars>>
                                   ELSE BufferRest(Remaining(len, nwrote))
           /\ accepted' = accepted + len
           /\ UNCHANGED <<peer, killed>>
  <2>1. PICK nwrote \in 0..len :
          /\ wire' = wire \o SubSeq(b, 1, nwrote)
          /\ IF nwrote = len THEN Queue(<<"writeComplete">>) /\ UNCHANGED <<outputBuffer_, channelVars>>
                             ELSE BufferRest(Drop(b, nwrote))
    BY <1>4, <1>3 DEF Remaining
  <2>2. PICK more : more = SubSeq(b, 1, nwrote)
    OBVIOUS
  <2>3. PICK rest : rest = Drop(b, nwrote)
    OBVIOUS
  <2>4. nwrote \in 0..Len(b) /\ nwrote \in Nat /\ len - nwrote \in Nat
    BY <1>0, <1>3
  <2>5. /\ more \in Seq(1..n) /\ Len(more) = nwrote /\ \A k \in 1..nwrote : more[k] = b[k]
        /\ rest \in Seq(1..n) /\ Len(rest) = Len(b) - nwrote
        /\ \A k \in 1..(Len(b) - nwrote) : rest[k] = b[nwrote + k]
    BY <2>2, <2>3, <2>4, Cut
  <2>6. Counts(more, nwrote, accepted) /\ Counts(rest, len - nwrote, accepted + nwrote)
    <3>1. ASSUME NEW k \in 1..nwrote PROVE more[k] = accepted + k
      <4>1. more[k] = b[k] /\ k \in 1..len
        BY <1>0, <2>4, <2>5
      <4> QED BY <1>3, <4>1 DEF Counts
    <3>2. ASSUME NEW k \in 1..(len - nwrote) PROVE rest[k] = accepted + nwrote + k
      <4>1. rest[k] = b[nwrote + k] /\ nwrote + k \in 1..len
        BY <1>0, <1>3, <2>4, <2>5
      <4>2. rest[k] = accepted + (nwrote + k)
        BY <1>3, <4>1 DEF Counts
      <4> QED BY <1>0, <2>4, <4>2
    <3> QED BY <3>1, <3>2 DEF Counts
  <2>7. wire' = wire \o more
    BY <2>1, <2>2
  <2>8. /\ wire' \in Seq(1..n)
        /\ Len(wire') = Len(wire) + nwrote
        /\ Extends(wire', wire, Len(wire), more, nwrote)
    BY <1>2, <2>5, <2>7, WireGrows
  <2>9. accepted' = n /\ outputBuffer_ = <<>> /\ Len(outputBuffer_) = 0 /\ UNCHANGED <<peer, killed>>
    BY <1>2, <1>4 DEF NothingWaits
  <2>10. ASSUME NEW l \in Nat, l = len - nwrote, Len(outputBuffer_') = l,
                Counts(outputBuffer_', l, accepted + nwrote),
                Data, partial' = partial
         PROVE  Data'
    <3>1. Len(wire) \in Nat /\ Within(wire, Len(wire), accepted)
      BY <1>0, ByteSeq
    <3>2. InLine(wire, Len(wire), outputBuffer_, 0, accepted, ~partial)
      BY <2>9, <2>10 DEF Data
    <3>3. (~partial) \in BOOLEAN
      OBVIOUS
    <3>4. InLine(wire', Len(wire) + nwrote, outputBuffer_', l, accepted + nwrote + l, ~partial)
      BY <1>0, <2>4, <2>6, <2>8, <2>10, <3>1, <3>2, <3>3, InLineWritten
    <3>5. accepted + nwrote + l = accepted'
      BY <1>0, <1>2, <2>4, <2>9, <2>10
    <3> QED BY <2>8, <2>10, <3>4, <3>5 DEF Data
  <2>11. CASE nwrote = len
    <3>1. QueueGrows
      BY <1>0, <2>1, <2>11, QueueCallback
    <3>2. UNCHANGED <<outputBuffer_, events_, index_>>
      BY <2>1, <2>11 DEF channelVars
    <3>3. outputBuffer_' \in Seq(1..n) /\ Len(outputBuffer_') = 0
      BY <3>2, <2>9
    <3>4. Counts(outputBuffer_', 0, accepted + nwrote)
      BY DEF Counts
    <3>5. Data /\ partial' = partial => Data'
      BY <1>0, <2>10, <2>11, <3>3, <3>4
    <3> QED BY <1>2, <2>8, <2>9, <3>1, <3>2, <3>3, <3>5
  <2>12. CASE nwrote # len
    <3>1. BufferRest(rest)
      BY <2>1, <2>3, <2>12
    <3>2. /\ outputBuffer_' \in Seq(1..n)
          /\ Len(outputBuffer_') = 0 + Len(rest)
          /\ Extends(outputBuffer_', outputBuffer_, 0, rest, Len(rest))
          /\ QueueGrows
          /\ WatchForRoom
      BY <1>2, <2>5, <2>9, <3>1, BufferRestEffect
    <3>3. Len(outputBuffer_') = len - nwrote /\ Counts(outputBuffer_', len - nwrote, accepted + nwrote)
      BY <1>0, <1>3, <2>4, <2>5, <2>6, <3>2 DEF Counts, Extends
    <3>4. outputBuffer_' # <<>>
      BY <1>0, <2>4, <2>12, <3>3
    <3>5. Data /\ partial' = partial => Data'
      BY <2>4, <2>10, <3>3
    <3> QED BY <1>2, <1>4, <2>8, <2>9, <3>2, <3>4, <3>5
  <2> QED BY <2>11, <2>12
<1>5. CASE /\ ~NothingWaits
           /\ BufferRest(NextBytes(len))
           /\ accepted' = accepted + len
           /\ UNCHANGED <<wire, peer, killed>>
  <2>1. accepted' = n /\ wire' = wire /\ UNCHANGED <<peer, killed>>
    BY <1>2, <1>5
  <2>2. BufferRest(b)
    BY <1>3, <1>5
  <2>3. /\ outputBuffer_' \in Seq(1..n)
        /\ Len(outputBuffer_') = Len(outputBuffer_) + Len(b)
        /\ Extends(outputBuffer_', outputBuffer_, Len(outputBuffer_), b, Len(b))
        /\ Len(outputBuffer_) \in Nat
        /\ QueueGrows
        /\ WatchForRoom
    BY <1>2, <2>2, BufferRestEffect
  <2>4. wire' \in Seq(1..n)
    <3>1. wire \in Seq(1..accepted) /\ 1..accepted \subseteq 1..n
      BY <1>0, <1>2
    <3> QED BY <2>1, <3>1, WiderSeq
  <2>5. outputBuffer_' # <<>>
    BY <1>0, <1>3, <2>3
  <2>6. ASSUME Data, partial' = partial PROVE Data'
    <3>1. /\ Len(wire) \in Nat /\ Within(wire, Len(wire), accepted)
          /\ Len(outputBuffer_) \in Nat /\ Within(outputBuffer_, Len(outputBuffer_), accepted)
      BY <1>0, ByteSeq
    <3>2. InLine(wire, Len(wire), outputBuffer_, Len(outputBuffer_), accepted, ~partial)
      BY <2>6 DEF Data
    <3>3. (~partial) \in BOOLEAN
      OBVIOUS
    <3>4. InLine(wire, Len(wire), outputBuffer_', Len(outputBuffer_) + len, accepted + len, ~partial)
      BY <1>0, <1>3, <2>3, <3>1, <3>2, <3>3, InLineBuffered
    <3> QED BY <1>2, <1>3, <2>1, <2>3, <2>6, <3>4 DEF Data
  <2> QED BY <1>2, <1>5, <2>1, <2>3, <2>4, <2>5, <2>6
<1> QED BY <1>1, <1>4, <1>5 DEF sendInLoop

-----------------------------------------------------------------------------
(* Facts for the steps *)

\* The empty queue, and a queue of nothing but connectDestroyed.
LEMMA PlainQueues ==
  /\ \A op : Free(<<>>, op) /\ All(<<>>, op)
  /\ \A q : All(q, "destroyed") => Free(q, "established") /\ Free(q, "shutdown")
  /\ <<>> \in Seq(Functors)
  /\ ~FirstEstablished(<<>>)
BY DEF Free, All, FirstEstablished

\* The calls of another thread and the functors they become.
LEMMA Calls ==
  /\ \A f \in Sends : f \in Functors /\ f.op = "send" /\ f.len \in 1..MaxLen
  /\ \A f \in Functors : f.op = "send" => f.len \in 1..MaxLen
  /\ \A n \in 1..MaxLen : [op |-> "send", len |-> n] \in Sends
  /\ Op("idle") # Op("shutdown") /\ Op("idle") \notin Sends /\ Op("shutdown") \notin Sends
<1>1. \A f \in Sends : f \in Functors /\ f.op = "send" /\ f.len \in 1..MaxLen
  BY DEF Sends, Functors
<1>2. \A f \in Functors : f.op = "send" => f.len \in 1..MaxLen
  BY <1>1 DEF Functors, Op
<1>3. \A n \in 1..MaxLen : [op |-> "send", len |-> n] \in Sends
  BY DEF Sends
<1>4. Op("idle").op = "idle" /\ Op("shutdown").op = "shutdown"
  BY DEF Op
<1> QED BY <1>1, <1>2, <1>3, <1>4

\* Taking a functor from the batch: connectEstablished is the first of all.
LEMMA RunningFacts ==
  ASSUME Types, EstablishedFirst, NEW op, Running(op)
  PROVE  /\ functors' \in Seq(Functors)
         /\ Head(functors) \in Functors /\ Head(functors).op = op
         /\ pc = "functors" /\ callback = "none" /\ functors # <<>>
         /\ ~Free(functors, op)
         /\ \A x : Free(functors, x) => Free(functors', x)
         /\ \A x : x # op => (Free(functors', x) <=> Free(functors, x))
         /\ op = "established" => /\ up = 0
                                  /\ All(functors', "destroyed")
                                  /\ All(pendingFunctors_, "destroyed")
         /\ op # "established" => up > 0
<1>1. functors \in Seq(Functors) /\ functors # <<>> /\ Head(functors).op = op /\ functors' = Tail(functors)
      /\ pc = "functors" /\ callback = "none" /\ up \in 0..2
  BY DEF Types, Values, Running
<1>2. /\ functors' \in Seq(Functors)
      /\ Head(functors) \in Functors
      /\ Head(functors) = functors[1]
      /\ 1 \in 1..Len(functors)
      /\ \A x : Free(functors, x) => Free(functors', x)
      /\ \A x : Free(functors', x) /\ Head(functors).op # x => Free(functors, x)
      /\ FirstEstablished(functors) => All(functors', "destroyed")
  BY <1>1, RunFunctor
<1>3. ~Free(functors, op)
  BY <1>1, <1>2 DEF Free
<1>4. ASSUME op = "established"
      PROVE  up = 0 /\ All(functors', "destroyed") /\ All(pendingFunctors_, "destroyed")
  BY <1>1, <1>2, <1>3, <1>4 DEF EstablishedFirst
<1>5. ASSUME op # "established" PROVE up > 0
  BY <1>1, <1>2, <1>5 DEF EstablishedFirst, FirstEstablished
<1> QED BY <1>1, <1>2, <1>3, <1>4, <1>5

\* The data stay as they are when nothing is sent.
LEMMA DataKept ==
  ASSUME Data, UNCHANGED <<wire, outputBuffer_, accepted, partial>>
  PROVE  Data'
BY DEF Data

\* handleWrite sends the first n bytes of the buffer and forgets as many again.
LEMMA DataWritten ==
  ASSUME Types, Data, NEW n \in 1..MaxBytes, n <= Len(outputBuffer_),
         wire' = wire \o SubSeq(outputBuffer_, 1, n),
         outputBuffer_' = Drop(outputBuffer_, n + MinOf(n, Len(outputBuffer_) - n)),
         partial' = (partial \/ n < Len(outputBuffer_)),
         accepted' = accepted
  PROVE  Data' /\ wire' \in Seq(1..accepted) /\ outputBuffer_' \in Seq(1..accepted)
<1>0. /\ accepted \in Nat /\ wire \in Seq(1..accepted) /\ outputBuffer_ \in Seq(1..accepted)
      /\ partial \in BOOLEAN
  BY DEF Types, Values, Flags
<1>1. /\ Len(wire) \in Nat /\ Within(wire, Len(wire), accepted)
      /\ Len(outputBuffer_) \in Nat /\ Within(outputBuffer_, Len(outputBuffer_), accepted)
  BY <1>0, ByteSeq
<1>2. PICK d : d = n + MinOf(n, Len(outputBuffer_) - n)
  OBVIOUS
<1>3. n \in 0..Len(outputBuffer_) /\ d \in n..Len(outputBuffer_) /\ d \in 0..Len(outputBuffer_)
  BY <1>1, <1>2, ConnectionAssumption DEF MinOf
<1>4. PICK t : t = SubSeq(outputBuffer_, 1, n)
  OBVIOUS
<1>5. t \in Seq(1..accepted) /\ Len(t) = n /\ \A k \in 1..n : t[k] = outputBuffer_[k]
  BY <1>0, <1>3, <1>4, Cut
<1>6. /\ outputBuffer_' \in Seq(1..accepted)
      /\ Len(outputBuffer_') = Len(outputBuffer_) - d
      /\ \A k \in 1..(Len(outputBuffer_) - d) : outputBuffer_'[k] = outputBuffer_[d + k]
  BY <1>0, <1>2, <1>3, Cut
<1>7. /\ wire' \in Seq(1..accepted)
      /\ Len(wire') = Len(wire) + Len(t)
      /\ Extends(wire', wire, Len(wire), t, Len(t))
  <2>1. accepted <= accepted /\ wire' = wire \o t
    BY <1>0, <1>4
  <2> QED BY <1>0, <1>5, <2>1, WireGrows
<1>8. Extends(wire', wire, Len(wire), outputBuffer_, n)
  BY <1>5, <1>7 DEF Extends
<1>9. InLine(wire, Len(wire), outputBuffer_, Len(outputBuffer_), accepted, ~partial) /\ (~partial) \in BOOLEAN
  BY DEF Data
<1>10. (~partial') \in BOOLEAN /\ (~partial' => ~partial /\ n = Len(outputBuffer_))
  <2>1. ~(n < Len(outputBuffer_)) => n = Len(outputBuffer_)
    BY <1>1, <1>3
  <2>2. ~partial' => ~partial /\ ~(n < Len(outputBuffer_))
    BY Zenon
  <2> QED BY <2>1, <2>2
<1>11. InLine(wire', Len(wire) + n, outputBuffer_', Len(outputBuffer_) - d, accepted, ~partial')
  BY <1>0, <1>1, <1>3, <1>6, <1>8, <1>9, <1>10, InLineFlushed
<1> QED BY <1>5, <1>6, <1>7, <1>11 DEF Data

-----------------------------------------------------------------------------
(* The steps *)

\* PollEvents keeps the invariant.
LEMMA PollEventsInv == ASSUME IInv, NEW room \in BOOLEAN, PollEvents(room) PROVE IInv'
<1> USE PlainQueues, Calls, ConnectionAssumption
    DEF channelVars, loopVars, queueVars, serverVars, kernelVars, ghostVars
<1> Types /\ Data /\ Control /\ EstablishedFirst
  BY DEF IInv, Control
<1>v. Values'
  BY DEF PollEvents, Due, isWriting, Types, Values
<1>f. Flags'
  BY DEF PollEvents, Due, isWriting, Types, Flags
<1>1. Types'
  BY <1>v, <1>f DEF Types
<1>2. Data'
  BY DataKept DEF PollEvents
<1>3. Control'
  BY DEF PollEvents, Due, isWriting, Control, EstablishedFirst, NeverBack, PhaseInv, OpenInv,
      ClosedInv, FinInv, KilledOnlyByLateSend, Types, Values, Flags
<1> QED BY <1>1, <1>2, <1>3 DEF IInv

\* PollOther keeps the invariant.
LEMMA PollOtherInv == ASSUME IInv, PollOther PROVE IInv'
<1> USE PlainQueues, Calls, ConnectionAssumption
    DEF channelVars, loopVars, queueVars, serverVars, kernelVars, ghostVars
<1> Types /\ Data /\ Control /\ EstablishedFirst
  BY DEF IInv, Control
<1>v. Values'
  BY DEF PollOther, Types, Values
<1>f. Flags'
  BY DEF PollOther, Types, Flags
<1>1. Types'
  BY <1>v, <1>f DEF Types
<1>2. Data'
  BY DataKept DEF PollOther
<1>3. Control'
  BY DEF PollOther, Control, EstablishedFirst, NeverBack, PhaseInv, OpenInv, ClosedInv, FinInv,
      KilledOnlyByLateSend, Types, Values, Flags, isWriting
<1> QED BY <1>1, <1>2, <1>3 DEF IInv

\* HandleHup keeps the invariant.
LEMMA HandleHupInv == ASSUME IInv, HandleHup PROVE IInv'
<1> USE PlainQueues, Calls, ConnectionAssumption
    DEF channelVars, loopVars, queueVars, serverVars, kernelVars, ghostVars
<1> Types /\ Data /\ Control /\ EstablishedFirst
  BY DEF IInv, Control
<1>c. events_' \in SUBSET {"read", "write"} /\ index_' \in {"KNew", "KAdded", "KDeleted"}
  BY DEF HandleHup, Handling, handleClose, disableAll, SetEvents, Once, isWriting, Types, Values
<1>v. Values'
  BY <1>c DEF HandleHup, Handling, handleClose, disableAll, Once, isWriting, Types, Values
<1>f. Flags'
  BY <1>c DEF HandleHup, Handling, handleClose, disableAll, SetEvents, Once, isWriting, Types, Flags
<1>1. Types'
  BY <1>v, <1>f DEF Types
<1>2. Data'
  BY DataKept DEF HandleHup
<1>3. Control'
  BY <1>c
  DEF HandleHup, Handling, handleClose, disableAll, SetEvents, Once, isWriting, Control,
      EstablishedFirst, NeverBack, PhaseInv, OpenInv, ClosedInv, FinInv, KilledOnlyByLateSend,
      Types, Values, Flags
<1> QED BY <1>1, <1>2, <1>3 DEF IInv

\* HandleError keeps the invariant.
LEMMA HandleErrorInv == ASSUME IInv, HandleError PROVE IInv'
<1> USE PlainQueues, Calls, ConnectionAssumption
    DEF channelVars, loopVars, queueVars, serverVars, kernelVars, ghostVars
<1> Types /\ Data /\ Control /\ EstablishedFirst
  BY DEF IInv, Control
<1>v. Values'
  BY DEF HandleError, Handling, getSocketError, Types, Values
<1>f. Flags'
  BY DEF HandleError, Handling, getSocketError, Types, Flags
<1>1. Types'
  BY <1>v, <1>f DEF Types
<1>2. Data'
  BY DataKept DEF HandleError
<1>3. Control'
  BY DEF HandleError, Handling, getSocketError, Control, EstablishedFirst, NeverBack, PhaseInv,
      OpenInv, ClosedInv, FinInv, KilledOnlyByLateSend, Types, Values, Flags, isWriting
<1> QED BY <1>1, <1>2, <1>3 DEF IInv

\* HandleRead keeps the invariant.
LEMMA HandleReadInv == ASSUME IInv, HandleRead PROVE IInv'
<1> USE PlainQueues, Calls, ConnectionAssumption
    DEF channelVars, loopVars, queueVars, serverVars, kernelVars, ghostVars
<1> Types /\ Data /\ Control /\ EstablishedFirst
  BY DEF IInv, Control
<1>c. events_' \in SUBSET {"read", "write"} /\ index_' \in {"KNew", "KAdded", "KDeleted"}
  BY DEF HandleRead, Handling, handleClose, disableAll, SetEvents, Once, isWriting, Types, Values
<1>v. Values'
  BY <1>c DEF HandleRead, Handling, handleClose, disableAll, Once, isWriting, Types, Values
<1>f. Flags'
  BY <1>c
  DEF HandleRead, Handling, handleClose, disableAll, SetEvents, Once, isWriting, Types, Flags
<1>1. Types'
  BY <1>v, <1>f DEF Types
<1>2. Data'
  BY DataKept DEF HandleRead
<1>3. Control'
  BY <1>c
  DEF HandleRead, Handling, handleClose, disableAll, SetEvents, Once, isWriting, Control,
      EstablishedFirst, NeverBack, PhaseInv, OpenInv, ClosedInv, FinInv, KilledOnlyByLateSend,
      Types, Values, Flags
<1> QED BY <1>1, <1>2, <1>3 DEF IInv

\* HandleWrite keeps the invariant.
LEMMA HandleWriteInv == ASSUME IInv, NEW n \in 1..MaxBytes, HandleWrite(n) PROVE IInv'
<1> USE PlainQueues, Calls, ConnectionAssumption
    DEF channelVars, loopVars, queueVars, serverVars, kernelVars, ghostVars
<1> Types /\ Data /\ Control /\ EstablishedFirst
  BY DEF IInv, Control
<1>d. Data' /\ wire' \in Seq(1..accepted) /\ outputBuffer_' \in Seq(1..accepted)
  BY DataWritten DEF HandleWrite, ghostVars
<1>q. QueueGrows
  BY QueueCallback DEF HandleWrite, Types, Values, Flags, QueueGrows
<1>u. up > 0
  BY DEF HandleWrite, isWriting, EstablishedFirst, Types, Values, Flags
<1>v. Values'
  BY <1>d, <1>q, <1>u
  DEF HandleWrite, Handling, SetEvents, isWriting, WriteFails, Drained, shutdownInLoop,
      shutdownWrite, QueueGrows, Types, Values
<1>f. Flags'
  BY <1>d, <1>q, <1>u
  DEF HandleWrite, Handling, SetEvents, isWriting, WriteFails, Drained, shutdownInLoop,
      shutdownWrite, QueueGrows, Types, Flags
<1>1. Types'
  BY <1>v, <1>f DEF Types
<1>2. Data'
  BY <1>d
<1>3. Control'
  <2>1. EstablishedFirst'
    BY <1>d, <1>q, <1>u
    DEF HandleWrite, Handling, SetEvents, isWriting, WriteFails, Drained, shutdownInLoop,
        shutdownWrite, QueueGrows, Control, EstablishedFirst, Types, Values, Flags
  <2>2. NeverBack'
    BY <1>d, <1>q, <1>u
    DEF HandleWrite, Handling, SetEvents, isWriting, WriteFails, Drained, shutdownInLoop,
        shutdownWrite, QueueGrows, Control, NeverBack, EstablishedFirst, Types, Values, Flags
  <2>3. PhaseInv'
    BY <1>d, <1>q, <1>u
    DEF HandleWrite, Handling, SetEvents, isWriting, WriteFails, Drained, shutdownInLoop,
        shutdownWrite, QueueGrows, Control, PhaseInv, Types, Values, Flags
  <2>4. OpenInv'
    BY <1>d, <1>q, <1>u
    DEF HandleWrite, Handling, SetEvents, isWriting, WriteFails, Drained, shutdownInLoop,
        shutdownWrite, QueueGrows, Control, OpenInv, NeverBack, EstablishedFirst, Types, Values,
        Flags
  <2>5. ClosedInv'
    BY <1>d, <1>q, <1>u
    DEF HandleWrite, Handling, SetEvents, isWriting, WriteFails, Drained, shutdownInLoop,
        shutdownWrite, QueueGrows, Control, ClosedInv, NeverBack, PhaseInv, OpenInv, Types,
        Values, Flags
  <2>6. FinInv'
    BY <1>d, <1>q, <1>u
    DEF HandleWrite, Handling, SetEvents, isWriting, WriteFails, Drained, shutdownInLoop,
        shutdownWrite, QueueGrows, Control, FinInv, NeverBack, OpenInv, Types, Values, Flags
  <2>7. KilledOnlyByLateSend'
    BY <1>d, <1>q, <1>u
    DEF HandleWrite, Handling, SetEvents, isWriting, WriteFails, Drained, shutdownInLoop,
        shutdownWrite, QueueGrows, Control, KilledOnlyByLateSend, NeverBack, FinInv, Types,
        Values, Flags
  <2> QED BY <2>1, <2>2, <2>3, <2>4, <2>5, <2>6, <2>7 DEF Control

<1> QED BY <1>1, <1>2, <1>3 DEF IInv

\* HandleWriteNothing keeps the invariant.
LEMMA HandleWriteNothingInv == ASSUME IInv, HandleWriteNothing PROVE IInv'
<1> USE PlainQueues, Calls, ConnectionAssumption
    DEF channelVars, loopVars, queueVars, serverVars, kernelVars, ghostVars
<1> Types /\ Data /\ Control /\ EstablishedFirst
  BY DEF IInv, Control
<1>v. Values'
  BY DEF HandleWriteNothing, Handling, isWriting, WriteFails, FailedWrite, Types, Values
<1>f. Flags'
  BY DEF HandleWriteNothing, Handling, isWriting, WriteFails, FailedWrite, Types, Flags
<1>1. Types'
  BY <1>v, <1>f DEF Types
<1>2. Data'
  BY DataKept DEF HandleWriteNothing
<1>3. Control'
  BY DEF HandleWriteNothing, Handling, isWriting, WriteFails, FailedWrite, Control,
      EstablishedFirst, NeverBack, PhaseInv, OpenInv, ClosedInv, FinInv, KilledOnlyByLateSend,
      Types, Values, Flags
<1> QED BY <1>1, <1>2, <1>3 DEF IInv

\* EventsDone keeps the invariant.
LEMMA EventsDoneInv == ASSUME IInv, EventsDone PROVE IInv'
<1> USE PlainQueues, Calls, ConnectionAssumption
    DEF channelVars, loopVars, queueVars, serverVars, kernelVars, ghostVars
<1> Types /\ Data /\ Control /\ EstablishedFirst
  BY DEF IInv, Control
<1>v. Values'
  BY DEF EventsDone, Types, Values
<1>f. Flags'
  BY DEF EventsDone, Types, Flags
<1>1. Types'
  BY <1>v, <1>f DEF Types
<1>2. Data'
  BY DataKept DEF EventsDone
<1>3. Control'
  BY DEF EventsDone, Control, EstablishedFirst, NeverBack, PhaseInv, OpenInv, ClosedInv, FinInv,
      KilledOnlyByLateSend, Types, Values, Flags, isWriting
<1> QED BY <1>1, <1>2, <1>3 DEF IInv

\* connectEstablished keeps the invariant.
LEMMA ConnectEstablishedInv == ASSUME IInv, connectEstablished PROVE IInv'
<1> USE PlainQueues, Calls, ConnectionAssumption
    DEF channelVars, loopVars, queueVars, serverVars, kernelVars, ghostVars
<1> Types /\ Data /\ Control /\ EstablishedFirst
  BY DEF IInv, Control
<1>q. Running("established")
  BY DEF connectEstablished
<1>r. /\ functors' \in Seq(Functors)
      /\ pc = "functors" /\ callback = "none" /\ functors # <<>> /\ ~Free(functors, "established")
      /\ \A y : Free(functors, y) => Free(functors', y)
      /\ up = 0 /\ All(functors', "destroyed") /\ All(pendingFunctors_, "destroyed")
  BY <1>q, RunningFacts
<1>v. Values'
  BY <1>r DEF connectEstablished, SetEvents, Once, isWriting, Types, Values
<1>f. Flags'
  BY <1>r DEF connectEstablished, SetEvents, Once, isWriting, Types, Flags
<1>1. Types'
  BY <1>v, <1>f DEF Types
<1>2. Data'
  BY DataKept DEF connectEstablished
<1>3. Control'
  BY <1>r
  DEF connectEstablished, SetEvents, Once, isWriting, Control, EstablishedFirst, NeverBack,
      PhaseInv, OpenInv, ClosedInv, FinInv, KilledOnlyByLateSend, Types, Values, Flags
<1> QED BY <1>1, <1>2, <1>3 DEF IInv

\* connectDestroyed keeps the invariant.
LEMMA ConnectDestroyedInv == ASSUME IInv, connectDestroyed PROVE IInv'
<1> USE PlainQueues, Calls, ConnectionAssumption
    DEF channelVars, loopVars, queueVars, serverVars, kernelVars, ghostVars
<1> Types /\ Data /\ Control /\ EstablishedFirst
  BY DEF IInv, Control
<1>q. Running("destroyed")
  BY DEF connectDestroyed
<1>r. /\ functors' \in Seq(Functors)
      /\ pc = "functors" /\ callback = "none" /\ functors # <<>> /\ ~Free(functors, "destroyed")
      /\ \A y : Free(functors, y) => Free(functors', y)
      /\ up > 0
  BY <1>q, RunningFacts
<1>c. events_' \in SUBSET {"read", "write"} /\ index_' \in {"KNew", "KAdded", "KDeleted"}
  BY <1>r DEF connectDestroyed, disableAll, SetEvents, Once, isWriting, Types, Values
<1>v. Values'
  BY <1>r, <1>c DEF connectDestroyed, disableAll, Once, isWriting, Types, Values
<1>f. Flags'
  BY <1>r, <1>c DEF connectDestroyed, disableAll, SetEvents, Once, isWriting, Types, Flags
<1>1. Types'
  BY <1>v, <1>f DEF Types
<1>2. Data'
  BY DataKept DEF connectDestroyed
<1>3. Control'
  BY <1>r, <1>c
  DEF connectDestroyed, disableAll, SetEvents, Once, isWriting, Control, EstablishedFirst,
      NeverBack, PhaseInv, OpenInv, ClosedInv, FinInv, KilledOnlyByLateSend, Types, Values, Flags
<1> QED BY <1>1, <1>2, <1>3 DEF IInv

\* RunSend keeps the invariant.
LEMMA RunSendInv == ASSUME IInv, RunSend PROVE IInv'
<1> USE PlainQueues, Calls, ConnectionAssumption
    DEF channelVars, loopVars, queueVars, serverVars, kernelVars, ghostVars
<1> Types /\ Data /\ Control /\ EstablishedFirst
  BY DEF IInv, Control
<1>q. Running("send")
  BY DEF RunSend
<1>r. /\ functors' \in Seq(Functors)
      /\ pc = "functors" /\ callback = "none" /\ functors # <<>>
      /\ \A y : Free(functors, y) => Free(functors', y)
      /\ up > 0 /\ Head(functors) \in Functors /\ Head(functors).op = "send"
  BY <1>q, RunningFacts
<1>l. PICK len \in 1..MaxLen : sendInLoop(len)
  BY <1>r DEF RunSend
<1>s. /\ QueueGrows
      /\ peer' = peer \/ (peer = "rst" /\ peer' = "reset")
      /\ killed' = killed \/ (WriteFails /\ killed' = TRUE)
      /\ accepted' \in Nat
      /\ outputBuffer_' \in Seq(1..accepted') /\ wire' \in Seq(1..accepted')
      /\ \/ UNCHANGED <<outputBuffer_, events_, index_>>
         \/ ~(WriteFails /\ NothingWaits) /\ outputBuffer_' # <<>> /\ WatchForRoom
      /\ Data /\ partial' = partial => Data'
  BY <1>l, SendCases
<1>v. Values'
  BY <1>r, <1>s
  DEF RunSend, QueueGrows, WriteFails, NothingWaits, WatchForRoom, SetEvents, isWriting, Types,
      Values
<1>f. Flags'
  BY <1>r, <1>s
  DEF RunSend, QueueGrows, WriteFails, NothingWaits, WatchForRoom, SetEvents, isWriting, Types,
      Flags
<1>1. Types'
  BY <1>v, <1>f DEF Types
<1>2. Data'
  BY <1>s DEF RunSend
<1>3. Control'
  <2>1. EstablishedFirst'
    BY <1>r, <1>s
    DEF RunSend, QueueGrows, WriteFails, NothingWaits, WatchForRoom, SetEvents, isWriting,
        Control, EstablishedFirst, Types, Values, Flags
  <2>2. NeverBack'
    BY <1>r, <1>s
    DEF RunSend, QueueGrows, WriteFails, NothingWaits, WatchForRoom, SetEvents, isWriting,
        Control, NeverBack, EstablishedFirst, Types, Values, Flags
  <2>3. PhaseInv'
    BY <1>r, <1>s
    DEF RunSend, QueueGrows, WriteFails, NothingWaits, WatchForRoom, SetEvents, isWriting,
        Control, PhaseInv, Types, Values, Flags
  <2>4. OpenInv'
    BY <1>r, <1>s
    DEF RunSend, QueueGrows, WriteFails, NothingWaits, WatchForRoom, SetEvents, isWriting,
        Control, OpenInv, NeverBack, EstablishedFirst, Types, Values, Flags
  <2>5. ClosedInv'
    BY <1>r, <1>s
    DEF RunSend, QueueGrows, WriteFails, NothingWaits, WatchForRoom, SetEvents, isWriting,
        Control, ClosedInv, NeverBack, PhaseInv, OpenInv, Types, Values, Flags
  <2>6. FinInv'
    BY <1>r, <1>s
    DEF RunSend, QueueGrows, WriteFails, NothingWaits, WatchForRoom, SetEvents, isWriting,
        Control, FinInv, NeverBack, OpenInv, Types, Values, Flags
  <2>7. KilledOnlyByLateSend'
    BY <1>r, <1>s
    DEF RunSend, QueueGrows, WriteFails, NothingWaits, WatchForRoom, SetEvents, isWriting,
        Control, KilledOnlyByLateSend, NeverBack, FinInv, Types, Values, Flags
  <2> QED BY <2>1, <2>2, <2>3, <2>4, <2>5, <2>6, <2>7 DEF Control

<1> QED BY <1>1, <1>2, <1>3 DEF IInv

\* RunShutdown keeps the invariant.
LEMMA RunShutdownInv == ASSUME IInv, RunShutdown PROVE IInv'
<1> USE PlainQueues, Calls, ConnectionAssumption
    DEF channelVars, loopVars, queueVars, serverVars, kernelVars, ghostVars
<1> Types /\ Data /\ Control /\ EstablishedFirst
  BY DEF IInv, Control
<1>q. Running("shutdown")
  BY DEF RunShutdown
<1>r. /\ functors' \in Seq(Functors)
      /\ pc = "functors" /\ callback = "none" /\ functors # <<>> /\ ~Free(functors, "shutdown")
      /\ \A y : Free(functors, y) => Free(functors', y)
      /\ up > 0
  BY <1>q, RunningFacts
<1>v. Values'
  BY <1>r DEF RunShutdown, shutdownInLoop, shutdownWrite, isWriting, Types, Values
<1>f. Flags'
  BY <1>r DEF RunShutdown, shutdownInLoop, shutdownWrite, isWriting, Types, Flags
<1>1. Types'
  BY <1>v, <1>f DEF Types
<1>2. Data'
  BY DataKept DEF RunShutdown
<1>3. Control'
  BY <1>r
  DEF RunShutdown, shutdownInLoop, shutdownWrite, isWriting, Control, EstablishedFirst, NeverBack,
      PhaseInv, OpenInv, ClosedInv, FinInv, KilledOnlyByLateSend, Types, Values, Flags
<1> QED BY <1>1, <1>2, <1>3 DEF IInv

\* RunUserCallback keeps the invariant.
LEMMA RunUserCallbackInv == ASSUME IInv, RunUserCallback PROVE IInv'
<1> USE PlainQueues, Calls, ConnectionAssumption
    DEF channelVars, loopVars, queueVars, serverVars, kernelVars, ghostVars
<1> Types /\ Data /\ Control /\ EstablishedFirst
  BY DEF IInv, Control
<1>r. /\ functors' \in Seq(Functors)
      /\ pc = "functors" /\ callback = "none" /\ functors # <<>>
      /\ \A y : Free(functors, y) => Free(functors', y)
      /\ up > 0
  BY RunningFacts DEF RunUserCallback
<1>v. Values'
  BY <1>r DEF RunUserCallback, Types, Values
<1>f. Flags'
  BY <1>r DEF RunUserCallback, Types, Flags
<1>1. Types'
  BY <1>v, <1>f DEF Types
<1>2. Data'
  BY DataKept DEF RunUserCallback
<1>3. Control'
  BY <1>r
  DEF RunUserCallback, Control, EstablishedFirst, NeverBack, PhaseInv, OpenInv, ClosedInv, FinInv,
      KilledOnlyByLateSend, Types, Values, Flags, isWriting
<1> QED BY <1>1, <1>2, <1>3 DEF IInv

\* CallbackReturns keeps the invariant.
LEMMA CallbackReturnsInv == ASSUME IInv, CallbackReturns PROVE IInv'
<1> USE PlainQueues, Calls, ConnectionAssumption
    DEF channelVars, loopVars, queueVars, serverVars, kernelVars, ghostVars
<1> Types /\ Data /\ Control /\ EstablishedFirst
  BY DEF IInv, Control
<1>v. Values'
  BY DEF CallbackReturns, removeConnection, Once, isWriting, Types, Values
<1>f. Flags'
  BY DEF CallbackReturns, removeConnection, Once, isWriting, Types, Flags
<1>1. Types'
  BY <1>v, <1>f DEF Types
<1>2. Data'
  BY DataKept DEF CallbackReturns
<1>3. Control'
  BY DEF CallbackReturns, removeConnection, Once, isWriting, Control, EstablishedFirst, NeverBack,
      PhaseInv, OpenInv, ClosedInv, FinInv, KilledOnlyByLateSend, Types, Values, Flags
<1> QED BY <1>1, <1>2, <1>3 DEF IInv

\* FunctorsDone keeps the invariant.
LEMMA FunctorsDoneInv == ASSUME IInv, FunctorsDone PROVE IInv'
<1> USE PlainQueues, Calls, ConnectionAssumption
    DEF channelVars, loopVars, queueVars, serverVars, kernelVars, ghostVars
<1> Types /\ Data /\ Control /\ EstablishedFirst
  BY DEF IInv, Control
<1>v. Values'
  BY DEF FunctorsDone, Types, Values
<1>f. Flags'
  BY DEF FunctorsDone, Types, Flags
<1>1. Types'
  BY <1>v, <1>f DEF Types
<1>2. Data'
  BY DataKept DEF FunctorsDone
<1>3. Control'
  BY DEF FunctorsDone, Control, EstablishedFirst, NeverBack, PhaseInv, OpenInv, ClosedInv, FinInv,
      KilledOnlyByLateSend, Types, Values, Flags, isWriting
<1> QED BY <1>1, <1>2, <1>3 DEF IInv

\* LastReference keeps the invariant.
LEMMA LastReferenceInv == ASSUME IInv, LastReference PROVE IInv'
<1> USE PlainQueues, Calls, ConnectionAssumption
    DEF channelVars, loopVars, queueVars, serverVars, kernelVars, ghostVars
<1> Types /\ Data /\ Control /\ EstablishedFirst
  BY DEF IInv, Control
<1>v. Values'
  BY DEF LastReference, Types, Values
<1>f. Flags'
  BY DEF LastReference, Types, Flags
<1>1. Types'
  BY <1>v, <1>f DEF Types
<1>2. Data'
  BY DataKept DEF LastReference
<1>3. Control'
  BY DEF LastReference, Control, EstablishedFirst, NeverBack, PhaseInv, OpenInv, ClosedInv,
      FinInv, KilledOnlyByLateSend, Types, Values, Flags, isWriting
<1> QED BY <1>1, <1>2, <1>3 DEF IInv

\* SendInCallback keeps the invariant.
LEMMA SendInCallbackInv == ASSUME IInv, NEW len \in 1..MaxLen, SendInCallback(len) PROVE IInv'
<1> USE PlainQueues, Calls, ConnectionAssumption
    DEF channelVars, loopVars, queueVars, serverVars, kernelVars, ghostVars
<1> Types /\ Data /\ Control /\ EstablishedFirst
  BY DEF IInv, Control
<1>s. /\ QueueGrows
      /\ peer' = peer \/ (peer = "rst" /\ peer' = "reset")
      /\ killed' = killed \/ (WriteFails /\ killed' = TRUE)
      /\ accepted' \in Nat
      /\ outputBuffer_' \in Seq(1..accepted') /\ wire' \in Seq(1..accepted')
      /\ \/ UNCHANGED <<outputBuffer_, events_, index_>>
         \/ ~(WriteFails /\ NothingWaits) /\ outputBuffer_' # <<>> /\ WatchForRoom
      /\ Data /\ partial' = partial => Data'
  BY SendCases DEF SendInCallback
<1>c. events_' \in SUBSET {"read", "write"} /\ index_' \in {"KNew", "KAdded", "KDeleted"}
  BY <1>s
  DEF SendInCallback, MaySend, QueueGrows, WriteFails, NothingWaits, WatchForRoom, SetEvents,
      isWriting, Types, Values
<1>v. Values'
  BY <1>s, <1>c
  DEF SendInCallback, MaySend, QueueGrows, WriteFails, NothingWaits, WatchForRoom, isWriting,
      Types, Values
<1>f. Flags'
  BY <1>s, <1>c
  DEF SendInCallback, MaySend, QueueGrows, WriteFails, NothingWaits, WatchForRoom, SetEvents,
      isWriting, Types, Flags
<1>1. Types'
  BY <1>v, <1>f DEF Types
<1>2. Data'
  BY <1>s DEF SendInCallback
<1>3. Control'
  <2>1. EstablishedFirst'
    BY <1>s, <1>c
    DEF SendInCallback, MaySend, QueueGrows, WriteFails, NothingWaits, WatchForRoom, SetEvents,
        isWriting, Control, EstablishedFirst, Types, Values, Flags
  <2>2. NeverBack'
    BY <1>s, <1>c
    DEF SendInCallback, MaySend, QueueGrows, WriteFails, NothingWaits, WatchForRoom, SetEvents,
        isWriting, Control, NeverBack, EstablishedFirst, Types, Values, Flags
  <2>3. PhaseInv'
    BY <1>s, <1>c
    DEF SendInCallback, MaySend, QueueGrows, WriteFails, NothingWaits, WatchForRoom, SetEvents,
        isWriting, Control, PhaseInv, Types, Values, Flags
  <2>4. OpenInv'
    BY <1>s, <1>c
    DEF SendInCallback, MaySend, QueueGrows, WriteFails, NothingWaits, WatchForRoom, SetEvents,
        isWriting, Control, OpenInv, NeverBack, EstablishedFirst, Types, Values, Flags
  <2>5. ClosedInv'
    BY <1>s, <1>c
    DEF SendInCallback, MaySend, QueueGrows, WriteFails, NothingWaits, WatchForRoom, SetEvents,
        isWriting, Control, ClosedInv, NeverBack, PhaseInv, OpenInv, Types, Values, Flags
  <2>6. FinInv'
    BY <1>s, <1>c
    DEF SendInCallback, MaySend, QueueGrows, WriteFails, NothingWaits, WatchForRoom, SetEvents,
        isWriting, Control, FinInv, NeverBack, OpenInv, Types, Values, Flags
  <2>7. KilledOnlyByLateSend'
    BY <1>s, <1>c
    DEF SendInCallback, MaySend, QueueGrows, WriteFails, NothingWaits, WatchForRoom, SetEvents,
        isWriting, Control, KilledOnlyByLateSend, NeverBack, FinInv, Types, Values, Flags
  <2> QED BY <2>1, <2>2, <2>3, <2>4, <2>5, <2>6, <2>7 DEF Control

<1> QED BY <1>1, <1>2, <1>3 DEF IInv

\* ShutdownInCallback keeps the invariant.
LEMMA ShutdownInCallbackInv == ASSUME IInv, ShutdownInCallback PROVE IInv'
<1> USE PlainQueues, Calls, ConnectionAssumption
    DEF channelVars, loopVars, queueVars, serverVars, kernelVars, ghostVars
<1> Types /\ Data /\ Control /\ EstablishedFirst
  BY DEF IInv, Control
<1>v. Values'
  BY DEF ShutdownInCallback, shutdownInLoop, shutdownWrite, isWriting, Types, Values
<1>f. Flags'
  BY DEF ShutdownInCallback, shutdownInLoop, shutdownWrite, isWriting, Types, Flags
<1>1. Types'
  BY <1>v, <1>f DEF Types
<1>2. Data'
  BY DataKept DEF ShutdownInCallback
<1>3. Control'
  BY DEF ShutdownInCallback, shutdownInLoop, shutdownWrite, isWriting, Control, EstablishedFirst,
      NeverBack, PhaseInv, OpenInv, ClosedInv, FinInv, KilledOnlyByLateSend, Types, Values, Flags
<1> QED BY <1>1, <1>2, <1>3 DEF IInv

\* CallSend keeps the invariant.
LEMMA CallSendInv == ASSUME IInv, NEW len \in 1..MaxLen, CallSend(len) PROVE IInv'
<1> USE PlainQueues, Calls, ConnectionAssumption
    DEF channelVars, loopVars, queueVars, serverVars, kernelVars, ghostVars
<1> Types /\ Data /\ Control /\ EstablishedFirst
  BY DEF IInv, Control
<1>v. Values'
  BY DEF CallSend, MaySend, Types, Values
<1>f. Flags'
  BY DEF CallSend, MaySend, Types, Flags
<1>1. Types'
  BY <1>v, <1>f DEF Types
<1>2. Data'
  BY DataKept DEF CallSend
<1>3. Control'
  BY DEF CallSend, MaySend, Control, EstablishedFirst, NeverBack, PhaseInv, OpenInv, ClosedInv,
      FinInv, KilledOnlyByLateSend, Types, Values, Flags, isWriting
<1> QED BY <1>1, <1>2, <1>3 DEF IInv

\* QueueSend keeps the invariant.
LEMMA QueueSendInv == ASSUME IInv, QueueSend PROVE IInv'
<1> USE PlainQueues, Calls, ConnectionAssumption
    DEF channelVars, loopVars, queueVars, serverVars, kernelVars, ghostVars
<1> Types /\ Data /\ Control /\ EstablishedFirst
  BY DEF IInv, Control
<1>q. caller \in Functors /\ caller.op = "send"
  BY NamedFunctor DEF QueueSend, Names
<1>a. /\ pendingFunctors_' \in Seq(Functors)
      /\ \A y : Free(pendingFunctors_, y) /\ caller.op # y => Free(pendingFunctors_', y)
  BY <1>q, AppendFunctor DEF QueueSend, Types, Values, Flags
<1>v. Values'
  BY <1>q, <1>a DEF QueueSend, Types, Values
<1>f. Flags'
  BY <1>q, <1>a DEF QueueSend, Types, Flags
<1>1. Types'
  BY <1>v, <1>f DEF Types
<1>2. Data'
  BY DataKept DEF QueueSend
<1>3. Control'
  BY <1>q, <1>a
  DEF QueueSend, Control, EstablishedFirst, NeverBack, PhaseInv, OpenInv, ClosedInv, FinInv,
      KilledOnlyByLateSend, Types, Values, Flags, isWriting
<1> QED BY <1>1, <1>2, <1>3 DEF IInv

\* CallShutdown keeps the invariant.
LEMMA CallShutdownInv == ASSUME IInv, CallShutdown PROVE IInv'
<1> USE PlainQueues, Calls, ConnectionAssumption
    DEF channelVars, loopVars, queueVars, serverVars, kernelVars, ghostVars
<1> Types /\ Data /\ Control /\ EstablishedFirst
  BY DEF IInv, Control
<1>v. Values'
  BY DEF CallShutdown, Types, Values
<1>f. Flags'
  BY DEF CallShutdown, Types, Flags
<1>1. Types'
  BY <1>v, <1>f DEF Types
<1>2. Data'
  BY DataKept DEF CallShutdown
<1>3. Control'
  BY DEF CallShutdown, Control, EstablishedFirst, NeverBack, PhaseInv, OpenInv, ClosedInv, FinInv,
      KilledOnlyByLateSend, Types, Values, Flags, isWriting
<1> QED BY <1>1, <1>2, <1>3 DEF IInv

\* QueueShutdown keeps the invariant.
LEMMA QueueShutdownInv == ASSUME IInv, QueueShutdown PROVE IInv'
<1> USE PlainQueues, Calls, ConnectionAssumption
    DEF channelVars, loopVars, queueVars, serverVars, kernelVars, ghostVars
<1> Types /\ Data /\ Control /\ EstablishedFirst
  BY DEF IInv, Control
<1>q. caller \in Functors /\ caller.op = "shutdown"
  BY NamedFunctor DEF QueueShutdown, Names
<1>a. /\ pendingFunctors_' \in Seq(Functors)
      /\ \A y : Free(pendingFunctors_, y) /\ caller.op # y => Free(pendingFunctors_', y)
  BY <1>q, AppendFunctor DEF QueueShutdown, Types, Values, Flags
<1>v. Values'
  BY <1>q, <1>a DEF QueueShutdown, Types, Values
<1>f. Flags'
  BY <1>q, <1>a DEF QueueShutdown, Types, Flags
<1>1. Types'
  BY <1>v, <1>f DEF Types
<1>2. Data'
  BY DataKept DEF QueueShutdown
<1>3. Control'
  BY <1>q, <1>a
  DEF QueueShutdown, Control, EstablishedFirst, NeverBack, PhaseInv, OpenInv, ClosedInv, FinInv,
      KilledOnlyByLateSend, Types, Values, Flags, isWriting
<1> QED BY <1>1, <1>2, <1>3 DEF IInv

\* removeConnectionInLoop keeps the invariant.
LEMMA RemoveConnectionInLoopInv == ASSUME IInv, removeConnectionInLoop PROVE IInv'
<1> USE PlainQueues, Calls, ConnectionAssumption
    DEF channelVars, loopVars, queueVars, serverVars, kernelVars, ghostVars
<1> Types /\ Data /\ Control /\ EstablishedFirst
  BY DEF IInv, Control
<1>q. /\ pendingFunctors_' \in Seq(Functors)
      /\ \A y \in {"established", "shutdown"} : Free(pendingFunctors_, y) => Free(pendingFunctors_', y)
      /\ All(pendingFunctors_, "destroyed") => All(pendingFunctors_', "destroyed")
      /\ FirstEstablished(pendingFunctors_) => FirstEstablished(pendingFunctors_')
  <2>1. CASE pendingFunctors_' = pendingFunctors_
    BY <2>1 DEF Types, Values, Flags
  <2>2. CASE Queue(<<"destroyed">>)
    <3>1. /\ pendingFunctors_' = Append(pendingFunctors_, Op("destroyed"))
          /\ Op("destroyed") \in Functors /\ Op("destroyed").op = "destroyed"
      BY <2>2, QueueIsAppend, NamedFunctor DEF Names, Types, Values, Flags
    <3> QED BY <3>1, AppendFunctor DEF Types, Values, Flags
  <2> QED BY <2>1, <2>2 DEF removeConnectionInLoop
<1>v. Values'
  BY <1>q DEF removeConnectionInLoop, Types, Values
<1>f. Flags'
  BY <1>q DEF removeConnectionInLoop, Types, Flags
<1>1. Types'
  BY <1>v, <1>f DEF Types
<1>2. Data'
  BY DataKept DEF removeConnectionInLoop
<1>3. Control'
  BY <1>q
  DEF removeConnectionInLoop, Control, EstablishedFirst, NeverBack, PhaseInv, OpenInv, ClosedInv,
      FinInv, KilledOnlyByLateSend, Types, Values, Flags, isWriting
<1> QED BY <1>1, <1>2, <1>3 DEF IInv

\* DestroyServer keeps the invariant.
LEMMA DestroyServerInv == ASSUME IInv, DestroyServer PROVE IInv'
<1> USE PlainQueues, Calls, ConnectionAssumption
    DEF channelVars, loopVars, queueVars, serverVars, kernelVars, ghostVars
<1> Types /\ Data /\ Control /\ EstablishedFirst
  BY DEF IInv, Control
<1>q. /\ pendingFunctors_' \in Seq(Functors)
      /\ \A y \in {"established", "shutdown"} : Free(pendingFunctors_, y) => Free(pendingFunctors_', y)
      /\ All(pendingFunctors_, "destroyed") => All(pendingFunctors_', "destroyed")
      /\ FirstEstablished(pendingFunctors_) => FirstEstablished(pendingFunctors_')
  <2>1. CASE pendingFunctors_' = pendingFunctors_
    BY <2>1 DEF Types, Values, Flags
  <2>2. CASE Queue(<<"destroyed">>)
    <3>1. /\ pendingFunctors_' = Append(pendingFunctors_, Op("destroyed"))
          /\ Op("destroyed") \in Functors /\ Op("destroyed").op = "destroyed"
      BY <2>2, QueueIsAppend, NamedFunctor DEF Names, Types, Values, Flags
    <3> QED BY <3>1, AppendFunctor DEF Types, Values, Flags
  <2> QED BY <2>1, <2>2 DEF DestroyServer
<1>v. Values'
  BY <1>q DEF DestroyServer, Types, Values
<1>f. Flags'
  BY <1>q DEF DestroyServer, Types, Flags
<1>1. Types'
  BY <1>v, <1>f DEF Types
<1>2. Data'
  BY DataKept DEF DestroyServer
<1>3. Control'
  BY <1>q
  DEF DestroyServer, Control, EstablishedFirst, NeverBack, PhaseInv, OpenInv, ClosedInv, FinInv,
      KilledOnlyByLateSend, Types, Values, Flags, isWriting
<1> QED BY <1>1, <1>2, <1>3 DEF IInv

\* Peer keeps the invariant.
LEMMA PeerInv == ASSUME IInv, Peer PROVE IInv'
<1> USE PlainQueues, Calls, ConnectionAssumption
    DEF channelVars, loopVars, queueVars, serverVars, kernelVars, ghostVars
<1> Types /\ Data /\ Control /\ EstablishedFirst
  BY DEF IInv, Control
<1>v. Values'
  BY DEF Peer, Types, Values
<1>f. Flags'
  BY DEF Peer, Types, Flags
<1>1. Types'
  BY <1>v, <1>f DEF Types
<1>2. Data'
  BY DataKept DEF Peer
<1>3. Control'
  BY DEF Peer, Control, EstablishedFirst, NeverBack, PhaseInv, OpenInv, ClosedInv, FinInv,
      KilledOnlyByLateSend, Types, Values, Flags, isWriting
<1> QED BY <1>1, <1>2, <1>3 DEF IInv

\* Every step keeps the invariant.
LEMMA NextInv == ASSUME IInv, [Next]_vars PROVE IInv'
<1>1. CASE UNCHANGED vars
  <2>1. Types' /\ Data'
    BY <1>1 DEF vars, channelVars, loopVars, queueVars, serverVars, kernelVars, ghostVars,
                IInv, Types, Values, Flags, Data
  <2>2. Control'
    BY <1>1 DEF vars, channelVars, loopVars, queueVars, serverVars, kernelVars, ghostVars,
                IInv, Control, EstablishedFirst, NeverBack, PhaseInv, OpenInv, ClosedInv, FinInv,
                KilledOnlyByLateSend, isWriting
  <2> QED BY <2>1, <2>2 DEF IInv
<1>2. CASE LoopStep
  BY <1>2, HandleHupInv, HandleErrorInv, HandleReadInv, HandleWriteInv, HandleWriteNothingInv,
     EventsDoneInv, ConnectEstablishedInv, ConnectDestroyedInv, RunSendInv, RunShutdownInv,
     RunUserCallbackInv, CallbackReturnsInv, FunctorsDoneInv DEF LoopStep
<1>3. CASE UserStep
  BY <1>3, SendInCallbackInv, CallSendInv, ShutdownInCallbackInv, CallShutdownInv DEF UserStep
<1>4. CASE \E room \in BOOLEAN : PollEvents(room)
  BY <1>4, PollEventsInv
<1>5. CASE PollOther \/ LastReference \/ QueueSend \/ QueueShutdown \/ removeConnectionInLoop
           \/ DestroyServer \/ Peer
  BY <1>5, PollOtherInv, LastReferenceInv, QueueSendInv, QueueShutdownInv, RemoveConnectionInLoopInv,
     DestroyServerInv, PeerInv
<1> QED BY <1>1, <1>2, <1>3, <1>4, <1>5 DEF Next

\* newConnection leaves the connection in a state of the invariant.
LEMMA InitInv == ASSUME Init PROVE IInv
<1>1. pendingFunctors_ = <<Op("established")>> /\ Op("established") \in Functors
      /\ Op("established").op = "established"
  BY NamedFunctor DEF Init, Names
<1>2. pendingFunctors_ \in Seq(Functors) /\ FirstEstablished(pendingFunctors_)
  BY <1>1 DEF FirstEstablished
<1>3. Values
  BY <1>2, ConnectionAssumption DEF Init, Values
<1>4. Flags
  BY DEF Init, Flags
<1>5. Free(pendingFunctors_, "shutdown") /\ Free(functors, "shutdown")
  BY <1>1 DEF Init, Free
<1>6. Control
  BY <1>2, <1>5, Calls
  DEF Init, Control, EstablishedFirst, NeverBack, PhaseInv, OpenInv, ClosedInv, FinInv,
      KilledOnlyByLateSend, isWriting
<1>7. Data
  BY DEF Init, Data, InLine, Sorted
<1> QED BY <1>3, <1>4, <1>6, <1>7 DEF IInv, Types

\* The strengthened invariant holds in every reachable state.
LEMMA Invariant == Spec => []IInv
<1>1. Init => IInv
  BY InitInv
<1>2. IInv /\ [Next]_vars => IInv'
  BY NextInv
<1> QED BY <1>1, <1>2, PTL DEF Spec

-----------------------------------------------------------------------------
\* Type correctness of the connection, its channel, queues and buffers, whatever the
\* callbacks, the other thread, the server and the peer do.
THEOREM ConnectionTypeCorrect == Spec => []TypeOK
<1>1. IInv => TypeOK
  BY DEF IInv, Types, Values, Flags, TypeOK
<1> QED BY <1>1, Invariant, PTL

\* sendInLoop and handleWrite never reorder or repeat a byte, for sends of any number
\* and size and any splitting by write(), lossy as handleWrite is.
THEOREM BytesInOrder == Spec => []InOrder
<1>1. ASSUME IInv PROVE InOrder
  <2>1. PICK out : out = wire \o outputBuffer_
    OBVIOUS
  <2>2. wire \in Seq(1..accepted) /\ outputBuffer_ \in Seq(1..accepted)
    BY <1>1 DEF IInv, Types, Values
  <2>3. /\ Len(out) = Len(wire) + Len(outputBuffer_)
        /\ \A k \in 1..Len(wire) : out[k] = wire[k]
        /\ \A k \in 1..Len(outputBuffer_) : out[Len(wire) + k] = outputBuffer_[k]
        /\ Len(wire) \in Nat /\ Len(outputBuffer_) \in Nat
    BY <2>1, <2>2, Joined DEF Extends
  <2>4. /\ Sorted(wire, Len(wire))
        /\ Sorted(outputBuffer_, Len(outputBuffer_))
        /\ \A j \in 1..Len(wire), k \in 1..Len(outputBuffer_) : wire[j] < outputBuffer_[k]
    BY <1>1 DEF IInv, Data, InLine
  <2>5. Sorted(out, Len(wire) + Len(outputBuffer_))
    <3>1. \A j, k \in 1..Len(wire) : j < k => out[j] < out[k]
      BY <2>3, <2>4 DEF Sorted
    <3>2. \A j, k \in 1..Len(outputBuffer_) : j < k => out[Len(wire) + j] < out[Len(wire) + k]
      BY <2>3, <2>4 DEF Sorted
    <3>3. \A j \in 1..Len(wire), k \in 1..Len(outputBuffer_) : out[j] < out[Len(wire) + k]
      BY <2>3, <2>4
    <3> QED BY <2>3, <3>1, <3>2, <3>3, SortedJoin
  <2>6. \A k \in 1..(Len(out) - 1) : out[k] < out[k + 1]
    BY <2>3, <2>5 DEF Sorted
  <2> QED BY <2>1, <2>6 DEF InOrder
<1> QED BY <1>1, Invariant, PTL

\* Up to the first partial write of handleWrite, everything sendInLoop took over is on
\* the wire or in the output buffer: direct writes, short writes and EAGAIN lose nothing.
THEOREM NothingLostEarly == Spec => []NothingLostBeforePartial
<1>1. ASSUME IInv, ~partial PROVE wire \o outputBuffer_ = Numbered(accepted)
  <2>1. PICK out : out = wire \o outputBuffer_
    OBVIOUS
  <2>2. wire \in Seq(1..accepted) /\ outputBuffer_ \in Seq(1..accepted) /\ accepted \in Nat
    BY <1>1 DEF IInv, Types, Values
  <2>3. /\ out \in Seq(1..accepted)
        /\ Len(out) = Len(wire) + Len(outputBuffer_)
        /\ Extends(out, wire, Len(wire), outputBuffer_, Len(outputBuffer_))
        /\ Len(wire) \in Nat /\ Len(outputBuffer_) \in Nat
    BY <2>1, <2>2, Joined DEF Extends
  <2>4. /\ Len(wire) + Len(outputBuffer_) = accepted
        /\ \A k \in 1..Len(wire) : wire[k] = k
        /\ \A k \in 1..Len(outputBuffer_) : outputBuffer_[k] = Len(wire) + k
    BY <1>1 DEF IInv, Data, InLine
  <2>5. ASSUME NEW k \in 1..accepted PROVE out[k] = k
    <3>1. \/ k \in 1..Len(wire) /\ out[k] = wire[k]
          \/ k - Len(wire) \in 1..Len(outputBuffer_) /\ out[k] = outputBuffer_[k - Len(wire)]
      <4>1. CASE k > Len(wire)
        <5>1. k - Len(wire) \in 1..Len(outputBuffer_) /\ Len(wire) + (k - Len(wire)) = k
          BY <2>3, <2>4, <4>1
        <5> QED BY <2>3, <5>1 DEF Extends
      <4>2. CASE k <= Len(wire)
        BY <2>3, <4>2 DEF Extends
      <4> QED BY <2>3, <4>1, <4>2
    <3>2. CASE k \in 1..Len(wire) /\ out[k] = wire[k]
      BY <2>4, <3>2
    <3>3. CASE k - Len(wire) \in 1..Len(outputBuffer_) /\ out[k] = outputBuffer_[k - Len(wire)]
      <4>1. outputBuffer_[k - Len(wire)] = Len(wire) + (k - Len(wire))
        BY <2>4, <3>3
      <4> QED BY <2>3, <3>3, <4>1
    <3> QED BY <3>1, <3>2, <3>3
  <2>6. DOMAIN out = 1..accepted /\ out = [k \in DOMAIN out |-> out[k]]
    BY <2>3, <2>4, LenProperties
  <2> QED BY <2>1, <2>5, <2>6 DEF Numbered
<1>2. IInv => NothingLostBeforePartial
  BY <1>1 DEF NothingLostBeforePartial
<1> QED BY <1>2, Invariant, PTL

\* While the connection is open, output in the buffer is watched by the poller: no order
\* of sends, writes, callbacks and shutdowns leaves it stuck.
THEOREM OutputIsWatched == Spec => []BufferedIsWatched
<1>1. ASSUME IInv PROVE BufferedIsWatched
  BY <1>1 DEF IInv, Types, Values, Control, EstablishedFirst, OpenInv, BufferedIsWatched
<1> QED BY <1>1, Invariant, PTL

\* The FIN of shutdown() never overtakes buffered output.
THEOREM FinBehindOutput == Spec => []FinAfterOutput
<1>1. ASSUME IInv PROVE FinAfterOutput
  BY <1>1 DEF IInv, Types, Flags, Control, OpenInv, FinInv, FinAfterOutput
<1> QED BY <1>1, Invariant, PTL

\* SIGPIPE ends the process only after a reset by the peer or through a send that was
\* queued before shutdown() or a close and ran after it.
THEOREM KilledLate == Spec => []KilledOnlyByLateSend
<1>1. IInv => KilledOnlyByLateSend
  BY DEF IInv, Control
<1> QED BY <1>1, Invariant, PTL

-----------------------------------------------------------------------------
(* What is begun goes on *)

\* A functor that does op waits in the io loop.
Waiting(op) == ~Free(functors, op) \/ ~Free(pendingFunctors_, op)

\* shutdown() is still on its way to the loop, or output has to drain first, or the
\* FIN is sent.
ShutdownGoesOn ==
  state_ = "Disconnecting" /\ ~closed =>
    fin \/ isWriting \/ caller = Op("shutdown") \/ Waiting("shutdown")

\* handleClose leads to removeConnectionInLoop while the server has the connection, and
\* a connection the server let go of has its connectDestroyed queued, running or done.
RemovalGoesOn ==
  /\ inMap /\ closed => callback = "close" \/ removals > 0
  /\ ~inMap => Waiting("destroyed") \/ callback = "destroy" \/ gone

\* An established connection is Connected or Disconnecting until it is closed, and
\* connectDestroyed is queued only when the server lets go of the connection.
GoesOnInv ==
  /\ ShutdownGoesOn
  /\ RemovalGoesOn
  /\ up > 0 /\ ~closed => state_ \in {"Connected", "Disconnecting"}
  /\ inMap => ~Waiting("destroyed")

\* The steps that leave the queues alone: events, callbacks and calls.
LEMMA QueuesKept ==
  ASSUME IInv, GoesOnInv,
         \/ HandleHup \/ HandleError \/ HandleRead \/ HandleWriteNothing
         \/ CallbackReturns \/ FunctorsDone \/ PollOther \/ LastReference
         \/ ShutdownInCallback \/ CallShutdown \/ Peer
         \/ \E room \in BOOLEAN : PollEvents(room)
         \/ \E len \in 1..MaxLen : CallSend(len)
  PROVE  GoesOnInv'
<1> USE DEF channelVars, loopVars, queueVars, serverVars, kernelVars, ghostVars
<1>1. /\ removals \in 0..2 /\ callback \in {"none", "user", "close", "destroy"}
      /\ fin \in BOOLEAN /\ closed \in BOOLEAN /\ inMap \in BOOLEAN /\ gone \in BOOLEAN
      /\ NeverBack /\ PhaseInv /\ (callback # "none" => up > 0)
  BY DEF IInv, Types, Values, Flags, Control, EstablishedFirst
<1>2. UNCHANGED <<functors, pendingFunctors_>>
  BY DEF HandleHup, HandleError, HandleRead, HandleWriteNothing, CallbackReturns, FunctorsDone,
         PollOther, LastReference, ShutdownInCallback, CallShutdown, Peer, PollEvents, CallSend
<1>3. \A op : Waiting(op)' <=> Waiting(op)
  BY <1>2 DEF Waiting, Free
<1>4. CASE HandleHup \/ HandleRead
  BY <1>1, <1>3, <1>4
  DEF HandleHup, HandleRead, Handling, handleClose, GoesOnInv, ShutdownGoesOn, RemovalGoesOn, isWriting
<1>5. CASE CallbackReturns
  BY <1>1, <1>3, <1>5
  DEF CallbackReturns, removeConnection, Once, GoesOnInv, ShutdownGoesOn, RemovalGoesOn, isWriting
<1>6. CASE HandleError \/ HandleWriteNothing \/ FunctorsDone \/ PollOther \/ LastReference \/ Peer
           \/ \E room \in BOOLEAN : PollEvents(room)
  <2>1. UNCHANGED <<state_, events_, fin, closed, caller, inMap, removals, callback, gone, up>>
    BY <1>6 DEF HandleError, HandleWriteNothing, FunctorsDone, PollOther, LastReference, Peer,
                PollEvents
  <2> QED BY <1>3, <2>1 DEF GoesOnInv, ShutdownGoesOn, RemovalGoesOn, isWriting
<1>7. CASE ShutdownInCallback
  BY <1>1, <1>3, <1>7
  DEF ShutdownInCallback, shutdownInLoop, shutdownWrite, NeverBack, GoesOnInv, ShutdownGoesOn,
      RemovalGoesOn, isWriting
<1>8. CASE CallShutdown
  BY <1>1, <1>3, <1>8, Calls
  DEF CallShutdown, NeverBack, GoesOnInv, ShutdownGoesOn, RemovalGoesOn, isWriting
<1>9. CASE \E len \in 1..MaxLen : CallSend(len)
  BY <1>3, <1>9, Calls
  DEF CallSend, MaySend, GoesOnInv, ShutdownGoesOn, RemovalGoesOn, isWriting
<1> QED BY <1>4, <1>5, <1>6, <1>7, <1>8, <1>9

\* The swap of doPendingFunctors moves what waits into the batch.
LEMMA BatchTaken ==
  ASSUME IInv, GoesOnInv, EventsDone
  PROVE  GoesOnInv'
<1>1. functors = <<>>
  BY DEF IInv, Control, PhaseInv, EventsDone
<1>2. functors' = pendingFunctors_ /\ pendingFunctors_' = <<>>
  BY DEF EventsDone
<1>3. \A op : Waiting(op)' <=> Waiting(op)
  BY <1>1, <1>2, PlainQueues DEF Waiting, Free
<1> QED BY <1>3
        DEF EventsDone, channelVars, serverVars, kernelVars, ghostVars, GoesOnInv, ShutdownGoesOn,
            RemovalGoesOn, isWriting

\* The functors of a batch.
LEMMA BatchRuns ==
  ASSUME IInv, GoesOnInv,
         connectEstablished \/ connectDestroyed \/ RunSend \/ RunShutdown \/ RunUserCallback
  PROVE  GoesOnInv'
<1> USE DEF channelVars, loopVars, queueVars, serverVars, kernelVars, ghostVars
<1>1. /\ Types /\ EstablishedFirst /\ NeverBack /\ PhaseInv
      /\ fin \in BOOLEAN /\ closed \in BOOLEAN /\ inMap \in BOOLEAN /\ gone \in BOOLEAN
      /\ removals \in 0..2
  BY DEF IInv, Types, Values, Flags, Control
<1>2. CASE connectEstablished
  <2>1. Running("established")
    BY <1>2 DEF connectEstablished
  <2>2. callback = "none" /\ (\A x : x # "established" => (Free(functors', x) <=> Free(functors, x)))
    BY <1>1, <2>1, RunningFacts
  <2>3. \A x \in {"shutdown", "destroyed"} : Waiting(x)' <=> Waiting(x)
    BY <1>2, <2>2 DEF connectEstablished, Waiting, Free
  <2> QED BY <1>1, <1>2, <2>2, <2>3
          DEF connectEstablished, GoesOnInv, ShutdownGoesOn, RemovalGoesOn
<1>3. CASE connectDestroyed
  <2>1. Running("destroyed")
    BY <1>3 DEF connectDestroyed
  <2>2. ~Free(functors, "destroyed") /\ callback = "none"
    BY <1>1, <2>1, RunningFacts
  <2>3. ~inMap
    BY <1>1, <2>2 DEF GoesOnInv, Waiting
  <2> QED BY <1>1, <1>3, <2>3 DEF connectDestroyed, GoesOnInv, ShutdownGoesOn, RemovalGoesOn
<1>4. CASE RunSend
  <2>1. Running("send")
    BY <1>4 DEF RunSend
  <2>2. /\ callback = "none" /\ Head(functors) \in Functors /\ Head(functors).op = "send"
        /\ \A x : x # "send" => (Free(functors', x) <=> Free(functors, x))
    BY <1>1, <2>1, RunningFacts
  <2>3. PICK len \in 1..MaxLen : sendInLoop(len)
    BY <1>4, <2>2, Calls DEF RunSend
  <2>4. /\ QueueGrows
        /\ \/ UNCHANGED <<outputBuffer_, events_, index_>>
           \/ WatchForRoom
    BY <1>1, <2>3, SendCases
  <2>5. \A x \in {"shutdown", "destroyed"} : Waiting(x)' <=> Waiting(x)
    BY <2>2, <2>4 DEF QueueGrows, Waiting
  <2>6. isWriting => isWriting'
    BY <2>4 DEF WatchForRoom, SetEvents, isWriting
  <2> QED BY <1>4, <2>5, <2>6 DEF RunSend, GoesOnInv, ShutdownGoesOn, RemovalGoesOn
<1>5. CASE RunShutdown
  <2>1. Running("shutdown")
    BY <1>5 DEF RunShutdown
  <2>2. \A x : x # "shutdown" => (Free(functors', x) <=> Free(functors, x))
    BY <1>1, <2>1, RunningFacts
  <2>3. Waiting("destroyed")' <=> Waiting("destroyed")
    BY <1>5, <2>2 DEF RunShutdown, Waiting, Free
  <2>4. isWriting \/ fin'
    BY <1>5 DEF RunShutdown, shutdownInLoop, shutdownWrite
  <2> QED BY <1>5, <2>3, <2>4 DEF RunShutdown, GoesOnInv, ShutdownGoesOn, RemovalGoesOn, isWriting
<1>6. CASE RunUserCallback
  <2>1. PICK op \in {"writeComplete", "highWater"} : Running(op)
    BY <1>6 DEF RunUserCallback
  <2>2. callback = "none" /\ (\A x : x # op => (Free(functors', x) <=> Free(functors, x)))
    BY <1>1, <2>1, RunningFacts
  <2>3. \A x \in {"shutdown", "destroyed"} : Waiting(x)' <=> Waiting(x)
    BY <1>6, <2>1, <2>2 DEF RunUserCallback, Waiting, Free
  <2> QED BY <1>6, <2>2, <2>3 DEF RunUserCallback, GoesOnInv, ShutdownGoesOn, RemovalGoesOn, isWriting
<1> QED BY <1>2, <1>3, <1>4, <1>5, <1>6

\* The steps that queue functors.
LEMMA QueueGrowing ==
  ASSUME IInv, GoesOnInv,
         \/ \E n \in 1..MaxBytes : HandleWrite(n)
         \/ \E len \in 1..MaxLen : SendInCallback(len)
         \/ QueueSend \/ QueueShutdown \/ removeConnectionInLoop \/ DestroyServer
  PROVE  GoesOnInv'
<1> USE DEF channelVars, loopVars, queueVars, serverVars, kernelVars, ghostVars
<1>1. /\ Types /\ pendingFunctors_ \in Seq(Functors) /\ removals \in 0..2
      /\ fin \in BOOLEAN /\ closed \in BOOLEAN /\ inMap \in BOOLEAN /\ gone \in BOOLEAN
  BY DEF IInv, Types, Values, Flags, Control
<1>2. ASSUME NEW n \in 1..MaxBytes, HandleWrite(n) PROVE GoesOnInv'
  <2>1. QueueGrows
    BY <1>1, <1>2, QueueCallback DEF HandleWrite, QueueGrows
  <2>2. \A x \in {"shutdown", "destroyed"} : Waiting(x)' <=> Waiting(x)
    BY <1>2, <2>1 DEF HandleWrite, QueueGrows, Waiting, Free
  <2>3. fin => fin'
    BY <1>1, <1>2 DEF HandleWrite, Drained, shutdownInLoop, shutdownWrite
  <2>4. state_ = "Disconnecting" => fin' \/ isWriting'
    BY <1>1, <1>2 DEF HandleWrite, Drained, shutdownInLoop, shutdownWrite, isWriting
  <2> QED BY <1>2, <2>2, <2>3, <2>4 DEF HandleWrite, GoesOnInv, ShutdownGoesOn, RemovalGoesOn
<1>3. ASSUME NEW len \in 1..MaxLen, SendInCallback(len) PROVE GoesOnInv'
  <2>1. /\ QueueGrows
        /\ \/ UNCHANGED <<outputBuffer_, events_, index_>>
           \/ WatchForRoom
    BY <1>1, <1>3, SendCases DEF SendInCallback
  <2>2. \A x \in {"shutdown", "destroyed"} : Waiting(x)' <=> Waiting(x)
    BY <1>3, <2>1 DEF SendInCallback, QueueGrows, Waiting, Free
  <2> QED BY <1>3, <2>2 DEF SendInCallback, MaySend, GoesOnInv, ShutdownGoesOn, RemovalGoesOn
<1>4. CASE QueueSend
  <2>1. caller \in Functors /\ caller.op = "send" /\ caller # Op("shutdown")
    BY <1>4, Calls DEF QueueSend
  <2>2. \A op : Free(pendingFunctors_', op) <=> Free(pendingFunctors_, op) /\ caller.op # op
    BY <1>1, <1>4, <2>1, AppendFunctor DEF QueueSend
  <2>3. \A x \in {"shutdown", "destroyed"} : Waiting(x)' <=> Waiting(x)
    BY <1>4, <2>1, <2>2 DEF QueueSend, Waiting, Free
  <2> QED BY <1>4, <2>1, <2>3 DEF QueueSend, GoesOnInv, ShutdownGoesOn, RemovalGoesOn, isWriting
<1>5. CASE QueueShutdown
  <2>1. Op("shutdown") \in Functors /\ Op("shutdown").op = "shutdown"
    BY NamedFunctor DEF Names
  <2>2. \A op : Free(pendingFunctors_', op) <=> Free(pendingFunctors_, op) /\ Op("shutdown").op # op
    BY <1>1, <1>5, <2>1, AppendFunctor DEF QueueShutdown
  <2>3. Waiting("shutdown")' /\ (Waiting("destroyed")' <=> Waiting("destroyed"))
    BY <1>5, <2>1, <2>2 DEF QueueShutdown, Waiting, Free
  <2> QED BY <1>5, <2>3 DEF QueueShutdown, GoesOnInv, ShutdownGoesOn, RemovalGoesOn
<1>6. ASSUME Queue(<<"destroyed">>), UNCHANGED functors
      PROVE  Waiting("destroyed")' /\ (Waiting("shutdown")' <=> Waiting("shutdown"))
  <2>1. Op("destroyed") \in Functors /\ Op("destroyed").op = "destroyed" /\ "destroyed" \in Names
    BY NamedFunctor DEF Names
  <2>2. pendingFunctors_' = Append(pendingFunctors_, Op("destroyed"))
    BY <1>1, <1>6, <2>1, QueueIsAppend
  <2>3. \A op : Free(pendingFunctors_', op) <=> Free(pendingFunctors_, op) /\ Op("destroyed").op # op
    BY <1>1, <2>1, <2>2, AppendFunctor
  <2> QED BY <1>6, <2>1, <2>3 DEF Waiting, Free
<1>7. CASE removeConnectionInLoop
  <2>1. CASE inMap
    BY <1>6, <1>7, <2>1 DEF removeConnectionInLoop, GoesOnInv, ShutdownGoesOn, RemovalGoesOn, isWriting
  <2>2. CASE ~inMap
    <3>1. \A op : Waiting(op)' <=> Waiting(op)
      BY <1>7, <2>2 DEF removeConnectionInLoop, Waiting, Free
    <3> QED BY <1>7, <2>2, <3>1
            DEF removeConnectionInLoop, GoesOnInv, ShutdownGoesOn, RemovalGoesOn, isWriting
  <2> QED BY <2>1, <2>2
<1>8. CASE DestroyServer
  BY <1>6, <1>8 DEF DestroyServer, GoesOnInv, ShutdownGoesOn, RemovalGoesOn, isWriting
<1> QED BY <1>2, <1>3, <1>4, <1>5, <1>7, <1>8

\* The connection goes on in every reachable state.
LEMMA GoesOn == Spec => []GoesOnInv
<1>1. Init => GoesOnInv
  <2>1. Op("established").op = "established"
    BY DEF Op
  <2> QED BY <2>1 DEF Init, GoesOnInv, ShutdownGoesOn, RemovalGoesOn, Waiting, Free
<1>2. IInv /\ GoesOnInv /\ [Next]_vars => GoesOnInv'
  <2> SUFFICES ASSUME IInv, GoesOnInv, [Next]_vars PROVE GoesOnInv'
    OBVIOUS
  <2>1. CASE UNCHANGED vars
    BY <2>1 DEF vars, channelVars, loopVars, queueVars, serverVars, kernelVars, ghostVars,
                GoesOnInv, ShutdownGoesOn, RemovalGoesOn, Waiting, Free, isWriting
  <2>2. CASE LoopStep
    BY <2>2, QueuesKept, BatchTaken, BatchRuns, QueueGrowing DEF LoopStep
  <2>3. CASE UserStep
    BY <2>3, QueuesKept, QueueGrowing DEF UserStep
  <2>4. CASE Next /\ ~LoopStep /\ ~UserStep
    BY <2>4, QueuesKept, QueueGrowing DEF Next
  <2> QED BY <2>1, <2>2, <2>3, <2>4
<1> QED BY <1>1, <1>2, Invariant, PTL DEF Spec

\* shutdown() is split between the caller, the queue and handleWrite: whatever comes
\* between, an open connection that is Disconnecting has its FIN sent or a step due that
\* leads to it, the safety that ShutdownCompletes rests on.
THEOREM ShutdownNeverForgotten == Spec => []ShutdownGoesOn
<1>1. GoesOnInv => ShutdownGoesOn
  BY DEF GoesOnInv
<1> QED BY <1>1, GoesOn, PTL

\* A close goes from handleClose over the base loop to connectDestroyed: no order of
\* closes, removals and ~TcpServer leaves a closed connection in the map with no removal due, or
\* one that left the map without connectDestroyed.
THEOREM RemovalNeverForgotten == Spec => []RemovalGoesOn
<1>1. GoesOnInv => RemovalGoesOn
  BY DEF GoesOnInv
<1> QED BY <1>1, GoesOn, PTL

-----------------------------------------------------------------------------
(* The reports of connectionCallback_ *)

\* Only shutdown() takes a connection to Disconnecting, and only from there is one
\* closed without a DOWN.
ReportInv ==
  /\ state_ = "Disconnecting" => shut
  /\ closed => down > 0 \/ shut

\* ReportInv is kept by every step.
LEMMA ReportStep ==
  ASSUME IInv, GoesOnInv, ReportInv, [Next]_vars
  PROVE  ReportInv'
<1> USE DEF channelVars, loopVars, queueVars, serverVars, kernelVars, ghostVars
<1>1. /\ down \in 0..2 /\ up \in 0..2 /\ closed \in BOOLEAN /\ shut \in BOOLEAN
      /\ state_ \in {"Connecting", "Connected", "Disconnecting", "Disconnected"}
      /\ up > 0 /\ ~closed => state_ \in {"Connected", "Disconnecting"}
  BY DEF IInv, Types, Values, Flags, GoesOnInv
<1>2. CASE HandleHup \/ HandleRead
  BY <1>1, <1>2 DEF HandleHup, HandleRead, handleClose, Once, ReportInv
<1>3. CASE connectEstablished
  BY <1>1, <1>3 DEF connectEstablished, ReportInv
<1>4. CASE connectDestroyed
  <2>1. up > 0
    BY <1>4, RunningFacts DEF connectDestroyed, IInv, Control
  <2> QED BY <1>1, <1>4, <2>1 DEF connectDestroyed, Once, ReportInv
<1>5. CASE ShutdownInCallback \/ CallShutdown
  BY <1>5 DEF ShutdownInCallback, CallShutdown, ReportInv
<1>6. CASE UNCHANGED <<state_, shut, closed, down>>
  BY <1>6 DEF ReportInv
<1>7. CASE LoopStep
  BY <1>2, <1>3, <1>4, <1>6, <1>7
  DEF LoopStep, HandleError, HandleWrite, HandleWriteNothing, EventsDone, RunSend, RunShutdown,
      RunUserCallback, CallbackReturns, FunctorsDone
<1>8. CASE UserStep
  BY <1>5, <1>6, <1>8 DEF UserStep, SendInCallback, CallSend
<1> QED
  BY <1>6, <1>7, <1>8
  DEF Next, vars, PollEvents, PollOther, LastReference, QueueSend, QueueShutdown,
      removeConnectionInLoop, DestroyServer, Peer

\* handleClose and connectDestroyed report DOWN at most once between them, unless a
\* send that runs after the close registers the channel again, and leave it out only
\* after a shutdown().
THEOREM DownReportedOnce == Spec => []DownOnce
<1>1. Init => ReportInv
  BY DEF Init, ReportInv
<1>2. IInv /\ GoesOnInv /\ ReportInv /\ [Next]_vars => ReportInv'
  BY ReportStep
<1>3. ASSUME IInv, ReportInv PROVE DownOnce
  BY <1>3 DEF IInv, Types, Values, Flags, Control, EstablishedFirst, PhaseInv, OpenInv, ClosedInv,
              ReportInv, DownOnce
<1> QED BY <1>1, <1>2, <1>3, Invariant, GoesOn, PTL DEF Spec
=============================================================================
