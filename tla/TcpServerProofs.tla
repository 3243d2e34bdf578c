--------------------------- MODULE TcpServerProofs ---------------------------
(***************************************************************************)
(* Safety of a TcpServer for any connections, io loops, counter range and  *)
(* number of sends.                                                        *)
(*                                                                         *)
(* The proof does not look into the queues: it reasons about the functors  *)
(* that a loop still has to run (due), about which of them stand behind    *)
(* which others (behind), and about those that exist, done or not          *)
(* (posted).  Queueing, swapping, running and dropping functors are lemmas *)
(* about these three.                                                      *)
(***************************************************************************)
EXTENDS TcpServer, SequenceTheorems, TLAPS

-----------------------------------------------------------------------------
(* The functors of a loop *)

Ops == Owning \cup Raw

Elements(q) == {q[k] : k \in 1..Len(q)}

\* The pairs of functors of q of which the second comes behind the first.
Ordered(q) ==
  {p \in Functors \X Functors : \E j, k \in 1..Len(q) : j < k /\ q[j] = p[1] /\ q[k] = p[2]}

\* What a loop still has to run, in order, when the first n functors of its batch b
\* are done and its queue is q.
Left(b, n, q) == SubSeq(b, n + 1, Len(b)) \o q

Agenda(l) == Left(functors[l], ran[l], pendingFunctors_[l])

due == [l \in Loops |-> Elements(Agenda(l))]
behind == [l \in Loops |-> Ordered(Agenda(l))]
posted == [l \in Loops |-> Elements(pendingFunctors_[l]) \cup Elements(functors[l])]

\* What is due behind the functor that runs now.
after == [l \in Loops |-> Elements(Left(functors[l], ran[l] + 1, pendingFunctors_[l]))]

\* The connections that some TcpConnectionPtr points to.
living == {c \in Conns : Alive(c)}

-----------------------------------------------------------------------------
(* The inductive invariant *)

\* TypeOK, one variable at a time.
Types ==
  /\ server \in {"new", "up", "dtor", "gone"}
  /\ pool \subseteq IoLoops
  /\ told \subseteq IoLoops
  /\ connections_ \in [0..(IdMod - 1) -> Conns \cup {NoConn}]
  /\ nextConnId_ \in 0..(IdMod - 1)
  /\ collided \in BOOLEAN
  /\ state_ \in [Conns -> {"unborn", "Connecting", "Connected", "Disconnected"}]
  /\ loop_ \in [Conns -> Loops]
  /\ name_ \in [Conns -> 0..(IdMod - 1)]
  /\ registered \in [Conns -> BOOLEAN]
  /\ destroyed \in [Conns -> 0..2]
  /\ user \in [Conns -> BOOLEAN]
  /\ calling \in [Conns -> BOOLEAN]
  /\ foreign \in [Conns -> BOOLEAN]
  /\ late \in [Conns -> BOOLEAN]
  /\ sends \in 0..MaxSends
  /\ phase \in [Loops -> {"entering", "poll", "functors", "ended"}]
  /\ quit_ \in [Loops -> BOOLEAN]
  /\ pendingFunctors_ \in [Loops -> Seq(Functors)]
  /\ functors \in [Loops -> Seq(Functors)]
  /\ ran \in [Loops -> Nat]
  /\ \A l \in Loops : ran[l] <= Len(functors[l])
  /\ exited \in BOOLEAN

\* A loop has a batch only while it runs it, and ends only in ~TcpServer.
LoopInv ==
  /\ \A l \in Loops :
       /\ phase[l] # "functors" => functors[l] = <<>> /\ ran[l] = 0
       /\ phase[l] = "ended" => quit_[l]
       /\ quit_[l] => l \in pool /\ server \in {"dtor", "gone"}
  /\ server = "gone" =>
       /\ \A id \in 0..(IdMod - 1) : connections_[id] = NoConn
       /\ \A l \in pool : phase[l] = "ended"

\* An entry has the name of its connection, and no two living connections have the
\* same name before a collision.
MapInv ==
  /\ \A id \in 0..(IdMod - 1) :
       connections_[id] # NoConn => Made(connections_[id]) /\ name_[connections_[id]] = id
  /\ ~collided => \A c, d \in living : name_[c] = name_[d] => c = d

\* Before connectEstablished nobody knows the connection, and before newConnection it
\* is nowhere.
Birth(c) ==
  /\ Made(c) => server # "new" /\ loop_[c] \in pool \cup {Base}
  /\ ~Made(c) => \A l \in Loops : \A op \in Ops : F(op, c) \notin posted[l]
  /\ state_[c] \in {"unborn", "Connecting"} =>
       ~registered[c] /\ ~user[c] /\ ~calling[c] /\ destroyed[c] = 0

\* The functors of a connection are due on its own loop; connectEstablished is due
\* once, in front of connectDestroyed, and while the connection is Connecting; a removal
\* is due when the connection is closed, on the base loop, and not for its own
\* connections.
Tasks(c) ==
  \A l \in Loops :
    /\ F("established", c) \in due[l] => l = loop_[c] /\ l # Base /\ state_[c] = "Connecting"
    /\ F("destroyed", c) \in due[l] => l = loop_[c]
    /\ F("send", c) \in due[l] => l = loop_[c] /\ state_[c] # "Connecting" /\ foreign[c]
    /\ F("writeComplete", c) \in due[l] => l = loop_[c] /\ state_[c] # "Connecting"
    /\ F("remove", c) \in due[l] => state_[c] = "Disconnected"
    /\ F("remove", c) \in posted[l] => l = Base /\ loop_[c] # Base
    /\ <<F("established", c), F("established", c)>> \notin behind[l]
    /\ <<F("destroyed", c), F("established", c)>> \notin behind[l]

\* connectDestroyed of c is due.
Leaving(c) == F("destroyed", c) \in due[loop_[c]]

\* Where a connection is on its way: in the map, waiting for connectDestroyed, behind
\* it, or left behind by a loop that ended.
Stages(c) ==
  \/ Entered(c) /\ ~Leaving(c) /\ destroyed[c] = 0
  \/ /\ ~Entered(c) /\ Leaving(c) /\ destroyed[c] = 0
     /\ server = "up" \/ loop_[c] = Base => state_[c] = "Disconnected"
  \/ ~Entered(c) /\ ~Leaving(c) /\ destroyed[c] = 1 /\ state_[c] = "Disconnected"
  \/ ~Entered(c) /\ ~Leaving(c) /\ destroyed[c] = 0 /\ phase[loop_[c]] = "ended"

\* Before a collision a connection goes through these stages, and connectDestroyed is
\* due once.
Life(c) ==
  ~collided => /\ Made(c) => Stages(c)
               /\ \A l \in Loops : <<F("destroyed", c), F("destroyed", c)>> \notin behind[l]

\* A closed connection is registered only by a send that another thread queued.
Registration(c) ==
  /\ registered[c] /\ state_[c] = "Disconnected" => foreign[c]
  /\ registered[c] /\ destroyed[c] > 0 => late[c]

\* Without such a send, everything that captured this is in front of connectDestroyed.
RawFirst(c) ==
  ~collided /\ server = "up" /\ ~foreign[c] =>
    \A l \in Loops : /\ <<F("destroyed", c), F("writeComplete", c)>> \notin behind[l]
                     /\ destroyed[c] > 0 => F("writeComplete", c) \notin due[l]

ConnInv(c) == Birth(c) /\ Tasks(c) /\ Life(c) /\ Registration(c) /\ RawFirst(c)

SafeInv == LoopInv /\ MapInv /\ \A c \in Conns : ConnInv(c)

IInv == Types /\ SafeInv

-----------------------------------------------------------------------------
(* Lemmas on queues *)

\* A functor is its operation and its connection.
LEMMA FunctorIs ==
  /\ \A op \in Ops, c \in Conns : F(op, c) \in Functors
  /\ \A op, c : F(op, c).op = op /\ F(op, c).conn = c
  /\ \A f \in Functors : f.op \in Ops /\ f.conn \in Conns /\ f = F(f.op, f.conn)
BY DEF F, Functors, Ops, Owning, Raw

\* A functor that is queued is behind all the others.
LEMMA AppendOrdered ==
  ASSUME NEW q \in Seq(Functors), NEW f \in Functors
  PROVE  /\ Elements(Append(q, f)) = Elements(q) \cup {f}
         /\ \A g, h : <<g, h>> \in Ordered(Append(q, f)) =>
              <<g, h>> \in Ordered(q) \/ (g \in Elements(q) /\ h = f)
<1> DEFINE r == Append(q, f)
<1>1. /\ Len(q) \in Nat
      /\ Len(r) = Len(q) + 1
      /\ \A k \in 1..Len(q) : r[k] = q[k]
      /\ r[Len(q) + 1] = f
  BY LenProperties, AppendProperties
<1> HIDE DEF r
<1>2. 1..Len(r) = (1..Len(q)) \cup {Len(q) + 1}
  BY <1>1
<1>3. Elements(r) = Elements(q) \cup {f}
  BY <1>1, <1>2 DEF Elements
<1>4. ASSUME NEW g, NEW h, <<g, h>> \in Ordered(r)
      PROVE  <<g, h>> \in Ordered(q) \/ (g \in Elements(q) /\ h = f)
  <2>1. PICK j \in 1..Len(r), k \in 1..Len(r) : j < k /\ r[j] = g /\ r[k] = h
    BY <1>4 DEF Ordered
  <2>2. j \in 1..Len(q) /\ q[j] = g
    BY <1>1, <2>1
  <2>3. CASE k \in 1..Len(q)
    <3>1. q[k] = h
      BY <1>1, <2>1, <2>3
    <3> QED BY <1>4, <2>1, <2>2, <2>3, <3>1 DEF Ordered
  <2>4. CASE k = Len(q) + 1
    BY <1>1, <2>1, <2>2, <2>4 DEF Elements
  <2> QED BY <1>2, <2>3, <2>4
<1> QED BY <1>3, <1>4 DEF r

\* The head of a queue is in front of all the others.
LEMMA TailOrdered ==
  ASSUME NEW q \in Seq(Functors), q # <<>>
  PROVE  /\ Elements(q) = Elements(Tail(q)) \cup {Head(q)}
         /\ Ordered(Tail(q)) \subseteq Ordered(q)
         /\ \A g \in Elements(Tail(q)) : <<Head(q), g>> \in Ordered(q)
<1> DEFINE t == Tail(q)
<1>1. /\ Len(q) \in Nat \ {0}
      /\ Len(t) = Len(q) - 1
      /\ \A k \in 1..Len(t) : t[k] = q[k + 1]
      /\ Head(q) = q[1]
      /\ \A k \in 1..Len(q) : q[k] \in Functors
  BY LenProperties, HeadTailProperties, EmptySeq, ElementOfSeq
<1> HIDE DEF t
<1>2. \A k \in 1..Len(q) : k = 1 \/ (k - 1 \in 1..Len(t) /\ q[k] = t[k - 1])
  <2>1. ASSUME NEW k \in 1..Len(q), k # 1 PROVE k - 1 \in 1..Len(t) /\ q[k] = t[k - 1]
    <3>1. k - 1 \in 1..Len(t) /\ (k - 1) + 1 = k
      BY <1>1, <2>1
    <3> QED BY <1>1, <3>1
  <2> QED BY <2>1
<1>3. \A k \in 1..Len(t) : k + 1 \in 1..Len(q) /\ 1 < k + 1 /\ 1 \in 1..Len(q)
  BY <1>1
<1>4. Elements(q) = Elements(t) \cup {q[1]}
  <2>1. ASSUME NEW k \in 1..Len(q) PROVE q[k] \in Elements(t) \cup {q[1]}
    BY <1>2 DEF Elements
  <2>2. ASSUME NEW k \in 1..Len(t) PROVE t[k] \in Elements(q)
    BY <1>1, <1>3 DEF Elements
  <2>3. q[1] \in Elements(q)
    <3>1. 1 \in 1..Len(q)
      BY <1>1
    <3> QED BY <3>1 DEF Elements
  <2> QED BY <2>1, <2>2, <2>3 DEF Elements
<1>5. ASSUME NEW p \in Ordered(t) PROVE p \in Ordered(q)
  <2>1. PICK j \in 1..Len(t), k \in 1..Len(t) : j < k /\ t[j] = p[1] /\ t[k] = p[2]
    BY <1>5 DEF Ordered
  <2>2. j + 1 < k + 1 /\ q[j + 1] = p[1] /\ q[k + 1] = p[2]
    BY <1>1, <2>1
  <2> QED BY <1>3, <1>5, <2>2 DEF Ordered
<1>6. ASSUME NEW g \in Elements(t) PROVE <<q[1], g>> \in Ordered(q)
  <2>1. PICK k \in 1..Len(t) : g = t[k]
    BY <1>6 DEF Elements
  <2>2. q[k + 1] = g /\ g \in Functors /\ q[1] \in Functors
    BY <1>1, <1>3, <2>1
  <2>3. <<q[1], g>> \in Functors \X Functors /\ <<q[1], g>>[1] = q[1] /\ <<q[1], g>>[2] = g
    BY <2>2
  <2> QED BY <1>3, <2>1, <2>2, <2>3 DEF Ordered
<1> QED BY <1>1, <1>4, <1>5, <1>6 DEF t

\* What is left of a batch is a queue.
LEMMA RestIsSeq ==
  ASSUME NEW b \in Seq(Functors), NEW n \in Nat
  PROVE  /\ SubSeq(b, n + 1, Len(b)) \in Seq(Functors)
         /\ Len(SubSeq(b, n + 1, Len(b))) = IF n < Len(b) THEN Len(b) - n ELSE 0
         /\ \A k \in 1..(Len(b) - n) : SubSeq(b, n + 1, Len(b))[k] = b[n + k]
<1>1. n + 1 \in Int /\ Len(b) \in Int /\ Len(b) \in Nat
  BY LenProperties
<1>2. \A k \in (n + 1)..Len(b) : b[k] \in Functors
  BY <1>1, ElementOfSeq
<1>3. /\ SubSeq(b, n + 1, Len(b)) \in Seq(Functors)
      /\ Len(SubSeq(b, n + 1, Len(b))) = IF n + 1 <= Len(b) THEN Len(b) - (n + 1) + 1 ELSE 0
      /\ \A k \in 1..(Len(b) - (n + 1) + 1) : SubSeq(b, n + 1, Len(b))[k] = b[(n + 1) + k - 1]
  BY <1>1, <1>2, SubSeqProperties
<1> QED BY <1>1, <1>3

LEMMA LeftIsSeq ==
  ASSUME NEW b \in Seq(Functors), NEW n \in Nat, NEW q \in Seq(Functors)
  PROVE  Left(b, n, q) \in Seq(Functors)
BY RestIsSeq, ConcatProperties DEF Left

\* Queueing appends to what is left.
LEMMA LeftAppend ==
  ASSUME NEW b \in Seq(Functors), NEW n \in Nat, NEW q \in Seq(Functors), NEW f \in Functors
  PROVE  Left(b, n, Append(q, f)) = Append(Left(b, n, q), f)
<1>1. SubSeq(b, n + 1, Len(b)) \in Seq(Functors)
  BY RestIsSeq
<1>2. ASSUME NEW s \in Seq(Functors) PROVE s \o Append(q, f) = Append(s \o q, f)
  <2>1. <<f>> \in Seq(Functors) /\ Append(q, f) = q \o <<f>>
    BY AppendIsConcat
  <2>2. s \o q \in Seq(Functors) /\ Append(s \o q, f) = (s \o q) \o <<f>>
    BY ConcatProperties, AppendIsConcat
  <2> QED BY <2>1, <2>2, ConcatAssociative
<1> QED BY <1>1, <1>2 DEF Left

\* Running a functor takes it from the front of what is left.
LEMMA LeftRun ==
  ASSUME NEW b \in Seq(Functors), NEW n \in Nat, n < Len(b), NEW q \in Seq(Functors)
  PROVE  /\ Left(b, n, q) # <<>>
         /\ Head(Left(b, n, q)) = b[n + 1]
         /\ Tail(Left(b, n, q)) = Left(b, n + 1, q)
<1> DEFINE s == SubSeq(b, n + 1, Len(b))
<1> DEFINE t == SubSeq(b, n + 2, Len(b))
<1>0. Len(b) \in Nat /\ n + 1 \in Nat /\ (n + 1) + 1 = n + 2
  BY LenProperties
<1>1. /\ s \in Seq(Functors)
      /\ Len(s) = Len(b) - n
      /\ \A k \in 1..(Len(b) - n) : s[k] = b[n + k]
  BY <1>0, RestIsSeq
<1>2. /\ t \in Seq(Functors)
      /\ Len(t) = Len(b) - (n + 1)
      /\ \A k \in 1..(Len(b) - (n + 1)) : t[k] = b[(n + 1) + k]
  <2>1. /\ SubSeq(b, (n + 1) + 1, Len(b)) \in Seq(Functors)
        /\ Len(SubSeq(b, (n + 1) + 1, Len(b))) = IF n + 1 < Len(b) THEN Len(b) - (n + 1) ELSE 0
        /\ \A k \in 1..(Len(b) - (n + 1)) : SubSeq(b, (n + 1) + 1, Len(b))[k] = b[(n + 1) + k]
    BY <1>0, RestIsSeq
  <2>2. t = SubSeq(b, (n + 1) + 1, Len(b))
    BY <1>0
  <2> QED BY <1>0, <2>1, <2>2
<1> HIDE DEF s, t
<1>3. /\ s \o q \in Seq(Functors)
      /\ Len(s \o q) = Len(s) + Len(q)
      /\ \A k \in 1..(Len(s) + Len(q)) : (s \o q)[k] = IF k <= Len(s) THEN s[k] ELSE q[k - Len(s)]
      /\ Len(q) \in Nat
  BY <1>1, ConcatProperties, LenProperties
<1>4. /\ t \o q \in Seq(Functors)
      /\ Len(t \o q) = Len(t) + Len(q)
      /\ \A k \in 1..(Len(t) + Len(q)) : (t \o q)[k] = IF k <= Len(t) THEN t[k] ELSE q[k - Len(t)]
  BY <1>2, ConcatProperties
<1>5. s \o q # <<>> /\ Head(s \o q) = b[n + 1]
  <2>1. Len(s \o q) # 0 /\ 1 \in 1..(Len(s) + Len(q)) /\ 1 <= Len(s) /\ 1 \in 1..(Len(b) - n)
    BY <1>0, <1>1, <1>3
  <2>2. s \o q # <<>>
    BY <2>1, EmptySeq
  <2>3. Head(s \o q) = (s \o q)[1]
    BY <1>3, <2>2, HeadTailProperties
  <2>4. (s \o q)[1] = b[n + 1]
    BY <1>1, <1>3, <2>1
  <2> QED BY <2>2, <2>3, <2>4
<1>6. Tail(s \o q) = t \o q
  <2>1. /\ Tail(s \o q) \in Seq(Functors)
        /\ Len(Tail(s \o q)) = Len(s \o q) - 1
        /\ \A k \in 1..Len(Tail(s \o q)) : Tail(s \o q)[k] = (s \o q)[k + 1]
    BY <1>3, <1>5, HeadTailProperties
  <2>2. Len(Tail(s \o q)) = Len(t \o q)
    BY <1>0, <1>1, <1>2, <1>3, <1>4, <2>1
  <2>3. ASSUME NEW k \in 1..Len(t \o q) PROVE Tail(s \o q)[k] = (t \o q)[k]
    <3>1. k + 1 \in 1..(Len(s) + Len(q)) /\ k \in 1..(Len(t) + Len(q)) /\ Len(s) = Len(t) + 1
      BY <1>0, <1>1, <1>2, <1>3, <1>4
    <3>2. Tail(s \o q)[k] = (s \o q)[k + 1]
      BY <2>1, <2>2
    <3>3. CASE k <= Len(t)
      <4>1. (s \o q)[k + 1] = s[k + 1] /\ (t \o q)[k] = t[k]
        BY <1>0, <1>1, <1>2, <1>3, <1>4, <3>1, <3>3
      <4>2. k + 1 \in 1..(Len(b) - n) /\ k \in 1..(Len(b) - (n + 1)) /\ n + (k + 1) = (n + 1) + k
        BY <1>0, <1>1, <1>2, <3>1, <3>3
      <4>3. s[k + 1] = b[n + (k + 1)] /\ t[k] = b[(n + 1) + k]
        BY <1>1, <1>2, <4>2
      <4> QED BY <3>2, <4>1, <4>2, <4>3
    <3>4. CASE k > Len(t)
      <4>1. ~(k + 1 <= Len(s)) /\ ~(k <= Len(t)) /\ (k + 1) - Len(s) = k - Len(t)
        BY <1>0, <1>1, <1>2, <3>1, <3>4
      <4>2. (s \o q)[k + 1] = q[(k + 1) - Len(s)]
        BY <1>3, <3>1, <4>1
      <4>3. (t \o q)[k] = q[k - Len(t)]
        BY <1>4, <3>1, <4>1
      <4> QED BY <3>2, <4>1, <4>2, <4>3
    <3>5. k \in Nat /\ Len(t) \in Nat
      BY <1>0, <1>2, <3>1
    <3>6. k <= Len(t) \/ k > Len(t)
      BY <3>5
    <3> QED BY <3>3, <3>4, <3>6
  <2> QED BY <1>4, <2>1, <2>2, <2>3, SeqEqual
<1>7. Left(b, n, q) = s \o q
  BY DEF Left, s
<1>8. Left(b, n + 1, q) = t \o q
  BY <1>0 DEF Left, t
<1> QED BY <1>5, <1>6, <1>7, <1>8

\* A fresh batch, and one that is done.
LEMMA LeftEmpty ==
  ASSUME NEW b \in Seq(Functors), NEW q \in Seq(Functors)
  PROVE  /\ Left(<<>>, 0, q) = q
         /\ Left(b, 0, <<>>) = b
         /\ Left(b, Len(b), q) = q
<1>1. Len(b) \in Nat /\ Len(<<>>) = 0
  BY LenProperties, EmptySeq
<1>2. SubSeq(<<>>, 0 + 1, Len(<<>>)) = <<>>
  BY <1>1, SubSeqEmpty
<1>3. SubSeq(b, Len(b) + 1, Len(b)) = <<>>
  BY <1>1, SubSeqEmpty
<1>4. SubSeq(b, 0 + 1, Len(b)) = b
  BY SubSeqFull
<1> QED BY <1>2, <1>3, <1>4, ConcatEmptySeq DEF Left

\* No functor is left in an empty queue.
LEMMA NothingLeft ==
  Elements(<<>>) = {} /\ Ordered(<<>>) = {}
<1>1. Len(<<>>) = 0 /\ 1..0 = {}
  BY EmptySeq
<1> QED BY <1>1 DEF Elements, Ordered

-----------------------------------------------------------------------------
(* What the steps do to the functors *)

\* What is due when the functor that loop l runs is taken off.
Taken(l) == [due EXCEPT ![l] = after[l]]

\* Functor o of connection d is queued on loop m, behind those of R.
Queued(R, m, o, d) ==
  \A k \in Loops : \A op, c :
    /\ F(op, c) \in due'[k] <=> F(op, c) \in R[k] \/ (k = m /\ op = o /\ c = d)
    /\ F(op, c) \in posted'[k] <=> F(op, c) \in posted[k] \/ (k = m /\ op = o /\ c = d)
    /\ \A op2 : <<F(op2, c), F(op, c)>> \in behind'[k] =>
         \/ <<F(op2, c), F(op, c)>> \in behind[k]
         \/ k = m /\ op = o /\ c = d /\ F(op2, c) \in R[k]

LEMMA QueuesKept ==
  ASSUME UNCHANGED <<pendingFunctors_, functors, ran>>
  PROVE  due' = due /\ behind' = behind /\ posted' = posted
BY DEF due, behind, posted, Agenda

\* The parts of the queues, loop by loop.
LEMMA QueueParts ==
  ASSUME Types, Types'
  PROVE  /\ \A k \in Loops :
              /\ Agenda(k) \in Seq(Functors)
              /\ due[k] = Elements(Agenda(k))
              /\ behind[k] = Ordered(Agenda(k))
              /\ after[k] = Elements(Left(functors[k], ran[k] + 1, pendingFunctors_[k]))
              /\ posted[k] = Elements(pendingFunctors_[k]) \cup Elements(functors[k])
         /\ \A k \in Loops :
              /\ due'[k] = Elements(Left(functors'[k], ran'[k], pendingFunctors_'[k]))
              /\ behind'[k] = Ordered(Left(functors'[k], ran'[k], pendingFunctors_'[k]))
              /\ posted'[k] = Elements(pendingFunctors_'[k]) \cup Elements(functors'[k])
<1>1. ASSUME NEW k \in Loops PROVE Agenda(k) \in Seq(Functors)
  BY LeftIsSeq DEF Types, Agenda
<1>2. ASSUME NEW k \in Loops
      PROVE  /\ due[k] = Elements(Agenda(k))
             /\ behind[k] = Ordered(Agenda(k))
             /\ after[k] = Elements(Left(functors[k], ran[k] + 1, pendingFunctors_[k]))
             /\ posted[k] = Elements(pendingFunctors_[k]) \cup Elements(functors[k])
  BY DEF due, behind, after, posted
<1>3. ASSUME NEW k \in Loops
      PROVE  /\ due'[k] = Elements(Left(functors'[k], ran'[k], pendingFunctors_'[k]))
             /\ behind'[k] = Ordered(Left(functors'[k], ran'[k], pendingFunctors_'[k]))
             /\ posted'[k] = Elements(pendingFunctors_'[k]) \cup Elements(functors'[k])
  BY DEF due, behind, posted, Agenda
<1> QED BY <1>1, <1>2, <1>3

\* The functor that runs is in front of what is due after it.
LEMMA RunsFirst ==
  ASSUME Types, NEW l \in Loops, ran[l] < Len(functors[l])
  PROVE  /\ Current(l) \in Functors
         /\ due[l] = after[l] \cup {Current(l)}
         /\ \A g \in after[l] : <<Current(l), g>> \in behind[l]
         /\ Left(functors[l], ran[l] + 1, pendingFunctors_[l]) \in Seq(Functors)
         /\ Ordered(Left(functors[l], ran[l] + 1, pendingFunctors_[l])) \subseteq behind[l]
<1>1. /\ functors[l] \in Seq(Functors)
      /\ ran[l] \in Nat
      /\ pendingFunctors_[l] \in Seq(Functors)
  BY DEF Types
<1>2. /\ Agenda(l) \in Seq(Functors)
      /\ Agenda(l) # <<>>
      /\ Head(Agenda(l)) = Current(l)
      /\ Tail(Agenda(l)) = Left(functors[l], ran[l] + 1, pendingFunctors_[l])
  BY <1>1, LeftRun, LeftIsSeq DEF Agenda, Current
<1>3. /\ due[l] = Elements(Agenda(l))
      /\ behind[l] = Ordered(Agenda(l))
      /\ after[l] = Elements(Left(functors[l], ran[l] + 1, pendingFunctors_[l]))
  BY DEF due, behind, after
<1>4. Head(Agenda(l)) \in Functors /\ Tail(Agenda(l)) \in Seq(Functors)
  BY <1>2, HeadTailProperties
<1>5. /\ Elements(Agenda(l)) = Elements(Tail(Agenda(l))) \cup {Head(Agenda(l))}
      /\ Ordered(Tail(Agenda(l))) \subseteq Ordered(Agenda(l))
      /\ \A g \in Elements(Tail(Agenda(l))) : <<Head(Agenda(l)), g>> \in Ordered(Agenda(l))
  BY <1>2, TailOrdered
<1> QED BY <1>2, <1>3, <1>4, <1>5

\* The same, functor by functor.
LEMMA RunsAhead ==
  ASSUME Types, NEW l \in Loops, NEW o, Running(l, o)
  PROVE  LET d == Current(l).conn
         IN  /\ d \in Conns /\ o \in Ops
             /\ F(o, d) \in due[l]
             /\ \A op, c :
                  F(op, c) \in due[l] <=> F(op, c) \in after[l] \/ (op = o /\ c = d)
             /\ \A op : F(op, d) \in after[l] => <<F(o, d), F(op, d)>> \in behind[l]
<1> DEFINE d == Current(l).conn
<1>1. ran[l] < Len(functors[l]) /\ Current(l).op = o
  BY DEF Running
<1>2. /\ Current(l) \in Functors
      /\ due[l] = after[l] \cup {Current(l)}
      /\ \A g \in after[l] : <<Current(l), g>> \in behind[l]
  BY <1>1, RunsFirst
<1>3. d \in Conns /\ o \in Ops /\ Current(l) = F(o, d)
  BY <1>1, <1>2, FunctorIs
<1>4. ASSUME NEW op, NEW c PROVE F(op, c) = F(o, d) <=> op = o /\ c = d
  BY <1>3, FunctorIs
<1> HIDE DEF d
<1>5. /\ F(o, d) \in due[l]
      /\ \A op : F(op, d) \in after[l] => <<F(o, d), F(op, d)>> \in behind[l]
  BY <1>2, <1>3
<1>6. ASSUME NEW op, NEW c
      PROVE  F(op, c) \in due[l] <=> F(op, c) \in after[l] \/ (op = o /\ c = d)
  BY <1>2, <1>3, <1>4
<1> QED BY <1>3, <1>5, <1>6 DEF d

\* queueInLoop
LEMMA QueuePushed ==
  ASSUME Types, Types', NEW m \in Loops, NEW o \in Ops, NEW d \in Conns,
         queueInLoop(m, F(o, d)), UNCHANGED <<functors, ran>>
  PROVE  Queued(due, m, o, d)
<1>1. F(o, d) \in Functors
  BY FunctorIs
<1>2. ASSUME NEW k \in Loops, k # m
      PROVE  due'[k] = due[k] /\ behind'[k] = behind[k] /\ posted'[k] = posted[k]
  <2>1. pendingFunctors_'[k] = pendingFunctors_[k]
    BY <1>2 DEF queueInLoop, Types
  <2> QED BY <2>1, QueueParts DEF Agenda
<1>3. /\ due'[m] = due[m] \cup {F(o, d)}
      /\ posted'[m] = posted[m] \cup {F(o, d)}
      /\ \A g, h : <<g, h>> \in behind'[m] => <<g, h>> \in behind[m] \/ (g \in due[m] /\ h = F(o, d))
  <2>1. /\ pendingFunctors_'[m] = Append(pendingFunctors_[m], F(o, d))
        /\ pendingFunctors_[m] \in Seq(Functors)
        /\ functors[m] \in Seq(Functors) /\ ran[m] \in Nat
    BY DEF queueInLoop, Types
  <2>2. Left(functors'[m], ran'[m], pendingFunctors_'[m]) = Append(Agenda(m), F(o, d))
    <3>1. Left(functors[m], ran[m], Append(pendingFunctors_[m], F(o, d)))
            = Append(Left(functors[m], ran[m], pendingFunctors_[m]), F(o, d))
      BY <1>1, <2>1, LeftAppend
    <3> QED BY <2>1, <3>1 DEF Agenda
  <2>3. Elements(pendingFunctors_'[m]) = Elements(pendingFunctors_[m]) \cup {F(o, d)}
    BY <1>1, <2>1, AppendOrdered
  <2>4. /\ Agenda(m) \in Seq(Functors)
        /\ due[m] = Elements(Agenda(m))
        /\ behind[m] = Ordered(Agenda(m))
        /\ posted[m] = Elements(pendingFunctors_[m]) \cup Elements(functors[m])
        /\ due'[m] = Elements(Append(Agenda(m), F(o, d)))
        /\ behind'[m] = Ordered(Append(Agenda(m), F(o, d)))
        /\ posted'[m] = Elements(pendingFunctors_'[m]) \cup Elements(functors[m])
    BY <2>2, QueueParts
  <2>5. /\ Elements(Append(Agenda(m), F(o, d))) = Elements(Agenda(m)) \cup {F(o, d)}
        /\ \A g, h : <<g, h>> \in Ordered(Append(Agenda(m), F(o, d))) =>
             <<g, h>> \in Ordered(Agenda(m)) \/ (g \in Elements(Agenda(m)) /\ h = F(o, d))
    BY <1>1, <2>4, AppendOrdered
  <2> QED BY <2>3, <2>4, <2>5
<1>4. ASSUME NEW op, NEW c PROVE F(op, c) = F(o, d) <=> op = o /\ c = d
  BY FunctorIs
<1>5. ASSUME NEW k \in Loops, NEW op, NEW c
      PROVE  /\ F(op, c) \in due'[k] <=> F(op, c) \in due[k] \/ (k = m /\ op = o /\ c = d)
             /\ F(op, c) \in posted'[k] <=> F(op, c) \in posted[k] \/ (k = m /\ op = o /\ c = d)
             /\ \A op2 : <<F(op2, c), F(op, c)>> \in behind'[k] =>
                  \/ <<F(op2, c), F(op, c)>> \in behind[k]
                  \/ k = m /\ op = o /\ c = d /\ F(op2, c) \in due[k]
  BY <1>2, <1>3, <1>4
<1> QED BY <1>5 DEF Queued

\* A functor runs, and queues nothing.
LEMMA QueueTaken ==
  ASSUME Types, Types', NEW l \in Loops, NEW o, Running(l, o),
         UNCHANGED <<functors, pendingFunctors_>>
  PROVE  /\ due' = Taken(l)
         /\ \A k \in Loops : behind'[k] \subseteq behind[k]
         /\ posted' = posted
<1>1. posted' = posted
  BY DEF posted
<1>2. ran' = [ran EXCEPT ![l] = @ + 1] /\ ran[l] < Len(functors[l])
  BY DEF Running
<1>3. ASSUME NEW k \in Loops, k # l PROVE due'[k] = due[k] /\ behind'[k] = behind[k]
  <2>1. ran'[k] = ran[k]
    BY <1>2, <1>3 DEF Types
  <2> QED BY <2>1, QueueParts DEF Agenda
<1>4. due'[l] = after[l] /\ behind'[l] \subseteq behind[l]
  <2>1. ran'[l] = ran[l] + 1
    BY <1>2 DEF Types
  <2> QED BY <1>2, <2>1, QueueParts, RunsFirst
<1>5. due' = Taken(l)
  BY <1>3, <1>4 DEF due, Taken
<1> QED BY <1>1, <1>3, <1>4, <1>5

\* A functor runs, and queues another one.
LEMMA QueueTakenPushed ==
  ASSUME Types, Types', NEW l \in Loops, NEW op0, Running(l, op0), UNCHANGED functors,
         NEW m \in Loops, NEW o \in Ops, NEW d \in Conns, queueInLoop(m, F(o, d))
  PROVE  Queued(Taken(l), m, o, d)
<1> DEFINE B(k) == Left(functors[k], IF k = l THEN ran[k] + 1 ELSE ran[k], pendingFunctors_[k])
<1>1. F(o, d) \in Functors
  BY FunctorIs
<1>2. ran' = [ran EXCEPT ![l] = @ + 1] /\ ran[l] < Len(functors[l])
  BY DEF Running
<1>3. ASSUME NEW k \in Loops
      PROVE  B(k) \in Seq(Functors) /\ Taken(l)[k] = Elements(B(k)) /\ Ordered(B(k)) \subseteq behind[k]
  <2>1. CASE k = l
    <3>1. Taken(l)[k] = after[k]
      BY <2>1 DEF Taken, due
    <3> QED BY <1>2, <2>1, <3>1, QueueParts, RunsFirst
  <2>2. CASE k # l
    <3>1. Taken(l)[k] = due[k]
      BY <2>2 DEF Taken, due
    <3>2. B(k) = Agenda(k)
      BY <2>2 DEF Agenda
    <3> QED BY <3>1, <3>2, QueueParts
  <2> QED BY <2>1, <2>2
<1>4. ASSUME NEW k \in Loops
      PROVE  /\ functors'[k] = functors[k]
             /\ ran'[k] = IF k = l THEN ran[k] + 1 ELSE ran[k]
             /\ pendingFunctors_'[k] = IF k = m THEN Append(pendingFunctors_[k], F(o, d)) ELSE pendingFunctors_[k]
             /\ functors[k] \in Seq(Functors) /\ ran[k] \in Nat /\ pendingFunctors_[k] \in Seq(Functors)
  BY <1>2 DEF queueInLoop, Types
<1>5. ASSUME NEW k \in Loops, k # m
      PROVE  due'[k] = Taken(l)[k] /\ behind'[k] \subseteq behind[k] /\ posted'[k] = posted[k]
  <2>1. Left(functors'[k], ran'[k], pendingFunctors_'[k]) = B(k)
    BY <1>4, <1>5
  <2>2. due'[k] = Elements(B(k)) /\ behind'[k] = Ordered(B(k)) /\ posted'[k] = posted[k]
    BY <1>4, <1>5, <2>1, QueueParts
  <2> QED BY <1>3, <2>2
<1>6. /\ due'[m] = Taken(l)[m] \cup {F(o, d)}
      /\ posted'[m] = posted[m] \cup {F(o, d)}
      /\ \A g, h : <<g, h>> \in behind'[m] =>
           <<g, h>> \in behind[m] \/ (g \in Taken(l)[m] /\ h = F(o, d))
  <2>1. Left(functors'[m], ran'[m], pendingFunctors_'[m]) = Append(B(m), F(o, d))
    <3> DEFINE n == IF m = l THEN ran[m] + 1 ELSE ran[m]
    <3>1. n \in Nat /\ ran'[m] = n
      BY <1>4
    <3>2. B(m) = Left(functors[m], n, pendingFunctors_[m])
      OBVIOUS
    <3> HIDE DEF n, B
    <3>3. Left(functors[m], n, Append(pendingFunctors_[m], F(o, d)))
            = Append(Left(functors[m], n, pendingFunctors_[m]), F(o, d))
      BY <1>1, <1>4, <3>1, LeftAppend
    <3> QED BY <1>4, <3>1, <3>2, <3>3
  <2>2. Elements(pendingFunctors_'[m]) = Elements(pendingFunctors_[m]) \cup {F(o, d)}
    BY <1>1, <1>4, AppendOrdered
  <2> HIDE DEF B
  <2>3. /\ due'[m] = Elements(Append(B(m), F(o, d)))
        /\ behind'[m] = Ordered(Append(B(m), F(o, d)))
        /\ posted'[m] = Elements(pendingFunctors_'[m]) \cup Elements(functors[m])
        /\ posted[m] = Elements(pendingFunctors_[m]) \cup Elements(functors[m])
    BY <1>4, <2>1, QueueParts
  <2>4. /\ Elements(Append(B(m), F(o, d))) = Elements(B(m)) \cup {F(o, d)}
        /\ \A g, h : <<g, h>> \in Ordered(Append(B(m), F(o, d))) =>
             <<g, h>> \in Ordered(B(m)) \/ (g \in Elements(B(m)) /\ h = F(o, d))
    BY <1>1, <1>3, AppendOrdered
  <2> QED BY <1>3, <2>2, <2>3, <2>4
<1>7. ASSUME NEW op, NEW c PROVE F(op, c) = F(o, d) <=> op = o /\ c = d
  BY FunctorIs
<1> HIDE DEF B
<1>8. ASSUME NEW k \in Loops, NEW op, NEW c
      PROVE  /\ F(op, c) \in due'[k] <=> F(op, c) \in Taken(l)[k] \/ (k = m /\ op = o /\ c = d)
             /\ F(op, c) \in posted'[k] <=> F(op, c) \in posted[k] \/ (k = m /\ op = o /\ c = d)
             /\ \A op2 : <<F(op2, c), F(op, c)>> \in behind'[k] =>
                  \/ <<F(op2, c), F(op, c)>> \in behind[k]
                  \/ k = m /\ op = o /\ c = d /\ F(op2, c) \in Taken(l)[k]
  BY <1>5, <1>6, <1>7
<1> QED BY <1>8 DEF Queued

\* The swap leaves everything due as it is.
LEMMA QueueSwapped ==
  ASSUME Types, Types', LoopInv, NEW l \in Loops, Swap(l)
  PROVE  due' = due /\ behind' = behind /\ posted' = posted
<1>1. /\ functors[l] = <<>> /\ ran[l] = 0
      /\ functors'[l] = pendingFunctors_[l] /\ ran'[l] = 0 /\ pendingFunctors_'[l] = <<>>
      /\ pendingFunctors_[l] \in Seq(Functors)
  BY DEF Swap, Polling, LoopInv, Types
<1>2. ASSUME NEW k \in Loops
      PROVE  due'[k] = due[k] /\ behind'[k] = behind[k] /\ posted'[k] = posted[k]
  <2>1. CASE k = l
    <3>1. Left(functors'[l], ran'[l], pendingFunctors_'[l]) = Agenda(l)
      BY <1>1, LeftEmpty, EmptySeq DEF Agenda
    <3>2. posted'[l] = posted[l]
      BY <1>1, QueueParts
    <3> QED BY <2>1, <3>1, <3>2, QueueParts
  <2>2. CASE k # l
    <3>1. functors'[k] = functors[k] /\ ran'[k] = ran[k] /\ pendingFunctors_'[k] = pendingFunctors_[k]
      BY <2>2 DEF Swap, Types
    <3> QED BY <3>1, QueueParts DEF Agenda
  <2> QED BY <2>1, <2>2
<1> QED BY <1>2 DEF due, behind, posted

\* When a batch is destroyed nothing new is due, and nothing is lost unless the loop
\* ends.
LEMMA QueueEnded ==
  ASSUME Types, Types', NEW l \in Loops, EndBatch(l)
  PROVE  /\ AfterBatch(l) # "ended" => due' = due
         /\ \A k \in Loops : /\ due'[k] \subseteq due[k]
                             /\ behind'[k] \subseteq behind[k]
                             /\ posted'[k] \subseteq posted[k]
                             /\ k # l => due'[k] = due[k]
<1>1. /\ functors'[l] = <<>> /\ ran'[l] = 0
      /\ pendingFunctors_'[l] = IF AfterBatch(l) = "ended" THEN <<>> ELSE pendingFunctors_[l]
      /\ functors[l] \in Seq(Functors) /\ pendingFunctors_[l] \in Seq(Functors)
      /\ ran[l] = Len(functors[l])
  BY DEF EndBatch, Types
<1>2. Agenda(l) = pendingFunctors_[l]
  BY <1>1, LeftEmpty DEF Agenda
<1>3. ASSUME NEW k \in Loops, k # l
      PROVE  due'[k] = due[k] /\ behind'[k] = behind[k] /\ posted'[k] = posted[k]
  <2>1. functors'[k] = functors[k] /\ ran'[k] = ran[k] /\ pendingFunctors_'[k] = pendingFunctors_[k]
    BY <1>3 DEF EndBatch, Types
  <2> QED BY <2>1, QueueParts DEF Agenda
<1>4. Left(functors'[l], ran'[l], pendingFunctors_'[l]) = pendingFunctors_'[l]
  BY <1>1, LeftEmpty, EmptySeq
<1>5. /\ due'[l] = Elements(pendingFunctors_'[l])
      /\ behind'[l] = Ordered(pendingFunctors_'[l])
      /\ posted'[l] = Elements(pendingFunctors_'[l]) \cup Elements(<<>>)
      /\ due[l] = Elements(pendingFunctors_[l])
      /\ behind[l] = Ordered(pendingFunctors_[l])
      /\ posted[l] = Elements(pendingFunctors_[l]) \cup Elements(functors[l])
  BY <1>1, <1>2, <1>4, QueueParts
<1>6. /\ due'[l] \subseteq due[l] /\ behind'[l] \subseteq behind[l] /\ posted'[l] \subseteq posted[l]
      /\ AfterBatch(l) # "ended" => due'[l] = due[l]
  BY <1>1, <1>5, NothingLeft
<1>7. AfterBatch(l) # "ended" => due' = due
  BY <1>3, <1>6 DEF due
<1> QED BY <1>3, <1>6, <1>7

\* What is due has been posted.
LEMMA DueIsPosted ==
  ASSUME Types, NEW l \in Loops
  PROVE  due[l] \subseteq posted[l]
<1> DEFINE s == SubSeq(functors[l], ran[l] + 1, Len(functors[l]))
<1>1. functors[l] \in Seq(Functors) /\ ran[l] \in Nat /\ pendingFunctors_[l] \in Seq(Functors)
  BY DEF Types
<1>2. /\ s \in Seq(Functors)
      /\ Len(s) = IF ran[l] < Len(functors[l]) THEN Len(functors[l]) - ran[l] ELSE 0
      /\ \A k \in 1..(Len(functors[l]) - ran[l]) : s[k] = functors[l][ran[l] + k]
      /\ Len(functors[l]) \in Nat /\ Len(pendingFunctors_[l]) \in Nat
  BY <1>1, RestIsSeq, LenProperties
<1> HIDE DEF s
<1>3. /\ Len(s \o pendingFunctors_[l]) = Len(s) + Len(pendingFunctors_[l])
      /\ \A k \in 1..(Len(s) + Len(pendingFunctors_[l])) :
           (s \o pendingFunctors_[l])[k] = IF k <= Len(s) THEN s[k] ELSE pendingFunctors_[l][k - Len(s)]
  BY <1>1, <1>2, ConcatProperties
<1>4. ASSUME NEW k \in 1..(Len(s) + Len(pendingFunctors_[l]))
      PROVE  (s \o pendingFunctors_[l])[k] \in Elements(pendingFunctors_[l]) \cup Elements(functors[l])
  <2>1. CASE k <= Len(s)
    <3>1. k \in 1..(Len(functors[l]) - ran[l]) /\ ran[l] + k \in 1..Len(functors[l])
      BY <1>1, <1>2, <2>1
    <3>2. (s \o pendingFunctors_[l])[k] = functors[l][ran[l] + k]
      BY <1>2, <1>3, <2>1, <3>1
    <3> QED BY <3>1, <3>2 DEF Elements
  <2>2. CASE k > Len(s)
    <3>1. k - Len(s) \in 1..Len(pendingFunctors_[l]) /\ ~(k <= Len(s))
      BY <1>2, <2>2
    <3>2. (s \o pendingFunctors_[l])[k] = pendingFunctors_[l][k - Len(s)]
      BY <1>3, <3>1
    <3> QED BY <3>1, <3>2 DEF Elements
  <2>3. k \in Nat /\ Len(s) \in Nat
    BY <1>1, <1>2
  <2>4. k <= Len(s) \/ k > Len(s)
    BY <2>3
  <2> QED BY <2>1, <2>2, <2>4
<1>5. Agenda(l) = s \o pendingFunctors_[l]
  BY DEF Agenda, Left, s
<1>6. due[l] = Elements(s \o pendingFunctors_[l])
  BY <1>5 DEF due
<1>7. posted[l] = Elements(pendingFunctors_[l]) \cup Elements(functors[l])
  BY DEF posted
<1> QED BY <1>3, <1>4, <1>6, <1>7 DEF Elements

\* What is behind another functor is due, and so is the other one.
LEMMA BehindIsDue ==
  ASSUME NEW l \in Loops, NEW f, NEW g, <<f, g>> \in behind[l]
  PROVE  f \in due[l] /\ g \in due[l]
<1>1. behind[l] = Ordered(Agenda(l)) /\ due[l] = Elements(Agenda(l))
  BY DEF behind, due
<1>2. PICK j, k \in 1..Len(Agenda(l)) : Agenda(l)[j] = f /\ Agenda(l)[k] = g
  BY <1>1 DEF Ordered
<1> QED BY <1>1, <1>2 DEF Elements

-----------------------------------------------------------------------------
(* Who is alive *)

\* A queue holds the connections of its owning functors.
LEMMA HoldsIs ==
  ASSUME NEW q \in Seq(Functors), NEW c \in Conns
  PROVE  Holds(q, c) <=> \E op \in Owning : F(op, c) \in Elements(q)
<1>1. DOMAIN q = 1..Len(q) /\ \A k \in 1..Len(q) : q[k] \in Functors
  BY LenProperties, ElementOfSeq
<1>2. ASSUME Holds(q, c) PROVE \E op \in Owning : F(op, c) \in Elements(q)
  <2>1. PICK k \in 1..Len(q) : q[k].op \in Owning /\ q[k].conn = c
    BY <1>1, <1>2 DEF Holds
  <2>2. q[k] = F(q[k].op, c)
    BY <1>1, <2>1, FunctorIs
  <2> QED BY <2>1, <2>2 DEF Elements
<1>3. ASSUME NEW op \in Owning, F(op, c) \in Elements(q) PROVE Holds(q, c)
  <2>1. PICK k \in 1..Len(q) : q[k] = F(op, c)
    BY <1>3 DEF Elements
  <2>2. q[k].op = op /\ q[k].conn = c
    BY <2>1, FunctorIs DEF Ops
  <2> QED BY <1>1, <2>2 DEF Holds
<1> QED BY <1>2, <1>3

LEMMA AliveIs ==
  ASSUME Types, NEW c \in Conns
  PROVE  c \in living <=> \/ \E id \in 0..(IdMod - 1) : connections_[id] = c
                          \/ user[c]
                          \/ \E l \in Loops, op \in Owning : F(op, c) \in posted[l]
<1>1. DOMAIN connections_ = 0..(IdMod - 1)
  BY DEF Types
<1>2. ASSUME NEW l \in Loops
      PROVE  (Holds(pendingFunctors_[l], c) \/ Holds(functors[l], c))
               <=> \E op \in Owning : F(op, c) \in posted[l]
  <2>1. pendingFunctors_[l] \in Seq(Functors) /\ functors[l] \in Seq(Functors)
    BY DEF Types
  <2>2. posted[l] = Elements(pendingFunctors_[l]) \cup Elements(functors[l])
    BY DEF posted
  <2> QED BY <2>1, <2>2, HoldsIs
<1> QED BY <1>1, <1>2 DEF living, Alive

\* The same after a step.
LEMMA AliveNextIs ==
  ASSUME Types', NEW c \in Conns
  PROVE  c \in living' <=> \/ \E id \in 0..(IdMod - 1) : connections_'[id] = c
                           \/ user'[c]
                           \/ \E l \in Loops, op \in Owning : F(op, c) \in posted'[l]
<1>1. DOMAIN connections_' = 0..(IdMod - 1)
  BY DEF Types
<1>2. ASSUME NEW l \in Loops
      PROVE  (Holds(pendingFunctors_'[l], c) \/ Holds(functors'[l], c))
               <=> \E op \in Owning : F(op, c) \in posted'[l]
  <2>1. pendingFunctors_'[l] \in Seq(Functors) /\ functors'[l] \in Seq(Functors)
    BY DEF Types
  <2>2. posted'[l] = Elements(pendingFunctors_'[l]) \cup Elements(functors'[l])
    BY DEF posted
  <2> QED BY <2>1, <2>2, HoldsIs
<1>3. c \in living' <=> \/ \E id \in DOMAIN connections_' : connections_'[id] = c
                        \/ user'[c]
                        \/ \E l \in Loops : Holds(pendingFunctors_'[l], c) \/ Holds(functors'[l], c)
  BY DEF living, Alive, Holds
<1> QED BY <1>1, <1>2, <1>3

-----------------------------------------------------------------------------
(* Types *)

LEMMA FunctorQueued ==
  ASSUME Types, NEW l \in Loops, NEW op \in Ops, NEW c \in Conns, queueInLoop(l, F(op, c))
  PROVE  pendingFunctors_' \in [Loops -> Seq(Functors)]
<1>1. F(op, c) \in Functors
  BY FunctorIs
<1>2. Append(pendingFunctors_[l], F(op, c)) \in Seq(Functors)
  BY <1>1, AppendProperties DEF Types
<1> QED BY <1>2 DEF queueInLoop, Types

LEMMA NextIdType ==
  ASSUME Types
  PROVE  NextId \in 0..(IdMod - 1)
BY ServerAssumption DEF NextId, Types

\* connectEstablished and MaySend keep the types of what they change.
LEMMA SendTypes ==
  ASSUME Types, NEW c \in Conns, NEW l \in Loops, MaySend(c, l)
  PROVE  sends' \in 0..MaxSends /\ pendingFunctors_' \in [Loops -> Seq(Functors)]
<1>1. CASE UNCHANGED <<sends, pendingFunctors_>>
  BY <1>1 DEF Types
<1>2. CASE /\ sends < MaxSends
           /\ sends' = sends + 1
           /\ queueInLoop(l, F("writeComplete", c))
  <2>1. sends' \in 0..MaxSends
    BY <1>2, ServerAssumption DEF Types
  <2> QED BY <1>2, <2>1, FunctorQueued DEF Ops, Owning, Raw
<1> QED BY <1>1, <1>2 DEF MaySend

LEMMA EstablishedTypes ==
  ASSUME Types, NEW c \in Conns, NEW l \in Loops, connectEstablished(c, l)
  PROVE  /\ state_' \in [Conns -> {"unborn", "Connecting", "Connected", "Disconnected"}]
         /\ registered' \in [Conns -> BOOLEAN]
         /\ user' \in [Conns -> BOOLEAN]
         /\ sends' \in 0..MaxSends
         /\ pendingFunctors_' \in [Loops -> Seq(Functors)]
<1>1. MaySend(c, l)
  BY DEF connectEstablished
<1> QED BY <1>1, SendTypes DEF connectEstablished, Types

\* connectDestroyed keeps the types of what it changes.
LEMMA DestroyedTypes ==
  ASSUME Types, NEW c \in Conns, connectDestroyed(c)
  PROVE  /\ state_' \in [Conns -> {"unborn", "Connecting", "Connected", "Disconnected"}]
         /\ registered' \in [Conns -> BOOLEAN]
         /\ destroyed' \in [Conns -> 0..2]
BY DEF connectDestroyed, Types

\* A removal keeps the types of the map and of the queues.
LEMMA RemovalTypes ==
  ASSUME Types, NEW c \in Conns, removeConnectionInLoop(c)
  PROVE  /\ connections_' \in [0..(IdMod - 1) -> Conns \cup {NoConn}]
         /\ pendingFunctors_' \in [Loops -> Seq(Functors)]
<1>1. CASE connections_[name_[c]] # NoConn
  <2>1. queueInLoop(loop_[c], F("destroyed", c)) /\ loop_[c] \in Loops
    BY <1>1 DEF removeConnectionInLoop, Types
  <2>2. pendingFunctors_' \in [Loops -> Seq(Functors)]
    BY <2>1, FunctorQueued DEF Ops, Owning, Raw
  <2> QED BY <1>1, <2>2 DEF removeConnectionInLoop, Types
<1>2. CASE connections_[name_[c]] = NoConn
  BY <1>2 DEF removeConnectionInLoop, Types
<1> QED BY <1>1, <1>2

\* The connection of a functor that runs.
LEMMA RunningTypes ==
  ASSUME Types, NEW l \in Loops, NEW op, Running(l, op)
  PROVE  /\ Current(l).conn \in Conns
         /\ ran' \in [Loops -> Nat]
         /\ \A k \in Loops : ran'[k] <= Len(functors[k])
<1>1. ran[l] < Len(functors[l]) /\ ran' = [ran EXCEPT ![l] = @ + 1]
  BY DEF Running
<1>2. Current(l).conn \in Conns
  BY <1>1, RunsFirst, FunctorIs
<1>3. ASSUME NEW k \in Loops PROVE ran'[k] <= Len(functors[k])
  BY <1>1, LenProperties DEF Types
<1> QED BY <1>1, <1>2, <1>3 DEF Types

LEMMA TypesNext ==
  ASSUME Types, LoopInv, [Next]_vars
  PROVE  Types'
<1> USE DEF serverVars, connVars, userVars, loopVars
<1>1. CASE UNCHANGED vars
  BY <1>1 DEF vars, Types
<1>2. ASSUME NEW loops \in SUBSET IoLoops, Start(loops) PROVE Types'
  BY <1>2 DEF Start, Types
<1>3. ASSUME NEW c \in Conns, NEW l \in Loops, newConnection(c, l) PROVE Types'
  <2>1. /\ state_' \in [Conns -> {"unborn", "Connecting", "Connected", "Disconnected"}]
        /\ registered' \in [Conns -> BOOLEAN]
        /\ user' \in [Conns -> BOOLEAN]
        /\ sends' \in 0..MaxSends
        /\ pendingFunctors_' \in [Loops -> Seq(Functors)]
    <3>1. CASE l = Base
      BY <1>3, <3>1, EstablishedTypes DEF newConnection, HandOver
    <3>2. CASE l # Base
      <4>1. /\ state_' = [state_ EXCEPT ![c] = "Connecting"]
            /\ queueInLoop(l, F("established", c))
            /\ UNCHANGED <<registered, user, sends>>
        BY <1>3, <3>2 DEF newConnection, HandOver
      <4>2. pendingFunctors_' \in [Loops -> Seq(Functors)]
        BY <4>1, FunctorQueued DEF Ops, Owning, Raw
      <4> QED BY <4>1, <4>2 DEF Types
    <3> QED BY <3>1, <3>2
  <2>2. /\ connections_' \in [0..(IdMod - 1) -> Conns \cup {NoConn}]
        /\ collided' \in BOOLEAN
    BY <1>3 DEF newConnection, Emplace, Types
  <2>3. nextConnId_' \in 0..(IdMod - 1)
    BY <1>3, NextIdType DEF newConnection
  <2>4. /\ loop_' \in [Conns -> Loops]
        /\ name_' \in [Conns -> 0..(IdMod - 1)]
    BY <1>3 DEF newConnection, Types
  <2> QED BY <1>3, <2>1, <2>2, <2>3, <2>4 DEF newConnection, Types
<1>4. CASE NoLocalAddress
  BY <1>4, NextIdType DEF NoLocalAddress, Types
<1>5. CASE handleAcceptError
  BY <1>5 DEF handleAcceptError, Types
<1>6. CASE Destruct
  BY <1>6 DEF Destruct, Types
<1>7. ASSUME NEW id \in DOMAIN connections_, DestructEntry(id) PROVE Types'
  <2>1. connections_[id] \in Conns /\ id \in 0..(IdMod - 1)
    BY <1>7 DEF DestructEntry, Types
  <2>2. /\ state_' \in [Conns -> {"unborn", "Connecting", "Connected", "Disconnected"}]
        /\ registered' \in [Conns -> BOOLEAN]
        /\ destroyed' \in [Conns -> 0..2]
        /\ pendingFunctors_' \in [Loops -> Seq(Functors)]
    <3>1. CASE loop_[connections_[id]] = Base
      <4>1. connectDestroyed(connections_[id]) /\ UNCHANGED pendingFunctors_
        BY <1>7, <3>1 DEF DestructEntry
      <4> QED BY <2>1, <4>1, DestroyedTypes DEF Types
    <3>2. CASE loop_[connections_[id]] # Base
      <4>1. /\ queueInLoop(loop_[connections_[id]], F("destroyed", connections_[id]))
            /\ UNCHANGED <<state_, registered, destroyed>>
            /\ loop_[connections_[id]] \in Loops
        BY <1>7, <2>1, <3>2 DEF DestructEntry, Types
      <4>2. pendingFunctors_' \in [Loops -> Seq(Functors)]
        BY <2>1, <4>1, FunctorQueued DEF Ops, Owning, Raw
      <4> QED BY <4>1, <4>2 DEF Types
    <3> QED BY <3>1, <3>2
  <2>3. connections_' \in [0..(IdMod - 1) -> Conns \cup {NoConn}]
    BY <1>7 DEF DestructEntry, Types
  <2> QED BY <1>7, <2>2, <2>3 DEF DestructEntry, Types
<1>8. ASSUME NEW l \in pool, QuitLoop(l) PROVE Types'
  BY <1>8 DEF QuitLoop, Types
<1>9. CASE DestructDone
  BY <1>9 DEF DestructDone, Types
<1>10. ASSUME NEW c \in Conns, handleClose(c) PROVE Types'
  <2>1. /\ connections_' \in [0..(IdMod - 1) -> Conns \cup {NoConn}]
        /\ pendingFunctors_' \in [Loops -> Seq(Functors)]
    <3>1. CASE loop_[c] = Base
      BY <1>10, <3>1, RemovalTypes DEF handleClose, removeConnection
    <3>2. CASE loop_[c] # Base
      <4>1. queueInLoop(Base, F("remove", c)) /\ UNCHANGED connections_
        BY <1>10, <3>2 DEF handleClose, removeConnection
      <4>2. pendingFunctors_' \in [Loops -> Seq(Functors)]
        BY <4>1, FunctorQueued DEF Ops, Owning, Raw, Loops
      <4> QED BY <4>1, <4>2 DEF Types
    <3> QED BY <3>1, <3>2
  <2> QED BY <1>10, <2>1 DEF handleClose, ClosedState, Types
<1>11. ASSUME NEW c \in Conns, WriteCompletes(c) PROVE Types'
  <2>1. pendingFunctors_' \in [Loops -> Seq(Functors)]
    <3>1. queueInLoop(loop_[c], F("writeComplete", c)) /\ loop_[c] \in Loops
      BY <1>11 DEF WriteCompletes, Types
    <3> QED BY <3>1, FunctorQueued DEF Ops, Owning, Raw
  <2>2. sends' \in 0..MaxSends
    BY <1>11, ServerAssumption DEF WriteCompletes, Types
  <2> QED BY <1>11, <2>1, <2>2 DEF WriteCompletes, Types
<1>12. ASSUME NEW l \in Loops, Swap(l) PROVE Types'
  <2>1. /\ pendingFunctors_' \in [Loops -> Seq(Functors)]
        /\ functors' \in [Loops -> Seq(Functors)]
    BY <1>12, EmptySeq DEF Swap, Types
  <2>2. \A k \in Loops : ran'[k] <= Len(functors'[k])
    <3> SUFFICES ASSUME NEW k \in Loops PROVE ran[k] <= Len(functors'[k])
      BY <1>12 DEF Swap
    <3>1. CASE k = l
      <4>1. functors'[k] \in Seq(Functors)
        BY <2>1
      <4>2. ran[k] = 0
        BY <1>12, <3>1 DEF Swap, Polling, LoopInv
      <4> QED BY <4>1, <4>2, LenProperties
    <3>2. CASE k # l
      BY <1>12, <3>2 DEF Swap, Types
    <3> QED BY <3>1, <3>2
  <2> QED BY <1>12, <2>1, <2>2 DEF Swap, Types
<1>13. ASSUME NEW l \in Loops, RunEstablished(l) PROVE Types'
  <2>1. Running(l, "established") /\ connectEstablished(Current(l).conn, l)
    BY <1>13 DEF RunEstablished
  <2>2. /\ Current(l).conn \in Conns
        /\ ran' \in [Loops -> Nat]
        /\ \A k \in Loops : ran'[k] <= Len(functors[k])
    BY <2>1, RunningTypes
  <2> QED BY <1>13, <2>1, <2>2, EstablishedTypes DEF RunEstablished, Types
<1>14. ASSUME NEW l \in Loops, RunDestroyed(l) PROVE Types'
  <2>1. Running(l, "destroyed") /\ connectDestroyed(Current(l).conn)
    BY <1>14 DEF RunDestroyed
  <2>2. /\ Current(l).conn \in Conns
        /\ ran' \in [Loops -> Nat]
        /\ \A k \in Loops : ran'[k] <= Len(functors[k])
    BY <2>1, RunningTypes
  <2> QED BY <1>14, <2>1, <2>2, DestroyedTypes DEF RunDestroyed, Types
<1>15. ASSUME NEW l \in Loops, RunRemove(l) PROVE Types'
  <2>1. Running(l, "remove") /\ removeConnectionInLoop(Current(l).conn)
    BY <1>15 DEF RunRemove
  <2>2. /\ Current(l).conn \in Conns
        /\ ran' \in [Loops -> Nat]
        /\ \A k \in Loops : ran'[k] <= Len(functors[k])
    BY <2>1, RunningTypes
  <2> QED BY <1>15, <2>1, <2>2, RemovalTypes DEF RunRemove, Types
<1>16. ASSUME NEW l \in Loops, RunSend(l) PROVE Types'
  <2>1. Running(l, "send")
    BY <1>16 DEF RunSend
  <2>2. /\ Current(l).conn \in Conns
        /\ ran' \in [Loops -> Nat]
        /\ \A k \in Loops : ran'[k] <= Len(functors[k])
    BY <2>1, RunningTypes
  <2>3. \/ queueInLoop(l, F("writeComplete", Current(l).conn))
        \/ UNCHANGED pendingFunctors_
    BY <1>16 DEF RunSend
  <2>4. pendingFunctors_' \in [Loops -> Seq(Functors)]
    BY <2>2, <2>3, FunctorQueued DEF Ops, Owning, Raw, Types
  <2>5. registered' \in [Conns -> BOOLEAN] /\ late' \in [Conns -> BOOLEAN]
    BY <1>16, <2>2 DEF RunSend, Types
  <2> QED BY <1>16, <2>2, <2>4, <2>5 DEF RunSend, Types
<1>17. ASSUME NEW l \in Loops, RunWriteComplete(l) PROVE Types'
  <2>1. Running(l, "writeComplete")
    BY <1>17 DEF RunWriteComplete
  <2>2. /\ Current(l).conn \in Conns
        /\ ran' \in [Loops -> Nat]
        /\ \A k \in Loops : ran'[k] <= Len(functors[k])
    BY <2>1, RunningTypes
  <2>3. MaySend(Current(l).conn, l)
    BY <1>17 DEF RunWriteComplete, MaySend
  <2>4. sends' \in 0..MaxSends /\ pendingFunctors_' \in [Loops -> Seq(Functors)]
    BY <2>2, <2>3, SendTypes
  <2> QED BY <1>17, <2>2, <2>4 DEF RunWriteComplete, Types
<1>18. ASSUME NEW l \in Loops, EndBatch(l) PROVE Types'
  <2>1. <<>> \in Seq(Functors) /\ Len(<<>>) = 0
    BY EmptySeq
  <2>2. pendingFunctors_' \in [Loops -> Seq(Functors)] /\ functors' \in [Loops -> Seq(Functors)]
    BY <1>18, <2>1 DEF EndBatch, Types
  <2>3. ran' \in [Loops -> Nat] /\ \A k \in Loops : ran'[k] <= Len(functors'[k])
    BY <1>18, <2>1 DEF EndBatch, Types
  <2>4. phase' \in [Loops -> {"entering", "poll", "functors", "ended"}]
    BY <1>18 DEF EndBatch, AfterBatch, Types
  <2> QED BY <1>18, <2>2, <2>3, <2>4 DEF EndBatch, Types
<1>19. ASSUME NEW c \in Conns, CallSend(c) PROVE Types'
  BY <1>19, ServerAssumption DEF CallSend, Types
<1>20. ASSUME NEW c \in Conns, QueueSend(c) PROVE Types'
  <2>1. queueInLoop(loop_[c], F("send", c)) /\ loop_[c] \in Loops
    BY <1>20 DEF QueueSend, Types
  <2>2. pendingFunctors_' \in [Loops -> Seq(Functors)]
    BY <2>1, FunctorQueued DEF Ops, Owning, Raw
  <2> QED BY <1>20, <2>2 DEF QueueSend, Types
<1>21. ASSUME NEW c \in Conns, Release(c) PROVE Types'
  BY <1>21 DEF Release, Types
<1>22. ASSUME NEW l \in Loops, EnterLoop(l) PROVE Types'
  BY <1>22 DEF EnterLoop, Types
<1> QED
  BY <1>1, <1>2, <1>3, <1>4, <1>5, <1>6, <1>7, <1>8, <1>9, <1>10, <1>11, <1>12, <1>13, <1>14, <1>15, <1>16,
     <1>17, <1>18, <1>19, <1>20, <1>21, <1>22 DEF Next, DestructorStep, LoopStep, UserStep

-----------------------------------------------------------------------------
(* The invariant and the steps *)

LEMMA InitInv == Init => IInv
<1> SUFFICES ASSUME Init PROVE IInv
  OBVIOUS
<1>1. Types
  <2>1. pendingFunctors_ \in [Loops -> Seq(Functors)] /\ functors \in [Loops -> Seq(Functors)]
    BY EmptySeq DEF Init
  <2>2. \A l \in Loops : ran[l] <= Len(functors[l])
    BY EmptySeq DEF Init
  <2>3. nextConnId_ \in 0..(IdMod - 1) /\ 0 \in 0..(IdMod - 1) /\ sends \in 0..MaxSends
    BY ServerAssumption DEF Init
  <2>4. /\ name_ \in [Conns -> 0..(IdMod - 1)] /\ destroyed \in [Conns -> 0..2]
        /\ connections_ \in [0..(IdMod - 1) -> Conns \cup {NoConn}]
    BY <2>3 DEF Init
  <2>5. loop_ \in [Conns -> Loops]
    BY DEF Init, Loops
  <2> QED BY <2>1, <2>2, <2>3, <2>4, <2>5 DEF Init, Types
<1>2. ASSUME NEW l \in Loops PROVE due[l] = {} /\ behind[l] = {} /\ posted[l] = {}
  <2>1. pendingFunctors_[l] = <<>> /\ functors[l] = <<>> /\ ran[l] = 0
    BY DEF Init
  <2>2. Agenda(l) = <<>>
    BY <2>1, LeftEmpty, EmptySeq DEF Agenda
  <2> QED BY <2>1, <2>2, NothingLeft DEF due, behind, posted
<1>3. \A c \in Conns : state_[c] = "unborn" /\ ~registered[c] /\ ~user[c] /\ ~calling[c] /\ destroyed[c] = 0
  BY DEF Init
<1>4. LoopInv
  BY DEF Init, LoopInv
<1>5. living = {}
  BY <1>1, <1>2, <1>3, AliveIs, ServerAssumption DEF Init, living
<1>6. MapInv
  BY <1>5 DEF Init, MapInv
<1>7. ASSUME NEW c \in Conns PROVE ConnInv(c)
  BY <1>2, <1>3 DEF ConnInv, Birth, Tasks, Life, Registration, RawFirst, Made
<1> QED BY <1>1, <1>4, <1>6, <1>7 DEF IInv, SafeInv

\* What every step does to the server and its loops.
Ambient ==
  /\ server' = "new" => server = "new"
  /\ server' = "up" => server \in {"new", "up"}
  /\ pool' = pool \/ server = "new"
  /\ \A l \in Loops : phase[l] = "ended" => phase'[l] = "ended"
  /\ ~collided' => ~collided

\* A step that is not about connection d: it may drop a reference to d or functors
\* of d, and it may begin a call of send().
Untouched(d) ==
  /\ state_'[d] = state_[d] /\ loop_'[d] = loop_[d] /\ name_'[d] = name_[d]
  /\ registered'[d] = registered[d] /\ destroyed'[d] = destroyed[d]
  /\ foreign'[d] = foreign[d] /\ late'[d] = late[d]
  /\ user'[d] => user[d]
  /\ calling'[d] => calling[d] \/ state_[d] = "Connected"
  /\ ~collided' => (connections_'[name_[d]] = d <=> connections_[name_[d]] = d)
  /\ \A k \in Loops : F("destroyed", d) \in due[k] => F("destroyed", d) \in due'[k] \/ phase'[k] = "ended"
  /\ \A k \in Loops : \A op :
       /\ F(op, d) \in due'[k] => F(op, d) \in due[k]
       /\ F(op, d) \in posted'[k] => F(op, d) \in posted[k]
       /\ \A op2 : <<F(op2, d), F(op, d)>> \in behind'[k] => <<F(op2, d), F(op, d)>> \in behind[k]

\* Such a step keeps what is known of d.
LEMMA UntouchedInv ==
  ASSUME IInv, Ambient, NEW d \in Conns, Untouched(d)
  PROVE  ConnInv(d)'
<1>1. Types /\ ConnInv(d) /\ loop_[d] \in Loops
  BY DEF IInv, SafeInv, Types
<1>2. Birth(d)'
  BY <1>1 DEF ConnInv, Birth, Made, Ambient, Untouched
<1>3. Tasks(d)'
  BY <1>1 DEF ConnInv, Tasks, Untouched
<1>4. Life(d)'
  <2> SUFFICES ASSUME ~collided'
               PROVE  /\ Made(d)' => Stages(d)'
                      /\ \A l \in Loops : <<F("destroyed", d), F("destroyed", d)>> \notin behind'[l]
    BY DEF Life
  <2>1. \A l \in Loops : <<F("destroyed", d), F("destroyed", d)>> \notin behind'[l]
    BY <1>1 DEF ConnInv, Life, Ambient, Untouched
  <2>2. ASSUME Made(d)' PROVE Stages(d)'
    <3>1. Made(d) /\ Stages(d) /\ server # "new"
      BY <1>1, <2>2 DEF ConnInv, Birth, Life, Ambient, Untouched, Made
    <3>2. /\ Entered(d)' <=> Entered(d)
          /\ Leaving(d)' => Leaving(d)
          /\ Leaving(d) => Leaving(d)' \/ phase'[loop_[d]] = "ended"
          /\ phase[loop_[d]] = "ended" => phase'[loop_[d]] = "ended"
      BY <1>1 DEF Entered, Leaving, Untouched, Ambient
    <3>3. /\ state_'[d] = state_[d] /\ loop_'[d] = loop_[d] /\ destroyed'[d] = destroyed[d]
          /\ server' = "up" => server = "up"
      BY <3>1 DEF Untouched, Ambient
    <3> QED BY <3>1, <3>2, <3>3 DEF Stages
  <2> QED BY <2>1, <2>2
<1>5. Registration(d)'
  BY <1>1 DEF ConnInv, Registration, Untouched
<1>6. RawFirst(d)'
  <2> SUFFICES ASSUME ~collided', server' = "up", ~foreign[d], NEW l \in Loops
               PROVE  /\ <<F("destroyed", d), F("writeComplete", d)>> \notin behind'[l]
                      /\ destroyed[d] > 0 => F("writeComplete", d) \notin due'[l]
    BY DEF RawFirst, Untouched
  <2>1. CASE server = "up"
    BY <1>1, <2>1 DEF ConnInv, RawFirst, Ambient, Untouched
  <2>2. CASE server = "new"
    <3>1. ~Made(d) /\ destroyed[d] = 0
      BY <1>1, <2>2 DEF ConnInv, Birth, Made
    <3>2. F("destroyed", d) \notin due[l]
      BY <1>1, <3>1, DueIsPosted DEF ConnInv, Birth, Ops, Owning, Raw
    <3>3. <<F("destroyed", d), F("writeComplete", d)>> \notin behind[l]
      BY <3>2, BehindIsDue
    <3> QED BY <3>1, <3>3 DEF Untouched
  <2> QED BY <2>1, <2>2 DEF Ambient
<1> QED BY <1>2, <1>3, <1>4, <1>5, <1>6 DEF ConnInv

\* A step that makes no connection and brings none back keeps the names apart.
LEMMA NamesKept ==
  ASSUME IInv, Types', Ambient, name_' = name_,
         \A c \in Conns : state_[c] # "unborn" => state_'[c] # "unborn",
         \A id \in 0..(IdMod - 1) : connections_'[id] # NoConn => connections_'[id] = connections_[id],
         \A c \in Conns : user'[c] => c \in living,
         \A c \in Conns : \A l \in Loops, op \in Owning : F(op, c) \in posted'[l] => c \in living
  PROVE  MapInv'
<1>1. Types /\ MapInv
  BY DEF IInv, SafeInv
<1>2. living' \subseteq living
  <2>1. ASSUME NEW c \in Conns, c \in living' PROVE c \in living
    <3>1. ASSUME NEW id \in 0..(IdMod - 1), connections_'[id] = c PROVE c \in living
      <4>1. connections_[id] = c
        BY <3>1, ServerAssumption
      <4> QED BY <1>1, <4>1, AliveIs
    <3> QED BY <2>1, <3>1, AliveNextIs
  <2> QED BY <2>1 DEF living
<1>3. \A id \in 0..(IdMod - 1) :
        connections_'[id] # NoConn => state_'[connections_'[id]] # "unborn" /\ name_'[connections_'[id]] = id
  BY <1>1 DEF MapInv, Made, Types
<1> QED BY <1>1, <1>2, <1>3 DEF MapInv, Made, Ambient

\* Steps that leave the map, the functors and all but the callers of a connection alone.
LEMMA StillInv ==
  ASSUME IInv, Types', LoopInv', Ambient,
         UNCHANGED <<connections_, collided, connVars, foreign, late>>,
         due' = due, behind' = behind, posted' = posted,
         \A c \in Conns : user'[c] => user[c],
         \A c \in Conns : calling'[c] => calling[c] \/ state_[c] = "Connected"
  PROVE  SafeInv'
<1> USE DEF connVars
<1>1. ASSUME NEW d \in Conns PROVE ConnInv(d)'
  <2>1. Untouched(d)
    BY DEF Untouched
  <2> QED BY <2>1, UntouchedInv
<1>2. MapInv'
  <2>1. Types
    BY DEF IInv
  <2>2. ASSUME NEW c \in Conns, user'[c] PROVE c \in living
    BY <2>1, <2>2, AliveIs
  <2>3. ASSUME NEW c \in Conns, NEW l \in Loops, NEW op \in Owning, F(op, c) \in posted'[l]
        PROVE  c \in living
    BY <2>1, <2>3, AliveIs
  <2> QED BY <2>2, <2>3, NamesKept
<1> QED BY <1>1, <1>2 DEF SafeInv

\* The steps that StillInv is about.
LEMMA StillSteps ==
  ASSUME IInv, Types',
         \/ \E loops \in SUBSET IoLoops : Start(loops)
         \/ NoLocalAddress \/ handleAcceptError \/ Destruct \/ DestructDone
         \/ \E l \in pool : QuitLoop(l)
         \/ \E l \in Loops : EnterLoop(l) \/ Swap(l)
         \/ \E c \in Conns : CallSend(c) \/ Release(c)
  PROVE  SafeInv'
<1> USE DEF serverVars, connVars, userVars, loopVars
<1>1. Types /\ LoopInv
  BY DEF IInv, SafeInv
<1>2. ASSUME NEW loops \in SUBSET IoLoops, Start(loops) PROVE SafeInv'
  <2>1. due' = due /\ behind' = behind /\ posted' = posted
    BY <1>2, QueuesKept DEF Start
  <2>2. LoopInv'
    BY <1>1, <1>2 DEF LoopInv, Start
  <2>3. Ambient
    BY <1>2 DEF Ambient, Start
  <2> QED BY <1>2, <2>1, <2>2, <2>3, StillInv DEF Start
<1>3. CASE NoLocalAddress
  <2>1. due' = due /\ behind' = behind /\ posted' = posted
    BY <1>3, QueuesKept DEF NoLocalAddress
  <2>2. LoopInv' /\ Ambient
    BY <1>1, <1>3 DEF LoopInv, Ambient, NoLocalAddress
  <2> QED BY <1>3, <2>1, <2>2, StillInv DEF NoLocalAddress
<1>4. CASE handleAcceptError
  <2>1. due' = due /\ behind' = behind /\ posted' = posted
    BY <1>4, QueuesKept DEF handleAcceptError
  <2>2. LoopInv' /\ Ambient
    BY <1>1, <1>4 DEF LoopInv, Ambient, handleAcceptError
  <2> QED BY <1>4, <2>1, <2>2, StillInv DEF handleAcceptError
<1>5. CASE Destruct
  <2>1. due' = due /\ behind' = behind /\ posted' = posted
    BY <1>5, QueuesKept DEF Destruct
  <2>2. LoopInv' /\ Ambient
    BY <1>1, <1>5 DEF LoopInv, Ambient, Destruct
  <2> QED BY <1>5, <2>1, <2>2, StillInv DEF Destruct
<1>6. CASE DestructDone
  <2>1. due' = due /\ behind' = behind /\ posted' = posted
    BY <1>6, QueuesKept DEF DestructDone
  <2>2. LoopInv' /\ Ambient
    BY <1>1, <1>6 DEF LoopInv, Ambient, DestructDone, EntriesDone, Types
  <2> QED BY <1>6, <2>1, <2>2, StillInv DEF DestructDone
<1>7. ASSUME NEW l \in pool, QuitLoop(l) PROVE SafeInv'
  <2>1. due' = due /\ behind' = behind /\ posted' = posted
    BY <1>7, QueuesKept DEF QuitLoop
  <2>2. LoopInv' /\ Ambient
    BY <1>1, <1>7 DEF LoopInv, Ambient, QuitLoop, EntriesDone, Types
  <2> QED BY <1>7, <2>1, <2>2, StillInv DEF QuitLoop
<1>8. ASSUME NEW l \in Loops, Swap(l) PROVE SafeInv'
  <2>1. due' = due /\ behind' = behind /\ posted' = posted
    BY <1>1, <1>8, QueueSwapped
  <2>2. LoopInv' /\ Ambient
    BY <1>1, <1>8 DEF LoopInv, Ambient, Swap, Polling, Types
  <2> QED BY <1>8, <2>1, <2>2, StillInv DEF Swap
<1>9. ASSUME NEW c \in Conns, CallSend(c) PROVE SafeInv'
  <2>1. due' = due /\ behind' = behind /\ posted' = posted
    BY <1>9, QueuesKept DEF CallSend
  <2>2. LoopInv' /\ Ambient
    BY <1>1, <1>9 DEF LoopInv, Ambient, CallSend
  <2>3. \A d \in Conns : calling'[d] => calling[d] \/ state_[d] = "Connected"
    BY <1>1, <1>9 DEF CallSend, Types
  <2> QED BY <1>9, <2>1, <2>2, <2>3, StillInv DEF CallSend
<1>10. ASSUME NEW c \in Conns, Release(c) PROVE SafeInv'
  <2>1. due' = due /\ behind' = behind /\ posted' = posted
    BY <1>10, QueuesKept DEF Release
  <2>2. LoopInv' /\ Ambient
    BY <1>1, <1>10 DEF LoopInv, Ambient, Release
  <2>3. \A d \in Conns : user'[d] => user[d]
    BY <1>1, <1>10 DEF Release, Types
  <2> QED BY <1>10, <2>1, <2>2, <2>3, StillInv DEF Release
<1>11. ASSUME NEW l \in Loops, EnterLoop(l) PROVE SafeInv'
  <2>1. due' = due /\ behind' = behind /\ posted' = posted
    BY <1>11, QueuesKept DEF EnterLoop
  <2>2. LoopInv' /\ Ambient
    BY <1>1, <1>11 DEF LoopInv, Ambient, EnterLoop, Types
  <2> QED BY <1>11, <2>1, <2>2, StillInv DEF EnterLoop
<1> QED BY <1>2, <1>3, <1>4, <1>5, <1>6, <1>7, <1>8, <1>9, <1>10, <1>11

\* Before a collision, the entry under the name of a living connection is its own.
LEMMA EntryIsOwn ==
  ASSUME IInv, ~collided, NEW c \in living, connections_[name_[c]] # NoConn
  PROVE  connections_[name_[c]] = c
<1>1. c \in Conns /\ Types /\ MapInv
  BY DEF IInv, SafeInv, living
<1>2. connections_[name_[c]] \in Conns /\ name_[c] \in 0..(IdMod - 1)
  BY <1>1 DEF Types
<1>3. connections_[name_[c]] \in living
  BY <1>1, <1>2, AliveIs
<1> QED BY <1>1, <1>2, <1>3 DEF MapInv

\* handleClose: the connection is closed, and its removal is queued for the base loop, or
\* done when this is the base loop, or was done before.
LEMMA CloseInv ==
  ASSUME IInv, Types', NEW c \in Conns, handleClose(c)
  PROVE  SafeInv'
<1> USE DEF serverVars, connVars, userVars, loopVars
<1>1. Types /\ LoopInv /\ ConnInv(c)
  BY DEF IInv, SafeInv
<1>2. /\ registered[c] /\ c \in living /\ loop_[c] \in Loops /\ name_[c] \in 0..(IdMod - 1) /\ server # "gone"
      /\ state_' = [state_ EXCEPT ![c] = "Disconnected"]
      /\ registered' = [registered EXCEPT ![c] = FALSE]
      /\ UNCHANGED <<server, pool, collided, loop_, name_, destroyed, user, calling, foreign, late,
                     phase, quit_, functors, ran>>
  BY <1>1 DEF handleClose, ClosedState, living, Types
<1>3. Made(c) /\ state_[c] # "Connecting" /\ server # "new"
  BY <1>1, <1>2 DEF ConnInv, Birth, Made
<1>4. Ambient
  BY <1>2 DEF Ambient
<1>5. /\ state_'[c] = "Disconnected" /\ ~registered'[c]
      /\ \A d \in Conns : d # c => state_'[d] = state_[d] /\ registered'[d] = registered[d]
      /\ \A d \in Conns : state_[d] # "unborn" => state_'[d] # "unborn"
  BY <1>1, <1>2 DEF Types
<1>6. \A d \in Conns : user'[d] => d \in living
  BY <1>1, <1>2, AliveIs
<1>7. Registration(c)'
  BY <1>5 DEF Registration
<1>8. CASE loop_[c] # Base
  <2>1. Queued(due, Base, "remove", c) /\ connections_' = connections_
    <3>1. queueInLoop(Base, F("remove", c)) /\ connections_' = connections_
      BY <1>8 DEF handleClose, removeConnection
    <3> QED BY <1>1, <1>2, <3>1, QueuePushed DEF Loops, Ops, Owning
  <2>2. ASSUME NEW d \in Conns, d # c PROVE ConnInv(d)'
    <3>1. Untouched(d)
      BY <1>2, <1>5, <2>1, <2>2 DEF Untouched, Queued
    <3> QED BY <1>4, <3>1, UntouchedInv
  <2>3. Birth(c)'
    BY <1>1, <1>2, <1>3, <1>5 DEF ConnInv, Birth, Made
  <2>4. Tasks(c)'
    BY <1>1, <1>2, <1>3, <1>5, <1>8, <2>1 DEF ConnInv, Tasks, Queued
  <2>5. Life(c)'
    <3>1. ASSUME ~collided PROVE Stages(c)'
      <4>1. Stages(c)
        BY <1>1, <1>3, <3>1 DEF ConnInv, Life
      <4>2. (Leaving(c)' <=> Leaving(c)) /\ (Entered(c)' <=> Entered(c))
        BY <1>2, <2>1 DEF Leaving, Entered, Queued
      <4> QED BY <1>2, <1>5, <4>1, <4>2 DEF Stages
    <3> QED BY <1>1, <1>2, <2>1, <3>1 DEF ConnInv, Life, Queued
  <2>6. RawFirst(c)'
    BY <1>1, <1>2, <2>1 DEF ConnInv, RawFirst, Queued
  <2>7. MapInv'
    <3>1. ASSUME NEW d \in Conns, NEW l \in Loops, NEW op \in Owning, F(op, d) \in posted'[l]
          PROVE  d \in living
      BY <1>1, <1>2, <2>1, <3>1, AliveIs DEF Queued
    <3> QED BY <1>2, <1>4, <1>5, <1>6, <2>1, <3>1, NamesKept
  <2>8. LoopInv'
    BY <1>1, <1>2, <2>1 DEF LoopInv
  <2> QED BY <1>7, <2>2, <2>3, <2>4, <2>5, <2>6, <2>7, <2>8 DEF SafeInv, ConnInv
<1>9. CASE loop_[c] = Base /\ connections_[name_[c]] # NoConn
  <2>1. /\ Queued(due, Base, "destroyed", c)
        /\ connections_' = [connections_ EXCEPT ![name_[c]] = NoConn]
    <3>1. /\ queueInLoop(Base, F("destroyed", c))
          /\ connections_' = [connections_ EXCEPT ![name_[c]] = NoConn]
      BY <1>9 DEF handleClose, removeConnection, removeConnectionInLoop
    <3> QED BY <1>1, <1>2, <3>1, QueuePushed DEF Loops, Ops, Owning
  <2>2. ~collided => connections_[name_[c]] = c
    BY <1>2, <1>9, EntryIsOwn
  <2>3. \A id \in 0..(IdMod - 1) : connections_'[id] # NoConn => connections_'[id] = connections_[id]
    BY <1>1, <2>1 DEF Types
  <2>4. ASSUME NEW d \in Conns, d # c PROVE ConnInv(d)'
    <3>1. ~collided => (connections_'[name_[d]] = d <=> connections_[name_[d]] = d)
      BY <1>1, <1>2, <2>1, <2>2, <2>4, ServerAssumption DEF Types
    <3>2. Untouched(d)
      BY <1>2, <1>5, <2>1, <2>4, <3>1 DEF Untouched, Queued
    <3> QED BY <1>4, <3>2, UntouchedInv
  <2>5. Birth(c)'
    BY <1>1, <1>2, <1>3, <1>5 DEF ConnInv, Birth, Made
  <2>6. Tasks(c)'
    BY <1>1, <1>2, <1>3, <1>5, <1>9, <2>1 DEF ConnInv, Tasks, Queued
  <2>7. Life(c)'
    <3> SUFFICES ASSUME ~collided
                 PROVE  /\ Stages(c)'
                        /\ \A l \in Loops : <<F("destroyed", c), F("destroyed", c)>> \notin behind'[l]
      BY <1>2 DEF Life
    <3>1. Stages(c) /\ Entered(c)
      BY <1>1, <1>3, <2>2 DEF ConnInv, Life, Entered
    <3>2. ~Leaving(c) /\ destroyed[c] = 0
      BY <3>1 DEF Stages
    <3>3. ~Entered(c)'
      BY <1>1, <1>2, <2>1, ServerAssumption DEF Entered, Types
    <3>4. Leaving(c)'
      BY <1>2, <1>9, <2>1 DEF Leaving, Queued
    <3>5. Stages(c)'
      BY <1>2, <1>5, <3>2, <3>3, <3>4 DEF Stages
    <3>6. ASSUME NEW l \in Loops PROVE <<F("destroyed", c), F("destroyed", c)>> \notin behind'[l]
      BY <1>1, <1>9, <2>1, <3>2 DEF ConnInv, Life, Leaving, Queued
    <3> QED BY <3>5, <3>6
  <2>8. RawFirst(c)'
    BY <1>1, <1>2, <2>1 DEF ConnInv, RawFirst, Queued
  <2>9. MapInv'
    <3>1. ASSUME NEW d \in Conns, NEW l \in Loops, NEW op \in Owning, F(op, d) \in posted'[l]
          PROVE  d \in living
      BY <1>1, <1>2, <2>1, <3>1, AliveIs DEF Queued
    <3> QED BY <1>2, <1>4, <1>5, <1>6, <2>3, <3>1, NamesKept
  <2>10. LoopInv'
    BY <1>1, <1>2, <2>3 DEF LoopInv
  <2> QED BY <1>7, <2>4, <2>5, <2>6, <2>7, <2>8, <2>9, <2>10 DEF SafeInv, ConnInv
<1>10. CASE loop_[c] = Base /\ connections_[name_[c]] = NoConn
  <2>1. due' = due /\ behind' = behind /\ posted' = posted /\ connections_' = connections_
    <3>1. UNCHANGED <<pendingFunctors_, connections_>>
      BY <1>10 DEF handleClose, removeConnection, removeConnectionInLoop
    <3> QED BY <1>2, <3>1, QueuesKept
  <2>2. ASSUME NEW d \in Conns, d # c PROVE ConnInv(d)'
    <3>1. Untouched(d)
      BY <1>2, <1>5, <2>1, <2>2 DEF Untouched
    <3> QED BY <1>4, <3>1, UntouchedInv
  <2>3. Birth(c)'
    BY <1>1, <1>2, <1>3, <1>5 DEF ConnInv, Birth, Made
  <2>4. Tasks(c)'
    BY <1>1, <1>2, <1>3, <1>5, <2>1 DEF ConnInv, Tasks
  <2>5. Life(c)'
    <3>1. ASSUME ~collided PROVE Stages(c)'
      <4>1. Stages(c)
        BY <1>1, <1>3, <3>1 DEF ConnInv, Life
      <4>2. (Leaving(c)' <=> Leaving(c)) /\ (Entered(c)' <=> Entered(c))
        BY <1>2, <2>1 DEF Leaving, Entered
      <4> QED BY <1>2, <1>5, <4>1, <4>2 DEF Stages
    <3> QED BY <1>1, <1>2, <2>1, <3>1 DEF ConnInv, Life
  <2>6. RawFirst(c)'
    BY <1>1, <1>2, <2>1 DEF ConnInv, RawFirst
  <2>7. MapInv'
    <3>1. ASSUME NEW d \in Conns, NEW l \in Loops, NEW op \in Owning, F(op, d) \in posted'[l]
          PROVE  d \in living
      BY <1>1, <2>1, <3>1, AliveIs
    <3> QED BY <1>2, <1>4, <1>5, <1>6, <2>1, <3>1, NamesKept
  <2>8. LoopInv'
    BY <1>1, <1>2, <2>1 DEF LoopInv
  <2> QED BY <1>7, <2>2, <2>3, <2>4, <2>5, <2>6, <2>7, <2>8 DEF SafeInv, ConnInv
<1> QED BY <1>8, <1>9, <1>10

\* A functor has run and is not due any more; the others are.
LEMMA TakenIs ==
  ASSUME Types, NEW l \in Loops, NEW o, Running(l, o), NEW k \in Loops, NEW op, NEW d
  PROVE  /\ F(op, d) \in Taken(l)[k] => F(op, d) \in due[k]
         /\ F(op, d) \in due[k] => F(op, d) \in Taken(l)[k] \/ (k = l /\ op = o /\ d = Current(l).conn)
         /\ Taken(l)[l] = after[l]
<1>1. Taken(l)[k] = (IF k = l THEN after[l] ELSE due[k]) /\ Taken(l)[l] = after[l]
  BY DEF Taken, due
<1> QED BY <1>1, RunsAhead

\* A step that queues writeComplete of c on loop l, or not, and may be the end of a
\* functor of c, but not of connectDestroyed.
Sent(l, c) ==
  \A k \in Loops : \A op, d :
    LET queued == k = l /\ op = "writeComplete" /\ d = c
    IN  /\ F(op, d) \in due'[k] => F(op, d) \in due[k] \/ queued
        /\ F(op, d) \in due[k] => F(op, d) \in due'[k] \/ (d = c /\ op # "destroyed")
        /\ F(op, d) \in posted'[k] => F(op, d) \in posted[k] \/ queued
        /\ \A op2 : <<F(op2, d), F(op, d)>> \in behind'[k] =>
             <<F(op2, d), F(op, d)>> \in behind[k] \/ (queued /\ F(op2, d) \in due[k])

LEMMA SentInv ==
  ASSUME IInv, Types', LoopInv', NEW c \in Conns, Sent(loop_[c], c),
         UNCHANGED <<server, pool, connections_, collided, state_, loop_, name_, destroyed,
                     user, calling, foreign, phase>>,
         state_[c] \notin {"unborn", "Connecting"},
         foreign[c] \/ state_[c] = "Connected",
         \A d \in Conns \ {c} : registered'[d] = registered[d] /\ late'[d] = late[d],
         Registration(c)'
  PROVE  SafeInv'
<1>1. Types /\ LoopInv /\ ConnInv(c) /\ loop_[c] \in Loops
  BY DEF IInv, SafeInv, Types
<1>2. Ambient
  BY DEF Ambient
<1>3. ASSUME NEW d \in Conns, d # c PROVE ConnInv(d)'
  <2>1. Untouched(d)
    BY <1>3 DEF Untouched, Sent
  <2> QED BY <1>2, <2>1, UntouchedInv
<1>4. Birth(c)'
  BY <1>1 DEF ConnInv, Birth, Made
<1>5. Tasks(c)'
  BY <1>1 DEF ConnInv, Tasks, Sent
<1>6. Life(c)'
  <2>1. ASSUME ~collided PROVE Stages(c)'
    <3>1. Stages(c)
      BY <1>1, <2>1 DEF ConnInv, Life, Made
    <3>2. (Leaving(c)' <=> Leaving(c)) /\ (Entered(c)' <=> Entered(c))
      BY <1>1 DEF Leaving, Entered, Sent
    <3> QED BY <3>1, <3>2 DEF Stages
  <2> QED BY <1>1, <2>1 DEF ConnInv, Life, Sent
<1>7. RawFirst(c)'
  <2> SUFFICES ASSUME ~collided, server = "up", ~foreign[c], NEW l \in Loops
               PROVE  /\ <<F("destroyed", c), F("writeComplete", c)>> \notin behind'[l]
                      /\ destroyed[c] > 0 => F("writeComplete", c) \notin due'[l]
    BY DEF RawFirst
  <2>1. Stages(c)
    BY <1>1 DEF ConnInv, Life, Made
  <2>2. phase[loop_[c]] # "ended"
    BY <1>1 DEF LoopInv
  <2>3. ~Leaving(c) /\ destroyed[c] = 0
    BY <2>1, <2>2 DEF Stages
  <2> QED BY <1>1, <2>3 DEF ConnInv, RawFirst, Leaving, Sent
<1>8. MapInv'
  <2>1. ASSUME NEW d \in Conns, NEW l \in Loops, NEW op \in Owning, F(op, d) \in posted'[l]
        PROVE  d \in living
    BY <1>1, <2>1, AliveIs DEF Sent, Owning
  <2>2. ASSUME NEW d \in Conns, user'[d] PROVE d \in living
    BY <1>1, <2>2, AliveIs
  <2> QED BY <1>2, <2>1, <2>2, NamesKept
<1> QED BY <1>3, <1>4, <1>5, <1>6, <1>7, <1>8 DEF SafeInv, ConnInv

\* A write completes: the connection is open, or another thread has sent.
LEMMA WriteCompletesInv ==
  ASSUME IInv, Types', NEW c \in Conns, WriteCompletes(c)
  PROVE  SafeInv'
<1> USE DEF serverVars, connVars, userVars, loopVars
<1>1. Types /\ LoopInv /\ ConnInv(c) /\ loop_[c] \in Loops
  BY DEF IInv, SafeInv, Types
<1>2. /\ registered[c] /\ queueInLoop(loop_[c], F("writeComplete", c))
      /\ UNCHANGED <<server, pool, connections_, collided, state_, loop_, name_, registered, destroyed,
                     user, calling, foreign, late, phase, quit_, functors, ran>>
  BY DEF WriteCompletes
<1>3. Sent(loop_[c], c)
  <2>1. Queued(due, loop_[c], "writeComplete", c)
    BY <1>1, <1>2, QueuePushed DEF Ops, Raw
  <2> QED BY <2>1 DEF Queued, Sent
<1>4. state_[c] \in {"Connected", "Disconnected"} /\ (state_[c] = "Disconnected" => foreign[c])
  BY <1>1, <1>2 DEF ConnInv, Birth, Registration, Types
<1>5. Registration(c)' /\ LoopInv'
  BY <1>1, <1>2 DEF ConnInv, Registration, LoopInv
<1> QED BY <1>2, <1>3, <1>4, <1>5, SentInv

\* LoopInv and what a loop runs.
LEMMA RunLoopInv ==
  ASSUME IInv, Types', NEW l \in Loops, NEW o, Running(l, o),
         UNCHANGED <<server, pool, phase, quit_, functors>>,
         \A id \in 0..(IdMod - 1) : connections_'[id] # NoConn => connections_'[id] = connections_[id]
  PROVE  LoopInv'
<1>1. Types /\ LoopInv /\ phase[l] = "functors" /\ ran' = [ran EXCEPT ![l] = @ + 1]
  BY DEF IInv, SafeInv, Running
<1> QED BY <1>1 DEF LoopInv, Types

\* A functor that did nothing is gone.
LEMMA TakenInv ==
  ASSUME IInv, Types', LoopInv', NEW l \in Loops, NEW o, o # "destroyed", Running(l, o),
         due' = Taken(l), posted' = posted, \A k \in Loops : behind'[k] \subseteq behind[k],
         UNCHANGED <<server, pool, connections_, collided, state_, loop_, name_, registered, destroyed,
                     user, calling, foreign, late, phase>>
  PROVE  SafeInv'
<1>1. Types
  BY DEF IInv
<1>2. Ambient
  BY DEF Ambient
<1>3. ASSUME NEW d \in Conns PROVE ConnInv(d)'
  <2>1. Untouched(d)
    BY <1>1, TakenIs DEF Untouched
  <2> QED BY <1>2, <2>1, UntouchedInv
<1>4. MapInv'
  <2>1. ASSUME NEW d \in Conns, NEW k \in Loops, NEW op \in Owning, F(op, d) \in posted'[k]
        PROVE  d \in living
    BY <1>1, <2>1, AliveIs
  <2>2. ASSUME NEW d \in Conns, user'[d] PROVE d \in living
    BY <1>1, <2>2, AliveIs
  <2> QED BY <1>2, <2>1, <2>2, NamesKept
<1> QED BY <1>3, <1>4 DEF SafeInv

\* sendInLoop, which another thread has queued.
LEMMA RunSendInv ==
  ASSUME IInv, Types', NEW l \in Loops, RunSend(l)
  PROVE  SafeInv'
<1> USE DEF serverVars, connVars, userVars, loopVars
<1>1. Types /\ Running(l, "send")
  BY DEF IInv, RunSend
<1>2. PICK c \in Conns : c = Current(l).conn /\ F("send", c) \in due[l]
  BY <1>1, RunsAhead
<1>3. /\ queueInLoop(l, F("writeComplete", c)) \/ UNCHANGED pendingFunctors_
      /\ registered' \in {registered, [registered EXCEPT ![c] = TRUE]}
      /\ late' = [late EXCEPT ![c] = @ \/ destroyed[c] > 0]
      /\ UNCHANGED <<server, pool, connections_, collided, state_, loop_, name_, destroyed,
                     user, calling, foreign, phase, quit_, functors>>
  BY <1>2 DEF RunSend
<1>4. ConnInv(c)
  BY <1>2 DEF IInv, SafeInv
<1>5. l = loop_[c] /\ foreign[c] /\ Made(c) /\ state_[c] # "Connecting"
  BY <1>1, <1>2, <1>4, DueIsPosted DEF ConnInv, Birth, Tasks, Ops, Raw
<1>6. Sent(loop_[c], c)
  <2>1. CASE queueInLoop(l, F("writeComplete", c))
    <3>1. Queued(Taken(l), l, "writeComplete", c)
      BY <1>1, <1>2, <1>3, <2>1, QueueTakenPushed DEF Ops, Raw
    <3> QED BY <1>1, <1>2, <1>5, <3>1, TakenIs DEF Queued, Sent
  <2>2. CASE UNCHANGED pendingFunctors_
    <3>1. due' = Taken(l) /\ posted' = posted /\ \A k \in Loops : behind'[k] \subseteq behind[k]
      BY <1>1, <1>3, <2>2, QueueTaken
    <3> QED BY <1>1, <1>2, <1>5, <3>1, TakenIs DEF Sent
  <2> QED BY <1>3, <2>1, <2>2
<1>7. LoopInv'
  BY <1>1, <1>3, RunLoopInv
<1>8. \A d \in Conns \ {c} : registered'[d] = registered[d] /\ late'[d] = late[d]
  <2>1. registered \in [Conns -> BOOLEAN] /\ late \in [Conns -> BOOLEAN]
    BY <1>1 DEF Types
  <2> QED BY <1>3, <2>1, Zenon
<1>9. late'[c] = (late[c] \/ destroyed[c] > 0)
  BY <1>1, <1>2, <1>3, Zenon DEF Types
<1>10. Registration(c)'
  <2>1. foreign'[c] /\ (destroyed'[c] > 0 => late'[c])
    BY <1>3, <1>5, <1>9
  <2> QED BY <2>1 DEF Registration
<1>11. state_[c] \notin {"unborn", "Connecting"}
  BY <1>5 DEF Made
<1> QED BY <1>2, <1>3, <1>5, <1>6, <1>7, <1>8, <1>10, <1>11, SentInv

\* writeCompleteCallback_ runs; the user sends again only while the connection is open.
LEMMA RunWriteCompleteInv ==
  ASSUME IInv, Types', NEW l \in Loops, RunWriteComplete(l)
  PROVE  SafeInv'
<1> USE DEF serverVars, connVars, userVars, loopVars
<1>1. Types /\ Running(l, "writeComplete")
  BY DEF IInv, RunWriteComplete
<1>2. PICK c \in Conns : c = Current(l).conn /\ F("writeComplete", c) \in due[l]
  BY <1>1, RunsAhead
<1>3. /\ \/ state_[c] = "Connected" /\ queueInLoop(l, F("writeComplete", c))
         \/ UNCHANGED pendingFunctors_
      /\ UNCHANGED <<server, pool, connections_, collided, state_, loop_, name_, registered, destroyed,
                     user, calling, foreign, late, phase, quit_, functors>>
  BY <1>2 DEF RunWriteComplete, MaySend
<1>4. ConnInv(c)
  BY <1>2 DEF IInv, SafeInv
<1>5. l = loop_[c]
  BY <1>1, <1>2, <1>4 DEF ConnInv, Tasks
<1>6. LoopInv'
  BY <1>1, <1>3, RunLoopInv
<1>7. CASE state_[c] = "Connected" /\ queueInLoop(l, F("writeComplete", c))
  <2>1. Queued(Taken(l), l, "writeComplete", c)
    BY <1>1, <1>2, <1>3, <1>7, QueueTakenPushed DEF Ops, Raw
  <2>2. Sent(loop_[c], c)
    BY <1>1, <1>2, <1>5, <2>1, TakenIs DEF Queued, Sent
  <2>3. Registration(c)'
    BY <1>3, <1>4 DEF ConnInv, Registration
  <2> QED BY <1>2, <1>3, <1>6, <1>7, <2>2, <2>3, SentInv
<1>8. CASE UNCHANGED pendingFunctors_
  <2>1. due' = Taken(l) /\ posted' = posted /\ \A k \in Loops : behind'[k] \subseteq behind[k]
    BY <1>1, <1>3, <1>8, QueueTaken
  <2> QED BY <1>1, <1>2, <1>3, <1>6, <2>1, TakenInv
<1> QED BY <1>3, <1>7, <1>8

\* Another thread queues its send.
LEMMA QueueSendInv ==
  ASSUME IInv, Types', NEW c \in Conns, QueueSend(c)
  PROVE  SafeInv'
<1> USE DEF serverVars, connVars, userVars, loopVars
<1>1. Types /\ LoopInv /\ ConnInv(c) /\ loop_[c] \in Loops
  BY DEF IInv, SafeInv, Types
<1>2. /\ calling[c] /\ queueInLoop(loop_[c], F("send", c))
      /\ calling' = [calling EXCEPT ![c] = FALSE]
      /\ foreign' = [foreign EXCEPT ![c] = TRUE]
      /\ UNCHANGED <<server, pool, connections_, collided, state_, loop_, name_, registered, destroyed,
                     user, late, phase, quit_, functors, ran>>
  BY DEF QueueSend
<1>3. Queued(due, loop_[c], "send", c)
  BY <1>1, <1>2, QueuePushed DEF Ops, Raw
<1>4. Ambient
  BY <1>2 DEF Ambient
<1>5. /\ foreign'[c] /\ ~calling'[c]
      /\ \A d \in Conns : d # c => foreign'[d] = foreign[d] /\ calling'[d] = calling[d]
  BY <1>1, <1>2 DEF Types
<1>6. state_[c] \notin {"unborn", "Connecting"}
  BY <1>1, <1>2 DEF ConnInv, Birth
<1>7. ASSUME NEW d \in Conns, d # c PROVE ConnInv(d)'
  <2>1. Untouched(d)
    BY <1>2, <1>3, <1>5, <1>7 DEF Untouched, Queued
  <2> QED BY <1>4, <2>1, UntouchedInv
<1>8. Birth(c)'
  BY <1>1, <1>2, <1>6 DEF ConnInv, Birth, Made
<1>9. Tasks(c)'
  BY <1>1, <1>2, <1>3, <1>5, <1>6 DEF ConnInv, Tasks, Queued
<1>10. Life(c)'
  <2>1. ASSUME ~collided PROVE Stages(c)'
    <3>1. Stages(c)
      BY <1>1, <1>6, <2>1 DEF ConnInv, Life, Made
    <3>2. (Leaving(c)' <=> Leaving(c)) /\ (Entered(c)' <=> Entered(c))
      BY <1>1, <1>2, <1>3 DEF Leaving, Entered, Queued
    <3> QED BY <1>2, <3>1, <3>2 DEF Stages
  <2> QED BY <1>1, <1>2, <1>3, <2>1 DEF ConnInv, Life, Queued
<1>11. Registration(c)' /\ RawFirst(c)'
  BY <1>1, <1>2, <1>5 DEF ConnInv, Registration, RawFirst
<1>12. MapInv'
  <2>1. ASSUME NEW d \in Conns, NEW l \in Loops, NEW op \in Owning, F(op, d) \in posted'[l]
        PROVE  d \in living
    BY <1>1, <1>3, <2>1, AliveIs DEF Queued, Owning
  <2>2. ASSUME NEW d \in Conns, user'[d] PROVE d \in living
    BY <1>1, <1>2, <2>2, AliveIs
  <2> QED BY <1>2, <1>4, <2>1, <2>2, NamesKept
<1>13. LoopInv'
  BY <1>1, <1>2 DEF LoopInv
<1> QED BY <1>7, <1>8, <1>9, <1>10, <1>11, <1>12, <1>13 DEF SafeInv, ConnInv

\* The batch is destroyed, with the references that its functors held; a loop that ends
\* drops its queue, too.
LEMMA EndBatchInv ==
  ASSUME IInv, Types', NEW l \in Loops, EndBatch(l)
  PROVE  SafeInv'
<1> USE DEF serverVars, connVars, userVars, loopVars
<1>1. Types /\ LoopInv
  BY DEF IInv, SafeInv
<1>2. /\ phase[l] = "functors"
      /\ functors' = [functors EXCEPT ![l] = <<>>]
      /\ ran' = [ran EXCEPT ![l] = 0]
      /\ phase' = [phase EXCEPT ![l] = AfterBatch(l)]
      /\ UNCHANGED <<server, pool, connections_, collided, state_, loop_, name_, registered, destroyed,
                     user, calling, foreign, late, quit_>>
  BY DEF EndBatch
<1>3. /\ phase'[l] = AfterBatch(l)
      /\ \A k \in Loops : k # l => phase'[k] = phase[k] /\ functors'[k] = functors[k] /\ ran'[k] = ran[k]
      /\ functors'[l] = <<>> /\ ran'[l] = 0
  BY <1>1, <1>2 DEF Types
<1>4. Ambient
  BY <1>2, <1>3 DEF Ambient
<1>5. /\ AfterBatch(l) # "ended" => due' = due
      /\ \A k \in Loops : /\ due'[k] \subseteq due[k]
                          /\ behind'[k] \subseteq behind[k]
                          /\ posted'[k] \subseteq posted[k]
                          /\ k # l => due'[k] = due[k]
  BY <1>1, QueueEnded
<1>6. ASSUME NEW d \in Conns PROVE ConnInv(d)'
  <2>1. Untouched(d)
    BY <1>2, <1>3, <1>5 DEF Untouched
  <2> QED BY <1>4, <2>1, UntouchedInv
<1>7. MapInv'
  <2>1. ASSUME NEW d \in Conns, NEW k \in Loops, NEW op \in Owning, F(op, d) \in posted'[k]
        PROVE  d \in living
    BY <1>1, <1>5, <2>1, AliveIs
  <2>2. ASSUME NEW d \in Conns, user'[d] PROVE d \in living
    BY <1>1, <1>2, <2>2, AliveIs
  <2> QED BY <1>2, <1>4, <2>1, <2>2, NamesKept
<1>8. LoopInv'
  <2>1. phase'[l] = "ended" => quit_[l]
    BY <1>3 DEF AfterBatch
  <2>2. server = "gone" => l \notin pool
    BY <1>1, <1>2 DEF LoopInv
  <2>3. pool \subseteq Loops
    BY <1>1 DEF Types, Loops
  <2> QED BY <1>1, <1>2, <1>3, <2>1, <2>2, <2>3 DEF LoopInv
<1> QED BY <1>6, <1>7, <1>8 DEF SafeInv

\* connectEstablished: the connection is not known to anybody before, and is neither
\* leaving nor gone as long as the server is up.
LEMMA RunEstablishedInv ==
  ASSUME IInv, Types', NEW l \in Loops, RunEstablished(l)
  PROVE  SafeInv'
<1> USE DEF serverVars, connVars, userVars, loopVars
<1>1. Types /\ LoopInv /\ Running(l, "established")
  BY DEF IInv, SafeInv, RunEstablished
<1>2. PICK c \in Conns : /\ c = Current(l).conn /\ F("established", c) \in due[l]
                         /\ \A op : F(op, c) \in after[l] => <<F("established", c), F(op, c)>> \in behind[l]
  BY <1>1, RunsAhead
<1>3. /\ queueInLoop(l, F("writeComplete", c)) \/ UNCHANGED pendingFunctors_
      /\ state_' = [state_ EXCEPT ![c] = "Connected"]
      /\ registered' = [registered EXCEPT ![c] = TRUE]
      /\ user' \in {user, [user EXCEPT ![c] = TRUE]}
      /\ UNCHANGED <<server, pool, connections_, collided, loop_, name_, destroyed,
                     calling, foreign, late, phase, quit_, functors>>
  BY <1>2 DEF RunEstablished, connectEstablished, MaySend
<1>4. ConnInv(c)
  BY <1>2 DEF IInv, SafeInv
<1>5. l = loop_[c] /\ l # Base /\ state_[c] = "Connecting" /\ destroyed[c] = 0 /\ server # "new"
  BY <1>2, <1>4 DEF ConnInv, Birth, Tasks, Made
<1>6. F("established", c) \notin after[l]
  BY <1>2, <1>4 DEF ConnInv, Tasks
<1>7. Sent(l, c) /\ \A k \in Loops : F("established", c) \notin due'[k]
  <2>1. Taken(l)[l] = after[l] /\ \A k \in Loops : F("established", c) \in Taken(l)[k] => k = l
    <3>1. ASSUME NEW k \in Loops, F("established", c) \in Taken(l)[k] PROVE k = l
      <4>1. F("established", c) \in due[k]
        BY <1>1, <3>1, TakenIs
      <4> QED BY <1>4, <1>5, <4>1 DEF ConnInv, Tasks
    <3> QED BY <1>1, <3>1, TakenIs
  <2>2. \A k \in Loops : F("established", c) \notin Taken(l)[k]
    BY <1>6, <2>1
  <2>3. CASE queueInLoop(l, F("writeComplete", c))
    <3>1. Queued(Taken(l), l, "writeComplete", c)
      BY <1>1, <1>2, <1>3, <2>3, QueueTakenPushed DEF Ops, Raw
    <3>2. Sent(l, c)
      BY <1>1, <1>2, <3>1, TakenIs DEF Queued, Sent
    <3> QED BY <2>2, <3>1, <3>2 DEF Queued
  <2>4. CASE UNCHANGED pendingFunctors_
    <3>1. due' = Taken(l) /\ posted' = posted /\ \A k \in Loops : behind'[k] \subseteq behind[k]
      BY <1>1, <1>3, <2>4, QueueTaken
    <3>2. Sent(l, c)
      BY <1>1, <1>2, <3>1, TakenIs DEF Sent
    <3> QED BY <2>2, <3>1, <3>2
  <2> QED BY <1>3, <2>3, <2>4
<1>8. LoopInv'
  BY <1>1, <1>3, RunLoopInv
<1>9. Ambient
  BY <1>3 DEF Ambient
<1>10. /\ state_'[c] = "Connected"
       /\ \A d \in Conns : d # c => state_'[d] = state_[d] /\ registered'[d] = registered[d]
       /\ \A d \in Conns : state_[d] # "unborn" => state_'[d] # "unborn"
  BY <1>1, <1>3 DEF Types
<1>11. \A d \in Conns : d # c => user'[d] = user[d]
  <2>1. user \in [Conns -> BOOLEAN]
    BY <1>1 DEF Types
  <2> QED BY <1>3, <2>1, Zenon
<1>12. ASSUME NEW d \in Conns, d # c PROVE ConnInv(d)'
  <2>1. Untouched(d)
    BY <1>3, <1>7, <1>10, <1>11, <1>12 DEF Untouched, Sent
  <2> QED BY <1>9, <2>1, UntouchedInv
<1>13. Birth(c)'
  BY <1>3, <1>4, <1>5, <1>10 DEF ConnInv, Birth, Made
<1>14. Tasks(c)'
  BY <1>3, <1>4, <1>5, <1>7, <1>10 DEF ConnInv, Tasks, Sent
<1>15. ASSUME ~collided PROVE Stages(c) /\ (Leaving(c)' <=> Leaving(c))
  BY <1>3, <1>4, <1>5, <1>7, <1>15 DEF ConnInv, Life, Made, Leaving, Sent
<1>16. Life(c)'
  <2>1. ASSUME ~collided PROVE Stages(c)'
    <3>1. Entered(c)' <=> Entered(c)
      BY <1>3 DEF Entered
    <3> QED BY <1>3, <1>5, <1>10, <1>15, <2>1, <3>1 DEF Stages
  <2> QED BY <1>3, <1>4, <1>7, <2>1 DEF ConnInv, Life, Sent
<1>17. Registration(c)'
  BY <1>3, <1>5, <1>10 DEF Registration
<1>18. RawFirst(c)'
  <2> SUFFICES ASSUME ~collided, server = "up", ~foreign[c], NEW k \in Loops
               PROVE  <<F("destroyed", c), F("writeComplete", c)>> \notin behind'[k]
    BY <1>3, <1>5 DEF RawFirst
  <2>1. ~Leaving(c)
    BY <1>5, <1>15 DEF Stages
  <2> QED BY <1>4, <1>5, <1>7, <2>1 DEF ConnInv, RawFirst, Leaving, Sent
<1>19. MapInv'
  <2>1. ASSUME NEW d \in Conns, NEW k \in Loops, NEW op \in Owning, F(op, d) \in posted'[k]
        PROVE  d \in living
    BY <1>1, <1>7, <2>1, AliveIs DEF Sent, Owning
  <2>2. c \in living
    BY <1>1, <1>2, DueIsPosted, AliveIs DEF Owning
  <2>3. ASSUME NEW d \in Conns, user'[d] PROVE d \in living
    BY <1>1, <1>11, <2>2, <2>3, AliveIs
  <2> QED BY <1>3, <1>9, <1>10, <2>1, <2>3, NamesKept
<1> QED BY <1>8, <1>12, <1>13, <1>14, <1>16, <1>17, <1>18, <1>19 DEF SafeInv, ConnInv

\* connectDestroyed, for the first time: nothing that needs the connection is left.
LEMMA RunDestroyedInv ==
  ASSUME IInv, Types', NEW l \in Loops, RunDestroyed(l)
  PROVE  SafeInv'
<1> USE DEF serverVars, connVars, userVars, loopVars
<1>1. Types /\ LoopInv /\ Running(l, "destroyed")
  BY DEF IInv, SafeInv, RunDestroyed
<1>2. PICK c \in Conns : /\ c = Current(l).conn /\ F("destroyed", c) \in due[l]
                         /\ \A op : F(op, c) \in after[l] => <<F("destroyed", c), F(op, c)>> \in behind[l]
  BY <1>1, RunsAhead
<1>3. /\ state_' = [state_ EXCEPT ![c] = "Disconnected"]
      /\ destroyed' = [destroyed EXCEPT ![c] = IF @ < 2 THEN @ + 1 ELSE @]
      /\ registered' = [registered EXCEPT ![c] = FALSE]
      /\ UNCHANGED <<server, pool, connections_, collided, loop_, name_, pendingFunctors_,
                     user, calling, foreign, late, phase, quit_, functors>>
  BY <1>2 DEF RunDestroyed, connectDestroyed
<1>4. ConnInv(c)
  BY <1>2 DEF IInv, SafeInv
<1>5. l = loop_[c] /\ Made(c) /\ server # "new"
  BY <1>1, <1>2, <1>4, DueIsPosted DEF ConnInv, Birth, Tasks, Ops, Owning
<1>6. /\ due' = Taken(l) /\ posted' = posted /\ \A k \in Loops : behind'[k] \subseteq behind[k]
      /\ due'[l] = after[l]
  BY <1>1, <1>3, QueueTaken, TakenIs
<1>7. \A k \in Loops : \A op, d : F(op, d) \in due'[k] => F(op, d) \in due[k]
  BY <1>1, <1>6, TakenIs
<1>8. LoopInv'
  BY <1>1, <1>3, RunLoopInv
<1>9. Ambient
  BY <1>3 DEF Ambient
<1>10. /\ state_'[c] = "Disconnected" /\ ~registered'[c]
       /\ destroyed[c] = 0 => destroyed'[c] = 1
       /\ \A d \in Conns : d # c => /\ state_'[d] = state_[d] /\ registered'[d] = registered[d]
                                    /\ destroyed'[d] = destroyed[d]
       /\ \A d \in Conns : state_[d] # "unborn" => state_'[d] # "unborn"
  BY <1>1, <1>3 DEF Types
<1>11. ASSUME NEW d \in Conns, d # c PROVE ConnInv(d)'
  <2>1. \A k \in Loops : F("destroyed", d) \in due[k] => F("destroyed", d) \in due'[k]
    BY <1>1, <1>2, <1>6, <1>11, TakenIs
  <2>2. Untouched(d)
    BY <1>3, <1>6, <1>7, <1>10, <1>11, <2>1 DEF Untouched
  <2> QED BY <1>9, <2>2, UntouchedInv
<1>12. Birth(c)'
  BY <1>3, <1>4, <1>5, <1>10 DEF ConnInv, Birth, Made
<1>13. Tasks(c)'
  <2>1. \A k \in Loops : F("established", c) \notin due'[k]
    BY <1>2, <1>4, <1>5, <1>6, <1>7 DEF ConnInv, Tasks
  <2> QED BY <1>3, <1>4, <1>6, <1>7, <1>10, <2>1 DEF ConnInv, Tasks
<1>14. Life(c)'
  <2>1. ASSUME ~collided PROVE Stages(c)'
    <3>1. Stages(c) /\ Leaving(c)
      BY <1>2, <1>4, <1>5, <2>1 DEF ConnInv, Life, Leaving
    <3>2. ~Entered(c) /\ destroyed[c] = 0
      BY <3>1 DEF Stages
    <3>3. ~Leaving(c)'
      BY <1>2, <1>3, <1>4, <1>5, <1>6, <2>1 DEF ConnInv, Life, Leaving
    <3>4. ~Entered(c)'
      BY <1>3, <3>2 DEF Entered
    <3> QED BY <1>10, <3>2, <3>3, <3>4 DEF Stages
  <2> QED BY <1>3, <1>4, <1>6, <2>1 DEF ConnInv, Life
<1>15. Registration(c)'
  BY <1>10 DEF Registration
<1>16. RawFirst(c)'
  <2> SUFFICES ASSUME ~collided, server = "up", ~foreign[c], NEW k \in Loops
               PROVE  /\ <<F("destroyed", c), F("writeComplete", c)>> \notin behind'[k]
                      /\ F("writeComplete", c) \notin due'[k]
    BY <1>3 DEF RawFirst
  <2>1. <<F("destroyed", c), F("writeComplete", c)>> \notin behind[k]
    BY <1>4 DEF ConnInv, RawFirst
  <2>2. F("writeComplete", c) \in due[k] => k = l
    BY <1>4, <1>5 DEF ConnInv, Tasks
  <2> QED BY <1>2, <1>6, <1>7, <2>1, <2>2
<1>17. MapInv'
  <2>1. ASSUME NEW d \in Conns, NEW k \in Loops, NEW op \in Owning, F(op, d) \in posted'[k]
        PROVE  d \in living
    BY <1>1, <1>6, <2>1, AliveIs
  <2>2. ASSUME NEW d \in Conns, user'[d] PROVE d \in living
    BY <1>1, <1>3, <2>2, AliveIs
  <2> QED BY <1>3, <1>9, <1>10, <2>1, <2>2, NamesKept
<1> QED BY <1>8, <1>11, <1>12, <1>13, <1>14, <1>15, <1>16, <1>17 DEF SafeInv, ConnInv

\* removeConnectionInLoop: the entry goes and connectDestroyed is queued, unless the
\* entry is gone.
LEMMA RunRemoveInv ==
  ASSUME IInv, Types', NEW l \in Loops, RunRemove(l)
  PROVE  SafeInv'
<1> USE DEF serverVars, connVars, userVars, loopVars
<1>1. Types /\ LoopInv /\ Running(l, "remove")
  BY DEF IInv, SafeInv, RunRemove
<1>2. PICK c \in Conns : c = Current(l).conn /\ F("remove", c) \in due[l]
  BY <1>1, RunsAhead
<1>3. /\ removeConnectionInLoop(c)
      /\ UNCHANGED <<server, pool, collided, state_, loop_, name_, registered, destroyed,
                     user, calling, foreign, late, phase, quit_, functors>>
  BY <1>2 DEF RunRemove
<1>4. ConnInv(c) /\ loop_[c] \in Loops /\ name_[c] \in 0..(IdMod - 1)
  BY <1>1, <1>2 DEF IInv, SafeInv, Types
<1>5. F("remove", c) \in posted[l] /\ state_[c] = "Disconnected" /\ Made(c)
  BY <1>1, <1>2, <1>4, DueIsPosted DEF ConnInv, Tasks, Made
<1>6. CASE connections_[name_[c]] # NoConn
  <2>1. /\ Queued(Taken(l), loop_[c], "destroyed", c)
        /\ connections_' = [connections_ EXCEPT ![name_[c]] = NoConn]
    <3>1. /\ queueInLoop(loop_[c], F("destroyed", c))
          /\ connections_' = [connections_ EXCEPT ![name_[c]] = NoConn]
      BY <1>3, <1>6 DEF removeConnectionInLoop
    <3> QED BY <1>1, <1>2, <1>3, <1>4, <3>1, QueueTakenPushed DEF Ops, Owning
  <2>2. ~collided => connections_[name_[c]] = c
    <3>1. c \in living
      BY <1>1, <1>5, AliveIs DEF Owning
    <3> QED BY <1>6, <3>1, EntryIsOwn
  <2>3. \A id \in 0..(IdMod - 1) : connections_'[id] # NoConn => connections_'[id] = connections_[id]
    BY <1>1, <2>1 DEF Types
  <2>4. \A k \in Loops : \A op, d :
          /\ F(op, d) \in Taken(l)[k] => F(op, d) \in due[k]
          /\ op = "destroyed" /\ F(op, d) \in due[k] => F(op, d) \in Taken(l)[k]
    BY <1>1, TakenIs
  <2>5. LoopInv'
    BY <1>1, <1>3, <2>3, RunLoopInv
  <2>6. Ambient
    BY <1>3 DEF Ambient
  <2>7. ASSUME NEW d \in Conns, d # c PROVE ConnInv(d)'
    <3>1. ~collided => (connections_'[name_[d]] = d <=> connections_[name_[d]] = d)
      <4>1. name_[d] \in 0..(IdMod - 1) /\ connections_ \in [0..(IdMod - 1) -> Conns \cup {NoConn}] /\ d # NoConn
        BY <1>1, ServerAssumption DEF Types
      <4>2. connections_'[name_[d]] = IF name_[d] = name_[c] THEN NoConn ELSE connections_[name_[d]]
        BY <2>1, <4>1
      <4> QED BY <2>2, <2>7, <4>1, <4>2
    <3>2. Untouched(d)
      BY <1>3, <2>1, <2>4, <2>7, <3>1 DEF Untouched, Queued
    <3> QED BY <2>6, <3>2, UntouchedInv
  <2>8. Birth(c)'
    BY <1>3, <1>4, <1>5 DEF ConnInv, Birth, Made
  <2>9. Tasks(c)'
    BY <1>3, <1>4, <1>5, <2>1, <2>4 DEF ConnInv, Tasks, Queued
  <2>10. Life(c)'
    <3> SUFFICES ASSUME ~collided
                 PROVE  /\ Stages(c)'
                        /\ \A k \in Loops : <<F("destroyed", c), F("destroyed", c)>> \notin behind'[k]
      BY <1>3 DEF Life
    <3>1. Stages(c) /\ Entered(c)
      BY <1>4, <1>5, <2>2 DEF ConnInv, Life, Entered
    <3>2. ~Leaving(c) /\ destroyed[c] = 0
      BY <3>1 DEF Stages
    <3>3. ~Entered(c)'
      BY <1>1, <1>3, <1>4, <2>1, ServerAssumption DEF Entered, Types
    <3>4. Leaving(c)'
      BY <1>3, <1>4, <2>1 DEF Leaving, Queued
    <3>5. Stages(c)'
      BY <1>3, <1>5, <3>2, <3>3, <3>4 DEF Stages
    <3>6. ASSUME NEW k \in Loops PROVE <<F("destroyed", c), F("destroyed", c)>> \notin behind'[k]
      BY <1>4, <2>1, <2>4, <3>2 DEF ConnInv, Life, Leaving, Queued
    <3> QED BY <3>5, <3>6
  <2>11. Registration(c)'
    BY <1>3, <1>4 DEF ConnInv, Registration
  <2>12. RawFirst(c)'
    BY <1>3, <1>4, <2>1, <2>4 DEF ConnInv, RawFirst, Queued
  <2>13. MapInv'
    <3>1. c \in living
      BY <1>1, <1>5, AliveIs DEF Owning
    <3>2. ASSUME NEW d \in Conns, NEW k \in Loops, NEW op \in Owning, F(op, d) \in posted'[k]
          PROVE  d \in living
      BY <1>1, <2>1, <3>1, <3>2, AliveIs DEF Queued
    <3>3. ASSUME NEW d \in Conns, user'[d] PROVE d \in living
      BY <1>1, <1>3, <3>3, AliveIs
    <3> QED BY <1>3, <2>3, <2>6, <3>2, <3>3, NamesKept
  <2> QED BY <2>5, <2>7, <2>8, <2>9, <2>10, <2>11, <2>12, <2>13 DEF SafeInv, ConnInv
<1>7. CASE connections_[name_[c]] = NoConn
  <2>1. UNCHANGED <<connections_, pendingFunctors_>>
    BY <1>3, <1>7 DEF removeConnectionInLoop
  <2>2. due' = Taken(l) /\ posted' = posted /\ \A k \in Loops : behind'[k] \subseteq behind[k]
    BY <1>1, <1>3, <2>1, QueueTaken
  <2>3. LoopInv'
    BY <1>1, <1>3, <2>1, RunLoopInv
  <2> QED BY <1>1, <1>3, <2>1, <2>2, <2>3, TakenInv
<1> QED BY <1>6, <1>7

\* The destructor sends connectDestroyed to the loop of an entry, or runs it when that is
\* the base loop.
LEMMA DestructEntryInv ==
  ASSUME IInv, Types', NEW id \in 0..(IdMod - 1), DestructEntry(id)
  PROVE  SafeInv'
<1> USE DEF serverVars, connVars, userVars, loopVars
<1>1. Types /\ LoopInv /\ MapInv /\ server = "dtor"
  BY DEF IInv, SafeInv, DestructEntry
<1>2. PICK c \in Conns : c = connections_[id]
  BY <1>1 DEF DestructEntry, Types
<1>3. /\ ConnInv(c) /\ loop_[c] \in Loops /\ Made(c) /\ name_[c] = id /\ Entered(c)
      /\ server # "gone" /\ server # "up" /\ server # "new"
  BY <1>1, <1>2, ServerAssumption DEF IInv, SafeInv, Types, MapInv, Entered
<1>4. /\ connections_' = [connections_ EXCEPT ![id] = NoConn]
      /\ UNCHANGED <<server, pool, collided, loop_, name_, user, calling, foreign, late,
                     phase, quit_, functors, ran>>
  BY DEF DestructEntry
<1>5. /\ \A i \in 0..(IdMod - 1) : connections_'[i] # NoConn => connections_'[i] = connections_[i]
      /\ ~Entered(c)'
  BY <1>1, <1>3, <1>4, ServerAssumption DEF Types, Entered
<1>6. LoopInv'
  BY <1>1, <1>4 DEF LoopInv
<1>7. Ambient
  BY <1>4 DEF Ambient
<1>8. ASSUME NEW d \in Conns, d # c
      PROVE  ~collided => (connections_'[name_[d]] = d <=> connections_[name_[d]] = d)
  BY <1>1, <1>2, <1>4, <1>8, ServerAssumption DEF Types
<1>9. c \in living /\ \A d \in Conns : user'[d] => d \in living
  BY <1>1, <1>2, <1>4, AliveIs
<1>10. ~collided => ~Leaving(c) /\ destroyed[c] = 0
  BY <1>3 DEF ConnInv, Life, Stages
<1>11. CASE loop_[c] = Base
  <2>1. connectDestroyed(c) /\ UNCHANGED pendingFunctors_
    BY <1>2, <1>11 DEF DestructEntry
  <2>2. due' = due /\ behind' = behind /\ posted' = posted
    BY <1>4, <2>1, QueuesKept
  <2>3. /\ state_'[c] = "Disconnected" /\ ~registered'[c]
        /\ destroyed[c] = 0 => destroyed'[c] = 1
        /\ \A d \in Conns : d # c => /\ state_'[d] = state_[d] /\ registered'[d] = registered[d]
                                     /\ destroyed'[d] = destroyed[d]
        /\ \A d \in Conns : state_[d] # "unborn" => state_'[d] # "unborn"
    BY <1>1, <2>1 DEF connectDestroyed, Types
  <2>4. ASSUME NEW d \in Conns, d # c PROVE ConnInv(d)'
    <3>1. Untouched(d)
      BY <1>4, <1>8, <2>2, <2>3, <2>4 DEF Untouched
    <3> QED BY <1>7, <3>1, UntouchedInv
  <2>5. Birth(c)'
    BY <1>3, <1>4, <2>3 DEF ConnInv, Birth, Made
  <2>6. Tasks(c)'
    BY <1>3, <1>4, <1>11, <2>2, <2>3 DEF ConnInv, Tasks
  <2>7. Life(c)'
    <3>1. ASSUME ~collided PROVE Stages(c)'
      <4>1. ~Leaving(c)'
        BY <1>4, <1>10, <2>2, <3>1 DEF Leaving
      <4> QED BY <1>5, <1>10, <2>3, <3>1, <4>1 DEF Stages
    <3> QED BY <1>3, <1>4, <2>2, <3>1 DEF ConnInv, Life
  <2>8. Registration(c)' /\ RawFirst(c)'
    BY <1>3, <1>4, <2>3 DEF Registration, RawFirst
  <2>9. MapInv'
    <3>1. ASSUME NEW d \in Conns, NEW k \in Loops, NEW op \in Owning, F(op, d) \in posted'[k]
          PROVE  d \in living
      BY <1>1, <2>2, <3>1, AliveIs
    <3> QED BY <1>4, <1>5, <1>7, <1>9, <2>3, <3>1, NamesKept
  <2> QED BY <1>6, <2>4, <2>5, <2>6, <2>7, <2>8, <2>9 DEF SafeInv, ConnInv
<1>12. CASE loop_[c] # Base
  <2>1. queueInLoop(loop_[c], F("destroyed", c)) /\ UNCHANGED <<state_, registered, destroyed>>
    BY <1>2, <1>12 DEF DestructEntry
  <2>2. Queued(due, loop_[c], "destroyed", c)
    BY <1>1, <1>3, <1>4, <2>1, QueuePushed DEF Ops, Owning
  <2>3. ASSUME NEW d \in Conns, d # c PROVE ConnInv(d)'
    <3>1. Untouched(d)
      BY <1>4, <1>8, <2>1, <2>2, <2>3 DEF Untouched, Queued
    <3> QED BY <1>7, <3>1, UntouchedInv
  <2>4. Birth(c)'
    BY <1>3, <1>4, <2>1 DEF ConnInv, Birth, Made
  <2>5. Tasks(c)'
    BY <1>3, <1>4, <2>1, <2>2 DEF ConnInv, Tasks, Queued
  <2>6. Life(c)'
    <3>1. ASSUME ~collided PROVE Stages(c)'
      <4>1. Leaving(c)'
        BY <1>3, <1>4, <2>2 DEF Leaving, Queued
      <4> QED BY <1>3, <1>4, <1>5, <1>10, <1>12, <2>1, <3>1, <4>1 DEF Stages
    <3> QED BY <1>3, <1>4, <1>10, <2>2, <3>1 DEF ConnInv, Life, Leaving, Queued
  <2>7. Registration(c)' /\ RawFirst(c)'
    BY <1>3, <1>4, <2>1 DEF ConnInv, Registration, RawFirst
  <2>8. MapInv'
    <3>1. ASSUME NEW d \in Conns, NEW k \in Loops, NEW op \in Owning, F(op, d) \in posted'[k]
          PROVE  d \in living
      BY <1>1, <1>9, <2>2, <3>1, AliveIs DEF Queued
    <3> QED BY <1>4, <1>5, <1>7, <1>9, <2>1, <3>1, NamesKept
  <2> QED BY <1>6, <2>3, <2>4, <2>5, <2>6, <2>7, <2>8 DEF SafeInv, ConnInv
<1> QED BY <1>11, <1>12

\* A new connection gets a name, an entry if the name is free, and a loop.  Until a
\* collision the name is free.
LEMMA NewConnectionInv ==
  ASSUME IInv, Types', NEW c \in Conns, NEW l \in Loops, newConnection(c, l)
  PROVE  SafeInv'
<1> USE DEF serverVars, connVars, userVars, loopVars
<1>1. Types /\ LoopInv /\ MapInv /\ ConnInv(c) /\ nextConnId_ \in 0..(IdMod - 1)
  BY DEF IInv, SafeInv, Types
<1>2. /\ server = "up" /\ state_[c] = "unborn" /\ l \in pool \cup {Base}
      /\ loop_' = [loop_ EXCEPT ![c] = l]
      /\ name_' = [name_ EXCEPT ![c] = nextConnId_]
      /\ connections_' = [connections_ EXCEPT ![nextConnId_] = IF @ = NoConn THEN c ELSE @]
      /\ collided' = (collided \/ \E d \in Conns : Alive(d) /\ name_[d] = nextConnId_)
      /\ HandOver(c, l)
      /\ UNCHANGED <<server, pool, destroyed, calling, foreign, late, phase, quit_, functors, ran>>
  BY DEF newConnection, Accepting, listenning, Emplace
<1>3. ~registered[c] /\ ~user[c] /\ ~calling[c] /\ destroyed[c] = 0
  BY <1>1, <1>2 DEF ConnInv, Birth
<1>4. \A k \in Loops : \A op \in Ops : F(op, c) \notin posted[k] /\ F(op, c) \notin due[k]
  BY <1>1, <1>2, DueIsPosted DEF ConnInv, Birth, Made
<1>5. \A k \in Loops : \A op, op2 : op \in Ops \/ op2 \in Ops => <<F(op2, c), F(op, c)>> \notin behind[k]
  BY <1>4, BehindIsDue
<1>6. ~collided' => ~collided /\ \A d \in living : name_[d] # nextConnId_
  BY <1>2 DEF living
<1>7. /\ loop_'[c] = l /\ name_'[c] = nextConnId_
      /\ \A d \in Conns : d # c => loop_'[d] = loop_[d] /\ name_'[d] = name_[d]
      /\ \A i \in 0..(IdMod - 1) :
           connections_'[i] = IF i = nextConnId_ /\ connections_[i] = NoConn THEN c ELSE connections_[i]
  BY <1>1, <1>2 DEF Types
\* what is queued for c
<1>8. /\ \E op \in {"established", "writeComplete"} :
           /\ op = "established" => state_'[c] = "Connecting" /\ l # Base
           /\ op = "writeComplete" => state_'[c] = "Connected"
           /\ \A k \in Loops : \A o, d :
                LET queued == k = l /\ o = op /\ d = c
                IN  /\ F(o, d) \in due'[k] => F(o, d) \in due[k] \/ queued
                    /\ F(o, d) \in due[k] => F(o, d) \in due'[k]
                    /\ F(o, d) \in posted'[k] => F(o, d) \in posted[k] \/ queued
                    /\ \A o2 : <<F(o2, d), F(o, d)>> \in behind'[k] =>
                         <<F(o2, d), F(o, d)>> \in behind[k] \/ (queued /\ F(o2, d) \in due[k])
      /\ state_'[c] = "Connecting" => ~registered'[c] /\ ~user'[c]
      /\ \A d \in Conns : d # c => /\ state_'[d] = state_[d] /\ registered'[d] = registered[d]
                                   /\ user'[d] = user[d]
  <2>1. CASE l = Base
    <3>1. connectEstablished(c, l)
      BY <1>2, <2>1 DEF HandOver
    <3>2. /\ state_'[c] = "Connected"
          /\ \A d \in Conns : d # c => state_'[d] = state_[d] /\ registered'[d] = registered[d]
      BY <1>1, <3>1 DEF connectEstablished, Types
    <3>3. \A d \in Conns : d # c => user'[d] = user[d]
      <4>1. user \in [Conns -> BOOLEAN] /\ user' \in {user, [user EXCEPT ![c] = TRUE]}
        BY <1>1, <3>1 DEF Types, connectEstablished
      <4> QED BY <4>1, Zenon
    <3>4. queueInLoop(l, F("writeComplete", c)) \/ UNCHANGED pendingFunctors_
      BY <3>1 DEF connectEstablished, MaySend
    <3>5. CASE queueInLoop(l, F("writeComplete", c))
      <4>1. Queued(due, l, "writeComplete", c)
        BY <1>1, <1>2, <3>5, QueuePushed DEF Ops, Raw
      <4> QED BY <3>2, <3>3, <4>1 DEF Queued
    <3>6. CASE UNCHANGED pendingFunctors_
      <4>1. due' = due /\ behind' = behind /\ posted' = posted
        BY <1>2, <3>6, QueuesKept
      <4> QED BY <3>2, <3>3, <4>1
    <3> QED BY <3>4, <3>5, <3>6
  <2>2. CASE l # Base
    <3>1. /\ state_' = [state_ EXCEPT ![c] = "Connecting"]
          /\ queueInLoop(l, F("established", c))
          /\ UNCHANGED <<registered, user>>
      BY <1>2, <2>2 DEF HandOver
    <3>2. Queued(due, l, "established", c)
      BY <1>1, <1>2, <3>1, QueuePushed DEF Ops, Owning
    <3>3. state_'[c] = "Connecting" /\ \A d \in Conns : d # c => state_'[d] = state_[d]
      BY <1>1, <3>1 DEF Types
    <3> QED BY <1>3, <2>2, <3>1, <3>2, <3>3 DEF Queued
  <2> QED BY <2>1, <2>2
<1>9. state_'[c] \in {"Connecting", "Connected"} /\ Made(c)'
  BY <1>8 DEF Made
<1>10. Ambient
  BY <1>2, <1>6 DEF Ambient
<1>11. LoopInv'
  BY <1>1, <1>2 DEF LoopInv
<1>12. ASSUME NEW d \in Conns, d # c PROVE ConnInv(d)'
  <2>1. connections_'[name_[d]] = d <=> connections_[name_[d]] = d
    <3>1. name_[d] \in 0..(IdMod - 1) /\ d # NoConn
      BY <1>1, ServerAssumption DEF Types
    <3> QED BY <1>7, <1>12, <3>1
  <2>2. Untouched(d)
    BY <1>2, <1>7, <1>8, <1>12, <2>1 DEF Untouched
  <2> QED BY <1>10, <2>2, UntouchedInv
<1>13. Birth(c)'
  BY <1>2, <1>3, <1>7, <1>8, <1>9 DEF Birth
<1>14. Tasks(c)'
  BY <1>4, <1>5, <1>7, <1>8 DEF Tasks, Ops, Owning, Raw
<1>15. \A k \in Loops : F("destroyed", c) \notin due'[k]
  BY <1>4, <1>8 DEF Ops, Owning
<1>16. ASSUME ~collided' PROVE Entered(c)'
  <2>1. connections_[nextConnId_] = NoConn
    <3> SUFFICES ASSUME connections_[nextConnId_] # NoConn PROVE FALSE
      OBVIOUS
    <3>1. connections_[nextConnId_] \in Conns
      <4>1. connections_ \in [0..(IdMod - 1) -> Conns \cup {NoConn}]
        BY <1>1 DEF Types
      <4> QED BY <1>1, <4>1
    <3>2. connections_[nextConnId_] \in living
      BY <1>1, <3>1, AliveIs
    <3>3. name_[connections_[nextConnId_]] = nextConnId_
      BY <1>1 DEF MapInv
    <3> QED BY <1>6, <1>16, <3>2, <3>3
  <2> QED BY <1>1, <1>7, <2>1 DEF Entered
<1>17. Life(c)'
  <2>1. ASSUME ~collided' PROVE Stages(c)'
    BY <1>2, <1>3, <1>7, <1>15, <1>16, <2>1 DEF Stages, Leaving
  <2>2. ASSUME NEW k \in Loops PROVE <<F("destroyed", c), F("destroyed", c)>> \notin behind'[k]
    BY <1>5, <1>8 DEF Ops, Owning
  <2> QED BY <2>1, <2>2 DEF Life
<1>18. Registration(c)'
  BY <1>2, <1>3, <1>9 DEF Registration
<1>19. RawFirst(c)'
  BY <1>2, <1>3, <1>4, <1>5, <1>8 DEF RawFirst, Ops, Owning, Raw
<1>20. MapInv'
  <2>1. c \notin living
    <3>1. \A id \in 0..(IdMod - 1) : connections_[id] # c
      BY <1>1, <1>2, ServerAssumption DEF MapInv, Made
    <3> QED BY <1>1, <1>3, <1>4, <3>1, AliveIs DEF Ops
  <2>2. ASSUME NEW d \in living', d # c PROVE d \in living
    <3>1. d \in Conns
      BY DEF living
    <3>2. CASE \E id \in 0..(IdMod - 1) : connections_'[id] = d
      <4>1. \E id \in 0..(IdMod - 1) : connections_[id] = d
        BY <1>7, <2>2, <3>2
      <4> QED BY <1>1, <3>1, <4>1, AliveIs
    <3>3. CASE user'[d] \/ \E k \in Loops, op \in Owning : F(op, d) \in posted'[k]
      <4>1. user[d] \/ \E k \in Loops, op \in Owning : F(op, d) \in posted[k]
        BY <1>8, <2>2, <3>1, <3>3
      <4> QED BY <1>1, <3>1, <4>1, AliveIs
    <3> QED BY <3>1, <3>2, <3>3, AliveNextIs
  <2>3. ASSUME ~collided', NEW d \in living', NEW e \in living', name_'[d] = name_'[e] PROVE d = e
    <3>1. d \in Conns /\ e \in Conns
      BY DEF living
    <3> QED BY <1>1, <1>6, <1>7, <2>2, <2>3, <3>1 DEF MapInv
  <2>4. ASSUME NEW id \in 0..(IdMod - 1), connections_'[id] # NoConn
        PROVE  state_'[connections_'[id]] # "unborn" /\ name_'[connections_'[id]] = id
    <3>1. CASE connections_'[id] = c
      <4>1. connections_[id] # c
        BY <1>1, <1>2, ServerAssumption DEF MapInv, Made
      <4>2. id = nextConnId_
        BY <1>7, <3>1, <4>1
      <4> QED BY <1>7, <1>9, <3>1, <4>2
    <3>2. CASE connections_'[id] # c
      <4>1. connections_'[id] = connections_[id] /\ connections_[id] \in Conns
        BY <1>1, <1>7, <2>4, <3>2 DEF Types
      <4> QED BY <1>1, <1>7, <1>8, <3>2, <4>1, ServerAssumption DEF MapInv, Made
    <3> QED BY <3>1, <3>2
  <2> QED BY <2>3, <2>4 DEF MapInv, Made
<1> QED BY <1>11, <1>12, <1>13, <1>14, <1>17, <1>18, <1>19, <1>20 DEF SafeInv, ConnInv

LEMMA NextInv == IInv /\ [Next]_vars => IInv'
<1> SUFFICES ASSUME IInv, [Next]_vars PROVE IInv'
  OBVIOUS
<1>1. Types'
  BY TypesNext DEF IInv, SafeInv
<1>2. SafeInv'
  <2>1. CASE UNCHANGED vars
    <3> USE DEF vars, serverVars, connVars, userVars, loopVars
    <3>1. due' = due /\ behind' = behind /\ posted' = posted
      BY <2>1, QueuesKept
    <3>2. Ambient /\ LoopInv'
      BY <2>1 DEF Ambient, LoopInv, IInv, SafeInv
    <3> QED BY <1>1, <2>1, <3>1, <3>2, StillInv
  <2>2. CASE \/ \E loops \in SUBSET IoLoops : Start(loops)
             \/ NoLocalAddress \/ handleAcceptError \/ Destruct \/ DestructDone
             \/ \E l \in pool : QuitLoop(l)
             \/ \E l \in Loops : EnterLoop(l) \/ Swap(l)
             \/ \E c \in Conns : CallSend(c) \/ Release(c)
    BY <1>1, <2>2, StillSteps
  <2>3. CASE \E c \in Conns, l \in Loops : newConnection(c, l)
    BY <1>1, <2>3, NewConnectionInv
  <2>4. CASE \E id \in DOMAIN connections_ : DestructEntry(id)
    <3>1. DOMAIN connections_ = 0..(IdMod - 1)
      BY DEF IInv, Types
    <3> QED BY <1>1, <2>4, <3>1, DestructEntryInv
  <2>5. CASE \E c \in Conns : handleClose(c) \/ WriteCompletes(c) \/ QueueSend(c)
    BY <1>1, <2>5, CloseInv, WriteCompletesInv, QueueSendInv
  <2>6. CASE \E l \in Loops : RunEstablished(l) \/ RunDestroyed(l) \/ RunRemove(l)
    BY <1>1, <2>6, RunEstablishedInv, RunDestroyedInv, RunRemoveInv
  <2>7. CASE \E l \in Loops : RunSend(l) \/ RunWriteComplete(l) \/ EndBatch(l)
    BY <1>1, <2>7, RunSendInv, RunWriteCompleteInv, EndBatchInv
  <2> QED BY <2>1, <2>2, <2>3, <2>4, <2>5, <2>6, <2>7 DEF Next, DestructorStep, LoopStep, UserStep
<1> QED BY <1>1, <1>2 DEF IInv

-----------------------------------------------------------------------------
(* The properties *)

LEMMA InvariantHolds == Spec => []IInv
<1>1. Init => IInv
  BY InitInv
<1>2. IInv /\ [Next]_vars => IInv'
  BY NextInv
<1> QED BY <1>1, <1>2, PTL DEF Spec

\* A connection that is in the map, or whose connectDestroyed is due, has an owner.
LEMMA OwnedWhileServed ==
  ASSUME IInv, NEW c \in Conns, Entered(c) \/ Leaving(c)
  PROVE  Alive(c)
<1>1. Types /\ loop_[c] \in Loops /\ name_[c] \in 0..(IdMod - 1)
  BY DEF IInv, Types
<1>2. c \in living
  BY <1>1, DueIsPosted, AliveIs DEF Entered, Leaving, Owning
<1> QED BY <1>2 DEF living

\* A loop ends only after the server has left "up".
LEMMA LoopsRunWhileUp ==
  ASSUME IInv, server = "up", NEW l \in Loops
  PROVE  phase[l] # "ended"
BY DEF IInv, SafeInv, LoopInv

\* Every variable keeps its type, whatever the io threads, the base loop, the peers and
\* other threads do.
THEOREM ServerTypeCorrect == Spec => []TypeOK
<1>1. IInv => TypeOK
  BY DEF IInv, Types, TypeOK
<1> QED BY <1>1, InvariantHolds, PTL

\* newConnection, removeConnectionInLoop and handleClose keep connections_ complete until
\* a name comes back: an open connection of a running server has its entry, and behind
\* connectDestroyed it has none.
THEOREM MapIsComplete == Spec => []MapHoldsActiveUntilCollision
<1>1. IInv => MapHoldsActiveUntilCollision
  <2> SUFFICES ASSUME IInv, ~collided, NEW c \in Conns
               PROVE  /\ server = "up" /\ Open(c) => Entered(c)
                      /\ destroyed[c] > 0 => ~Entered(c)
    BY DEF MapHoldsActiveUntilCollision
  <2>1. ConnInv(c) /\ loop_[c] \in Loops
    BY DEF IInv, SafeInv, Types
  <2>2. CASE Made(c)
    <3>1. Stages(c)
      BY <2>1, <2>2 DEF ConnInv, Life
    <3> QED BY <2>1, <3>1, LoopsRunWhileUp DEF Stages, Open
  <2>3. CASE ~Made(c)
    BY <2>1, <2>3 DEF ConnInv, Birth, Made, Open
  <2> QED BY <2>2, <2>3
<1> QED BY <1>1, InvariantHolds, PTL

\* However handleClose, queued removals and ~TcpServer meet, connectDestroyed runs at
\* most once on a connection, and before the last TcpConnectionPtr goes, unless the loop
\* that had to run it ended.
THEOREM ConnectDestroyedOnce == Spec => []DestroyedOnce
<1>1. IInv => DestroyedOnce
  <2> SUFFICES ASSUME IInv, ~collided, NEW c \in Conns
               PROVE  /\ destroyed[c] <= 1
                      /\ Freed(c) => destroyed[c] = 1 \/ phase[loop_[c]] = "ended"
    BY DEF DestroyedOnce
  <2>1. ConnInv(c)
    BY DEF IInv, SafeInv
  <2>2. CASE Made(c)
    <3>1. Stages(c)
      BY <2>1, <2>2 DEF ConnInv, Life
    <3>2. Freed(c) => ~Entered(c) /\ ~Leaving(c)
      BY OwnedWhileServed DEF Freed
    <3> QED BY <3>1, <3>2 DEF Stages
  <2>3. CASE ~Made(c)
    <3>1. destroyed[c] = 0
      BY <2>1, <2>3 DEF ConnInv, Birth, Made
    <3> QED BY <2>3, <3>1 DEF Freed
  <2> QED BY <2>2, <2>3
<1> QED BY <1>1, InvariantHolds, PTL

\* connectDestroyed takes the channel out of the poller before the connection is freed:
\* the poller of a running loop has the channel of a freed connection only when a queued
\* sendInLoop ran behind connectDestroyed.
THEOREM FreedLeavesPoller == Spec => []FreedIsUnregistered
<1>1. IInv => FreedIsUnregistered
  <2> SUFFICES ASSUME IInv, NEW c \in Conns, Freed(c), ~collided, registered[c]
               PROVE  late[c] \/ phase[loop_[c]] = "ended"
    BY DEF FreedIsUnregistered
  <2>1. ConnInv(c)
    BY DEF IInv, SafeInv
  <2>2. Stages(c)
    BY <2>1 DEF ConnInv, Life, Freed
  <2>3. ~Entered(c) /\ ~Leaving(c)
    BY OwnedWhileServed DEF Freed
  <2> QED BY <2>1, <2>2, <2>3 DEF ConnInv, Registration, Stages
<1> QED BY <1>1, InvariantHolds, PTL

\* A functor of a batch that has still to run is due.
LEMMA UnrunIsDue ==
  ASSUME Types, NEW l \in Loops, NEW k \in (ran[l] + 1)..Len(functors[l])
  PROVE  functors[l][k] \in Functors /\ functors[l][k] \in due[l]
<1> DEFINE s == SubSeq(functors[l], ran[l] + 1, Len(functors[l]))
<1>1. functors[l] \in Seq(Functors) /\ ran[l] \in Nat /\ pendingFunctors_[l] \in Seq(Functors)
  BY DEF Types
<1>2. Len(functors[l]) \in Nat /\ k \in 1..Len(functors[l]) /\ ran[l] < Len(functors[l])
  BY <1>1, LenProperties
<1>3. /\ s \in Seq(Functors) /\ Len(s) = Len(functors[l]) - ran[l]
      /\ \A j \in 1..(Len(functors[l]) - ran[l]) : s[j] = functors[l][ran[l] + j]
  BY <1>1, <1>2, RestIsSeq
<1> HIDE DEF s
<1>4. k - ran[l] \in 1..Len(s) /\ s[k - ran[l]] = functors[l][k]
  BY <1>1, <1>2, <1>3
<1>5. Len(pendingFunctors_[l]) \in Nat /\ Len(s) \in Nat
  BY <1>1, <1>3, LenProperties
<1>6. /\ Len(s \o pendingFunctors_[l]) = Len(s) + Len(pendingFunctors_[l])
      /\ \A j \in 1..(Len(s) + Len(pendingFunctors_[l])) :
           (s \o pendingFunctors_[l])[j] = IF j <= Len(s) THEN s[j] ELSE pendingFunctors_[l][j - Len(s)]
  BY <1>1, <1>3, ConcatProperties
<1>7. /\ k - ran[l] \in 1..Len(s \o pendingFunctors_[l])
      /\ (s \o pendingFunctors_[l])[k - ran[l]] = functors[l][k]
  BY <1>4, <1>5, <1>6
<1>8. due[l] = Elements(s \o pendingFunctors_[l])
  BY DEF due, Agenda, Left, s
<1>9. functors[l][k] \in Functors
  BY <1>1, <1>2, ElementOfSeq
<1> QED BY <1>7, <1>8, <1>9 DEF Elements

\* queueInLoop binds a plain this for writeCompleteCallback_: while the server is up such a
\* functor is in front of connectDestroyed, so the connection exists when it runs, unless
\* another thread has sent.
THEOREM RawThisLives == Spec => []RawThisIsAlive
<1>1. IInv => RawThisIsAlive
  <2> SUFFICES ASSUME IInv, NEW l \in Loops, NEW k \in (ran[l] + 1)..Len(functors[l]),
                      functors[l][k].op \in Raw, server = "up", ~collided,
                      ~foreign[functors[l][k].conn]
               PROVE  Alive(functors[l][k].conn)
    BY DEF RawThisIsAlive
  <2>1. Types
    BY DEF IInv
  <2>2. functors[l][k] \in Functors /\ functors[l][k] \in due[l]
    BY <2>1, UnrunIsDue
  <2>3. PICK c \in Conns : c = functors[l][k].conn /\ F(functors[l][k].op, c) \in due[l]
    BY <2>2, FunctorIs
  <2>4. ConnInv(c) /\ loop_[c] \in Loops
    BY <2>1 DEF IInv, SafeInv, Types
  <2>5. F("writeComplete", c) \in due[l]
    BY <2>3, <2>4 DEF ConnInv, Tasks, Raw
  <2>6. destroyed[c] = 0 /\ Made(c)
    <3>1. ~(destroyed[c] > 0)
      BY <2>3, <2>4, <2>5 DEF ConnInv, RawFirst
    <3>2. Made(c)
      BY <2>1, <2>4, <2>5, DueIsPosted DEF ConnInv, Birth, Ops, Raw
    <3>3. destroyed[c] \in 0..2
      BY <2>1 DEF Types
    <3> QED BY <3>1, <3>2, <3>3
  <2>7. Entered(c) \/ Leaving(c)
    <3>1. Stages(c)
      BY <2>4, <2>6 DEF ConnInv, Life
    <3> QED BY <2>4, <2>6, <3>1, LoopsRunWhileUp DEF Stages
  <2> QED BY <2>3, <2>7, OwnedWhileServed
<1> QED BY <1>1, InvariantHolds, PTL

\* The removals and channels that are left when ~TcpServer has returned do not come back to
\* it when the base loop serves the connections itself: closeCallback_ binds a plain this
\* of the server.
THEOREM DeadServerIsLeftAlone == Spec => []NobodyCallsDeadServer
<1>1. IInv => NobodyCallsDeadServer
  <2> SUFFICES ASSUME IInv, server = "gone"
               PROVE  /\ \A q \in {pendingFunctors_[Base], functors[Base]} : \A k \in DOMAIN q :
                           q[k].op = "remove" => loop_[q[k].conn] # Base
                      /\ \A c \in Conns :
                           registered[c] /\ Alive(c) /\ ~collided =>
                             foreign[c] \/ phase[loop_[c]] = "ended"
    BY DEF NobodyCallsDeadServer
  <2>1. Types /\ LoopInv /\ Base \in Loops
    BY DEF IInv, SafeInv, Loops
  <2>2. ASSUME NEW q \in {pendingFunctors_[Base], functors[Base]}, NEW k \in DOMAIN q, q[k].op = "remove"
        PROVE  loop_[q[k].conn] # Base
    <3>1. q \in Seq(Functors)
      BY <2>1, <2>2 DEF Types
    <3>2. k \in 1..Len(q) /\ q[k] \in Functors
      BY <2>2, <3>1, LenProperties, ElementOfSeq
    <3>3. q[k].conn \in Conns /\ F("remove", q[k].conn) = q[k]
      BY <2>2, <3>2, FunctorIs
    <3>4. F("remove", q[k].conn) \in posted[Base]
      <4>1. posted[Base] = Elements(pendingFunctors_[Base]) \cup Elements(functors[Base])
        BY <2>1 DEF posted
      <4>2. q[k] \in Elements(q)
        BY <3>2 DEF Elements
      <4> QED BY <2>2, <3>3, <4>1, <4>2
    <3>5. Tasks(q[k].conn)
      BY <3>3 DEF IInv, SafeInv, ConnInv
    <3> QED BY <2>1, <3>4, <3>5 DEF Tasks
  <2>3. ASSUME NEW c \in Conns, registered[c], ~collided
        PROVE  foreign[c] \/ phase[loop_[c]] = "ended"
    <3>1. ConnInv(c) /\ Made(c)
      BY <2>3 DEF IInv, SafeInv, ConnInv, Birth, Made
    <3>2. CASE loop_[c] \in pool
      BY <2>1, <3>2 DEF LoopInv
    <3>3. CASE loop_[c] = Base
      <4>1. ~Entered(c)
        <5>1. name_[c] \in 0..(IdMod - 1)
          BY <2>1 DEF Types
        <5> QED BY <2>1, <5>1, ServerAssumption DEF LoopInv, Entered
      <4>2. Stages(c)
        BY <2>3, <3>1 DEF ConnInv, Life
      <4>3. state_[c] = "Disconnected" \/ phase[loop_[c]] = "ended"
        BY <3>3, <4>1, <4>2 DEF Stages
      <4> QED BY <2>3, <3>1, <4>3 DEF ConnInv, Registration
    <3> QED BY <3>1, <3>2, <3>3 DEF ConnInv, Birth
  <2> QED BY <2>2, <2>3
<1> QED BY <1>1, InvariantHolds, PTL

-----------------------------------------------------------------------------
(* Nothing that is queued gets lost *)

\* A step queues a functor, or none.
Pushes == \/ UNCHANGED pendingFunctors_
          \/ \E m \in Loops, o \in Ops, d \in Conns : queueInLoop(m, F(o, d))

\* Without running anything, a step leaves everything due.
LEMMA DueGrows ==
  ASSUME Types, Types', UNCHANGED <<functors, ran>>, Pushes, NEW k \in Loops, NEW op, NEW d,
         F(op, d) \in due[k]
  PROVE  F(op, d) \in due'[k]
<1>1. CASE UNCHANGED pendingFunctors_
  BY <1>1, QueuesKept
<1>2. ASSUME NEW m \in Loops, NEW o \in Ops, NEW e \in Conns, queueInLoop(m, F(o, e))
      PROVE  F(op, d) \in due'[k]
  <2>1. Queued(due, m, o, e)
    BY <1>2, QueuePushed
  <2> QED BY <2>1 DEF Queued
<1> QED BY <1>1, <1>2 DEF Pushes

\* When a functor runs, everything else stays due.
LEMMA DueButRun ==
  ASSUME Types, Types', NEW l \in Loops, NEW o, Running(l, o), UNCHANGED functors, Pushes,
         NEW k \in Loops, NEW op, NEW d, F(op, d) \in due[k]
  PROVE  F(op, d) \in due'[k] \/ (k = l /\ op = o /\ d = Current(l).conn)
<1>1. F(op, d) \in Taken(l)[k] \/ (k = l /\ op = o /\ d = Current(l).conn)
  BY TakenIs
<1>2. CASE UNCHANGED pendingFunctors_
  BY <1>1, <1>2, QueueTaken
<1>3. ASSUME NEW m \in Loops, NEW p \in Ops, NEW e \in Conns, queueInLoop(m, F(p, e)),
             F(op, d) \in Taken(l)[k]
      PROVE  F(op, d) \in due'[k]
  <2>1. Queued(Taken(l), m, p, e)
    BY <1>3, QueueTakenPushed
  <2> QED BY <1>3, <2>1 DEF Queued
<1> QED BY <1>1, <1>2, <1>3 DEF Pushes

\* Loop l runs a functor of kind o.
Does(l, o) ==
  \/ o = "established" /\ RunEstablished(l)
  \/ o = "destroyed" /\ RunDestroyed(l)
  \/ o = "remove" /\ RunRemove(l)
  \/ o = "send" /\ RunSend(l)
  \/ o = "writeComplete" /\ RunWriteComplete(l)

LEMMA DoesRun ==
  ASSUME NEW l \in Loops, NEW o, Does(l, o)
  PROVE  Running(l, o) /\ UNCHANGED functors
BY DEF Does, RunEstablished, RunDestroyed, RunRemove, RunSend, RunWriteComplete

\* Every step is a Swap, the end of a batch, or the run of a functor, or leaves the batches
\* alone.
LEMMA StepKinds ==
  ASSUME IInv, [Next]_vars
  PROVE  \/ \E l \in Loops : Swap(l) \/ EndBatch(l)
         \/ Pushes /\ UNCHANGED <<functors, ran>>
         \/ Pushes /\ \E l \in Loops : \E o \in Ops : Does(l, o)
<1> USE DEF serverVars, connVars, userVars, loopVars
<1>1. Types /\ Base \in Loops /\ \A c \in Conns : loop_[c] \in Loops
  BY DEF IInv, Types, Loops
<1>2. \A m \in Loops, o \in Ops, d \in Conns : queueInLoop(m, F(o, d)) => Pushes
  BY DEF Pushes
<1>3. UNCHANGED pendingFunctors_ => Pushes
  BY DEF Pushes
<1>4. "established" \in Ops /\ "destroyed" \in Ops /\ "remove" \in Ops /\ "send" \in Ops /\ "writeComplete" \in Ops
  BY DEF Ops, Owning, Raw
<1>5. ASSUME NEW c \in Conns, NEW l \in Loops, MaySend(c, l) PROVE Pushes
  BY <1>2, <1>3, <1>4, <1>5 DEF MaySend
<1>6. ASSUME NEW c \in Conns, removeConnectionInLoop(c) PROVE Pushes
  BY <1>1, <1>2, <1>3, <1>4, <1>6 DEF removeConnectionInLoop
<1>7. CASE UNCHANGED vars
  BY <1>3, <1>7 DEF vars
<1>8. CASE (\E loops \in SUBSET IoLoops : Start(loops)) \/ NoLocalAddress \/ handleAcceptError
  BY <1>3, <1>8 DEF Start, NoLocalAddress, handleAcceptError
<1>9. CASE Destruct \/ DestructDone \/ \E l \in pool : QuitLoop(l)
  BY <1>3, <1>9 DEF Destruct, DestructDone, QuitLoop
<1>10. ASSUME NEW c \in Conns, CallSend(c) \/ Release(c) PROVE Pushes /\ UNCHANGED <<functors, ran>>
  BY <1>3, <1>10 DEF CallSend, Release
<1>11. ASSUME NEW c \in Conns, NEW l \in Loops, newConnection(c, l) PROVE Pushes /\ UNCHANGED <<functors, ran>>
  <2>1. HandOver(c, l) /\ UNCHANGED <<functors, ran>>
    BY <1>11 DEF newConnection
  <2>2. MaySend(c, l) \/ queueInLoop(l, F("established", c))
    BY <2>1 DEF HandOver, connectEstablished
  <2> QED BY <1>2, <1>4, <1>5, <2>1, <2>2
<1>12. ASSUME NEW id \in DOMAIN connections_, DestructEntry(id) PROVE Pushes /\ UNCHANGED <<functors, ran>>
  <2>1. connections_[id] \in Conns
    BY <1>1, <1>12 DEF DestructEntry, Types
  <2> QED BY <1>1, <1>2, <1>3, <1>4, <1>12, <2>1 DEF DestructEntry
<1>13. ASSUME NEW c \in Conns, handleClose(c) PROVE Pushes /\ UNCHANGED <<functors, ran>>
  BY <1>1, <1>2, <1>4, <1>6, <1>13 DEF handleClose, removeConnection
<1>14. ASSUME NEW c \in Conns, WriteCompletes(c) \/ QueueSend(c) PROVE Pushes /\ UNCHANGED <<functors, ran>>
  BY <1>1, <1>2, <1>4, <1>14 DEF WriteCompletes, QueueSend
<1>15. ASSUME NEW l \in Loops, NEW o \in Ops, Does(l, o) PROVE Pushes
  <2>1. PICK c \in Conns : c = Current(l).conn
    BY <1>1, <1>15, DoesRun, RunsAhead
  <2>2. CASE RunEstablished(l)
    BY <1>5, <2>1, <2>2 DEF RunEstablished, connectEstablished
  <2>3. CASE RunDestroyed(l)
    BY <1>3, <2>3 DEF RunDestroyed
  <2>4. CASE RunRemove(l)
    BY <1>6, <2>1, <2>4 DEF RunRemove
  <2>5. CASE RunSend(l)
    BY <1>2, <1>3, <1>4, <2>1, <2>5 DEF RunSend
  <2>6. CASE RunWriteComplete(l)
    BY <1>3, <1>5, <2>1, <2>6 DEF RunWriteComplete
  <2> QED BY <1>15, <2>2, <2>3, <2>4, <2>5, <2>6 DEF Does
<1>16. ASSUME NEW l \in Loops, LoopStep(l)
       PROVE  EnterLoop(l) \/ Swap(l) \/ EndBatch(l) \/ \E o \in Ops : Does(l, o)
  BY <1>4, <1>16 DEF LoopStep, Does
<1>17. ASSUME NEW l \in Loops, EnterLoop(l) PROVE Pushes /\ UNCHANGED <<functors, ran>>
  BY <1>3, <1>17 DEF EnterLoop
<1> QED BY <1>7, <1>8, <1>9, <1>10, <1>11, <1>12, <1>13, <1>14, <1>15, <1>16, <1>17
        DEF Next, DestructorStep, UserStep

\* Loop l runs functor f.
Runs(l, f) == ran[l] < Len(functors[l]) /\ Current(l) = f /\ ran'[l] = ran[l] + 1

\* The queues lose nothing: a functor stays due until its loop runs it or ends.
StaysDue ==
  [][\A l \in Loops : \A f \in due[l] : f \in due'[l] \/ Runs(l, f) \/ phase'[l] = "ended"]_vars

\* queueInLoop, the swap of doPendingFunctors and the batches of all loops: whatever is
\* queued while a batch runs, no functor is dropped by a loop that goes on.
THEOREM FunctorsStayDue == Spec => StaysDue
<1> DEFINE Kept == \A l \in Loops : \A f \in due[l] : f \in due'[l] \/ Runs(l, f) \/ phase'[l] = "ended"
<1>1. ASSUME IInv, IInv', [Next]_vars PROVE Kept
  <2> SUFFICES ASSUME NEW k \in Loops, NEW f \in due[k]
               PROVE  f \in due'[k] \/ Runs(k, f) \/ phase'[k] = "ended"
    OBVIOUS
  <2>1. Types /\ Types' /\ LoopInv
    BY <1>1 DEF IInv, SafeInv
  <2>2. f \in Functors /\ f = F(f.op, f.conn)
    <3>1. Agenda(k) \in Seq(Functors) /\ due[k] = Elements(Agenda(k))
      BY <2>1, QueueParts
    <3>2. f \in Functors
      BY <3>1, ElementOfSeq DEF Elements
    <3> QED BY <3>2, FunctorIs
  <2>3. ASSUME NEW l \in Loops, Swap(l) PROVE f \in due'[k]
    BY <2>1, <2>3, QueueSwapped
  <2>4. ASSUME NEW l \in Loops, EndBatch(l) PROVE f \in due'[k] \/ phase'[k] = "ended"
    <3>1. k # l => due'[k] = due[k]
      BY <2>1, <2>4, QueueEnded
    <3>2. AfterBatch(l) # "ended" => due' = due
      BY <2>1, <2>4, QueueEnded
    <3>3. phase'[l] = AfterBatch(l)
      BY <2>1, <2>4 DEF EndBatch, Types
    <3> QED BY <3>1, <3>2, <3>3
  <2>5. CASE Pushes /\ UNCHANGED <<functors, ran>>
    BY <2>1, <2>2, <2>5, DueGrows
  <2>6. ASSUME NEW l \in Loops, NEW o \in Ops, Does(l, o), Pushes
        PROVE  f \in due'[k] \/ Runs(k, f)
    <3>1. f \in due'[k] \/ (k = l /\ f.op = o /\ f.conn = Current(l).conn)
      BY <2>1, <2>2, <2>6, DoesRun, DueButRun
    <3>2. ASSUME k = l, f.op = o, f.conn = Current(l).conn PROVE Runs(k, f)
      <4>1. /\ ran[l] < Len(functors[l]) /\ Current(l).op = o
            /\ ran' = [ran EXCEPT ![l] = @ + 1]
        BY <2>6, DoesRun DEF Running
      <4>2. Current(l) = F(o, Current(l).conn)
        BY <2>1, <4>1, RunsFirst, FunctorIs
      <4>3. ran'[l] = ran[l] + 1
        BY <2>1, <4>1 DEF Types
      <4> QED BY <2>2, <3>2, <4>1, <4>2, <4>3 DEF Runs
    <3> QED BY <3>1, <3>2
  <2> QED BY <1>1, <2>3, <2>4, <2>5, <2>6, StepKinds
<1>2. IInv /\ IInv' /\ [Next]_vars => Kept
  BY <1>1
<1> HIDE DEF Kept
<1>3. Spec => [][Kept]_vars
  BY <1>2, InvariantHolds, PTL DEF Spec
<1> QED BY <1>3 DEF StaysDue, Kept

-----------------------------------------------------------------------------
(* No connection gets stuck between two loops *)

LEMMA AmbientNext ==
  ASSUME IInv, [Next]_vars
  PROVE  Ambient
<1> USE DEF serverVars, connVars, userVars, loopVars, Ambient
<1>1. Types
  BY DEF IInv
<1>2. CASE UNCHANGED vars
  BY <1>2 DEF vars
<1>3. CASE (\E loops \in SUBSET IoLoops : Start(loops)) \/ NoLocalAddress \/ handleAcceptError
  BY <1>3 DEF Start, NoLocalAddress, handleAcceptError
<1>4. CASE Destruct \/ DestructorStep
  BY <1>4 DEF Destruct, DestructorStep, DestructEntry, QuitLoop, DestructDone, EntriesDone
<1>5. ASSUME NEW c \in Conns, NEW l \in Loops, newConnection(c, l) PROVE Ambient
  <2>1. ~collided' => ~collided
    BY <1>5 DEF newConnection, Emplace
  <2> QED BY <1>5, <2>1 DEF newConnection
<1>6. ASSUME NEW c \in Conns, handleClose(c) \/ WriteCompletes(c) \/ UserStep(c) PROVE Ambient
  BY <1>6 DEF handleClose, WriteCompletes, UserStep, CallSend, QueueSend, Release
<1>7. ASSUME NEW l \in Loops, EnterLoop(l) \/ Swap(l) \/ EndBatch(l) PROVE Ambient
  <2>1. phase[l] # "ended" /\ \A k \in Loops : k # l => phase'[k] = phase[k]
    BY <1>1, <1>7 DEF EnterLoop, Swap, Polling, Free, EndBatch, Types
  <2> QED BY <1>7, <2>1 DEF EnterLoop, Swap, EndBatch
<1>8. ASSUME NEW l \in Loops, NEW o \in Ops, Does(l, o) PROVE Ambient
  BY <1>8 DEF Does, RunEstablished, RunDestroyed, RunRemove, RunSend, RunWriteComplete
<1>9. \A l \in Loops : LoopStep(l) => EnterLoop(l) \/ Swap(l) \/ EndBatch(l) \/ \E o \in Ops : Does(l, o)
  BY DEF LoopStep, Does, Ops, Owning, Raw
<1> QED BY <1>2, <1>3, <1>4, <1>5, <1>6, <1>7, <1>8, <1>9 DEF Next

\* The functors that carry a connection stay due until they run, or their loop ends.
LEMMA CarriedOn ==
  ASSUME IInv, IInv', [Next]_vars, NEW k \in Loops, NEW op, NEW d \in Conns,
         F(op, d) \in due[k], F(op, d) \notin due'[k], phase'[k] # "ended"
  PROVE  Does(k, op) /\ d = Current(k).conn
<1>1. Types /\ Types' /\ LoopInv
  BY DEF IInv, SafeInv
<1>2. ASSUME NEW l \in Loops, Swap(l) PROVE FALSE
  BY <1>1, <1>2, QueueSwapped
<1>3. ASSUME NEW l \in Loops, EndBatch(l) PROVE FALSE
  <2>1. k # l => due'[k] = due[k]
    BY <1>1, <1>3, QueueEnded
  <2>2. AfterBatch(l) # "ended" => due' = due
    BY <1>1, <1>3, QueueEnded
  <2>3. phase'[l] = AfterBatch(l)
    BY <1>1, <1>3 DEF EndBatch, Types
  <2> QED BY <2>1, <2>2, <2>3
<1>4. CASE Pushes /\ UNCHANGED <<functors, ran>>
  BY <1>1, <1>4, DueGrows
<1>5. ASSUME NEW l \in Loops, NEW o \in Ops, Does(l, o), Pushes
      PROVE  Does(k, op) /\ d = Current(k).conn
  <2>1. k = l /\ op = o /\ d = Current(l).conn
    BY <1>1, <1>5, DoesRun, DueButRun
  <2> QED BY <1>5, <2>1
<1> QED BY <1>2, <1>3, <1>4, <1>5, StepKinds

\* What a step may do to the state of connection d and to its entry.
LEMMA StateSteps ==
  ASSUME IInv, [Next]_vars, NEW d \in Conns
  PROVE  \/ \E l \in Loops : newConnection(d, l)
         \/ handleClose(d)
         \/ /\ loop_'[d] = loop_[d] /\ name_'[d] = name_[d]
            /\ connections_'[name_[d]] = d => connections_[name_[d]] = d
            /\ \/ state_'[d] = state_[d]
               \/ state_'[d] = "Connected"
               \/ state_'[d] = "Disconnected" /\ (Leaving(d) \/ server = "dtor")
<1> USE DEF serverVars, connVars, userVars, loopVars
<1> DEFINE Same == /\ loop_'[d] = loop_[d] /\ name_'[d] = name_[d]
                   /\ connections_'[name_[d]] = d => connections_[name_[d]] = d
           Moves == \/ state_'[d] = state_[d]
                    \/ state_'[d] = "Connected"
                    \/ state_'[d] = "Disconnected" /\ (Leaving(d) \/ server = "dtor")
<1>1. Types /\ name_[d] \in 0..(IdMod - 1) /\ d # NoConn
  BY ServerAssumption DEF IInv, Types
<1>2. CASE UNCHANGED vars
  BY <1>2 DEF vars
<1>3. CASE (\E loops \in SUBSET IoLoops : Start(loops)) \/ NoLocalAddress \/ handleAcceptError
  BY <1>3 DEF Start, NoLocalAddress, handleAcceptError
<1>4. CASE Destruct \/ DestructDone \/ \E l \in pool : QuitLoop(l)
  BY <1>4 DEF Destruct, QuitLoop, DestructDone
<1>5. ASSUME NEW id \in DOMAIN connections_, DestructEntry(id) PROVE Same /\ Moves
  <2>1. connections_' = [connections_ EXCEPT ![id] = NoConn] /\ UNCHANGED <<loop_, name_>>
    BY <1>5 DEF DestructEntry
  <2>2. Same
    BY <1>1, <2>1 DEF Types
  <2>3. connections_[id] \in Conns /\ server = "dtor"
    BY <1>1, <1>5 DEF DestructEntry, Types
  <2>4. state_' = state_ \/ state_' = [state_ EXCEPT ![connections_[id]] = "Disconnected"]
    BY <1>5 DEF DestructEntry, connectDestroyed
  <2>5. Moves
    BY <1>1, <2>3, <2>4 DEF Types
  <2> QED BY <2>2, <2>5
<1>6. ASSUME NEW c \in Conns, NEW l \in Loops, newConnection(c, l), c # d PROVE Same /\ Moves
  <2>1. /\ loop_' = [loop_ EXCEPT ![c] = l]
        /\ name_' = [name_ EXCEPT ![c] = nextConnId_]
        /\ connections_' = [connections_ EXCEPT ![nextConnId_] = IF @ = NoConn THEN c ELSE @]
        /\ HandOver(c, l)
    BY <1>6 DEF newConnection, Emplace
  <2>2. loop_'[d] = loop_[d] /\ name_'[d] = name_[d]
    BY <1>1, <1>6, <2>1 DEF Types
  <2>3. connections_'[name_[d]] = d => connections_[name_[d]] = d
    <3>1. connections_ \in [0..(IdMod - 1) -> Conns \cup {NoConn}]
      BY <1>1 DEF Types
    <3> QED BY <1>1, <1>6, <2>1, <3>1
  <2>4. state_'[d] = state_[d]
    BY <1>1, <1>6, <2>1 DEF HandOver, connectEstablished, Types
  <2> QED BY <2>2, <2>3, <2>4
<1>7. ASSUME NEW c \in Conns, handleClose(c), c # d PROVE Same /\ Moves
  <2>1. /\ state_' = [state_ EXCEPT ![c] = "Disconnected"]
        /\ UNCHANGED <<loop_, name_>>
    BY <1>7 DEF handleClose, ClosedState
  <2>2. connections_' = connections_ \/ connections_' = [connections_ EXCEPT ![name_[c]] = NoConn]
    BY <1>7 DEF handleClose, removeConnection, removeConnectionInLoop
  <2>3. connections_'[name_[d]] = d => connections_[name_[d]] = d
    BY <1>1, <2>2 DEF Types
  <2>4. state_'[d] = state_[d]
    BY <1>1, <1>7, <2>1 DEF Types
  <2> QED BY <2>1, <2>3, <2>4
<1>8. ASSUME NEW c \in Conns, WriteCompletes(c) \/ UserStep(c) PROVE Same /\ Moves
  BY <1>8 DEF WriteCompletes, UserStep, CallSend, QueueSend, Release
<1>9. ASSUME NEW l \in Loops,
             EnterLoop(l) \/ Swap(l) \/ EndBatch(l) \/ RunSend(l) \/ RunWriteComplete(l)
      PROVE  Same /\ Moves
  BY <1>9 DEF EnterLoop, Swap, EndBatch, RunSend, RunWriteComplete
<1>10. ASSUME NEW l \in Loops, RunEstablished(l) PROVE Same /\ Moves
  <2>1. Current(l).conn \in Conns
    BY <1>1, <1>10, RunsAhead DEF RunEstablished
  <2>2. state_'[d] = state_[d] \/ state_'[d] = "Connected"
    BY <1>1, <1>10, <2>1 DEF RunEstablished, connectEstablished, Types
  <2> QED BY <1>10, <2>2 DEF RunEstablished
<1>11. ASSUME NEW l \in Loops, RunDestroyed(l) PROVE Same /\ Moves
  <2>1. PICK c \in Conns : c = Current(l).conn /\ F("destroyed", c) \in due[l]
    BY <1>1, <1>11, RunsAhead DEF RunDestroyed
  <2>2. l = loop_[c]
    BY <2>1 DEF IInv, SafeInv, ConnInv, Tasks
  <2>3. state_' = [state_ EXCEPT ![c] = "Disconnected"]
    BY <1>11, <2>1 DEF RunDestroyed, connectDestroyed
  <2>4. d # c => state_'[d] = state_[d]
    BY <1>1, <2>3 DEF Types
  <2>5. d = c => state_'[d] = "Disconnected" /\ Leaving(d)
    BY <1>1, <2>1, <2>2, <2>3 DEF Types, Leaving
  <2> QED BY <1>11, <2>4, <2>5 DEF RunDestroyed
<1>12. ASSUME NEW l \in Loops, RunRemove(l) PROVE Same /\ Moves
  <2>1. PICK c \in Conns : c = Current(l).conn
    BY <1>1, <1>12, RunsAhead DEF RunRemove
  <2>2. connections_' = connections_ \/ connections_' = [connections_ EXCEPT ![name_[c]] = NoConn]
    BY <1>12, <2>1 DEF RunRemove, removeConnectionInLoop
  <2>3. connections_'[name_[d]] = d => connections_[name_[d]] = d
    BY <1>1, <2>2 DEF Types
  <2> QED BY <1>12, <2>3 DEF RunRemove
<1> QED BY <1>2, <1>3, <1>4, <1>5, <1>6, <1>7, <1>8, <1>9, <1>10, <1>11, <1>12
        DEF Next, DestructorStep, LoopStep

\* A connection that is Connecting has its connectEstablished before it, and a closed one
\* that is still in the map its removal.
Pending(c) ==
  /\ state_[c] = "Connecting" => F("established", c) \in due[loop_[c]] \/ phase[loop_[c]] = "ended"
  /\ ~collided /\ server = "up" /\ state_[c] = "Disconnected" /\ Entered(c) => F("remove", c) \in due[Base]

LEMMA PendingNext ==
  ASSUME IInv, IInv', [Next]_vars, NEW c \in Conns, Pending(c)
  PROVE  Pending(c)'
<1> USE DEF serverVars, connVars, userVars, loopVars
<1>1. /\ Types /\ Types' /\ LoopInv' /\ ConnInv(c) /\ Ambient
      /\ loop_[c] \in Loops /\ loop_'[c] \in Loops /\ Base \in Loops
      /\ name_[c] \in 0..(IdMod - 1) /\ c # NoConn
  BY AmbientNext, ServerAssumption DEF IInv, SafeInv, Types, Loops
<1>2. phase'[Base] # "ended"
  BY <1>1, ServerAssumption DEF LoopInv, Types
<1>3. ASSUME state_'[c] = "Connecting"
      PROVE  F("established", c) \in due'[loop_'[c]] \/ phase'[loop_'[c]] = "ended"
  <2>1. ASSUME NEW l \in Loops, newConnection(c, l) PROVE F("established", c) \in due'[l] /\ loop_'[c] = l
    <3>1. HandOver(c, l) /\ loop_' = [loop_ EXCEPT ![c] = l] /\ UNCHANGED <<functors, ran>>
      BY <2>1 DEF newConnection
    <3>2. l # Base
      BY <1>1, <1>3, <3>1 DEF HandOver, connectEstablished, Types
    <3>3. Queued(due, l, "established", c)
      BY <1>1, <3>1, <3>2, QueuePushed DEF HandOver, Ops, Owning
    <3> QED BY <1>1, <3>1, <3>3 DEF Queued, Types
  <2>2. ASSUME state_[c] = "Connecting", loop_'[c] = loop_[c]
        PROVE  F("established", c) \in due'[loop_[c]] \/ phase'[loop_[c]] = "ended"
    <3>1. F("established", c) \in due[loop_[c]] \/ phase'[loop_[c]] = "ended"
      BY <1>1, <2>2 DEF Pending, Ambient
    <3>2. ASSUME Does(loop_[c], "established"), c = Current(loop_[c]).conn PROVE FALSE
      BY <1>1, <1>3, <3>2 DEF Does, RunEstablished, connectEstablished, Types
    <3> QED BY <1>1, <3>1, <3>2, CarriedOn
  <2>3. ~handleClose(c)
    BY <1>1, <1>3 DEF handleClose, ClosedState, Types
  <2> QED BY <1>3, <2>1, <2>2, <2>3, StateSteps
<1>4. ASSUME ~collided', server' = "up", state_'[c] = "Disconnected", Entered(c)'
      PROVE  F("remove", c) \in due'[Base]
  <2>1. \A l \in Loops : ~newConnection(c, l)
    BY <1>1, <1>4 DEF newConnection, HandOver, connectEstablished, Types
  <2>2. CASE handleClose(c)
    <3>1. removeConnection(c) /\ UNCHANGED <<name_, functors, ran>>
      BY <2>2 DEF handleClose
    <3>2. connections_'[name_[c]] = c
      BY <1>4, <3>1 DEF Entered
    <3>3. loop_[c] # Base
      BY <1>1, <3>1, <3>2 DEF removeConnection, removeConnectionInLoop, Types
    <3>4. Queued(due, Base, "remove", c)
      BY <1>1, <3>1, <3>3, QueuePushed DEF removeConnection, Ops, Owning
    <3> QED BY <1>1, <3>4 DEF Queued
  <2>3. CASE ~handleClose(c)
    <3>1. /\ name_'[c] = name_[c] /\ Entered(c)
          /\ state_[c] = "Disconnected" \/ Leaving(c) \/ server = "dtor"
      BY <1>4, <2>1, <2>3, StateSteps DEF Entered
    <3>2. ~collided /\ server \in {"up", "new"}
      BY <1>1, <1>4 DEF Ambient
    <3>3. Made(c) /\ server = "up"
      <4>1. MapInv
        BY DEF IInv, SafeInv
      <4>2. Made(c)
        BY <1>1, <3>1, <4>1 DEF MapInv, Entered
      <4> QED BY <1>1, <3>2, <4>2 DEF ConnInv, Birth
    <3>4. ~Leaving(c)
      BY <1>1, <3>1, <3>2, <3>3 DEF ConnInv, Life, Stages
    <3>5. F("remove", c) \in due[Base]
      BY <3>1, <3>2, <3>3, <3>4 DEF Pending
    <3>6. ASSUME Does(Base, "remove"), c = Current(Base).conn PROVE FALSE
      <4>1. removeConnectionInLoop(c)
        BY <3>6 DEF Does, RunRemove
      <4>2. connections_'[name_[c]] = NoConn
        BY <1>1, <4>1 DEF removeConnectionInLoop, Types
      <4> QED BY <1>1, <1>4, <3>1, <4>2 DEF Entered
    <3> QED BY <1>1, <1>2, <3>5, <3>6, CarriedOn
  <2> QED BY <2>2, <2>3
<1> QED BY <1>3, <1>4 DEF Pending

\* A connection is never stuck between two loops: connectEstablished is due on its loop as
\* long as it is Connecting, and when it is closed either removeConnectionInLoop is due on
\* the base loop, or connectDestroyed on its own, or it has run.
OnItsWay ==
  \A c \in Conns :
    /\ state_[c] = "Connecting" => F("established", c) \in due[loop_[c]] \/ phase[loop_[c]] = "ended"
    /\ server = "up" /\ ~collided /\ state_[c] = "Disconnected" =>
         F("remove", c) \in due[Base] \/ F("destroyed", c) \in due[loop_[c]] \/ destroyed[c] = 1

\* newConnection and handleClose hand a connection to another loop in several steps, in
\* which other connections, closes and batches come between; it never ends up where no
\* functor carries it on.
THEOREM ConnectionsGoOn == Spec => []OnItsWay
<1> DEFINE PendingInv == \A c \in Conns : Pending(c)
<1>1. Init => PendingInv
  BY DEF Init, Pending
<1>2. IInv /\ IInv' /\ PendingInv /\ [Next]_vars => PendingInv'
  BY PendingNext
<1>3. IInv /\ PendingInv => OnItsWay
  <2> SUFFICES ASSUME IInv, PendingInv, NEW c \in Conns, server = "up", ~collided, state_[c] = "Disconnected"
               PROVE  F("remove", c) \in due[Base] \/ F("destroyed", c) \in due[loop_[c]] \/ destroyed[c] = 1
    BY DEF OnItsWay, Pending
  <2>1. Stages(c) /\ loop_[c] \in Loops
    BY DEF IInv, SafeInv, ConnInv, Life, Made, Types
  <2> QED BY <2>1, LoopsRunWhileUp DEF Pending, Stages, Leaving
<1> HIDE DEF PendingInv
<1> QED BY <1>1, <1>2, <1>3, InvariantHolds, PTL DEF Spec

=============================================================================
