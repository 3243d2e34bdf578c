------------------------------ MODULE ByteQueue ------------------------------
(***************************************************************************)
(* What a Buffer promises its users: a FIFO queue of bytes.  Bytes enter   *)
(* at the back and leave at the front, and an operation that hands bytes   *)
(* out hands out exactly the ones it removes.  Buffer.tla implements it.   *)
(***************************************************************************)
EXTENDS Naturals, Sequences

CONSTANT Bytes

VARIABLES content,  \* the bytes in the queue, oldest first
          moved     \* the bytes the last operation brought in or handed out

bqVars == <<content, moved>>

Init == content = <<>> /\ moved = <<>>

Put ==
  /\ moved' \in Seq(Bytes)
  /\ content' = content \o moved'

\* Remove the first n bytes and hand them out.
Take(n) ==
  /\ moved' = SubSeq(content, 1, n)
  /\ content' = SubSeq(content, n + 1, Len(content))

\* Remove the first n bytes and forget them.
Drop(n) ==
  /\ moved' = <<>>
  /\ content' = SubSeq(content, n + 1, Len(content))

Next ==
  \/ Put
  \/ \E n \in 0..Len(content) : Take(n) \/ Drop(n)

Spec == Init /\ [][Next]_bqVars
=============================================================================
