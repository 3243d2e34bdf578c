------------------------------ MODULE TaskQueue ------------------------------
(***************************************************************************)
(* What EventLoop::queueInLoop promises its callers, with no threads, no   *)
(* batches and no wakeups: a submitted functor waits in one FIFO queue and *)
(* the loop's thread runs the functors one at a time, in the order they    *)
(* were submitted.  A functor is the identity of one submission, so it is  *)
(* submitted once.  EventLoop.tla implements this module.                  *)
(***************************************************************************)
EXTENDS Naturals, Sequences

CONSTANT Functors

VARIABLES queue,  \* submitted, not yet run
          done    \* run, oldest first

tqVars == <<queue, done>>

Init ==
  /\ queue = <<>>
  /\ done = <<>>

\* f is neither waiting nor run.
Unseen(f) ==
  /\ \A i \in 1..Len(queue) : queue[i] # f
  /\ \A i \in 1..Len(done) : done[i] # f

Submit(f) ==
  /\ Unseen(f)
  /\ queue' = Append(queue, f)
  /\ UNCHANGED done

RunNext ==
  /\ queue # <<>>
  /\ done' = Append(done, Head(queue))
  /\ queue' = Tail(queue)

Next ==
  \/ \E f \in Functors : Submit(f)
  \/ RunNext

Spec == Init /\ [][Next]_tqVars
=============================================================================
