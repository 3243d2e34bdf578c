--------------------------- MODULE EventLoopProofs ---------------------------
(***************************************************************************)
(* Proofs about EventLoop, for every set of functors and threads and every *)
(* eventfd limit.                                                          *)
(***************************************************************************)
EXTENDS EventLoop, SequenceTheorems, TLAPS

-----------------------------------------------------------------------------
(* Type correctness *)

\* Growing the set of submitted functors keeps the sequences over it typed.
LEMMA SubmittedGrows ==
  ASSUME NEW S, NEW f, NEW s \in Seq(S)
  PROVE  s \in Seq(S \cup {f}) /\ Append(s, f) \in Seq(S \cup {f})
<1>1. s \in Seq(S \cup {f})
  BY SeqMonotonic
<1> QED
  BY <1>1, AppendProperties

\* Every variable keeps the type its declaration in EventLoop.hpp gives it, and
\* the queues only ever hold submitted functors.
THEOREM TypeCorrect == Spec => []TypeOK
<1> USE EventfdMaxAssumption
<1>1. Init => TypeOK
  <2> SUFFICES ASSUME Init PROVE TypeOK
    OBVIOUS
  <2> USE DEF Init
  <2>1. <<>> \in Seq(submitted)
    BY EmptySeq
  <2>2. call \in [Threads -> {"idle", "wakeup"}]
    OBVIOUS
  <2>3. wakeupFd_ \in 0..EventfdMax
    OBVIOUS
  <2> QED
    BY <2>1, <2>2, <2>3 DEF TypeOK
<1>2. TypeOK /\ [Next]_vars => TypeOK'
  <2> SUFFICES ASSUME TypeOK, [Next]_vars
               PROVE  TypeOK'
    OBVIOUS
  <2> USE DEF TypeOK, loopVars, queueVars, ghostVars
  <2>1. CASE Loop
    BY <2>1 DEF Loop
  <2>2. CASE WhileTest
    BY <2>2 DEF WhileTest
  <2>3. ASSUME NEW active \in SUBSET Channels, PollReady(active)
        PROVE  TypeOK'
    BY <2>3 DEF PollReady
  <2>4. CASE PollTimeout
    BY <2>4 DEF PollTimeout
  <2>5. CASE HandleRead
    BY <2>5 DEF HandleRead
  <2>6. CASE HandleIo
    BY <2>6 DEF HandleIo
  <2>7. CASE DoPendingFunctors
    BY <2>7, EmptySeq DEF DoPendingFunctors
  <2>8. CASE RunFunctor
    <3>1. Head(functors) \in submitted /\ Tail(functors) \in Seq(submitted)
      BY <2>8, HeadTailProperties DEF RunFunctor
    <3>2. ran' \in Seq(submitted)
      BY <2>8, <3>1, AppendProperties DEF RunFunctor
    <3> QED
      BY <2>8, <3>1, <3>2 DEF RunFunctor
  <2>9. CASE FunctorsDone
    BY <2>9 DEF FunctorsDone
  <2>10. ASSUME NEW f \in Functors, QueueInLoopThread(f)
         PROVE  TypeOK'
    <3>1. /\ pendingFunctors_' \in Seq(submitted')
          /\ functors' \in Seq(submitted')
          /\ ran' \in Seq(submitted')
      BY <2>10, SubmittedGrows DEF QueueInLoopThread
    <3>2. wakeupFd_' \in 0..EventfdMax
      BY <2>10 DEF QueueInLoopThread, wakeup
    <3> QED
      BY <2>10, <3>1, <3>2 DEF QueueInLoopThread
  <2>11. ASSUME NEW f \in Functors, RunInLoopThread(f)
         PROVE  TypeOK'
    <3>1. /\ pendingFunctors_' \in Seq(submitted')
          /\ functors' \in Seq(submitted')
          /\ ran' \in Seq(submitted')
      BY <2>11, SubmittedGrows DEF RunInLoopThread
    <3> QED
      BY <2>11, <3>1 DEF RunInLoopThread
  <2>12. CASE QuitInLoopThread
    BY <2>12 DEF QuitInLoopThread
  <2>13. ASSUME NEW p \in Threads, NEW f \in Functors, QueueInLoop(p, f)
         PROVE  TypeOK'
    <3>1. /\ pendingFunctors_' \in Seq(submitted')
          /\ functors' \in Seq(submitted')
          /\ ran' \in Seq(submitted')
      BY <2>13, SubmittedGrows DEF QueueInLoop
    <3> QED
      BY <2>13, <3>1 DEF QueueInLoop
  <2>14. ASSUME NEW p \in Threads, Quit(p)
         PROVE  TypeOK'
    BY <2>14 DEF Quit
  <2>15. ASSUME NEW p \in Threads, Wakeup(p)
         PROVE  TypeOK'
    BY <2>15 DEF Wakeup, wakeup
  <2>16. CASE UNCHANGED vars
    BY <2>16 DEF vars
  <2> QED
    BY <2>1, <2>2, <2>3, <2>4, <2>5, <2>6, <2>7, <2>8, <2>9, <2>10, <2>11,
       <2>12, <2>13, <2>14, <2>15, <2>16
       DEF Next, LoopStep, LoopCall, ThreadCall
<1> QED
  BY <1>1, <1>2, PTL DEF Spec

-----------------------------------------------------------------------------
(* No wakeup is lost *)

\* NoLostWakeup is not inductive: what matters at the poll is decided while the
\* previous batch runs.  The strengthening asks for the wakeup everywhere but
\* in the event phase, whose end empties the queue.
WakeupInv ==
  /\ pc # "events" /\ LatePending => WakeupDue
  /\ pc = "poll" /\ quit_ => WakeupDue
  /\ pc = "functors" => callingPendingFunctors_

\* A write to the eventfd leaves it readable, also at its limit.
LEMMA WakeupReadable == TypeOK /\ wakeup => wakeupFd_' > 0
BY EventfdMaxAssumption DEF TypeOK, wakeup

\* The queue after a push holds a late functor only if it did before or the
\* pushed functor is late.
LEMMA PushLate ==
  ASSUME NEW f, TypeOK, pendingFunctors_' = Append(pendingFunctors_, f),
         early \subseteq early', LatePending'
  PROVE  LatePending \/ f \notin early'
<1>1. PICK i \in 1..Len(pendingFunctors_') : pendingFunctors_'[i] \notin early'
  BY DEF LatePending
<1>2. CASE i \in 1..Len(pendingFunctors_)
  BY <1>1, <1>2 DEF LatePending, TypeOK
<1>3. CASE i = Len(pendingFunctors_) + 1
  BY <1>1, <1>3 DEF TypeOK
<1> QED
  BY <1>2, <1>3 DEF TypeOK

\* WakeupInv is kept by every step of a well-typed loop.
LEMMA WakeupInvStep == TypeOK /\ TypeOK' /\ WakeupInv /\ [Next]_vars => WakeupInv'
<1> SUFFICES ASSUME TypeOK, TypeOK', WakeupInv, [Next]_vars
             PROVE  WakeupInv'
  OBVIOUS
<1> USE DEF WakeupInv, loopVars, queueVars, ghostVars
<1>1. CASE Loop
  BY <1>1 DEF Loop, LatePending, WakeupDue
<1>2. CASE WhileTest
  BY <1>2 DEF WhileTest, LatePending, WakeupDue
<1>3. ASSUME NEW active \in SUBSET Channels, PollReady(active)
      PROVE  WakeupInv'
  BY <1>3 DEF PollReady
<1>4. CASE PollTimeout
  BY <1>4 DEF PollTimeout
<1>5. CASE HandleRead
  BY <1>5 DEF HandleRead
<1>6. CASE HandleIo
  BY <1>6 DEF HandleIo
<1>7. CASE DoPendingFunctors
  <2>1. ~LatePending'
    BY <1>7 DEF DoPendingFunctors, LatePending
  <2> QED
    BY <1>7, <2>1 DEF DoPendingFunctors
<1>8. CASE RunFunctor
  BY <1>8 DEF RunFunctor, LatePending, WakeupDue
<1>9. CASE FunctorsDone
  BY <1>9 DEF FunctorsDone, LatePending, WakeupDue
<1>10. ASSUME NEW f \in Functors, QueueInLoopThread(f)
       PROVE  WakeupInv'
  <2>1. UNCHANGED <<pc, quit_, callingPendingFunctors_, call>>
    BY <1>10 DEF QueueInLoopThread
  <2>2. pc # "poll"
    BY <1>10 DEF QueueInLoopThread, InCallback
  <2>3. CASE callingPendingFunctors_
    <3>1. WakeupDue'
      BY <1>10, <2>3, WakeupReadable DEF QueueInLoopThread, WakeupDue
    <3> QED
      BY <2>1, <3>1
  <2>4. CASE ~callingPendingFunctors_ /\ pc = "out"
    <3>1. LatePending' => LatePending
      BY <1>10, <2>4, PushLate DEF QueueInLoopThread
    <3>2. WakeupDue => WakeupDue'
      BY <1>10, <2>4 DEF QueueInLoopThread, WakeupDue
    <3> QED
      BY <2>1, <2>4, <3>1, <3>2
  <2>5. CASE ~callingPendingFunctors_ /\ pc = "events"
    BY <2>1, <2>5
  <2> QED
    BY <1>10, <2>3, <2>4, <2>5 DEF QueueInLoopThread, InCallback
<1>11. ASSUME NEW f \in Functors, RunInLoopThread(f)
       PROVE  WakeupInv'
  BY <1>11 DEF RunInLoopThread, LatePending, WakeupDue
<1>12. CASE QuitInLoopThread
  BY <1>12 DEF QuitInLoopThread, InCallback, LatePending, WakeupDue
<1>13. ASSUME NEW p \in Threads, NEW f \in Functors, QueueInLoop(p, f)
       PROVE  WakeupInv'
  <2>1. WakeupDue'
    BY <1>13 DEF QueueInLoop, WakeupDue, TypeOK
  <2> QED
    BY <1>13, <2>1 DEF QueueInLoop
<1>14. ASSUME NEW p \in Threads, Quit(p)
       PROVE  WakeupInv'
  <2>1. WakeupDue'
    BY <1>14 DEF Quit, WakeupDue, TypeOK
  <2> QED
    BY <1>14, <2>1 DEF Quit
<1>15. ASSUME NEW p \in Threads, Wakeup(p)
       PROVE  WakeupInv'
  <2>1. WakeupDue'
    BY <1>15, WakeupReadable DEF Wakeup, WakeupDue
  <2> QED
    BY <1>15, <2>1 DEF Wakeup
<1>16. CASE UNCHANGED vars
  BY <1>16 DEF vars, LatePending, WakeupDue
<1> QED
  BY <1>1, <1>2, <1>3, <1>4, <1>5, <1>6, <1>7, <1>8, <1>9, <1>10, <1>11,
     <1>12, <1>13, <1>14, <1>15, <1>16
     DEF Next, LoopStep, LoopCall, ThreadCall

LEMMA WakeupInvariant == Spec => []WakeupInv
<1>1. Init => WakeupInv
  BY DEF Init, WakeupInv, LatePending
<1> QED
  BY <1>1, WakeupInvStep, TypeCorrect, PTL DEF Spec

\* queueInLoop loses no wakeup, whatever the threads, the functors and the
\* eventfd's limit: the loop never blocks in epoll_wait with work and no wakeup.
THEOREM WakeupNeverLost == Spec => []NoLostWakeup
<1>1. WakeupInv => NoLostWakeup
  BY DEF WakeupInv, NoLostWakeup
<1> QED
  BY <1>1, WakeupInvariant, PTL

\* quit() from any thread gets the loop out of epoll_wait.
THEOREM QuitWakesLoop == Spec => []QuitInterruptsPoll
<1>1. WakeupInv => QuitInterruptsPoll
  BY DEF WakeupInv, QuitInterruptsPoll
<1> QED
  BY <1>1, WakeupInvariant, PTL

-----------------------------------------------------------------------------
(* The batches implement one FIFO queue *)

\* Pushing on the pending queue pushes on the whole queue.
LEMMA ConcatAppend ==
  ASSUME NEW S, NEW s \in Seq(S), NEW t \in Seq(S), NEW f \in S
  PROVE  s \o Append(t, f) = Append(s \o t, f)
<1>1. Append(t, f) = t \o <<f>> /\ Append(s \o t, f) = (s \o t) \o <<f>>
  BY AppendIsConcat, ConcatProperties
<1>2. <<f>> \in Seq(S)
  OBVIOUS
<1> QED
  BY <1>1, <1>2, ConcatAssociative

\* Taking the head of the batch takes the head of the whole queue.
LEMMA ConcatHeadTail ==
  ASSUME NEW S, NEW s \in Seq(S), NEW t \in Seq(S), s # <<>>
  PROVE  /\ s \o t # <<>>
         /\ Head(s \o t) = Head(s)
         /\ Tail(s \o t) = Tail(s) \o t
<1> DEFINE c == s \o t
<1>1. c \in Seq(S) /\ Len(c) = Len(s) + Len(t) /\ Len(s) \in Nat \ {0} /\ Len(t) \in Nat
  BY ConcatProperties, EmptySeq, LenProperties
<1>2. c # <<>>
  BY <1>1, EmptySeq
<1>3. Head(c) = Head(s)
  BY <1>1, <1>2, ConcatProperties
<1>4. Tail(c) = Tail(s) \o t
  <2>1. Tail(s) \in Seq(S) /\ Len(Tail(s)) = Len(s) - 1
    BY HeadTailProperties
  <2>2. Tail(c) \in Seq(S) /\ Len(Tail(c)) = Len(c) - 1
    BY <1>1, <1>2, HeadTailProperties
  <2>3. Tail(s) \o t \in Seq(S) /\ Len(Tail(s) \o t) = Len(Tail(c))
    BY <1>1, <2>1, <2>2, ConcatProperties
  <2>4. ASSUME NEW i \in 1..Len(Tail(c))
        PROVE  Tail(c)[i] = (Tail(s) \o t)[i]
    <3>1. Tail(c)[i] = c[i+1]
      BY <1>1, <1>2, HeadTailProperties
    <3>2. c[i+1] = IF i + 1 <= Len(s) THEN s[i+1] ELSE t[i + 1 - Len(s)]
      BY <1>1, <2>2, ConcatProperties
    <3>3. (Tail(s) \o t)[i] = IF i <= Len(s) - 1 THEN Tail(s)[i] ELSE t[i - (Len(s) - 1)]
      BY <1>1, <2>1, <2>2, ConcatProperties
    <3>4. i <= Len(s) - 1 => Tail(s)[i] = s[i+1]
      BY <1>1, <2>1, <2>2, HeadTailProperties
    <3> QED
      BY <1>1, <2>2, <3>1, <3>2, <3>3, <3>4
  <2> QED
    BY <2>2, <2>3, <2>4, SeqEqual
<1> QED
  BY <1>2, <1>3, <1>4

\* Outside doPendingFunctors no batch is left over.
BatchInv == pc # "functors" => functors = <<>>

LEMMA BatchInvariant == Spec => []BatchInv
<1>1. Init => BatchInv
  BY DEF Init, BatchInv
<1>2. BatchInv /\ [Next]_vars => BatchInv'
  BY DEF BatchInv, Next, LoopStep, LoopCall, ThreadCall, Loop, WhileTest, PollReady,
         PollTimeout, HandleRead, HandleIo, DoPendingFunctors, RunFunctor, FunctorsDone,
         QueueInLoopThread, RunInLoopThread, QuitInLoopThread, QueueInLoop, Quit, Wakeup,
         vars, loopVars, queueVars, ghostVars
<1> QED
  BY <1>1, <1>2, PTL DEF Spec

\* A functor that was not submitted is nowhere in the queue.
LEMMA FreshUnseen ==
  ASSUME TypeOK, NEW f, f \notin submitted
  PROVE  TQ!Unseen(f)
<1>1. functors \o pendingFunctors_ \in Seq(submitted)
  BY ConcatProperties DEF TypeOK
<1> QED
  BY <1>1, ElementOfSeq DEF TypeOK, TQ!Unseen

\* A push, on any thread, is a submission.
LEMMA PushSubmits ==
  ASSUME TypeOK, NEW f \in Functors, f \notin submitted,
         pendingFunctors_' = Append(pendingFunctors_, f), UNCHANGED <<functors, ran>>
  PROVE  TQ!Submit(f)
<1>1. /\ functors \in Seq(submitted \cup {f})
      /\ pendingFunctors_ \in Seq(submitted \cup {f})
  BY SubmittedGrows DEF TypeOK
<1>2. functors \o Append(pendingFunctors_, f) = Append(functors \o pendingFunctors_, f)
  BY <1>1, ConcatAppend
<1> QED
  BY <1>2, FreshUnseen DEF TQ!Submit

\* Every step of the loop and of its callers is a step of the FIFO queue or
\* leaves it alone: queueInLoop and doPendingFunctors neither lose, repeat nor
\* reorder functors.
THEOREM LoopImplementsTaskQueue == Spec => ImplementsTaskQueue
<1>1. Init => TQ!Init
  BY ConcatProperties, ConcatEmptySeq, EmptySeq DEF Init, TQ!Init
<1>2. TypeOK /\ BatchInv /\ [Next]_vars => [TQ!Next]_(TQ!tqVars)
  <2> SUFFICES ASSUME TypeOK, BatchInv, [Next]_vars
               PROVE  [TQ!Next]_(TQ!tqVars)
    OBVIOUS
  <2> USE DEF loopVars, queueVars, ghostVars
  <2>1. ASSUME UNCHANGED <<functors, pendingFunctors_, ran>>
        PROVE  [TQ!Next]_(TQ!tqVars)
    BY <2>1 DEF TQ!tqVars
  <2>2. ASSUME \/ Loop \/ WhileTest \/ PollTimeout \/ HandleRead \/ HandleIo
               \/ FunctorsDone \/ QuitInLoopThread \/ UNCHANGED vars
               \/ \E active \in SUBSET Channels : PollReady(active)
               \/ \E f \in Functors : RunInLoopThread(f)
               \/ \E p \in Threads : Quit(p) \/ Wakeup(p)
        PROVE  UNCHANGED <<functors, pendingFunctors_, ran>>
    BY <2>2 DEF Loop, WhileTest, PollTimeout, HandleRead, HandleIo, FunctorsDone,
                QuitInLoopThread, vars, PollReady, RunInLoopThread, Quit, Wakeup
  <2>3. ASSUME DoPendingFunctors
        PROVE  [TQ!Next]_(TQ!tqVars)
    \* The batch is empty before the swap and the queue is after it.
    <3>1. functors = <<>>
      BY <2>3 DEF DoPendingFunctors, BatchInv
    <3> QED
      BY <2>3, <3>1, ConcatEmptySeq DEF DoPendingFunctors, TypeOK, TQ!tqVars
  <2>4. ASSUME RunFunctor
        PROVE  [TQ!Next]_(TQ!tqVars)
    BY <2>4, ConcatHeadTail DEF RunFunctor, TypeOK, TQ!Next, TQ!RunNext
  <2>5. ASSUME NEW f \in Functors, QueueInLoopThread(f)
        PROVE  [TQ!Next]_(TQ!tqVars)
    BY <2>5, PushSubmits DEF QueueInLoopThread, TQ!Next
  <2>6. ASSUME NEW p \in Threads, NEW f \in Functors, QueueInLoop(p, f)
        PROVE  [TQ!Next]_(TQ!tqVars)
    BY <2>6, PushSubmits DEF QueueInLoop, TQ!Next
  <2> QED
    BY <2>1, <2>2, <2>3, <2>4, <2>5, <2>6 DEF Next, LoopStep, LoopCall, ThreadCall
<1> QED
  BY <1>1, <1>2, TypeCorrect, BatchInvariant, PTL DEF Spec, ImplementsTaskQueue, TQ!Spec
=============================================================================
