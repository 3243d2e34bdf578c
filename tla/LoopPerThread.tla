---------------------------- MODULE LoopPerThread ----------------------------
(***************************************************************************)
(* The constructor and the destructor of EventLoop on several threads, with*)
(* the thread-local pointer t_loopInThisThread that is meant to keep a     *)
(* second EventLoop off a thread.                                          *)
(***************************************************************************)
CONSTANTS Threads, Loops, NoLoop, NoThread

VARIABLES
  threadId_,           \* per EventLoop; NoThread while it does not exist
  t_loopInThisThread,  \* per thread
  exited               \* LOG_FATAL has ended the process

vars == <<threadId_, t_loopInThisThread, exited>>

Init ==
  /\ threadId_ = [l \in Loops |-> NoThread]
  /\ t_loopInThisThread = [t \in Threads |-> NoLoop]
  /\ exited = FALSE

\* EventLoop::EventLoop: LOG_FATAL exits when the pointer is set.  The assignment
\* to the pointer stands behind it in the same block, so it is never reached.
Construct(l, t) ==
  /\ threadId_[l] = NoThread
  /\ IF t_loopInThisThread[t] # NoLoop
     THEN exited' = TRUE /\ UNCHANGED threadId_
     ELSE threadId_' = [threadId_ EXCEPT ![l] = t] /\ UNCHANGED exited
  /\ UNCHANGED t_loopInThisThread

\* EventLoop::~EventLoop, on the loop's own thread
Destroy(l) ==
  /\ threadId_[l] # NoThread
  /\ t_loopInThisThread' = [t_loopInThisThread EXCEPT ![threadId_[l]] = NoLoop]
  /\ threadId_' = [threadId_ EXCEPT ![l] = NoThread]
  /\ UNCHANGED exited

Next ==
  /\ ~exited
  /\ \/ \E l \in Loops, t \in Threads : Construct(l, t)
     \/ \E l \in Loops : Destroy(l)

Spec == Init /\ [][Next]_vars

-----------------------------------------------------------------------------
\* "One loop per thread", which the constructor is meant to enforce: no thread ever
\* has two EventLoops.
OneLoopPerThread ==
  \A k, l \in Loops : threadId_[k] = threadId_[l] /\ threadId_[k] # NoThread => k = l
=============================================================================
