------------------------------ MODULE EventLoop ------------------------------
(***************************************************************************)
(* One EventLoop: the thread that runs loop(), the functors other threads  *)
(* hand to it through queueInLoop / runInLoop, the eventfd that interrupts *)
(* epoll_wait, and quit().                                                 *)
(*                                                                         *)
(* The mutex protects exactly one statement on either side (the push_back  *)
(* and the swap), so a critical section is one step.  The calls of another *)
(* thread are split where that thread holds no lock: between the push (or  *)
(* the store to quit_) and the write to the eventfd.                       *)
(***************************************************************************)
EXTENDS Naturals, Sequences

CONSTANTS
  Functors,    \* submissions; each is queued at most once
  Threads,     \* threads other than the loop's own
  EventfdMax   \* the value at which a non-blocking eventfd refuses a write

ASSUME EventfdMaxAssumption == EventfdMax \in Nat \ {0}

VARIABLES
  pc,                       \* where the loop's thread is
  looping_, quit_, callingPendingFunctors_,
  pendingFunctors_,         \* queued functors, oldest first
  functors,                 \* the batch doPendingFunctors swapped out
  activeChannels_,          \* ready channels still to be handled
  wakeupFd_,                \* the eventfd's counter
  call,                     \* where every other thread is
  submitted,                \* functors already handed to the loop
  early,                    \* functors the loop's own thread queued outside loop()
  ran                       \* functors run from the queue, oldest first

loopVars == <<looping_, quit_, callingPendingFunctors_>>
queueVars == <<pendingFunctors_, functors>>
ghostVars == <<submitted, early, ran>>
vars == <<pc, loopVars, queueVars, activeChannels_, wakeupFd_, call, ghostVars>>

\* "wakeup" is the loop's own eventfd channel, "io" stands for every other
\* channel of the poller.
Channels == {"wakeup", "io"}

TypeOK ==
  /\ pc \in {"out", "while", "poll", "events", "functors"}
  /\ looping_ \in BOOLEAN
  /\ quit_ \in BOOLEAN
  /\ callingPendingFunctors_ \in BOOLEAN
  /\ submitted \subseteq Functors
  /\ pendingFunctors_ \in Seq(submitted)
  /\ functors \in Seq(submitted)
  /\ ran \in Seq(submitted)
  /\ early \subseteq submitted
  /\ activeChannels_ \subseteq Channels
  /\ wakeupFd_ \in 0..EventfdMax
  /\ call \in [Threads -> {"idle", "wakeup"}]

Init ==
  /\ pc = "out"
  /\ looping_ = FALSE
  /\ quit_ = FALSE
  /\ callingPendingFunctors_ = FALSE
  /\ pendingFunctors_ = <<>>
  /\ functors = <<>>
  /\ activeChannels_ = {}
  /\ wakeupFd_ = 0
  /\ call = [p \in Threads |-> "idle"]
  /\ submitted = {}
  /\ early = {}
  /\ ran = <<>>

-----------------------------------------------------------------------------
(* wakeup() and the eventfd *)

\* Mutant: the eventfd has no limit.
wakeup_Unbounded == wakeupFd_' = wakeupFd_ + 1

\* Write 1 to the eventfd: at its maximum the write fails with EAGAIN, which
\* is only logged, and the descriptor stays readable.
wakeup == wakeupFd_' = IF wakeupFd_ < EventfdMax THEN wakeupFd_ + 1 ELSE wakeupFd_

-----------------------------------------------------------------------------
(* loop(), on the loop's own thread *)

\* Entry: both stores happen before the first test of quit_, so a quit() that
\* came earlier is erased.
Loop ==
  /\ pc = "out"
  /\ looping_' = TRUE
  /\ quit_' = FALSE
  /\ pc' = "while"
  /\ UNCHANGED <<callingPendingFunctors_, queueVars, activeChannels_, wakeupFd_,
                 call, ghostVars>>

\* while (!quit_)
WhileTest ==
  /\ pc = "while"
  /\ \/ /\ quit_
        /\ pc' = "out"
        /\ looping_' = FALSE
     \/ /\ ~quit_
        /\ pc' = "poll"
        /\ UNCHANGED looping_
  /\ activeChannels_' = {}
  /\ UNCHANGED <<quit_, callingPendingFunctors_, queueVars, wakeupFd_, call, ghostVars>>

\* epoll_wait returns a non-empty set of ready channels.  The wakeup channel is
\* ready when the eventfd is not zero; it may be left out when more channels
\* are ready than the event list holds.
PollReady(active) ==
  /\ pc = "poll"
  /\ active # {}
  /\ "wakeup" \in active => wakeupFd_ > 0
  /\ activeChannels_' = active
  /\ pc' = "events"
  /\ UNCHANGED <<loopVars, queueVars, wakeupFd_, call, ghostVars>>

\* epoll_wait returns nothing: kPollTimeMs elapsed, or a signal (EINTR).
PollTimeout ==
  /\ pc = "poll"
  /\ pc' = "events"
  /\ UNCHANGED <<loopVars, queueVars, activeChannels_, wakeupFd_, call, ghostVars>>

\* EventLoop::handleRead: the read resets the eventfd to zero.
HandleRead ==
  /\ pc = "events"
  /\ "wakeup" \in activeChannels_
  /\ activeChannels_' = activeChannels_ \ {"wakeup"}
  /\ wakeupFd_' = 0
  /\ UNCHANGED <<pc, loopVars, queueVars, call, ghostVars>>

\* The callback of another channel returns; the calls it made to this loop are
\* QueueInLoopThread, RunInLoopThread and QuitInLoopThread.
HandleIo ==
  /\ pc = "events"
  /\ "io" \in activeChannels_
  /\ activeChannels_' = activeChannels_ \ {"io"}
  /\ UNCHANGED <<pc, loopVars, queueVars, wakeupFd_, call, ghostVars>>

\* Mutant: the swap keeps what it swapped out in the queue.
DoPendingFunctors_CopyNotSwap ==
  /\ pc = "events"
  /\ activeChannels_ = {}
  /\ callingPendingFunctors_' = TRUE
  /\ functors' = pendingFunctors_
  /\ pc' = "functors"
  /\ UNCHANGED <<looping_, quit_, pendingFunctors_, activeChannels_, wakeupFd_, call, ghostVars>>

\* doPendingFunctors, up to and including the swap under the mutex.
DoPendingFunctors ==
  /\ pc = "events"
  /\ activeChannels_ = {}
  /\ callingPendingFunctors_' = TRUE
  /\ functors' = pendingFunctors_
  /\ pendingFunctors_' = <<>>
  /\ pc' = "functors"
  /\ UNCHANGED <<looping_, quit_, activeChannels_, wakeupFd_, call, ghostVars>>

\* functor() returns: the first functor of the batch is done.
RunFunctor ==
  /\ pc = "functors"
  /\ functors # <<>>
  /\ ran' = Append(ran, Head(functors))
  /\ functors' = Tail(functors)
  /\ UNCHANGED <<pc, loopVars, pendingFunctors_, activeChannels_, wakeupFd_, call,
                 submitted, early>>

\* The batch is empty: doPendingFunctors returns.
FunctorsDone ==
  /\ pc = "functors"
  /\ functors = <<>>
  /\ callingPendingFunctors_' = FALSE
  /\ pc' = "while"
  /\ UNCHANGED <<looping_, quit_, queueVars, activeChannels_, wakeupFd_, call, ghostVars>>

-----------------------------------------------------------------------------
(* Calls the loop's own thread makes: outside loop(), or from a callback *)

InCallback ==
  \/ pc = "out"
  \/ pc = "events" /\ "io" \in activeChannels_
  \/ pc = "functors" /\ functors # <<>>

\* Mutant: the loop's own thread never writes to the eventfd.
QueueInLoopThread_NoWakeup(f) ==
  /\ InCallback
  /\ f \in Functors \ submitted
  /\ submitted' = submitted \cup {f}
  /\ early' = IF pc = "out" THEN early \cup {f} ELSE early
  /\ pendingFunctors_' = Append(pendingFunctors_, f)
  /\ UNCHANGED <<pc, loopVars, functors, activeChannels_, wakeupFd_, call, ran>>

\* queueInLoop on the loop's thread: it wakes the loop only when a batch is
\* being run, because then the functor waits for the next iteration.
QueueInLoopThread(f) ==
  /\ InCallback
  /\ f \in Functors \ submitted
  /\ submitted' = submitted \cup {f}
  /\ early' = IF pc = "out" THEN early \cup {f} ELSE early
  /\ pendingFunctors_' = Append(pendingFunctors_, f)
  /\ IF callingPendingFunctors_ THEN wakeup ELSE UNCHANGED wakeupFd_
  /\ UNCHANGED <<pc, loopVars, functors, activeChannels_, call, ran>>

\* runInLoop on the loop's thread calls the functor on the spot.
RunInLoopThread(f) ==
  /\ InCallback
  /\ f \in Functors \ submitted
  /\ submitted' = submitted \cup {f}
  /\ UNCHANGED <<pc, loopVars, queueVars, activeChannels_, wakeupFd_, call, early, ran>>

\* quit() on the loop's thread.
QuitInLoopThread ==
  /\ InCallback
  /\ quit_' = TRUE
  /\ UNCHANGED <<pc, looping_, callingPendingFunctors_, queueVars, activeChannels_,
                 wakeupFd_, call, ghostVars>>

-----------------------------------------------------------------------------
(* Calls of another thread *)

\* Mutant: the functor is queued without the wakeup that follows it.
QueueInLoop_NoWakeup(p, f) ==
  /\ call[p] = "idle"
  /\ f \in Functors \ submitted
  /\ submitted' = submitted \cup {f}
  /\ pendingFunctors_' = Append(pendingFunctors_, f)
  /\ UNCHANGED <<pc, loopVars, functors, activeChannels_, wakeupFd_, call, early, ran>>

\* queueInLoop, and runInLoop which defers to it: the push under the mutex.
QueueInLoop(p, f) ==
  /\ call[p] = "idle"
  /\ f \in Functors \ submitted
  /\ submitted' = submitted \cup {f}
  /\ pendingFunctors_' = Append(pendingFunctors_, f)
  /\ call' = [call EXCEPT ![p] = "wakeup"]
  /\ UNCHANGED <<pc, loopVars, functors, activeChannels_, wakeupFd_, early, ran>>

\* Mutant: quit() does not interrupt the poll.
Quit_NoWakeup(p) ==
  /\ call[p] = "idle"
  /\ quit_' = TRUE
  /\ UNCHANGED <<pc, looping_, callingPendingFunctors_, queueVars, activeChannels_,
                 wakeupFd_, call, ghostVars>>

\* quit(): the store to quit_.
Quit(p) ==
  /\ call[p] = "idle"
  /\ quit_' = TRUE
  /\ call' = [call EXCEPT ![p] = "wakeup"]
  /\ UNCHANGED <<pc, looping_, callingPendingFunctors_, queueVars, activeChannels_,
                 wakeupFd_, ghostVars>>

\* The write to the eventfd that ends queueInLoop and quit.
Wakeup(p) ==
  /\ call[p] = "wakeup"
  /\ wakeup
  /\ call' = [call EXCEPT ![p] = "idle"]
  /\ UNCHANGED <<pc, loopVars, queueVars, activeChannels_, ghostVars>>

-----------------------------------------------------------------------------
LoopStep ==
  \/ Loop
  \/ WhileTest
  \/ \E active \in SUBSET Channels : PollReady(active)
  \/ PollTimeout
  \/ HandleRead
  \/ HandleIo
  \/ DoPendingFunctors
  \/ RunFunctor
  \/ FunctorsDone

LoopCall ==
  \/ \E f \in Functors : QueueInLoopThread(f) \/ RunInLoopThread(f)
  \/ QuitInLoopThread

ThreadCall ==
  \E p \in Threads :
    \/ \E f \in Functors : QueueInLoop(p, f)
    \/ Quit(p)
    \/ Wakeup(p)

Next == LoopStep \/ LoopCall \/ ThreadCall

Spec == Init /\ [][Next]_vars

\* Scheduling: threads that can run do run, callbacks return, and a readable
\* eventfd is reported in the end, because the event list doubles whenever it
\* comes back full.  Nothing is assumed of timeouts, of other channels or of
\* who calls loop().
Fairness ==
  /\ WF_vars(WhileTest)
  /\ WF_vars(HandleRead)
  /\ WF_vars(HandleIo)
  /\ WF_vars(DoPendingFunctors)
  /\ WF_vars(RunFunctor)
  /\ WF_vars(FunctorsDone)
  /\ SF_vars(PollReady({"wakeup"}) \/ PollReady({"wakeup", "io"}))
  /\ \A p \in Threads : WF_vars(Wakeup(p))

FairSpec == Spec /\ Fairness

\* The same, and epoll_wait comes back at the latest after kPollTimeMs.
FairTimeoutSpec == FairSpec /\ WF_vars(PollTimeout)

-----------------------------------------------------------------------------
(* Properties *)

\* A wakeup is on its way or already in the eventfd.
WakeupDue == wakeupFd_ > 0 \/ \E p \in Threads : call[p] = "wakeup"

\* Functors waiting that the loop's thread did not queue outside loop().
LatePending == \E i \in 1..Len(pendingFunctors_) : pendingFunctors_[i] \notin early

\* queueInLoop loses no wakeup: the loop never sits in epoll_wait on an eventfd
\* that nobody will write to while a functor waits, except for a functor its own
\* thread queued outside loop(), which waits for the first event or timeout.
NoLostWakeup == pc = "poll" /\ LatePending => WakeupDue

\* quit() from another thread always gets the loop out of epoll_wait: the loop
\* never blocks with quit_ set and no wakeup due.
QuitInterruptsPoll == pc = "poll" /\ quit_ => WakeupDue

\* The batches and swaps of doPendingFunctors implement one FIFO queue in which
\* each functor queued by queueInLoop runs at most once, in submission order.
TQ == INSTANCE TaskQueue WITH queue <- functors \o pendingFunctors_, done <- ran
ImplementsTaskQueue == TQ!Spec

\* A functor queued while other threads and callbacks call queueInLoop runs
\* without waiting for the poll timeout, unless the loop is told to quit.
QueuedRuns ==
  \A f \in Functors :
    (\E i \in 1..Len(pendingFunctors_) : pendingFunctors_[i] = f) /\ f \notin early
      ~> (\E i \in 1..Len(ran) : ran[i] = f) \/ pc = "out"

\* quit() during loop() makes loop() return, from wherever it is called.
QuitEndsLoop == pc # "out" /\ quit_ ~> pc = "out"

\* EventLoop.hpp says pendingFunctors_ "ensures all tasks are executed within
\* the loop's thread": a functor that is queued while loop() runs, behind the swap of
\* doPendingFunctors, is executed, also when loop() is not called again after it has
\* returned.  The swap empties the queue, so what is in it while the batch runs was
\* queued behind it.
AllTasksExecuted ==
  <>[](pc = "out") =>
    \A f \in Functors :
      pc = "functors" /\ (\E i \in 1..Len(pendingFunctors_) : pendingFunctors_[i] = f)
        ~> \E i \in 1..Len(ran) : ran[i] = f
=============================================================================
