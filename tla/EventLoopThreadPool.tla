------------------------ MODULE EventLoopThreadPool ------------------------
(***************************************************************************)
(* EventLoopThreadPool with its EventLoopThreads and their Threads: the    *)
(* owner starts the loops one after the other and waits for each to appear,*)
(* hands them out, and stops them in its destructor.  Every loop lives on  *)
(* the stack of its thread.  loop() itself is EventLoop.tla; here it runs  *)
(* until it sees quit_.                                                    *)
(***************************************************************************)
EXTENDS Naturals, Sequences

CONSTANTS
  MaxThreads,  \* bound on setThreadNum
  UIntMod      \* number of values of an unsigned int

ASSUME PoolAssumption == MaxThreads \in Nat /\ UIntMod \in Nat \ {0}

Ids == 1..MaxThreads

VARIABLES
  owner,     \* where the owner is
  numThreads_,
  i,         \* the EventLoopThread it is starting or destroying
  loops_,    \* what startLoop returned, 0 for nullptr
  next_,
  handed,    \* the loop getNextLoop returned last, 0 before and for baseLoop_
  thread,    \* where each thread is in threadFunc
  loop_,     \* the atomic pointer of each EventLoopThread is not null
  alive,     \* the EventLoop of each thread exists
  quit_,     \* of each EventLoop
  notified,  \* cond_ has been notified while the owner waits on it
  threw,     \* the user's code ended threadFunc with an exception there
  selfQuit,  \* the user's code called quit() in the running loop
  lostQuit   \* ~EventLoopThread called quit() before loop() was entered

ownerVars == <<owner, numThreads_, i, loops_, next_, handed>>
userVars == <<threw, selfQuit, lostQuit>>
threadVars == <<thread, loop_, alive, quit_>>
vars == <<ownerVars, threadVars, notified, userVars>>

ThreadStates == {"none", "spawned", "ctor", "callback", "publish", "notify", "enter",
                 "looping", "reset", "destroy", "ended"}
OwnerStates == {"idle", "spawn", "sem", "check", "block", "waiting", "load", "running",
                "dtor", "store", "wakeup", "join", "done"}

TypeOK ==
  /\ owner \in OwnerStates
  /\ numThreads_ \in 0..MaxThreads
  /\ i \in 0..(MaxThreads + 1)
  /\ loops_ \in Seq(0..MaxThreads)
  /\ next_ \in 0..(UIntMod - 1)
  /\ handed \in 0..MaxThreads
  /\ thread \in [Ids -> ThreadStates]
  /\ {loop_, alive, quit_, selfQuit, lostQuit} \subseteq [Ids -> BOOLEAN]
  /\ notified \in BOOLEAN
  /\ threw \in [Ids -> {"no", "callback", "loop"}]

Init ==
  /\ owner = "idle"
  /\ numThreads_ = 0 /\ i = 0 /\ loops_ = <<>> /\ next_ = 0 /\ handed = 0
  /\ thread = [k \in Ids |-> "none"]
  /\ loop_ = [k \in Ids |-> FALSE] /\ alive = loop_ /\ quit_ = loop_
  /\ notified = FALSE
  /\ threw = [k \in Ids |-> "no"]
  /\ selfQuit = loop_ /\ lostQuit = loop_

-----------------------------------------------------------------------------
(* EventLoopThread::threadFunc, on thread k *)

Goto(k, from, to) == thread[k] = from /\ thread' = [thread EXCEPT ![k] = to]

\* The lambda of Thread::start: sem_post, then func_().
BeginThread(k) ==
  /\ Goto(k, "spawned", "ctor")
  /\ UNCHANGED <<ownerVars, loop_, alive, quit_, notified, userVars>>

\* EventLoop loop;
ConstructLoop(k) ==
  /\ Goto(k, "ctor", "callback")
  /\ alive' = [alive EXCEPT ![k] = TRUE]
  /\ quit_' = [quit_ EXCEPT ![k] = FALSE]
  /\ UNCHANGED <<ownerVars, loop_, notified, userVars>>

\* callback_(&loop) returns; it may have called quit().
InitCallback(k) ==
  /\ Goto(k, "callback", "publish")
  /\ quit_' \in {quit_, [quit_ EXCEPT ![k] = TRUE]}
  /\ UNCHANGED <<ownerVars, loop_, alive, notified, userVars>>

\* Mutant: loop_ is stored without taking mutex_.
MutexFree_Unasked == TRUE
MutexFree == owner # "block"

\* The store to loop_ under mutex_, which the owner holds from its test of the
\* predicate until it blocks.
Publish(k) ==
  /\ Goto(k, "publish", "notify")
  /\ MutexFree
  /\ loop_' = [loop_ EXCEPT ![k] = TRUE]
  /\ UNCHANGED <<ownerVars, alive, quit_, notified, userVars>>

\* cond_.notify_one()
Notify(k) ==
  /\ Goto(k, "notify", "enter")
  /\ notified' = (notified \/ (owner = "waiting" /\ i = k))
  /\ UNCHANGED <<ownerVars, loop_, alive, quit_, userVars>>

\* loop() clears quit_ on entry.
EnterLoop(k) ==
  /\ Goto(k, "enter", "looping")
  /\ quit_' = [quit_ EXCEPT ![k] = FALSE]
  /\ UNCHANGED <<ownerVars, loop_, alive, notified, userVars>>

\* A callback or functor run by the loop calls quit().
QuitInLoopThread(k) ==
  /\ thread[k] = "looping"
  /\ quit_' = [quit_ EXCEPT ![k] = TRUE]
  /\ selfQuit' = [selfQuit EXCEPT ![k] = TRUE]
  /\ UNCHANGED <<ownerVars, thread, loop_, alive, notified, threw, lostQuit>>

\* Mutant: loop() returns unasked.
SeesQuit_Anyway(k) == TRUE
SeesQuit(k) == quit_[k]

\* loop() returns.
LeaveLoop(k) ==
  /\ Goto(k, "looping", "reset")
  /\ SeesQuit(k)
  /\ UNCHANGED <<ownerVars, loop_, alive, quit_, notified, userVars>>

\* Mutant: loop_ keeps its value.
ResetLoop_Missing(k) ==
  /\ Goto(k, "reset", "destroy")
  /\ UNCHANGED <<ownerVars, loop_, alive, quit_, notified, userVars>>

ResetLoop(k) ==
  /\ Goto(k, "reset", "destroy")
  /\ loop_' = [loop_ EXCEPT ![k] = FALSE]
  /\ UNCHANGED <<ownerVars, alive, quit_, notified, userVars>>

\* The EventLoop goes out of scope.
DestroyLoop(k) ==
  /\ Goto(k, "destroy", "ended")
  /\ alive' = [alive EXCEPT ![k] = FALSE]
  /\ UNCHANGED <<ownerVars, loop_, quit_, notified, userVars>>

\* callback_, or a callback or functor of the loop, throws: the EventLoop is
\* destroyed, and loop_ is left as it is.
Throw(k) ==
  /\ thread[k] \in {"callback", "looping"}
  /\ thread' = [thread EXCEPT ![k] = "ended"]
  /\ alive' = [alive EXCEPT ![k] = FALSE]
  /\ threw' = [threw EXCEPT ![k] = IF thread[k] = "callback" THEN "callback" ELSE "loop"]
  /\ UNCHANGED <<ownerVars, loop_, quit_, notified, selfQuit, lostQuit>>

-----------------------------------------------------------------------------
(* The owner: start() *)

OwnerGoto(from, to) == owner = from /\ owner' = to

\* A step of the owner that changes nothing else.
OwnerMoves(from, to) ==
  /\ OwnerGoto(from, to)
  /\ UNCHANGED <<numThreads_, i, loops_, next_, handed, threadVars, notified, userVars>>

\* setThreadNum has no effect once the pool has started.
setThreadNum(n) ==
  /\ owner \in {"idle", "running"}
  /\ numThreads_' = n
  /\ UNCHANGED <<owner, i, loops_, next_, handed, threadVars, notified, userVars>>

\* With no threads start() runs the callback on baseLoop_ and is done.
Start ==
  /\ OwnerGoto("idle", IF numThreads_ = 0 THEN "running" ELSE "spawn")
  /\ i' = 1
  /\ UNCHANGED <<numThreads_, loops_, next_, handed, threadVars, notified, userVars>>

\* new std::thread, in Thread::start
Spawn ==
  /\ OwnerGoto("spawn", "sem")
  /\ thread' = [thread EXCEPT ![i] = "spawned"]
  /\ UNCHANGED <<numThreads_, i, loops_, next_, handed, loop_, alive, quit_, notified, userVars>>

\* sem_wait returns, and startLoop takes mutex_.
SemWait == OwnerMoves("sem", "check") /\ thread[i] # "spawned"

\* Mutant: the owner does not wait for the loop to be published.
CheckLoop_NoWait == OwnerMoves("check", "load")

\* cond_.wait tests the predicate.
CheckLoop == OwnerMoves("check", IF loop_[i] THEN "load" ELSE "block")

\* It releases mutex_ and blocks.
Block ==
  /\ OwnerGoto("block", "waiting")
  /\ notified' = FALSE
  /\ UNCHANGED <<numThreads_, i, loops_, next_, handed, threadVars, userVars>>

\* It wakes up, after a notification or spuriously, and tests again.
Wake == OwnerMoves("waiting", "check") /\ notified

SpuriousWake == OwnerMoves("waiting", "check") /\ ~notified

\* startLoop reads loop_ once more and returns it.
ReturnLoop ==
  /\ OwnerGoto("load", IF i = numThreads_ THEN "running" ELSE "spawn")
  /\ loops_' = Append(loops_, IF loop_[i] THEN i ELSE 0)
  /\ i' = i + 1
  /\ UNCHANGED <<numThreads_, next_, handed, threadVars, notified, userVars>>

-----------------------------------------------------------------------------
(* The owner: getNextLoop() *)

\* Mutant: the counter advances twice.
NextTurn_Skips == (next_ + 2) % UIntMod

\* Mutant: the counter does not wrap.
NextTurn_NoWrap == next_ + 1
NextTurn == (next_ + 1) % UIntMod

\* handed is the position of the returned loop.
getNextLoop ==
  /\ owner = "running"
  /\ IF loops_ = <<>>
     THEN handed' = 0 /\ UNCHANGED next_
     ELSE /\ handed' = (next_ % Len(loops_)) + 1
          /\ next_' = NextTurn
  /\ UNCHANGED <<owner, numThreads_, i, loops_, threadVars, notified, userVars>>

-----------------------------------------------------------------------------
(* The owner: ~EventLoopThreadPool, that is ~EventLoopThread of each thread *)

Shutdown ==
  /\ OwnerGoto("running", IF loops_ = <<>> THEN "done" ELSE "dtor")
  /\ i' = 1
  /\ UNCHANGED <<numThreads_, loops_, next_, handed, threadVars, notified, userVars>>

\* Mutant: loop_ is not consulted, and nobody is told to quit.
LoadLoop_NoQuit == OwnerMoves("dtor", "join")

\* loop_.load()
LoadLoop == OwnerMoves("dtor", IF loop_[i] THEN "store" ELSE "join")

\* quit(): the store to quit_, of an EventLoop that may be gone by now.
StoreQuit ==
  /\ OwnerGoto("store", "wakeup")
  /\ quit_' = [quit_ EXCEPT ![i] = TRUE]
  /\ lostQuit' = [lostQuit EXCEPT ![i] = thread[i] \in {"notify", "enter"}]
  /\ UNCHANGED <<numThreads_, i, loops_, next_, handed, thread, loop_, alive, notified, threw, selfQuit>>

\* quit(): isInLoopThread() and wakeup(), of an EventLoop that may be gone by now.
WakeupLoop == OwnerMoves("wakeup", "join")

Join ==
  /\ OwnerGoto("join", IF i = Len(loops_) THEN "done" ELSE "dtor")
  /\ thread[i] = "ended"
  /\ i' = i + 1
  /\ UNCHANGED <<numThreads_, loops_, next_, handed, threadVars, notified, userVars>>

-----------------------------------------------------------------------------
ThreadStep(k) ==
  \/ BeginThread(k)
  \/ ConstructLoop(k)
  \/ InitCallback(k)
  \/ Publish(k)
  \/ Notify(k)
  \/ EnterLoop(k)
  \/ LeaveLoop(k)
  \/ ResetLoop(k)
  \/ DestroyLoop(k)

UserStep(k) == QuitInLoopThread(k) \/ Throw(k)

OwnerStep ==
  \/ Spawn
  \/ SemWait
  \/ CheckLoop
  \/ Block
  \/ Wake
  \/ ReturnLoop
  \/ LoadLoop
  \/ StoreQuit
  \/ WakeupLoop
  \/ Join

Next ==
  \/ \E n \in 0..MaxThreads : setThreadNum(n)
  \/ Start
  \/ OwnerStep
  \/ SpuriousWake
  \/ getNextLoop
  \/ Shutdown
  \/ \E k \in Ids : ThreadStep(k) \/ UserStep(k)

Spec == Init /\ [][Next]_vars

\* Threads run, callbacks return, a loop told to quit leaves (QuitEndsLoop of
\* EventLoop.tla), and a thread that waits for mutex_ gets it in the end, however
\* often the owner takes it after a spurious wakeup.
FairSpec ==
  /\ Spec
  /\ WF_vars(OwnerStep)
  /\ \A k \in Ids : SF_vars(Publish(k))
  /\ \A k \in Ids : WF_vars(ThreadStep(k))

-----------------------------------------------------------------------------
(* Properties *)

\* The pointer the destructor reads is never left behind: a published EventLoop
\* exists, unless an exception ended its thread, which leaves loop_ dangling.
PublishedIsAlive == \A k \in Ids : loop_[k] => alive[k] \/ threw[k] = "loop"

\* startLoop returns a loop whose init callback is done and that keeps existing
\* until the destructor runs, unless the user's code ends it.
ReturnedIsReady ==
  \A k \in 1..Len(loops_) :
    /\ thread[k] \notin {"none", "spawned", "ctor", "callback"}
    /\ ~selfQuit[k] => loops_[k] = k
    /\ owner = "running" /\ ~selfQuit[k] /\ threw[k] = "no" => alive[k]

\* ~EventLoopThread reads loop_ and calls quit() on it in separate steps: the store to
\* quit_ still meets the EventLoop, unless the user's code ends it meanwhile.  (The
\* wakeup behind the store need not: the loop may see quit_ and go first.)
QuitMeetsLoop == owner = "store" /\ ~selfQuit[i] /\ threw[i] = "no" => alive[i]

\* The handshake of mutex_, cond_ and the predicate loses no notification:
\* startLoop returns, unless callback_ throws or the loop has already quit.
StartReturns ==
  \A k \in Ids :
    owner = "sem" /\ i = k ~> Len(loops_) >= k \/ threw[k] = "callback" \/ selfQuit[k]

\* ~EventLoopThread ends, unless its quit() came before loop() was entered: loop()
\* then clears quit_, and join() waits for a loop that nobody will stop.
JoinReturns ==
  \A k \in Ids : owner = "join" /\ i = k ~> i # k \/ lostQuit[k]

\* getNextLoop hands out the loops in turn, as long as next_ does not wrap.
RoundRobinUntilWrap ==
  [][next_' # next_ /\ next_ # 0 => handed' = (handed % Len(loops_)) + 1]_vars

\* EventLoopThreadPool.hpp promises "round-robin scheduling": every loop handed
\* out is the successor of the one before.
RoundRobin ==
  [][next_' # next_ /\ handed # 0 => handed' = (handed % Len(loops_)) + 1]_vars
=============================================================================
