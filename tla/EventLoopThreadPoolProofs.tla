---------------------- MODULE EventLoopThreadPoolProofs ----------------------
(***************************************************************************)
(* Safety of EventLoopThreadPool for any number of threads and any width   *)
(* of next_.                                                               *)
(***************************************************************************)
EXTENDS EventLoopThreadPool, TLAPS

Starting == {"spawn", "sem", "check", "block", "waiting", "load"}
Stopping == {"dtor", "store", "wakeup", "join"}

\* ~EventLoopThread has told loop k to quit.
Told(k) ==
  \/ owner = "done"
  \/ owner \in Stopping /\ k < i
  \/ owner \in {"wakeup", "join"} /\ k = i

Asked(k) == selfQuit[k] \/ Told(k)

\* Thread k has not been started.
Unborn(k) ==
  \/ owner = "idle"
  \/ owner \in Starting /\ k > i
  \/ owner = "spawn" /\ k = i

\* Where the owner is tells how far loops_ has got.
OwnerInv ==
  /\ Len(loops_) <= MaxThreads
  /\ owner = "idle" => loops_ = <<>>
  /\ owner \in Starting => /\ Len(loops_) = i - 1
                           /\ i \in 1..numThreads_
  /\ owner \in Stopping => i \in 1..Len(loops_)
  /\ \A k \in Ids : Unborn(k) => thread[k] = "none"

\* Where a thread is tells what has become of its loop, and a loop only leaves when
\* it was asked to or when the user's code threw.
ThreadInv ==
  \A k \in Ids :
    /\ alive[k] <=> thread[k] \in {"callback", "publish", "notify", "enter", "looping", "reset", "destroy"}
    /\ loop_[k] <=> thread[k] \in {"notify", "enter", "looping", "reset"} \/ threw[k] = "loop"
    /\ threw[k] # "no" => thread[k] = "ended"
    /\ thread[k] = "looping" /\ quit_[k] => Asked(k)
    /\ thread[k] \in {"reset", "destroy"} => Asked(k)
    /\ thread[k] = "ended" => Asked(k) \/ threw[k] # "no"

\* What startLoop has seen of a thread when it reads loop_ once more, and what it
\* has returned.
ReturnInv ==
  /\ owner = "load" => /\ thread[i] \notin {"none", "spawned", "ctor", "callback", "publish"}
                       /\ threw[i] # "callback"
  /\ \A k \in 1..Len(loops_) :
       /\ thread[k] \notin {"none", "spawned", "ctor", "callback"}
       /\ ~selfQuit[k] => loops_[k] = k

\* TypeOK, one variable at a time.
Types ==
  /\ owner \in OwnerStates
  /\ numThreads_ \in 0..MaxThreads
  /\ i \in 0..(MaxThreads + 1)
  /\ loops_ \in Seq(0..MaxThreads)
  /\ next_ \in 0..(UIntMod - 1)
  /\ handed \in 0..MaxThreads
  /\ thread \in [Ids -> ThreadStates]
  /\ loop_ \in [Ids -> BOOLEAN]
  /\ alive \in [Ids -> BOOLEAN]
  /\ quit_ \in [Ids -> BOOLEAN]
  /\ selfQuit \in [Ids -> BOOLEAN]
  /\ lostQuit \in [Ids -> BOOLEAN]
  /\ notified \in BOOLEAN
  /\ threw \in [Ids -> {"no", "callback", "loop"}]

IInv == Types /\ OwnerInv /\ ThreadInv /\ ReturnInv

-----------------------------------------------------------------------------
\* The strengthened invariant holds before anything has started.
LEMMA InitInv == Init => IInv
<1> SUFFICES ASSUME Init PROVE IInv
  OBVIOUS
<1>1. Types
  <2>1. loops_ \in Seq(0..MaxThreads)
    BY DEF Init
  <2>2. /\ next_ \in 0..(UIntMod - 1)
        /\ numThreads_ \in 0..MaxThreads
        /\ i \in 0..(MaxThreads + 1)
        /\ handed \in 0..MaxThreads
    BY PoolAssumption DEF Init
  <2>3. /\ loop_ \in [Ids -> BOOLEAN]
        /\ thread \in [Ids -> ThreadStates]
        /\ threw \in [Ids -> {"no", "callback", "loop"}]
    BY DEF Init, ThreadStates
  <2>4. alive = loop_ /\ quit_ = loop_ /\ selfQuit = loop_ /\ lostQuit = loop_
    BY DEF Init
  <2>5. owner \in OwnerStates /\ notified \in BOOLEAN
    BY DEF Init, OwnerStates
  <2> QED BY <2>1, <2>2, <2>3, <2>4, <2>5 DEF Types
<1>2. OwnerInv /\ ThreadInv /\ ReturnInv
  BY PoolAssumption
  DEF Init, OwnerInv, ThreadInv, ReturnInv, Ids, Starting, Stopping, Asked, Told, Unborn
<1> QED BY <1>1, <1>2 DEF IInv

\* Every step of a thread and of the user's code on it.
LEMMA ThreadStepInv ==
  ASSUME IInv, NEW k \in Ids, ThreadStep(k) \/ UserStep(k)
  PROVE  IInv'
<1> SUFFICES Types' /\ OwnerInv' /\ ThreadInv' /\ ReturnInv'
  BY DEF IInv
<1> Types /\ OwnerInv /\ ThreadInv /\ ReturnInv
  BY DEF IInv
<1> USE PoolAssumption DEF Ids
<1>1. CASE BeginThread(k)
  <2> USE <1>1 DEF BeginThread, Goto, ownerVars, userVars
  <2>1. Types'
    BY DEF Types, ThreadStates, OwnerStates
  <2>2. OwnerInv'
    BY DEF Types, OwnerInv, Unborn, Starting, Stopping
  <2>3. ThreadInv'
    BY DEF Types, OwnerInv, ThreadInv, Stopping, Asked, Told
  <2>4. ReturnInv'
    BY DEF Types, OwnerInv, ThreadInv, ReturnInv, Starting
  <2> QED BY <2>1, <2>2, <2>3, <2>4
<1>2. CASE ConstructLoop(k)
  <2> USE <1>2 DEF ConstructLoop, Goto, ownerVars, userVars
  <2>1. Types'
    BY DEF Types, ThreadStates, OwnerStates
  <2>2. OwnerInv'
    BY DEF Types, OwnerInv, Unborn, Starting, Stopping
  <2>3. ThreadInv'
    BY DEF Types, OwnerInv, ThreadInv, Stopping, Asked, Told
  <2>4. ReturnInv'
    BY DEF Types, OwnerInv, ThreadInv, ReturnInv, Starting
  <2> QED BY <2>1, <2>2, <2>3, <2>4
<1>3. CASE InitCallback(k)
  <2> USE <1>3 DEF InitCallback, Goto, ownerVars, userVars
  <2>1. Types'
    BY DEF Types, ThreadStates, OwnerStates
  <2>2. OwnerInv'
    BY DEF Types, OwnerInv, Unborn, Starting, Stopping
  <2>3. ThreadInv'
    BY DEF Types, OwnerInv, ThreadInv, Stopping, Asked, Told
  <2>4. ReturnInv'
    BY DEF Types, OwnerInv, ThreadInv, ReturnInv, Starting
  <2> QED BY <2>1, <2>2, <2>3, <2>4
<1>4. CASE Publish(k)
  <2> USE <1>4 DEF Publish, Goto, MutexFree, ownerVars, userVars
  <2>1. Types'
    BY DEF Types, ThreadStates, OwnerStates
  <2>2. OwnerInv'
    BY DEF Types, OwnerInv, Unborn, Starting, Stopping
  <2>3. ThreadInv'
    BY DEF Types, OwnerInv, ThreadInv, Stopping, Asked, Told
  <2>4. ReturnInv'
    BY DEF Types, OwnerInv, ThreadInv, ReturnInv, Starting
  <2> QED BY <2>1, <2>2, <2>3, <2>4
<1>5. CASE Notify(k)
  <2> USE <1>5 DEF Notify, Goto, ownerVars, userVars
  <2>1. Types'
    BY DEF Types, ThreadStates, OwnerStates
  <2>2. OwnerInv'
    BY DEF Types, OwnerInv, Unborn, Starting, Stopping
  <2>3. ThreadInv'
    BY DEF Types, OwnerInv, ThreadInv, Stopping, Asked, Told
  <2>4. ReturnInv'
    BY DEF Types, OwnerInv, ThreadInv, ReturnInv, Starting
  <2> QED BY <2>1, <2>2, <2>3, <2>4
<1>6. CASE EnterLoop(k)
  <2> USE <1>6 DEF EnterLoop, Goto, ownerVars, userVars
  <2>1. Types'
    BY DEF Types, ThreadStates, OwnerStates
  <2>2. OwnerInv'
    BY DEF Types, OwnerInv, Unborn, Starting, Stopping
  <2>3. ThreadInv'
    BY DEF Types, OwnerInv, ThreadInv, Stopping, Asked, Told
  <2>4. ReturnInv'
    BY DEF Types, OwnerInv, ThreadInv, ReturnInv, Starting
  <2> QED BY <2>1, <2>2, <2>3, <2>4
<1>7. CASE LeaveLoop(k)
  <2> USE <1>7 DEF LeaveLoop, Goto, SeesQuit, ownerVars, userVars
  <2>1. Types'
    BY DEF Types, ThreadStates, OwnerStates
  <2>2. OwnerInv'
    BY DEF Types, OwnerInv, Unborn, Starting, Stopping
  <2>3. ThreadInv'
    BY DEF Types, OwnerInv, ThreadInv, Stopping, Asked, Told
  <2>4. ReturnInv'
    BY DEF Types, OwnerInv, ThreadInv, ReturnInv, Starting
  <2> QED BY <2>1, <2>2, <2>3, <2>4
<1>8. CASE ResetLoop(k)
  <2> USE <1>8 DEF ResetLoop, Goto, ownerVars, userVars
  <2>1. Types'
    BY DEF Types, ThreadStates, OwnerStates
  <2>2. OwnerInv'
    BY DEF Types, OwnerInv, Unborn, Starting, Stopping
  <2>3. ThreadInv'
    BY DEF Types, OwnerInv, ThreadInv, Stopping, Asked, Told
  <2>4. ReturnInv'
    BY DEF Types, OwnerInv, ThreadInv, ReturnInv, Starting
  <2> QED BY <2>1, <2>2, <2>3, <2>4
<1>9. CASE DestroyLoop(k)
  <2> USE <1>9 DEF DestroyLoop, Goto, ownerVars, userVars
  <2>1. Types'
    BY DEF Types, ThreadStates, OwnerStates
  <2>2. OwnerInv'
    BY DEF Types, OwnerInv, Unborn, Starting, Stopping
  <2>3. ThreadInv'
    BY DEF Types, OwnerInv, ThreadInv, Stopping, Asked, Told
  <2>4. ReturnInv'
    BY DEF Types, OwnerInv, ThreadInv, ReturnInv, Starting
  <2> QED BY <2>1, <2>2, <2>3, <2>4
<1>10. CASE QuitInLoopThread(k)
  <2> USE <1>10 DEF QuitInLoopThread, ownerVars, userVars
  <2>1. Types'
    BY DEF Types, ThreadStates, OwnerStates
  <2>2. OwnerInv'
    BY DEF Types, OwnerInv, Unborn, Starting, Stopping
  <2>3. ThreadInv'
    BY DEF Types, OwnerInv, ThreadInv, Stopping, Asked, Told
  <2>4. ReturnInv'
    BY DEF Types, OwnerInv, ThreadInv, ReturnInv, Starting
  <2> QED BY <2>1, <2>2, <2>3, <2>4
<1>11. CASE Throw(k)
  <2> USE <1>11 DEF Throw, ownerVars, userVars
  <2>1. Types'
    BY DEF Types, ThreadStates, OwnerStates
  <2>2. OwnerInv'
    BY DEF Types, OwnerInv, Unborn, Starting, Stopping
  <2>3. ThreadInv'
    BY DEF Types, OwnerInv, ThreadInv, Stopping, Asked, Told
  <2>4. ReturnInv'
    BY DEF Types, OwnerInv, ThreadInv, ReturnInv, Starting
  <2> QED BY <2>1, <2>2, <2>3, <2>4
<1> QED BY <1>1, <1>2, <1>3, <1>4, <1>5, <1>6, <1>7, <1>8, <1>9, <1>10, <1>11 DEF ThreadStep, UserStep

\* Every step of the owner.
LEMMA OwnerStepInv ==
  ASSUME IInv, NEW n \in 0..MaxThreads,
         setThreadNum(n) \/ Start \/ OwnerStep \/ SpuriousWake \/ getNextLoop \/ Shutdown
  PROVE  IInv'
<1> SUFFICES Types' /\ OwnerInv' /\ ThreadInv' /\ ReturnInv'
  BY DEF IInv
<1> Types /\ OwnerInv /\ ThreadInv /\ ReturnInv
  BY DEF IInv
<1> USE PoolAssumption DEF Ids
<1>1. CASE setThreadNum(n)
  <2> USE <1>1 DEF setThreadNum, threadVars, userVars
  <2>1. Types'
    BY DEF Types, ThreadStates, OwnerStates, OwnerInv, Starting, Stopping
  <2>2. OwnerInv'
    BY DEF Types, OwnerInv, Unborn, Starting, Stopping
  <2>3. ThreadInv'
    BY DEF Types, OwnerInv, ThreadInv, ReturnInv, Unborn, Starting, Stopping, Asked, Told
  <2>4. ReturnInv'
    BY DEF Types, OwnerInv, ThreadInv, ReturnInv, Starting, Stopping, Asked, Told
  <2> QED BY <2>1, <2>2, <2>3, <2>4
<1>2. CASE Start
  <2> USE <1>2 DEF Start, OwnerGoto, threadVars, userVars
  <2>1. Types'
    BY DEF Types, ThreadStates, OwnerStates, OwnerInv, Starting, Stopping
  <2>2. OwnerInv'
    BY DEF Types, OwnerInv, Unborn, Starting, Stopping
  <2>3. ThreadInv'
    BY DEF Types, OwnerInv, ThreadInv, ReturnInv, Unborn, Starting, Stopping, Asked, Told
  <2>4. ReturnInv'
    BY DEF Types, OwnerInv, ThreadInv, ReturnInv, Starting, Stopping, Asked, Told
  <2> QED BY <2>1, <2>2, <2>3, <2>4
<1>3. CASE Spawn
  <2> USE <1>3 DEF Spawn, OwnerGoto, threadVars, userVars
  <2>1. Types'
    BY DEF Types, ThreadStates, OwnerStates, OwnerInv, Starting, Stopping
  <2>2. OwnerInv'
    BY DEF Types, OwnerInv, Unborn, Starting, Stopping
  <2>3. ThreadInv'
    BY DEF Types, OwnerInv, ThreadInv, ReturnInv, Unborn, Starting, Stopping, Asked, Told
  <2>4. ReturnInv'
    BY DEF Types, OwnerInv, ThreadInv, ReturnInv, Starting, Stopping, Asked, Told
  <2> QED BY <2>1, <2>2, <2>3, <2>4
<1>4. CASE SemWait
  <2> USE <1>4 DEF SemWait, OwnerMoves, OwnerGoto, threadVars, userVars
  <2>1. Types'
    BY DEF Types, ThreadStates, OwnerStates, OwnerInv, Starting, Stopping
  <2>2. OwnerInv'
    BY DEF Types, OwnerInv, Unborn, Starting, Stopping
  <2>3. ThreadInv'
    BY DEF Types, OwnerInv, ThreadInv, ReturnInv, Unborn, Starting, Stopping, Asked, Told
  <2>4. ReturnInv'
    BY DEF Types, OwnerInv, ThreadInv, ReturnInv, Starting, Stopping, Asked, Told
  <2> QED BY <2>1, <2>2, <2>3, <2>4
<1>5. CASE CheckLoop
  <2> USE <1>5 DEF CheckLoop, OwnerMoves, OwnerGoto, threadVars, userVars
  <2>1. Types'
    BY DEF Types, ThreadStates, OwnerStates, OwnerInv, Starting, Stopping
  <2>2. OwnerInv'
    BY DEF Types, OwnerInv, Unborn, Starting, Stopping
  <2>3. ThreadInv'
    BY DEF Types, OwnerInv, ThreadInv, ReturnInv, Unborn, Starting, Stopping, Asked, Told
  <2>4. ReturnInv'
    <3>1. i \in Ids
      BY DEF Types, OwnerInv, Starting
    <3>2. ASSUME loop_[i]
          PROVE  /\ thread[i] \notin {"none", "spawned", "ctor", "callback", "publish"}
                 /\ threw[i] # "callback"
      BY <3>1, <3>2 DEF Types, ThreadInv
    <3> QED BY <3>2 DEF ReturnInv
  <2> QED BY <2>1, <2>2, <2>3, <2>4
<1>6. CASE Block
  <2> USE <1>6 DEF Block, OwnerGoto, threadVars, userVars
  <2>1. Types'
    BY DEF Types, ThreadStates, OwnerStates, OwnerInv, Starting, Stopping
  <2>2. OwnerInv'
    BY DEF Types, OwnerInv, Unborn, Starting, Stopping
  <2>3. ThreadInv'
    BY DEF Types, OwnerInv, ThreadInv, ReturnInv, Unborn, Starting, Stopping, Asked, Told
  <2>4. ReturnInv'
    BY DEF Types, OwnerInv, ThreadInv, ReturnInv, Starting, Stopping, Asked, Told
  <2> QED BY <2>1, <2>2, <2>3, <2>4
<1>7. CASE Wake \/ SpuriousWake
  <2> USE <1>7 DEF Wake, SpuriousWake, OwnerMoves, OwnerGoto, threadVars, userVars
  <2>1. Types'
    BY DEF Types, ThreadStates, OwnerStates, OwnerInv, Starting, Stopping
  <2>2. OwnerInv'
    BY DEF Types, OwnerInv, Unborn, Starting, Stopping
  <2>3. ThreadInv'
    BY DEF Types, OwnerInv, ThreadInv, ReturnInv, Unborn, Starting, Stopping, Asked, Told
  <2>4. ReturnInv'
    BY DEF Types, OwnerInv, ThreadInv, ReturnInv, Starting, Stopping, Asked, Told
  <2> QED BY <2>1, <2>2, <2>3, <2>4
<1>8. CASE ReturnLoop
  <2> USE <1>8 DEF ReturnLoop, OwnerGoto, threadVars, userVars
  <2>1. Types'
    BY DEF Types, ThreadStates, OwnerStates, OwnerInv, Starting, Stopping
  <2>2. OwnerInv'
    BY DEF Types, OwnerInv, Unborn, Starting, Stopping
  <2>3. ThreadInv'
    BY DEF Types, OwnerInv, ThreadInv, ReturnInv, Unborn, Starting, Stopping, Asked, Told
  <2>4. ReturnInv'
    <3>1. i \in Ids /\ Len(loops_) = i - 1 /\ ~Told(i)
      BY DEF Types, OwnerInv, Starting, Stopping, Told
    <3>2. thread[i] \notin {"none", "spawned", "ctor", "callback", "publish"} /\ threw[i] # "callback"
      BY DEF ReturnInv
    <3>3. ~selfQuit[i] => loop_[i]
      BY <3>1, <3>2 DEF Types, ThreadInv, Asked, ThreadStates
    <3>4. Len(loops_') = i /\ loops_'[i] = IF loop_[i] THEN i ELSE 0
      BY <3>1 DEF Types
    <3>5. \A k \in 1..Len(loops_) : loops_'[k] = loops_[k]
      BY DEF Types
    <3>6. ASSUME NEW k \in 1..Len(loops_')
          PROVE  /\ thread[k] \notin {"none", "spawned", "ctor", "callback"}
                 /\ ~selfQuit[k] => loops_'[k] = k
      <4>1. CASE k = i
        BY <4>1, <3>2, <3>3, <3>4
      <4>2. CASE k # i
        <5>1. k \in 1..Len(loops_)
          BY <3>1, <3>4, <4>2
        <5> QED BY <5>1, <3>5 DEF ReturnInv
      <4> QED BY <4>1, <4>2
    <3> QED BY <3>6 DEF ReturnInv
  <2> QED BY <2>1, <2>2, <2>3, <2>4
<1>9. CASE getNextLoop
  <2> USE <1>9 DEF getNextLoop, NextTurn, threadVars, userVars
  <2>1. Types'
    BY DEF Types, ThreadStates, OwnerStates, OwnerInv, Starting, Stopping
  <2>2. OwnerInv'
    BY DEF Types, OwnerInv, Unborn, Starting, Stopping
  <2>3. ThreadInv'
    BY DEF Types, OwnerInv, ThreadInv, ReturnInv, Unborn, Starting, Stopping, Asked, Told
  <2>4. ReturnInv'
    BY DEF Types, OwnerInv, ThreadInv, ReturnInv, Starting, Stopping, Asked, Told
  <2> QED BY <2>1, <2>2, <2>3, <2>4
<1>10. CASE Shutdown
  <2> USE <1>10 DEF Shutdown, OwnerGoto, threadVars, userVars
  <2>1. Types'
    BY DEF Types, ThreadStates, OwnerStates, OwnerInv, Starting, Stopping
  <2>2. OwnerInv'
    BY DEF Types, OwnerInv, Unborn, Starting, Stopping
  <2>3. ThreadInv'
    BY DEF Types, OwnerInv, ThreadInv, ReturnInv, Unborn, Starting, Stopping, Asked, Told
  <2>4. ReturnInv'
    BY DEF Types, OwnerInv, ThreadInv, ReturnInv, Starting, Stopping, Asked, Told
  <2> QED BY <2>1, <2>2, <2>3, <2>4
<1>11. CASE LoadLoop
  <2> USE <1>11 DEF LoadLoop, OwnerMoves, OwnerGoto, threadVars, userVars
  <2>1. Types'
    BY DEF Types, ThreadStates, OwnerStates, OwnerInv, Starting, Stopping
  <2>2. OwnerInv'
    BY DEF Types, OwnerInv, Unborn, Starting, Stopping
  <2>3. ThreadInv'
    BY DEF Types, OwnerInv, ThreadInv, ReturnInv, Unborn, Starting, Stopping, Asked, Told
  <2>4. ReturnInv'
    BY DEF Types, OwnerInv, ThreadInv, ReturnInv, Starting, Stopping, Asked, Told
  <2> QED BY <2>1, <2>2, <2>3, <2>4
<1>12. CASE StoreQuit
  <2> USE <1>12 DEF StoreQuit, OwnerGoto, threadVars, userVars
  <2>1. Types'
    BY DEF Types, ThreadStates, OwnerStates, OwnerInv, Starting, Stopping
  <2>2. OwnerInv'
    BY DEF Types, OwnerInv, Unborn, Starting, Stopping
  <2>3. ThreadInv'
    BY DEF Types, OwnerInv, ThreadInv, ReturnInv, Unborn, Starting, Stopping, Asked, Told
  <2>4. ReturnInv'
    BY DEF Types, OwnerInv, ThreadInv, ReturnInv, Starting, Stopping, Asked, Told
  <2> QED BY <2>1, <2>2, <2>3, <2>4
<1>13. CASE WakeupLoop
  <2> USE <1>13 DEF WakeupLoop, OwnerMoves, OwnerGoto, threadVars, userVars
  <2>1. Types'
    BY DEF Types, ThreadStates, OwnerStates, OwnerInv, Starting, Stopping
  <2>2. OwnerInv'
    BY DEF Types, OwnerInv, Unborn, Starting, Stopping
  <2>3. ThreadInv'
    BY DEF Types, OwnerInv, ThreadInv, ReturnInv, Unborn, Starting, Stopping, Asked, Told
  <2>4. ReturnInv'
    BY DEF Types, OwnerInv, ThreadInv, ReturnInv, Starting, Stopping, Asked, Told
  <2> QED BY <2>1, <2>2, <2>3, <2>4
<1>14. CASE Join
  <2> USE <1>14 DEF Join, OwnerGoto, threadVars, userVars
  <2>1. Types'
    BY DEF Types, ThreadStates, OwnerStates, OwnerInv, Starting, Stopping
  <2>2. OwnerInv'
    BY DEF Types, OwnerInv, Unborn, Starting, Stopping
  <2>3. ThreadInv'
    BY DEF Types, OwnerInv, ThreadInv, ReturnInv, Unborn, Starting, Stopping, Asked, Told
  <2>4. ReturnInv'
    BY DEF Types, OwnerInv, ThreadInv, ReturnInv, Starting, Stopping, Asked, Told
  <2> QED BY <2>1, <2>2, <2>3, <2>4
<1> QED BY <1>1, <1>2, <1>3, <1>4, <1>5, <1>6, <1>7, <1>8, <1>9, <1>10, <1>11, <1>12, <1>13, <1>14 DEF OwnerStep

\* The strengthened invariant holds in every reachable state.
LEMMA Invariant == Spec => []IInv
<1>1. IInv /\ [Next]_vars => IInv'
  <2> SUFFICES ASSUME IInv, [Next]_vars PROVE IInv'
    OBVIOUS
  <2>1. CASE Next
    <3>1. CASE \E k \in Ids : ThreadStep(k) \/ UserStep(k)
      BY <3>1, ThreadStepInv
    <3>2. CASE \E n \in 0..MaxThreads : setThreadNum(n)
      BY <3>2, OwnerStepInv
    <3>3. CASE Start \/ OwnerStep \/ SpuriousWake \/ getNextLoop \/ Shutdown
      <4>1. 0 \in 0..MaxThreads
        BY PoolAssumption
      <4> QED BY <3>3, <4>1, OwnerStepInv
    <3> QED BY <2>1, <3>1, <3>2, <3>3 DEF Next
  <2>2. CASE UNCHANGED vars
    BY <2>2
    DEF vars, ownerVars, threadVars, userVars, IInv, Types, OwnerInv, ThreadInv, ReturnInv,
        Asked, Told, Unborn
  <2> QED BY <2>1, <2>2
<1> QED BY <1>1, InitInv, PTL DEF Spec

-----------------------------------------------------------------------------
\* Every field of the pool and of its threads keeps its type: in particular the
\* unsigned next_ stays within its width and getNextLoop's index within loops_.
THEOREM PoolTypeCorrect == Spec => []TypeOK
<1>1. IInv => TypeOK
  BY DEF IInv, Types, TypeOK
<1> QED BY <1>1, Invariant, PTL

\* The atomic loop_ of an EventLoopThread never points to a destroyed EventLoop,
\* whatever the owner and the threads do, as long as no callback threw in loop().
THEOREM PublishedNeverStale == Spec => []PublishedIsAlive
<1>1. IInv => PublishedIsAlive
  BY DEF IInv, Types, ThreadInv, PublishedIsAlive
<1> QED BY <1>1, Invariant, PTL

\* What startLoop has returned is initialised, is the loop of its own thread and
\* lives until ~EventLoopThreadPool, for every number of threads.
THEOREM ReturnedReady == Spec => []ReturnedIsReady
<1>1. ASSUME IInv PROVE ReturnedIsReady
  <2> SUFFICES ASSUME NEW k \in 1..Len(loops_)
               PROVE  /\ thread[k] \notin {"none", "spawned", "ctor", "callback"}
                      /\ ~selfQuit[k] => loops_[k] = k
                      /\ owner = "running" /\ ~selfQuit[k] /\ threw[k] = "no" => alive[k]
    BY DEF ReturnedIsReady
  <2>1. k \in Ids
    BY <1>1, PoolAssumption DEF IInv, Types, OwnerInv, Ids
  <2>2. thread[k] \notin {"none", "spawned", "ctor", "callback"} /\ (~selfQuit[k] => loops_[k] = k)
    BY <1>1 DEF IInv, ReturnInv
  <2>3. ASSUME owner = "running", ~selfQuit[k], threw[k] = "no" PROVE alive[k]
    BY <1>1, <2>1, <2>2, <2>3 DEF IInv, Types, ThreadInv, Asked, Told, Stopping, ThreadStates
  <2> QED BY <2>2, <2>3
<1> QED BY <1>1, Invariant, PTL

\* Between its load of loop_ and its store to quit_, ~EventLoopThread cannot lose the
\* EventLoop to anything but the user's code.
THEOREM QuitReachesLoop == Spec => []QuitMeetsLoop
<1>1. ASSUME IInv, owner = "store", ~selfQuit[i], threw[i] = "no" PROVE alive[i]
  <2>1. i \in 1..Len(loops_) /\ i \in Ids /\ ~Told(i)
    BY <1>1, PoolAssumption DEF IInv, Types, OwnerInv, Ids, Stopping, Told
  <2>2. thread[i] \notin {"none", "spawned", "ctor", "callback"}
    BY <1>1, <2>1 DEF IInv, ReturnInv
  <2> QED BY <1>1, <2>1, <2>2 DEF IInv, Types, ThreadInv, Asked, ThreadStates
<1>2. IInv => QuitMeetsLoop
  BY <1>1 DEF QuitMeetsLoop
<1> QED BY <1>2, Invariant, PTL

-----------------------------------------------------------------------------
(* getNextLoop *)

\* As long as next_ has not wrapped, the loop handed out last is the one before next_;
\* there is nothing to hand out before start() has returned.
TurnInv ==
  /\ owner \in Starting \cup {"idle"} => next_ = 0
  /\ next_ # 0 => loops_ # <<>> /\ handed = ((next_ - 1) % Len(loops_)) + 1

\* Division with remainder.
LEMMA Quotient ==
  ASSUME NEW a \in Nat, NEW n \in Nat \ {0}
  PROVE  \E q \in Nat : \E r \in 0..(n - 1) : a = n * q + r /\ a % n = r
<1>1. a % n \in 0..(n - 1) /\ a \div n \in Nat /\ a = n * (a \div n) + (a % n)
  OBVIOUS
<1> QED BY <1>1

LEMMA Remainder ==
  ASSUME NEW n \in Nat \ {0}, NEW q \in Nat, NEW r \in 0..(n - 1)
  PROVE  (n * q + r) % n = r
OBVIOUS

\* The successor of a remainder, modulo n, is the remainder of the successor.
LEMMA NextModulo ==
  ASSUME NEW a \in Nat, NEW n \in Nat \ {0}
  PROVE  ((a % n) + 1) % n = (a + 1) % n
<1>1. PICK q \in Nat, r \in 0..(n - 1) : a = n * q + r /\ a % n = r
  BY Quotient
<1>2. CASE r + 1 < n
  <2>1. a + 1 = n * q + (r + 1) /\ r + 1 \in 0..(n - 1) /\ r + 1 = n * 0 + (r + 1)
    BY <1>1, <1>2
  <2>2. (n * q + (r + 1)) % n = r + 1 /\ (n * 0 + (r + 1)) % n = r + 1
    BY <2>1, Remainder
  <2> QED BY <1>1, <2>1, <2>2
<1>3. CASE r + 1 = n
  <2>1. a + 1 = n * (q + 1) + 0 /\ r + 1 = n * 1 + 0 /\ q + 1 \in Nat /\ 0 \in 0..(n - 1)
    BY <1>1, <1>3
  <2>2. (n * (q + 1) + 0) % n = 0 /\ (n * 1 + 0) % n = 0
    BY <2>1, Remainder
  <2> QED BY <1>1, <2>1, <2>2
<1> QED BY <1>2, <1>3

LEMMA LoopsLength ==
  ASSUME Types, loops_ # <<>>
  PROVE  Len(loops_) \in Nat \ {0}
BY DEF Types

\* No step but getNextLoop touches next_ or handed, and none changes loops_ once next_
\* counts.
LEMMA TurnKept ==
  ASSUME IInv, TurnInv, [Next]_vars, ~getNextLoop
  PROVE  UNCHANGED <<next_, handed>> /\ TurnInv'
<1> USE DEF ownerVars, threadVars, userVars, OwnerGoto, OwnerMoves, Goto, Starting
<1>1. CASE UNCHANGED vars
  BY <1>1 DEF vars, TurnInv
<1>2. ASSUME NEW n \in 0..MaxThreads, setThreadNum(n) PROVE UNCHANGED <<next_, handed>> /\ TurnInv'
  BY <1>2 DEF setThreadNum, TurnInv
<1>3. CASE Start
  BY <1>3 DEF Start, TurnInv
<1>4. CASE Spawn \/ SemWait \/ CheckLoop \/ Block \/ Wake \/ SpuriousWake
  BY <1>4 DEF Spawn, SemWait, CheckLoop, Block, Wake, SpuriousWake, TurnInv
<1>5. CASE ReturnLoop
  BY <1>5 DEF ReturnLoop, TurnInv
<1>6. CASE LoadLoop \/ StoreQuit \/ WakeupLoop \/ Join \/ Shutdown
  BY <1>6 DEF LoadLoop, StoreQuit, WakeupLoop, Join, Shutdown, TurnInv
<1>7. ASSUME NEW k \in Ids, ThreadStep(k) \/ UserStep(k) PROVE UNCHANGED <<next_, handed>> /\ TurnInv'
  <2>1. UNCHANGED ownerVars
    BY <1>7 DEF ThreadStep, UserStep, BeginThread, ConstructLoop, InitCallback, Publish, Notify, EnterLoop,
                LeaveLoop, ResetLoop, DestroyLoop, QuitInLoopThread, Throw
  <2> QED BY <2>1 DEF TurnInv
<1> QED BY <1>1, <1>2, <1>3, <1>4, <1>5, <1>6, <1>7 DEF Next, OwnerStep

\* getNextLoop hands out the next loop in turn.
LEMMA TurnTaken ==
  ASSUME IInv, TurnInv, getNextLoop
  PROVE  /\ TurnInv'
         /\ next_' # next_ /\ next_ # 0 => handed' = (handed % Len(loops_)) + 1
<1>1. /\ owner = "running" /\ owner' = owner /\ loops_' = loops_
      /\ next_ \in Nat /\ next_ < UIntMod /\ UIntMod \in Nat \ {0}
  BY PoolAssumption DEF getNextLoop, IInv, Types
<1>2. CASE loops_ = <<>>
  <2>1. UNCHANGED next_ /\ next_ = 0
    BY <1>2 DEF getNextLoop, TurnInv
  <2> QED BY <1>1, <2>1 DEF TurnInv, Starting
<1>3. CASE loops_ # <<>>
  <2>1. /\ Len(loops_) \in Nat \ {0}
        /\ handed' = (next_ % Len(loops_)) + 1
        /\ next_' = (next_ + 1) % UIntMod
    BY <1>3, LoopsLength DEF getNextLoop, NextTurn, IInv
  <2>2. next_' = 0 \/ next_' = next_ + 1
    <3>1. CASE next_ + 1 < UIntMod
      <4>1. next_ + 1 = UIntMod * 0 + (next_ + 1) /\ next_ + 1 \in 0..(UIntMod - 1)
        BY <1>1, <3>1
      <4> QED BY <1>1, <2>1, <4>1, Remainder
    <3>2. CASE next_ + 1 = UIntMod
      <4>1. next_ + 1 = UIntMod * 1 + 0 /\ 0 \in 0..(UIntMod - 1)
        BY <1>1, <3>2
      <4> QED BY <1>1, <2>1, <4>1, Remainder
    <3> QED BY <1>1, <3>1, <3>2
  <2>3. TurnInv'
    BY <1>1, <1>3, <2>1, <2>2 DEF TurnInv, Starting
  <2>4. ASSUME next_ # 0 PROVE handed' = (handed % Len(loops_)) + 1
    <3>1. next_ - 1 \in Nat /\ (next_ - 1) + 1 = next_
      BY <1>1, <2>4
    <3>2. (((next_ - 1) % Len(loops_)) + 1) % Len(loops_) = next_ % Len(loops_)
      BY <2>1, <3>1, NextModulo
    <3>3. handed = ((next_ - 1) % Len(loops_)) + 1
      BY <2>4 DEF TurnInv
    <3> QED BY <2>1, <3>2, <3>3
  <2> QED BY <2>3, <2>4
<1> QED BY <1>2, <1>3

\* getNextLoop's next_++ % size() goes round loops_ without leaving one out or repeating
\* one, for any number of loops, until the unsigned counter wraps.
THEOREM LoopsTakeTurns == Spec => RoundRobinUntilWrap
<1> DEFINE InTurn == next_' # next_ /\ next_ # 0 => handed' = (handed % Len(loops_)) + 1
<1>1. Init => TurnInv
  BY DEF Init, TurnInv
<1>2. IInv /\ TurnInv /\ [Next]_vars => TurnInv' /\ InTurn
  BY TurnKept, TurnTaken
<1> HIDE DEF InTurn
<1>3. Spec => [][InTurn]_vars
  BY <1>1, <1>2, Invariant, PTL DEF Spec
<1> QED BY <1>3 DEF RoundRobinUntilWrap, InTurn

-----------------------------------------------------------------------------
(* The owner does not wait in vain *)

\* The owner holds mutex_ from its test of loop_ until it blocks, and a loop that is
\* published after that has still to notify it, or has done so.
WaitInv ==
  /\ owner = "block" => ~loop_[i]
  /\ owner = "waiting" /\ loop_[i] => notified \/ thread[i] = "notify"

\* startLoop returns only after the loop was published, and ~EventLoopThread joins only
\* after quit_ was stored: it stays stored unless loop() was not entered yet.
JoinInv ==
  /\ \A k \in 1..Len(loops_) : thread[k] # "publish"
  /\ owner \in {"wakeup", "join"} =>
       /\ thread[i] \in {"notify", "enter"} => lostQuit[i]
       /\ thread[i] = "looping" => quit_[i] \/ lostQuit[i]

\* startLoop never sleeps on cond_ with the loop published and its notification gone, and
\* ~EventLoopThread never joins a loop that runs and was not told to quit, unless it was
\* told before loop() cleared quit_.
NobodyWaitsInVain ==
  /\ owner = "waiting" /\ loop_[i] => notified \/ thread[i] = "notify"
  /\ owner = "join" /\ thread[i] = "looping" => quit_[i] \/ lostQuit[i]

LEMMA WaitThreadStep ==
  ASSUME IInv, WaitInv, JoinInv, NEW k \in Ids, ThreadStep(k) \/ UserStep(k)
  PROVE  WaitInv' /\ JoinInv'
<1> USE DEF ownerVars, userVars, Goto
<1>1. /\ Types /\ UNCHANGED ownerVars /\ (owner \in {"block", "waiting", "wakeup", "join"} => i \in Ids)
      /\ 1..Len(loops_) \subseteq Ids
      /\ \A n \in 1..Len(loops_) : thread[n] \notin {"none", "spawned", "ctor", "callback"}
      /\ owner \in {"wakeup", "join"} => i \in 1..Len(loops_)
  <2>1. UNCHANGED ownerVars
    BY DEF ThreadStep, UserStep, BeginThread, ConstructLoop, InitCallback, Publish, Notify, EnterLoop,
           LeaveLoop, ResetLoop, DestroyLoop, QuitInLoopThread, Throw
  <2> QED BY <2>1, PoolAssumption DEF IInv, Types, OwnerInv, ReturnInv, Starting, Stopping, Ids
<1>2. CASE BeginThread(k)
  BY <1>1, <1>2 DEF BeginThread, WaitInv, JoinInv, Types
<1>3. CASE ConstructLoop(k)
  BY <1>1, <1>3 DEF ConstructLoop, WaitInv, JoinInv, Types
<1>4. CASE InitCallback(k)
  BY <1>1, <1>4 DEF InitCallback, WaitInv, JoinInv, Types
<1>5. CASE Publish(k)
  BY <1>1, <1>5 DEF Publish, MutexFree, WaitInv, JoinInv, Types
<1>6. CASE Notify(k)
  BY <1>1, <1>6 DEF Notify, WaitInv, JoinInv, Types
<1>7. CASE EnterLoop(k)
  BY <1>1, <1>7 DEF EnterLoop, WaitInv, JoinInv, Types
<1>8. CASE LeaveLoop(k)
  BY <1>1, <1>8 DEF LeaveLoop, WaitInv, JoinInv, Types
<1>9. CASE ResetLoop(k)
  BY <1>1, <1>9 DEF ResetLoop, WaitInv, JoinInv, Types
<1>10. CASE DestroyLoop(k)
  BY <1>1, <1>10 DEF DestroyLoop, WaitInv, JoinInv, Types
<1>11. CASE QuitInLoopThread(k)
  BY <1>1, <1>11 DEF QuitInLoopThread, WaitInv, JoinInv, Types
<1>12. CASE Throw(k)
  BY <1>1, <1>12 DEF Throw, WaitInv, JoinInv, Types
<1> QED BY <1>2, <1>3, <1>4, <1>5, <1>6, <1>7, <1>8, <1>9, <1>10, <1>11, <1>12 DEF ThreadStep, UserStep

LEMMA WaitOwnerStep ==
  ASSUME IInv, WaitInv, JoinInv, NEW n \in 0..MaxThreads,
         setThreadNum(n) \/ Start \/ OwnerStep \/ SpuriousWake \/ getNextLoop \/ Shutdown
  PROVE  WaitInv' /\ JoinInv'
<1> USE DEF OwnerGoto, OwnerMoves, threadVars, userVars
<1>1. /\ Types /\ (owner \in Starting \cup Stopping => i \in Ids)
      /\ 1..Len(loops_) \subseteq Ids
      /\ owner \in Stopping => i \in 1..Len(loops_)
  BY PoolAssumption DEF IInv, Types, OwnerInv, Starting, Stopping, Ids
<1>2. CASE setThreadNum(n) \/ Start \/ getNextLoop \/ Shutdown
  BY <1>2 DEF setThreadNum, Start, getNextLoop, Shutdown, WaitInv, JoinInv
<1>3. CASE Spawn
  <2>1. i \notin 1..Len(loops_)
    BY <1>3 DEF Spawn, IInv, Types, OwnerInv, Starting
  <2> QED BY <1>1, <1>3, <2>1 DEF Spawn, WaitInv, JoinInv, Types, Starting
<1>4. CASE SemWait \/ CheckLoop \/ Block \/ Wake \/ SpuriousWake
  BY <1>1, <1>4 DEF SemWait, CheckLoop, Block, Wake, SpuriousWake, WaitInv, JoinInv
<1>5. CASE ReturnLoop
  <2>1. owner = "load" /\ owner' \in {"running", "spawn"} /\ UNCHANGED <<thread, loop_, notified, lostQuit, quit_>>
    BY <1>5 DEF ReturnLoop
  <2>2. thread[i] # "publish" /\ Len(loops_') = Len(loops_) + 1 /\ i = Len(loops_) + 1
    BY <1>5 DEF ReturnLoop, IInv, Types, OwnerInv, ReturnInv, Starting, Ids
  <2>3. \A k \in 1..Len(loops_') : thread[k] # "publish"
    BY <1>1, <2>2 DEF JoinInv, Types
  <2> QED BY <2>1, <2>3 DEF WaitInv, JoinInv
<1>6. CASE LoadLoop
  <2>1. ~loop_[i] => thread[i] \notin {"notify", "enter", "looping"}
    BY <1>1, <1>6 DEF LoadLoop, IInv, ThreadInv, Stopping
  <2> QED BY <1>6, <2>1 DEF LoadLoop, WaitInv, JoinInv
<1>7. CASE StoreQuit
  BY <1>1, <1>7 DEF StoreQuit, WaitInv, JoinInv, Types, Stopping
<1>8. CASE WakeupLoop
  BY <1>8 DEF WakeupLoop, WaitInv, JoinInv
<1>9. CASE Join
  BY <1>9 DEF Join, WaitInv, JoinInv
<1> QED BY <1>2, <1>3, <1>4, <1>5, <1>6, <1>7, <1>8, <1>9 DEF OwnerStep

\* The handshakes of startLoop, over mutex_ and cond_, and of ~EventLoopThread, over the
\* atomic loop_ and quit_, lose no notification and no quit() but the one that comes too
\* early: the safety that StartReturns and JoinReturns rest on.
THEOREM WaitsAreAnswered == Spec => []NobodyWaitsInVain
<1>1. Init => WaitInv /\ JoinInv
  BY DEF Init, WaitInv, JoinInv
<1>2. IInv /\ WaitInv /\ JoinInv /\ [Next]_vars => WaitInv' /\ JoinInv'
  <2> SUFFICES ASSUME IInv, WaitInv, JoinInv, [Next]_vars PROVE WaitInv' /\ JoinInv'
    OBVIOUS
  <2>1. CASE UNCHANGED vars
    BY <2>1 DEF vars, ownerVars, threadVars, userVars, WaitInv, JoinInv
  <2>2. 0 \in 0..MaxThreads
    BY PoolAssumption
  <2> QED BY <2>1, <2>2, WaitThreadStep, WaitOwnerStep DEF Next
<1>3. WaitInv /\ JoinInv => NobodyWaitsInVain
  BY DEF WaitInv, JoinInv, NobodyWaitsInVain
<1> QED BY <1>1, <1>2, <1>3, Invariant, PTL DEF Spec
=============================================================================
