------------------------------ MODULE TcpServer ------------------------------
(***************************************************************************)
(* TcpServer with its Acceptor and its connections on the io loops: the    *)
(* connection map and its names, the functors that carry connections from  *)
(* loop to loop, who owns a connection when, and ~TcpServer against loops  *)
(* that still run.                                                         *)
(*                                                                         *)
(* A TcpConnection is freed when its last TcpConnectionPtr goes.  Some     *)
(* functors hold one, others capture a plain this.  The functors of a      *)
(* batch are destroyed together, when all of them have run.  What happens  *)
(* inside a connection is TcpConnection.tla; a loop's batches are those of *)
(* EventLoop.tla.  Without io loops the base loop serves the connections.  *)
(***************************************************************************)
EXTENDS Naturals, Sequences

CONSTANTS
  Conns,     \* TcpConnection objects, each made once
  IoLoops,   \* bound: loops that threadPool_ may have
  Base,      \* loop_ of the server
  NoConn,
  IdMod,     \* number of values of an unsigned int
  MaxSends   \* bound: calls of send()

ASSUME ServerAssumption ==
  /\ Base \notin IoLoops
  /\ NoConn \notin Conns
  /\ IdMod \in Nat \ {0}
  /\ MaxSends \in Nat

Loops == IoLoops \cup {Base}

VARIABLES
  server,            \* constructed, started, in its destructor, or gone
  pool,              \* the loops of threadPool_
  told,              \* those whose quit() the destructor has called
  connections_,      \* per number of a name
  nextConnId_,
  collided,          \* a new connection has got the name of one that still exists
  state_, loop_, name_,
  registered,        \* the poller has the connection's channel
  destroyed,         \* calls of connectDestroyed, at most 2 counted
  user,              \* the user keeps a TcpConnectionPtr
  calling,           \* another thread is in send(), past the test of state_
  foreign,           \* another thread has queued a send
  late,              \* a send ran behind connectDestroyed
  sends,
  phase, quit_,      \* of each loop
  pendingFunctors_, functors,
  ran,               \* how many of functors have run
  exited             \* LOG_FATAL has ended the process

serverVars == <<server, pool, told, connections_, nextConnId_, collided>>
connVars == <<state_, loop_, name_, registered, destroyed>>
userVars == <<user, calling, foreign, late, sends>>
loopVars == <<phase, quit_, functors, ran>>
vars == <<serverVars, connVars, userVars, loopVars, pendingFunctors_, exited>>

\* Functors that hold a TcpConnectionPtr, and functors that capture this.
Owning == {"established", "remove", "destroyed"}
Raw == {"send", "writeComplete"}
Functors == [op : {"established", "remove", "destroyed", "send", "writeComplete"}, conn : Conns]
F(op, c) == [op |-> op, conn |-> c]

TypeOK ==
  /\ server \in {"new", "up", "dtor", "gone"}
  /\ pool \subseteq IoLoops
  /\ told \subseteq IoLoops
  /\ connections_ \in [0..(IdMod - 1) -> Conns \cup {NoConn}]
  /\ nextConnId_ \in 0..(IdMod - 1)
  /\ state_ \in [Conns -> {"unborn", "Connecting", "Connected", "Disconnected"}]
  /\ loop_ \in [Conns -> Loops]
  /\ name_ \in [Conns -> 0..(IdMod - 1)]
  /\ destroyed \in [Conns -> 0..2]
  /\ {registered, user, calling, foreign, late} \subseteq [Conns -> BOOLEAN]
  /\ sends \in 0..MaxSends
  /\ phase \in [Loops -> {"entering", "poll", "functors", "ended"}]
  /\ quit_ \in [Loops -> BOOLEAN]
  /\ {pendingFunctors_, functors} \subseteq [Loops -> Seq(Functors)]
  /\ ran \in [Loops -> Nat]
  /\ \A l \in Loops : ran[l] <= Len(functors[l])
  /\ {collided, exited} \subseteq BOOLEAN

Init ==
  /\ server = "new" /\ pool = {} /\ told = {}
  /\ connections_ = [id \in 0..(IdMod - 1) |-> NoConn]
  /\ nextConnId_ = 1 % IdMod /\ collided = FALSE
  /\ state_ = [c \in Conns |-> "unborn"]
  /\ loop_ = [c \in Conns |-> Base]
  /\ name_ = [c \in Conns |-> 0] /\ destroyed = name_
  /\ registered = [c \in Conns |-> FALSE]
  /\ user = registered /\ calling = registered /\ foreign = registered /\ late = registered
  /\ sends = 0
  /\ phase = [l \in Loops |-> IF l = Base THEN "poll" ELSE "entering"]
  /\ quit_ = [l \in Loops |-> FALSE]
  /\ pendingFunctors_ = [l \in Loops |-> <<>>] /\ functors = pendingFunctors_
  /\ ran = [l \in Loops |-> 0]
  /\ exited = FALSE

-----------------------------------------------------------------------------
(* References and queues *)

Holds(queue, c) == \E k \in DOMAIN queue : queue[k].op \in Owning /\ queue[k].conn = c

\* Some TcpConnectionPtr to c exists.
Alive(c) ==
  \/ \E id \in DOMAIN connections_ : connections_[id] = c
  \/ user[c]
  \/ \E l \in Loops : Holds(pendingFunctors_[l], c) \/ Holds(functors[l], c)

\* The thread of l is in loop(), and not in ~TcpServer.
Free(l) ==
  /\ l \in pool \cup {Base}
  /\ phase[l] \notin {"entering", "ended"}
  /\ l = Base => server # "dtor"
Polling(l) == Free(l) /\ phase[l] = "poll"

queueInLoop(l, f) == pendingFunctors_' = [pendingFunctors_ EXCEPT ![l] = Append(@, f)]

-----------------------------------------------------------------------------
(* What the server and a loop do to a connection *)

\* A send() on the loop's thread that writes everything, or none.
MaySend(c, l) ==
  \/ UNCHANGED <<sends, pendingFunctors_>>
  \/ /\ sends < MaxSends
     /\ sends' = sends + 1
     /\ queueInLoop(l, F("writeComplete", c))

\* connectEstablished; in the callback the user may keep a reference, and may send.
connectEstablished(c, l) ==
  /\ state_' = [state_ EXCEPT ![c] = "Connected"]
  /\ registered' = [registered EXCEPT ![c] = TRUE]
  /\ user' \in {user, [user EXCEPT ![c] = TRUE]}
  /\ MaySend(c, l)

\* Mutant: the channel stays in the poller.
connectDestroyed_NoRemove(c) ==
  /\ state_' = [state_ EXCEPT ![c] = "Disconnected"]
  /\ destroyed' = [destroyed EXCEPT ![c] = IF @ < 2 THEN @ + 1 ELSE @]
  /\ UNCHANGED registered

connectDestroyed(c) ==
  /\ state_' = [state_ EXCEPT ![c] = "Disconnected"]
  /\ destroyed' = [destroyed EXCEPT ![c] = IF @ < 2 THEN @ + 1 ELSE @]
  /\ registered' = [registered EXCEPT ![c] = FALSE]

\* Mutant: the result of erase() is not tested.
removeConnectionInLoop_NoTest(c) ==
  /\ connections_' = [connections_ EXCEPT ![name_[c]] = NoConn]
  /\ queueInLoop(loop_[c], F("destroyed", c))

\* The entry goes by its name, and connectDestroyed to the connection's loop.
removeConnectionInLoop(c) ==
  IF connections_[name_[c]] # NoConn
  THEN /\ connections_' = [connections_ EXCEPT ![name_[c]] = NoConn]
       /\ queueInLoop(loop_[c], F("destroyed", c))
  ELSE UNCHANGED <<connections_, pendingFunctors_>>

\* Mutant: queueInLoop where the code says runInLoop.
removeConnection_Queues(c) == queueInLoop(Base, F("remove", c)) /\ UNCHANGED connections_

\* Mutant: the removal gets lost.
removeConnection_Lost(c) == UNCHANGED <<connections_, pendingFunctors_>>

\* runInLoop: at once when the connection's loop is the base loop.
removeConnection(c) ==
  IF loop_[c] = Base THEN removeConnectionInLoop(c)
  ELSE queueInLoop(Base, F("remove", c)) /\ UNCHANGED connections_

-----------------------------------------------------------------------------
(* The base loop: Acceptor and TcpServer *)

\* start(), with as many loops as setThreadNum asked for.  startLoop() returns when the
\* thread has published its loop, and that may be before it is in loop().
Start(loops) ==
  /\ server = "new"
  /\ server' = "up"
  /\ pool' = loops
  /\ UNCHANGED <<told, connections_, nextConnId_, collided, connVars, userVars, loopVars,
                 pendingFunctors_, exited>>

listenning == server = "up"

\* acceptChannel_ is reported, and Acceptor::handleRead calls accept().
Accepting == Polling(Base) /\ listenning

\* Mutant: the counter does not wrap.
NextId_NoWrap == nextConnId_ + 1
NextId == (nextConnId_ + 1) % IdMod

\* Mutant: the connection is not entered.
Emplace_Forgets(c) == UNCHANGED <<connections_, collided>>

\* emplace leaves an entry of the same name alone.
Emplace(c) ==
  /\ connections_' = [connections_ EXCEPT ![nextConnId_] = IF @ = NoConn THEN c ELSE @]
  /\ collided' = (collided \/ \E d \in Conns : Alive(d) /\ name_[d] = nextConnId_)

\* Mutant: the functor is not queued.
HandOver_Lost(c, l) ==
  /\ state_' = [state_ EXCEPT ![c] = "Connecting"]
  /\ UNCHANGED <<registered, user, sends, pendingFunctors_>>

\* runInLoop of connectEstablished
HandOver(c, l) ==
  IF l = Base THEN connectEstablished(c, l)
  ELSE /\ state_' = [state_ EXCEPT ![c] = "Connecting"]
       /\ queueInLoop(l, F("established", c))
       /\ UNCHANGED <<registered, user, sends>>

\* getNextLoop returns baseLoop_ when there is no other, and may return any here.
newConnection(c, l) ==
  /\ Accepting
  /\ state_[c] = "unborn"
  /\ l \in IF pool = {} THEN {Base} ELSE pool
  /\ nextConnId_' = NextId
  /\ loop_' = [loop_ EXCEPT ![c] = l]
  /\ name_' = [name_ EXCEPT ![c] = nextConnId_]
  /\ Emplace(c)
  /\ HandOver(c, l)
  /\ UNCHANGED <<server, pool, told, destroyed, calling, foreign, late, loopVars, exited>>

\* getsockname fails: the descriptor is closed, the number is used up.
NoLocalAddress ==
  /\ Accepting
  /\ nextConnId_' = NextId
  /\ UNCHANGED <<server, pool, told, connections_, collided, connVars, userVars, loopVars, pendingFunctors_, exited>>

\* handleAcceptError exits, whatever the error.
handleAcceptError ==
  /\ Accepting
  /\ exited' = TRUE
  /\ UNCHANGED <<serverVars, connVars, userVars, loopVars, pendingFunctors_>>

-----------------------------------------------------------------------------
(* The destructor, on the thread of the base loop *)

Destruct ==
  /\ server = "up" /\ Free(Base)
  /\ server' = "dtor"
  /\ UNCHANGED <<pool, told, connections_, nextConnId_, collided, connVars, userVars, loopVars, pendingFunctors_, exited>>

\* One round of the loop over connections_, whose order is the map's.
DestructEntry(id) ==
  LET c == connections_[id]
  IN  /\ server = "dtor" /\ c # NoConn
      /\ connections_' = [connections_ EXCEPT ![id] = NoConn]
      /\ IF loop_[c] = Base THEN connectDestroyed(c) /\ UNCHANGED pendingFunctors_
         ELSE queueInLoop(loop_[c], F("destroyed", c)) /\ UNCHANGED <<state_, registered, destroyed>>
      /\ UNCHANGED <<server, pool, told, nextConnId_, collided, loop_, name_, userVars, loopVars, exited>>

EntriesDone == server = "dtor" /\ \A id \in DOMAIN connections_ : connections_[id] = NoConn

\* ~EventLoopThreadPool tells its loops to quit and joins them, one after the other.
QuitLoop(l) ==
  /\ EntriesDone
  /\ l \notin told
  /\ \A k \in told : phase[k] = "ended"
  /\ told' = told \cup {l}
  /\ quit_' = [quit_ EXCEPT ![l] = TRUE]
  /\ UNCHANGED <<server, pool, connections_, nextConnId_, collided, connVars, userVars,
                 phase, functors, ran, pendingFunctors_, exited>>

\* The Acceptor goes last.
DestructDone ==
  /\ EntriesDone
  /\ \A l \in pool : phase[l] = "ended"
  /\ server' = "gone"
  /\ UNCHANGED <<pool, told, connections_, nextConnId_, collided, connVars, userVars, loopVars, pendingFunctors_, exited>>

-----------------------------------------------------------------------------
(* A loop: events of a connection *)

\* Mutant: state_ stays as it is.
ClosedState_Kept(c) == state_
ClosedState(c) == [state_ EXCEPT ![c] = "Disconnected"]

\* handleClose, with closeCallback_ and its pointer to the server
handleClose(c) ==
  /\ registered[c] /\ Alive(c) /\ Polling(loop_[c])
  /\ server # "gone"
  /\ state_' = ClosedState(c)
  /\ registered' = [registered EXCEPT ![c] = FALSE]
  /\ removeConnection(c)
  /\ UNCHANGED <<server, pool, told, nextConnId_, collided, loop_, name_, destroyed, userVars, loopVars, exited>>

\* A write completes: a send() of messageCallback_ in handleRead, or the last bytes in
\* handleWrite.
WriteCompletes(c) ==
  /\ registered[c] /\ Alive(c) /\ Polling(loop_[c])
  /\ sends < MaxSends
  /\ sends' = sends + 1
  /\ queueInLoop(loop_[c], F("writeComplete", c))
  /\ UNCHANGED <<serverVars, connVars, user, calling, foreign, late, loopVars, exited>>

-----------------------------------------------------------------------------
(* A loop: its entry and its functors *)

\* loop() clears quit_, whatever was stored there before, and then tests it as it does
\* after a batch.
EnterLoop(l) ==
  /\ l \in pool
  /\ phase[l] = "entering"
  /\ quit_' = [quit_ EXCEPT ![l] = FALSE]
  /\ phase' = [phase EXCEPT ![l] = "functors"]
  /\ UNCHANGED <<serverVars, connVars, userVars, functors, ran, pendingFunctors_, exited>>

Swap(l) ==
  /\ Polling(l)
  /\ functors' = [functors EXCEPT ![l] = pendingFunctors_[l]]
  /\ pendingFunctors_' = [pendingFunctors_ EXCEPT ![l] = <<>>]
  /\ phase' = [phase EXCEPT ![l] = "functors"]
  /\ UNCHANGED <<serverVars, connVars, userVars, quit_, ran, exited>>

Current(l) == functors[l][ran[l] + 1]

Running(l, op) ==
  /\ Free(l) /\ phase[l] = "functors"
  /\ ran[l] < Len(functors[l])
  /\ Current(l).op = op
  /\ ran' = [ran EXCEPT ![l] = @ + 1]

RunEstablished(l) ==
  /\ Running(l, "established")
  /\ connectEstablished(Current(l).conn, l)
  /\ UNCHANGED <<serverVars, loop_, name_, destroyed, calling, foreign, late, phase, quit_, functors, exited>>

RunDestroyed(l) ==
  /\ Running(l, "destroyed")
  /\ connectDestroyed(Current(l).conn)
  /\ UNCHANGED <<serverVars, loop_, name_, userVars, phase, quit_, functors, pendingFunctors_, exited>>

\* The functor holds the connection and a plain pointer to the server.
RunRemove(l) ==
  /\ Running(l, "remove")
  /\ server # "gone"
  /\ removeConnectionInLoop(Current(l).conn)
  /\ UNCHANGED <<server, pool, told, nextConnId_, collided, connVars, userVars, phase, quit_, functors, exited>>

\* sendInLoop: everything is written, or the rest is watched, or the write fails.
RunSend(l) ==
  LET c == Current(l).conn
  IN  /\ Running(l, "send") /\ Alive(c)
      /\ \/ /\ queueInLoop(l, F("writeComplete", c))
            /\ UNCHANGED registered
         \/ /\ registered' = [registered EXCEPT ![c] = TRUE]
            /\ UNCHANGED pendingFunctors_
         \/ UNCHANGED <<registered, pendingFunctors_>>
      /\ late' = [late EXCEPT ![c] = @ \/ destroyed[c] > 0]
      /\ UNCHANGED <<serverVars, state_, loop_, name_, destroyed, user, calling, foreign, sends,
                     phase, quit_, functors, exited>>

\* writeCompleteCallback_, in which the user may send again.
RunWriteComplete(l) ==
  LET c == Current(l).conn
  IN  /\ Running(l, "writeComplete") /\ Alive(c)
      /\ IF state_[c] = "Connected" THEN MaySend(c, l) ELSE UNCHANGED <<sends, pendingFunctors_>>
      /\ UNCHANGED <<serverVars, connVars, user, calling, foreign, late, phase, quit_, functors, exited>>

\* Mutant: quit_ is not looked at.
AfterBatch_NoQuit(l) == "poll"
AfterBatch(l) == IF quit_[l] THEN "ended" ELSE "poll"

\* The batch is destroyed; a loop that ends takes its queue with it.
EndBatch(l) ==
  /\ Free(l) /\ phase[l] = "functors"
  /\ ran[l] = Len(functors[l])
  /\ functors' = [functors EXCEPT ![l] = <<>>]
  /\ ran' = [ran EXCEPT ![l] = 0]
  /\ phase' = [phase EXCEPT ![l] = AfterBatch(l)]
  /\ pendingFunctors_' = [pendingFunctors_ EXCEPT ![l] = IF AfterBatch(l) = "ended" THEN <<>> ELSE @]
  /\ UNCHANGED <<serverVars, connVars, userVars, quit_, exited>>

-----------------------------------------------------------------------------
(* Another thread, with a reference the user kept *)

\* send() tests state_, and later queues.
CallSend(c) ==
  /\ user[c] /\ ~calling[c]
  /\ state_[c] = "Connected" /\ sends < MaxSends
  /\ sends' = sends + 1
  /\ calling' = [calling EXCEPT ![c] = TRUE]
  /\ UNCHANGED <<serverVars, connVars, user, foreign, late, loopVars, pendingFunctors_, exited>>

QueueSend(c) ==
  /\ calling[c] /\ phase[loop_[c]] # "ended"
  /\ calling' = [calling EXCEPT ![c] = FALSE]
  /\ foreign' = [foreign EXCEPT ![c] = TRUE]
  /\ queueInLoop(loop_[c], F("send", c))
  /\ UNCHANGED <<serverVars, connVars, user, late, sends, loopVars, exited>>

Release(c) ==
  /\ user[c] /\ ~calling[c]
  /\ user' = [user EXCEPT ![c] = FALSE]
  /\ UNCHANGED <<serverVars, connVars, calling, foreign, late, sends, loopVars, pendingFunctors_, exited>>

-----------------------------------------------------------------------------
LoopStep(l) ==
  \/ EnterLoop(l)
  \/ Swap(l)
  \/ RunEstablished(l)
  \/ RunDestroyed(l)
  \/ RunRemove(l)
  \/ RunSend(l)
  \/ RunWriteComplete(l)
  \/ EndBatch(l)

DestructorStep ==
  \/ \E id \in DOMAIN connections_ : DestructEntry(id)
  \/ \E l \in pool : QuitLoop(l)
  \/ DestructDone

UserStep(c) == CallSend(c) \/ QueueSend(c) \/ Release(c)

Next ==
  /\ ~exited
  /\ \/ \E loops \in SUBSET IoLoops : Start(loops)
     \/ \E c \in Conns, l \in Loops : newConnection(c, l)
     \/ NoLocalAddress
     \/ handleAcceptError
     \/ Destruct
     \/ DestructorStep
     \/ \E c \in Conns : handleClose(c) \/ WriteCompletes(c) \/ UserStep(c)
     \/ \E l \in Loops : LoopStep(l)

Spec == Init /\ [][Next]_vars

\* Every loop and the destructor go on.  Nothing is assumed of the peers and the user.
FairSpec ==
  /\ Spec
  /\ \A l \in Loops : WF_vars(~exited /\ LoopStep(l))
  /\ WF_vars(~exited /\ DestructorStep)

-----------------------------------------------------------------------------
(* Properties *)

Made(c) == state_[c] # "unborn"
Freed(c) == Made(c) /\ ~Alive(c)
Open(c) == state_[c] \in {"Connecting", "Connected"}
Entered(c) == connections_[name_[c]] = c

\* "ConnectionMap : Maintains all active connections" (TcpServer.hpp): until the
\* server is destroyed, connections_ has every connection that is not closed.
MapHoldsActive == server = "up" => \A c \in Conns : Open(c) => Entered(c)

\* As long as nextConnId_ has not come round to a name in use, the map has every
\* open connection, and a connection leaves it for good.
MapHoldsActiveUntilCollision ==
  ~collided =>
    \A c \in Conns : /\ server = "up" /\ Open(c) => Entered(c)
                     /\ destroyed[c] > 0 => ~Entered(c)

\* However removals, repeated closes and the destructor meet, connectDestroyed runs
\* at most once, and it has run when the last reference goes, unless its loop ended.
DestroyedOnce ==
  ~collided =>
    \A c \in Conns : /\ destroyed[c] <= 1
                     /\ Freed(c) => destroyed[c] = 1 \/ phase[loop_[c]] = "ended"

\* The poller of a running loop has no channel of a freed connection, unless a
\* queued send brought it back behind connectDestroyed.
FreedIsUnregistered ==
  \A c \in Conns : Freed(c) /\ ~collided /\ registered[c] => late[c] \/ phase[loop_[c]] = "ended"

\* Functors with a plain this run on a connection that exists, as long as the
\* server does and no other thread has queued a send on it.
RawThisIsAlive ==
  \A l \in Loops : \A k \in (ran[l] + 1)..Len(functors[l]) :
    LET f == functors[l][k]
    IN  f.op \in Raw /\ server = "up" /\ ~collided /\ ~foreign[f.conn] => Alive(f.conn)

\* Without io threads nobody comes back to a destroyed server: no removal is
\* queued, and no channel is left whose close would call it, but for sends of other
\* threads.  With io threads the removals of connections closed meanwhile do.
NobodyCallsDeadServer ==
  server = "gone" =>
    /\ \A q \in {pendingFunctors_[Base], functors[Base]} : \A k \in DOMAIN q :
         q[k].op = "remove" => loop_[q[k].conn] # Base
    /\ \A c \in Conns :
         registered[c] /\ Alive(c) /\ ~collided => foreign[c] \/ phase[loop_[c]] = "ended"

\* A loop that would run a functor on a freed connection.
Stuck == \E l \in Loops : ran[l] < Len(functors[l]) /\ Current(l).op \in Raw /\ ~Alive(Current(l).conn)

\* An accepted connection is established on its loop.
AcceptedIsEstablished ==
  \A c \in Conns : state_[c] = "Connecting" ~> state_[c] # "Connecting" \/ server # "up" \/ exited \/ Stuck

\* A closed connection comes to connectDestroyed by way of both loops.
ClosedIsDestroyed ==
  \A c \in Conns : state_[c] = "Disconnected" ~> destroyed[c] > 0 \/ server # "up" \/ exited \/ collided \/ Stuck

\* A quit() that was stored before loop() cleared quit_.
LostQuit == \E l \in told : ~quit_[l]

\* ~TcpServer returns although it joins loops that are still being fed, unless a quit()
\* came before its loop was entered.
DestructorReturns == server = "dtor" ~> server = "gone" \/ exited \/ Stuck \/ LostQuit
=============================================================================
