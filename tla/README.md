# A TLA+ model of EduMuduo

EduMuduo is a small reactor library for TCP servers on Linux: one `EventLoop`
per thread, `epoll` underneath, callbacks on top. This directory models its core
in TLA+, checks it with TLC on small instances and proves the main invariants
with TLAPS for every value of the constants.

## 1. The system

| Component | State | Operations | Talks to |
|---|---|---|---|
| `EventLoop` | `quit_`, `looping_`, `pendingFunctors_` (mutex), `callingPendingFunctors_`, `wakeupFd_`, `activeChannels_`, `t_loopInThisThread` | `loop`, `quit`, `runInLoop`, `queueInLoop`, `doPendingFunctors`, `wakeup` | any thread queues functors; the poller; channels' callbacks |
| `EPollPoller`, `Poller`, `Channel` | `channels_`, the event list, `fd_`, `events_`, `index_`, the kernel's interest set | `poll`, `updateChannel`, `removeChannel`, `hasChannel`, `enableReading` ... `disableAll`, `remove`, `handleEvent` | called on the loop's thread by the owners of channels |
| `Buffer` | `buffer_`, `readerIndex_`, `writerIndex_` | `append`, `retrieve*`, `readFd`, `writeFd`, `makeSpace` | the two buffers of a connection |
| `Thread`, `EventLoopThread`, `EventLoopThreadPool` | `loop_`, `mutex_`, `cond_`, `loops_`, `next_`, `numThreads_` | `start`, `startLoop`, `threadFunc`, `getNextLoop`, destructors | creates the io loops on other threads' stacks |
| `TcpConnection` | `state_`, `channel_`, `outputBuffer_`, `inputBuffer_` | `send`, `shutdown`, `connectEstablished`, `connectDestroyed`, `handleRead/Write/Close/Error` | io loop, user callbacks, other threads, `TcpServer` |
| `TcpServer`, `Acceptor` | `connections_`, `nextConnId_`, `started_`, `listenning_` | `start`, `newConnection`, `removeConnection(InLoop)`, the destructor, `listen`, `handleRead`, `handleAcceptError` | base loop; hands connections to io loops |
| `Socket`, `InetAddress`, `Logger`, `Timestamp`, `CurrentThread` | descriptors, addresses, output | system calls and formatting | everybody |

What is hard here: functors and `quit()` arrive from other threads while the loop
is about to block; `EventLoop`s live on the stack of threads that other threads
tell to stop; a connection's state is tested on one thread and used on another;
closes by the peer, by a hang-up and by the server meet in one connection; writes
are partial; descriptors and addresses are reused. `PROJECT.json` lists these
hazards at their lines, each with the properties that watch it.

What makes each component correct, in a sentence: the loop runs what is queued,
once and in order, and stops when told; the interest set agrees with the channels;
a buffer is a queue of bytes; a started loop is alive and joinable; a connection
sends what it accepted in order, then its FIN, and reports UP and DOWN once; a server knows
its connections, destroys each once on the loop that serves it, and outlives its callers.

## 2. The modules

| Module | Models | Runs | Proofs |
|---|---|---|---|
| `EventLoop` | `EventLoop.cpp`: the loop, the queue, the eventfd | `EventLoop`, `EventLoop_tasks` | `EventLoopProofs` |
| `TaskQueue` | what `queueInLoop` promises: a FIFO queue | (refined by `EventLoop`) | `LoopImplementsTaskQueue` |
| `LoopPerThread` | constructor, destructor, `t_loopInThisThread` | `LoopPerThread` | |
| `Buffer` | `Buffer.cpp` | `Buffer` | `BufferProofs` |
| `ByteQueue` | what a Buffer promises: a FIFO queue of bytes | (refined by `Buffer`) | `BufferImplementsByteQueue` |
| `EPollPoller` | `EpollPoller.cpp`, `Poller.cpp`, the registration half of `Channel.cpp` | `EPollPoller` | `EPollPollerProofs` |
| `EventLoopThreadPool` | `Thread`, `EventLoopThread`, `EventLoopThreadPool` | `EventLoopThreadPool`, `EventLoopThreadPool_wrap` | `EventLoopThreadPoolProofs` |
| `TcpConnection` | `TcpConnection.hpp`, `Channel::handleEventWithGuard`, and what `TcpServer` does to one connection | `TcpConnection`, `TcpConnection_loss` | `TcpConnectionProofs` |
| `TcpServer` | `TcpServer.hpp`, `Acceptor.cpp` and the life of several connections between the loops | `TcpServer`, `TcpServer_live`, `TcpServer_names` | `TcpServerProofs` |

`MCTcpServer` adds the symmetry of connections to the safety runs. Variables and actions carry the
names of the members they model; `PROJECT.json` maps each definition to its lines.
Definitions whose name has a suffix (`Quit_NoWakeup`) and whose comment starts with
"Mutant" are seeded bugs: put in place of the definition they are named after, each
violates the property it is listed with. No specification uses them otherwise.

### EventLoop

`pc` is the place of the loop's thread: outside `loop()`, at the `while` test, in
`epoll_wait`, handling events, running functors. A critical section of `mutex_` is one
statement in the code and one step here. The calls of other threads are two steps,
push (or store to `quit_`) and write to the eventfd, because they hold no lock in
between; `call[p]` says that thread `p` still owes the write. Calls the loop's own
thread makes happen only where a callback can be running (`InCallback`). Bound: each
functor is a submission and is queued once. `EventfdMax` is the limit at which a
non-blocking eventfd refuses a write; with 2 the run reaches it. Two threads race each other and the loop's callbacks with three functors.

`early` remembers functors that the loop's own thread queued outside `loop()`: for
these the code writes no wakeup, and they wait for the first event or for the ten-second
timeout. `NoLostWakeup` and `QueuedRuns` say so.

### Buffer

A buffer is a record with the class's members; the members of the class are
functions of it. `moved` is what the last call brought in or handed out, so that the
refinement to `ByteQueue` also says which bytes a caller gets. `peak` is the most
unread bytes ever held, for `MemoryBound`. With sizes 1 (prepend), 2 (initial) and 2
(extra buffer), chunks of up to 3 and at most 4 unread bytes, all of growth,
compaction, two-part reads and clamping happen.

### EPollPoller

Channels are addresses and descriptors are numbers, both reused: `NewChannel` takes any free
pair. An owner is destroyed in two steps, as `TcpConnection`'s members are: `DestroyChannel`
frees the address, and `CloseFd` then closes the descriptor, which takes it out of the interest
set; in between the descriptor is in `closing` and nobody can get it. An owner need not have
called `remove()`: a connection that found its name taken is freed without it, and a late
`sendInLoop` registers a removed channel again. A channel that is registered goes with a
functor of its loop, so the loop's thread does nothing else until the descriptor is closed
(`InDestructor`); one that is not registered may go on any thread and at any time, but not while
it is reported, since `handleEvent` and the map keep its owner. The kernel's
interest set `epoll` is per descriptor and holds the pointer and mask given with the last
`epoll_ctl`; an ADD of a present or a MOD of an absent descriptor fails and ends the process.
`MapKnowsManaged` has one direction only: the map keeps an entry for a channel that went without
`remove()`, until the descriptor is used again. Two channels and two descriptors
give every reuse of one by the other, and an event list of one entry makes them compete;
the proofs cover the other sizes.

### EventLoopThreadPool

The owner and each thread have a program counter. `Publish` cannot happen while the
owner is between its test of the predicate and the wait (`"block"`), because it holds
`mutex_` there. User code may throw in the init callback or in the loop and may quit
the loop. `~EventLoopThread` loads `loop_`, stores `quit_` and writes to the eventfd in three
steps. `UIntMod` stands for 2^32; 4 is a multiple of the two loops in the
passing run and no multiple of the three in `EventLoopThreadPool_wrap`. Deadlock is not
checked: the pool ends, and `startLoop` really hangs when the callback throws.

### TcpConnection

The connection, its io loop, one other thread with a reference, the server's base
loop, the socket and the peer. The io loop is not the base loop: a server without io threads,
where `runInLoop` calls `connectEstablished` and `connectDestroyed` on the spot, is in
`TcpServer`. Buffers are sequences of byte numbers (justified by
`BufferImplementsByteQueue`), the poller is `SetEvents` and `index_` (justified by
`InterestExact`), the loop's batches are as in `EventLoop`. A report's events are
handled one after the other in the order of `handleEventWithGuard`, and a callback is a
state in which the user may send and shut down. `send` and `shutdown` of the other
thread are two steps each: the test or exchange of `state_`, and the `queueInLoop`.
`write()` takes any prefix, none standing for EAGAIN. After a reset the first failing
call consumes the socket's error; a write with the write side shut down, or after the
error was consumed, raises SIGPIPE, which the library neither blocks nor ignores, and
the process ends (`killed`). A reset may leave data to be read or discard it. `late` remembers
that a queued send ran in a state other than Connected, `reopened` that one ran after the close and
registered the channel again, `shut` that `shutdown()` was called, and `partial` that
`handleWrite` wrote a part of the output only. When the last
reference goes the model stops. Deadlock is not checked for that reason and for `killed`.
Bounds: 3 bytes in all, in sends of any size, so that direct,
short and buffered writes, the high-water mark and double retrieval all occur.

### TcpServer

What one connection does inside is abstracted to its state, its registration in the poller and
the functors it queues; what is kept is everything that passes between the loops. A connection
exists while a `TcpConnectionPtr` does (`Alive`): in `connections_`, with the user, or in a functor.
Functors that capture the pointer are `Owning`
(`established`, `remove`, `destroyed`), the ones that capture `this` are `Raw` (`send`, `writeComplete`); those of
`shutdown()` and of the high-water mark capture `this` as well and live as long as these two do, so they have no name of their own.
`doPendingFunctors` destroys its local vector when all of it has run, so a batch keeps its
references until `EndBatch`. A loop that leaves destroys its queue.

`Start` chooses the io loops, the empty set being a server without `setThreadNum`: then the base
loop serves the connections and `runInLoop` calls on the spot. `newConnection` is
`Acceptor::handleRead` with a successful accept; `NoLocalAddress` is its failing `getsockname`, which uses
up a number; `handleAcceptError` ends the process, whatever the error. `getNextLoop` may return any
io loop here, its turn being checked in `EventLoopThreadPool`. A name is the server's name with
`nextConnId_`, an unsigned int; `IdMod` stands for 2^32.

`start()` returns when the io threads have published their loops, which may be before they are in
`loop()` (`phase` is "entering"): connections are handed to such a loop already. `EnterLoop` is the
beginning of `loop()`. It clears `quit_` and goes to the `while` test, which is the one behind a batch with
nothing in it.

The destructor runs on the base loop's thread: it empties `connections_`, then the pool is
destroyed (quit and join, one loop after the other, as in `EventLoopThreadPool`; `told` has the loops
whose `quit()` was called), then the `Acceptor`. Meanwhile the base loop does nothing else, and the io loops go on.

History variables name the exceptions of the properties: `collided`, a new connection has got the
name of one that still exists; `foreign`, another thread has queued a send on the connection;
`late`, a send ran behind `connectDestroyed`. The model stops before undefined behaviour: it does not run a
removal on a destroyed server, nor a raw functor on a freed connection (`Stuck`). Deadlock
is not checked for that reason and because the process may exit.

Bounds: two connections, one io loop, one send, two names in `TcpServer`, which has repeated
closes, reused names and both kinds of server; one connection with two sends in `TcpServer_live`,
where one send can run behind the other's completion; three connections in `TcpServer_names`, where the third
meets the name of the first.

## 3. What the runs show

* `EventLoop`: no interleaving of pushes, swaps, eventfd writes and polls loses a
  wakeup for a functor or for `quit()`, with the eventfd at its limit too; the loop refines
  `TaskQueue`; a functor queued from another thread or a callback runs without the help of the
  timeout, unless the loop quits; `quit()` in `loop()` makes it return.
* `EventLoop_tasks` (violated): a functor queued while `doPendingFunctors` runs, behind its swap, is never
  executed when `quit_` is seen at the next test and `loop()` is not called again, against "Ensures all
  tasks are executed" in `EventLoop.hpp`. Functors queued outside `loop()` are not counted.
* `LoopPerThread` (violated): the constructor's guard never fires, as the pointer it tests is
  only assigned behind `LOG_FATAL`.
* `Buffer`: all the properties of section 2 over every sequence of calls.
* `EPollPoller`: `index_`, `events_`, `channels_` and the interest set agree through every
  order of mask changes, removals, destructions and reuse, so `updateOperation` never exits the process; doubling
  the full event list ends starvation.
* `EventLoopThreadPool`: the handshake of `startLoop` loses no notification; a returned loop is
  initialised and alive until it is told to stop; a published pointer dangles only after
  an exception out of `loop()`; the store of the destructor's `quit()` meets a loop that exists
  (`QuitMeetsLoop`; the wakeup behind it need not); `join()` returns unless `quit()` came before
  `loop()` was entered; the turn goes round until `next_` wraps.
* `EventLoopThreadPool_wrap` (violated): the wrap of `next_` breaks the round robin.
* `TcpConnection`: bytes keep their order and none is lost before a partial write in
  `handleWrite`; buffered output is always watched; the FIN follows the output; SIGPIPE takes a reset
  or a queued send that outlived the connection's Connected state; DOWN comes after UP and
  once, unless a send that ran after the close registered the channel again, and is left out only after a
  `shutdown()`; a `shutdown()` takes effect
  when the output drains; a connection the peer closed or reset leaves the server's map.
* `TcpConnection_loss` (violated): `writeFd` has moved the reader index already when `handleWrite`
  calls `retrieve(n)`, so a partial write of n bytes drops n more.
* `TcpServer`: as long as no name is given twice, the map has every open connection, and one that
  left it does not come back; `connectDestroyed` runs once, and before the last reference goes,
  unless the loop has ended; the poller keeps no channel of a freed connection; without io
  threads nothing is left that would call a destroyed server.
* `TcpServer_live`: a functor with a plain `this` finds its connection as long as the server exists
  and no other thread sends; an accepted connection is established; a closed one reaches `connectDestroyed`
  through both queues; the destructor returns although the io loops are still queueing for
  the thread that joins them, unless a `quit()` came before its loop was entered.
* `TcpServer_names` (violated): after `nextConnId_` has come round to the number of an open
  connection, `emplace` does nothing and the new connection is not in the map, against
  "Maintains all active connections" in `TcpServer.hpp`.

Exceptions that a property names are behaviours of the code, reached in the passing runs:

* `lostQuit`, and `LostQuit` of `TcpServer`: `loop()` clears `quit_` on entry, so a `quit()` before it is lost
  and `join()` hangs, in `~TcpServer` too when it follows `start()` closely. A
  throwing init callback makes `startLoop` hang; a loop that quits before `startLoop`'s second load
  of `loop_` makes it return `nullptr`.
* `late` and `reopened`: `send` tests `state_` and `sendInLoop` does not, so a queued one may run after the
  FIN, or after the close, and register the channel again, whose next hang-up is a second DOWN.
* `shut`: `shutdown()` takes the connection out of Connected, and `connectDestroyed` then calls nobody.
* A loop that has made its last swap when `~TcpServer` queues `connectDestroyed` for it never runs it:
  the connection is freed with its channel still registered (`phase[loop_[c]] = "ended"`).
* With io threads, removals that io loops queue during the destructor stay in the base
  loop's queue behind the server's end, holding a plain pointer to it (`NobodyCallsDeadServer`).
* A raw functor outlives its connection when another thread queued it or when the destructor has
  dropped the map's reference (`foreign`, `server = "up"` in `RawThisIsAlive`).

## 4. Fairness

* `EventLoop`: threads that can run do run and callbacks return (WF); the poll reports a readable
  eventfd in the end (SF on the poll with the wakeup channel), which `ReadyIsReported` of
  `EPollPoller` supports. Timeouts are not fair in `FairSpec`, so `QueuedRuns` and `QuitEndsLoop`
  do not lean on them; `FairTimeoutSpec`, for the violated property, has them too.
* `EPollPoller`: the loop keeps iterating and a destructor that has begun closes its descriptor (WF); a batch
  comes to an end although functors may destroy registered channels in it again and again (SF), because the
  swapped vector is finite; the kernel may choose any ready channels.
* `EventLoopThreadPool`: threads run (WF); a thread that waits for `mutex_` gets it although the owner
  takes it again after spurious wakeups (SF); a loop told to quit leaves, as `QuitEndsLoop` shows.
* `TcpConnection`: both loops and the other thread run and callbacks return (WF); a ready channel is
  reported, and the peer reads what it is sent so that a write succeeds in the end (SF).
  Nothing is assumed of the user, of the server's destructor or of the peer's closing.
* `TcpServer`: every loop goes on running its functors and the destructor goes on (WF). That a
  polling loop comes to its queue is what `QueuedRuns` shows, that a loop told to quit leaves is
  `QuitEndsLoop`. Nothing is assumed of clients, peers and the user.

## 5. What is proved

For any sets of threads, functors, channels and descriptors and any sizes:

* `EventLoopProofs`. `TypeCorrect` comes first: queue, batch and history hold submitted functors.
  `NoLostWakeup` is not inductive: what holds at the poll is decided while the previous batch runs.
  `WakeupInv` asks for the wakeup everywhere but in the event phase, whose end empties the queue,
  and that `callingPendingFunctors_` is set throughout the functor phase, which is why a functor that
  queues another one writes to the eventfd. `LoopImplementsTaskQueue` needs `BatchInv` (the batch is empty outside
  the functor phase, so the swap loses nothing) and maps the queue to `functors \o pendingFunctors_`.
* `BufferProofs`. `BufferInv` has the types, the order of the indices, the memory bound and that `peak`
  really bounds the unread bytes, without which the bound is not inductive. The lemmas
  say what each member function does to the content and to the size; each action is then a put, a
  take or a drop of `ByteQueue`.
* `EPollPollerProofs`. `PollerInv` adds to the three properties that live channels have different
  descriptors, none of which is being closed: without it the
  reuse of a descriptor could break the match of the interest set. Every call of a channel is one lemma
  about a step on one channel and its descriptor (`OneChannelInv`).
* `EventLoopThreadPoolProofs`. `ReturnedIsReady` and `QuitMeetsLoop` speak of loops somewhere in the middle of a
  destruction that takes them one by one, so `IInv` says who was asked to leave (`Asked`: by the user or, for the threads
  below the destructor's index, by the destructor), and `ThreadInv` that a loop leaves only when it was asked or when
  user code threw. `OwnerInv` ties the owner's place to the length of `loops_` and says that
  later threads are not born; `ReturnInv` keeps what `startLoop` knew when the condition variable let it go.
  `LoopsTakeTurns` states `RoundRobinUntilWrap`, an action property: `TurnInv` ties `next_` to the last loop handed out,
  and three lemmas (`Quotient`, `Remainder`, `NextModulo`) say how a remainder goes up by one or back to 0 for any
  number of loops. `WaitsAreAnswered` states `NobodyWaitsInVain`: while `startLoop` sleeps with the loop published, the notification is still to
  come or already there, and a loop that is joined was told to quit, unless the quit came before `loop()` cleared `quit_`
  (`WaitInv`, `JoinInv`).
* `TcpConnectionProofs`. `IInv` is `Types /\ Control /\ Data`. `Control` has the life cycle: `connectEstablished` is the first functor and
  runs once (`EstablishedFirst`), an ended connection never comes back to Connected (`NeverBack`), an open one
  is registered and watches for writing exactly when there is output (`OpenInv`), a closed one is out of the poller and its pending report cannot
  close it again unless a queued send registered it (`ClosedInv`), and after the FIN there is no output (`FinInv`). `Data`
  says that wire followed by buffer is strictly increasing, and is all of the accepted bytes until a partial write. `sendInLoop` is
  used on four paths and has one lemma that lists its outcomes. `ShutdownNeverForgotten` and `RemovalNeverForgotten` say that
  what was begun has a next step: a shutdown is with its caller, in a queue, behind output or done, a closed connection that the
  server still has gets a removal, and one it let go of gets `connectDestroyed`. `GoesOnInv` adds that nothing but
  the server's letting go queues `connectDestroyed`, and that an established connection is Connected or Disconnecting until it is closed.
  With it `ReportInv` is inductive, which says that a connection closed without a DOWN was told to shut down, and
  gives the last part of `DownOnce`.
* `TcpServerProofs`. Above the lemmas on queues the proof never indexes one. It speaks of the functors a loop still has to run (`due`), of
  which of these stand behind which others (`behind`) and of those that exist in a queue or batch, run or not
  (`posted`; a functor that has run still holds its `TcpConnectionPtr` until the batch ends). Queueing, the swap,
  running, the end of a batch and the end of a loop are lemmas about these three. `IInv` has, next to the types:
  `LoopInv` (a loop ends only in the destructor, and the destructor returns with an empty map and all io loops ended); `MapInv` (an
  entry has its connection's name, and living connections have different names until a collision, or a removal by name
  could erase another connection's entry); and for each connection `Birth` (nobody knows it before
  `newConnection`), `Tasks` (its functors are due on its own loop, removals on the base loop, `connectEstablished` at most
  once and never behind `connectDestroyed`), `Life` (it is in the map, or has `connectDestroyed` due, or is destroyed, or
  was left by a loop that ended, and never two of these), `Registration` (only a send of another thread registers a closed channel
  again) and `RawFirst` (without such a send every functor that captured `this` is in front of `connectDestroyed`). `Life` is what makes
  `DestroyedOnce` inductive: that `connectDestroyed` runs once follows from the map's entry and the queued functor being
  exclusive. All six invariants of the runs follow from `IInv`. `FunctorsStayDue` is an action property of all queues together: a functor stays due until
  its loop runs it or ends. `ConnectionsGoOn` says that a Connecting connection has
  `connectEstablished` due, and a closed one its removal or `connectDestroyed` due or done.

TLC checked every strengthened invariant on the small instances before it was proved.

Assumptions: those named in the modules (`EventfdMax` positive, 0 a byte, sizes natural, a positive
event list, a positive high-water mark and counter range, null values outside the sets), which TLC
evaluates as well. Every invariant and action property of the passing runs, and both refinements, are proved.

Only model-checked: the liveness properties (`QueuedRuns`, `QuitEndsLoop`, `ReadyIsReported`, `StartReturns`, `JoinReturns`,
`ShutdownCompletes`, `PeerCloseRemoves`, `AcceptedIsEstablished`, `ClosedIsDestroyed`, `DestructorReturns`). They depend on
fairness, and so on when an action is enabled, which the prover does not reach. What is proved of them is the safety half: as
long as the goal is not reached, a step that leads to it is due (`WakeupNeverLost`, `QuitWakesLoop`, `InterestExact`, `WaitsAreAnswered`,
`ShutdownNeverForgotten`, `RemovalNeverForgotten`, `FunctorsStayDue`, `ConnectionsGoOn`). That the due steps are taken and
that there are only finitely many of them is left to TLC.

## 6. Not modelled

`InetAddress`, `Logger`, `Timestamp`, `CurrentThread`, `Callbacks`, `Default.hpp` and the options and moves of
`Socket` have no state that matters here: formatting, output, clock reads, type aliases, system calls that set
an option of the kernel. Setters of callbacks and of the thread number are calls made before `start()`. `start()` from another
thread than the base loop's is left out. What undefined
behaviour does (a raw functor on a freed connection, a removal on a destroyed server, `quit()` on a destroyed
loop) is named among the hazards; the models reach the state before it, and properties say when
they can. Relaxed memory orders are treated as sequentially consistent: the
flags involved are single atomics and the data is under `mutex_`. The input buffer of a
connection is `Buffer`; its contents are the user's.

## 7. Plan

1. Done: all modules with their runs; proofs of every invariant, action property and refinement of the
   passing runs; the safety half of the liveness properties other than `DestructorReturns`, for which it
   says no more than `LostQuit` does.
2. Open for proofs: exact conditions under which the findings' properties hold, such as
   `RoundRobin` when the number of loops divides the counter's range.
