---------------------------- MODULE TcpConnection ----------------------------
(***************************************************************************)
(* One TcpConnection: its state, its channel, the output path, the functors*)
(* in its io loop, the callbacks, calls from another thread, the kernel's  *)
(* socket and the peer, and the part TcpServer has in its life.            *)
(*                                                                         *)
(* The Buffers are byte queues, as BufferProofs shows, the poller reports  *)
(* exactly the channel's mask, as EPollPollerProofs shows, and the loop's  *)
(* batches are taken from EventLoop.  Bytes are numbered in the order in   *)
(* which sendInLoop accepts them.                                          *)
(***************************************************************************)
EXTENDS Naturals, Sequences

CONSTANTS
  MaxBytes,        \* bound: bytes the user ever sends
  MaxLen,          \* bound: bytes of one send
  highWaterMark_

ASSUME ConnectionAssumption ==
  /\ MaxBytes \in Nat
  /\ MaxLen \in Nat
  /\ highWaterMark_ \in Nat \ {0}

VARIABLES
  state_,
  events_, index_,      \* of channel_
  outputBuffer_,
  pc,                   \* where the io loop is
  revents_,             \* reported events not yet handled
  callback,             \* the user callback that is running
  pendingFunctors_, functors,
  inMap,                \* TcpServer::connections_ has the connection
  removals,             \* removeConnectionInLoop waits in the base loop
  caller,               \* where another thread is in a call of the connection
  wire,                 \* the bytes the kernel has taken
  fin,                  \* the socket's write side is shut down
  peer,                 \* what the peer has done to the connection
  inbox,                \* bytes are waiting to be read
  killed,               \* SIGPIPE has ended the process
  asked,                \* bytes passed to send() so far
  accepted,             \* bytes sendInLoop took over
  up, down,             \* calls of connectionCallback_, at most 2 counted
  closed,               \* handleClose or connectDestroyed has run
  late,                 \* a queued send ran in a state other than Connected
  reopened,             \* one ran after the close, and registered the channel again
  shut,                 \* shutdown() was called
  partial,              \* handleWrite has written a part of the output
  gone                  \* connectDestroyed has finished

channelVars == <<events_, index_>>
loopVars == <<pc, revents_, callback>>
queueVars == <<pendingFunctors_, functors>>
serverVars == <<inMap, removals>>
kernelVars == <<wire, fin, peer, inbox, killed>>
ghostVars == <<asked, accepted, up, down, closed, late, reopened, shut, partial, gone>>
vars == <<state_, channelVars, outputBuffer_, loopVars, queueVars, serverVars, caller,
          kernelVars, ghostVars>>

Sends == {[op |-> "send", len |-> n] : n \in 1..MaxLen}
Op(name) == [op |-> name, len |-> 0]
Functors == Sends \cup {Op(name) : name \in
              {"established", "destroyed", "shutdown", "writeComplete", "highWater"}}

TypeOK ==
  /\ state_ \in {"Connecting", "Connected", "Disconnecting", "Disconnected"}
  /\ events_ \subseteq {"read", "write"}
  /\ index_ \in {"KNew", "KAdded", "KDeleted"}
  /\ {outputBuffer_, wire} \subseteq Seq(1..accepted)
  /\ pc \in {"poll", "events", "functors", "dead"}
  /\ revents_ \subseteq {"HUP", "ERR", "IN", "OUT"}
  /\ callback \in {"none", "user", "close", "destroy"}
  /\ {pendingFunctors_, functors} \subseteq Seq(Functors)
  /\ caller \in Sends \cup {Op("idle"), Op("shutdown")}
  /\ peer \in {"open", "fin", "rst", "reset"}
  /\ asked \in 0..MaxBytes
  /\ accepted \in Nat
  /\ {removals, up, down} \subseteq 0..2
  /\ {inMap, fin, inbox, killed, closed, late, reopened, shut, partial, gone} \subseteq BOOLEAN

\* newConnection has made the connection and queued connectEstablished.
Init ==
  /\ state_ = "Connecting"
  /\ events_ = {} /\ index_ = "KNew"
  /\ pc = "poll" /\ revents_ = {} /\ callback = "none"
  /\ pendingFunctors_ = <<Op("established")>> /\ functors = <<>>
  /\ inMap = TRUE /\ removals = 0
  /\ caller = Op("idle")
  /\ outputBuffer_ = <<>> /\ wire = <<>> /\ fin = FALSE
  /\ peer = "open" /\ inbox = FALSE /\ killed = FALSE
  /\ asked = 0 /\ accepted = 0 /\ up = 0 /\ down = 0
  /\ closed = FALSE /\ late = FALSE /\ reopened = FALSE /\ shut = FALSE
  /\ partial = FALSE /\ gone = FALSE

-----------------------------------------------------------------------------
(* Pieces of the handlers *)

isWriting == "write" \in events_
Once(n) == IF n < 2 THEN n + 1 ELSE n
Drop(s, n) == SubSeq(s, n + 1, Len(s))
MinOf(m, n) == IF m <= n THEN m ELSE n

\* Channel's mask changes, with EPollPoller::updateChannel.
SetEvents(ev) ==
  /\ events_' = ev
  /\ index_' = IF index_ = "KAdded" /\ ev = {} THEN "KDeleted" ELSE "KAdded"

\* Mutant: one past the data.
NextBytes_OffByOne(len) == [k \in 1..len |-> accepted + k + 1]

\* The bytes of the next len to be accepted.
NextBytes(len) == [k \in 1..len |-> accepted + k]

\* Functors that follow what was queued.
Queue(names) == pendingFunctors_' = pendingFunctors_ \o [k \in 1..Len(names) |-> Op(names[k])]

HighWater(more) ==
  IF Len(outputBuffer_) < highWaterMark_ /\ Len(outputBuffer_) + more >= highWaterMark_
  THEN <<"highWater">> ELSE <<>>

\* Mutant: the channel is not enabled for writing.
WatchForRoom_Missing == UNCHANGED channelVars
WatchForRoom == IF isWriting THEN UNCHANGED channelVars ELSE SetEvents(events_ \cup {"write"})

\* The rest of sendInLoop: buffer what was not written, and watch for room.
BufferRest(rest) ==
  /\ outputBuffer_' = outputBuffer_ \o rest
  /\ Queue(HighWater(Len(rest)))
  /\ WatchForRoom

\* write() fails after a reset, once with the socket's error, and with the write
\* side shut down.  With EPIPE it raises SIGPIPE, which nothing in the library blocks
\* or ignores; the error of a reset can be EPIPE too (after the peer's FIN).
WriteFails == fin \/ peer \in {"rst", "reset"}

FailedWrite ==
  \/ /\ WriteFails
     /\ killed' = TRUE
     /\ UNCHANGED peer
  \/ /\ peer = "rst"
     /\ peer' = "reset"
     /\ UNCHANGED killed

\* Mutant: data is written past the output that is still buffered.
NothingWaits_Unasked == TRUE
NothingWaits == ~isWriting /\ outputBuffer_ = <<>>

\* Mutant: the whole of data is buffered, not what is left of it.
Remaining_All(len, nwrote) == NextBytes(len)
Remaining(len, nwrote) == Drop(NextBytes(len), nwrote)

\* Write at once when nothing waits (n bytes are taken, 0 stands for EAGAIN), and
\* buffer the rest; on another error the data is dropped.
sendInLoop(len) ==
  \/ /\ NothingWaits
     /\ FailedWrite
     /\ UNCHANGED <<outputBuffer_, channelVars, pendingFunctors_, wire, accepted>>
  \/ /\ NothingWaits
     /\ ~WriteFails
     /\ \E nwrote \in 0..len :
          /\ wire' = wire \o SubSeq(NextBytes(len), 1, nwrote)
          /\ IF nwrote = len THEN Queue(<<"writeComplete">>) /\ UNCHANGED <<outputBuffer_, channelVars>>
                             ELSE BufferRest(Remaining(len, nwrote))
     /\ accepted' = accepted + len
     /\ UNCHANGED <<peer, killed>>
  \/ /\ ~NothingWaits
     /\ BufferRest(NextBytes(len))
     /\ accepted' = accepted + len
     /\ UNCHANGED <<wire, peer, killed>>

shutdownWrite == fin' = TRUE

\* Mutant: the write side is shut down with output still buffered.
shutdownInLoop_Eager(writing) == shutdownWrite

shutdownInLoop(writing) == IF writing THEN UNCHANGED fin ELSE shutdownWrite

\* Mutant: the channel stays registered.
disableAll_Missing == UNCHANGED channelVars
disableAll == SetEvents({})

\* handleClose up to the call of connectionCallback_.
handleClose ==
  /\ state_' = "Disconnected"
  /\ disableAll
  /\ down' = Once(down)
  /\ closed' = TRUE
  /\ callback' = "close"

-----------------------------------------------------------------------------
(* Calls of the user *)

\* Mutant: send() does not look at state_.
MaySend_AnyState == TRUE
MaySend == state_ = "Connected"

\* In a callback, on the loop's thread.
SendInCallback(len) ==
  /\ callback # "none"
  /\ MaySend
  /\ asked + len <= MaxBytes
  /\ asked' = asked + len
  /\ sendInLoop(len)
  /\ UNCHANGED <<state_, loopVars, functors, serverVars, caller, fin, inbox,
                 up, down, closed, late, reopened, shut, partial, gone>>

ShutdownInCallback ==
  /\ callback # "none"
  /\ state_' = "Disconnecting"
  /\ shut' = TRUE
  /\ IF state_ = "Connected" THEN shutdownInLoop(isWriting) ELSE UNCHANGED fin
  /\ UNCHANGED <<channelVars, outputBuffer_, loopVars, queueVars, serverVars, caller,
                 wire, peer, inbox, killed,
                 asked, accepted, up, down, closed, late, reopened, partial, gone>>

\* On another thread, which has the connection from a callback: the test of
\* state_ in send(), and later the queueInLoop.
CallSend(len) ==
  /\ caller = Op("idle") /\ up > 0 /\ pc # "dead"
  /\ MaySend
  /\ asked + len <= MaxBytes
  /\ asked' = asked + len
  /\ caller' = [op |-> "send", len |-> len]
  /\ UNCHANGED <<state_, channelVars, outputBuffer_, loopVars, queueVars, serverVars,
                 kernelVars, accepted, up, down, closed, late, reopened, shut, partial, gone>>

QueueSend ==
  /\ caller \in Sends
  /\ pendingFunctors_' = Append(pendingFunctors_, caller)
  /\ caller' = Op("idle")
  /\ UNCHANGED <<state_, channelVars, outputBuffer_, loopVars, functors, serverVars,
                 kernelVars, ghostVars>>

\* The exchange of state_ in shutdown(), and later the queueInLoop.
CallShutdown ==
  /\ caller = Op("idle") /\ up > 0 /\ pc # "dead"
  /\ state_' = "Disconnecting"
  /\ shut' = TRUE
  /\ caller' = Op(IF state_ = "Connected" THEN "shutdown" ELSE "idle")
  /\ UNCHANGED <<channelVars, outputBuffer_, loopVars, queueVars, serverVars, kernelVars,
                 asked, accepted, up, down, closed, late, reopened, partial, gone>>

QueueShutdown ==
  /\ caller = Op("shutdown")
  /\ pendingFunctors_' = Append(pendingFunctors_, Op("shutdown"))
  /\ caller' = Op("idle")
  /\ UNCHANGED <<state_, channelVars, outputBuffer_, loopVars, functors, serverVars,
                 kernelVars, ghostVars>>

-----------------------------------------------------------------------------
(* The io loop: events of the channel *)

\* What the kernel has to report, in any case and with room for output.
Due ==
  (IF "read" \in events_ /\ (inbox \/ peer # "open") THEN {"IN"} ELSE {})
    \cup (IF peer \in {"rst", "reset"} \/ (fin /\ peer = "fin") THEN {"HUP"} ELSE {})
    \cup (IF peer = "rst" THEN {"ERR"} ELSE {})

PollEvents(room) ==
  /\ pc = "poll"
  /\ index_ = "KAdded"
  /\ revents_' = Due \cup (IF room /\ isWriting THEN {"OUT"} ELSE {})
  /\ revents_' # {}
  /\ pc' = "events"
  /\ UNCHANGED <<state_, channelVars, outputBuffer_, callback, queueVars, serverVars, caller,
                 kernelVars, ghostVars>>

\* A wakeup, a timeout or other channels.
PollOther ==
  /\ pc = "poll"
  /\ pc' = "events"
  /\ UNCHANGED <<state_, channelVars, outputBuffer_, revents_, callback, queueVars, serverVars,
                 caller, kernelVars, ghostVars>>

\* handleEventWithGuard looks at one kind of event after the other.
Handling(ev, before) ==
  /\ pc = "events" /\ callback = "none"
  /\ ev \in revents_ /\ revents_ \cap before = {}
  /\ revents_' = revents_ \ {ev}

\* A hang-up calls closeCallback_, unless there is something to read.
HandleHup ==
  /\ Handling("HUP", {})
  /\ \/ /\ "IN" \notin revents_
        /\ handleClose
     \/ /\ "IN" \in revents_
        /\ UNCHANGED <<state_, channelVars, callback, down, closed>>
  /\ UNCHANGED <<outputBuffer_, pc, queueVars, serverVars, caller, kernelVars,
                 asked, accepted, up, late, reopened, shut, partial, gone>>

\* SO_ERROR takes the error off the socket.
getSocketError == peer' = "reset"

HandleError ==
  /\ Handling("ERR", {"HUP"})
  /\ getSocketError
  /\ UNCHANGED <<state_, channelVars, outputBuffer_, pc, callback, queueVars, serverVars, caller,
                 wire, fin, inbox, killed, ghostVars>>

\* handleRead: data, an error, or the end of the stream.
HandleRead ==
  /\ Handling("IN", {"HUP", "ERR"})
  /\ \/ /\ inbox
        /\ inbox' = FALSE
        /\ callback' = "user"
        /\ UNCHANGED <<state_, channelVars, down, closed, peer>>
     \/ /\ ~inbox /\ peer = "rst"
        /\ peer' = "reset"
        /\ UNCHANGED <<state_, channelVars, callback, down, closed, inbox>>
     \/ /\ ~inbox /\ peer \in {"fin", "reset"}
        /\ handleClose
        /\ UNCHANGED <<inbox, peer>>
  /\ UNCHANGED <<outputBuffer_, pc, queueVars, serverVars, caller, wire, fin, killed,
                 asked, accepted, up, late, reopened, shut, partial, gone>>

\* Mutant: the drained connection is not shut down.
Drained_NoShutdown == UNCHANGED fin
Drained == IF state_ = "Disconnecting" THEN shutdownInLoop(FALSE) ELSE UNCHANGED fin

\* handleWrite when write() takes n > 0 bytes: writeFd moves the reader index past
\* them, and retrieve(n) moves it by n, or as far as it goes, once more.
HandleWrite(n) ==
  /\ Handling("OUT", {"HUP", "ERR", "IN"})
  /\ isWriting /\ ~WriteFails
  /\ n <= Len(outputBuffer_)
  /\ wire' = wire \o SubSeq(outputBuffer_, 1, n)
  /\ outputBuffer_' = Drop(outputBuffer_, n + MinOf(n, Len(outputBuffer_) - n))
  /\ partial' = (partial \/ n < Len(outputBuffer_))
  /\ IF outputBuffer_' = <<>>
     THEN /\ SetEvents(events_ \ {"write"})
          /\ Queue(<<"writeComplete">>)
          /\ Drained
     ELSE UNCHANGED <<channelVars, pendingFunctors_, fin>>
  /\ UNCHANGED <<state_, pc, callback, functors, serverVars, caller, peer, inbox, killed,
                 asked, accepted, up, down, closed, late, reopened, shut, gone>>

\* handleWrite when the channel was disabled meanwhile, or when write() fails.
HandleWriteNothing ==
  /\ Handling("OUT", {"HUP", "ERR", "IN"})
  /\ IF isWriting /\ WriteFails THEN FailedWrite ELSE UNCHANGED <<peer, killed>>
  /\ UNCHANGED <<state_, channelVars, outputBuffer_, pc, callback, queueVars, serverVars, caller,
                 wire, fin, inbox, ghostVars>>

EventsDone ==
  /\ pc = "events" /\ callback = "none" /\ revents_ = {}
  /\ functors' = pendingFunctors_
  /\ pendingFunctors_' = <<>>
  /\ pc' = "functors"
  /\ UNCHANGED <<state_, channelVars, outputBuffer_, revents_, callback, serverVars, caller,
                 kernelVars, ghostVars>>

-----------------------------------------------------------------------------
(* The io loop: functors, and callbacks that return *)

Running(op) ==
  /\ pc = "functors" /\ callback = "none"
  /\ functors # <<>> /\ Head(functors).op = op
  /\ functors' = Tail(functors)

\* connectEstablished up to connectionCallback_.
connectEstablished ==
  /\ Running("established")
  /\ state_' = "Connected"
  /\ SetEvents(events_ \cup {"read"})
  /\ up' = Once(up)
  /\ callback' = "user"
  /\ UNCHANGED <<outputBuffer_, pc, revents_, pendingFunctors_, serverVars, caller, kernelVars,
                 asked, accepted, down, closed, late, reopened, shut, partial, gone>>

\* connectDestroyed, up to connectionCallback_ when it is called: only from Connected.
connectDestroyed ==
  /\ Running("destroyed")
  /\ state_' = "Disconnected"
  /\ closed' = TRUE
  /\ \/ /\ state_ = "Connected"
        /\ disableAll
        /\ down' = Once(down)
        /\ callback' = "destroy"
        /\ UNCHANGED gone
     \/ /\ state_ # "Connected"
        /\ index_' = "KNew"
        /\ gone' = TRUE
        /\ UNCHANGED <<events_, down, callback>>
  /\ UNCHANGED <<outputBuffer_, pc, revents_, pendingFunctors_, serverVars, caller, kernelVars,
                 asked, accepted, up, late, reopened, shut, partial>>

RunSend ==
  /\ Running("send")
  /\ sendInLoop(Head(functors).len)
  /\ late' = (late \/ state_ # "Connected")
  /\ reopened' = (reopened \/ (closed /\ index_' = "KAdded"))
  /\ UNCHANGED <<state_, loopVars, serverVars, caller, fin, inbox,
                 asked, up, down, closed, shut, partial, gone>>

RunShutdown ==
  /\ Running("shutdown")
  /\ shutdownInLoop(isWriting)
  /\ UNCHANGED <<state_, channelVars, outputBuffer_, loopVars, pendingFunctors_, serverVars,
                 caller, wire, peer, inbox, killed, ghostVars>>

\* writeCompleteCallback_ and highWaterMarkCallback_.
RunUserCallback ==
  /\ Running("writeComplete") \/ Running("highWater")
  /\ callback' = "user"
  /\ UNCHANGED <<state_, channelVars, outputBuffer_, pc, revents_, pendingFunctors_, serverVars,
                 caller, kernelVars, ghostVars>>

\* Mutant: handleClose forgets closeCallback_.
removeConnection_Missing == UNCHANGED removals
removeConnection == removals' = IF callback = "close" THEN Once(removals) ELSE removals

\* handleClose goes on with closeCallback_, that is TcpServer::removeConnection,
\* and connectDestroyed with the removal of the channel.
CallbackReturns ==
  /\ callback # "none"
  /\ callback' = "none"
  /\ removeConnection
  /\ IF callback = "destroy" THEN index_' = "KNew" /\ gone' = TRUE ELSE UNCHANGED <<index_, gone>>
  /\ UNCHANGED <<state_, events_, outputBuffer_, pc, revents_, queueVars, inMap, caller,
                 kernelVars, asked, accepted, up, down, closed, late, reopened, shut, partial>>

\* The batch is destroyed.
FunctorsDone ==
  /\ pc = "functors" /\ callback = "none" /\ functors = <<>>
  /\ pc' = "poll"
  /\ UNCHANGED <<state_, channelVars, outputBuffer_, revents_, callback, queueVars, serverVars,
                 caller, kernelVars, ghostVars>>

\* The last TcpConnectionPtr goes: the server, the batch and the callers let go of
\* theirs, and so has the user.  What a functor does that is still queued with a
\* plain this is outside this model.
LastReference ==
  /\ pc = "poll" /\ gone /\ removals = 0 /\ caller = Op("idle")
  /\ pc' = "dead"
  /\ UNCHANGED <<state_, channelVars, outputBuffer_, revents_, callback, queueVars, serverVars,
                 caller, kernelVars, ghostVars>>

-----------------------------------------------------------------------------
(* TcpServer, on the base loop's thread *)

\* removeConnectionInLoop: only the first removal finds the connection.
removeConnectionInLoop ==
  /\ removals > 0
  /\ removals' = removals - 1
  /\ inMap' = FALSE
  /\ IF inMap THEN Queue(<<"destroyed">>) ELSE UNCHANGED pendingFunctors_
  /\ UNCHANGED <<state_, channelVars, outputBuffer_, loopVars, functors, caller, kernelVars, ghostVars>>

\* ~TcpServer
DestroyServer ==
  /\ inMap
  /\ inMap' = FALSE
  /\ Queue(<<"destroyed">>)
  /\ UNCHANGED <<state_, channelVars, outputBuffer_, loopVars, functors, removals, caller,
                 kernelVars, ghostVars>>

-----------------------------------------------------------------------------
(* The peer *)

Peer ==
  /\ pc # "dead"
  /\ \/ /\ peer = "open"
        /\ inbox' = TRUE
        /\ UNCHANGED peer
     \/ /\ peer = "open"
        /\ peer' = "fin"
        /\ UNCHANGED inbox
     \/ /\ peer \in {"open", "fin"}
        /\ peer' = "rst"
        /\ inbox' \in {inbox, FALSE}
  /\ UNCHANGED <<state_, channelVars, outputBuffer_, loopVars, queueVars, serverVars, caller,
                 wire, fin, killed, ghostVars>>

-----------------------------------------------------------------------------
LoopStep ==
  \/ HandleHup \/ HandleError \/ HandleRead \/ HandleWriteNothing \/ EventsDone
  \/ \E n \in 1..MaxBytes : HandleWrite(n)
  \/ connectEstablished \/ connectDestroyed \/ RunSend \/ RunShutdown \/ RunUserCallback
  \/ CallbackReturns \/ FunctorsDone

UserStep ==
  \/ \E len \in 1..MaxLen : SendInCallback(len) \/ CallSend(len)
  \/ ShutdownInCallback
  \/ CallShutdown

Next ==
  /\ ~killed
  /\ \/ LoopStep
     \/ \E room \in BOOLEAN : PollEvents(room)
     \/ PollOther
     \/ LastReference
     \/ UserStep
     \/ QueueSend
     \/ QueueShutdown
     \/ removeConnectionInLoop
     \/ DestroyServer
     \/ Peer

Spec == Init /\ [][Next]_vars

\* Callbacks return, both loops and the other thread run, wakeups end a poll, a
\* ready channel is reported (ReadyIsReported of EPollPoller.tla), and the peer
\* reads what it is sent.
FairSpec ==
  /\ Spec
  /\ WF_vars(~killed /\ LoopStep)
  /\ WF_vars(~killed /\ PollOther)
  /\ SF_vars(~killed /\ PollEvents(TRUE))
  /\ SF_vars(~killed /\ \E n \in 1..MaxBytes : HandleWrite(n))
  /\ WF_vars(~killed /\ (QueueSend \/ QueueShutdown))
  /\ WF_vars(~killed /\ removeConnectionInLoop)

-----------------------------------------------------------------------------
(* Properties *)

Numbered(n) == [k \in 1..n |-> k]

\* Direct and buffered writes together keep the order: no byte overtakes another
\* or is sent twice.
InOrder ==
  LET out == wire \o outputBuffer_
  IN  \A k \in 1..(Len(out) - 1) : out[k] < out[k + 1]

\* Until handleWrite meets a partial write, every byte sendInLoop took over is
\* on the wire or waiting, across direct writes, short writes and EAGAIN.
NothingLostBeforePartial == ~partial => wire \o outputBuffer_ = Numbered(accepted)

\* TcpConnection::send and Buffer.hpp promise the data to the peer: what sendInLoop
\* took over is on the wire or waiting in the output buffer.
NothingLost == wire \o outputBuffer_ = Numbered(accepted)

\* Buffered output never gets stuck: while the connection is open the poller
\* watches for room to write it.
BufferedIsWatched == outputBuffer_ # <<>> /\ ~closed => isWriting /\ index_ = "KAdded"

\* shutdown() sends the FIN only behind the output buffered before it.
FinAfterOutput == fin /\ ~closed => outputBuffer_ = <<>>

\* The process survives its own shutdown(): SIGPIPE takes a reset by the peer, or
\* a send that was queued before the connection left Connected and runs after it.
KilledOnlyByLateSend == killed => late \/ peer \in {"rst", "reset"}

\* However handleClose and connectDestroyed meet, connectionCallback_ reports DOWN
\* after UP and at most once, unless a send queued before the close runs after it and
\* registers the closed channel again; and a connection that goes without a DOWN is
\* one shutdown() took out of Connected, which is all connectDestroyed asks.
DownOnce ==
  /\ down > 0 => up > 0
  /\ down > 1 => reopened
  /\ gone /\ down = 0 => shut

\* shutdown() takes effect once the output has drained.
ShutdownCompletes == state_ = "Disconnecting" /\ ~closed ~> fin \/ closed \/ killed

\* When the peer closes or resets, TcpServer forgets the connection.
PeerCloseRemoves == peer # "open" /\ up > 0 ~> ~inMap \/ killed
=============================================================================
