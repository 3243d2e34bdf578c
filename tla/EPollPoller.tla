---------------------------- MODULE EPollPoller ----------------------------
(***************************************************************************)
(* EPollPoller and the Channels registered with it, on one loop's thread:  *)
(* a Channel's index_ and events_, the poller's channels_ map and event    *)
(* list, and the kernel's interest set, whose entries point to Channels.   *)
(* File descriptors, and the addresses of Channels, are reused.            *)
(***************************************************************************)
EXTENDS Naturals, FiniteSets

CONSTANTS
  Channels,            \* addresses of Channel objects
  Fds,                 \* file descriptors
  NoChannel, NoFd,
  kInitEventListSize

ASSUME PollerAssumption ==
  /\ NoChannel \notin Channels
  /\ NoFd \notin Fds
  /\ kInitEventListSize \in Nat \ {0}

VARIABLES
  pc,               \* where the loop's thread is
  fd_,              \* per channel; NoFd when no object lives at the address
  events_, index_,  \* per channel
  channels_,        \* the poller's map, NoChannel where it has no key
  eventListSize,    \* events_.size() of the poller
  activeChannels_,  \* reported channels still to be handled
  epoll,            \* the kernel's interest set, per descriptor
  ready,            \* descriptors with something to report
  closing,          \* descriptors still open whose channel is destroyed
  exited            \* updateOperation has called exit()

channelVars == <<fd_, events_, index_>>
kernelVars == <<epoll, ready, closing, exited>>
vars == <<pc, channelVars, channels_, eventListSize, activeChannels_, kernelVars>>

Events == {"read", "write"}

Entry(c, ev) == [ptr |-> c, events |-> ev]
NoEntry == Entry(NoChannel, {})

Live == {c \in Channels : fd_[c] # NoFd}

TypeOK ==
  /\ pc \in {"poll", "events", "functors"}
  /\ fd_ \in [Channels -> Fds \cup {NoFd}]
  /\ events_ \in [Channels -> SUBSET Events]
  /\ index_ \in [Channels -> {"KNew", "KAdded", "KDeleted"}]
  /\ channels_ \in [Fds -> Channels \cup {NoChannel}]
  /\ eventListSize \in Nat \ {0}
  /\ activeChannels_ \subseteq Channels
  /\ epoll \in [Fds -> [ptr : Channels \cup {NoChannel}, events : SUBSET Events]]
  /\ ready \subseteq Fds
  /\ closing \subseteq Fds
  /\ exited \in BOOLEAN

Init ==
  /\ pc = "functors"
  /\ fd_ = [c \in Channels |-> NoFd]
  /\ events_ = [c \in Channels |-> {}]
  /\ index_ = [c \in Channels |-> "KNew"]
  /\ channels_ = [f \in Fds |-> NoChannel]
  /\ eventListSize = kInitEventListSize
  /\ activeChannels_ = {}
  /\ epoll = [f \in Fds |-> NoEntry]
  /\ ready = {}
  /\ closing = {}
  /\ exited = FALSE

-----------------------------------------------------------------------------
(* updateOperation: epoll_ctl, and exit() when an ADD or a MOD fails *)

EpollAdd(c, ev) ==
  IF epoll[fd_[c]] = NoEntry
  THEN epoll' = [epoll EXCEPT ![fd_[c]] = Entry(c, ev)] /\ UNCHANGED exited
  ELSE exited' = TRUE /\ UNCHANGED epoll

EpollMod(c, ev) ==
  IF epoll[fd_[c]] # NoEntry
  THEN epoll' = [epoll EXCEPT ![fd_[c]] = Entry(c, ev)] /\ UNCHANGED exited
  ELSE exited' = TRUE /\ UNCHANGED epoll

\* A failed DEL is only logged.
EpollDel(c) ==
  /\ epoll' = [epoll EXCEPT ![fd_[c]] = NoEntry]
  /\ UNCHANGED exited

-----------------------------------------------------------------------------
(* EPollPoller::updateChannel, removeChannel and Poller::hasChannel *)

\* Mutant: a registered channel's new mask does not reach the kernel.
updateChannel_NoMod(c, ev) ==
  \/ /\ index_[c] \in {"KNew", "KDeleted"}
     /\ channels_' = IF index_[c] = "KNew" THEN [channels_ EXCEPT ![fd_[c]] = c] ELSE channels_
     /\ index_' = [index_ EXCEPT ![c] = "KAdded"]
     /\ EpollAdd(c, ev)
  \/ /\ index_[c] = "KAdded"
     /\ IF ev = {} THEN EpollDel(c) /\ index_' = [index_ EXCEPT ![c] = "KDeleted"]
                   ELSE UNCHANGED <<epoll, exited, index_>>
     /\ UNCHANGED channels_

\* Mutant: the map is written when a channel returns, not when it is new.
updateChannel_LateMap(c, ev) ==
  \/ /\ index_[c] \in {"KNew", "KDeleted"}
     /\ channels_' = IF index_[c] = "KDeleted" THEN [channels_ EXCEPT ![fd_[c]] = c] ELSE channels_
     /\ index_' = [index_ EXCEPT ![c] = "KAdded"]
     /\ EpollAdd(c, ev)
  \/ /\ index_[c] = "KAdded"
     /\ IF ev = {} THEN EpollDel(c) /\ index_' = [index_ EXCEPT ![c] = "KDeleted"]
                   ELSE EpollMod(c, ev) /\ UNCHANGED index_
     /\ UNCHANGED channels_

\* A channel that is not in the interest set is added even when its mask is
\* empty; a registered one with an empty mask leaves it.
updateChannel(c, ev) ==
  \/ /\ index_[c] \in {"KNew", "KDeleted"}
     /\ channels_' = IF index_[c] = "KNew" THEN [channels_ EXCEPT ![fd_[c]] = c] ELSE channels_
     /\ index_' = [index_ EXCEPT ![c] = "KAdded"]
     /\ EpollAdd(c, ev)
  \/ /\ index_[c] = "KAdded"
     /\ IF ev = {} THEN EpollDel(c) /\ index_' = [index_ EXCEPT ![c] = "KDeleted"]
                   ELSE EpollMod(c, ev) /\ UNCHANGED index_
     /\ UNCHANGED channels_

\* Mutant: the channel's index survives its removal.
removeChannel_KeepsIndex(c) ==
  /\ channels_' = [channels_ EXCEPT ![fd_[c]] = NoChannel]
  /\ IF index_[c] = "KAdded" THEN EpollDel(c) ELSE UNCHANGED <<epoll, exited>>
  /\ UNCHANGED index_

removeChannel(c) ==
  /\ channels_' = [channels_ EXCEPT ![fd_[c]] = NoChannel]
  /\ IF index_[c] = "KAdded" THEN EpollDel(c) ELSE UNCHANGED <<epoll, exited>>
  /\ index_' = [index_ EXCEPT ![c] = "KNew"]

hasChannel(c) == channels_[fd_[c]] = c

-----------------------------------------------------------------------------
(* Channel: the calls its owner makes on the loop's thread, in a callback,  *)
(* in a functor or before loop()                                            *)

\* The loop's thread is between the two halves of destroying a registered channel's owner.
InDestructor == \E f \in closing : epoll[f] # NoEntry

\* The loop's thread is not in epoll_wait, and not in a destructor.
CanCall(c) == pc # "poll" /\ ~InDestructor /\ c \in Live

\* Change the mask, and update().
SetEvents(c, ev) ==
  /\ CanCall(c)
  /\ events_' = [events_ EXCEPT ![c] = ev]
  /\ updateChannel(c, ev)
  /\ UNCHANGED <<pc, fd_, eventListSize, activeChannels_, ready, closing>>

enableReading(c) == SetEvents(c, events_[c] \cup {"read"})
disableReading(c) == SetEvents(c, events_[c] \ {"read"})
enableWriting(c) == SetEvents(c, events_[c] \cup {"write"})
disableWriting(c) == SetEvents(c, events_[c] \ {"write"})
disableAll(c) == SetEvents(c, {})

\* Channel::remove, which does not touch the mask.
Remove(c) ==
  /\ CanCall(c)
  /\ removeChannel(c)
  /\ UNCHANGED <<pc, fd_, events_, eventListSize, activeChannels_, ready, closing>>

\* The constructor: a new descriptor, which another thread may have accepted.
NewChannel(c, f) ==
  /\ c \notin Live
  /\ f \notin closing /\ \A d \in Channels : fd_[d] # f
  /\ fd_' = [fd_ EXCEPT ![c] = f]
  /\ events_' = [events_ EXCEPT ![c] = {}]
  /\ index_' = [index_ EXCEPT ![c] = "KNew"]
  /\ UNCHANGED <<pc, channels_, eventListSize, activeChannels_, kernelVars>>

\* The owner is destroyed, removed from the poller or not, and channel_ goes first.
\* A registered channel goes with a functor of its loop, which held the last reference;
\* one that is not registered may go anywhere, but not while it is reported: handleEvent
\* and the map's entry keep its owner.
DestroyChannel(c) ==
  /\ c \in Live
  /\ index_[c] = "KAdded" => pc = "functors" /\ ~InDestructor
  /\ c \notin activeChannels_
  /\ closing' = closing \cup {fd_[c]}
  /\ fd_' = [fd_ EXCEPT ![c] = NoFd]
  /\ UNCHANGED <<pc, events_, index_, channels_, eventListSize, activeChannels_, epoll, ready, exited>>

\* socket_ follows: closing the descriptor takes it out of the interest set.
CloseFd(f) ==
  /\ f \in closing
  /\ closing' = closing \ {f}
  /\ epoll' = [epoll EXCEPT ![f] = NoEntry]
  /\ ready' = ready \ {f}
  /\ UNCHANGED <<pc, channelVars, channels_, eventListSize, activeChannels_, exited>>

-----------------------------------------------------------------------------
(* poll, and the loop around it *)

\* Channels the kernel could report now.
Reportable == {c \in Channels : \E f \in ready : epoll[f].ptr = c}

\* Mutant: a list that came back full is halved.
Poll_Halves(active) ==
  /\ pc = "poll"
  /\ active \subseteq Reportable
  /\ \/ active = Reportable /\ Cardinality(active) <= eventListSize
     \/ Cardinality(active) = eventListSize
  /\ activeChannels_' = active
  /\ eventListSize' = IF Cardinality(active) = eventListSize THEN eventListSize \div 2
                                                             ELSE eventListSize
  /\ pc' = "events"
  /\ UNCHANGED <<channelVars, channels_, kernelVars>>

\* Mutant: the event list keeps its size.
Poll_NoResize(active) ==
  /\ pc = "poll"
  /\ active \subseteq Reportable
  /\ \/ active = Reportable /\ Cardinality(active) <= eventListSize
     \/ Cardinality(active) = eventListSize
  /\ activeChannels_' = active
  /\ pc' = "events"
  /\ UNCHANGED <<channelVars, channels_, eventListSize, kernelVars>>

\* epoll_wait and fillActiveChannels: everything reportable, or as much of it as
\* the event list holds, the kernel choosing; nothing after the timeout.  A list
\* that came back full is doubled.
Poll(active) ==
  /\ pc = "poll"
  /\ active \subseteq Reportable
  /\ \/ active = Reportable /\ Cardinality(active) <= eventListSize
     \/ Cardinality(active) = eventListSize
  /\ activeChannels_' = active
  /\ eventListSize' = IF Cardinality(active) = eventListSize THEN eventListSize * 2
                                                             ELSE eventListSize
  /\ pc' = "events"
  /\ UNCHANGED <<channelVars, channels_, kernelVars>>

\* handleEvent of one reported channel returns.
HandleEvent(c) ==
  /\ pc = "events"
  /\ c \in activeChannels_
  /\ activeChannels_' = activeChannels_ \ {c}
  /\ UNCHANGED <<pc, channelVars, channels_, eventListSize, kernelVars>>

EventsDone ==
  /\ pc = "events"
  /\ activeChannels_ = {}
  /\ pc' = "functors"
  /\ UNCHANGED <<channelVars, channels_, eventListSize, activeChannels_, kernelVars>>

FunctorsDone ==
  /\ pc = "functors"
  /\ ~InDestructor
  /\ pc' = "poll"
  /\ UNCHANGED <<channelVars, channels_, eventListSize, activeChannels_, kernelVars>>

\* Data, room in the send buffer or a hang-up appears on an open descriptor, or
\* is used up.
Readiness(f) ==
  /\ f \in closing \/ \E c \in Channels : fd_[c] = f
  /\ ready' = IF f \in ready THEN ready \ {f} ELSE ready \cup {f}
  /\ UNCHANGED <<pc, channelVars, channels_, eventListSize, activeChannels_, epoll, closing, exited>>

-----------------------------------------------------------------------------
ChannelCall(c) ==
  \/ enableReading(c)
  \/ disableReading(c)
  \/ enableWriting(c)
  \/ disableWriting(c)
  \/ disableAll(c)
  \/ Remove(c)
  \/ DestroyChannel(c)
  \/ \E f \in Fds : NewChannel(c, f)

LoopStep ==
  \/ \E active \in SUBSET Channels : Poll(active)
  \/ \E c \in Channels : HandleEvent(c)
  \/ EventsDone
  \/ FunctorsDone

Next ==
  /\ ~exited
  /\ \/ \E c \in Channels : ChannelCall(c)
     \/ \E f \in Fds : CloseFd(f) \/ Readiness(f)
     \/ LoopStep

Spec == Init /\ [][Next]_vars

\* The loop keeps iterating: callbacks, batches and destructors come to an end, and
\* epoll_wait does at the latest after kPollTimeMs.
FairSpec ==
  /\ Spec
  /\ WF_vars(~exited /\ LoopStep)
  /\ SF_vars(~exited /\ FunctorsDone)
  /\ \A f \in Fds : WF_vars(~exited /\ CloseFd(f))

-----------------------------------------------------------------------------
(* Properties *)

\* updateOperation never gets to exit(): an ADD only meets a descriptor outside
\* the interest set and a MOD one inside it, whatever calls the owners make.
NoFatalEpollCtl == ~exited

\* The interest set holds exactly the channels marked KAdded, each with its
\* current mask, so epoll_wait reports no channel that was removed, disabled or
\* destroyed, and no descriptor under a former channel's address.  Only between the
\* two steps of a destructor, in the batch, an entry outlives its channel.
InterestMatches ==
  /\ \A c \in Live :
       epoll[fd_[c]] = IF index_[c] = "KAdded" THEN Entry(c, events_[c]) ELSE NoEntry
  /\ \A f \in Fds : epoll[f] # NoEntry =>
       \/ \E c \in Live : fd_[c] = f /\ epoll[f].ptr = c
       \/ pc = "functors" /\ f \in closing

\* The map knows every channel the poller manages, however descriptors are
\* reused: hasChannel holds from a channel's first update to its removal.
MapKnowsManaged == \A c \in Live : index_[c] # "KNew" => hasChannel(c)

\* Doubling the event list ends starvation: a channel whose descriptor stays
\* ready is handled again and again, whichever channels the kernel prefers.
ReadyIsReported ==
  \A c \in Channels : <>[](c \in Reportable) => []<>(c \in activeChannels_)
=============================================================================
