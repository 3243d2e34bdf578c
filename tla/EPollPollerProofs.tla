-------------------------- MODULE EPollPollerProofs --------------------------
(***************************************************************************)
(* Proofs about EPollPoller, for any number of channels and descriptors.   *)
(***************************************************************************)
EXTENDS EPollPoller, TLAPS

\* Live channels have descriptors of their own, none of which is being closed.
OwnFd ==
  /\ \A c, d \in Live : fd_[c] = fd_[d] => c = d
  /\ \A c \in Live : fd_[c] \notin closing

\* The inductive invariant: that no epoll_ctl fails follows from the interest set
\* matching index_, and that survives the reuse of descriptors by OwnFd.
PollerInv ==
  /\ TypeOK
  /\ OwnFd
  /\ NoFatalEpollCtl
  /\ InterestMatches
  /\ MapKnowsManaged

\* An entry of a channel is never the empty entry.
LEMMA EntryProperties ==
  ASSUME NEW c \in Channels, NEW ev \in SUBSET Events
  PROVE  /\ Entry(c, ev) # NoEntry
         /\ Entry(c, ev).ptr = c
         /\ Entry(c, ev) \in [ptr : Channels \cup {NoChannel}, events : SUBSET Events]
         /\ NoEntry \in [ptr : Channels \cup {NoChannel}, events : SUBSET Events]
BY PollerAssumption DEF Entry, NoEntry

\* A live channel's descriptor.
LEMMA LiveFd ==
  ASSUME TypeOK, NEW c \in Live
  PROVE  c \in Channels /\ fd_[c] \in Fds
BY DEF TypeOK, Live

\* PollerInv is inductive for steps that only move the loop.
LEMMA LoopStepInv ==
  ASSUME PollerInv, pc' \in {"poll", "events", "functors"},
         eventListSize' \in Nat \ {0}, activeChannels_' \subseteq Channels,
         pc = "functors" /\ pc' # "functors" => ~InDestructor,
         ready' \subseteq Fds, UNCHANGED <<channelVars, channels_, epoll, closing, exited>>
  PROVE  PollerInv'
<1>1. TypeOK'
  BY DEF PollerInv, TypeOK, channelVars
<1>2. OwnFd' /\ NoFatalEpollCtl'
  BY DEF PollerInv, OwnFd, NoFatalEpollCtl, Live, channelVars
<1>3. InterestMatches' /\ MapKnowsManaged'
  BY DEF PollerInv, InterestMatches, MapKnowsManaged, hasChannel, Live, channelVars, InDestructor
<1> QED
  BY <1>1, <1>2, <1>3 DEF PollerInv

\* A new registration state of one live channel, with the interest set and the
\* map adjusted to it, keeps the invariant.
LEMMA OneChannelInv ==
  ASSUME PollerInv, NEW c \in Live, NEW STATE ev, ev \in SUBSET Events,
         NEW ix \in {"KNew", "KAdded", "KDeleted"}, NEW m \in {c, NoChannel},
         ix # "KNew" => m = c,
         events_' = [events_ EXCEPT ![c] = ev],
         index_' = [index_ EXCEPT ![c] = ix],
         channels_' = [channels_ EXCEPT ![fd_[c]] = m],
         epoll' = [epoll EXCEPT ![fd_[c]] = IF ix = "KAdded" THEN Entry(c, ev) ELSE NoEntry],
         UNCHANGED <<pc, fd_, eventListSize, activeChannels_, ready, closing, exited>>
  PROVE  PollerInv'
<1>1. c \in Channels /\ fd_[c] \in Fds /\ TypeOK
  BY LiveFd DEF PollerInv
<1>2. PICK e : e = IF ix = "KAdded" THEN Entry(c, ev) ELSE NoEntry
  OBVIOUS
<1>3. e \in [ptr : Channels \cup {NoChannel}, events : SUBSET Events]
  BY <1>1, <1>2, EntryProperties
<1>4. epoll' = [epoll EXCEPT ![fd_[c]] = e]
  BY <1>2
<1>5. TypeOK'
  BY <1>1, <1>3, <1>4 DEF TypeOK
<1>6. OwnFd' /\ NoFatalEpollCtl'
  BY DEF PollerInv, OwnFd, NoFatalEpollCtl, Live
<1>7. Live' = Live
  BY DEF Live
<1>8. ASSUME NEW d \in Live, d # c
      PROVE  /\ fd_[d] \in Fds /\ fd_[d] # fd_[c] /\ d \in Channels
             /\ epoll'[fd_[d]] = epoll[fd_[d]] /\ channels_'[fd_[d]] = channels_[fd_[d]]
             /\ index_'[d] = index_[d] /\ events_'[d] = events_[d]
  BY <1>1, <1>8, <1>4, LiveFd DEF PollerInv, OwnFd, TypeOK
<1>9. /\ epoll'[fd_[c]] = e /\ channels_'[fd_[c]] = m
      /\ index_'[c] = ix /\ events_'[c] = ev
  BY <1>1, <1>4 DEF TypeOK
<1>10. \A d \in Live' : epoll'[fd_'[d]] =
          IF index_'[d] = "KAdded" THEN Entry(d, events_'[d]) ELSE NoEntry
  <2> SUFFICES ASSUME NEW d \in Live
               PROVE  epoll'[fd_[d]] =
                         IF index_'[d] = "KAdded" THEN Entry(d, events_'[d]) ELSE NoEntry
    BY <1>7
  <2>1. CASE d = c
    BY <1>2, <1>9, <2>1
  <2>2. CASE d # c
    BY <1>8, <2>2 DEF PollerInv, InterestMatches
  <2> QED
    BY <2>1, <2>2
<1>11. ASSUME NEW f \in Fds, epoll'[f] # NoEntry
       PROVE  \/ \E d \in Live' : fd_'[d] = f /\ epoll'[f].ptr = d
              \/ pc' = "functors" /\ f \in closing'
  <2>1. CASE f = fd_[c]
    <3>1. ix = "KAdded" /\ e.ptr = c
      BY <1>1, <1>2, <1>9, <1>11, <2>1, EntryProperties
    <3> QED
      BY <1>7, <1>9, <2>1, <3>1
  <2>2. CASE f # fd_[c]
    <3>1. epoll'[f] = epoll[f]
      BY <1>1, <1>4, <2>2 DEF TypeOK
    <3>2. \/ \E d \in Live : fd_[d] = f /\ epoll[f].ptr = d
          \/ pc = "functors" /\ f \in closing
      BY <1>11, <3>1 DEF PollerInv, InterestMatches
    <3> QED
      BY <1>7, <3>1, <3>2
  <2> QED
    BY <2>1, <2>2
<1>12. MapKnowsManaged'
  <2> SUFFICES ASSUME NEW d \in Live, index_'[d] # "KNew"
               PROVE  channels_'[fd_[d]] = d
    BY <1>7 DEF MapKnowsManaged, hasChannel
  <2>1. CASE d = c
    BY <1>9, <2>1
  <2>2. CASE d # c
    BY <1>8, <2>2 DEF PollerInv, MapKnowsManaged, hasChannel
  <2> QED
    BY <2>1, <2>2
<1>13. InterestMatches'
  BY <1>10, <1>11 DEF InterestMatches
<1> QED
  BY <1>5, <1>6, <1>12, <1>13 DEF PollerInv

\* enableReading and the other mask changes keep the invariant.
LEMMA SetEventsInv ==
  ASSUME PollerInv, NEW c \in Channels, NEW STATE ev, ev \in SUBSET Events, SetEvents(c, ev)
  PROVE  PollerInv'
<1>1. c \in Live /\ TypeOK /\ fd_[c] \in Fds
      /\ index_[c] \in {"KNew", "KAdded", "KDeleted"}
  BY LiveFd DEF PollerInv, SetEvents, CanCall, TypeOK
<1>2. /\ events_' = [events_ EXCEPT ![c] = ev]
      /\ updateChannel(c, ev)
      /\ UNCHANGED <<pc, fd_, eventListSize, activeChannels_, ready, closing>>
  BY DEF SetEvents
<1>3. epoll[fd_[c]] = IF index_[c] = "KAdded" THEN Entry(c, events_[c]) ELSE NoEntry
  BY <1>1 DEF PollerInv, InterestMatches
<1>4. index_[c] # "KNew" => channels_ = [channels_ EXCEPT ![fd_[c]] = c]
  BY <1>1 DEF PollerInv, MapKnowsManaged, hasChannel, TypeOK
<1>5. CASE index_[c] \in {"KNew", "KDeleted"}
  <2>1. EpollAdd(c, ev) /\ index_' = [index_ EXCEPT ![c] = "KAdded"]
        /\ channels_' = [channels_ EXCEPT ![fd_[c]] = c]
    BY <1>2, <1>4, <1>5 DEF updateChannel
  <2>2. epoll[fd_[c]] = NoEntry
    BY <1>3, <1>5
  <2>3. epoll' = [epoll EXCEPT ![fd_[c]] = Entry(c, ev)] /\ exited' = exited
    BY <2>1, <2>2 DEF EpollAdd
  <2> QED
    BY <1>1, <1>2, <2>1, <2>3, OneChannelInv
<1>6. CASE index_[c] = "KAdded" /\ ev = {}
  <2>1. EpollDel(c) /\ index_' = [index_ EXCEPT ![c] = "KDeleted"] /\ channels_' = channels_
    BY <1>2, <1>6 DEF updateChannel
  <2>2. epoll' = [epoll EXCEPT ![fd_[c]] = NoEntry] /\ exited' = exited
        /\ channels_' = [channels_ EXCEPT ![fd_[c]] = c]
    BY <1>4, <1>6, <2>1 DEF EpollDel
  <2> QED
    BY <1>1, <1>2, <2>1, <2>2, OneChannelInv
<1>7. CASE index_[c] = "KAdded" /\ ev # {}
  <2>1. EpollMod(c, ev) /\ index_' = index_ /\ channels_' = channels_
    BY <1>2, <1>7 DEF updateChannel
  <2>2. epoll[fd_[c]] # NoEntry
    <3>1. events_[c] \in SUBSET Events
      BY <1>1 DEF TypeOK, Live
    <3> QED
      BY <1>3, <1>7, <3>1, EntryProperties
  <2>3. epoll' = [epoll EXCEPT ![fd_[c]] = Entry(c, ev)] /\ exited' = exited
    BY <2>1, <2>2 DEF EpollMod
  <2>4. index_' = [index_ EXCEPT ![c] = "KAdded"]
        /\ channels_' = [channels_ EXCEPT ![fd_[c]] = c]
    BY <1>1, <1>4, <1>7, <2>1 DEF TypeOK
  <2> QED
    BY <1>1, <1>2, <2>3, <2>4, OneChannelInv
<1> QED
  BY <1>1, <1>5, <1>6, <1>7

\* Channel::remove keeps the invariant.
LEMMA RemoveInv ==
  ASSUME PollerInv, NEW c \in Channels, Remove(c)
  PROVE  PollerInv'
<1>1. c \in Live /\ TypeOK /\ fd_[c] \in Fds /\ events_[c] \in SUBSET Events
      /\ index_[c] \in {"KNew", "KAdded", "KDeleted"}
  BY LiveFd DEF PollerInv, Remove, CanCall, TypeOK
<1>2. /\ events_' = [events_ EXCEPT ![c] = events_[c]]
      /\ index_' = [index_ EXCEPT ![c] = "KNew"]
      /\ channels_' = [channels_ EXCEPT ![fd_[c]] = NoChannel]
      /\ UNCHANGED <<pc, fd_, eventListSize, activeChannels_, ready, closing>>
  BY <1>1 DEF Remove, removeChannel, TypeOK
<1>3. epoll[fd_[c]] = IF index_[c] = "KAdded" THEN Entry(c, events_[c]) ELSE NoEntry
  BY <1>1 DEF PollerInv, InterestMatches
<1>4. epoll' = [epoll EXCEPT ![fd_[c]] = NoEntry] /\ exited' = exited
  BY <1>1, <1>3 DEF Remove, removeChannel, EpollDel, TypeOK
<1> QED
  BY <1>1, <1>2, <1>4, OneChannelInv

\* A new channel starts outside the interest set, on a descriptor of its own.
LEMMA NewChannelInv ==
  ASSUME PollerInv, NEW c \in Channels, NEW f \in Fds, NewChannel(c, f)
  PROVE  PollerInv'
<1>1. /\ TypeOK /\ c \notin Live /\ f \notin closing /\ \A d \in Channels : fd_[d] # f
      /\ fd_' = [fd_ EXCEPT ![c] = f]
      /\ events_' = [events_ EXCEPT ![c] = {}]
      /\ index_' = [index_ EXCEPT ![c] = "KNew"]
      /\ UNCHANGED <<pc, channels_, eventListSize, activeChannels_, epoll, ready, closing, exited>>
  BY DEF PollerInv, NewChannel, kernelVars
<1>2. TypeOK'
  BY <1>1 DEF TypeOK
<1>3. f # NoFd /\ Live' = Live \cup {c}
  BY <1>1, PollerAssumption DEF Live, TypeOK
<1>4. ASSUME NEW d \in Live
      PROVE  fd_'[d] = fd_[d] /\ index_'[d] = index_[d] /\ events_'[d] = events_[d]
             /\ d # c /\ d \in Channels
  BY <1>1 DEF TypeOK, Live
<1>5. fd_'[c] = f /\ index_'[c] = "KNew"
  BY <1>1 DEF TypeOK
<1>6. OwnFd' /\ NoFatalEpollCtl'
  BY <1>1, <1>3, <1>4, <1>5 DEF PollerInv, OwnFd, NoFatalEpollCtl
<1>7. epoll[f] = NoEntry
  BY <1>1 DEF PollerInv, InterestMatches, Live
<1>8. \A d \in Live' : epoll'[fd_'[d]] =
          IF index_'[d] = "KAdded" THEN Entry(d, events_'[d]) ELSE NoEntry
  BY <1>1, <1>3, <1>4, <1>5, <1>7 DEF PollerInv, InterestMatches
<1>9. \A g \in Fds : epoll'[g] # NoEntry =>
        \/ \E d \in Live' : fd_'[d] = g /\ epoll'[g].ptr = d
        \/ pc' = "functors" /\ g \in closing'
  BY <1>1, <1>3, <1>4 DEF PollerInv, InterestMatches
<1>10. MapKnowsManaged'
  BY <1>1, <1>3, <1>4, <1>5 DEF PollerInv, MapKnowsManaged, hasChannel
<1>11. InterestMatches'
  BY <1>8, <1>9 DEF InterestMatches
<1> QED
  BY <1>2, <1>6, <1>10, <1>11 DEF PollerInv

\* A channel is destroyed: its entry, if it has one, is that of a descriptor being
\* closed in the batch.
LEMMA DestroyChannelInv ==
  ASSUME PollerInv, NEW c \in Channels, DestroyChannel(c)
  PROVE  PollerInv'
<1>1. /\ TypeOK /\ c \in Live /\ fd_[c] \in Fds
      /\ index_[c] = "KAdded" => pc = "functors"
      /\ closing' = closing \cup {fd_[c]}
      /\ fd_' = [fd_ EXCEPT ![c] = NoFd]
      /\ UNCHANGED <<pc, events_, index_, channels_, eventListSize, activeChannels_,
                     epoll, ready, exited>>
  BY LiveFd DEF PollerInv, DestroyChannel
<1>2. TypeOK'
  BY <1>1 DEF TypeOK
<1>3. Live' = Live \ {c}
  BY <1>1, PollerAssumption DEF Live, TypeOK
<1>4. ASSUME NEW d \in Live, d # c
      PROVE  fd_'[d] = fd_[d] /\ fd_[d] \in Fds /\ fd_[d] # fd_[c] /\ d \in Channels
  BY <1>1, <1>4, LiveFd DEF PollerInv, OwnFd, TypeOK
<1>5. OwnFd' /\ NoFatalEpollCtl'
  BY <1>1, <1>3, <1>4 DEF PollerInv, OwnFd, NoFatalEpollCtl
<1>6. \A d \in Live' : epoll'[fd_'[d]] =
          IF index_'[d] = "KAdded" THEN Entry(d, events_'[d]) ELSE NoEntry
  BY <1>1, <1>3, <1>4 DEF PollerInv, InterestMatches
<1>7. ASSUME NEW g \in Fds, epoll'[g] # NoEntry
      PROVE  \/ \E d \in Live' : fd_'[d] = g /\ epoll'[g].ptr = d
             \/ pc' = "functors" /\ g \in closing'
  <2>1. CASE g = fd_[c]
    <3>1. index_[c] = "KAdded"
      BY <1>1, <1>7, <2>1 DEF PollerInv, InterestMatches
    <3> QED
      BY <1>1, <2>1, <3>1
  <2>2. CASE g # fd_[c]
    <3>1. \/ \E d \in Live : fd_[d] = g /\ epoll[g].ptr = d
          \/ pc = "functors" /\ g \in closing
      BY <1>1, <1>7 DEF PollerInv, InterestMatches
    <3> QED
      BY <1>1, <1>3, <1>4, <2>2, <3>1
  <2> QED
    BY <2>1, <2>2
<1>8. MapKnowsManaged'
  BY <1>1, <1>3, <1>4 DEF PollerInv, MapKnowsManaged, hasChannel
<1>9. InterestMatches'
  BY <1>6, <1>7 DEF InterestMatches
<1> QED
  BY <1>2, <1>5, <1>8, <1>9 DEF PollerInv

\* Closing a descriptor leaves no entry of its former channel behind.
LEMMA CloseFdInv ==
  ASSUME PollerInv, NEW f \in Fds, CloseFd(f)
  PROVE  PollerInv'
<1>1. /\ TypeOK /\ f \in closing
      /\ closing' = closing \ {f}
      /\ epoll' = [epoll EXCEPT ![f] = NoEntry]
      /\ ready' = ready \ {f}
      /\ UNCHANGED <<pc, fd_, events_, index_, channels_, eventListSize, activeChannels_, exited>>
  BY DEF PollerInv, CloseFd, channelVars
<1>2. TypeOK'
  <2>1. NoEntry \in [ptr : Channels \cup {NoChannel}, events : SUBSET Events]
    BY DEF NoEntry, Entry
  <2> QED
    BY <1>1, <2>1 DEF TypeOK
<1>3. Live' = Live
  BY <1>1 DEF Live
<1>4. \A d \in Live : fd_[d] \in Fds /\ fd_[d] # f /\ epoll'[fd_[d]] = epoll[fd_[d]]
  BY <1>1, LiveFd DEF PollerInv, OwnFd, TypeOK
<1>5. OwnFd' /\ NoFatalEpollCtl'
  BY <1>1, <1>3 DEF PollerInv, OwnFd, NoFatalEpollCtl
<1>6. \A d \in Live' : epoll'[fd_'[d]] =
          IF index_'[d] = "KAdded" THEN Entry(d, events_'[d]) ELSE NoEntry
  BY <1>1, <1>3, <1>4 DEF PollerInv, InterestMatches
<1>7. ASSUME NEW g \in Fds, epoll'[g] # NoEntry
      PROVE  \/ \E d \in Live' : fd_'[d] = g /\ epoll'[g].ptr = d
             \/ pc' = "functors" /\ g \in closing'
  <2>1. g # f /\ epoll'[g] = epoll[g]
    BY <1>1, <1>7 DEF TypeOK
  <2> QED
    BY <1>1, <1>3, <1>7, <2>1 DEF PollerInv, InterestMatches
<1>8. MapKnowsManaged'
  BY <1>1, <1>3 DEF PollerInv, MapKnowsManaged, hasChannel
<1>9. InterestMatches'
  BY <1>6, <1>7 DEF InterestMatches
<1> QED
  BY <1>2, <1>5, <1>8, <1>9 DEF PollerInv

\* PollerInv is inductive.
LEMMA PollerInvStep ==
  ASSUME PollerInv, [Next]_vars
  PROVE  PollerInv'
<1>1. ASSUME NEW c \in Channels, ChannelCall(c) PROVE PollerInv'
  <2>1. events_[c] \in SUBSET Events
    BY DEF PollerInv, TypeOK
  <2>2. /\ events_[c] \cup {"read"} \in SUBSET Events
        /\ events_[c] \ {"read"} \in SUBSET Events
        /\ events_[c] \cup {"write"} \in SUBSET Events
        /\ events_[c] \ {"write"} \in SUBSET Events
        /\ {} \in SUBSET Events
    BY <2>1 DEF Events
  <2>3. CASE enableReading(c)
    BY <2>2, <2>3, SetEventsInv DEF enableReading
  <2>4. CASE disableReading(c)
    BY <2>2, <2>4, SetEventsInv DEF disableReading
  <2>5. CASE enableWriting(c)
    BY <2>2, <2>5, SetEventsInv DEF enableWriting
  <2>6. CASE disableWriting(c)
    BY <2>2, <2>6, SetEventsInv DEF disableWriting
  <2>7. CASE disableAll(c)
    BY <2>2, <2>7, SetEventsInv DEF disableAll
  <2>8. CASE Remove(c)
    BY <2>8, RemoveInv
  <2>9. CASE DestroyChannel(c)
    BY <2>9, DestroyChannelInv
  <2>10. CASE \E f \in Fds : NewChannel(c, f)
    BY <2>10, NewChannelInv
  <2> QED
    BY <1>1, <2>3, <2>4, <2>5, <2>6, <2>7, <2>8, <2>9, <2>10 DEF ChannelCall
<1>2. ASSUME NEW f \in Fds, CloseFd(f) \/ Readiness(f) PROVE PollerInv'
  <2>1. CASE CloseFd(f)
    BY <2>1, CloseFdInv
  <2>2. CASE Readiness(f)
    BY <2>2, LoopStepInv DEF Readiness, PollerInv, TypeOK
  <2> QED
    BY <1>2, <2>1, <2>2
<1>3. ASSUME NEW active \in SUBSET Channels, Poll(active) PROVE PollerInv'
  <2>1. eventListSize' \in Nat \ {0}
    BY <1>3 DEF Poll, PollerInv, TypeOK
  <2> QED
    BY <1>3, <2>1, LoopStepInv DEF Poll, PollerInv, TypeOK, kernelVars
<1>4. ASSUME NEW c \in Channels, HandleEvent(c) PROVE PollerInv'
  BY <1>4, LoopStepInv DEF HandleEvent, PollerInv, TypeOK, kernelVars
<1>5. CASE EventsDone
  BY <1>5, LoopStepInv DEF EventsDone, PollerInv, TypeOK, kernelVars
<1>6. CASE FunctorsDone
  BY <1>6, LoopStepInv DEF FunctorsDone, PollerInv, TypeOK, kernelVars
<1>7. CASE UNCHANGED vars
  BY <1>7, LoopStepInv DEF vars, PollerInv, TypeOK, kernelVars
<1> QED
  BY <1>1, <1>2, <1>3, <1>4, <1>5, <1>6, <1>7 DEF Next, LoopStep

\* No registration is lost or left over, in any sequence of calls.
THEOREM PollerInvariant == Spec => []PollerInv
<1>1. Init => PollerInv
  <2> SUFFICES ASSUME Init PROVE PollerInv
    OBVIOUS
  <2>1. TypeOK
    BY PollerAssumption DEF Init, TypeOK, NoEntry, Entry
  <2>2. Live = {}
    BY DEF Init, Live
  <2>3. OwnFd /\ NoFatalEpollCtl /\ MapKnowsManaged
    BY <2>2 DEF Init, OwnFd, NoFatalEpollCtl, MapKnowsManaged
  <2>4. InterestMatches
    BY <2>2 DEF Init, InterestMatches
  <2> QED
    BY <2>1, <2>3, <2>4 DEF PollerInv
<1>2. PollerInv /\ [Next]_vars => PollerInv'
  BY PollerInvStep
<1> QED
  BY <1>1, <1>2, PTL DEF Spec

\* The state of the poller keeps its type.
THEOREM PollerTypeCorrect == Spec => []TypeOK
<1>1. PollerInv => TypeOK
  BY DEF PollerInv
<1> QED
  BY <1>1, PollerInvariant, PTL

\* updateOperation never exits the process because of a wrong ADD or MOD.
THEOREM EpollCtlNeverFatal == Spec => []NoFatalEpollCtl
<1>1. PollerInv => NoFatalEpollCtl
  BY DEF PollerInv
<1> QED
  BY <1>1, PollerInvariant, PTL

\* The kernel's interest set is exactly what the channels say it is.
THEOREM InterestExact == Spec => []InterestMatches
<1>1. PollerInv => InterestMatches
  BY DEF PollerInv
<1> QED
  BY <1>1, PollerInvariant, PTL

\* The channels_ map knows every managed channel.
THEOREM MapComplete == Spec => []MapKnowsManaged
<1>1. PollerInv => MapKnowsManaged
  BY DEF PollerInv
<1> QED
  BY <1>1, PollerInvariant, PTL
=============================================================================
