----------------------------- MODULE EPollPoller -----------------------------
(***************************************************************************)
(* The poller of one loop (src/src/EPollPoller.cc, Poller.cc): the map     *)
(* channels_, the index of each channel and the interest list of the       *)
(* kernel, which must tell the same story whatever sequence of enable,     *)
(* disable and remove the handlers and functors of the loop make; and the  *)
(* raw Channel pointers that epoll_wait hands back.                        *)
(*                                                                         *)
(* Everything here runs on the thread of the loop, except the destruction  *)
(* of a channel and the closing of its descriptor, which happen wherever   *)
(* the last reference to its TcpConnection is dropped.  ~TcpConnection     *)
(* does not ask whether the channel is still in the poller; stray and lost *)
(* say what is left over when it is.                                       *)
(***************************************************************************)
EXTENDS Channel, Integers, FiniteSets

CONSTANTS
    ChannelPtr,             \* addresses at which a Channel can be
    Fd,                     \* file descriptors
    NoChannel,              \* no entry
    kInitEventListSize      \* initial size of events_ (16 in the code)

EpollEntry == [ptr : ChannelPtr, events : SUBSET Interest]

ASSUME NoChannelAssumption ==
    NoChannel \notin ChannelPtr \cup Channel \cup EpollEntry
ASSUME FdAssumption == IsFiniteSet(Fd)
ASSUME EventListAssumption == kInitEventListSize \in Nat \ {0}

VARIABLES
    object,         \* the Channel at each address, or NoChannel
    fdOf,           \* its fd_
    channels,       \* channels_: fd -> Channel*
    epoll,          \* the kernel's interest list: fd -> data.ptr and events
    epollError,     \* some epoll_ctl has failed (ADD and MOD: LOG_FATAL)
    eventListSize,  \* events_.size()
    activeChannels, \* the pointers epoll_wait has returned, not yet handled
    phase,          \* what the thread of the loop is doing
    stray,          \* history: descriptors whose owner was destroyed with its
                    \* channel in the poller
    lost            \* history: the addresses of such channels that are still to
                    \* be handled

history == <<stray, lost>>

vars == <<object, fdOf, channels, epoll, epollError, eventListSize,
          activeChannels, phase, history>>

Live(p) == object[p] # NoChannel
Registered(f) == epoll[f] # NoChannel

(* Every variable has its type, and activeChannels_ is used up when the       *)
(* functors run.                                                              *)
TypeOK ==
    /\ object \in [ChannelPtr -> Channel \cup {NoChannel}]
    /\ fdOf \in [ChannelPtr -> Fd]
    /\ channels \in [Fd -> ChannelPtr \cup {NoChannel}]
    /\ epoll \in [Fd -> EpollEntry \cup {NoChannel}]
    /\ epollError \in BOOLEAN
    /\ eventListSize \in Nat \ {0}
    /\ activeChannels \subseteq ChannelPtr
    /\ phase \in {"poll", "dispatch", "handler", "functors", "undefined"}
    /\ stray \subseteq Fd
    /\ lost \subseteq activeChannels
    /\ phase \notin {"dispatch", "handler"} => activeChannels = {}

\* Code that runs before loop() is code that runs between two polls.
Init ==
    /\ object = [p \in ChannelPtr |-> NoChannel]
    /\ fdOf \in [ChannelPtr -> Fd]
    /\ channels = [f \in Fd |-> NoChannel]
    /\ epoll = [f \in Fd |-> NoChannel]
    /\ epollError = FALSE
    /\ eventListSize = kInitEventListSize
    /\ activeChannels = {}
    /\ phase = "functors"
    /\ stray = {}
    /\ lost = {}

-----------------------------------------------------------------------------
\* epoll_ctl fails when an ADD finds the descriptor in the interest list, or a
\* MOD or DEL does not.
Refused(op, f) == (op = "ADD") <=> Registered(f)

\* EPollPoller::update for the channel c at address p.
Ctl(op, p, c) ==
    IF Refused(op, fdOf[p])
    THEN /\ epollError' = TRUE
         /\ UNCHANGED epoll
    ELSE /\ epoll' = [epoll EXCEPT ![fdOf[p]] =
                         IF op = "DEL" THEN NoChannel
                         ELSE [ptr |-> p, events |-> c.events]]
         /\ UNCHANGED epollError

InUserCode == phase \in {"handler", "functors"}

\* updateChannel enters a new channel in channels_; one that was deleted from
\* epoll only is still there.
MapAfterUpdateSwapped(p, c) ==          \* mutant: kDeleted for kNew
    IF c.index = "kDeleted" THEN [channels EXCEPT ![fdOf[p]] = p] ELSE channels

MapAfterUpdate(p, c) ==
    IF c.index = "kNew" THEN [channels EXCEPT ![fdOf[p]] = p] ELSE channels

\* What channels_ and the kernel have for f is its present owner's again.
NoLongerStray(f) == stray' = stray \ {f} /\ UNCHANGED lost

\* EPollPoller::updateChannel, called with the channel's new events_.
UpdateChannel(p, c) ==
    /\ Ctl(UpdateOp(c), p, c)
    /\ object' = [object EXCEPT ![p] = Updated(c)]
    /\ channels' = MapAfterUpdate(p, c)
    /\ IF c.index = "kNew" THEN NoLongerStray(fdOf[p]) ELSE UNCHANGED history
    /\ UNCHANGED <<fdOf, eventListSize, activeChannels, phase>>

\* A handler or a functor changes what a channel of the loop is interested in.
ChangeEvents(p) ==
    /\ InUserCode
    /\ Live(p)
    /\ \/ UpdateChannel(p, EnableReading(object[p]))
       \/ UpdateChannel(p, DisableReading(object[p]))
       \/ UpdateChannel(p, EnableWriting(object[p]))
       \/ UpdateChannel(p, DisableWriting(object[p]))
       \/ UpdateChannel(p, DisableAll(object[p]))

\* Channel::remove is called by TcpConnection::connectDestoryed, which
\* TcpServer::removeConnectionInLoop queues, and by the destructors of Acceptor
\* and EventLoop: never from a handler of the loop.
MayRemoveInHandler == InUserCode        \* mutant: runInLoop for queueInLoop

MayRemove == phase = "functors"

\* EPollPoller::removeChannel.
RemoveChannel(p) ==
    /\ MayRemove
    /\ Live(p)
    /\ channels' = [channels EXCEPT ![fdOf[p]] = NoChannel]
    /\ IF object[p].index = "kAdded" THEN Ctl("DEL", p, object[p])
                                     ELSE UNCHANGED <<epoll, epollError>>
    /\ object' = [object EXCEPT ![p] = Removed(object[p])]
    /\ NoLongerStray(fdOf[p])
    /\ UNCHANGED <<fdOf, eventListSize, activeChannels, phase>>

\* A Channel is made for a descriptor the kernel has just opened.
Create(p, f) ==
    /\ InUserCode
    /\ ~Live(p)
    /\ ~Registered(f)
    /\ \A q \in ChannelPtr : Live(q) => fdOf[q] # f
    /\ object' = [object EXCEPT ![p] = NewChannel]
    /\ fdOf' = [fdOf EXCEPT ![p] = f]
    /\ UNCHANGED <<channels, epoll, epollError, eventListSize, activeChannels,
                   phase, history>>

\* The owner of a channel goes away, at any time and on any thread, whatever
\* the poller still has of the channel: ~TcpConnection frees channel_ first.
Destroy(p) ==
    /\ Live(p)
    /\ object' = [object EXCEPT ![p] = NoChannel]
    /\ IF object[p].index = "kNew" THEN UNCHANGED history
       ELSE /\ stray' = stray \cup {fdOf[p]}
            /\ lost' = lost \cup ({p} \cap activeChannels)
    /\ UNCHANGED <<fdOf, channels, epoll, epollError, eventListSize,
                   activeChannels, phase>>

\* socket_ goes next and closes the descriptor: the kernel forgets it.  (When
\* it is not in the interest list, nothing changes here.)
Close(f) ==
    /\ Registered(f)
    /\ \A p \in ChannelPtr : Live(p) => fdOf[p] # f
    /\ epoll' = [epoll EXCEPT ![f] = NoChannel]
    /\ UNCHANGED <<object, fdOf, channels, epollError, eventListSize,
                   activeChannels, phase, history>>

-----------------------------------------------------------------------------
\* What follows the use of a freed Channel is undefined.
Undefined ==
    /\ phase' = "undefined"
    /\ activeChannels' = {}
    /\ lost' = {}

\* EPollPoller::poll and fillActiveChannels: some of the registered descriptors
\* are ready, at most as many as events_ holds; a full events_ is doubled.
\* set_revents is called through each data.ptr.
Poll ==
    /\ phase = "poll"
    /\ \E ready \in SUBSET {f \in Fd : Registered(f)} :
          /\ Cardinality(ready) <= eventListSize
          /\ IF ready \cap stray # {} THEN Undefined
             ELSE /\ activeChannels' = {epoll[f].ptr : f \in ready}
                  /\ phase' = "dispatch"
                  /\ UNCHANGED lost
          /\ eventListSize' = IF Cardinality(ready) = eventListSize
                              THEN 2 * eventListSize ELSE eventListSize
    /\ UNCHANGED <<object, fdOf, channels, epoll, epollError, stray>>

\* loop() calls handleEvent on the next active channel.
HandleEvent(p) ==
    /\ phase = "dispatch"
    /\ p \in activeChannels
    /\ IF p \in lost THEN Undefined
       ELSE /\ activeChannels' = activeChannels \ {p}
            /\ phase' = "handler"
            /\ UNCHANGED lost
    /\ UNCHANGED <<object, fdOf, channels, epoll, epollError, eventListSize,
                   stray>>

HandlerReturns ==
    /\ phase = "handler"
    /\ phase' = "dispatch"
    /\ UNCHANGED <<object, fdOf, channels, epoll, epollError, eventListSize,
                   activeChannels, history>>

RunFunctorsEarly ==             \* mutant: one event per iteration
    /\ phase = "dispatch"
    /\ phase' = "functors"
    /\ UNCHANGED <<object, fdOf, channels, epoll, epollError, eventListSize,
                   activeChannels, history>>

\* loop() goes on to doPendingFunctors, and from there to the next poll.
RunFunctors ==
    /\ phase = "dispatch"
    /\ activeChannels = {}
    /\ phase' = "functors"
    /\ UNCHANGED <<object, fdOf, channels, epoll, epollError, eventListSize,
                   activeChannels, history>>

NextIteration ==
    /\ phase = "functors"
    /\ phase' = "poll"
    /\ UNCHANGED <<object, fdOf, channels, epoll, epollError, eventListSize,
                   activeChannels, history>>

Next ==
    \/ \E p \in ChannelPtr :
          \/ ChangeEvents(p) \/ RemoveChannel(p) \/ Destroy(p) \/ HandleEvent(p)
          \/ \E f \in Fd : Create(p, f)
    \/ \E f \in Fd : Close(f)
    \/ Poll \/ HandlerReturns \/ RunFunctors \/ NextIteration

Spec == Init /\ [][Next]_vars

-----------------------------------------------------------------------------
(* The index of a channel says truly what the kernel has: kAdded when the     *)
(* descriptor is in the interest list with this channel and its events_,      *)
(* anything else when it is not.  (updateChannel and removeChannel decide     *)
(* between ADD, MOD and DEL by the index alone.)  And the kernel keeps no     *)
(* other pointer, unless a channel is destroyed while in the poller, which    *)
(* happens to no connection of a running loop but one that a late sendInLoop  *)
(* reopened after connectDestoryed (TcpConnection.cc:251): then until close() *)
(* there may be the pointer to a freed channel.                               *)
IndexMatchesKernel ==
    /\ \A p \in ChannelPtr : Live(p) =>
          IF object[p].index = "kAdded"
          THEN epoll[fdOf[p]] = [ptr |-> p, events |-> object[p].events]
          ELSE ~Registered(fdOf[p])
    /\ \A f \in Fd : Registered(f) =>
          \/ Live(epoll[f].ptr) /\ fdOf[epoll[f].ptr] = f
          \/ f \in stray

(* No epoll_ctl fails, so the LOG_FATAL of update(), which ends the program,  *)
(* is out of reach, also for the descriptor of such a connection when it is   *)
(* opened again.                                                              *)
EpollCtlSucceeds == ~epollError

(* channels_ has every channel that was updated and not removed since under   *)
(* its own descriptor, also when a descriptor is closed and opened again:     *)
(* hasChannel can trust it.  And it has nothing else, but for the entry that  *)
(* a channel destroyed while in the poller leaves under its descriptor until  *)
(* the next channel with this descriptor is updated or removed.               *)
MapMatchesIndex ==
    /\ \A p \in ChannelPtr :
          Live(p) /\ object[p].index # "kNew" => channels[fdOf[p]] = p
    /\ \A f \in Fd : channels[f] # NoChannel =>
          \/ /\ Live(channels[f])
             /\ fdOf[channels[f]] = f
             /\ object[channels[f]].index # "kNew"
          \/ f \in stray

(* No pointer in activeChannels_ dangles, whatever the handlers of the        *)
(* channels before it have removed and destroyed, unless its channel was      *)
(* destroyed without having been removed: a removed one is never there.       *)
NoDanglingChannel == \A p \in activeChannels : Live(p) \/ p \in lost
=============================================================================
