-------------------------- MODULE EPollPollerProofs --------------------------
(***************************************************************************)
(* Proofs about EPollPoller.tla for any channels, descriptors and initial  *)
(* size of events_.  The four invariants hold each other up, so one        *)
(* inductive invariant carries them all.                                   *)
(***************************************************************************)
EXTENDS EPollPoller, TLAPS

\* The kernel gives a descriptor to one owner at a time.
DistinctFds ==
    \A p, q \in ChannelPtr : Live(p) /\ Live(q) /\ fdOf[p] = fdOf[q] => p = q

\* What is still to be handled is live and in the poller, or was destroyed
\* there.
ActiveInPoller ==
    \A p \in activeChannels \ lost : Live(p) /\ object[p].index # "kNew"

IInv ==
    /\ TypeOK
    /\ DistinctFds
    /\ IndexMatchesKernel
    /\ MapMatchesIndex
    /\ EpollCtlSucceeds
    /\ ActiveInPoller

LEMMA InitIInv == Init => IInv
<1> SUFFICES ASSUME Init PROVE IInv
  OBVIOUS
<1>1. TypeOK
  BY EventListAssumption DEF Init, TypeOK
<1>2. \A p \in ChannelPtr : ~Live(p)
  BY DEF Init, Live
<1>3. \A f \in Fd : ~Registered(f) /\ channels[f] = NoChannel
  BY DEF Init, Registered
<1> QED
  BY <1>1, <1>2, <1>3
     DEF IInv, Init, DistinctFds, IndexMatchesKernel, MapMatchesIndex,
         EpollCtlSucceeds, ActiveInPoller

\* The operations on a channel's interest give a channel with the same index.
LEMMA EventsType ==
    ASSUME NEW c \in Channel
    PROVE  \A d \in {EnableReading(c), DisableReading(c), EnableWriting(c),
                     DisableWriting(c), DisableAll(c)} :
              d \in Channel /\ d.index = c.index
BY DEF Channel, Index, Interest, EnableReading, DisableReading, EnableWriting,
       DisableWriting, DisableAll, WithEvents

\* updateChannel for one channel, whatever its new events_ are.
LEMMA UpdateKeepsIInv ==
    ASSUME IInv, NEW p \in ChannelPtr, Live(p), NEW c \in Channel,
           c.index = object[p].index, UpdateChannel(p, c)
    PROVE  IInv'
<1> DEFINE f == fdOf[p]
<1> USE DEF Live, Registered
<1>1. /\ f \in Fd
      /\ object[p] \in Channel
      /\ c.events \in SUBSET Interest
      /\ c.index \in Index
  BY DEF IInv, TypeOK, Channel
<1>2. Registered(f) <=> c.index = "kAdded"
  <2>1. [ptr |-> p, events |-> object[p].events] \in EpollEntry
    BY <1>1 DEF EpollEntry, Channel
  <2> QED
    BY <1>1, <2>1, NoChannelAssumption DEF IInv, IndexMatchesKernel
\* The operation chosen by the index is one that the kernel accepts.
<1>3. ~Refused(UpdateOp(c), f)
  BY <1>1, <1>2 DEF Refused, UpdateOp, Index
<1>4. /\ epollError' = epollError
      /\ epoll' = [epoll EXCEPT ![f] =
                      IF UpdateOp(c) = "DEL" THEN NoChannel
                      ELSE [ptr |-> p, events |-> c.events]]
  BY <1>3 DEF UpdateChannel, Ctl
<1>5. /\ object' = [object EXCEPT ![p] = Updated(c)]
      /\ channels' = IF c.index = "kNew" THEN [channels EXCEPT ![f] = p]
                                         ELSE channels
      /\ stray' = IF c.index = "kNew" THEN stray \ {f} ELSE stray
      /\ UNCHANGED <<fdOf, eventListSize, activeChannels, phase, lost>>
  BY DEF UpdateChannel, MapAfterUpdate, NoLongerStray, history
<1>6. /\ Updated(c) \in Channel
      /\ Updated(c).events = c.events
      /\ Updated(c).index = IF UpdateOp(c) = "DEL" THEN "kDeleted" ELSE "kAdded"
      /\ Updated(c).index # "kNew"
  BY <1>1 DEF Updated, UpdatedIndex, Channel, Index
<1>7. \A q \in ChannelPtr :
         /\ Live(q)' <=> Live(q)
         /\ q # p => object'[q] = object[q]
         /\ fdOf'[q] = fdOf[q]
  BY <1>5, <1>6, NoChannelAssumption DEF IInv, TypeOK
<1>8. object'[p] = Updated(c)
  BY <1>5 DEF IInv, TypeOK
<1>9. \A g \in Fd : g # f => epoll'[g] = epoll[g] /\ channels'[g] = channels[g]
  BY <1>1, <1>4, <1>5 DEF IInv, TypeOK
<1>10. /\ epoll'[f] = IF UpdateOp(c) = "DEL" THEN NoChannel
                      ELSE [ptr |-> p, events |-> c.events]
       /\ c.index = "kNew" => channels'[f] = p
       /\ c.index # "kNew" => channels'[f] = channels[f]
  BY <1>1, <1>4, <1>5 DEF IInv, TypeOK
<1>11. [ptr |-> p, events |-> c.events] \in EpollEntry
  BY <1>1 DEF EpollEntry
<1>12. TypeOK'
  BY <1>1, <1>4, <1>5, <1>6, <1>11 DEF IInv, TypeOK
<1>13. DistinctFds'
  BY <1>7 DEF IInv, DistinctFds
<1>14. IndexMatchesKernel'
  <2>1. ASSUME NEW q \in ChannelPtr, Live(q)'
        PROVE  IF object'[q].index = "kAdded"
               THEN epoll'[fdOf'[q]] = [ptr |-> q, events |-> object'[q].events]
               ELSE epoll'[fdOf'[q]] = NoChannel
    <3>1. CASE q = p
      BY <1>6, <1>7, <1>8, <1>10, <3>1
    <3>2. CASE q # p
      <4>1. fdOf[q] # f /\ fdOf[q] \in Fd
        BY <1>7, <2>1, <3>2 DEF IInv, TypeOK, DistinctFds
      <4> QED
        BY <1>7, <1>9, <2>1, <3>2, <4>1 DEF IInv, IndexMatchesKernel
    <3> QED
      BY <3>1, <3>2
  <2>2. ASSUME NEW g \in Fd, Registered(g)'
        PROVE  \/ object'[epoll'[g].ptr] # NoChannel /\ fdOf'[epoll'[g].ptr] = g
               \/ g \in stray'
    <3>1. CASE g = f
      BY <1>5, <1>7, <1>10, <1>11, <2>2, <3>1 DEF EpollEntry
    <3>2. CASE g # f
      BY <1>5, <1>7, <1>9, <2>2, <3>2
         DEF IInv, TypeOK, IndexMatchesKernel, EpollEntry
    <3> QED
      BY <3>1, <3>2
  <2> QED
    BY <2>1, <2>2 DEF IndexMatchesKernel
<1>15. MapMatchesIndex'
  <2>1. ASSUME NEW q \in ChannelPtr, Live(q)', object'[q].index # "kNew"
        PROVE  channels'[fdOf'[q]] = q
    <3>1. CASE q = p
      BY <1>7, <1>10, <3>1 DEF IInv, MapMatchesIndex
    <3>2. CASE q # p
      <4>1. fdOf[q] # f /\ fdOf[q] \in Fd
        BY <1>7, <2>1, <3>2 DEF IInv, TypeOK, DistinctFds
      <4> QED
        BY <1>7, <1>9, <2>1, <3>2, <4>1 DEF IInv, MapMatchesIndex
    <3> QED
      BY <3>1, <3>2
  <2>2. ASSUME NEW g \in Fd, channels'[g] # NoChannel
        PROVE  \/ /\ object'[channels'[g]] # NoChannel
                  /\ fdOf'[channels'[g]] = g
                  /\ object'[channels'[g]].index # "kNew"
               \/ g \in stray'
    <3>1. \/ channels'[g] = channels[g] /\ (g \in stray => g \in stray')
          \/ channels'[g] = p /\ g = f
      BY <1>5, <1>9, <1>10
    <3>2. CASE channels'[g] = p /\ g = f
      BY <1>6, <1>7, <1>8, <3>2
    <3>3. CASE channels'[g] = channels[g] /\ (g \in stray => g \in stray')
      <4>1. channels[g] \in ChannelPtr
        BY <2>2, <3>3 DEF IInv, TypeOK
      <4> QED
        BY <1>6, <1>7, <1>8, <2>2, <3>3, <4>1 DEF IInv, MapMatchesIndex
    <3> QED
      BY <3>1, <3>2, <3>3
  <2> QED
    BY <2>1, <2>2 DEF MapMatchesIndex
<1>16. ActiveInPoller'
  BY <1>5, <1>6, <1>7, <1>8 DEF IInv, TypeOK, ActiveInPoller
<1> QED
  BY <1>4, <1>12, <1>13, <1>14, <1>15, <1>16 DEF IInv, EpollCtlSucceeds

LEMMA RemoveKeepsIInv ==
    ASSUME IInv, NEW p \in ChannelPtr, RemoveChannel(p)
    PROVE  IInv'
<1> DEFINE f == fdOf[p]
<1> USE DEF Live, Registered
<1>1. f \in Fd /\ object[p] \in Channel /\ Live(p)
  BY DEF IInv, TypeOK, RemoveChannel
<1>2. object[p].index = "kAdded" => Registered(f)
  <2>1. [ptr |-> p, events |-> object[p].events] \in EpollEntry
    BY <1>1 DEF EpollEntry, Channel
  <2> QED
    BY <1>1, <2>1, NoChannelAssumption DEF IInv, IndexMatchesKernel
<1>3. object[p].index # "kAdded" => ~Registered(f)
  BY <1>1 DEF IInv, IndexMatchesKernel
\* Either way the kernel ends up without the descriptor.
<1>4. epollError' = epollError /\ epoll' = [epoll EXCEPT ![f] = NoChannel]
  <2>1. CASE object[p].index = "kAdded"
    BY <1>2, <2>1 DEF RemoveChannel, Ctl, Refused
  <2>2. CASE object[p].index # "kAdded"
    BY <1>1, <1>3, <2>2 DEF RemoveChannel, IInv, TypeOK
  <2> QED
    BY <2>1, <2>2
<1>5. /\ object' = [object EXCEPT ![p] = Removed(object[p])]
      /\ channels' = [channels EXCEPT ![f] = NoChannel]
      /\ stray' = stray \ {f}
      /\ UNCHANGED <<fdOf, eventListSize, activeChannels, phase, lost>>
  BY DEF RemoveChannel, NoLongerStray
<1>6. Removed(object[p]) \in Channel /\ Removed(object[p]).index = "kNew"
  BY <1>1 DEF Removed, Channel, Index
<1>7. \A q \in ChannelPtr :
         /\ Live(q)' <=> Live(q)
         /\ q # p => object'[q] = object[q]
         /\ fdOf'[q] = fdOf[q]
  BY <1>1, <1>5, <1>6, NoChannelAssumption DEF IInv, TypeOK
<1>8. object'[p] = Removed(object[p])
  BY <1>5 DEF IInv, TypeOK
<1>9. \A g \in Fd : g # f => epoll'[g] = epoll[g] /\ channels'[g] = channels[g]
  BY <1>1, <1>4, <1>5 DEF IInv, TypeOK
<1>10. epoll'[f] = NoChannel /\ channels'[f] = NoChannel
  BY <1>1, <1>4, <1>5 DEF IInv, TypeOK
<1>11. TypeOK'
  BY <1>1, <1>4, <1>5, <1>6 DEF IInv, TypeOK
<1>12. DistinctFds'
  BY <1>7 DEF IInv, DistinctFds
<1>13. IndexMatchesKernel' /\ MapMatchesIndex'
  <2>1. ASSUME NEW q \in ChannelPtr, Live(q)', q # p
        PROVE  fdOf[q] # f /\ fdOf[q] \in Fd /\ Live(q)
    BY <1>1, <1>7, <2>1 DEF IInv, TypeOK, DistinctFds
  <2>2. ASSUME NEW q \in ChannelPtr, Live(q)'
        PROVE  /\ IF object'[q].index = "kAdded"
                  THEN epoll'[fdOf'[q]]
                          = [ptr |-> q, events |-> object'[q].events]
                  ELSE epoll'[fdOf'[q]] = NoChannel
               /\ object'[q].index # "kNew" => channels'[fdOf'[q]] = q
    <3>1. CASE q = p
      BY <1>6, <1>7, <1>8, <1>10, <3>1
    <3>2. CASE q # p
      BY <1>7, <1>9, <2>1, <2>2, <3>2
         DEF IInv, IndexMatchesKernel, MapMatchesIndex
    <3> QED
      BY <3>1, <3>2
  <2>3. ASSUME NEW g \in Fd, Registered(g)'
        PROVE  \/ object'[epoll'[g].ptr] # NoChannel /\ fdOf'[epoll'[g].ptr] = g
               \/ g \in stray'
    BY <1>5, <1>7, <1>9, <1>10, <2>3
       DEF IInv, TypeOK, IndexMatchesKernel, EpollEntry
  <2>4. ASSUME NEW g \in Fd, channels'[g] # NoChannel
        PROVE  \/ /\ object'[channels'[g]] # NoChannel
                  /\ fdOf'[channels'[g]] = g
                  /\ object'[channels'[g]].index # "kNew"
               \/ g \in stray'
    <3>1. g # f /\ channels'[g] = channels[g] /\ channels[g] \in ChannelPtr
      BY <1>9, <1>10, <2>4 DEF IInv, TypeOK
    <3>2. \/ /\ Live(channels[g])
             /\ fdOf[channels[g]] = g
             /\ object[channels[g]].index # "kNew"
          \/ g \in stray
      BY <2>4, <3>1 DEF IInv, MapMatchesIndex
    <3> QED
      BY <1>5, <1>7, <3>1, <3>2
  <2> QED
    BY <2>2, <2>3, <2>4 DEF IndexMatchesKernel, MapMatchesIndex
\* Functors run when activeChannels_ is empty.
<1>14. ActiveInPoller'
  BY <1>5 DEF IInv, TypeOK, ActiveInPoller, RemoveChannel, MayRemove
<1> QED
  BY <1>4, <1>11, <1>12, <1>13, <1>14 DEF IInv, EpollCtlSucceeds

LEMMA CreateKeepsIInv ==
    ASSUME IInv, NEW p \in ChannelPtr, NEW f \in Fd, Create(p, f)
    PROVE  IInv'
<1> USE DEF Live, Registered
<1>1. /\ object' = [object EXCEPT ![p] = NewChannel]
      /\ fdOf' = [fdOf EXCEPT ![p] = f]
      /\ UNCHANGED <<channels, epoll, epollError, eventListSize,
                     activeChannels, phase, stray, lost>>
      /\ ~Live(p)
      /\ ~Registered(f)
      /\ \A q \in ChannelPtr : Live(q) => fdOf[q] # f
  BY DEF Create, history
<1>2. /\ NewChannel \in Channel
      /\ NewChannel.index = "kNew"
      /\ NewChannel # NoChannel
  BY NoChannelAssumption DEF NewChannel, Channel, Index
<1>3. /\ \A q \in ChannelPtr : q # p => /\ object'[q] = object[q]
                                       /\ fdOf'[q] = fdOf[q]
      /\ object'[p] = NewChannel /\ fdOf'[p] = f
  BY <1>1 DEF IInv, TypeOK
<1>4. TypeOK'
  BY <1>1, <1>2 DEF IInv, TypeOK
<1>5. DistinctFds'
  BY <1>1, <1>3 DEF IInv, DistinctFds
<1>6. IndexMatchesKernel'
  <2>1. ASSUME NEW q \in ChannelPtr, Live(q)'
        PROVE  IF object'[q].index = "kAdded"
               THEN epoll'[fdOf'[q]] = [ptr |-> q, events |-> object'[q].events]
               ELSE epoll'[fdOf'[q]] = NoChannel
    <3>1. CASE q = p
      BY <1>1, <1>2, <1>3, <3>1
    <3>2. CASE q # p
      BY <1>1, <1>3, <2>1, <3>2 DEF IInv, IndexMatchesKernel
    <3> QED
      BY <3>1, <3>2
  <2>2. ASSUME NEW g \in Fd, Registered(g)'
        PROVE  \/ object'[epoll'[g].ptr] # NoChannel /\ fdOf'[epoll'[g].ptr] = g
               \/ g \in stray'
    <3>1. /\ epoll[g].ptr \in ChannelPtr
          /\ \/ Live(epoll[g].ptr) /\ fdOf[epoll[g].ptr] = g
             \/ g \in stray
      BY <1>1, <2>2 DEF IInv, TypeOK, IndexMatchesKernel, EpollEntry
    <3> QED
      BY <1>1, <1>3, <3>1
  <2> QED
    BY <2>1, <2>2 DEF IndexMatchesKernel
<1>7. MapMatchesIndex'
  <2>1. ASSUME NEW q \in ChannelPtr, Live(q)', object'[q].index # "kNew"
        PROVE  channels'[fdOf'[q]] = q
    BY <1>1, <1>2, <1>3, <2>1 DEF IInv, MapMatchesIndex
  <2>2. ASSUME NEW g \in Fd, channels'[g] # NoChannel
        PROVE  \/ /\ object'[channels'[g]] # NoChannel
                  /\ fdOf'[channels'[g]] = g
                  /\ object'[channels'[g]].index # "kNew"
               \/ g \in stray'
    <3>1. channels[g] \in ChannelPtr /\ (channels[g] # p \/ g \in stray)
      BY <1>1, <2>2 DEF IInv, TypeOK, MapMatchesIndex
    <3> QED
      BY <1>1, <1>3, <2>2, <3>1 DEF IInv, MapMatchesIndex
  <2> QED
    BY <2>1, <2>2 DEF MapMatchesIndex
<1>8. ActiveInPoller'
  BY <1>1, <1>3 DEF IInv, TypeOK, ActiveInPoller
<1> QED
  BY <1>1, <1>4, <1>5, <1>6, <1>7, <1>8 DEF IInv, EpollCtlSucceeds

LEMMA DestroyKeepsIInv ==
    ASSUME IInv, NEW p \in ChannelPtr, Destroy(p)
    PROVE  IInv'
<1> DEFINE f == fdOf[p]
<1> USE DEF Live, Registered
<1>1. /\ object' = [object EXCEPT ![p] = NoChannel]
      /\ UNCHANGED <<fdOf, channels, epoll, epollError, eventListSize,
                     activeChannels, phase>>
      /\ Live(p)
  BY DEF Destroy
<1>2. /\ stray' = IF object[p].index = "kNew" THEN stray ELSE stray \cup {f}
      /\ lost' = IF object[p].index = "kNew" THEN lost
                 ELSE lost \cup ({p} \cap activeChannels)
  BY DEF Destroy, history
<1>3. f \in Fd
  BY DEF IInv, TypeOK
<1>4. /\ \A q \in ChannelPtr : q # p => object'[q] = object[q]
      /\ object'[p] = NoChannel
  BY <1>1 DEF IInv, TypeOK
<1>5. TypeOK'
  BY <1>1, <1>2, <1>3 DEF IInv, TypeOK
<1>6. DistinctFds'
  BY <1>1, <1>4 DEF IInv, DistinctFds
\* What still points to p is under its descriptor, which is stray if there is
\* anything there.
<1>7. IndexMatchesKernel'
  <2>1. \A q \in ChannelPtr : Live(q)' => q # p /\ Live(q)
    BY <1>4
  <2>2. ASSUME NEW g \in Fd, Registered(g)'
        PROVE  \/ object'[epoll'[g].ptr] # NoChannel /\ fdOf'[epoll'[g].ptr] = g
               \/ g \in stray'
    <3>1. epoll[g].ptr \in ChannelPtr /\ Registered(g)
      BY <1>1, <2>2 DEF IInv, TypeOK, EpollEntry
    <3>2. CASE epoll[g].ptr = p
      <4>1. g = f \/ g \in stray
        BY <3>1, <3>2 DEF IInv, IndexMatchesKernel
      <4>2. g = f => object[p].index # "kNew"
        BY <1>1, <3>1 DEF IInv, IndexMatchesKernel
      <4> QED
        BY <1>2, <4>1, <4>2
    <3>3. CASE epoll[g].ptr # p
      BY <1>1, <1>2, <1>4, <3>1, <3>3 DEF IInv, IndexMatchesKernel
    <3> QED
      BY <3>2, <3>3
  <2> QED
    BY <1>1, <1>4, <2>1, <2>2 DEF IInv, IndexMatchesKernel
<1>8. MapMatchesIndex'
  <2>1. ASSUME NEW g \in Fd, channels'[g] # NoChannel
        PROVE  \/ /\ object'[channels'[g]] # NoChannel
                  /\ fdOf'[channels'[g]] = g
                  /\ object'[channels'[g]].index # "kNew"
               \/ g \in stray'
    <3>1. channels[g] \in ChannelPtr
      BY <1>1, <2>1 DEF IInv, TypeOK
    <3>2. \/ /\ Live(channels[g])
             /\ fdOf[channels[g]] = g
             /\ object[channels[g]].index # "kNew"
          \/ g \in stray
      BY <1>1, <2>1 DEF IInv, MapMatchesIndex
    <3> QED
      BY <1>1, <1>2, <1>4, <3>1, <3>2
  <2> QED
    BY <1>1, <1>4, <2>1 DEF IInv, MapMatchesIndex
<1>9. ActiveInPoller'
  BY <1>1, <1>2, <1>4 DEF IInv, TypeOK, ActiveInPoller
<1> QED
  BY <1>1, <1>5, <1>6, <1>7, <1>8, <1>9 DEF IInv, EpollCtlSucceeds

LEMMA CloseKeepsIInv ==
    ASSUME IInv, NEW f \in Fd, Close(f)
    PROVE  IInv'
<1> USE DEF Live, Registered
<1>1. /\ epoll' = [epoll EXCEPT ![f] = NoChannel]
      /\ UNCHANGED <<object, fdOf, channels, epollError, eventListSize,
                     activeChannels, phase, stray, lost>>
      /\ \A p \in ChannelPtr : Live(p) => fdOf[p] # f
  BY DEF Close, history
<1>2. /\ \A g \in Fd : g # f => epoll'[g] = epoll[g]
      /\ epoll'[f] = NoChannel
  BY <1>1 DEF IInv, TypeOK
<1>3. TypeOK' /\ DistinctFds' /\ MapMatchesIndex' /\ ActiveInPoller'
  BY <1>1 DEF IInv, TypeOK, DistinctFds, MapMatchesIndex, ActiveInPoller
<1>4. IndexMatchesKernel'
  <2>1. \A p \in ChannelPtr : Live(p) => fdOf[p] \in Fd /\ fdOf[p] # f
    BY <1>1 DEF IInv, TypeOK
  <2> QED
    BY <1>1, <1>2, <2>1 DEF IInv, IndexMatchesKernel
<1> QED
  BY <1>1, <1>3, <1>4 DEF IInv, EpollCtlSucceeds

\* The steps of loop() leave the tables alone.
LEMMA LoopKeepsIInv ==
    ASSUME IInv,
           UNCHANGED <<object, fdOf, channels, epoll, epollError, stray>>,
           TypeOK', ActiveInPoller'
    PROVE  IInv'
<1>1. DistinctFds'
  BY DEF IInv, DistinctFds, Live
<1>2. IndexMatchesKernel'
  BY DEF IInv, IndexMatchesKernel, Live, Registered
<1>3. MapMatchesIndex' /\ EpollCtlSucceeds'
  BY DEF IInv, MapMatchesIndex, Live, EpollCtlSucceeds
<1> QED
  BY <1>1, <1>2, <1>3 DEF IInv

LEMMA PollKeepsIInv == ASSUME IInv, Poll PROVE IInv'
<1>1. PICK ready \in SUBSET {f \in Fd : Registered(f)} :
         /\ IF ready \cap stray # {} THEN Undefined
            ELSE /\ activeChannels' = {epoll[f].ptr : f \in ready}
                 /\ phase' = "dispatch"
                 /\ UNCHANGED lost
         /\ eventListSize' = IF Cardinality(ready) = eventListSize
                             THEN 2 * eventListSize ELSE eventListSize
  BY DEF Poll
<1>2. eventListSize' \in Nat \ {0}
  BY <1>1 DEF IInv, TypeOK
<1>3. lost = {}
  BY DEF IInv, TypeOK, Poll
<1>4. CASE ready \cap stray # {}
  <2>1. TypeOK' /\ ActiveInPoller'
    BY <1>1, <1>2, <1>4 DEF IInv, TypeOK, Poll, Undefined, ActiveInPoller
  <2> QED
    BY <2>1, LoopKeepsIInv DEF Poll
\* A registered descriptor that is not stray belongs to a live channel with
\* index kAdded.
<1>5. CASE ready \cap stray = {}
  <2>1. TypeOK'
    <3>1. activeChannels' \subseteq ChannelPtr
      BY <1>1, <1>5 DEF IInv, TypeOK, Registered, EpollEntry
    <3> QED
      BY <1>1, <1>2, <1>3, <1>5, <3>1 DEF IInv, TypeOK, Poll
  <2>2. ASSUME NEW f \in ready
        PROVE  Live(epoll[f].ptr) /\ object[epoll[f].ptr].index # "kNew"
    <3> DEFINE q == epoll[f].ptr
    <3>1. f \in Fd /\ Registered(f) /\ f \notin stray
      BY <1>5, <2>2
    <3>2. q \in ChannelPtr
      BY <3>1 DEF IInv, TypeOK, Registered, EpollEntry
    <3>3. Live(q) /\ fdOf[q] = f
      BY <3>1 DEF IInv, IndexMatchesKernel
    <3>4. object[q].index = "kAdded"
      BY <3>1, <3>2, <3>3 DEF IInv, IndexMatchesKernel
    <3> QED
      BY <3>3, <3>4
  <2>3. ActiveInPoller'
    BY <1>1, <1>5, <2>2 DEF ActiveInPoller, Poll, Live
  <2> QED
    BY <2>1, <2>3, LoopKeepsIInv DEF Poll
<1> QED
  BY <1>4, <1>5

(* The tables of the poller and the kernel agree, no epoll_ctl fails and no   *)
(* active pointer dangles, however the handlers and functors use channels, up *)
(* to what a channel leaves behind that is destroyed without being removed.   *)
THEOREM PollerCorrect == Spec => []IInv
<1>1. Init => IInv
  BY InitIInv
<1>2. IInv /\ [Next]_vars => IInv'
  <2> SUFFICES ASSUME IInv, [Next]_vars PROVE IInv'
    OBVIOUS
  <2>1. ASSUME NEW p \in ChannelPtr, ChangeEvents(p) PROVE IInv'
    <3>1. object[p] \in Channel /\ Live(p)
      BY <2>1 DEF ChangeEvents, IInv, TypeOK, Live
    <3> QED
      BY <2>1, <3>1, UpdateKeepsIInv, EventsType DEF ChangeEvents
  <2>2. ASSUME NEW p \in ChannelPtr, RemoveChannel(p) PROVE IInv'
    BY <2>2, RemoveKeepsIInv
  <2>3. ASSUME NEW p \in ChannelPtr, Destroy(p) PROVE IInv'
    BY <2>3, DestroyKeepsIInv
  <2>4. ASSUME NEW p \in ChannelPtr, NEW f \in Fd, Create(p, f) PROVE IInv'
    BY <2>4, CreateKeepsIInv
  <2>5. ASSUME NEW f \in Fd, Close(f) PROVE IInv'
    BY <2>5, CloseKeepsIInv
  <2>6. ASSUME NEW p \in ChannelPtr, HandleEvent(p) PROVE IInv'
    <3>1. TypeOK' /\ ActiveInPoller'
      BY <2>6 DEF HandleEvent, Undefined, IInv, TypeOK, ActiveInPoller, Live
    <3> QED
      BY <2>6, <3>1, LoopKeepsIInv DEF HandleEvent
  <2>7. CASE Poll
    BY <2>7, PollKeepsIInv
  <2>8. CASE HandlerReturns \/ RunFunctors \/ NextIteration
    <3>1. TypeOK' /\ ActiveInPoller'
      BY <2>8 DEF HandlerReturns, RunFunctors, NextIteration, history,
                  IInv, TypeOK, ActiveInPoller, Live
    <3> QED
      BY <2>8, <3>1, LoopKeepsIInv
         DEF HandlerReturns, RunFunctors, NextIteration, history
  <2>9. CASE UNCHANGED vars
    <3>1. TypeOK' /\ ActiveInPoller'
      BY <2>9 DEF vars, history, IInv, TypeOK, ActiveInPoller, Live
    <3> QED
      BY <2>9, <3>1, LoopKeepsIInv DEF vars, history
  <2> QED
    BY <2>1, <2>2, <2>3, <2>4, <2>5, <2>6, <2>7, <2>8, <2>9 DEF Next
<1> QED
  BY <1>1, <1>2, PTL DEF Spec

(* Every variable has its type, whatever channels and descriptors there are.  *)
THEOREM TypeCorrect == Spec => []TypeOK
<1>1. IInv => TypeOK
  BY DEF IInv
<1> QED
  BY <1>1, PollerCorrect, PTL

(* The index of every channel says what the kernel has for its descriptor.    *)
THEOREM IndexIsRight == Spec => []IndexMatchesKernel
<1>1. IInv => IndexMatchesKernel
  BY DEF IInv
<1> QED
  BY <1>1, PollerCorrect, PTL

(* The LOG_FATAL of EPollPoller::update is never reached.                     *)
THEOREM EpollCtlNeverFails == Spec => []EpollCtlSucceeds
<1>1. IInv => EpollCtlSucceeds
  BY DEF IInv
<1> QED
  BY <1>1, PollerCorrect, PTL

(* channels_ has every updated channel under its descriptor, and an entry     *)
(* that is none is what a channel destroyed in the poller has left.           *)
THEOREM MapIsRight == Spec => []MapMatchesIndex
<1>1. IInv => MapMatchesIndex
  BY DEF IInv
<1> QED
  BY <1>1, PollerCorrect, PTL

(* A removed channel can be destroyed at any time: loop() never calls         *)
(* handleEvent through its pointer.                                           *)
THEOREM ActiveChannelsLive == Spec => []NoDanglingChannel
<1>1. IInv => NoDanglingChannel
  BY DEF IInv, ActiveInPoller, NoDanglingChannel
<1> QED
  BY <1>1, PollerCorrect, PTL
=============================================================================
