-------------------------- MODULE TcpConnectionProofs --------------------------
(***************************************************************************)
(* Proofs about TcpConnection.tla for any set of threads that share the    *)
(* connection, any number of calls and any sizes.                          *)
(***************************************************************************)
EXTENDS TcpConnection, SequenceTheorems, TLAPS

-----------------------------------------------------------------------------
(* What every member function keeps of the connection it is called on. *)

Scheduled(c) == c.down = 0 => (isWriting(c.chan) <=> c.output > 0)

NotCutOff(c) == c.wrShut /\ c.down = 0 => c.output = 0

InMapUntilDown(c) == c.inMap /\ c.removals = 0 <=> c.down = 0

\* connectDestoryed is queued only by the removal, which follows the end.
NotDestroyedEarly(c, s) == c.down = 0 => "connectDestoryed" \notin Elements(s)

Good(c) ==
    /\ c \in Connection
    /\ Scheduled(c) /\ NotCutOff(c)
    /\ NotDestroyedEarly(c, c.tasks)

\* A call that leaves the end of the connection alone.
Keeps(c, d) ==
    /\ Good(d) /\ d.down = c.down /\ d.inMap = c.inMap /\ d.removals = c.removals
    /\ c.reopened => d.reopened

\* What a call on the thread of the loop queues is bound to a pointer.
Shares(c, d) == Elements(d.tasks) \subseteq Elements(c.tasks) \cup SharedFunctor

GoodCall(c, d) == Keeps(c, d) /\ Shares(c, d)

IInv ==
    /\ TypeOK
    /\ Good(conn) /\ InMapUntilDown(conn)
    /\ NotDestroyedEarly(conn, batch)

-----------------------------------------------------------------------------
(* Sequences and channels. *)

LEMMA ElementsOfAppend ==
    ASSUME NEW S, NEW s \in Seq(S), NEW e
    PROVE  Elements(Append(s, e)) = Elements(s) \cup {e}
BY AppendProperties, LenProperties DEF Elements

LEMMA ElementsOfTail ==
    ASSUME NEW S, NEW s \in Seq(S), s # <<>>
    PROVE  /\ Elements(Tail(s)) \subseteq Elements(s)
           /\ Head(s) \in Elements(s)
           /\ Head(s) \in S /\ Tail(s) \in Seq(S)
<1>1. /\ Head(s) = s[1] /\ Tail(s) \in Seq(S) /\ Head(s) \in S
      /\ Len(Tail(s)) = Len(s) - 1
      /\ \A i \in 1..Len(Tail(s)) : Tail(s)[i] = s[i + 1]
  BY HeadTailProperties
<1>2. Len(s) \in Nat \ {0} /\ DOMAIN s = 1..Len(s)
      /\ DOMAIN Tail(s) = 1..Len(Tail(s))
  BY <1>1, EmptySeq, LenProperties
<1>3. \A i \in DOMAIN Tail(s) : i + 1 \in DOMAIN s /\ Tail(s)[i] = s[i + 1]
  BY <1>1, <1>2
<1> QED
  BY <1>1, <1>2, <1>3 DEF Elements

LEMMA ElementsHeadTail ==
    ASSUME NEW S, NEW s \in Seq(S), s # <<>>
    PROVE  Elements(s) \subseteq {Head(s)} \cup Elements(Tail(s))
<1>1. /\ Tail(s) \in Seq(S) /\ Len(Tail(s)) = Len(s) - 1
      /\ \A i \in 1..Len(Tail(s)) : Tail(s)[i] = s[i + 1]
      /\ Head(s) = s[1]
  BY HeadTailProperties
<1>2. /\ Len(s) \in Nat \ {0} /\ DOMAIN s = 1..Len(s)
      /\ DOMAIN Tail(s) = 1..Len(s) - 1
  BY <1>1, EmptySeq, LenProperties
<1>3. \A i \in DOMAIN s :
         i = 1 \/ (i - 1 \in DOMAIN Tail(s) /\ Tail(s)[i - 1] = s[i])
  BY <1>1, <1>2
<1> QED
  BY <1>1, <1>3 DEF Elements

LEMMA ChannelOperations ==
    ASSUME NEW ch \in Channel
    PROVE  /\ Updated(EnableReading(ch)) \in Channel
           /\ isWriting(Updated(EnableReading(ch))) <=> isWriting(ch)
           /\ Updated(EnableWriting(ch)) \in Channel
           /\ isWriting(Updated(EnableWriting(ch)))
           /\ Updated(DisableWriting(ch)) \in Channel
           /\ ~isWriting(Updated(DisableWriting(ch)))
           /\ Updated(DisableAll(ch)) \in Channel
           /\ Removed(ch) \in Channel
           /\ isWriting(Removed(ch)) <=> isWriting(ch)
<1>1. ASSUME NEW ev \in SUBSET Interest
      PROVE  /\ Updated(WithEvents(ch, ev)) \in Channel
             /\ Updated(WithEvents(ch, ev)).events = ev
  BY DEF Channel, Updated, WithEvents, UpdatedIndex, Index
<1>2. /\ ch.events \cup {"EPOLLIN"} \in SUBSET Interest
      /\ ch.events \cup {"EPOLLOUT"} \in SUBSET Interest
      /\ ch.events \ {"EPOLLOUT"} \in SUBSET Interest
      /\ {} \in SUBSET Interest
  BY DEF Channel, Interest
<1> QED
  BY <1>1, <1>2
     DEF EnableReading, EnableWriting, DisableWriting, DisableAll, isWriting,
         Removed, Channel, Index

LEMMA CallbacksType ==
    ASSUME NEW revents
    PROVE  Callbacks(revents) \in Seq({"accept", "close", "error", "read", "write"})
<1> DEFINE C == {"accept", "close", "error", "read", "write"}
<1>1. <<>> \in Seq(C) /\ \A x \in C : <<x>> \in Seq(C)
  OBVIOUS
<1>2. \A s, t \in Seq(C) : s \o t \in Seq(C)
  BY ConcatProperties
<1> QED
  BY <1>1, <1>2 DEF Callbacks

-----------------------------------------------------------------------------
(* The member functions. *)

LEMMA GoodQueue ==
    ASSUME NEW c, Good(c), NEW f \in Functor,
           f = "connectDestoryed" => c.down > 0
    PROVE  /\ Keeps(c, Queue(c, f))
           /\ f \in SharedFunctor => Shares(c, Queue(c, f))
<1>1. Append(c.tasks, f) \in Seq(Functor)
  BY AppendProperties DEF Good, Connection
<1>2. Queue(c, f) \in Connection
  BY <1>1 DEF Good, Connection, Queue
<1>3. Elements(Append(c.tasks, f)) = Elements(c.tasks) \cup {f}
  BY ElementsOfAppend DEF Good, Connection
<1>4. c.down = 0 => f # "connectDestoryed"
  BY DEF Good, Connection
<1> QED
  BY <1>2, <1>3, <1>4
     DEF Good, GoodCall, Keeps, Shares, Queue, Connection, Scheduled, NotCutOff,
         NotDestroyedEarly

LEMMA GoodNotify ==
    ASSUME NEW c, Good(c), NEW f \in {"writeComplete", "highWaterMark"},
           NEW d \in Notify(c, f)
    PROVE  GoodCall(c, d) /\ d.wrShut = c.wrShut /\ d.output = c.output
<1>1. GoodCall(c, Queue(c, f))
  BY GoodQueue DEF Functor, SharedFunctor, GoodCall
<1>2. Queue(c, f).wrShut = c.wrShut /\ Queue(c, f).output = c.output
  BY DEF Queue, Good, Connection
<1>3. GoodCall(c, c)
  BY DEF GoodCall, Keeps, Shares
<1> QED
  BY <1>1, <1>2, <1>3 DEF Notify

LEMMA GoodSetState ==
    ASSUME NEW c, Good(c), NEW s \in StateE
    PROVE  /\ GoodCall(c, SetState(c, s))
           /\ SetState(c, s).output = c.output
           /\ SetState(c, s).chan = c.chan
           /\ SetState(c, s).wrShut = c.wrShut
           /\ SetState(c, s).state = s
BY DEF Good, GoodCall, Keeps, Shares, SetState, Connection, Scheduled, NotCutOff,
       NotDestroyedEarly

\* Bytes are kept together with the interest in EPOLLOUT.
LEMMA GoodKept ==
    ASSUME NEW c, Good(c), NEW n \in Nat \ {0}, c.wrShut => c.down > 0
    PROVE  GoodCall(c, Kept(c, n))
<1> DEFINE d == [c EXCEPT !.output = @ + n]
           e == SetChannel(d, EnableWriting(d.chan))
           f == IF isWriting(d.chan) THEN d ELSE e
           g == [f EXCEPT !.reopened = @ \/ f.down > 0]
<1>1. /\ d \in Connection /\ d.chan = c.chan /\ d.output = c.output + n
      /\ d.down = c.down /\ d.wrShut = c.wrShut /\ d.tasks = c.tasks
      /\ d.inMap = c.inMap /\ d.removals = c.removals
      /\ d.reopened = c.reopened
  BY DEF Good, Connection
<1>2. c \in Connection /\ c.output \in Nat /\ c.down \in Nat /\ c.chan \in Channel
  BY DEF Good, Connection
<1>3. Updated(EnableWriting(c.chan)) \in Channel
      /\ isWriting(Updated(EnableWriting(c.chan)))
  BY <1>2, ChannelOperations
<1> HIDE DEF d
<1>4. /\ e \in Connection /\ isWriting(e.chan) /\ e.output = c.output + n
      /\ e.down = c.down /\ e.wrShut = c.wrShut /\ e.tasks = c.tasks
      /\ e.inMap = c.inMap /\ e.removals = c.removals
      /\ e.reopened = c.reopened
  BY <1>1, <1>3 DEF SetChannel, Connection
<1> HIDE DEF e
<1>5. /\ f \in Connection /\ isWriting(f.chan) /\ f.output = c.output + n
      /\ f.down = c.down /\ f.wrShut = c.wrShut /\ f.tasks = c.tasks
      /\ f.inMap = c.inMap /\ f.removals = c.removals
      /\ f.reopened = c.reopened
  BY <1>1, <1>4
<1> HIDE DEF f
<1>6. \E b \in BOOLEAN : /\ g = [f EXCEPT !.reopened = b]
                         /\ f.reopened => b
  OBVIOUS
<1> HIDE DEF g
<1>7. /\ g \in Connection /\ isWriting(g.chan) /\ g.output = c.output + n
      /\ g.down = c.down /\ g.wrShut = c.wrShut /\ g.tasks = c.tasks
      /\ g.inMap = c.inMap /\ g.removals = c.removals
      /\ c.reopened => g.reopened
  BY <1>5, <1>6 DEF Connection
<1>8. GoodCall(c, g)
  BY <1>2, <1>7 DEF Good, GoodCall, Keeps, Shares, Scheduled, NotCutOff,
                    NotDestroyedEarly
<1>9. Kept(c, n) = g
  BY DEF Kept, d, e, f, g
<1> QED
  BY <1>8, <1>9

LEMMA GoodKeepRest ==
    ASSUME NEW c, Good(c), NEW n \in Nat \ {0}, c.wrShut => c.down > 0,
           NEW d \in KeepRest(c, n)
    PROVE  GoodCall(c, d)
<1>1. CASE d = Kept(c, n)
  BY <1>1, GoodKept
<1>2. ASSUME NEW e \in Notify(c, "highWaterMark"), d = Kept(e, n)
      PROVE  GoodCall(c, d)
  <2>1. GoodCall(c, e) /\ e.wrShut = c.wrShut
    BY <1>2, GoodNotify
  <2>2. GoodCall(e, Kept(e, n))
    BY <2>1, GoodKept DEF GoodCall, Keeps, Shares
  <2> QED
    BY <1>2, <2>1, <2>2 DEF GoodCall, Keeps, Shares
<1> QED
  BY <1>1, <1>2 DEF KeepRest

LEMMA GoodSendInLoop ==
    ASSUME NEW c, Good(c), NEW e \in SendInLoop(c)
    PROVE  GoodCall(c, e)
<1> DEFINE d == SetState(c, "kDisconnected")
<1>1. GoodCall(c, d) /\ d.output = c.output /\ d.chan = c.chan
                     /\ d.wrShut = c.wrShut
  BY GoodSetState DEF StateE
<1> HIDE DEF d
<1>2. Good(d) /\ d.down = c.down /\ d.output \in Nat /\ d.down \in Nat
  BY <1>1 DEF GoodCall, Keeps, Shares, Good, Connection
<1>3. ASSUME NEW n \in Nat \ {0}, d.wrShut => d.down > 0, e \in KeepRest(d, n)
      PROVE  GoodCall(c, e)
  <2>1. GoodCall(d, e)
    BY <1>2, <1>3, GoodKeepRest
  <2> QED
    BY <1>1, <2>1 DEF GoodCall, Keeps, Shares
<1>4. CASE isWriting(d.chan) \/ d.output > 0
  <2>1. d.wrShut => d.down > 0
    BY <1>2, <1>4 DEF Good, Scheduled, NotCutOff
  <2>2. e \in KeepRest(d, SendLen)
    BY <1>4 DEF SendInLoop, d
  <2> QED
    BY <1>3, <2>1, <2>2, LenAssumption
<1>5. CASE ~(isWriting(d.chan) \/ d.output > 0) /\ Broken(d)
  BY <1>1, <1>5 DEF SendInLoop, d
<1>6. CASE ~(isWriting(d.chan) \/ d.output > 0) /\ ~Broken(d)
  <2>1. d.wrShut => d.down > 0
    BY <1>6 DEF Broken
  <2>2. CASE e \in Notify(d, "writeComplete")
    BY <1>1, <1>2, <2>2, GoodNotify DEF GoodCall, Keeps, Shares
  <2>3. ASSUME NEW nwrote \in 0..SendLen - 1, e \in KeepRest(d, SendLen - nwrote)
        PROVE  GoodCall(c, e)
    <3>1. SendLen - nwrote \in Nat \ {0}
      BY LenAssumption
    <3> QED
      BY <1>3, <2>1, <2>3, <3>1
  <2> QED
    BY <1>6, <2>2, <2>3 DEF SendInLoop, d
<1> QED
  BY <1>4, <1>5, <1>6

LEMMA GoodShutdownInLoop ==
    ASSUME NEW c, Good(c)
    PROVE  GoodCall(c, ShutdownInLoop(c))
<1>1. CASE isWriting(c.chan)
  BY <1>1 DEF ShutdownInLoop, GoodCall, Keeps, Shares
<1>2. CASE ~isWriting(c.chan)
  <2> DEFINE d == [c EXCEPT !.wrShut = TRUE]
  <2>1. /\ d \in Connection /\ d.chan = c.chan /\ d.output = c.output
        /\ d.down = c.down /\ d.tasks = c.tasks
        /\ d.inMap = c.inMap /\ d.removals = c.removals
        /\ d.reopened = c.reopened
    BY DEF Good, Connection
  <2>2. c.output \in Nat
    BY DEF Good, Connection
  <2> HIDE DEF d
  <2>3. GoodCall(c, d)
    BY <1>2, <2>1, <2>2 DEF GoodCall, Keeps, Shares, Good, Scheduled, NotCutOff,
                            NotDestroyedEarly
  <2> QED
    BY <1>2, <2>3 DEF ShutdownInLoop, d
<1> QED
  BY <1>1, <1>2

LEMMA GoodShutdown ==
    ASSUME NEW c, Good(c)
    PROVE  GoodCall(c, Shutdown(c))
<1> DEFINE d == [c EXCEPT !.shutCalled = TRUE]
<1>1. GoodCall(c, d)
  BY DEF Good, GoodCall, Keeps, Shares, Connection, Scheduled, NotCutOff,
         NotDestroyedEarly
<1> HIDE DEF d
<1>2. GoodCall(d, SetState(d, "kDisconnecting"))
  BY <1>1, GoodSetState DEF GoodCall, Keeps, Shares, StateE
<1>3. GoodCall(SetState(d, "kDisconnecting"),
               ShutdownInLoop(SetState(d, "kDisconnecting")))
  BY <1>2, GoodShutdownInLoop DEF GoodCall, Keeps, Shares
<1> QED
  BY <1>1, <1>2, <1>3 DEF Shutdown, GoodCall, Keeps, Shares, d

LEMMA GoodSend ==
    ASSUME NEW c, Good(c), NEW d \in Send(c)
    PROVE  GoodCall(c, d)
BY GoodSendInLoop DEF Send, GoodCall, Keeps, Shares

LEMMA GoodUserCallback ==
    ASSUME NEW c, Good(c), NEW d \in UserCallback(c)
    PROVE  GoodCall(c, d)
<1>1. CASE d \in {c, Shutdown(c)} \cup Send(c)
  BY <1>1, GoodShutdown, GoodSend DEF GoodCall, Keeps, Shares
<1>2. ASSUME NEW e \in Send(c), d = Shutdown(e)
      PROVE  GoodCall(c, d)
  <2>1. GoodCall(c, e)
    BY <1>2, GoodSend
  <2>2. GoodCall(e, Shutdown(e))
    BY <2>1, GoodShutdown DEF GoodCall, Keeps, Shares
  <2> QED
    BY <1>2, <2>1, <2>2 DEF GoodCall, Keeps, Shares
<1> QED
  BY <1>1, <1>2 DEF UserCallback, OnMessage

LEMMA GoodConnectEstablished ==
    ASSUME NEW c, Good(c), NEW e \in ConnectEstablished(c)
    PROVE  GoodCall(c, e)
<1> DEFINE d == [SetChannel(SetState(c, "kConnected"), EnableReading(c.chan))
                    EXCEPT !.up = @ + 1]
<1>1. c \in Connection /\ c.chan \in Channel /\ c.up \in Nat
  BY DEF Good, Connection
<1>2. Updated(EnableReading(c.chan)) \in Channel
      /\ (isWriting(Updated(EnableReading(c.chan))) <=> isWriting(c.chan))
  BY <1>1, ChannelOperations
<1>3. /\ d \in Connection /\ (isWriting(d.chan) <=> isWriting(c.chan))
      /\ d.output = c.output /\ d.wrShut = c.wrShut
      /\ d.down = c.down /\ d.tasks = c.tasks
      /\ d.inMap = c.inMap /\ d.removals = c.removals
      /\ d.reopened = c.reopened
  <2> DEFINE g == SetState(c, "kConnected")
             ch == Updated(EnableReading(c.chan))
             h == [g EXCEPT !.chan = ch]
  <2>1. /\ g \in Connection /\ g.output = c.output /\ g.wrShut = c.wrShut
        /\ g.down = c.down /\ g.tasks = c.tasks
        /\ g.inMap = c.inMap /\ g.removals = c.removals
        /\ g.reopened = c.reopened
    BY <1>1 DEF SetState, Connection, StateE
  <2> HIDE DEF g, ch
  <2>2. /\ h \in Connection /\ h.chan = ch
        /\ h.output = c.output /\ h.wrShut = c.wrShut
        /\ h.down = c.down /\ h.tasks = c.tasks
        /\ h.inMap = c.inMap /\ h.removals = c.removals
        /\ h.reopened = c.reopened
    BY <1>2, <2>1 DEF Connection, ch
  <2> HIDE DEF h
  <2>3. d = [h EXCEPT !.up = @ + 1]
    BY DEF SetChannel, g, ch, h
  <2> HIDE DEF d
  <2>4. /\ d \in Connection /\ d.chan = ch
        /\ d.output = c.output /\ d.wrShut = c.wrShut
        /\ d.down = c.down /\ d.tasks = c.tasks
        /\ d.inMap = c.inMap /\ d.removals = c.removals
        /\ d.reopened = c.reopened
    BY <2>2, <2>3 DEF Connection
  <2> QED
    BY <1>2, <2>4 DEF ch
<1> HIDE DEF d
<1>4. GoodCall(c, d)
  BY <1>3 DEF Good, GoodCall, Keeps, Shares, Scheduled, NotCutOff,
              NotDestroyedEarly
<1>5. GoodCall(d, e)
  BY <1>4, GoodUserCallback DEF ConnectEstablished, GoodCall, Keeps, Shares, d
<1> QED
  BY <1>4, <1>5 DEF GoodCall, Keeps, Shares

\* The first half of connectDestoryed and of handleClose.
LEMMA Disconnected ==
    ASSUME NEW c \in Connection
    PROVE  LET d == SetChannel(SetState(c, "kDisconnected"), DisableAll(c.chan))
           IN  /\ d \in Connection
               /\ d.down = c.down /\ d.tasks = c.tasks
               /\ d.inMap = c.inMap /\ d.removals = c.removals
               /\ d.reopened = c.reopened
<1> DEFINE e == SetState(c, "kDisconnected")
           ch == Updated(DisableAll(c.chan))
<1>1. ch \in Channel
  BY ChannelOperations DEF Connection
<1>2. /\ e \in Connection /\ e.down = c.down /\ e.tasks = c.tasks
      /\ e.inMap = c.inMap /\ e.removals = c.removals
      /\ e.reopened = c.reopened
  BY DEF SetState, Connection, StateE
<1> HIDE DEF e, ch
<1>3. /\ [e EXCEPT !.chan = ch] \in Connection
      /\ [e EXCEPT !.chan = ch].down = e.down
      /\ [e EXCEPT !.chan = ch].tasks = e.tasks
      /\ [e EXCEPT !.chan = ch].inMap = e.inMap
      /\ [e EXCEPT !.chan = ch].removals = e.removals
  BY <1>1, <1>2 DEF Connection
<1> QED
  BY <1>2, <1>3 DEF SetChannel, e, ch

LEMMA GoodConnectDestoryed ==
    ASSUME NEW c, Good(c), c.down > 0
    PROVE  GoodCall(c, ConnectDestoryed(c))
<1> DEFINE d == IF c.state = "kConnected"
                THEN SetChannel(SetState(c, "kDisconnected"), DisableAll(c.chan))
                ELSE c
<1>1. c \in Connection
  BY DEF Good
<1>2. c.state # "kConnected" => d = c
  OBVIOUS
<1>3. /\ d \in Connection /\ d.down = c.down /\ d.tasks = c.tasks
      /\ d.inMap = c.inMap /\ d.removals = c.removals
      /\ d.reopened = c.reopened
  BY <1>1, <1>2, Disconnected
<1> HIDE DEF d
<1>4. Removed(d.chan) \in Channel
  BY <1>3, ChannelOperations DEF Connection
<1>5. ConnectDestoryed(c) = [d EXCEPT !.chan = Removed(@)]
  BY DEF ConnectDestoryed, d
<1>6. /\ ConnectDestoryed(c) \in Connection
      /\ ConnectDestoryed(c).down = c.down
      /\ ConnectDestoryed(c).tasks = c.tasks
      /\ ConnectDestoryed(c).inMap = c.inMap
      /\ ConnectDestoryed(c).removals = c.removals
      /\ ConnectDestoryed(c).reopened = c.reopened
  BY <1>3, <1>4, <1>5 DEF Connection
<1>7. c.down \in Nat
  BY <1>1 DEF Connection
<1> QED
  BY <1>6, <1>7 DEF Good, GoodCall, Keeps, Shares, Scheduled, NotCutOff,
              NotDestroyedEarly

\* handleClose and BaseLoop count the end before they call these.
LEMMA GoodRemoveConnectionInLoop ==
    ASSUME NEW c, Good(c), c.down > 0
    PROVE  /\ Good(RemoveConnectionInLoop(c))
           /\ RemoveConnectionInLoop(c).down = c.down
           /\ c.reopened => RemoveConnectionInLoop(c).reopened
           /\ Shares(c, RemoveConnectionInLoop(c))
           /\ InMapUntilDown(RemoveConnectionInLoop(c))
<1> DEFINE d == [c EXCEPT !.inMap = FALSE]
<1>1. /\ c.down \in Nat /\ d \in Connection /\ d.inMap = FALSE
      /\ d.down = c.down /\ d.chan = c.chan /\ d.output = c.output
      /\ d.wrShut = c.wrShut /\ d.tasks = c.tasks
      /\ d.reopened = c.reopened
  BY DEF Good, Connection
<1> HIDE DEF d
<1>2. Good(d)
  BY <1>1 DEF Good, Scheduled, NotCutOff, NotDestroyedEarly
<1>3. GoodCall(d, Queue(d, "connectDestoryed"))
  BY <1>1, <1>2, GoodQueue DEF Functor, SharedFunctor, GoodCall
<1>4. RemoveConnectionInLoop(c) = Queue(d, "connectDestoryed")
  BY DEF RemoveConnectionInLoop, d
<1> QED
  BY <1>1, <1>3, <1>4 DEF GoodCall, Keeps, Shares, InMapUntilDown

LEMMA GoodRemoveConnection ==
    ASSUME NEW c, Good(c), c.down > 0
    PROVE  /\ Good(RemoveConnection(c))
           /\ RemoveConnection(c).down = c.down
           /\ c.reopened => RemoveConnection(c).reopened
           /\ Shares(c, RemoveConnection(c))
           /\ InMapUntilDown(RemoveConnection(c))
<1>1. CASE c.atBase
  BY <1>1, GoodRemoveConnectionInLoop DEF RemoveConnection
<1>2. CASE ~c.atBase
  <2> DEFINE d == [c EXCEPT !.removals = @ + 1]
  <2>1. /\ c.removals \in Nat /\ c.down \in Nat
        /\ d.removals = c.removals + 1
        /\ d \in Connection /\ d.down = c.down /\ d.chan = c.chan
        /\ d.output = c.output /\ d.wrShut = c.wrShut /\ d.tasks = c.tasks
        /\ d.reopened = c.reopened
    BY DEF Good, Connection
  <2> HIDE DEF d
  <2>2. Good(d) /\ InMapUntilDown(d)
    BY <2>1 DEF Good, Scheduled, NotCutOff, InMapUntilDown, NotDestroyedEarly
  <2> QED
    BY <1>2, <2>1, <2>2 DEF RemoveConnection, Shares, d
<1> QED
  BY <1>1, <1>2

LEMMA GoodHandleClose ==
    ASSUME NEW c, Good(c), NEW f \in HandleClose(c)
    PROVE  /\ Good(f) /\ f.down = c.down + 1 /\ InMapUntilDown(f)
           /\ c.reopened => f.reopened
           /\ Shares(c, f)
<1> DEFINE d == SetChannel(SetState(c, "kDisconnected"), DisableAll(c.chan))
           g == [d EXCEPT !.down = @ + 1]
<1>1. c \in Connection /\ c.down \in Nat
  BY DEF Good, Connection
<1>2. /\ d \in Connection /\ d.down = c.down /\ d.reopened = c.reopened
      /\ d.tasks = c.tasks
  BY <1>1, Disconnected
<1>3. /\ g \in Connection /\ g.down = c.down + 1 /\ g.reopened = c.reopened
      /\ g.tasks = c.tasks
  <2> HIDE DEF d
  <2>1. g = [d EXCEPT !.down = c.down + 1]
    BY <1>2
  <2>2. c.down + 1 \in Nat
    BY <1>1
  <2> QED
    BY <1>2, <2>1, <2>2 DEF Connection
<1>4. PICK e \in UserCallback(g) : f = RemoveConnection(e)
  BY DEF HandleClose
<1> HIDE DEF g
<1>5. Good(g) /\ g.down > 0
  BY <1>1, <1>3 DEF Good, Scheduled, NotCutOff, NotDestroyedEarly
<1>6. Good(e) /\ e.down = g.down /\ (g.reopened => e.reopened) /\ Shares(g, e)
  BY <1>5, GoodUserCallback DEF GoodCall, Keeps, Shares
<1> QED
  BY <1>3, <1>4, <1>5, <1>6, GoodRemoveConnection DEF Shares

\* handleWrite, when write() has taken n of the bytes that are left.
LEMMA GoodWritten ==
    ASSUME NEW c, Good(c), isWriting(c.chan), c.wrShut => c.down > 0,
           NEW n \in 1..c.output, NEW f \in Written(c, n)
    PROVE  GoodCall(c, f)
<1> DEFINE d == [c EXCEPT !.output = @ - n]
           e == SetChannel(d, DisableWriting(d.chan))
<1>1. c \in Connection /\ c.chan \in Channel /\ c.output \in Nat /\ c.down \in Nat
  BY DEF Good, Connection
<1>2. /\ d \in Connection /\ d.chan = c.chan /\ d.output = c.output - n
      /\ d.down = c.down /\ d.wrShut = c.wrShut /\ d.tasks = c.tasks
      /\ d.inMap = c.inMap /\ d.removals = c.removals
      /\ d.reopened = c.reopened
  BY <1>1 DEF Connection
<1>3. Updated(DisableWriting(c.chan)) \in Channel
      /\ ~isWriting(Updated(DisableWriting(c.chan)))
  BY <1>1, ChannelOperations
<1>4. f \in IF d.output > 0 THEN {d}
            ELSE {ShutdownIfAsked(g) : g \in Notify(e, "writeComplete")}
  BY DEF Written
<1> HIDE DEF d
<1>5. CASE d.output > 0
  <2>1. GoodCall(c, d)
    BY <1>1, <1>2, <1>5 DEF Good, GoodCall, Keeps, Shares, Scheduled, NotCutOff,
                            NotDestroyedEarly
  <2> QED
    BY <1>4, <1>5, <2>1
<1>6. CASE ~(d.output > 0)
  <2>1. d.output = 0
    BY <1>1, <1>2, <1>6
  <2>2. /\ e \in Connection /\ ~isWriting(e.chan) /\ e.output = 0
        /\ e.down = c.down /\ e.wrShut = c.wrShut /\ e.tasks = c.tasks
        /\ e.inMap = c.inMap /\ e.removals = c.removals
        /\ e.reopened = c.reopened
    BY <1>2, <1>3, <2>1 DEF SetChannel, Connection
  <2>3. PICK g \in Notify(e, "writeComplete") : f = ShutdownIfAsked(g)
    BY <1>4, <1>6
  <2> HIDE DEF e
  <2>4. GoodCall(c, e)
    BY <1>1, <2>2 DEF Good, GoodCall, Keeps, Shares, Scheduled, NotCutOff, NotDestroyedEarly
  <2>5. GoodCall(e, g)
    BY <2>4, GoodNotify DEF GoodCall, Keeps, Shares
  <2>6. GoodCall(g, f)
    BY <2>3, <2>5, GoodShutdownInLoop DEF ShutdownIfAsked, GoodCall, Keeps, Shares
  <2> QED
    BY <2>4, <2>5, <2>6 DEF GoodCall, Keeps, Shares
<1> QED
  BY <1>5, <1>6

LEMMA GoodHandleWrite ==
    ASSUME NEW c, Good(c), NEW d \in HandleWrite(c)
    PROVE  GoodCall(c, d)
<1>1. CASE isWriting(c.chan) /\ ~Broken(c)
  BY <1>1, GoodWritten DEF HandleWrite, Broken
<1>2. CASE ~(isWriting(c.chan) /\ ~Broken(c))
  BY <1>2 DEF HandleWrite, GoodCall, Keeps, Shares
<1> QED
  BY <1>1, <1>2

LEMMA GoodRun ==
    ASSUME NEW c, Good(c), NEW f \in Functor,
           f = "connectDestoryed" => c.down > 0, NEW d \in Run(f, c)
    PROVE  GoodCall(c, d)
BY GoodConnectEstablished, GoodConnectDestoryed, GoodSendInLoop,
   GoodShutdownInLoop, GoodUserCallback DEF Run

-----------------------------------------------------------------------------
(* The invariant. *)

\* A step whose effect on the connection is one of the calls above.
LEMMA CallKeepsInvariants ==
    ASSUME IInv, Keeps(conn, conn')
    PROVE  /\ Good(conn') /\ InMapUntilDown(conn')
           /\ conn'.down = conn.down
           /\ conn.reopened => conn'.reopened
BY DEF IInv, Keeps, InMapUntilDown

LEMMA InitIInv == Init => IInv
<1> SUFFICES ASSUME Init PROVE IInv
  OBVIOUS
<1>1. PICK atBase \in BOOLEAN : conn = NewConnection(atBase)
  BY DEF Init
<1>2. NewChannel \in Channel /\ ~isWriting(NewChannel)
  BY DEF NewChannel, Channel, isWriting, Index
<1>3. <<>> \in Seq(Functor) /\ <<"connectEstablished">> \in Seq(Functor)
  BY DEF Functor, SharedFunctor
<1>4. /\ conn \in Connection /\ conn.down = 0 /\ conn.output = 0
      /\ conn.wrShut = FALSE /\ conn.inMap = TRUE /\ conn.removals = 0
      /\ conn.chan = NewChannel
      /\ conn.tasks = <<>> \/ conn.tasks = <<"connectEstablished">>
  BY <1>1, <1>2, <1>3 DEF NewConnection, Connection, StateE
<1>5. Elements(conn.tasks) \subseteq {"connectEstablished"}
  BY <1>4 DEF Elements
<1>6. Good(conn) /\ InMapUntilDown(conn)
  BY <1>2, <1>4, <1>5
     DEF Good, Scheduled, NotCutOff, InMapUntilDown, NotDestroyedEarly
<1>7. TypeOK
  <2>1. net \in Net
    BY BoundsAssumption DEF Init, Net
  <2>2. calls \in [Users -> 0..MaxCalls]
    BY BoundsAssumption DEF Init
  <2>3. todo \in Seq({"accept", "close", "error", "read", "write"})
    <3> DEFINE C == {"accept", "close", "error", "read", "write"}
    <3>1. <<>> \in Seq(C) /\ \A x \in C : <<x>> \in Seq(C)
      OBVIOUS
    <3>2. todo = <<"accept">> \/ todo = <<>>
      BY DEF Init
    <3> QED
      BY <3>1, <3>2
  <2>4. batch = <<>> /\ batch \in Seq(Functor)
    BY <1>3 DEF Init
  <2> QED
    BY <1>4, <2>1, <2>2, <2>3, <2>4 DEF Init, TypeOK
<1>8. NotDestroyedEarly(conn, batch)
  BY DEF Init, NotDestroyedEarly, Elements
<1> QED
  BY <1>6, <1>7, <1>8 DEF IInv

\* Steps of the loop that call a member function.
LEMMA NextCallbackSteps ==
    ASSUME IInv,
           AcceptHere \/ HandleReadMessage \/ HandleReadError
                      \/ ErrorCallback \/ WriteCallback
    PROVE  GoodCall(conn, conn')
<1>1. Good(conn) /\ GoodCall(conn, conn)
  BY DEF IInv, GoodCall, Keeps, Shares
<1>2. CASE AcceptHere
  BY <1>1, <1>2, GoodConnectEstablished DEF AcceptHere
<1>3. CASE HandleReadMessage
  BY <1>1, <1>3, GoodUserCallback DEF HandleReadMessage
<1>4. CASE HandleReadError \/ ErrorCallback
  <2>1. conn' = conn
    BY <1>4 DEF HandleReadError, ErrorCallback
  <2> QED
    BY <1>1, <2>1
<1>5. CASE WriteCallback
  BY <1>1, <1>5, GoodHandleWrite DEF WriteCallback
<1> QED
  BY <1>2, <1>3, <1>4, <1>5

\* Every step keeps the connection good, queues connectDestoryed late enough,
\* and forgets nothing of its history.
LEMMA NextGood ==
    IInv /\ [Next]_vars =>
        /\ Good(conn') /\ InMapUntilDown(conn')
        /\ NotDestroyedEarly(conn', batch')
        /\ conn.reopened => conn'.reopened
<1> SUFFICES ASSUME IInv, [Next]_vars
             PROVE  /\ Good(conn') /\ InMapUntilDown(conn')
                    /\ NotDestroyedEarly(conn', batch')
                    /\ conn.reopened => conn'.reopened
  OBVIOUS
<1> DEFINE Kind == /\ Good(conn') /\ InMapUntilDown(conn')
                   /\ NotDestroyedEarly(conn', batch')
                   /\ conn.reopened => conn'.reopened
<1>1. /\ Good(conn) /\ InMapUntilDown(conn) /\ NotDestroyedEarly(conn, batch)
      /\ conn \in Connection /\ conn.down \in Nat /\ conn.removals \in Nat
      /\ conn.tasks \in Seq(Functor) /\ batch \in Seq(Functor)
      /\ GoodCall(conn, conn)
  BY DEF IInv, Good, Connection, GoodCall, Keeps, Shares, TypeOK
<1>2. ASSUME Keeps(conn, conn'), batch' = batch PROVE Kind
  BY <1>1, <1>2, CallKeepsInvariants DEF NotDestroyedEarly
<1>3. CASE AcceptHere \/ HandleReadMessage \/ HandleReadError
           \/ ErrorCallback \/ WriteCallback
  <2>1. batch' = batch
    BY <1>3 DEF AcceptHere, HandleReadMessage, HandleReadError, ErrorCallback,
                WriteCallback, Callback, NextCallback
  <2> QED
    BY <1>2, <1>3, <2>1, NextCallbackSteps DEF GoodCall
<1>4. CASE HandleReadClose \/ CloseCallback
  <2>1. conn' \in HandleClose(conn)
    BY <1>4 DEF HandleReadClose, CloseCallback
  <2>2. /\ Good(conn') /\ conn'.down = conn.down + 1 /\ InMapUntilDown(conn')
        /\ conn.reopened => conn'.reopened
    BY <1>1, <2>1, GoodHandleClose
  <2> QED
    BY <1>1, <2>2 DEF NotDestroyedEarly
<1>5. CASE StartBatch
  <2>1. /\ conn' \in Connection /\ conn'.down = conn.down
        /\ conn'.chan = conn.chan /\ conn'.output = conn.output
        /\ conn'.wrShut = conn.wrShut /\ conn'.inMap = conn.inMap
        /\ conn'.removals = conn.removals /\ conn'.tasks = <<>>
        /\ conn'.reopened = conn.reopened /\ batch' = conn.tasks
    <3>1. <<>> \in Seq(Functor)
      OBVIOUS
    <3>2. conn' = [conn EXCEPT !.tasks = <<>>] /\ batch' = conn.tasks
      BY <1>5 DEF StartBatch
    <3> QED
      BY <1>1, <3>1, <3>2 DEF Connection
  <2>2. NotDestroyedEarly(conn', conn'.tasks)
    BY <2>1 DEF NotDestroyedEarly, Elements
  <2> QED
    BY <1>1, <2>1, <2>2 DEF Good, Scheduled, NotCutOff, InMapUntilDown,
                            NotDestroyedEarly
<1>6. CASE RunFunctor
  <2>1. /\ Elements(Tail(batch)) \subseteq Elements(batch)
        /\ Head(batch) \in Elements(batch) /\ Head(batch) \in Functor
    BY <1>1, <1>6, ElementsOfTail DEF RunFunctor
  <2>2. Head(batch) = "connectDestoryed" => conn.down > 0
    BY <1>1, <2>1 DEF NotDestroyedEarly
  <2>3. GoodCall(conn, conn') /\ batch' = Tail(batch)
    BY <1>1, <1>6, <2>1, <2>2, GoodRun DEF RunFunctor
  <2> QED
    BY <1>1, <2>1, <2>3, CallKeepsInvariants DEF NotDestroyedEarly, GoodCall
<1>7. CASE BaseLoop
  <2> DEFINE c == [conn EXCEPT !.removals = @ - 1]
  <2>1. conn.removals > 0 /\ conn' = RemoveConnectionInLoop(c) /\ batch' = batch
    BY <1>7 DEF BaseLoop
  <2>2. conn.down > 0
    BY <1>1, <2>1 DEF InMapUntilDown
  <2>3. /\ c \in Connection /\ c.down = conn.down
        /\ c.chan = conn.chan /\ c.output = conn.output
        /\ c.wrShut = conn.wrShut /\ c.tasks = conn.tasks
        /\ c.reopened = conn.reopened
    BY <1>1, <2>1 DEF Connection
  <2> HIDE DEF c
  <2>4. Good(c)
    BY <1>1, <2>3 DEF Good, Scheduled, NotCutOff, NotDestroyedEarly
  <2>5. /\ Good(conn') /\ conn'.down = conn.down /\ InMapUntilDown(conn')
        /\ conn.reopened => conn'.reopened
    BY <2>1, <2>2, <2>3, <2>4, GoodRemoveConnectionInLoop
  <2> QED
    BY <1>1, <2>1, <2>5 DEF NotDestroyedEarly
<1>8. ASSUME NEW u \in Users, SendQueue(u) \/ ShutdownQueue(u) PROVE Kind
  <2>1. batch' = batch /\ \E f \in RawFunctor : conn' = Queue(conn, f)
    BY <1>8 DEF SendQueue, ShutdownQueue, UserStep, RawFunctor
  <2>2. Keeps(conn, conn')
    BY <1>1, <2>1, GoodQueue DEF RawFunctor, Functor
  <2> QED
    BY <1>2, <2>1, <2>2 DEF GoodCall
<1>9. ASSUME NEW u \in Users, ShutdownTest(u) PROVE Kind
  <2>1. conn' = [conn EXCEPT !.shutCalled = TRUE] /\ batch' = batch
    BY <1>9 DEF ShutdownTest, UserStep
  <2>2. GoodCall(conn, conn')
    BY <1>1, <2>1 DEF Good, GoodCall, Keeps, Shares, Connection, Scheduled, NotCutOff,
                      NotDestroyedEarly
  <2> QED
    BY <1>2, <2>1, <2>2 DEF GoodCall
<1>10. ASSUME NEW u \in Users, ShutdownSet(u) PROVE Kind
  <2>1. conn' = SetState(conn, "kDisconnecting") /\ batch' = batch
    BY <1>10 DEF ShutdownSet, UserStep
  <2> QED
    BY <1>1, <1>2, <2>1, GoodSetState DEF StateE, GoodCall
<1>11. CASE UNCHANGED <<conn, batch>>
  BY <1>1, <1>11
<1>12. ASSUME NEW u \in Users, SendTest(u) \/ DropPtr(u)
       PROVE  UNCHANGED <<conn, batch>>
  BY <1>12 DEF SendTest, DropPtr, UserStep
<1>13. ASSUME \/ \E room \in BOOLEAN : PollReports(room)
              \/ PollOther \/ BatchDone \/ BaseBatchDone \/ RunDangling
              \/ PeerSends \/ PeerCloses \/ PeerResets
              \/ UNCHANGED vars
       PROVE  UNCHANGED <<conn, batch>>
  BY <1>13 DEF PollReports, PollOther, BatchDone, BaseBatchDone, RunDangling,
               PeerSends, PeerCloses, PeerResets, Peer, vars
<1> QED
  BY <1>3, <1>4, <1>5, <1>6, <1>7, <1>8, <1>9, <1>10, <1>11, <1>12, <1>13
     DEF Next, LoopStep, FinishCall

LEMMA NextTypeOK ==
    ASSUME IInv, [Next]_vars, conn' \in Connection
    PROVE  TypeOK'
<1> DEFINE C == {"accept", "close", "error", "read", "write"}
<1> USE DEF IInv, TypeOK
<1>1. ASSUME NEW name, NextCallback(name), conn' \in Connection, net' \in Net,
             holds' \in [Users -> BOOLEAN]
      PROVE  TypeOK'
  <2>1. todo' \in Seq(C)
    BY <1>1, HeadTailProperties DEF NextCallback
  <2> QED
    BY <1>1, <2>1 DEF NextCallback
<1>2. net \in Net /\ [net EXCEPT !.err = FALSE] \in Net
  BY DEF Net
<1>3. CASE AcceptHere
  <2>1. net' \in Net /\ holds' \in [Users -> BOOLEAN]
    BY <1>3 DEF AcceptHere, HandOut
  <2> QED
    BY <1>1, <1>3, <2>1 DEF AcceptHere
<1>4. CASE HandleReadMessage
  <2>1. PICK n \in 1..net.data : net' = [net EXCEPT !.data = @ - n]
    BY <1>4 DEF HandleReadMessage
  <2>2. net.data \in 0..MaxData /\ net.data - n \in 0..MaxData
    BY BoundsAssumption DEF Net
  <2>3. net' \in Net
    BY <2>1, <2>2 DEF Net
  <2> QED
    BY <1>1, <1>4, <2>3 DEF HandleReadMessage, Callback
<1>5. CASE HandleReadError \/ ErrorCallback \/ HandleReadClose \/ CloseCallback
           \/ WriteCallback
  <2>1. net' \in Net /\ holds' = holds
    BY <1>2, <1>5 DEF HandleReadError, ErrorCallback, HandleReadClose,
                      CloseCallback, WriteCallback, Callback
  <2> QED
    BY <1>1, <1>5, <2>1 DEF HandleReadError, ErrorCallback, HandleReadClose,
                      CloseCallback, WriteCallback, Callback
<1>6. CASE StartBatch
  BY <1>6 DEF StartBatch, Connection
<1>7. CASE RunFunctor
  <2>1. batch' \in Seq(Functor)
    BY <1>7, ElementsOfTail DEF RunFunctor
  <2>2. holds' \in [Users -> BOOLEAN]
    BY <1>7 DEF RunFunctor, HandOut
  <2>3. ran' \subseteq Loop
    BY <1>7 DEF RunFunctor, Loop
  <2> QED
    BY <1>7, <2>1, <2>2, <2>3 DEF RunFunctor
<1>8. CASE BatchDone \/ RunDangling \/ BaseLoop \/ BaseBatchDone \/ PollOther
  BY <1>8 DEF BatchDone, RunDangling, BaseLoop, BaseBatchDone, PollOther, Loop,
              Alive
<1>9. ASSUME NEW room \in BOOLEAN, PollReports(room) PROVE TypeOK'
  BY <1>9, CallbacksType DEF PollReports
<1>10. ASSUME NEW u \in Users, SendTest(u) \/ ShutdownTest(u) PROVE TypeOK'
  <2>1. calls' \in [Users -> 0..MaxCalls]
    BY <1>10, BoundsAssumption DEF SendTest, ShutdownTest, EnterCall
  <2>2. at' \in [Users -> {"idle", "send", "set", "queue"}]
    BY <1>10 DEF SendTest, ShutdownTest, UserStep
  <2> QED
    BY <1>10, <2>1, <2>2 DEF SendTest, ShutdownTest, UserStep
<1>11. ASSUME NEW u \in Users, FinishCall(u) PROVE TypeOK'
  BY <1>11 DEF FinishCall, SendQueue, ShutdownSet, ShutdownQueue, UserStep
<1>12. ASSUME NEW u \in Users, DropPtr(u) PROVE TypeOK'
  BY <1>12 DEF DropPtr
<1>13. CASE PeerSends \/ PeerCloses \/ PeerResets
  <2>1. CASE PeerSends
    <3>1. net.data + 1 \in 0..MaxData /\ net' = [net EXCEPT !.data = @ + 1]
      BY <2>1, BoundsAssumption DEF PeerSends, Peer, Net
    <3> QED
      BY <2>1, <3>1 DEF PeerSends, Peer, Net
  <2>2. CASE PeerCloses
    BY <2>2 DEF PeerCloses, Peer, Net
  <2>3. CASE PeerResets
    BY <2>3 DEF PeerResets, Peer, Net
  <2> QED
    BY <1>13, <2>1, <2>2, <2>3
<1>14. CASE UNCHANGED vars
  BY <1>14 DEF vars
<1> QED
  BY <1>3, <1>4, <1>5, <1>6, <1>7, <1>8, <1>9, <1>10, <1>11, <1>12, <1>13,
     <1>14 DEF Next, LoopStep

(* Every member function keeps the connection good, whoever calls it.         *)
THEOREM Inductive == Spec => []IInv
<1>1. IInv /\ [Next]_vars => IInv'
  BY NextGood, NextTypeOK DEF IInv, Good
<1> QED
  BY <1>1, InitIInv, PTL DEF Spec

-----------------------------------------------------------------------------
(* Every variable keeps its type, also the lengths: no step takes more from   *)
(* outputBuffer_ than there is.                                               *)
THEOREM TypeCorrect == Spec => []TypeOK
<1>1. IInv => TypeOK
  BY DEF IInv
<1> QED
  BY <1>1, Inductive, PTL

(* Until the connection is closed, its channel waits for EPOLLOUT exactly     *)
(* while there is something to write, whoever calls send() and shutdown().    *)
THEOREM BufferedOutputIsScheduled == Spec => []OutputIsScheduled
<1>1. IInv => OutputIsScheduled
  BY DEF IInv, Good, Scheduled, OutputIsScheduled
<1> QED
  BY <1>1, Inductive, PTL

(* shutdownWrite() never comes before buffered bytes.                         *)
THEOREM ShutdownWaitsForOutput == Spec => []ShutdownAfterOutput
<1>1. IInv => ShutdownAfterOutput
  BY DEF IInv, Good, NotCutOff, ShutdownAfterOutput
<1> QED
  BY <1>1, Inductive, PTL

(* The server's map has the connection until its user has heard of the end.   *)
THEOREM MapKeepsUntilDown == Spec => []KeptUntilDown
<1>1. IInv => KeptUntilDown
  BY DEF IInv, InMapUntilDown, KeptUntilDown
<1> QED
  BY <1>1, Inductive, PTL

-----------------------------------------------------------------------------
(* What a member function may do to a shutdown and to the place in the poller. *)

Pending == Elements(conn.tasks) \cup Elements(batch)

\* shutdown() was accepted, and nothing that is still to come will close our
\* side: not the end of the output, and no functor behind it.
Forgotten(c) ==
    /\ c.state = "kDisconnecting" /\ c.down = 0
    /\ ~c.wrShut /\ ~isWriting(c.chan)
    /\ "shutdownInLoop" \notin Elements(c.tasks)

\* No call forgets a shutdown, and none but connectDestoryed takes the channel
\* out of the poller.
Heeds(c, d) == Forgotten(d) => Forgotten(c)
Stays(c, d) == d.chan.index = "kNew" => c.chan.index = "kNew"
Minds(c, d) == Heeds(c, d) /\ Stays(c, d)

\* Updating a channel always enters it in the poller.
LEMMA UpdatedIsKnown ==
    ASSUME NEW ch \in Channel
    PROVE  /\ Updated(EnableReading(ch)).index # "kNew"
           /\ Updated(EnableWriting(ch)).index # "kNew"
           /\ Updated(DisableWriting(ch)).index # "kNew"
           /\ Updated(DisableAll(ch)).index # "kNew"
<1>1. ASSUME NEW ev PROVE Updated(WithEvents(ch, ev)).index # "kNew"
  BY DEF Channel, Index, Updated, WithEvents, UpdatedIndex, UpdateOp, isNoneEvent
<1> QED
  BY <1>1 DEF EnableReading, EnableWriting, DisableWriting, DisableAll

LEMMA MindsQueue ==
    ASSUME NEW c \in Connection, NEW f \in Functor
    PROVE  Minds(c, Queue(c, f))
<1>1. Elements(c.tasks) \subseteq Elements(Append(c.tasks, f))
  BY ElementsOfAppend DEF Connection
<1> QED
  BY <1>1 DEF Minds, Heeds, Stays, Forgotten, Queue, Connection

LEMMA MindsNotify ==
    ASSUME NEW c \in Connection, NEW f \in {"writeComplete", "highWaterMark"},
           NEW d \in Notify(c, f)
    PROVE  Minds(c, d) /\ d.state = c.state /\ d.chan = c.chan
<1>1. f \in Functor
  BY DEF Functor, SharedFunctor
<1>2. Queue(c, f).state = c.state /\ Queue(c, f).chan = c.chan
  BY DEF Queue, Connection
<1> QED
  BY <1>1, <1>2, MindsQueue DEF Notify, Minds, Heeds, Stays

\* Once bytes are kept, their end will bring the shutdown.
LEMMA MindsKept ==
    ASSUME NEW c, Good(c), NEW n \in Nat
    PROVE  Minds(c, Kept(c, n))
<1> DEFINE d == [c EXCEPT !.output = @ + n]
           e == IF isWriting(d.chan) THEN d ELSE SetChannel(d, EnableWriting(d.chan))
           u == Updated(EnableWriting(c.chan))
<1>1. c \in Connection /\ c.chan \in Channel
  BY DEF Good, Connection
<1>2. u.index # "kNew" /\ isWriting(u)
  BY <1>1, UpdatedIsKnown, ChannelOperations
<1> HIDE DEF u
<1>3. d.chan = c.chan
  BY <1>1 DEF Connection
<1>4. /\ e.chan = c.chan \/ e.chan = u
      /\ isWriting(e.chan)
  BY <1>1, <1>2, <1>3 DEF SetChannel, Connection, u
<1>5. Kept(c, n).chan = e.chan
  BY <1>1 DEF Kept, SetChannel, Connection
<1> QED
  BY <1>2, <1>4, <1>5 DEF Minds, Heeds, Stays, Forgotten

LEMMA MindsKeepRest ==
    ASSUME NEW c, Good(c), NEW n \in Nat, NEW d \in KeepRest(c, n)
    PROVE  Minds(c, d)
<1>1. c \in Connection
  BY DEF Good
<1>2. ASSUME NEW e \in Notify(c, "highWaterMark"), d = Kept(e, n)
      PROVE  Minds(c, d)
  <2>1. Good(e) /\ Minds(c, e)
    BY <1>1, GoodNotify, MindsNotify DEF GoodCall, Keeps
  <2> QED
    BY <1>2, <2>1, MindsKept DEF Minds, Heeds, Stays
<1> QED
  BY <1>2, MindsKept DEF KeepRest

\* sendInLoop withdraws the shutdown: it sets state_ back.
LEMMA MindsSendInLoop ==
    ASSUME NEW c, Good(c), NEW e \in SendInLoop(c)
    PROVE  Minds(c, e)
<1> DEFINE d == SetState(c, "kDisconnected")
<1>1. Good(d) /\ d.chan = c.chan /\ d.state = "kDisconnected"
  BY GoodSetState DEF StateE, GoodCall, Keeps
<1> HIDE DEF d
<1>2. d \in Connection /\ ~Forgotten(d)
  BY <1>1 DEF Good, Forgotten
<1>3. SendLen \in Nat /\ \A nwrote \in 0..SendLen - 1 : SendLen - nwrote \in Nat
  BY LenAssumption
<1>4. \/ e = d
      \/ e \in KeepRest(d, SendLen)
      \/ e \in Notify(d, "writeComplete")
      \/ \E nwrote \in 0..SendLen - 1 : e \in KeepRest(d, SendLen - nwrote)
  BY DEF SendInLoop, d
<1>5. Minds(d, e)
  <2>1. Minds(d, d)
    BY DEF Minds, Heeds, Stays
  <2> QED
    BY <1>1, <1>2, <1>3, <1>4, <2>1, MindsKeepRest, MindsNotify
<1> QED
  BY <1>1, <1>2, <1>5 DEF Minds, Heeds, Stays

\* After shutdownInLoop our side is closed, or waits for the output.
LEMMA ShutdownInLoopHeeds ==
    ASSUME NEW c \in Connection
    PROVE  /\ ~Forgotten(ShutdownInLoop(c))
           /\ ShutdownInLoop(c).chan = c.chan
BY DEF ShutdownInLoop, Forgotten, Connection

LEMMA MindsShutdown ==
    ASSUME NEW c \in Connection PROVE Minds(c, Shutdown(c))
<1> DEFINE d == [c EXCEPT !.shutCalled = TRUE]
           e == SetState(d, "kDisconnecting")
<1>1. /\ d \in Connection /\ d.chan = c.chan /\ d.state = c.state
      /\ Forgotten(d) => Forgotten(c)
  BY DEF Connection, Forgotten
<1>2. Shutdown(c) = IF d.state = "kDisconnected" THEN ShutdownInLoop(e) ELSE d
  BY DEF Shutdown
<1> HIDE DEF d
<1>3. e \in Connection /\ e.chan = c.chan
  BY <1>1 DEF SetState, Connection, StateE
<1> HIDE DEF e
<1> QED
  BY <1>1, <1>2, <1>3, ShutdownInLoopHeeds DEF Minds, Heeds, Stays

LEMMA MindsUserCallback ==
    ASSUME NEW c, Good(c), NEW d \in UserCallback(c)
    PROVE  Minds(c, d)
<1>1. \A e : Good(e) => e \in Connection /\ Minds(e, Shutdown(e)) /\ Minds(e, e)
  BY MindsShutdown DEF Good, Minds, Heeds, Stays
<1>2. \A e \in Send(c) : Good(e) /\ Minds(c, e)
  BY <1>1, GoodSend, MindsSendInLoop DEF Send, GoodCall, Keeps
<1>3. d = c \/ d = Shutdown(c) \/ d \in Send(c) \/ \E e \in Send(c) : d = Shutdown(e)
  BY DEF UserCallback, OnMessage
<1> QED
  BY <1>1, <1>2, <1>3 DEF Minds, Heeds, Stays

LEMMA MindsConnectEstablished ==
    ASSUME NEW c, Good(c), NEW d \in ConnectEstablished(c)
    PROVE  Minds(c, d)
<1> DEFINE g == SetState(c, "kConnected")
           h == SetChannel(g, EnableReading(c.chan))
           e == [h EXCEPT !.up = @ + 1]
           u == Updated(EnableReading(c.chan))
<1>1. c \in Connection /\ c.chan \in Channel
  BY DEF Good, Connection
<1>2. u \in Channel /\ u.index # "kNew" /\ (isWriting(u) <=> isWriting(c.chan))
  BY <1>1, UpdatedIsKnown, ChannelOperations
<1>3. h = [g EXCEPT !.chan = u] /\ d \in UserCallback(e)
  BY DEF SetChannel, ConnectEstablished
<1> HIDE DEF u
<1>4. /\ g \in Connection /\ g.state = "kConnected" /\ g.output = c.output
      /\ g.down = c.down /\ g.wrShut = c.wrShut /\ g.tasks = c.tasks
  BY <1>1 DEF SetState, Connection, StateE
<1> HIDE DEF g
<1>5. /\ h \in Connection /\ h.state = "kConnected" /\ h.output = c.output
      /\ h.down = c.down /\ h.wrShut = c.wrShut /\ h.tasks = c.tasks
      /\ h.chan = u
  BY <1>2, <1>3, <1>4 DEF Connection
<1> HIDE DEF h
<1>6. /\ e \in Connection /\ e.state = "kConnected" /\ e.output = c.output
      /\ e.down = c.down /\ e.wrShut = c.wrShut /\ e.tasks = c.tasks
      /\ e.chan = u
  BY <1>5 DEF Connection
<1> HIDE DEF e
<1>7. Good(e)
  BY <1>2, <1>6 DEF Good, Scheduled, NotCutOff, NotDestroyedEarly
<1>8. Minds(e, d)
  BY <1>3, <1>7, MindsUserCallback
<1> QED
  BY <1>2, <1>6, <1>8 DEF Minds, Heeds, Stays, Forgotten

\* A closed connection has no shutdown to heed.
LEMMA MindsHandleClose ==
    ASSUME NEW c, Good(c), NEW f \in HandleClose(c)
    PROVE  Minds(c, f)
<1> DEFINE d == SetChannel(SetState(c, "kDisconnected"), DisableAll(c.chan))
           g == [d EXCEPT !.down = @ + 1]
           u == Updated(DisableAll(c.chan))
<1>1. c \in Connection /\ c.chan \in Channel /\ c.down \in Nat
  BY DEF Good, Connection
<1>2. u \in Channel /\ u.index # "kNew"
  BY <1>1, UpdatedIsKnown, ChannelOperations
<1>3. PICK e \in UserCallback(g) : f = RemoveConnection(e)
  BY DEF HandleClose
<1>4. d = [SetState(c, "kDisconnected") EXCEPT !.chan = u]
  BY DEF SetChannel
<1> HIDE DEF u
<1>5. /\ d \in Connection /\ d.chan = u /\ d.down = c.down /\ d.tasks = c.tasks
  BY <1>1, <1>2, <1>4 DEF SetState, Connection, StateE
<1> HIDE DEF d
<1>6. /\ g \in Connection /\ g.chan = u /\ g.down = c.down + 1 /\ g.down > 0
      /\ g.tasks = c.tasks
  BY <1>1, <1>5 DEF Connection
<1> HIDE DEF g
<1>7. Good(g)
  BY <1>6 DEF Good, Scheduled, NotCutOff, NotDestroyedEarly
<1>8. /\ Good(e) /\ e.down > 0 /\ e.chan.index # "kNew"
  BY <1>2, <1>3, <1>6, <1>7, GoodUserCallback, MindsUserCallback
     DEF GoodCall, Keeps, Minds, Stays
<1>9. f.down = e.down /\ f.chan = e.chan
  BY <1>3, <1>8 DEF Good, RemoveConnection, RemoveConnectionInLoop, Queue,
                    Connection
<1> QED
  BY <1>8, <1>9 DEF Minds, Heeds, Stays, Forgotten

\* The end of the output brings the shutdown that waited for it.
LEMMA MindsHandleWrite ==
    ASSUME NEW c, Good(c), NEW f \in HandleWrite(c)
    PROVE  Minds(c, f)
<1>1. c \in Connection /\ c.chan \in Channel /\ c.output \in Nat
  BY DEF Good, Connection
<1>2. CASE f = c
  BY <1>2 DEF Minds, Heeds, Stays
<1>3. ASSUME NEW n \in 1..c.output, f \in Written(c, n)
      PROVE  Minds(c, f)
  <2> DEFINE d == [c EXCEPT !.output = @ - n]
             e == SetChannel(d, DisableWriting(d.chan))
             u == Updated(DisableWriting(c.chan))
  <2>1. /\ d \in Connection /\ d.chan = c.chan
        /\ Forgotten(d) => Forgotten(c)
    <3>1. c.output - n \in Nat
      BY <1>1
    <3> QED
      BY <1>1, <3>1 DEF Connection, Forgotten
  <2>2. u \in Channel /\ u.index # "kNew"
    BY <1>1, UpdatedIsKnown, ChannelOperations
  <2>3. f \in IF d.output > 0 THEN {d}
              ELSE {ShutdownIfAsked(g) : g \in Notify(e, "writeComplete")}
    BY <1>3 DEF Written
  <2>4. e = [d EXCEPT !.chan = u]
    BY <2>1 DEF SetChannel
  <2> HIDE DEF d, u
  <2>5. e \in Connection /\ e.chan = u
    BY <2>1, <2>2, <2>4 DEF Connection
  <2> HIDE DEF e
  <2>6. ASSUME NEW g \in Notify(e, "writeComplete"), f = ShutdownIfAsked(g)
        PROVE  Minds(c, f)
    <3>1. g \in Connection /\ g.chan = u
      BY <2>5, <2>6, MindsNotify, AppendProperties
         DEF Notify, Queue, Connection, Functor, SharedFunctor
    <3>2. ~Forgotten(f) /\ f.chan = u
      BY <2>6, <3>1, ShutdownInLoopHeeds DEF ShutdownIfAsked, Forgotten
    <3> QED
      BY <2>2, <3>2 DEF Minds, Heeds, Stays
  <2> QED
    BY <2>1, <2>3, <2>6 DEF Minds, Heeds, Stays
<1> QED
  BY <1>2, <1>3 DEF HandleWrite

\* The functors, but for connectDestoryed.
LEMMA MindsRun ==
    ASSUME NEW c, Good(c), NEW f \in Functor \ {"connectDestoryed"},
           NEW d \in Run(f, c)
    PROVE  Minds(c, d) /\ (f = "shutdownInLoop" => ~Forgotten(d))
<1>1. c \in Connection
  BY DEF Good
<1>2. CASE f = "shutdownInLoop"
  BY <1>1, <1>2, ShutdownInLoopHeeds DEF Run, Minds, Heeds, Stays
<1>3. CASE f # "shutdownInLoop"
  BY <1>3, MindsConnectEstablished, MindsSendInLoop, MindsUserCallback DEF Run
<1> QED
  BY <1>2, <1>3

\* What is left is queued in the batch, or about to be queued by a thread.
Remembered ==
    Forgotten(conn) => \/ "shutdownInLoop" \in Elements(batch)
                       \/ \E u \in Users : at[u] = "queue"

LEMMA NextMinds ==
    ASSUME IInv, Remembered, [Next]_vars
    PROVE  /\ Remembered'
           /\ \/ Stays(conn, conn')
              \/ RunFunctor /\ Head(batch) = "connectDestoryed"
<1> DEFINE Kind == Remembered' /\ Stays(conn, conn')
<1>1. /\ Good(conn) /\ conn \in Connection /\ conn.down \in Nat
      /\ batch \in Seq(Functor) /\ conn.tasks \in Seq(Functor)
      /\ at \in [Users -> {"idle", "send", "set", "queue"}]
      /\ InMapUntilDown(conn) /\ NotDestroyedEarly(conn, batch)
      /\ Minds(conn, conn)
  BY DEF IInv, TypeOK, Connection, Minds, Heeds, Stays
\* A step that takes nobody from between state_ and the push.
<1>2. ASSUME Minds(conn, conn'), batch' = batch,
             \A u \in Users : at[u] = "queue" => at'[u] = "queue"
      PROVE  Kind
  BY <1>2 DEF Remembered, Minds, Heeds
<1>3. CASE AcceptHere \/ HandleReadMessage \/ HandleReadError \/ HandleReadClose
           \/ CloseCallback \/ ErrorCallback \/ WriteCallback
  <2>1. batch' = batch /\ at' = at
    BY <1>3 DEF AcceptHere, HandleReadMessage, HandleReadError, HandleReadClose,
                CloseCallback, ErrorCallback, WriteCallback, Callback, NextCallback
  <2>2. \/ conn' \in ConnectEstablished(conn) \/ conn' \in UserCallback(conn)
        \/ conn' \in HandleClose(conn) \/ conn' \in HandleWrite(conn)
        \/ conn' = conn
    BY <1>3 DEF AcceptHere, HandleReadMessage, HandleReadError, HandleReadClose,
                CloseCallback, ErrorCallback, WriteCallback
  <2>3. Minds(conn, conn')
    BY <1>1, <2>2, MindsConnectEstablished, MindsUserCallback, MindsHandleClose,
       MindsHandleWrite
  <2> QED
    BY <1>2, <2>1, <2>3
<1>4. CASE StartBatch
  <2>1. batch' = conn.tasks /\ conn' = [conn EXCEPT !.tasks = <<>>] /\ at' = at
    BY <1>4 DEF StartBatch
  <2>2. batch = <<>>
    BY <1>4 DEF StartBatch, IInv, TypeOK
  <2>3. Forgotten(conn') => Forgotten(conn) \/ "shutdownInLoop" \in Elements(batch')
    BY <1>1, <2>1 DEF Forgotten, Connection
  <2>4. Elements(batch) = {}
    BY <2>2 DEF Elements
  <2>5. conn'.chan = conn.chan
    BY <1>1, <2>1 DEF Connection
  <2> QED
    BY <2>1, <2>3, <2>4, <2>5 DEF Remembered, Stays
<1>5. CASE RunFunctor
  <2>1. /\ Elements(batch) \subseteq {Head(batch)} \cup Elements(Tail(batch))
        /\ Head(batch) \in Elements(batch) /\ Head(batch) \in Functor
        /\ batch' = Tail(batch) /\ at' = at /\ conn' \in Run(Head(batch), conn)
    BY <1>1, <1>5, ElementsHeadTail, ElementsOfTail DEF RunFunctor
  <2>2. CASE Head(batch) = "connectDestoryed"
    <3>1. conn.down > 0
      BY <1>1, <2>1, <2>2 DEF NotDestroyedEarly
    <3>2. conn'.down = conn.down
      BY <1>1, <2>1, <2>2, <3>1, GoodRun DEF GoodCall, Keeps
    <3> QED
      BY <1>5, <2>2, <3>1, <3>2 DEF Remembered, Forgotten
  <2>3. CASE Head(batch) # "connectDestoryed"
    <3>1. /\ Minds(conn, conn')
          /\ Head(batch) = "shutdownInLoop" => ~Forgotten(conn')
      BY <1>1, <2>1, <2>3, MindsRun
    <3> QED
      BY <2>1, <3>1 DEF Remembered, Minds, Heeds
  <2> QED
    BY <2>2, <2>3
<1>6. CASE BaseLoop
  <2>1. /\ conn' = RemoveConnectionInLoop([conn EXCEPT !.removals = @ - 1])
        /\ conn.removals > 0
    BY <1>6 DEF BaseLoop
  <2>2. conn'.down = conn.down /\ conn'.chan = conn.chan /\ conn.down > 0
    BY <1>1, <2>1 DEF RemoveConnectionInLoop, Queue, Connection, InMapUntilDown
  <2> QED
    BY <2>2 DEF Remembered, Forgotten, Stays
<1>7. ASSUME NEW u \in Users, SendQueue(u) PROVE Kind
  <2>1. conn' = Queue(conn, "sendInLoop") /\ batch' = batch
        /\ at[u] = "send" /\ at' = [at EXCEPT ![u] = "idle"]
    BY <1>7 DEF SendQueue, UserStep
  <2>2. Minds(conn, conn')
    BY <1>1, <2>1, MindsQueue DEF Functor, RawFunctor
  <2> QED
    BY <1>1, <1>2, <2>1, <2>2
<1>8. ASSUME NEW u \in Users, ShutdownTest(u) PROVE Kind
  <2>1. /\ conn' = [conn EXCEPT !.shutCalled = TRUE] /\ batch' = batch
        /\ at[u] = "idle" /\ \E x : at' = [at EXCEPT ![u] = x]
    BY <1>8 DEF ShutdownTest, UserStep
  <2>2. Minds(conn, conn')
    BY <1>1, <2>1 DEF Minds, Heeds, Stays, Forgotten, Connection
  <2> QED
    BY <1>1, <1>2, <2>1, <2>2
\* The thread that sets state_ is the one that will queue the functor.
<1>9. ASSUME NEW u \in Users, ShutdownSet(u) PROVE Kind
  <2>1. conn' = SetState(conn, "kDisconnecting") /\ at' = [at EXCEPT ![u] = "queue"]
    BY <1>9 DEF ShutdownSet, UserStep
  <2>2. at'[u] = "queue" /\ conn'.chan = conn.chan
    BY <1>1, <2>1 DEF SetState, Connection
  <2> QED
    BY <2>2 DEF Remembered, Stays
<1>10. ASSUME NEW u \in Users, ShutdownQueue(u) PROVE Kind
  <2>1. conn' = Queue(conn, "shutdownInLoop")
    BY <1>10 DEF ShutdownQueue
  <2>2. conn'.chan = conn.chan /\ conn'.tasks = Append(conn.tasks, "shutdownInLoop")
    BY <1>1, <2>1 DEF Queue, Connection
  <2>3. "shutdownInLoop" \in Elements(conn'.tasks)
    BY <1>1, <2>2, ElementsOfAppend
  <2> QED
    BY <2>2, <2>3 DEF Remembered, Forgotten, Stays
<1>11. ASSUME NEW u \in Users, SendTest(u) PROVE Kind
  <2>1. conn' = conn /\ batch' = batch
        /\ at[u] = "idle" /\ at' = [at EXCEPT ![u] = "send"]
    BY <1>11 DEF SendTest, UserStep
  <2> QED
    BY <1>1, <1>2, <2>1
<1>12. CASE \/ \E room \in BOOLEAN : PollReports(room)
            \/ PollOther \/ BatchDone \/ BaseBatchDone \/ RunDangling
            \/ \E u \in Users : DropPtr(u)
            \/ PeerSends \/ PeerCloses \/ PeerResets
            \/ UNCHANGED vars
  <2>1. UNCHANGED <<conn, batch, at>>
    BY <1>12 DEF PollReports, PollOther, BatchDone, BaseBatchDone, RunDangling,
                 DropPtr, PeerSends, PeerCloses, PeerResets, Peer, vars
  <2> QED
    BY <1>1, <1>2, <2>1
<1> QED
  BY <1>3, <1>4, <1>5, <1>6, <1>7, <1>8, <1>9, <1>10, <1>11, <1>12
     DEF Next, LoopStep, FinishCall

\* An accepted shutdown is always somewhere on its way.
THEOREM Heedful == Spec => []Remembered
<1>1. Init => Remembered
  <2> SUFFICES ASSUME Init PROVE Remembered
    OBVIOUS
  <2>1. conn.state # "kDisconnecting"
    BY DEF Init, NewConnection
  <2> QED
    BY <2>1 DEF Remembered, Forgotten
<1>2. IInv /\ Remembered /\ [Next]_vars => Remembered'
  BY NextMinds
<1> QED
  BY <1>1, <1>2, Inductive, PTL DEF Spec

(* A shutdown() that was accepted is never lost: as long as state_ says so    *)
(* and the connection is up, our side is closed, bytes are still to be        *)
(* written, or a shutdownInLoop is queued or about to be, whichever threads   *)
(* call send() and shutdown().  (handleWrite closes our side behind the last  *)
(* byte.)                                                                     *)
ShutdownIsKept ==
    conn.state = "kDisconnecting" /\ conn.down = 0 =>
        \/ conn.wrShut \/ conn.output > 0
        \/ "shutdownInLoop" \in Pending
        \/ \E u \in Users : at[u] = "queue"

(* An accepted shutdown() stays on its way until state_ or the end takes it.  *)
THEOREM ShutdownIsNotLost == Spec => []ShutdownIsKept
<1>1. IInv /\ Remembered => ShutdownIsKept
  <2> SUFFICES ASSUME IInv, Remembered, conn.state = "kDisconnecting", conn.down = 0,
                      ~conn.wrShut, ~(conn.output > 0),
                      "shutdownInLoop" \notin Pending
               PROVE  \E u \in Users : at[u] = "queue"
    BY DEF ShutdownIsKept
  <2>1. Forgotten(conn)
    BY DEF Forgotten, Pending, IInv, Good, Scheduled
  <2> QED
    BY <2>1 DEF Remembered, Pending
<1> QED
  BY <1>1, Inductive, Heedful, PTL

(* The channel of a connection leaves the poller in a functor only, when the  *)
(* callbacks of the event are done, whichever threads use the connection:     *)
(* handleClose leaves the removal to a queued connectDestoryed.  (This is     *)
(* what EPollPoller.tla assumes of its users, MayRemove.)                     *)
RemovedInFunctors ==
    [][conn.chan.index # "kNew" /\ conn'.chan.index = "kNew" =>
          pc = "functors" /\ todo = <<>> /\ Head(batch) = "connectDestoryed"]_vars

(* Only a queued connectDestoryed removes the channel from the poller.        *)
THEOREM ChannelRemovedInFunctors == Spec => RemovedInFunctors
<1>1. IInv /\ Remembered /\ [Next]_vars =>
         [conn.chan.index # "kNew" /\ conn'.chan.index = "kNew" =>
             pc = "functors" /\ todo = <<>> /\ Head(batch) = "connectDestoryed"]_vars
  BY NextMinds DEF IInv, TypeOK, Stays, RunFunctor
<1> QED
  BY <1>1, Inductive, Heedful, PTL DEF Spec, RemovedInFunctors
=============================================================================
