----------------------- MODULE TcpConnectionLifeProofs -----------------------
(***************************************************************************)
(* TcpConnection implements ConnectionLife, and a destroyed connection has *)
(* left the poller, unless sendInLoop opens its channel again after its    *)
(* end, which only another thread's send() can bring about: for any number *)
(* of threads that use it, any sizes and any data.                         *)
(***************************************************************************)
EXTENDS TcpConnectionProofs

\* The functors that only run a callback of the user, and these together with
\* those that other threads queue: neither begin nor end the life.
Notes == {"writeComplete", "highWaterMark"}

Uses == Notes \cup RawFunctor

-----------------------------------------------------------------------------
(* The three stretches of the life of a connection. *)

\* Between connectEstablished and handleClose the channel stays in the poller,
\* because nobody takes its interest in EPOLLIN away.
Serves(c) ==
    /\ c \in Connection
    /\ c.up = 1 /\ c.down = 0 /\ ~c.reopened
    /\ c.inMap /\ c.removals = 0
    /\ c.chan.index = "kAdded" /\ "EPOLLIN" \in c.chan.events
    /\ c.state # "kconnecting"
    /\ Elements(c.tasks) \subseteq Uses

\* After handleClose, state_ is such that the user's send() does nothing.
Ended(c) ==
    /\ c \in Connection
    /\ c.up = 1 /\ c.down = 1 /\ ~c.reopened
    /\ c.chan.events = {} /\ c.chan.index # "kAdded"
    /\ c.state \in {"kDisconnected", "kDisconnecting"}
    /\ Elements(c.tasks) \subseteq Uses \cup {"connectDestoryed"}

\* The callbacks that close a connection, and how often they are still to do.
Closing == {"accept", "close", "read"}

Calm(s) == Elements(s) \cap Closing = {}

OneClose(s) ==
    \A i, j \in DOMAIN s : s[i] \in Closing /\ s[j] \in Closing => i = j

Made ==
    /\ conn.up = 0 /\ conn.down = 0 /\ ~conn.reopened
    /\ conn.inMap /\ conn.removals = 0
    /\ conn.chan = NewChannel
    /\ \A u \in Users : ~holds[u]
    /\ \/ todo = <<"accept">> /\ batch = <<>> /\ conn.tasks = <<>>
       \/ todo = <<>> /\ batch = <<>> /\ conn.tasks = <<"connectEstablished">>
       \/ todo = <<>> /\ batch = <<"connectEstablished">> /\ conn.tasks = <<>>

Up ==
    /\ Serves(conn)
    /\ Elements(batch) \subseteq Uses
    /\ OneClose(todo) /\ "accept" \notin Elements(todo)

Down ==
    /\ Ended(conn)
    /\ Elements(batch) \subseteq Uses \cup {"connectDestoryed"}
    /\ Calm(todo)
    /\ \/ /\ conn.chan.index = "kDeleted"
          /\ conn.inMap /\ conn.removals = 1
          /\ "connectDestoryed" \notin Pending
       \/ /\ conn.chan.index = "kDeleted"
          /\ ~conn.inMap /\ conn.removals = 0
          /\ "connectDestoryed" \in Pending
       \/ conn.chan.index = "kNew" /\ ~conn.inMap /\ conn.removals = 0

\* What the calls of other threads leave behind.
Untouched ==
    /\ \A u \in Users : at[u] = "idle"
    /\ Pending \cap RawFunctor = {}
    /\ ~conn.reopened /\ ~usedAfterFree

LInv ==
    /\ conn.reopened \/ Made \/ Up \/ Down
    /\ CallbacksOnly => Untouched

-----------------------------------------------------------------------------
(* Sequences and channels. *)

\* Doing the one closing callback leaves none; doing another leaves it.
LEMMA TailOfTodo ==
    ASSUME NEW S, NEW s \in Seq(S), s # <<>>, OneClose(s)
    PROVE  /\ OneClose(Tail(s))
           /\ Head(s) \in Closing => Calm(Tail(s))
<1>1. /\ Tail(s) \in Seq(S) /\ Len(Tail(s)) = Len(s) - 1
      /\ \A i \in 1..Len(Tail(s)) : Tail(s)[i] = s[i + 1]
      /\ Head(s) = s[1]
  BY HeadTailProperties
<1>2. /\ Len(s) \in Nat \ {0} /\ DOMAIN s = 1..Len(s)
      /\ DOMAIN Tail(s) = 1..Len(s) - 1
  BY <1>1, EmptySeq, LenProperties
<1>3. \A i \in DOMAIN Tail(s) :
         i + 1 \in DOMAIN s /\ Tail(s)[i] = s[i + 1] /\ i + 1 # 1 /\ i \in Nat
  BY <1>1, <1>2
<1>4. OneClose(Tail(s))
  <2> SUFFICES ASSUME NEW i \in DOMAIN Tail(s), NEW j \in DOMAIN Tail(s),
                      Tail(s)[i] \in Closing, Tail(s)[j] \in Closing
               PROVE  i = j
    BY DEF OneClose
  <2>1. i + 1 = j + 1
    BY <1>3 DEF OneClose
  <2> QED
    BY <1>3, <2>1
<1>5. ASSUME Head(s) \in Closing PROVE Calm(Tail(s))
  <2>1. 1 \in DOMAIN s
    BY <1>2
  <2>2. \A i \in DOMAIN Tail(s) : Tail(s)[i] \notin Closing
    BY <1>1, <1>3, <1>5, <2>1 DEF OneClose
  <2> QED
    BY <2>2 DEF Calm, Elements
<1> QED
  BY <1>4, <1>5

LEMMA ConcatTodo ==
    ASSUME NEW S, NEW s \in Seq(S), NEW t \in Seq(S)
    PROVE  /\ Calm(s) /\ Calm(t) => Calm(s \o t)
           /\ OneClose(s) /\ Calm(t) => OneClose(s \o t)
           /\ Calm(s) /\ OneClose(t) => OneClose(s \o t)
<1> DEFINE r == s \o t
<1>1. /\ r \in Seq(S) /\ Len(r) = Len(s) + Len(t)
      /\ \A i \in 1..Len(s) + Len(t) :
            r[i] = IF i <= Len(s) THEN s[i] ELSE t[i - Len(s)]
  BY ConcatProperties
<1> HIDE DEF r
<1>2. /\ DOMAIN r = 1..Len(s) + Len(t)
      /\ DOMAIN s = 1..Len(s) /\ DOMAIN t = 1..Len(t)
      /\ Len(s) \in Nat /\ Len(t) \in Nat
  BY <1>1, LenProperties
<1>3. \A i \in DOMAIN r :
         \/ i \in DOMAIN s /\ r[i] = s[i]
         \/ i \notin DOMAIN s /\ i - Len(s) \in DOMAIN t /\ r[i] = t[i - Len(s)]
  BY <1>1, <1>2
<1>4. \A q : Calm(q) <=> \A i \in DOMAIN q : q[i] \notin Closing
  BY DEF Calm, Elements
<1>5. Calm(s) /\ Calm(t) => Calm(r)
  BY <1>3, <1>4
<1>6. OneClose(s) /\ Calm(t) => OneClose(r)
  BY <1>3, <1>4 DEF OneClose
<1>7. Calm(s) /\ OneClose(t) => OneClose(r)
  <2> SUFFICES ASSUME Calm(s), OneClose(t), NEW i \in DOMAIN r, NEW j \in DOMAIN r,
                      r[i] \in Closing, r[j] \in Closing
               PROVE  i = j
    BY DEF OneClose
  <2>1. i - Len(s) = j - Len(s)
    BY <1>3, <1>4 DEF OneClose
  <2> QED
    BY <1>2, <2>1
<1> QED
  BY <1>5, <1>6, <1>7 DEF r

\* handleEventWithGuard closes at most once: "close" needs that EPOLLIN was not
\* reported, and "read" that it was.
LEMMA CallbacksCloseOnce ==
    ASSUME NEW revents
    PROVE  OneClose(Callbacks(revents)) /\ "accept" \notin Elements(Callbacks(revents))
<1> DEFINE C == {"close", "error", "read", "write"}
           a == IF "EPOLLHUP" \in revents /\ "EPOLLIN" \notin revents
                THEN <<"close">> ELSE <<>>
           b == IF "EPOLLERR" \in revents THEN <<"error">> ELSE <<>>
           c == IF "EPOLLIN" \in revents THEN <<"read">> ELSE <<>>
           d == IF "EPOLLOUT" \in revents THEN <<"write">> ELSE <<>>
<1>1. <<>> \in Seq(C) /\ \A x \in C : <<x>> \in Seq(C)
  OBVIOUS
<1>2. a \in Seq(C) /\ b \in Seq(C) /\ c \in Seq(C) /\ d \in Seq(C)
  BY <1>1
<1>3. Calm(<<>>) /\ Calm(<<"error">>) /\ Calm(<<"write">>)
  BY DEF Calm, Elements, Closing
<1>4. \A x : OneClose(<<x>>)
  BY DEF OneClose
<1>5. OneClose(<<>>)
  BY DEF OneClose
<1>6. OneClose(a) /\ Calm(b) /\ OneClose(c) /\ Calm(d) /\ (Calm(a) \/ Calm(c))
  BY <1>3, <1>4, <1>5
<1>7. Callbacks(revents) = ((a \o b) \o c) \o d
  BY DEF Callbacks
<1> HIDE DEF a, b, c, d, C
<1>8. /\ OneClose(a \o b) /\ a \o b \in Seq(C)
      /\ Calm(a) => Calm(a \o b)
  BY <1>2, <1>6, ConcatTodo, ConcatProperties
<1>9. OneClose((a \o b) \o c) /\ (a \o b) \o c \in Seq(C)
  BY <1>2, <1>6, <1>8, ConcatTodo, ConcatProperties
<1>10. OneClose(((a \o b) \o c) \o d) /\ ((a \o b) \o c) \o d \in Seq(C)
  BY <1>2, <1>6, <1>9, ConcatTodo, ConcatProperties
<1>11. Elements(Callbacks(revents)) \subseteq C
  BY <1>7, <1>10, LenProperties DEF Elements
<1> QED
  BY <1>7, <1>10, <1>11 DEF C

LEMMA WatchedChannel ==
    ASSUME NEW ch \in Channel, ch.index = "kAdded", "EPOLLIN" \in ch.events
    PROVE  /\ Updated(EnableWriting(ch)) \in Channel
           /\ Updated(EnableWriting(ch)).index = "kAdded"
           /\ "EPOLLIN" \in Updated(EnableWriting(ch)).events
           /\ Updated(DisableWriting(ch)) \in Channel
           /\ Updated(DisableWriting(ch)).index = "kAdded"
           /\ "EPOLLIN" \in Updated(DisableWriting(ch)).events
           /\ Updated(DisableAll(ch)) \in Channel
           /\ Updated(DisableAll(ch)).index = "kDeleted"
           /\ Updated(DisableAll(ch)).events = {}
<1>1. ASSUME NEW ev \in SUBSET Interest
      PROVE  /\ Updated(WithEvents(ch, ev)) \in Channel
             /\ Updated(WithEvents(ch, ev)).events = ev
             /\ Updated(WithEvents(ch, ev)).index =
                    IF ev = {} THEN "kDeleted" ELSE "kAdded"
  BY DEF Channel, Updated, WithEvents, UpdatedIndex, UpdateOp, isNoneEvent, Index
<1>2. /\ ch.events \cup {"EPOLLOUT"} \in SUBSET Interest
      /\ ch.events \ {"EPOLLOUT"} \in SUBSET Interest
      /\ "EPOLLIN" \in ch.events \ {"EPOLLOUT"}
      /\ {} \in SUBSET Interest
  BY DEF Channel, Interest
<1> QED
  BY <1>1, <1>2 DEF EnableWriting, DisableWriting, DisableAll

-----------------------------------------------------------------------------
(* The member functions, while the connection serves. *)

LEMMA ServesSetState ==
    ASSUME NEW c, Serves(c), NEW s \in StateE \ {"kconnecting"}
    PROVE  Serves(SetState(c, s))
BY DEF Serves, SetState, Connection

LEMMA ServesFields ==
    ASSUME NEW c, Serves(c)
    PROVE  /\ \A n \in Nat : Serves([c EXCEPT !.output = n])
           /\ Serves([c EXCEPT !.wrShut = TRUE])
           /\ Serves([c EXCEPT !.shutCalled = TRUE])
BY DEF Serves, Connection

LEMMA ServesSetChannel ==
    ASSUME NEW c, Serves(c),
           NEW ch \in {EnableWriting(c.chan), DisableWriting(c.chan)}
    PROVE  Serves(SetChannel(c, ch))
<1> DEFINE u == Updated(ch)
<1>1. u \in Channel /\ u.index = "kAdded" /\ "EPOLLIN" \in u.events
  BY WatchedChannel DEF Serves, Connection
<1>2. SetChannel(c, ch) = [c EXCEPT !.chan = u]
  BY DEF SetChannel
<1> HIDE DEF u
<1> QED
  BY <1>1, <1>2 DEF Serves, Connection

LEMMA ServesQueue ==
    ASSUME NEW c, Serves(c), NEW f \in Uses
    PROVE  /\ Serves(Queue(c, f))
           /\ Queue(c, f).output = c.output /\ Queue(c, f).state = c.state
<1>1. Append(c.tasks, f) \in Seq(Functor)
  BY AppendProperties
     DEF Serves, Connection, Uses, Notes, Functor, SharedFunctor, RawFunctor
<1>2. Elements(Append(c.tasks, f)) \subseteq Uses
  BY ElementsOfAppend DEF Serves, Connection
<1>3. Serves(Queue(c, f))
  BY <1>1, <1>2 DEF Serves, Connection, Queue
<1> QED
  BY <1>3 DEF Serves, Connection, Queue

LEMMA ServesNotify ==
    ASSUME NEW c, Serves(c), NEW f \in Notes, NEW d \in Notify(c, f)
    PROVE  Serves(d) /\ d.output = c.output /\ d.state = c.state
BY ServesQueue DEF Notify, Uses

LEMMA ServesKept ==
    ASSUME NEW c, Serves(c), NEW n \in Nat
    PROVE  Serves(Kept(c, n))
<1> DEFINE d == [c EXCEPT !.output = @ + n]
           e == IF isWriting(d.chan) THEN d ELSE SetChannel(d, EnableWriting(d.chan))
<1>1. Serves(d)
  <2>1. c.output + n \in Nat
    BY DEF Serves, Connection
  <2> QED
    BY <2>1, ServesFields
<1>2. Kept(c, n) = [e EXCEPT !.reopened = @ \/ e.down > 0]
  BY DEF Kept
<1> HIDE DEF d
<1>3. Serves(e)
  BY <1>1, ServesSetChannel
<1> HIDE DEF e
<1>4. Kept(c, n) = [e EXCEPT !.reopened = FALSE]
  <2>1. (e.reopened \/ e.down > 0) = FALSE
    BY <1>3 DEF Serves
  <2> QED
    BY <1>2, <2>1, Zenon
<1> QED
  BY <1>3, <1>4 DEF Serves, Connection

LEMMA ServesKeepRest ==
    ASSUME NEW c, Serves(c), NEW n \in Nat, NEW d \in KeepRest(c, n)
    PROVE  Serves(d)
BY ServesKept, ServesNotify DEF KeepRest, Notes

LEMMA ServesSendInLoop ==
    ASSUME NEW c, Serves(c), NEW e \in SendInLoop(c)
    PROVE  Serves(e)
<1> DEFINE d == SetState(c, "kDisconnected")
<1>1. Serves(d)
  BY ServesSetState DEF StateE
<1> HIDE DEF d
<1>2. SendLen \in Nat /\ \A nwrote \in 0..SendLen - 1 : SendLen - nwrote \in Nat
  BY LenAssumption
<1>3. \/ e = d
      \/ e \in KeepRest(d, SendLen)
      \/ e \in Notify(d, "writeComplete")
      \/ \E nwrote \in 0..SendLen - 1 : e \in KeepRest(d, SendLen - nwrote)
  BY DEF SendInLoop, d
<1> QED
  BY <1>1, <1>2, <1>3, ServesKeepRest, ServesNotify DEF Notes

LEMMA ServesShutdownInLoop ==
    ASSUME NEW c, Serves(c) PROVE Serves(ShutdownInLoop(c))
BY ServesFields DEF ShutdownInLoop

LEMMA ServesShutdown ==
    ASSUME NEW c, Serves(c) PROVE Serves(Shutdown(c))
<1> DEFINE d == [c EXCEPT !.shutCalled = TRUE]
<1>1. Serves(d)
  BY ServesFields
<1>2. Shutdown(c) = IF d.state = "kDisconnected"
                    THEN ShutdownInLoop(SetState(d, "kDisconnecting")) ELSE d
  BY DEF Shutdown
<1> HIDE DEF d
<1> QED
  BY <1>1, <1>2, ServesSetState, ServesShutdownInLoop DEF StateE

LEMMA ServesUserCallback ==
    ASSUME NEW c, Serves(c), NEW d \in UserCallback(c)
    PROVE  Serves(d)
BY ServesShutdown, ServesSendInLoop DEF UserCallback, OnMessage, Send

LEMMA ServesHandleWrite ==
    ASSUME NEW c, Serves(c), NEW f \in HandleWrite(c)
    PROVE  Serves(f)
<1>1. CASE f = c
  BY <1>1
<1>2. ASSUME NEW n \in 1..c.output, f \in Written(c, n)
      PROVE  Serves(f)
  <2> DEFINE d == [c EXCEPT !.output = @ - n]
             e == SetChannel(d, DisableWriting(d.chan))
  <2>1. c.output - n \in Nat
    BY DEF Serves, Connection
  <2>2. Serves(d)
    BY <2>1, ServesFields
  <2>3. f \in IF d.output > 0 THEN {d}
              ELSE {ShutdownIfAsked(g) : g \in Notify(e, "writeComplete")}
    BY <1>2 DEF Written
  <2> HIDE DEF d
  <2>4. Serves(e)
    BY <2>2, ServesSetChannel
  <2> HIDE DEF e
  <2>5. ASSUME NEW g \in Notify(e, "writeComplete") PROVE Serves(ShutdownIfAsked(g))
    BY <2>4, ServesNotify, ServesShutdownInLoop DEF ShutdownIfAsked, Notes
  <2> QED
    BY <2>2, <2>3, <2>5
<1> QED
  BY <1>1, <1>2 DEF HandleWrite

-----------------------------------------------------------------------------
(* The member functions that begin and end it. *)

LEMMA EstablishedServes ==
    ASSUME NEW c \in Connection, c.up = 0, c.down = 0, ~c.reopened,
           c.inMap, c.removals = 0,
           c.chan = NewChannel, Elements(c.tasks) \subseteq Uses,
           NEW d \in ConnectEstablished(c)
    PROVE  Serves(d)
<1> DEFINE g == SetState(c, "kConnected")
           u == Updated(EnableReading(NewChannel))
           h == [g EXCEPT !.chan = u]
           e == [h EXCEPT !.up = @ + 1]
<1>1. u \in Channel /\ u.index = "kAdded" /\ "EPOLLIN" \in u.events
  <2>1. NewChannel \in Channel /\ NewChannel.index = "kNew"
    BY DEF NewChannel, Channel, Index
  <2>2. NewChannel.events \cup {"EPOLLIN"} \in SUBSET Interest
    BY DEF NewChannel, Interest
  <2> QED
    BY <2>1, <2>2 DEF Channel, Updated, EnableReading, WithEvents, UpdatedIndex,
                      UpdateOp, isNoneEvent, Index
<1>2. /\ g \in Connection /\ g.up = 0 /\ g.down = 0 /\ ~g.reopened
      /\ g.inMap /\ g.removals = 0
      /\ g.tasks = c.tasks /\ g.state = "kConnected"
  BY DEF SetState, Connection, StateE
<1>3. d \in UserCallback(e)
  BY DEF ConnectEstablished, SetChannel
<1> HIDE DEF g, u
<1>4. /\ h \in Connection /\ h.up = 0 /\ h.down = 0 /\ ~h.reopened
      /\ h.inMap /\ h.removals = 0
      /\ h.tasks = c.tasks /\ h.state = "kConnected" /\ h.chan = u
  BY <1>1, <1>2 DEF Connection
<1> HIDE DEF h
<1>5. Serves(e)
  BY <1>1, <1>4 DEF Serves, Connection
<1> HIDE DEF e
<1> QED
  BY <1>3, <1>5, ServesUserCallback

\* What is left of a closed connection does nothing when its user uses it.
Inert(c, d) ==
    /\ Ended(d)
    /\ d.atBase = c.atBase /\ d.chan = c.chan /\ d.tasks = c.tasks
    /\ d.inMap = c.inMap /\ d.removals = c.removals

LEMMA EndedUserCallback ==
    ASSUME NEW c, Ended(c), NEW d \in UserCallback(c)
    PROVE  Inert(c, d)
<1>1. Inert(c, c)
  BY DEF Inert
<1>2. Send(c) = {c}
  BY DEF Send, Ended
<1>3. Inert(c, Shutdown(c))
  <2> DEFINE e == [c EXCEPT !.shutCalled = TRUE]
             g == SetState(e, "kDisconnecting")
             h == ShutdownInLoop(g)
  <2>1. Inert(c, e)
    BY DEF Inert, Ended, Connection
  <2>2. Shutdown(c) = IF e.state = "kDisconnected" THEN h ELSE e
    BY DEF Shutdown
  <2> HIDE DEF e
  <2>3. Inert(c, g)
    BY <2>1 DEF Inert, Ended, Connection, SetState, StateE
  <2> HIDE DEF g
  <2>4. Inert(c, h)
    BY <2>3 DEF Inert, Ended, Connection, ShutdownInLoop
  <2> QED
    BY <2>1, <2>2, <2>4
<1> QED
  BY <1>1, <1>2, <1>3 DEF UserCallback, OnMessage

\* A call that at most queues a functor that neither begins nor ends the life.
Quiet(c, d) ==
    /\ Ended(d)
    /\ d.chan = c.chan /\ d.inMap = c.inMap /\ d.removals = c.removals
    /\ Elements(c.tasks) \subseteq Elements(d.tasks)
    /\ Elements(d.tasks) \subseteq Elements(c.tasks) \cup Uses

LEMMA EndedQueue ==
    ASSUME NEW c, Ended(c), NEW f \in Uses
    PROVE  Quiet(c, Queue(c, f))
<1>1. Append(c.tasks, f) \in Seq(Functor)
  BY AppendProperties
     DEF Ended, Connection, Uses, Notes, Functor, SharedFunctor, RawFunctor
<1>2. Elements(Append(c.tasks, f)) = Elements(c.tasks) \cup {f}
  BY ElementsOfAppend DEF Ended, Connection
<1>3. LET d == Queue(c, f)
      IN  /\ d \in Connection /\ d.up = c.up /\ d.down = c.down
          /\ d.reopened = c.reopened /\ d.chan = c.chan /\ d.state = c.state
          /\ d.inMap = c.inMap /\ d.removals = c.removals
          /\ d.tasks = Append(c.tasks, f)
  BY <1>1 DEF Ended, Connection, Queue
<1> QED
  BY <1>2, <1>3 DEF Ended, Quiet

\* Bytes that are kept after the end open the channel again.
LEMMA KeptReopens ==
    ASSUME NEW c \in Connection, c.down > 0, NEW n \in Nat
    PROVE  Kept(c, n).reopened
<1> DEFINE d == [c EXCEPT !.output = @ + n]
           e == IF isWriting(d.chan) THEN d ELSE SetChannel(d, EnableWriting(d.chan))
<1>1. d \in Connection /\ d.down = c.down
  BY DEF Connection
<1>2. Kept(c, n) = [e EXCEPT !.reopened = @ \/ e.down > 0]
  BY DEF Kept
<1> HIDE DEF d
<1>3. Updated(EnableWriting(d.chan)) \in Channel
  BY <1>1, ChannelOperations DEF Connection
<1>4. e \in Connection /\ e.down = c.down
  BY <1>1, <1>3 DEF SetChannel, Connection
<1> HIDE DEF e
<1>5. Kept(c, n) = [e EXCEPT !.reopened = TRUE]
  BY <1>2, <1>4
<1> QED
  BY <1>4, <1>5 DEF Connection

\* sendInLoop of another thread after the end: either it does nothing but tell
\* the user, or it opens the channel again.
LEMMA EndedSendInLoop ==
    ASSUME NEW c, Ended(c), NEW e \in SendInLoop(c)
    PROVE  e.reopened \/ Quiet(c, e)
<1> DEFINE d == SetState(c, "kDisconnected")
<1>1. Inert(c, d)
  BY DEF Inert, Ended, Connection, SetState, StateE
<1>2. \/ e = d
      \/ e \in KeepRest(d, SendLen)
      \/ e \in Notify(d, "writeComplete")
      \/ \E nwrote \in 0..SendLen - 1 : e \in KeepRest(d, SendLen - nwrote)
  BY DEF SendInLoop
<1> HIDE DEF d
<1>3. ASSUME NEW n \in Nat, e \in KeepRest(d, n) PROVE e.reopened
  <2>1. Ended(d) /\ Ended(Queue(d, "highWaterMark"))
    BY <1>1, EndedQueue DEF Inert, Quiet, Uses, Notes
  <2>2. \A g : Ended(g) => Kept(g, n).reopened
    BY KeptReopens DEF Ended, Connection
  <2> QED
    BY <1>3, <2>1, <2>2 DEF KeepRest, Notify
<1>4. SendLen \in Nat /\ \A nwrote \in 0..SendLen - 1 : SendLen - nwrote \in Nat
  BY LenAssumption
<1>5. Quiet(d, d) /\ Quiet(d, Queue(d, "writeComplete"))
  BY <1>1, EndedQueue DEF Inert, Quiet, Uses, Notes
<1>6. CASE e = d \/ e \in Notify(d, "writeComplete")
  BY <1>1, <1>5, <1>6 DEF Notify, Quiet, Inert
<1> QED
  BY <1>2, <1>3, <1>4, <1>6

LEMMA EndedShutdownInLoop ==
    ASSUME NEW c, Ended(c) PROVE Inert(c, ShutdownInLoop(c))
BY DEF Inert, Ended, Connection, ShutdownInLoop

\* removeConnectionInLoop, here or when the base loop runs it.
LEMMA EndedRemoveInLoop ==
    ASSUME NEW c, Ended(c), NEW d, d = RemoveConnectionInLoop(c)
    PROVE  /\ Ended(d) /\ d.chan = c.chan
           /\ ~d.inMap /\ d.removals = c.removals
           /\ "connectDestoryed" \in Elements(d.tasks)
<1>1. Append(c.tasks, "connectDestoryed") \in Seq(Functor)
  BY AppendProperties DEF Ended, Connection, Functor, SharedFunctor
<1>2. Elements(Append(c.tasks, "connectDestoryed"))
          = Elements(c.tasks) \cup {"connectDestoryed"}
  BY ElementsOfAppend DEF Ended, Connection
<1>3. /\ d \in Connection /\ d.up = c.up /\ d.down = c.down /\ d.chan = c.chan
      /\ d.reopened = c.reopened
      /\ d.state = c.state /\ ~d.inMap /\ d.removals = c.removals
      /\ d.tasks = Append(c.tasks, "connectDestoryed")
  BY <1>1 DEF Ended, Connection, RemoveConnectionInLoop, Queue
<1> QED
  BY <1>2, <1>3 DEF Ended

\* handleClose leaves the removal to the base loop, or does it there and then.
Removal(c) ==
    \/ /\ c.inMap /\ c.removals = 1
       /\ Elements(c.tasks) \subseteq Uses
    \/ /\ ~c.inMap /\ c.removals = 0
       /\ "connectDestoryed" \in Elements(c.tasks)

LEMMA HandleCloseEnds ==
    ASSUME NEW c, Serves(c), NEW f \in HandleClose(c)
    PROVE  Ended(f) /\ f.chan.index = "kDeleted" /\ Removal(f)
<1> DEFINE b == SetState(c, "kDisconnected")
           u == Updated(DisableAll(c.chan))
           d == [b EXCEPT !.chan = u]
           g == [d EXCEPT !.down = @ + 1]
<1>1. u \in Channel /\ u.index = "kDeleted" /\ u.events = {}
  BY WatchedChannel DEF Serves, Connection
<1>2. /\ b \in Connection /\ b.up = 1 /\ b.down = 0 /\ ~b.reopened
      /\ b.inMap /\ b.removals = 0
      /\ b.state = "kDisconnected" /\ Elements(b.tasks) \subseteq Uses
  BY DEF Serves, SetState, Connection, StateE
<1>3. PICK e \in UserCallback(g) : f = RemoveConnection(e)
  BY DEF HandleClose, SetChannel
<1> HIDE DEF b, u
<1>4. /\ d \in Connection /\ d.up = 1 /\ d.down = 0 /\ ~d.reopened
      /\ d.inMap /\ d.removals = 0
      /\ d.state = "kDisconnected" /\ d.chan = u /\ Elements(d.tasks) \subseteq Uses
  BY <1>1, <1>2 DEF Connection
<1> HIDE DEF d
<1>5. /\ Ended(g) /\ g.chan = u /\ g.inMap /\ g.removals = 0
      /\ Elements(g.tasks) \subseteq Uses
  BY <1>1, <1>4 DEF Ended, Connection
<1> HIDE DEF g
<1>6. /\ Ended(e) /\ e.chan = u /\ e.inMap /\ e.removals = 0
      /\ Elements(e.tasks) \subseteq Uses
  BY <1>5, EndedUserCallback DEF Inert
<1>7. CASE e.atBase
  <2>1. f = RemoveConnectionInLoop(e)
    BY <1>3, <1>7 DEF RemoveConnection
  <2> QED
    BY <1>1, <1>6, <2>1, EndedRemoveInLoop DEF Removal
<1>8. CASE ~e.atBase
  <2>1. f = [e EXCEPT !.removals = @ + 1]
    BY <1>3, <1>8 DEF RemoveConnection
  <2>2. /\ Ended(f) /\ f.chan = u /\ f.inMap /\ f.removals = 1
        /\ f.tasks = e.tasks
    BY <1>6, <2>1 DEF Ended, Connection
  <2> QED
    BY <1>1, <1>6, <2>2 DEF Removal
<1> QED
  BY <1>7, <1>8

LEMMA EndedConnectDestoryed ==
    ASSUME NEW c, Ended(c), NEW d, d = ConnectDestoryed(c)
    PROVE  /\ Ended(d) /\ d.chan.index = "kNew"
           /\ d.tasks = c.tasks /\ d.inMap = c.inMap /\ d.removals = c.removals
<1>1. d = [c EXCEPT !.chan = Removed(@)]
  BY DEF ConnectDestoryed, Ended
<1>2. Removed(c.chan) \in Channel /\ Removed(c.chan).index = "kNew"
      /\ Removed(c.chan).events = c.chan.events
  BY DEF Removed, Ended, Connection, Channel, Index
<1> QED
  BY <1>1, <1>2 DEF Ended, Connection

-----------------------------------------------------------------------------
(* The steps of the system. *)

CallbackStep ==
    /\ todo # <<>> /\ todo' = Tail(todo) /\ batch' = batch
    /\ \/ Head(todo) = "accept" /\ conn' \in ConnectEstablished(conn)
       \/ Head(todo) = "read" /\ conn' \in UserCallback(conn)
       \/ Head(todo) \in {"read", "close"} /\ conn' \in HandleClose(conn)
       \/ Head(todo) \in {"read", "error"} /\ conn' = conn
       \/ Head(todo) = "write" /\ conn' \in HandleWrite(conn)

LEMMA CallsOnlyGrow ==
    ASSUME TypeOK, [Next]_vars, ~CallbacksOnly PROVE ~CallbacksOnly'
<1>1. PICK u \in Users : calls[u] # 0
  BY DEF CallbacksOnly
<1>2. calls[u] \in Nat /\ calls \in [Users -> 0..MaxCalls]
  BY BoundsAssumption DEF TypeOK
<1>3. calls' = calls \/ \E v \in Users : calls' = [calls EXCEPT ![v] = @ + 1]
  BY DEF Next, vars, LoopStep, FinishCall, PollReports, PollOther, AcceptHere,
         HandleReadMessage, HandleReadClose, HandleReadError, CloseCallback,
         ErrorCallback, WriteCallback, Callback, NextCallback, StartBatch,
         RunFunctor, BatchDone, RunDangling, BaseLoop, BaseBatchDone, SendTest,
         SendQueue,
         ShutdownTest, ShutdownSet, ShutdownQueue, DropPtr, EnterCall, UserStep,
         PeerSends, PeerCloses, PeerResets, Peer
<1>4. calls'[u] = calls[u] \/ calls'[u] = calls[u] + 1
  BY <1>2, <1>3
<1>5. calls'[u] # 0
  BY <1>1, <1>2, <1>4
<1> QED
  BY <1>5 DEF CallbacksOnly

\* A step of another thread that changes the connection: the thread holds a
\* pointer.
UserCall ==
    /\ \E u \in Users : holds[u] /\ (ShutdownTest(u) \/ FinishCall(u))
    /\ UNCHANGED <<todo, batch>>
    /\ \/ conn' = [conn EXCEPT !.shutCalled = TRUE]
       \/ conn' = SetState(conn, "kDisconnecting")
       \/ \E f \in RawFunctor : conn' = Queue(conn, f)

Idle ==
    /\ UNCHANGED <<conn, todo, batch>>
    /\ \A u \in Users : holds'[u] => holds[u]

\* What the loops, the peer and a thread that leaves the connection alone do.
OtherStep ==
    \/ Idle
    \/ \E room \in BOOLEAN : PollReports(room)
    \/ CallbackStep \/ StartBatch \/ RunFunctor \/ BaseLoop

LEMMA StepKinds ==
    ASSUME TypeOK, [Next]_vars PROVE UserCall \/ OtherStep
<1> USE DEF OtherStep
<1>1. CASE AcceptHere \/ HandleReadMessage \/ HandleReadClose \/ HandleReadError
           \/ CloseCallback \/ ErrorCallback \/ WriteCallback
  BY <1>1 DEF AcceptHere, HandleReadMessage, HandleReadClose, HandleReadError,
              CloseCallback, ErrorCallback, WriteCallback, Callback,
              NextCallback, CallbackStep
<1>2. CASE PollOther \/ BatchDone \/ BaseBatchDone \/ RunDangling
           \/ PeerSends \/ PeerCloses \/ PeerResets \/ UNCHANGED vars
  BY <1>2 DEF PollOther, BatchDone, BaseBatchDone, RunDangling, PeerSends, PeerCloses,
              PeerResets, Peer, vars, Idle
<1>3. ASSUME NEW u \in Users, SendTest(u) PROVE Idle
  BY <1>3 DEF SendTest, UserStep, Idle
<1>4. ASSUME NEW u \in Users, DropPtr(u) PROVE Idle
  BY <1>4 DEF DropPtr, Idle, TypeOK
<1>5. ASSUME NEW u \in Users, ShutdownTest(u) \/ FinishCall(u) PROVE UserCall
  BY <1>5 DEF FinishCall, ShutdownTest, SendQueue, ShutdownSet, ShutdownQueue,
              UserStep, UserCall, RawFunctor
<1> QED
  BY <1>1, <1>2, <1>3, <1>4, <1>5 DEF Next, LoopStep

LEMMA MadeStep ==
    ASSUME TypeOK, [Next]_vars, Made
    PROVE  Made' \/ Up'
<1>1. conn \in Connection
  BY DEF TypeOK
<1>2. Elements(<<>>) = {}
  BY DEF Elements
<1>3. CASE Idle
  BY <1>3 DEF Made, Idle
<1>4. ~\E room \in BOOLEAN : PollReports(room)
  BY DEF PollReports, ReportedEvents, Made, NewChannel
<1>5. CASE CallbackStep
  <2>1. todo = <<"accept">> /\ batch = <<>> /\ conn.tasks = <<>>
    BY <1>5 DEF Made, CallbackStep
  <2>2. todo' = <<>> /\ batch' = <<>> /\ conn' \in ConnectEstablished(conn)
    BY <1>5, <2>1 DEF CallbackStep
  <2>3. Serves(conn')
    BY <1>1, <1>2, <2>1, <2>2, EstablishedServes DEF Made
  <2> QED
    BY <1>2, <2>2, <2>3 DEF Up, OneClose
<1>6. CASE StartBatch
  <2>1. /\ todo' = <<>> /\ batch = <<>> /\ conn.tasks = <<"connectEstablished">>
        /\ batch' = conn.tasks /\ conn' = [conn EXCEPT !.tasks = <<>>]
        /\ holds' = holds
    BY <1>6 DEF StartBatch, Made, TypeOK
  <2>2. /\ conn'.up = conn.up /\ conn'.down = conn.down /\ conn'.tasks = <<>>
        /\ conn'.inMap = conn.inMap /\ conn'.removals = conn.removals
        /\ conn'.chan = conn.chan /\ conn'.reopened = conn.reopened
    BY <1>1, <2>1 DEF Connection
  <2> QED
    BY <2>1, <2>2 DEF Made
<1>7. CASE RunFunctor
  <2>1. todo = <<>> /\ batch = <<"connectEstablished">> /\ conn.tasks = <<>>
    BY <1>7 DEF RunFunctor, Made
  <2>2. todo' = <<>> /\ batch' = <<>> /\ conn' \in ConnectEstablished(conn)
    BY <1>7, <2>1 DEF RunFunctor, Run
  <2>3. Serves(conn')
    BY <1>1, <1>2, <2>1, <2>2, EstablishedServes DEF Made
  <2> QED
    BY <1>2, <2>2, <2>3 DEF Up, OneClose
<1>8. ~BaseLoop /\ ~UserCall
  BY DEF BaseLoop, UserCall, Made
<1> QED
  BY <1>3, <1>4, <1>5, <1>6, <1>7, <1>8, StepKinds DEF OtherStep

LEMMA UpStep ==
    ASSUME TypeOK, [Next]_vars, Up
    PROVE  Up' \/ (Down' /\ conn'.chan.index = "kDeleted")
<1>1. /\ conn \in Connection /\ batch \in Seq(Functor)
      /\ todo \in Seq({"accept", "close", "error", "read", "write"})
      /\ conn.tasks \in Seq(Functor)
  BY DEF TypeOK, Connection
<1>2. CASE Idle
  BY <1>2 DEF Up, Idle
<1>3. ASSUME NEW room \in BOOLEAN, PollReports(room) PROVE Up'
  BY <1>3, CallbacksCloseOnce DEF PollReports, Up
<1>4. CASE CallbackStep
  <2>1. /\ OneClose(todo') /\ "accept" \notin Elements(todo')
        /\ Head(todo) \in Closing => Calm(todo')
        /\ Head(todo) # "accept" /\ batch' = batch
    BY <1>1, <1>4, TailOfTodo, ElementsOfTail DEF CallbackStep, Up
  <2>2. CASE Serves(conn')
    BY <2>1, <2>2 DEF Up
  <2>3. CASE Head(todo) \in {"read", "close"} /\ conn' \in HandleClose(conn)
    <3>1. Ended(conn') /\ conn'.chan.index = "kDeleted" /\ Removal(conn')
      BY <2>3, HandleCloseEnds DEF Up
    <3>2. Calm(todo')
      BY <2>1, <2>3 DEF Closing
    <3>3. "connectDestoryed" \notin Uses
      BY DEF Uses, Notes, RawFunctor
    <3> QED
      BY <2>1, <3>1, <3>2, <3>3 DEF Up, Down, Removal, Pending
  <2> QED
    BY <1>4, <2>1, <2>2, <2>3, ServesUserCallback, ServesHandleWrite
       DEF CallbackStep, Up
<1>5. CASE StartBatch
  <2>1. /\ todo' = todo /\ batch' = conn.tasks
        /\ conn' = [conn EXCEPT !.tasks = <<>>]
    BY <1>5 DEF StartBatch
  <2>2. Elements(<<>>) = {} /\ <<>> \in Seq(Functor)
    BY DEF Elements
  <2>3. Serves(conn')
    BY <2>1, <2>2 DEF Up, Serves, Connection
  <2> QED
    BY <2>1, <2>3 DEF Up, Serves
<1>6. CASE RunFunctor
  <2>1. /\ Elements(batch') \subseteq Elements(batch) /\ Head(batch) \in Uses
        /\ todo' = todo /\ conn' \in Run(Head(batch), conn)
    BY <1>1, <1>6, ElementsOfTail DEF RunFunctor, Up
  <2>2. \/ conn' \in UserCallback(conn)
        \/ conn' \in SendInLoop(conn)
        \/ conn' = ShutdownInLoop(conn)
    BY <2>1 DEF Run, Uses, Notes, RawFunctor
  <2>3. Serves(conn')
    BY <2>2, ServesUserCallback, ServesSendInLoop, ServesShutdownInLoop DEF Up
  <2> QED
    BY <2>1, <2>3 DEF Up
<1>7. ~BaseLoop
  BY DEF BaseLoop, Up, Serves
<1>8. CASE UserCall
  <2>1. Serves(conn')
    <3>1. Serves([conn EXCEPT !.shutCalled = TRUE])
      BY ServesFields DEF Up
    <3>2. Serves(SetState(conn, "kDisconnecting"))
      BY ServesSetState DEF Up, StateE
    <3>3. \A f \in RawFunctor : Serves(Queue(conn, f))
      BY ServesQueue DEF Up, Uses
    <3> QED
      BY <1>8, <3>1, <3>2, <3>3 DEF UserCall
  <2> QED
    BY <1>8, <2>1 DEF Up, UserCall
<1> QED
  BY <1>2, <1>3, <1>4, <1>5, <1>6, <1>7, <1>8, StepKinds DEF OtherStep

\* The end comes after the table has forgotten the connection, and for good.
LEMMA DownStep ==
    ASSUME TypeOK, [Next]_vars, Down
    PROVE  \/ conn'.reopened /\ RunFunctor /\ Head(batch) = "sendInLoop"
           \/ /\ Down'
              /\ conn'.inMap => conn.inMap
              /\ conn'.chan.index # conn.chan.index
                   => conn'.chan.index = "kNew" /\ ~conn.inMap
<1>1. /\ conn \in Connection /\ batch \in Seq(Functor)
      /\ todo \in Seq({"accept", "close", "error", "read", "write"})
      /\ conn.tasks \in Seq(Functor)
  BY DEF TypeOK, Connection
<1>2. ASSUME Quiet(conn, conn'), Calm(todo'),
             Elements(batch') \subseteq Elements(batch),
             Elements(batch) \subseteq Elements(batch') \cup Uses
      PROVE  /\ Down' /\ conn'.inMap = conn.inMap
             /\ conn'.chan.index = conn.chan.index
  <2>1. "connectDestoryed" \notin Uses
    BY DEF Uses, Notes, RawFunctor
  <2>2. "connectDestoryed" \in Pending <=> "connectDestoryed" \in Pending'
    BY <1>2, <2>1 DEF Quiet, Pending
  <2> QED
    BY <1>2, <2>2 DEF Down, Quiet
<1>3. CASE Idle
  <2>1. Quiet(conn, conn) /\ conn' = conn
    BY <1>3 DEF Quiet, Down, Idle
  <2> QED
    BY <1>2, <1>3, <2>1 DEF Down, Idle
<1>4. ~\E room \in BOOLEAN : PollReports(room)
  BY DEF PollReports, ReportedEvents, Down, Ended
<1>5. CASE CallbackStep
  <2>1. Elements(todo') \subseteq Elements(todo) /\ Head(todo) \in Elements(todo)
    BY <1>1, <1>5, ElementsOfTail DEF CallbackStep
  <2>2. Calm(todo') /\ Head(todo) \notin Closing
    BY <2>1 DEF Down, Calm
  <2>3. HandleWrite(conn) = {conn}
    BY DEF HandleWrite, isWriting, Down, Ended
  <2>4. conn' = conn /\ batch' = batch
    BY <1>5, <2>2, <2>3 DEF CallbackStep, Closing
  <2>5. Quiet(conn, conn)
    BY DEF Quiet, Down
  <2> QED
    BY <1>2, <2>2, <2>4, <2>5
<1>6. CASE StartBatch
  <2>1. /\ todo' = todo /\ batch = <<>> /\ batch' = conn.tasks
        /\ conn' = [conn EXCEPT !.tasks = <<>>]
    BY <1>6 DEF StartBatch, TypeOK
  <2>2. Elements(<<>>) = {} /\ <<>> \in Seq(Functor)
    BY DEF Elements
  <2>3. /\ Ended(conn') /\ conn'.chan = conn.chan /\ conn'.inMap = conn.inMap
        /\ conn'.removals = conn.removals /\ conn'.tasks = <<>>
    BY <2>1, <2>2 DEF Down, Ended, Connection
  <2>4. Pending' = Pending
    BY <2>1, <2>2, <2>3 DEF Pending
  <2> QED
    BY <2>1, <2>3, <2>4 DEF Down, Ended
<1>7. CASE RunFunctor
  <2>1. /\ Elements(batch') \subseteq Elements(batch)
        /\ Head(batch) \in Elements(batch)
        /\ Elements(batch) \subseteq {Head(batch)} \cup Elements(batch')
        /\ todo' = todo /\ conn' \in Run(Head(batch), conn)
    BY <1>1, <1>7, ElementsOfTail, ElementsHeadTail DEF RunFunctor
  <2>2. CASE Head(batch) = "connectDestoryed"
    <3>1. /\ Ended(conn') /\ conn'.chan.index = "kNew"
          /\ conn'.inMap = conn.inMap /\ conn'.removals = conn.removals
      BY <2>1, <2>2, EndedConnectDestoryed DEF Run, Down
    <3>2. ~conn.inMap /\ conn.removals = 0
      BY <2>1, <2>2 DEF Down, Pending
    <3> QED
      BY <2>1, <3>1, <3>2 DEF Down
  <2>3. CASE Head(batch) # "connectDestoryed"
    <3>1. Head(batch) \in Uses
      BY <2>1, <2>3 DEF Down
    <3>2. \/ conn' \in UserCallback(conn)
          \/ Head(batch) = "sendInLoop" /\ conn' \in SendInLoop(conn)
          \/ conn' = ShutdownInLoop(conn)
      BY <2>1, <3>1 DEF Run, Uses, Notes, RawFunctor
    <3>3. \/ Head(batch) = "sendInLoop" /\ conn'.reopened
          \/ Quiet(conn, conn')
      BY <3>2, EndedUserCallback, EndedSendInLoop, EndedShutdownInLoop
         DEF Down, Inert, Quiet
    <3> QED
      BY <1>2, <1>7, <2>1, <3>1, <3>3 DEF Down
  <2> QED
    BY <2>2, <2>3
<1>8. CASE BaseLoop
  <2> DEFINE c == [conn EXCEPT !.removals = @ - 1]
  <2>1. /\ conn.removals = 1 /\ conn.inMap /\ conn.chan.index = "kDeleted"
        /\ conn' = RemoveConnectionInLoop(c) /\ todo' = todo /\ batch' = batch
    BY <1>8 DEF BaseLoop, Down
  <2>2. Ended(c) /\ c.removals = 0 /\ c.chan = conn.chan
    BY <2>1 DEF Down, Ended, Connection
  <2> HIDE DEF c
  <2>3. /\ Ended(conn') /\ conn'.chan = conn.chan
        /\ ~conn'.inMap /\ conn'.removals = 0
        /\ "connectDestoryed" \in Elements(conn'.tasks)
    BY <2>1, <2>2, EndedRemoveInLoop
  <2> QED
    BY <2>1, <2>3 DEF Down, Pending
<1>9. CASE UserCall
  <2>1. /\ Inert(conn, [conn EXCEPT !.shutCalled = TRUE])
        /\ Inert(conn, SetState(conn, "kDisconnecting"))
    <3>1. Ended(conn)
      BY DEF Down
    <3>2. Inert(conn, [conn EXCEPT !.shutCalled = TRUE])
      BY <3>1 DEF Inert, Ended, Connection
    <3>3. Inert(conn, SetState(conn, "kDisconnecting"))
      BY <3>1 DEF Inert, Ended, Connection, SetState, StateE
    <3> QED
      BY <3>2, <3>3
  <2>2. ASSUME NEW f \in RawFunctor, conn' = Queue(conn, f)
        PROVE  Quiet(conn, conn')
    BY <2>2, EndedQueue DEF Down, Uses
  <2> QED
    BY <1>2, <1>9, <2>1, <2>2 DEF UserCall, Down, Inert, Quiet
<1> QED
  BY <1>3, <1>4, <1>5, <1>6, <1>7, <1>8, <1>9, StepKinds DEF OtherStep

\* A functor of a callback is bound to a pointer: it finds the connection.
LEMMA NoDanglingCallback ==
    ASSUME TypeOK, Pending \cap RawFunctor = {} PROVE ~RunDangling
<1> SUFFICES ASSUME batch # <<>> PROVE Alive
  BY DEF RunDangling
<1>1. Head(batch) \in Elements(batch) /\ Head(batch) \in Functor
  BY ElementsOfTail DEF TypeOK
<1>2. Head(batch) \in SharedFunctor
  BY <1>1 DEF Pending, Functor
<1> QED
  BY <1>1, <1>2 DEF Alive

\* No step of the loops queues a functor that holds a raw this.
LEMMA LoopsShare ==
    ASSUME IInv, OtherStep
    PROVE  Pending' \subseteq Pending \cup SharedFunctor
<1>1. /\ TypeOK /\ Good(conn) /\ conn \in Connection
      /\ batch \in Seq(Functor) /\ conn.tasks \in Seq(Functor)
      /\ NotDestroyedEarly(conn, batch) /\ conn.down \in Nat
  BY DEF IInv, TypeOK, Connection
<1>2. ASSUME Shares(conn, conn'), Elements(batch') \subseteq Elements(batch)
      PROVE  Pending' \subseteq Pending \cup SharedFunctor
  BY <1>2 DEF Shares, Pending
<1>3. CASE Idle
  BY <1>3 DEF Idle, Pending
<1>4. ASSUME NEW room \in BOOLEAN, PollReports(room)
      PROVE  Pending' \subseteq Pending
  BY <1>4 DEF PollReports, Pending
<1>5. CASE CallbackStep
  <2>1. Shares(conn, conn')
    BY <1>1, <1>5, GoodConnectEstablished, GoodUserCallback, GoodHandleClose,
       GoodHandleWrite DEF CallbackStep, GoodCall, Shares
  <2> QED
    BY <1>2, <1>5, <2>1 DEF CallbackStep
<1>6. CASE StartBatch
  <2>1. /\ batch' = conn.tasks /\ conn' = [conn EXCEPT !.tasks = <<>>]
    BY <1>6 DEF StartBatch
  <2>2. Elements(conn'.tasks) = {}
    BY <1>1, <2>1 DEF Connection, Elements
  <2> QED
    BY <2>1, <2>2 DEF Pending
<1>7. CASE RunFunctor
  <2>1. /\ Elements(batch') \subseteq Elements(batch)
        /\ Head(batch) \in Elements(batch) /\ Head(batch) \in Functor
        /\ conn' \in Run(Head(batch), conn)
    BY <1>1, <1>7, ElementsOfTail DEF RunFunctor
  <2>2. Head(batch) = "connectDestoryed" => conn.down > 0
    BY <1>1, <2>1 DEF NotDestroyedEarly
  <2>3. Shares(conn, conn')
    BY <1>1, <2>1, <2>2, GoodRun DEF GoodCall
  <2> QED
    BY <1>2, <2>1, <2>3
<1>8. CASE BaseLoop
  <2> DEFINE c == [conn EXCEPT !.removals = @ - 1]
  <2>1. conn.removals > 0 /\ conn' = RemoveConnectionInLoop(c) /\ batch' = batch
    BY <1>8 DEF BaseLoop
  <2>2. conn.down > 0
    BY <1>1, <2>1 DEF IInv, InMapUntilDown
  <2>3. /\ c \in Connection /\ c.down = conn.down
        /\ c.chan = conn.chan /\ c.output = conn.output
        /\ c.wrShut = conn.wrShut /\ c.tasks = conn.tasks
    BY <1>1, <2>1 DEF Connection
  <2> HIDE DEF c
  <2>4. Good(c) /\ c.down > 0
    BY <1>1, <2>2, <2>3 DEF Good, Scheduled, NotCutOff, NotDestroyedEarly
  <2>5. Shares(conn, conn')
    BY <2>1, <2>3, <2>4, GoodRemoveConnectionInLoop DEF Shares
  <2> QED
    BY <1>2, <2>1, <2>5
<1> QED
  BY <1>1, <1>3, <1>4, <1>5, <1>6, <1>7, <1>8, StepKinds DEF OtherStep

\* While no thread has called send() or shutdown(), none is on its way in one.
LEMMA CallbacksStep ==
    ASSUME TypeOK, [Next]_vars, CallbacksOnly, CallbacksOnly', Untouched
    PROVE  at' = at /\ OtherStep /\ ~usedAfterFree'
<1>1. ASSUME NEW u \in Users PROVE ~SendTest(u) /\ ~ShutdownTest(u)
  <2>1. calls[u] = 0 /\ calls'[u] = 0 /\ calls \in [Users -> 0..MaxCalls]
    BY DEF CallbacksOnly, TypeOK
  <2> QED
    BY <2>1 DEF SendTest, ShutdownTest, EnterCall
<1>2. ASSUME NEW u \in Users PROVE ~FinishCall(u)
  BY DEF Untouched, FinishCall, SendQueue, ShutdownSet, ShutdownQueue, UserStep
<1>3. ~\E u \in Users : SendTest(u) \/ ShutdownTest(u) \/ FinishCall(u)
  BY <1>1, <1>2
<1>4. OtherStep
  BY <1>1, <1>2, StepKinds DEF UserCall
<1>5. ~RunDangling
  BY NoDanglingCallback DEF Untouched
<1>6. CASE AcceptHere \/ HandleReadMessage \/ HandleReadClose \/ HandleReadError
           \/ CloseCallback \/ ErrorCallback \/ WriteCallback
  BY <1>4, <1>6
     DEF AcceptHere, HandleReadMessage, HandleReadClose, HandleReadError,
         CloseCallback, ErrorCallback, WriteCallback, Callback, NextCallback,
         Untouched
<1>7. CASE \/ \E room \in BOOLEAN : PollReports(room)
           \/ PollOther \/ StartBatch \/ RunFunctor \/ BatchDone \/ BaseLoop
           \/ BaseBatchDone \/ PeerSends \/ PeerCloses \/ PeerResets
  <2>1. UNCHANGED <<at, usedAfterFree>>
    BY <1>7 DEF PollReports, PollOther, StartBatch, RunFunctor, BatchDone,
                BaseLoop, BaseBatchDone, PeerSends, PeerCloses, PeerResets, Peer
  <2> QED
    BY <1>4, <2>1 DEF Untouched
<1>8. CASE (\E u \in Users : DropPtr(u)) \/ UNCHANGED vars
  <2>1. UNCHANGED <<at, usedAfterFree>>
    BY <1>8 DEF DropPtr, vars
  <2> QED
    BY <1>4, <2>1 DEF Untouched
<1>9. CASE Next
  <2>1. CASE LoopStep
    BY <1>6, <1>7, <2>1 DEF LoopStep
  <2> QED
    BY <1>3, <1>5, <1>7, <1>8, <1>9, <2>1 DEF Next
<1> QED
  BY <1>8, <1>9

-----------------------------------------------------------------------------
LEMMA InitLInv == Init => Made /\ LInv
<1> SUFFICES ASSUME Init PROVE Made /\ LInv
  OBVIOUS
<1>1. PICK atBase \in BOOLEAN : conn = NewConnection(atBase)
  BY DEF Init
<1>2. Made
  BY <1>1 DEF Init, Made, NewConnection
<1>3. Pending \cap RawFunctor = {}
  BY <1>1 DEF Init, NewConnection, Pending, Elements, RawFunctor
<1> QED
  BY <1>2, <1>3 DEF Init, LInv, Untouched, Made

LEMMA NextLInv == IInv /\ LInv /\ [Next]_vars => LInv'
<1> SUFFICES ASSUME IInv, LInv, [Next]_vars PROVE LInv'
  OBVIOUS
<1>1. TypeOK
  BY DEF IInv
<1>2. conn'.reopened \/ Made' \/ Up' \/ Down'
  <2>1. CASE conn.reopened
    BY <2>1, NextGood
  <2> QED
    BY <1>1, <2>1, MadeStep, UpStep, DownStep DEF LInv
<1>3. ASSUME CallbacksOnly' PROVE Untouched'
  <2>1. CallbacksOnly /\ Untouched
    BY <1>1, <1>3, CallsOnlyGrow DEF LInv
  <2>2. at' = at /\ OtherStep /\ ~usedAfterFree'
    BY <1>1, <1>3, <2>1, CallbacksStep
  <2>3. Pending' \cap RawFunctor = {}
    BY <2>1, <2>2, LoopsShare DEF Untouched, SharedFunctor, RawFunctor
  <2>4. ~(RunFunctor /\ Head(batch) = "sendInLoop")
    BY <1>1, <2>1, ElementsOfTail
       DEF Untouched, Pending, RunFunctor, RawFunctor, TypeOK
  <2>5. ~conn'.reopened
    <3>1. Made \/ Up \/ Down
      BY <2>1 DEF LInv, Untouched
    <3>2. Made' \/ Up' \/ Down'
      BY <1>1, <2>4, <3>1, MadeStep, UpStep, DownStep
    <3> QED
      BY <3>2 DEF Made, Up, Down, Serves, Ended
  <2> QED
    BY <2>1, <2>2, <2>3, <2>5 DEF Untouched
<1> QED
  BY <1>2, <1>3 DEF LInv

(* Every connection is in one of the three stretches, or was opened again.    *)
THEOREM LifeInductive == Spec => []LInv
<1>1. Init => LInv
  BY InitLInv
<1> QED
  BY <1>1, NextLInv, Inductive, PTL DEF Spec

(* When the last TcpConnectionPtr is gone, channels_ has no pointer to the    *)
(* channel, unless sendInLoop has put it back there: connectDestoryed, which  *)
(* removes it, is queued with a pointer.                                      *)
THEOREM DestroyedIsGone == Spec => []GoneFromPoller
<1>1. LInv => GoneFromPoller
  <2> SUFFICES ASSUME LInv, ~conn.reopened, ~Alive
               PROVE  conn.chan.index = "kNew"
    BY DEF GoneFromPoller
  <2>1. ~conn.inMap /\ "connectDestoryed" \notin Pending
    BY DEF Alive, Pending, SharedFunctor
  <2>2. ~Made /\ ~Up
    BY <2>1 DEF Made, Up, Serves
  <2> QED
    BY <2>1, <2>2 DEF LInv, Down
<1> QED
  BY <1>1, LifeInductive, PTL

(* Callbacks alone neither open a connection again after its end nor leave a  *)
(* functor behind that finds it destroyed, however late they run and whatever *)
(* they call.                                                                 *)
THEOREM CallbacksDoNoHarm == Spec => []CallbacksAreSafe
<1>1. LInv => CallbacksAreSafe
  BY DEF LInv, Untouched, CallbacksAreSafe
<1> QED
  BY <1>1, LifeInductive, PTL

(* Whichever threads use it, a connection that was not opened again after its *)
(* end is never left behind: it is about to be set up, or its channel waits   *)
(* for EPOLLIN in the poller, or a functor is on its way that removes it, or  *)
(* it has left both the server's map and the poller.                          *)
NeverLeftBehind ==
    ~conn.reopened =>
        \/ "accept" \in Elements(todo) \/ "connectEstablished" \in Pending
        \/ conn.down = 0 /\ conn.chan.index = "kAdded"
                         /\ "EPOLLIN" \in conn.chan.events
        \/ conn.removals > 0 \/ "connectDestoryed" \in Pending
        \/ ~conn.inMap /\ conn.chan.index = "kNew"

(* Something will set a connection up, close it or remove it, at any time.    *)
THEOREM ConnectionIsAttended == Spec => []NeverLeftBehind
<1>1. LInv => NeverLeftBehind
  <2> SUFFICES ASSUME LInv, ~conn.reopened PROVE NeverLeftBehind
    BY DEF NeverLeftBehind
  <2>1. CASE Made
    <3>1. \A x : x \in Elements(<<x>>)
      BY DEF Elements
    <3> QED
      BY <2>1, <3>1 DEF Made, Pending, NeverLeftBehind
  <2>2. CASE Up
    BY <2>2 DEF Up, Serves, NeverLeftBehind
  <2>3. CASE Down
    BY <2>3 DEF Down, NeverLeftBehind
  <2> QED
    BY <2>1, <2>2, <2>3 DEF LInv
<1> QED
  BY <1>1, LifeInductive, PTL

-----------------------------------------------------------------------------
(* The phase of each stretch. *)

LEMMA PhaseOf ==
    /\ ~conn.reopened /\ Made =>
              Phase = "made" /\ conn.inMap /\ conn.chan.index = "kNew"
    /\ ~conn.reopened /\ Up =>
              Phase = "up" /\ conn.inMap /\ conn.chan.index = "kAdded"
    /\ ~conn.reopened /\ Down =>
              /\ Phase = IF conn.chan.index = "kNew" THEN "ended" ELSE "down"
              /\ conn.chan.index # "kAdded"
<1>1. ~conn.reopened /\ Made =>
          Phase = "made" /\ conn.inMap /\ conn.chan.index = "kNew"
  BY DEF Phase, Made, NewChannel
<1>2. ~conn.reopened /\ Up =>
          Phase = "up" /\ conn.inMap /\ conn.chan.index = "kAdded"
  BY DEF Phase, Up, Serves
<1>3. ~conn.reopened /\ Down =>
          /\ Phase = IF conn.chan.index = "kNew" THEN "ended" ELSE "down"
          /\ conn.chan.index # "kAdded"
  BY DEF Phase, Down, Ended
<1> QED
  BY <1>1, <1>2, <1>3

LEMMA PhaseOfNext ==
    /\ ~conn'.reopened /\ Made' =>
              Phase' = "made" /\ conn'.inMap /\ conn'.chan.index = "kNew"
    /\ ~conn'.reopened /\ Up' =>
              Phase' = "up" /\ conn'.inMap /\ conn'.chan.index = "kAdded"
    /\ ~conn'.reopened /\ Down' =>
              /\ Phase' = IF conn'.chan.index = "kNew" THEN "ended" ELSE "down"
              /\ conn'.chan.index # "kAdded"
<1>1. ~conn'.reopened /\ Made' =>
          Phase' = "made" /\ conn'.inMap /\ conn'.chan.index = "kNew"
  BY DEF Phase, Made, NewChannel
<1>2. ~conn'.reopened /\ Up' =>
          Phase' = "up" /\ conn'.inMap /\ conn'.chan.index = "kAdded"
  BY DEF Phase, Up, Serves
<1>3. ~conn'.reopened /\ Down' =>
          /\ Phase' = IF conn'.chan.index = "kNew" THEN "ended" ELSE "down"
          /\ conn'.chan.index # "kAdded"
  BY DEF Phase, Down, Ended
<1> QED
  BY <1>1, <1>2, <1>3

LEMMA NextLife ==
    ASSUME IInv, TypeOK', LInv, [Next]_vars
    PROVE  [Life!Next]_<<Phase, conn.inMap, conn.chan.index = "kAdded", FALSE>>
<1> DEFINE Step ==
        [Life!Next]_<<Phase, conn.inMap, conn.chan.index = "kAdded", FALSE>>
<1>1. CASE conn'.reopened
  <2>1. Phase' = "reopened"
    BY <1>1 DEF Phase
  <2>2. TypeOK /\ ~(Made' \/ Up' \/ Down')
    BY <1>1 DEF IInv, Made, Up, Serves, Down, Ended
  <2>3. conn.reopened \/ Down
    BY <2>2, MadeStep, UpStep DEF LInv
  <2>4. Phase \in {"down", "ended", "reopened"}
    BY <2>3, PhaseOf DEF Phase
  <2> QED
    BY <2>1, <2>4 DEF Life!Next, Life!Reopen
<1>2. CASE ~conn'.reopened
  <2>1. ~conn.reopened
    BY <1>2, NextGood
  <2>2. TypeOK
    BY DEF IInv
  <2>3. conn.inMap \in BOOLEAN /\ conn'.inMap \in BOOLEAN
    BY <2>2 DEF TypeOK, Connection
  <2>4. CASE Made /\ Made'
    BY <1>2, <2>1, <2>3, <2>4, PhaseOf, PhaseOfNext
  <2>5. CASE Made /\ Up'
    BY <1>2, <2>1, <2>3, <2>5, PhaseOf, PhaseOfNext
       DEF Life!Next, Life!Establish
  <2>6. CASE Up /\ Up'
    BY <1>2, <2>1, <2>3, <2>6, PhaseOf, PhaseOfNext
  <2>7. CASE Up /\ Down' /\ conn'.chan.index = "kDeleted"
    BY <1>2, <2>1, <2>3, <2>7, PhaseOf, PhaseOfNext DEF Life!Next, Life!Close
  <2>8. CASE Down
    <3>1. /\ Down'
          /\ conn'.inMap => conn.inMap
          /\ conn'.chan.index # conn.chan.index
               => conn'.chan.index = "kNew" /\ ~conn.inMap
      BY <1>2, <2>1, <2>2, <2>8, DownStep
    <3>2. CASE conn'.chan.index = conn.chan.index /\ conn'.inMap = conn.inMap
      BY <1>2, <2>1, <2>8, <3>1, <3>2, PhaseOf, PhaseOfNext
    <3>3. CASE conn'.chan.index = conn.chan.index /\ conn'.inMap # conn.inMap
      <4>1. conn.inMap = TRUE /\ conn'.inMap = FALSE
        BY <2>3, <3>1, <3>3
      <4>2. conn.chan.index # "kNew"
        BY <2>8, <4>1 DEF Down
      <4> QED
        BY <1>2, <2>1, <2>8, <3>1, <3>3, <4>1, <4>2, PhaseOf, PhaseOfNext
           DEF Life!Next, Life!Forget
    <3>4. CASE conn'.chan.index # conn.chan.index
      BY <1>2, <2>1, <2>3, <2>8, <3>1, <3>4, PhaseOf, PhaseOfNext
         DEF Life!Next, Life!End
    <3> QED
      BY <3>2, <3>3, <3>4
  <2> QED
    BY <1>2, <2>1, <2>2, <2>4, <2>5, <2>6, <2>7, <2>8, MadeStep, UpStep DEF LInv
<1> QED
  BY <1>1, <1>2

(* Whichever threads use it, the connection lives as ConnectionLife says, and *)
(* until sendInLoop opens it again: its user hears of its end once, the table *)
(* forgets it after that, and connectDestoryed is the last to touch the       *)
(* poller.                                                                    *)
THEOREM ConnectionLives == Spec => ImplementsConnectionLife
<1>1. Init => Life!Init
  <2> SUFFICES ASSUME Init PROVE Life!Init
    OBVIOUS
  <2>1. Made
    BY InitLInv
  <2>2. conn.inMap = TRUE
    BY DEF Init, NewConnection
  <2>3. Phase = "made" /\ conn.chan.index = "kNew"
    BY <2>1 DEF Phase, Made, NewChannel
  <2> QED
    BY <2>2, <2>3 DEF Life!Init
<1>2. IInv /\ TypeOK' /\ LInv /\ [Next]_vars =>
          [Life!Next]_<<Phase, conn.inMap, conn.chan.index = "kAdded", FALSE>>
  BY NextLife
<1> QED
  BY <1>1, <1>2, LifeInductive, Inductive, TypeCorrect, PTL
     DEF Spec, ImplementsConnectionLife, Life!Spec, Life!lifeVars
=============================================================================
