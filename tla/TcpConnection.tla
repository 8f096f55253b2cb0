---------------------------- MODULE TcpConnection ----------------------------
(***************************************************************************)
(* One connection from TcpServer::newConncetion to its destruction         *)
(* (src/src/TcpConnection.cc, and the part of TcpServer.cc that creates    *)
(* and removes it).  The actors are the loop that serves the connection,   *)
(* the base loop that removes it from the server's map, the user's         *)
(* callbacks, other threads of the user that hold a TcpConnectionPtr, and  *)
(* the peer.                                                               *)
(*                                                                         *)
(* Two modules stand below this one: EventLoop.tla shows that the functors *)
(* of a loop run in the order they were queued, EPollPoller.tla that a     *)
(* channel is in the kernel's interest list exactly when its index is      *)
(* kAdded.  A handler is one step: only state_ is shared with other        *)
(* threads, and these only set it to kDisconnecting.  A user callback that *)
(* reads it after its handler has written it, with such a write between,   *)
(* does nothing, as if the callback had made no call.                      *)
(***************************************************************************)
EXTENDS Channel, Integers, FiniteSets

CONSTANTS
    Users,          \* threads of the user that share the connection
    SendLen,        \* bytes of one send()
    HighWaterMark,  \* highWaterMark_
    MaxCalls,       \* bound: calls of each thread in Users
    MaxData         \* bound: chunks the peer has sent and we have not read

ASSUME LenAssumption == SendLen \in Nat \ {0} /\ HighWaterMark \in Nat \ {0}
ASSUME BoundsAssumption == MaxCalls \in Nat /\ MaxData \in Nat

VARIABLES
    conn,           \* the TcpConnection, the server's reference to it and the
                    \* pendingFunctors_ of the loop that serves it
    net,            \* the kernel's side of the socket
    pc,             \* where the serving loop is
    todo,           \* callbacks still to be run by handleEventWithGuard
    batch,          \* functors of the running doPendingFunctors, yet to run
    ran,            \* loops whose running doPendingFunctors has run a functor
                    \* that is bound to a TcpConnectionPtr: its local vector
                    \* keeps the functor until the whole batch is done
    at,             \* at[u]: where thread u is in send() or shutdown()
    holds,          \* holds[u]: u has a TcpConnectionPtr
    calls,          \* calls[u]: calls u has made
    usedAfterFree   \* history: a functor ran on a destroyed connection

vars == <<conn, net, pc, todo, batch, ran, at, holds, calls, usedAfterFree>>

StateE == {"kDisconnected", "kconnecting", "kConnected", "kDisconnecting"}

\* The functors: those of the first set are bound to a TcpConnectionPtr, those
\* of the second to a raw this.
SharedFunctor == {"connectEstablished", "connectDestoryed", "writeComplete",
                  "highWaterMark"}
RawFunctor == {"sendInLoop", "shutdownInLoop"}
Functor == SharedFunctor \cup RawFunctor

\* The loop that serves the connection, and the base loop where it is another.
Loop == {"serving", "base"}

Connection ==
    [atBase : BOOLEAN,          \* loop_ is the base loop: there is no pool
     state : StateE,            \* state_
     chan : Channel,            \* channel_
     output : Nat,              \* outputBuffer_.readableBytes()
     wrShut : BOOLEAN,          \* shutdownWrite() was called
     up : Nat, down : Nat,      \* history: calls of connectionCallback_
     shutCalled : BOOLEAN,      \* history: the user called shutdown()
     reopened : BOOLEAN,        \* history: bytes were kept after its end, so
                                \* that its channel is back in the poller
     inMap : BOOLEAN,           \* conncetions_ has it
     removals : Nat,            \* removeConnectionInLoop in the base loop
     tasks : Seq(Functor)]      \* pendingFunctors_ of the serving loop

Net == [peer : {"open", "fin", "rst"},  \* what the peer has done last
        err : BOOLEAN,                  \* an error is pending on the socket
        data : 0..MaxData]              \* what there is to read

\* newConncetion has put the connection in the map and is about to start it,
\* in the acceptor's callback (atBase), or has queued that in the serving loop.
NewConnection(atBase) ==
    [atBase |-> atBase, state |-> "kconnecting", chan |-> NewChannel,
     output |-> 0, wrShut |-> FALSE, up |-> 0, down |-> 0, shutCalled |-> FALSE,
     reopened |-> FALSE, inMap |-> TRUE, removals |-> 0,
     tasks |-> IF atBase THEN <<>> ELSE <<"connectEstablished">>]

Init ==
    /\ \E atBase \in BOOLEAN : conn = NewConnection(atBase)
    /\ net = [peer |-> "open", err |-> FALSE, data |-> 0]
    /\ pc = IF conn.atBase THEN "callbacks" ELSE "poll"
    /\ todo = IF conn.atBase THEN <<"accept">> ELSE <<>>
    /\ batch = <<>>
    /\ ran = {}
    /\ at = [u \in Users |-> "idle"]
    /\ holds = [u \in Users |-> FALSE]
    /\ calls = [u \in Users |-> 0]
    /\ usedAfterFree = FALSE

\* shared_ptr: the connection exists as long as somebody refers to it; the
\* guard of handleEvent counts while callbacks are left.
Elements(s) == {s[i] : i \in DOMAIN s}

Alive ==
    \/ conn.inMap
    \/ conn.removals > 0
    \/ (Elements(conn.tasks) \cup Elements(batch)) \cap SharedFunctor # {}
    \/ ran # {}
    \/ \E u \in Users : holds[u]
    \/ todo # <<>>

-----------------------------------------------------------------------------
(* The member functions, as functions from a connection to the connections it *)
(* may become.                                                                *)

Queue(c, f) == [c EXCEPT !.tasks = Append(@, f)]
SetState(c, s) == [c EXCEPT !.state = s]
SetChannel(c, ch) == [c EXCEPT !.chan = Updated(ch)]

\* write() fails for good when the peer has reset the connection or we have
\* shut down our side.
Broken(c) == net.peer = "rst" \/ c.wrShut

\* writeCompleteCallback_ and highWaterMarkCallback_ are queued if they are set.
Notify(c, f) == {c, Queue(c, f)}

\* sendInLoop after the write: what was not written goes to outputBuffer_.
KeepRestNoEnable(c, remaining) ==           \* mutant: no enableWriting
    {[c EXCEPT !.output = @ + remaining]}

Kept(c, remaining) ==
    LET d == [c EXCEPT !.output = @ + remaining]
        e == IF isWriting(d.chan) THEN d ELSE SetChannel(d, EnableWriting(d.chan))
    IN  [e EXCEPT !.reopened = @ \/ e.down > 0]

KeepRest(c, remaining) ==
    IF c.output < HighWaterMark /\ c.output + remaining >= HighWaterMark
    THEN {Kept(d, remaining) : d \in Notify(c, "highWaterMark")}
    ELSE {Kept(c, remaining)}

\* sendInLoop.  `if (state_ = kDisconnected)` assigns, and is never true.
SendInLoop(c) ==
    LET d == SetState(c, "kDisconnected") IN
    IF isWriting(d.chan) \/ d.output > 0 THEN KeepRest(d, SendLen)
    ELSE IF Broken(d) THEN {d}
    ELSE Notify(d, "writeComplete")
            \cup UNION {KeepRest(d, SendLen - nwrote) : nwrote \in 0..SendLen - 1}

ShutdownInLoopAtOnce(c) ==                  \* mutant: cuts the output off
    [c EXCEPT !.wrShut = TRUE]

ShutdownInLoop(c) ==
    IF isWriting(c.chan) THEN c ELSE [c EXCEPT !.wrShut = TRUE]

SendUnchecked(c) == SendInLoop(c)           \* mutant: does not test state_

\* send() and shutdown() on the thread of the loop.
Send(c) == IF c.state = "kConnected" THEN SendInLoop(c) ELSE {c}

Shutdown(c) ==
    LET d == [c EXCEPT !.shutCalled = TRUE]
    IN  IF d.state = "kDisconnected"
        THEN ShutdownInLoop(SetState(d, "kDisconnecting")) ELSE d

\* EchoServer::onMessage of the example.
OnMessage(c) == {Shutdown(d) : d \in Send(c)}

\* What the user does with the connection in a callback; any other sequence of
\* calls comes to one of these.
UserCallback(c) == {c, Shutdown(c)} \cup Send(c) \cup OnMessage(c)

ConnectEstablished(c) ==
    UserCallback([SetChannel(SetState(c, "kConnected"), EnableReading(c.chan))
                    EXCEPT !.up = @ + 1])

ConnectDestoryedNoRemove(c) ==              \* mutant: the channel stays behind
    IF c.state = "kConnected"
    THEN SetChannel(SetState(c, "kDisconnected"), DisableAll(c.chan)) ELSE c

ConnectDestoryed(c) ==
    LET d == IF c.state = "kConnected"
             THEN SetChannel(SetState(c, "kDisconnected"), DisableAll(c.chan))
             ELSE c
    IN  [d EXCEPT !.chan = Removed(@)]

\* TcpServer::removeConnectionInLoop and removeConnection.
RemoveConnectionInLoop(c) ==
    Queue([c EXCEPT !.inMap = FALSE], "connectDestoryed")

RemoveConnection(c) ==
    IF c.atBase THEN RemoveConnectionInLoop(c)
    ELSE [c EXCEPT !.removals = @ + 1]

HandleCloseKeepsEvents(c) ==                \* mutant: forgets disableAll
    {RemoveConnection(d) : d \in
        UserCallback([SetState(c, "kDisconnected") EXCEPT !.down = @ + 1])}

HandleCloseSilent(c) ==                     \* mutant: no connectionCallback_
    {RemoveConnection(
        SetChannel(SetState(c, "kDisconnected"), DisableAll(c.chan)))}

HandleClose(c) ==
    LET d == SetChannel(SetState(c, "kDisconnected"), DisableAll(c.chan))
    IN  {RemoveConnection(e) : e \in UserCallback([d EXCEPT !.down = @ + 1])}

\* handleWrite when write() has taken n bytes of outputBuffer_.
WrittenRetrievesMessage(c, n) ==            \* mutant: not what write() took
    {[c EXCEPT !.output = @ - SendLen]}

WrittenForgetsShutdown(c, n) ==           \* mutant: drops a waiting shutdown
    LET d == [c EXCEPT !.output = @ - n]
    IN  IF d.output > 0 THEN {d}
        ELSE Notify(SetChannel(d, DisableWriting(d.chan)), "writeComplete")

ShutdownIfAsked(c) ==
    IF c.state = "kDisconnecting" THEN ShutdownInLoop(c) ELSE c

Written(c, n) ==
    LET d == [c EXCEPT !.output = @ - n]
        e == SetChannel(d, DisableWriting(d.chan))
    IN  IF d.output > 0 THEN {d}
        ELSE {ShutdownIfAsked(f) : f \in Notify(e, "writeComplete")}

HandleWrite(c) ==
    IF isWriting(c.chan) /\ ~Broken(c)
    THEN UNION {Written(c, n) : n \in 1..c.output} ELSE {c}

-----------------------------------------------------------------------------
(* The serving loop. *)

\* What the kernel reports of the socket: room says whether there is room in
\* the send buffer.
SocketRevents(room) ==
    {e \in Revents :
        \/ e = "EPOLLIN" /\ (net.data > 0 \/ net.peer # "open")
        \/ e = "EPOLLOUT" /\ (room \/ Broken(conn))
        \/ e = "EPOLLERR" /\ net.err
        \/ e = "EPOLLHUP" /\ net.peer = "rst"
        \/ e = "EPOLLHUP" /\ net.peer = "fin" /\ conn.wrShut}

ReportedEvents(room) ==
    IF Alive /\ conn.chan.index = "kAdded"
    THEN SocketRevents(room)
            \cap (conn.chan.events \cup {"EPOLLHUP", "EPOLLERR"})
    ELSE {}

\* epoll_wait returns and reports this channel.
PollReports(room) ==
    /\ pc = "poll"
    /\ ReportedEvents(room) # {}
    /\ todo' = Callbacks(ReportedEvents(room))
    /\ pc' = "callbacks"
    /\ UNCHANGED <<conn, net, batch, ran, at, holds, calls, usedAfterFree>>

\* epoll_wait returns for the eventfd or for another channel.
PollOther ==
    /\ pc = "poll"
    /\ pc' = "callbacks"
    /\ UNCHANGED <<conn, net, todo, batch, ran, at, holds, calls, usedAfterFree>>

\* The next callback of handleEventWithGuard.
NextCallback(name) ==
    /\ pc = "callbacks"
    /\ todo # <<>>
    /\ Head(todo) = name
    /\ todo' = Tail(todo)
    /\ UNCHANGED <<pc, batch, ran, at, calls, usedAfterFree>>

Callback(name) == NextCallback(name) /\ UNCHANGED holds

\* The user's threads get hold of the connection in its first callback.
HandOut == holds' = [u \in Users |-> TRUE]

\* runInLoop of newConncetion when the acceptor's loop serves the connection.
AcceptHere ==
    /\ NextCallback("accept")
    /\ conn' \in ConnectEstablished(conn)
    /\ HandOut
    /\ UNCHANGED net

\* handleRead: a message, the end of the stream, or an error, which handleError
\* takes off the socket.
HandleReadMessage ==
    /\ Callback("read")
    /\ \E n \in 1..net.data : net' = [net EXCEPT !.data = @ - n]
    /\ conn' \in UserCallback(conn)

HandleReadClose ==
    /\ Callback("read")
    /\ net.data = 0 /\ net.peer # "open" /\ ~net.err
    /\ conn' \in HandleClose(conn)
    /\ UNCHANGED net

HandleReadError ==
    /\ Callback("read")
    /\ net.data = 0 /\ net.err
    /\ net' = [net EXCEPT !.err = FALSE]
    /\ UNCHANGED conn

CloseCallback ==
    /\ Callback("close")
    /\ conn' \in HandleClose(conn)
    /\ UNCHANGED net

ErrorCallback ==
    /\ Callback("error")
    /\ net' = [net EXCEPT !.err = FALSE]
    /\ UNCHANGED conn

WriteCallback ==
    /\ Callback("write")
    /\ conn' \in HandleWrite(conn)
    /\ UNCHANGED net

\* doPendingFunctors takes the functors and runs them one by one.
StartBatch ==
    /\ pc = "callbacks"
    /\ todo = <<>>
    /\ batch' = conn.tasks
    /\ conn' = [conn EXCEPT !.tasks = <<>>]
    /\ pc' = "functors"
    /\ UNCHANGED <<net, todo, ran, at, holds, calls, usedAfterFree>>

Run(f, c) ==
    CASE f = "connectEstablished" -> ConnectEstablished(c)
      [] f = "connectDestoryed" -> {ConnectDestoryed(c)}
      [] f = "sendInLoop" -> SendInLoop(c)
      [] f = "shutdownInLoop" -> {ShutdownInLoop(c)}
      [] OTHER -> UserCallback(c)       \* writeComplete, highWaterMark

RunFunctor ==
    /\ pc = "functors"
    /\ batch # <<>>
    /\ Alive
    /\ conn' \in Run(Head(batch), conn)
    /\ batch' = Tail(batch)
    /\ ran' = IF Head(batch) \in SharedFunctor THEN ran \cup {"serving"} ELSE ran
    /\ IF Head(batch) = "connectEstablished" THEN HandOut
                                             ELSE UNCHANGED holds
    /\ UNCHANGED <<net, pc, todo, at, calls, usedAfterFree>>

\* A functor bound to a raw this finds the connection gone: what follows is
\* undefined, and the behaviour ends here.
RunDangling ==
    /\ pc = "functors"
    /\ batch # <<>>
    /\ ~Alive
    /\ usedAfterFree' = TRUE
    /\ pc' = "undefined"
    /\ UNCHANGED <<conn, net, todo, batch, ran, at, holds, calls>>

BatchDone ==
    /\ pc = "functors"
    /\ batch = <<>>
    /\ pc' = "poll"
    /\ ran' = ran \ {"serving"}
    /\ UNCHANGED <<conn, net, todo, batch, at, holds, calls, usedAfterFree>>

\* The base loop runs removeConnectionInLoop, and some time later it is done
\* with the batch.
BaseLoop ==
    /\ conn.removals > 0
    /\ conn' = RemoveConnectionInLoop([conn EXCEPT !.removals = @ - 1])
    /\ ran' = ran \cup {"base"}
    /\ UNCHANGED <<net, pc, todo, batch, at, holds, calls, usedAfterFree>>

BaseBatchDone ==
    /\ "base" \in ran
    /\ ran' = ran \ {"base"}
    /\ UNCHANGED <<conn, net, pc, todo, batch, at, holds, calls, usedAfterFree>>

-----------------------------------------------------------------------------
(* Another thread of the user: send() and shutdown() test state_, and later   *)
(* queue a functor.                                                           *)

UserStep(u, from, to) ==
    /\ at[u] = from
    /\ holds[u]
    /\ at' = [at EXCEPT ![u] = to]
    /\ UNCHANGED <<net, pc, todo, batch, ran, holds, usedAfterFree>>

EnterCall(u) ==
    /\ calls[u] < MaxCalls
    /\ calls' = [calls EXCEPT ![u] = @ + 1]

SendTest(u) ==
    /\ UserStep(u, "idle", "send")
    /\ EnterCall(u)
    /\ conn.state = "kConnected"
    /\ UNCHANGED conn

SendQueue(u) ==
    /\ UserStep(u, "send", "idle")
    /\ conn' = Queue(conn, "sendInLoop")
    /\ UNCHANGED calls

ShutdownTest(u) ==
    /\ UserStep(u, "idle",
                IF conn.state = "kDisconnected" THEN "set" ELSE "idle")
    /\ EnterCall(u)
    /\ conn' = [conn EXCEPT !.shutCalled = TRUE]

ShutdownSet(u) ==
    /\ UserStep(u, "set", "queue")
    /\ conn' = SetState(conn, "kDisconnecting")
    /\ UNCHANGED calls

ShutdownQueue(u) ==
    /\ UserStep(u, "queue", "idle")
    /\ conn' = Queue(conn, "shutdownInLoop")
    /\ UNCHANGED calls

\* The thread's TcpConnectionPtr goes out of scope.
DropPtr(u) ==
    /\ at[u] = "idle"
    /\ holds[u]
    /\ holds' = [holds EXCEPT ![u] = FALSE]
    /\ UNCHANGED <<conn, net, pc, todo, batch, ran, at, calls, usedAfterFree>>

-----------------------------------------------------------------------------
(* The peer. *)

Peer(n) ==
    /\ Alive
    /\ net' = n
    /\ UNCHANGED <<conn, pc, todo, batch, ran, at, holds, calls, usedAfterFree>>

PeerSends ==
    /\ net.peer = "open" /\ net.data < MaxData
    /\ Peer([net EXCEPT !.data = @ + 1])

PeerCloses ==
    /\ net.peer = "open"
    /\ Peer([net EXCEPT !.peer = "fin"])

\* A write() that fails after a reset takes the pending error off the socket;
\* err = FALSE stands for that case.
PeerResets ==
    /\ net.peer # "rst"
    /\ \E pending \in BOOLEAN :
          Peer([net EXCEPT !.peer = "rst", !.err = pending])

-----------------------------------------------------------------------------
LoopStep ==
    \/ AcceptHere
    \/ HandleReadMessage \/ HandleReadClose \/ HandleReadError
    \/ CloseCallback \/ ErrorCallback \/ WriteCallback
    \/ StartBatch \/ RunFunctor \/ BatchDone

FinishCall(u) == SendQueue(u) \/ ShutdownSet(u) \/ ShutdownQueue(u)

Next ==
    \/ \E room \in BOOLEAN : PollReports(room)
    \/ PollOther
    \/ LoopStep
    \/ RunDangling
    \/ BaseLoop \/ BaseBatchDone
    \/ \E u \in Users :
          SendTest(u) \/ ShutdownTest(u) \/ FinishCall(u) \/ DropPtr(u)
    \/ PeerSends \/ PeerCloses \/ PeerResets

Spec == Init /\ [][Next]_vars

\* Both loops keep running, epoll_wait returns while functors wait (EventLoop)
\* and reports a ready channel again and again, the send buffer does not stay
\* full for ever, and a thread that has entered a call leaves it.
Fairness ==
    /\ WF_vars(LoopStep)
    /\ WF_vars(PollOther /\ conn.tasks # <<>>)
    /\ SF_vars(PollReports(TRUE))
    /\ WF_vars(BaseLoop) /\ WF_vars(BaseBatchDone)
    /\ \A u \in Users : WF_vars(FinishCall(u)) /\ WF_vars(DropPtr(u))

FairSpec == Spec /\ Fairness

-----------------------------------------------------------------------------
(* Every variable has its type; the callbacks of one event are done before   *)
(* the loop goes on to the functors, and the batch before it polls again.     *)
TypeOK ==
    /\ conn \in Connection
    /\ net \in Net
    /\ pc \in {"poll", "callbacks", "functors", "undefined"}
    /\ todo \in Seq({"accept", "close", "error", "read", "write"})
    /\ batch \in Seq(Functor)
    /\ ran \subseteq Loop
    /\ at \in [Users -> {"idle", "send", "set", "queue"}]
    /\ holds \in [Users -> BOOLEAN]
    /\ calls \in [Users -> 0..MaxCalls]
    /\ usedAfterFree \in BOOLEAN
    /\ todo # <<>> => pc = "callbacks"
    /\ batch # <<>> => pc \in {"functors", "undefined"}
    /\ "serving" \in ran => pc = "functors"

(* Buffered bytes are never stranded: until the connection is closed, the     *)
(* channel waits for EPOLLOUT exactly while there is something to write.      *)
(* (sendInLoop and handleWrite keep outputBuffer_ and the channel in step.)   *)
OutputIsScheduled ==
    conn.down = 0 => (isWriting(conn.chan) <=> conn.output > 0)

(* shutdown() never cuts off bytes that were accepted before it.              *)
ShutdownAfterOutput == conn.wrShut /\ conn.down = 0 => conn.output = 0

(* The connection has the life that ConnectionLife describes, whichever       *)
(* threads use it: its user hears of its start, and then once of its end, the *)
(* server forgets it after that, and connectDestoryed takes it out of the     *)
(* poller for good.  Only a sendInLoop that another thread queued, and that   *)
(* keeps bytes after the end, ends this life: it opens the channel again.     *)
Phase ==
    IF conn.reopened THEN "reopened"
    ELSE IF conn.up = 0 THEN "made"
    ELSE IF conn.up > 1 \/ conn.down > 1 THEN "told twice"
    ELSE IF conn.down = 0 THEN "up"
    ELSE IF conn.chan.index = "kNew" THEN "ended" ELSE "down"

Life ==
    INSTANCE ConnectionLife
        WITH phase <- Phase, inTable <- conn.inMap,
             watched <- conn.chan.index = "kAdded", orphan <- FALSE

ImplementsConnectionLife == Life!Spec

(* A destroyed connection has left the poller: no Channel pointer dangles in  *)
(* channels_, unless sendInLoop has opened the channel again after the end.   *)
GoneFromPoller == ~Alive => conn.chan.index = "kNew" \/ conn.reopened

(* The server keeps a connection in its map until its user has heard of the   *)
(* end of it, and no longer than the base loop needs to remove it.            *)
KeptUntilDown == conn.inMap /\ conn.removals = 0 <=> conn.down = 0

(* When the peer is gone, the connection leaves the server's map and the      *)
(* poller, unless sendInLoop has opened the channel again after the end.      *)
ClosedIsCleanedUp ==
    (net.peer # "open")
        ~> ((~conn.inMap /\ conn.chan.index = "kNew") \/ conn.reopened)

\* No other thread has called send() or shutdown().
CallbacksOnly == \A u \in Users : calls[u] = 0

(* Callbacks alone do a connection no harm, whatever they call and whenever:  *)
(* it is not opened again after its end (send() tests state_), and no functor *)
(* finds it destroyed (those of the callbacks are bound to a pointer).        *)
CallbacksAreSafe == CallbacksOnly => ~conn.reopened /\ ~usedAfterFree

(* A shutdown() that was accepted closes our side, or the connection is       *)
(* closed anyway, if no other thread has called send() or shutdown(): its     *)
(* sendInLoop would set state_ back.                                          *)
AcceptedShutdownHappens ==
    (conn.state = "kDisconnecting")
        ~> (conn.wrShut \/ conn.down > 0 \/ ~CallbacksOnly)

(* TcpConnection.cc:192 says that nothing can be sent after shutdown().  The  *)
(* condition below it assigns, so a functor of another thread still sends.    *)
NoSendAfterShutdown ==
    [][(/\ pc = "functors" /\ batch' # batch
        /\ Head(batch) = "sendInLoop"
        /\ conn.state = "kDisconnecting")
            => conn' = conn]_vars

(* TcpConnection.cc:261 says that the shared pointer keeps the connection     *)
(* from being released.  The functors of send() and shutdown() hold a raw     *)
(* this, and one that runs in a later batch than connectDestoryed can find    *)
(* the connection gone.                                                       *)
FunctorsFindConnection == ~usedAfterFree

(* TcpServer.cc:104 says that the user calls shutdown, which leads over       *)
(* shutdownInLoop to shutWrite.  shutdown() ignores a connected connection.   *)
ShutdownCloses == conn.shutCalled ~> (conn.wrShut \/ conn.down > 0)
=============================================================================
