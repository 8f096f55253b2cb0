------------------------------ MODULE TcpServer ------------------------------
(***************************************************************************)
(* A TcpServer with its Acceptor (src/src/TcpServer.cc, Acceptor.cc,       *)
(* Socket.cc): start(), clients that connect and leave, the table of       *)
(* connections, the way of a connection through the functors of two loops, *)
(* the limit on descriptors, and the destruction of the server.            *)
(*                                                                         *)
(* Loop 0 is the base loop, 1..numThreads are the loops of the pool.  What *)
(* the other modules show is used here: functors run in the order in which *)
(* they were queued and are not slept on (EventLoop), startLoop returns a  *)
(* loop that is published and begins to run (EventLoopThreadPool), a       *)
(* connection that only its callbacks use ends once (TcpConnection).       *)
(***************************************************************************)
EXTENDS Integers, Sequences, FiniteSets

CONSTANTS
    Clients,        \* peers; each connects at most once, and a TcpConnection
                    \* is named after the peer it was made for
    MaxThreads,     \* bound: the largest setThreadNum()
    NoConn          \* no connection

ASSUME ClientsAssumption == IsFiniteSet(Clients) /\ NoConn \notin Clients
ASSUME ThreadsAssumption == MaxThreads \in Nat

VARIABLES
    numThreads,     \* what the user has passed to setThreadNum()
    maxFds,         \* connections the process has descriptors for
    started,        \* started_
    caller,         \* caller[t]: where thread t is in start()
    loops,          \* loops_.size()
    next,           \* next_ of the pool
    listening,      \* acceptChannel_ is in the base loop's poller
    backlog,        \* clients the kernel holds until they are accepted
    left,           \* clients that have closed their side
    conn,           \* conn[c]: the TcpConnection of client c
    nextConnId,     \* nextConnId_
    conncetions,    \* conncetions_: from names to connections
    pc,             \* pc[l]: where the thread of loop l is
    tasks,          \* tasks[l]: pendingFunctors_ of loop l
    batch,          \* batch[l]: what is left of the running doPendingFunctors
    ran,            \* ran[l]: connections of its functors that have run, which
                    \* the local vector keeps until the batch is done
    quit,           \* quit[l]: quit_ of loop l
    server,         \* how far ~TcpServer has come
    told,           \* threads of the pool whose loop it has told to quit
    early,          \* history: ~TcpServer came before the base loop had ended
    fault           \* a functor or a callback used the destroyed server

config == <<numThreads, maxFds>>
startVars == <<started, caller, loops>>
acceptVars == <<next, listening, backlog>>
connVars == <<conn, nextConnId, conncetions>>
batchVars == <<batch, ran>>
loopVars == <<pc, tasks, batchVars, quit>>
endVars == <<server, told, early, fault>>
vars == <<config, startVars, acceptVars, left, connVars, loopVars, endVars>>

Base == 0
Loops == 0..MaxThreads
SubLoops == 1..numThreads

\* Threads that call start(): the one of the base loop and another one.
Callers == {"base", "user"}

Names == 1..Cardinality(Clients)

Functor ==
    [fn : {"connectEstablished", "connectDestoryed", "removeConnectionInLoop"},
     conn : Clients]
        \cup {[fn |-> "listen", conn |-> NoConn]}

Bound(fn, c) == [fn |-> fn, conn |-> c]

Connection ==
    [state : {"none", "kconnecting", "kConnected", "kDisconnected"},
     loop : Loops,          \* loop_
     name : Names \cup {0}, \* the number in name_
     added : BOOLEAN,       \* the channel is in the poller of its loop
     ups : 0..1,            \* history: connectionCallback_ after connectEstablished
     downs : 0..1,          \* history: connectionCallback_ of handleClose
     destroyed : 0..1]      \* history: runs of connectDestoryed

NoConnection ==
    [state |-> "none", loop |-> Base, name |-> 0, added |-> FALSE,
     ups |-> 0, downs |-> 0, destroyed |-> 0]

Init ==
    /\ numThreads \in 0..MaxThreads
    /\ maxFds \in 1..Cardinality(Clients)
    /\ started = 0
    /\ caller = [t \in Callers |-> "idle"]
    /\ loops = 0
    /\ next = 0
    /\ listening = FALSE
    /\ backlog = <<>>
    /\ left = {}
    /\ conn = [c \in Clients |-> NoConnection]
    /\ nextConnId = 1
    /\ conncetions = [n \in {} |-> NoConn]
    /\ pc = [l \in Loops |-> "main"]
    /\ tasks = [l \in Loops |-> <<>>]
    /\ batch = [l \in Loops |-> <<>>]
    /\ ran = [l \in Loops |-> {}]
    /\ quit = [l \in Loops |-> FALSE]
    /\ server = "alive"
    /\ told = 0
    /\ early = FALSE
    /\ fault = FALSE

Elements(s) == {s[i] : i \in DOMAIN s}
Functors(l) == Elements(tasks[l]) \cup Elements(batch[l])
Created(c) == conn[c].state # "none"

\* shared_ptr: a TcpConnection and its descriptor exist as long as the table or
\* a functor refers to it.  A handler is one step, and its guard is not needed.
InFunctors(c, l) == c \in ran[l] \/ \E f \in Functors(l) : f.conn = c
InTable(c) == \E n \in DOMAIN conncetions : conncetions[n] = c
Alive(c) == Created(c) /\ (InTable(c) \/ \E l \in Loops : InFunctors(c, l))
OpenFds == Cardinality({c \in Clients : Alive(c)})

\* The thread of the base loop is neither in ~TcpServer nor in start().
BaseIdle ==
    /\ server \in {"alive", "destroyed"}
    /\ caller["base"] \in {"idle", "done"}

\* Where the user calls the server on the base loop's thread: outside loop() or in
\* a functor, which may be alone in its batch and then counts as "poll".
MayCall == pc[Base] \in {"main", "poll", "functors", "out"}

QueueIn(l, f) == tasks' = [tasks EXCEPT ![l] = Append(@, f)]

-----------------------------------------------------------------------------
(* TcpServer::start, by any thread. *)

\* The statements of the first call of start().
StartStepsSwapped ==                \* mutant: listens before the pool is there
    [idle |-> "listen", listen |-> "pool", pool |-> "done"]

StartSteps == [idle |-> "pool", pool |-> "listen", listen |-> "done"]

FirstStartAlways == TRUE            \* mutant: no test of started_

FirstStart == started = 0

\* started_++ == 0
Start(t) ==
    /\ caller[t] = "idle"
    /\ server = "alive"
    /\ t = "base" => MayCall
    /\ started' = started + 1
    /\ caller' = [caller EXCEPT ![t] =
                     IF FirstStart THEN StartSteps.idle ELSE "done"]
    /\ UNCHANGED <<config, loops, acceptVars, left, connVars, loopVars, endVars>>

\* threadPool_->start makes the loops, which are published when it returns.
StartPool(t) ==
    /\ caller[t] = "pool"
    /\ caller' = [caller EXCEPT ![t] = StartSteps.pool]
    /\ loops' = loops + numThreads
    /\ pc' = [l \in Loops |-> IF l \in SubLoops THEN "published" ELSE pc[l]]
    /\ UNCHANGED <<config, started, acceptVars, left, connVars,
                   tasks, batchVars, quit, endVars>>

\* loop_->runInLoop of Acceptor::listen: another thread queues it.
Listen(t) ==
    /\ caller[t] = "listen"
    /\ caller' = [caller EXCEPT ![t] = StartSteps.listen]
    /\ IF t = "base"
       THEN listening' = TRUE /\ UNCHANGED tasks
       ELSE QueueIn(Base, Bound("listen", NoConn)) /\ UNCHANGED listening
    /\ UNCHANGED <<config, started, loops, next, backlog, left, connVars,
                   pc, batchVars, quit, endVars>>

-----------------------------------------------------------------------------
(* Acceptor::handleRead and TcpServer::newConncetion, in the base loop. *)

\* connectEstablished and connectDestoryed, on the thread of the loop.
Established(d) ==
    [d EXCEPT !.state = "kConnected", !.added = TRUE, !.ups = @ + 1]

Destroyed(d) ==
    [d EXCEPT !.state = IF @ = "kConnected" THEN "kDisconnected" ELSE @,
              !.added = FALSE, !.destroyed = @ + 1]

\* getNextLoop
NextLoop == IF loops = 0 THEN Base ELSE next + 1
NextIndex == IF loops = 0 THEN next ELSE (next + 1) % loops

NextIdForgotten == nextConnId       \* mutant: ++nextConnId_ is forgotten

NextId == nextConnId + 1

NewConncetion(c) ==
    LET made == [NoConnection EXCEPT !.state = "kconnecting",
                    !.loop = NextLoop, !.name = nextConnId]
    IN  /\ next' = NextIndex
        /\ nextConnId' = NextId
        /\ conncetions' = [n \in DOMAIN conncetions \cup {nextConnId} |->
                              IF n = nextConnId THEN c ELSE conncetions[n]]
        /\ IF NextLoop = Base
           THEN conn' = [conn EXCEPT ![c] = Established(made)] /\ UNCHANGED tasks
           ELSE /\ conn' = [conn EXCEPT ![c] = made]
                /\ QueueIn(NextLoop, Bound("connectEstablished", c))

\* After accept4 fails the listening socket is readable still, and watched.
WatchedAfterNoMore(accepted) == listening /\ accepted  \* mutant: stops at EMFILE

WatchedAfter(accepted) == listening

\* accept4 takes the first client, or fails with EMFILE.
HandleRead ==
    /\ pc[Base] = "poll" /\ BaseIdle
    /\ listening /\ backlog # <<>>
    /\ LET accepted == OpenFds < maxFds IN
          /\ listening' = WatchedAfter(accepted)
          /\ IF accepted
             THEN backlog' = Tail(backlog) /\ NewConncetion(Head(backlog))
             ELSE UNCHANGED <<next, backlog, connVars, tasks>>
    /\ UNCHANGED <<config, startVars, left, pc, batchVars, quit, endVars>>

-----------------------------------------------------------------------------
(* The end of a connection: handleClose in its loop, removeConnection from    *)
(* there, removeConnectionInLoop in the base loop, connectDestoryed.          *)

RemoveConnectionKeepsEntry(c) ==    \* mutant: no erase
    /\ QueueIn(conn[c].loop, Bound("connectDestoryed", c))
    /\ UNCHANGED conncetions

\* TcpServer::removeConnectionInLoop.
RemoveConnectionInLoop(c) ==
    /\ conncetions' = [n \in DOMAIN conncetions \ {conn[c].name} |->
                          conncetions[n]]
    /\ QueueIn(conn[c].loop, Bound("connectDestoryed", c))

\* TcpServer::removeConnection: runInLoop
RemoveConnectionQueues(c) ==        \* mutant: queueInLoop, also in the base loop
    /\ QueueIn(Base, Bound("removeConnectionInLoop", c))
    /\ UNCHANGED conncetions

RemoveConnection(c) ==
    IF conn[c].loop = Base
    THEN RemoveConnectionInLoop(c)
    ELSE /\ QueueIn(Base, Bound("removeConnectionInLoop", c))
         /\ UNCHANGED conncetions

\* The peer has closed, the channel reports it, and handleClose tells the user
\* and calls closeCallback_, which is bound to the raw TcpServer.
HandleClose(l, c) ==
    /\ pc[l] = "poll"
    /\ l = Base => BaseIdle
    /\ c \in left /\ conn[c].loop = l /\ conn[c].added
    /\ conn' = [conn EXCEPT ![c].state = "kDisconnected", ![c].added = FALSE,
                            ![c].downs = @ + 1]
    /\ RemoveConnection(c)
    /\ fault' = (fault \/ server = "destroyed")
    /\ UNCHANGED <<config, startVars, acceptVars, left, nextConnId,
                   pc, batchVars, quit, server, told, early>>

-----------------------------------------------------------------------------
(* The loops. *)

EnterLoop ==
    /\ pc[Base] = "main" /\ BaseIdle
    /\ pc' = [pc EXCEPT ![Base] = "poll"]
    /\ UNCHANGED <<config, startVars, acceptVars, left, connVars,
                   tasks, batchVars, quit, endVars>>

\* A loop of the pool starts: quit_ = false, whoever has called quit() before,
\* and then it tests quit_ as after each batch.
BeginLoop(l) ==
    /\ pc[l] = "published"
    /\ pc' = [pc EXCEPT ![l] = "functors"]
    /\ quit' = [quit EXCEPT ![l] = FALSE]
    /\ UNCHANGED <<config, startVars, acceptVars, left, connVars,
                   tasks, batchVars, endVars>>

\* doPendingFunctors takes the functors.  An iteration that finds none and is
\* not asked to quit changes nothing.
TakeFunctors(l) ==
    /\ pc[l] = "poll"
    /\ l = Base => BaseIdle
    /\ tasks[l] # <<>> \/ quit[l]
    /\ pc' = [pc EXCEPT ![l] = "functors"]
    /\ batch' = [batch EXCEPT ![l] = tasks[l]]
    /\ tasks' = [tasks EXCEPT ![l] = <<>>]
    /\ UNCHANGED <<config, startVars, acceptVars, left, connVars, ran, quit,
                   endVars>>

NextFunctor(l, fn) ==
    /\ pc[l] = "functors"
    /\ l = Base => BaseIdle
    /\ batch[l] # <<>>
    /\ Head(batch[l]).fn = fn
    /\ batch' = [batch EXCEPT ![l] = Tail(@)]
    /\ ran' = [ran EXCEPT ![l] = @ \cup ({Head(batch[l]).conn} \cap Clients)]

RunConnectEstablished(l) ==
    /\ NextFunctor(l, "connectEstablished")
    /\ conn' = [conn EXCEPT ![Head(batch[l]).conn] = Established(@)]
    /\ UNCHANGED <<config, startVars, acceptVars, left, nextConnId,
                   conncetions, pc, tasks, quit, endVars>>

RunConnectDestoryed(l) ==
    /\ NextFunctor(l, "connectDestoryed")
    /\ conn' = [conn EXCEPT ![Head(batch[l]).conn] = Destroyed(@)]
    /\ UNCHANGED <<config, startVars, acceptVars, left, nextConnId,
                   conncetions, pc, tasks, quit, endVars>>

RunRemoveConnectionInLoop ==
    /\ NextFunctor(Base, "removeConnectionInLoop")
    /\ server = "alive"
    /\ RemoveConnectionInLoop(Head(batch[Base]).conn)
    /\ UNCHANGED <<config, startVars, acceptVars, left, conn, nextConnId,
                   pc, quit, endVars>>

RunListen ==
    /\ NextFunctor(Base, "listen")
    /\ server = "alive"
    /\ listening' = TRUE
    /\ UNCHANGED <<config, startVars, next, backlog, left, connVars,
                   pc, tasks, quit, endVars>>

\* The functor's server or acceptor is gone: what follows is undefined, and the
\* base loop's part of the behaviour ends here.
RunDangling ==
    /\ \E fn \in {"removeConnectionInLoop", "listen"} : NextFunctor(Base, fn)
    /\ server = "destroyed"
    /\ fault' = TRUE
    /\ pc' = [pc EXCEPT ![Base] = "undefined"]
    /\ UNCHANGED <<config, startVars, acceptVars, left, connVars,
                   tasks, quit, server, told, early>>

\* while (!quit_).  Past the end of a loop of the pool its EventLoop is
\* destroyed, with the functors that are left.
FunctorsDone(l) ==
    /\ pc[l] = "functors"
    /\ l = Base => BaseIdle
    /\ batch[l] = <<>>
    /\ pc' = [pc EXCEPT ![l] = IF ~quit[l] THEN "poll"
                               ELSE IF l = Base THEN "out" ELSE "gone"]
    /\ tasks' = IF quit[l] /\ l # Base THEN [tasks EXCEPT ![l] = <<>>] ELSE tasks
    /\ ran' = [ran EXCEPT ![l] = {}]
    /\ UNCHANGED <<config, startVars, acceptVars, left, connVars,
                   batch, quit, endVars>>

\* Somebody calls quit() of the base loop.
QuitBase ==
    /\ pc[Base] \in {"poll", "functors"}
    /\ quit' = [quit EXCEPT ![Base] = TRUE]
    /\ UNCHANGED <<config, startVars, acceptVars, left, connVars,
                   pc, tasks, batchVars, endVars>>

LoopStep(l) ==
    \/ BeginLoop(l) \/ TakeFunctors(l)
    \/ RunConnectEstablished(l) \/ RunConnectDestoryed(l)
    \/ FunctorsDone(l)

BaseStep == RunRemoveConnectionInLoop \/ RunListen

-----------------------------------------------------------------------------
(* ~TcpServer, on the thread of the base loop.  The user's obligations:       *)
(* nobody is in start(), and no handler of the base loop is running.          *)

Destroy ==
    /\ server = "alive"
    /\ MayCall
    /\ \A t \in Callers : caller[t] \in {"idle", "done"}
    /\ server' = "conns"
    /\ early' = (pc[Base] # "out")
    /\ UNCHANGED <<config, startVars, acceptVars, left, connVars, loopVars,
                   told, fault>>

\* One item of conncetions_: runInLoop of connectDestoryed.
DestroyConnectionHere(c) ==         \* mutant: calls it on this thread
    conn' = [conn EXCEPT ![c] = Destroyed(@)] /\ UNCHANGED tasks

DestroyConnection(c) ==
    IF conn[c].loop = Base
    THEN conn' = [conn EXCEPT ![c] = Destroyed(@)] /\ UNCHANGED tasks
    ELSE QueueIn(conn[c].loop, Bound("connectDestoryed", c)) /\ UNCHANGED conn

DestroyItem ==
    /\ server = "conns"
    /\ \E n \in DOMAIN conncetions :
          /\ DestroyConnection(conncetions[n])
          /\ conncetions' = [m \in DOMAIN conncetions \ {n} |-> conncetions[m]]
    /\ UNCHANGED <<config, startVars, acceptVars, left, nextConnId,
                   pc, batchVars, quit, endVars>>

ItemsDone ==
    /\ server = "conns"
    /\ DOMAIN conncetions = {}
    /\ server' = "pool"
    /\ UNCHANGED <<config, startVars, acceptVars, left, connVars, loopVars,
                   told, early, fault>>

\* The members go: of threadPool_ every thread is told to quit and joined before
\* the next.
JoinedAtOnce(l) == quit[l]          \* mutant: does not wait for the thread

Joined(l) == pc[l] = "gone"

ForgetQuit(l) == UNCHANGED quit     \* mutant: join() without quit()

\* quit_ = true; the wakeup() behind it, which may come too late, is a step of
\* EventLoopThreadPool.
Quit(l) == quit' = [quit EXCEPT ![l] = TRUE]

QuitThread(l) ==
    /\ server = "pool"
    /\ l \in 1..loops
    /\ told = l - 1
    /\ told > 0 => Joined(told)
    /\ told' = l
    /\ Quit(l)
    /\ UNCHANGED <<config, startVars, acceptVars, left, connVars,
                   pc, tasks, batchVars, server, early, fault>>

\* acceptor_: the channel leaves the poller, the socket and its backlog close.
DestroyAcceptor ==
    /\ server = "pool"
    /\ told = loops
    /\ told > 0 => Joined(told)
    /\ server' = "destroyed"
    /\ listening' = FALSE
    /\ backlog' = <<>>
    /\ UNCHANGED <<config, startVars, next, left, connVars, loopVars,
                   told, early, fault>>

DestructorStep ==
    DestroyItem \/ ItemsDone \/ (\E l \in Loops : QuitThread(l)) \/ DestroyAcceptor

\* The base EventLoop follows the server when its loop has ended.
DestroyBaseLoop ==
    /\ server = "destroyed"
    /\ pc[Base] \in {"main", "out"}
    /\ pc' = [pc EXCEPT ![Base] = "gone"]
    /\ tasks' = [tasks EXCEPT ![Base] = <<>>]
    /\ UNCHANGED <<config, startVars, acceptVars, left, connVars,
                   batchVars, quit, endVars>>

-----------------------------------------------------------------------------
(* The peers. *)

Connect(c) ==
    /\ listening
    /\ ~Created(c) /\ c \notin Elements(backlog)
    /\ backlog' = Append(backlog, c)
    /\ UNCHANGED <<config, startVars, next, listening, left, connVars,
                   loopVars, endVars>>

Leave(c) ==
    /\ Created(c) \/ c \in Elements(backlog)
    /\ c \notin left
    /\ left' = left \cup {c}
    /\ UNCHANGED <<config, startVars, acceptVars, connVars, loopVars, endVars>>

-----------------------------------------------------------------------------
Next ==
    \/ \E t \in Callers : Start(t) \/ StartPool(t) \/ Listen(t)
    \/ HandleRead
    \/ \E l \in Loops, c \in Clients : HandleClose(l, c)
    \/ EnterLoop \/ QuitBase
    \/ \E l \in Loops : LoopStep(l)
    \/ BaseStep \/ RunDangling
    \/ Destroy \/ DestructorStep \/ DestroyBaseLoop
    \/ \E c \in Clients : Connect(c) \/ Leave(c)

Spec == Init /\ [][Next]_vars

\* The threads of the loops run, the poller reports what stays ready, and every
\* peer leaves at last.  Nobody has to start, quit or destroy anything.
Fairness ==
    /\ \A t \in Callers : WF_vars(StartPool(t) \/ Listen(t))
    /\ WF_vars(HandleRead)
    /\ \A l \in Loops : WF_vars(LoopStep(l))
    /\ \A l \in Loops, c \in Clients : WF_vars(HandleClose(l, c))
    /\ WF_vars(BaseStep) /\ WF_vars(DestructorStep)
    /\ \A c \in Clients : WF_vars(Leave(c))

FairSpec == Spec /\ Fairness

-----------------------------------------------------------------------------
(* Every variable has its type; the pool is started once.                     *)
TypeOK ==
    /\ numThreads \in 0..MaxThreads
    /\ maxFds \in 1..Cardinality(Clients)
    /\ started \in 0..Cardinality(Callers)
    /\ caller \in [Callers -> {"idle", "pool", "listen", "done"}]
    /\ loops \in {0, numThreads}
    /\ next \in 0..MaxThreads
    /\ listening \in BOOLEAN
    /\ backlog \in Seq(Clients)
    /\ left \subseteq Clients
    /\ conn \in [Clients -> Connection]
    /\ nextConnId \in 1..Cardinality(Clients) + 1
    /\ DOMAIN conncetions \subseteq 1..nextConnId - 1
    /\ \A n \in DOMAIN conncetions : conncetions[n] \in Clients
    /\ pc \in [Loops -> {"main", "published", "poll", "functors", "out", "gone",
                        "undefined"}]
    /\ tasks \in [Loops -> Seq(Functor)]
    /\ batch \in [Loops -> Seq(Functor)]
    /\ ran \in [Loops -> SUBSET Clients]
    /\ quit \in [Loops -> BOOLEAN]
    /\ server \in {"alive", "conns", "pool", "destroyed"}
    /\ told \in 0..loops
    /\ early \in BOOLEAN
    /\ fault \in BOOLEAN
    /\ \A l \in Loops : batch[l] # <<>> \/ ran[l] # {}
                           => pc[l] \in {"functors", "undefined"}

(* conncetions_ is right: under its own name it holds exactly the connections *)
(* whose end their user has not heard of, or whose removal waits in the base  *)
(* loop; so removeConnectionInLoop always finds what it erases.               *)
RemovalWaits(c) == Bound("removeConnectionInLoop", c) \in Functors(Base)

TableIsExact ==
    server = "alive" =>
        \A c \in Clients :
            (/\ conn[c].name \in DOMAIN conncetions
             /\ conncetions[conn[c].name] = c)
                <=> (Created(c) /\ (conn[c].downs = 0 \/ RemovalWaits(c)))

(* Each connection has the life that ConnectionLife describes: the user hears *)
(* of its start before its end, the table forgets it after that, and after    *)
(* connectDestoryed no poller watches it again, also for connections that     *)
(* ~TcpServer ends while they are being set up or closed in their loop.       *)
Phase(c) ==
    IF ~Created(c) THEN "none"
    ELSE IF conn[c].destroyed > 0 THEN "ended"
    ELSE IF conn[c].downs > 0 THEN "down"
    ELSE IF conn[c].ups > 0 THEN "up" ELSE "made"

Life(c) ==
    INSTANCE ConnectionLife
        WITH phase <- Phase(c), inTable <- InTable(c),
             watched <- conn[c].added, orphan <- server # "alive"

ImplementsConnectionLife ==
    /\ \A c \in Clients : Life(c)!Init
    /\ [][\A c \in Clients : [Life(c)!Next]_<<Phase(c), InTable(c),
                                   conn[c].added, server # "alive">>]_vars

(* No poller watches a channel whose connection is destroyed, wherever the    *)
(* last reference was: as long as a loop lives, what it watches lives.        *)
WatchedAreAlive ==
    \A c \in Clients :
        conn[c].added => Alive(c) \/ pc[conn[c].loop] = "gone"

(* A server with a pool never serves a connection in its base loop            *)
(* (README.md:39, the MainReactor only accepts), whoever calls start().       *)
ServedByPool ==
    numThreads > 0 => \A c \in Clients : Created(c) => conn[c].loop # Base

(* Nothing uses a destroyed server if the base loop has ended before it, or   *)
(* if no other thread queues functors there: then all of the server's own run *)
(* at once.                                                                   *)
NoUseOfDestroyedServer ==
    fault => early /\ (loops > 0 \/ caller["user"] = "done")

(* When ~TcpServer is done, no connection and no descriptor is left, but for  *)
(* those that a functor of the base loop still refers to.                     *)
ReleasedWithServer ==
    server = "destroyed" =>
        \A c \in Clients : Alive(c) => InFunctors(c, Base)

(* A client that waits is accepted at last, also if the process was out of    *)
(* descriptors, as long as the loop runs and the server is there.             *)
Serving == pc[Base] \in {"poll", "functors"} /\ server = "alive" /\ ~quit[Base]

WaitingClientIsServed ==
    \A c \in Clients : (c \in Elements(backlog)) ~> (Created(c) \/ ~Serving)

(* A connection whose peer has left is released, and its descriptor with it.  *)
ClosedIsReleased ==
    \A c \in Clients : (Created(c) /\ c \in left) ~> (~Alive(c) \/ ~Serving)

(* ~TcpServer returns if every loop of the pool has begun to run before it:   *)
(* each obeys quit() and is joined.  A loop that was published and is yet to  *)
(* set quit_ = false (EventLoop.cc:80) forgets the quit(), and ~TcpServer     *)
(* waits for ever; DestructorReturns of EventLoopThreadPool.tla shows it.     *)
DestructorReturns ==
    (server = "conns" /\ \A l \in 1..loops : pc[l] # "published")
        ~> server = "destroyed"
=============================================================================
