# A verification project for the network library

TLA+ modules, TLC runs and TLAPS proofs about the reactor library in `src/`
(a C++11 rewrite of the core of muduo: one event loop per thread, non-blocking
sockets, epoll). File names below are relative to `src/src/`.

## 1. The system

| Component | State | Operations | Works with |
| --- | --- | --- | --- |
| `EventLoop` | `quit_`, `pendingFunctors_` (under `mutex_`), `callingPendingFunctors_`, eventfd, `activeChannels_` | `loop`, `quit`, `runInLoop`, `queueInLoop`, `wakeup`, `handleRead`, `doPendingFunctors` | called by every thread; calls the poller and the handlers of channels |
| `Channel` | `events_`, `revents_`, `index_`, `tie_` | `enable*`/`disable*` (`update`), `remove`, `handleEvent` | owned by a connection, the acceptor or the loop; raw pointers in the poller |
| `EPollPoller`, `Poller` | `channels_`, `events_`, the kernel's interest list | `poll`, `updateChannel`, `removeChannel`, `hasChannel` | called by its loop only |
| `Buffer` | vector, `readerIndex_`, `writerIndex_` | `append`, `readFd`, `writeFd`, `retrieve*`, `makeSpace` | two per connection |
| `TcpConnection` | `state_`, its channel, `outputBuffer_` | `handleRead/Write/Close/Error`, `send`, `sendInLoop`, `shutdown`, `shutdownInLoop`, `connectEstablished`, `connectDestoryed` | handlers and functors in its loop; `send` and `shutdown` from any thread; callbacks of the user |
| `TcpServer` | `conncetions_`, `nextConnId_`, `started_`, the pool, the acceptor | `start`, `newConncetion`, `removeConnection`, `removeConnectionInLoop`, destructor | base loop, `start` from any thread; hands connections to sub-loops, which call it back by a raw pointer |
| `Acceptor` | listening socket and channel | `listen`, `handleRead`, destructor | base loop; the kernel's backlog; calls `newConncetion` |
| `EventLoopThread`, `Thread` | `loop_` (under `mutex_`, but not in the destructor), `cond_` | `startLoop`, `threadFunc`, destructor, `join` | main thread against the new thread |
| `EventLoopThreadPool` | `threads_`, `loops_`, `next_` | `start`, `getNextLoop`, destructor | `TcpServer` |
| `Socket` | a descriptor, closed in the destructor | `accept`, `listen`, `shutdownWrite` | the acceptor and each connection |
| `InetAddress`, `Logger`, `Timestamp`, `CurrentThread` | none that matters here | wrappers, formatting | everybody |

The hard parts, each listed with its line under `hazards` in `PROJECT.json`:

* *wakeups*: functors and `quit_` are published by one thread and looked at by
  another around a blocking `epoll_wait`;
* *what loop() drops*: a `quit()` before `loop()`, functors at the exit;
* *bookkeeping of epoll*: ADD, MOD or DEL is chosen by an index in the channel;
  descriptors and addresses are reused; `epoll_wait` returns raw pointers;
* *life of a connection*: its end is spread over two loops and a functor;
  `send` and `shutdown` test `state_` on one thread and act on another;
  `sendInLoop` assigns `state_` where it means to compare;
* *partial writes*, peers that close or reset at any time;
* *index arithmetic* of the buffer;
* *start and stop of threads*: a condition variable, an unlocked read of
  `loop_`, a `join` that relies on `quit()`;
* *the server against its loops*: `start()` from another thread, connections
  that are set up, closed and removed in two loops by functors, descriptors that
  run out, and a destructor that meets all of these half-way and leaves functors
  behind that hold a raw `this`.

What makes each component correct: no announced functor or quit is slept on,
functors run once and in order (`EventLoop`); index, map and interest list agree
and no pointer to a removed channel dangles (`EPollPoller`); bytes leave in the order they came
(`Buffer`); buffered output is always waiting for EPOLLOUT, a shutdown never
cuts off output, the user hears of the end once, the channel is gone before the
connection (`TcpConnection`); handed-out loops are alive, fair shares, no use
after destruction but the one named below, start and destructor return (`EventLoopThreadPool`); the
table holds exactly the connections that are up or on their way out, each has
one life, what a poller watches is alive, a waiting client is served, a closed
connection gives its descriptor back, the destructor ends and releases
everything (`TcpServer`, `Acceptor`).

## 2. Modules

```
TaskQueue <== EventLoop         ByteQueue <== Buffer
                                                   (abstract <== detailed)
Channel --> EPollPoller
   \------> TcpConnection ==> ConnectionLife <== TcpServer

EventLoopThreadPool
```

`EPollPoller` and `TcpConnection` EXTEND `Channel`. `EventLoop`, `Buffer`,
`TcpConnection` and `TcpServer` INSTANCE their abstract specifications with a
refinement mapping. A definition
whose comment says *mutant* is a broken variant of the one that follows it. It
is not part of any specification, and shows that a property can fail.
`PROJECT.json` maps every definition to its source lines.

**EventLoop.tla** (`EventLoop.cc`). The owner's thread is `pc`, with a step
between any two accesses to state it shares; a call of another thread is two
steps (the locked push, then the wakeup; `quit_ = true`, then the wakeup). The
owner calls the API of its own loop before `loop()`, from a handler, from a
functor and after `loop()`. The eventfd is a bit, level-triggered. `epoll_wait`
reports any non-empty part of what is ready, or times out. `executed` is a
history of the functors run. `Waiting == functors \o pendingFunctors` and
`executed` are the refinement mapping to **TaskQueue.tla**.

**Channel.tla** (`Channel.{h,cc}`, `updateChannel`). A channel as a record and
its operations as functions; no variables.

**EPollPoller.tla** (`EPollPoller.cc`, `Poller.cc`). Addresses with or without a
live `Channel`, descriptors, `channels_`, and the interest list of the kernel as
a function from descriptors to `data.ptr` and events. In a handler or a functor
any live channel may change its events. `remove` happens in functors only
(`MayRemove`), since `TcpServer::removeConnectionInLoop` queues
`connectDestoryed`: of the one user, `TcpConnection`, this is proved
(`ChannelRemovedInFunctors`). A channel may be destroyed at any time by any thread,
because `~TcpConnection` does not look at it (`TcpConnection.cc:68`), and its
descriptor is closed in a second step (`Destroy`, `Close`: `socket_` is declared before
`channel_` and goes after it). Address and descriptor may be used again. A connection
that a late `sendInLoop` has opened again (`TcpConnection.cc:251`) is destroyed with its
channel in the poller: two histories record what the poller then keeps, `stray` the
descriptors under which `channels_` or the kernel still has the pointer, `lost` the
pointers of freed channels among the active ones. When `epoll_wait` returns a stray
pointer, or the turn of a lost one comes, the behaviour is `undefined` and ends.

**Buffer.tla** (`Buffer.{h,cc}`). The vector with its two indices;
`Content(buf)` is the refinement mapping to **ByteQueue.tla**.

**TcpConnection.tla** (`TcpConnection.cc`, and `newConncetion`,
`removeConnection`, `removeConnectionInLoop` of `TcpServer.cc`). One connection
from its entry in the map to its destruction, with the loop that serves it
(callbacks in the order of `handleEventWithGuard`, then one batch of functors),
the base loop (`conn.atBase` says whether it is the same; `Init` allows both, as
a server with and without a pool), the user's callbacks
(which may send, shut down, both or nothing), other threads in `Users` that hold
a `TcpConnectionPtr`, and the peer (sends, closes, resets). A member function is
a function from the connection to the set of connections it may become. A
handler is one step: of what it uses only `state_` is shared with other threads, and
what it reads of its own writes is its own; `send` and `shutdown` of another thread are
split between the test, the write of `state_` and the push. `Alive` is the
reference count: functors bound with `shared_from_this()` count, those bound to
`this` do not. A functor that has run counts until its batch is done, because it is
still in the local vector of `doPendingFunctors` (`EventLoop.cc:205`): `ran` says in
which of the two loops there is one, and `BatchDone` and `BaseBatchDone` end it. The data of a message is its length. A connection whose functor
finds it destroyed goes to `pc = "undefined"` and stops.

`TcpConnection.tla` takes two facts from the modules below it: functors run in
the order queued (`ImplementsTaskQueue`), and a channel is in the interest list
exactly when its index is `kAdded` (`IndexMatchesKernel`).

**ConnectionLife.tla**, the abstract connection: it is made and entered in the
table, its user hears of its start and then once of its end, only then the table
forgets it, `connectDestoryed` comes last, and it is watched between start and
end and never again. The destruction of the server (`orphan`) may end it at any
time after its start, without a word to the user. A connection that has ended
may be opened again (`Reopen`), and then nothing more is promised of it.
`TcpConnection.tla` implements it whichever threads use the connection: its history
`conn.reopened` says that a `sendInLoop` has kept bytes, and so registered the
channel, after the end (`TcpConnection.cc:251`). `TcpServer.tla` implements it for
each of its connections.

**EventLoopThreadPool.tla** (`EventLoopThreadPool.cc`, `EventLoopThread.cc`,
`Thread.cc`). The main thread starts, uses and destroys `numThreads` loops in
sequence while their threads run `threadFunc`. Of the loop itself only `quit_`
is left: cleared when `loop()` starts and obeyed afterwards, as
`QuitStopsTheLoop` shows. A locked section is one step, except the last one of
`threadFunc`, which the destructor does not wait for unless it joins.
`~EventLoopThread` may use the pointer it has tested or read `loop_` again,
as the compiler likes. Its `quit()` is two steps, `quit_ = true` (`DestructorQuit`) and
`isInLoopThread()` with `wakeup()` (`DestructorWake`). `fault` records every use of a
destroyed object, by the thread it belongs to and its kind (`Use`); the program goes on
as one of the outcomes.

**TcpServer.tla** (`TcpServer.cc`, `Acceptor.cc`, `Socket.cc`). Several clients,
the base loop (number 0) and a pool of 0 to `MaxThreads` loops.

* *start*: any thread may call it, and each of two threads does so at most once:
  `started_++ == 0`, `threadPool_->start`, `listen` (queued if the thread is not
  the one of the base loop) are three steps (`Start`, `StartPool`, `Listen`).
* *accept*: `HandleRead` is `Acceptor::handleRead` with `newConncetion`: `accept4`
  takes the first client of the backlog or fails with EMFILE when the descriptors
  are used up; the id, the entry in `conncetions_`, the next loop, and
  `connectEstablished`, at once or queued. A descriptor is used as long as the
  table or a functor refers to the connection (`Alive`).
* *the end*: `HandleClose` (with `removeConnection`), `RunRemoveConnectionInLoop`,
  `RunConnectDestoryed`.
* *loops*: `BeginLoop`, `TakeFunctors`, one step per functor, `FunctorsDone`. A loop that has
  ended is destroyed with the functors left in it.
* *~TcpServer*: `Destroy`, one `DestroyItem` per entry of the table, `ItemsDone`,
  the members in reverse order: the pool quits and joins one thread after the
  other (`QuitThread`, `Joined`; `told` is the last one told), then `DestroyAcceptor`. The base loop may follow
  (`DestroyBaseLoop`).

It uses what the other modules show: functors run in the order queued and are not
slept on; `startLoop` returns a loop that is published and begins to run; a connection
used only by its callbacks ends once. It assumes of the user what the code cannot check: the
server is destroyed on the base loop's thread, outside `loop()` or in a functor
but not in a handler, while nobody is inside `start()`. Functors of the user's
own are not modelled; a functor that destroys the server may be alone in its
batch, which is why `MayCall` allows `pc = "poll"`. `StartPool` publishes the loops, and each goes into
`loop()` with a step of its own (`BeginLoop`), which sets `quit_ = false` and so erases a
`quit()` of the destructor that came first; then the destructor waits in `Joined` for
ever. The `wakeup()` behind `quit_ = true`, which may find the loop destroyed, is in
`EventLoopThreadPool.tla` only. `ran` is as in `TcpConnection.tla`. `early` and `fault` are
histories for `NoUseOfDestroyedServer`. Once a functor has used the destroyed
server the base loop is `undefined` and takes no step.

## 3. Runs

| Run | Instance | Shows |
| --- | --- | --- |
| `event_loop_safety` | owner, 2 callers (symmetric), 2 calls each | `TypeOK`, `NoLostWakeup`, `NoLostQuit`, `ProgramOrder` |
| `event_loop_liveness` | owner, 1 caller, 2 calls | implements `TaskQueue`; every functor not queued before `loop()` runs or the loop exits; `quit()` stops a running loop |
| `epoll_poller` | 3 addresses, 3 descriptors (symmetric), `events_` of 1 | index, map, interest list agree, but for what a channel destroyed while in the poller leaves behind; no failed `epoll_ctl`; no other active channel dangles |
| `buffer` | 2 byte values, vector 1 + 2, extrabuf 2, chunks <= 3, <= 4 readable | indices in order, implements `ByteQueue`, grows only when full |
| `tcp_connection` | 2 other threads with 1 call each, served by the base loop or by another, 2-byte sends, mark 2 | whoever uses it: buffered output waits for EPOLLOUT, a shutdown follows the output, the table keeps the connection until its user has heard of the end; until a `sendInLoop` opens it again: it implements `ConnectionLife`, is gone from the poller when destroyed, is cleaned up when the peer is gone; used by its callbacks alone: it is never opened again nor used after its destruction, and an accepted shutdown happens |
| `tcp_server` | 2 clients, 0 to 2 sub-loops, 1 or 2 descriptors, 2 callers of `start()` | the table is exact, watched channels are alive, the pool serves, nothing is left after the destructor, who may use a destroyed server; each connection implements `ConnectionLife`; a waiting client is served also after EMFILE, a closed connection is released, `~TcpServer` returns if every loop has begun |
| `thread_pool` | 3 threads, user code may quit the second, 5 connections | loops in `loops_` are alive, fair shares, nothing but the `wakeup()` of the destructor's `quit()` comes too late; `startLoop` returns; the destructor of a running loop ends |

Runs that TLC must find violated (the `findings`):

| Run | The text | The code |
| --- | --- | --- |
| `event_loop_tasks_dropped` | chapter1.md:559, earlier tasks have all been processed | a functor queued after `doPendingFunctors` has swapped the vectors, with an empty batch or before its end, and before `quit()`, is dropped |
| `tcp_connection_send_after_shutdown` | `TcpConnection.cc:192`, after shutdown nothing is sent | line 193 assigns instead of comparing |
| `tcp_connection_dangling_functor` | `TcpConnection.cc:261`, the shared pointer keeps the connection | functors of `send`/`shutdown` hold a raw `this`: one that is queued behind `connectDestoryed` and runs in a later batch finds the object destroyed |
| `tcp_connection_shutdown_ignored` | `TcpServer.cc:104`, shutdown leads to `shutWrite` | line 285 acts only when `kDisconnected` |
| `thread_pool_destructor_hangs` | chapter1.md:557, `loop()` leaves because `quit_ = true` | `EventLoop.cc:80` clears a `quit()` that came before `loop()`: `~EventLoopThread` just after `startLoop` joins for ever |

Some properties name their exceptions, and each exception is reachable. No text of
the repository promises the opposite, so they are hazards and not findings:

* `ImplementsConnectionLife`, `GoneFromPoller` and `ClosedIsCleanedUp` of
  `TcpConnection` hold until the connection is `reopened`: the `sendInLoop` of
  another thread may run after `handleClose`, write a part, and register the channel
  again (`TcpConnection.cc:251`). Then a second end is reported, or the connection is
  destroyed with its channel in the poller. `CallbacksAreSafe` says that callbacks
  alone never do this.
* `AcceptedShutdownHappens` holds while `CallbacksOnly` does: the `sendInLoop` of
  another thread sets `state_` back, and a `shutdownInLoop` that finds output
  waiting leaves it to a `handleWrite` that no longer closes our side.
* `NoUseOfDestroyedServer` leaves out a server that was destroyed before its base
  loop had ended (`early`), if other threads queue functors in that loop: those of
  the pool `removeConnectionInLoop`, another caller of `start()` the `listen` of
  the acceptor. Both functors hold raw pointers (`TcpServer.cc:65`, `:117`).
* `WaitingClientIsServed` and `ClosedIsReleased` speak of a server whose base loop
  runs and goes on running (`Serving`).
* `WakeupsSuffice` and `NoLostWakeup` leave out the functors queued by the
  thread-init callback before `loop()` (`Early`). `queueInLoop` does not wake its
  own thread, so they wait for the first poll to end, up to 100 s.
* `IndexMatchesKernel`, `MapMatchesIndex` and `NoDanglingChannel` of `EPollPoller` leave
  out what a channel leaves behind that is destroyed while it is in the poller (`stray`,
  `lost`): the kernel has its pointer until `close()`, `channels_` has it until the next
  channel with the descriptor is updated or removed, and `activeChannels_` has it until
  its turn. The only connection of a running loop to which this happens is a `reopened`
  one. What needs no exception is that every `epoll_ctl` succeeds and that what the
  poller has of a living channel is right.
* `OnlyWakeupComesLate` leaves out the `wakeup()` of the destructor's `quit()`: between
  `quit_ = true` (`EventLoop.cc:118`) and `isInLoopThread()` (`:128`) the loop can return
  and `threadFunc` destroy it on its stack, in any pool.
* `DestructorReturns` of `TcpServer` and `JoinReturns` leave out the loops that were
  published and are yet to set `quit_ = false`; `thread_pool_destructor_hangs` is about
  these.
* `OnlyWakeupComesLate`, `StartedLoopsAreAlive` and `StartReturns` leave out the
  loops that user code quits (`SelfQuit`). There, `startLoop` can find `loop_`
  null again and wait for ever (`EventLoopThread.cc:37`), and the unlocked read at
  `EventLoopThread.cc:22` races with the end of `threadFunc`.

### Bounds

* Calls per thread (`MaxCalls`): two calls of a thread are the least that can
  overtake each other, or put a `quit()` before or after a functor; two callers
  and the owner give three threads. The refinement and liveness runs take one
  caller, because nothing in the loop compares callers.
* `kInitEventListSize = 1` makes every poll with a ready channel fill `events_`;
  three addresses on three descriptors allow a reused descriptor under a new
  address while another channel is being handled, and a stray entry beside two channels
  that are not.
* `Buffer`: sizes so small that each chunk can fit, fit after sliding, or need
  growth, with the prepend area in or out of reach; an `extrabuf` smaller and
  larger than the writable part.
* `SendLen` and `HighWaterMark`: a send can be written whole, in part or not at
  all, and cross the mark. `MaxData`: a peer that closes with data unread.
* `numThreads = 3`, so that a thread is neither first nor last and every kind of
  loop, quit by user code or not, has a neighbour; `MaxConns = 5`,
  so that the round robin wraps around in the middle.
* `TcpServer`: two clients and one descriptor make the second client wait for the
  end of the first; two sub-loops make the join of one overlap with the other's
  work; every interleaving of two connections' functors in one or two loops
  occurs. With one connection per client, names and queues stay finite.
* Deadlock checking is off where the system stops for good: a loop after
  `quit()`, a destroyed pool, a destroyed connection or server, a poller whose
  behaviour has become undefined.

### Fairness

* `EventLoop`: every thread keeps running (weak fairness of the owner's steps and
  of the second half of each call), and `epoll_wait` returns when the eventfd is
  readable, which epoll guarantees. The 100 s timeout is not counted on.
  Nobody has to call the API.
* `TcpConnection`: the loops keep running and end their batches; the serving loop comes back from
  `epoll_wait` while functors wait (that is `WakeupsSuffice`); strong fairness of
  `PollReports(TRUE)`: a descriptor that stays ready is reported, also if other
  channels are reported in between, and the send buffer does not stay full for
  ever, that is, the peer goes on reading or goes away. Without the last
  assumption a pending shutdown may rightly wait for ever.
* `TcpServer`: every thread keeps running, a published loop begins to run, a caller that is inside `start()`
  goes on, and a destructor that has begun goes on (its wait for a thread is the
  guard of `QuitThread`). The poller reports a channel that stays ready, which epoll
  guarantees (level-triggered). Every peer leaves at last: without that a
  process out of descriptors may keep a client waiting for ever, and rightly so.
  Nobody has to start, quit or destroy anything.
* `EventLoopThreadPool`: all threads keep running. A spurious wakeup is allowed
  and never relied on.

## 4. Proofs

**EventLoopProofs.tla**, for any set of callers and any number of calls:

* `TypeCorrect`: `Spec => []TypeOK`.
* `WakeupIsNotLost`, `QuitIsNotLost`: `NoLostWakeup` and `NoLostQuit`. Neither is
  inductive: they speak of `pc = "poll"` only. The invariant `IInv` says, for
  every place of the loop, by what a pending functor is announced (a wakeup
  written or about to be, or a `doPendingFunctors` that is still to come in this
  iteration), and that the owner is inside a call only where it runs user code.
* `LoopImplementsTaskQueue`: `Spec => ImplementsTaskQueue`, one step per action:
  the swap moves functors inside `Waiting`, a push is `Submit`, `RunFunctor` is
  `Execute`, the exit is `Stop`, everything else stutters. That a submitted task
  is new follows from the numbering of calls.
* `CallsRunInOrder`: `ProgramOrder`, with the same numbering: a new functor has the
  largest number of its thread and comes last, and taking the head of the batch
  moves nothing. The owner's own functors are included: what waits is in the order of
  its calls, and only one that `runInLoop` ran on the spot may have overtaken others.

**EPollPollerProofs.tla**, for any addresses and any finite set of descriptors:
`TypeCorrect`, `IndexIsRight`, `EpollCtlNeverFails`, `MapIsRight`,
`ActiveChannelsLive`, all from one invariant: the type invariant, no two live
channels on one descriptor, the three properties themselves with their exceptions, and
that what is still to be handled is in the poller or lost (not merely live: a channel
that is not in the poller may be destroyed by anyone and leaves no trace). `Destroy` is
allowed at any time, so the theorems say that nothing dangles but what the histories
name, and these grow by `Destroy` alone.

**BufferProofs.tla**, for any sizes and any bytes: `IndicesStayInOrder`, from one
lemma per operation; `EnsureMakesRoom` is the one that matters. `BufferIsByteQueue`:
the buffer implements `ByteQueue`. `Holds(b, s)` says byte by byte that `b` holds the
sequence `s`; `EnsureKeepsContent` and `WriteAddsContent` say what sliding, growing
and writing do to it, and `SplitData` that `readv` splits the data in order between
the vector and `extrabuf`. `VectorGrowsWhenFull`: a step that makes the vector longer
had no room for the data in front and behind.

**TcpConnectionProofs.tla**, for any threads, calls, sizes and marks:
`TypeCorrect`, `BufferedOutputIsScheduled`, `ShutdownWaitsForOutput` and
`MapKeepsUntilDown`. A member function is a function from connections to sets of
connections, so there is one lemma per member function: `Good(c)` (the type,
output scheduled, nothing cut off, no `connectDestoryed` before the end) holds of
every result. `NotDestroyedEarly` is what makes it inductive: `connectDestoryed`
clears the interest in EPOLLOUT, and must not come while output is kept.

A second invariant, `Remembered`, says what becomes of a `shutdown` that was
accepted. A connection has `Forgotten` it when `state_` is `kDisconnecting`, our side
is open, no write is under way that would close it, and no `shutdownInLoop` is queued.
`Minds(c, d)` says that a call that leads from `c` to `d` does not forget, and leaves
a registered channel registered; one lemma per member function again, and two
exceptions: `shutdown` on another thread sets `state_` before it queues, and
`shutdownInLoop` leaves the queue. From it follow

* `ShutdownIsNotLost`: while `state_` says `kDisconnecting` and the connection is up,
  our side is closed, bytes wait, or a `shutdownInLoop` is on its way, for any threads.
  This is the safety behind `AcceptedShutdownHappens`, and needs no `CallbacksOnly`,
  because it speaks only as long as no `sendInLoop` has set `state_` back;
* `ChannelRemovedInFunctors`: the channel leaves the poller in a functor only, and the
  functor is `connectDestoryed`. It is what `EPollPoller.tla` assumes (`MayRemove`).

**TcpConnectionLifeProofs.tla**, for any threads: `DestroyedIsGone` and
`ConnectionLives` (it implements `ConnectionLife`). The invariant `LInv` divides the
life of a connection that was not `reopened` in three: `Made`, where `connectEstablished`
is in exactly one place; `Up`, where the channel stays in the poller because nobody
takes EPOLLIN away, and the callbacks still to do close at most once; `Down`, where
no callback that is still to do can close, send or watch again, and the removal is
either waiting in the base loop or followed by a `connectDestoryed` that is queued.
There is one lemma per member function for `Up`, one for each that begins or ends a
stretch, and one per stretch that says where its steps lead: from `Down`, a
`sendInLoop` is the only step that can open the connection again. The last part of
`LInv`, `Untouched`, says that without calls of other threads no functor with a raw
`this` is queued; it gives `CallbacksDoNoHarm` (`CallbacksAreSafe`).
`ConnectionIsAttended`: until it is `reopened`, the connection is at any time about to
be set up, or its channel waits for EPOLLIN in the poller, or its removal is on its way,
or it has left both the map and the poller. This is the safety behind `ClosedIsCleanedUp`.

**EventLoopThreadPoolProofs.tla**, for any number of threads and connections and
any `SelfQuit`: `TypeCorrect`, `LoopsHandedOutAreAlive`, `SharesAreFair`,
`UsesComeInTime`. The invariant follows the sequence of the main thread:
`loops_` has the threads before `cur`, the threads after it do not exist, and a
loop that user code leaves alone has `quit_` only when the destructor has come to
it. `Dealt` strengthens `FairShare`: the loops up to `next_` have had exactly one
turn more than the others. `SleepIsAnswered`, the safety behind `StartReturns`: while
`startLoop` sleeps, the notification is still to come.

**TcpServerProofs.tla**, for any finite set of clients and any number of loops and
descriptors: `TypeCorrect`, `TableIsRight`, `WatchedConnectionsLive`, `PoolServes`,
`ServerUsedAlive`, `ReleasedAtLast`, and `EveryConnectionIsAttended`: while the server
lives, each of its connections is watched by its poller or a functor is waiting that
sets it up, drops it or destroys it, or has run in a batch that is about to end (the
safety behind `ClosedIsReleased`). None of
them is inductive, because what a functor finds when it runs depends on what waits
before and behind it. The invariant `IInv` has these parts:

* `QueuesOK`: in a loop's queue (the rest of the batch and what waits behind it)
  nothing is there twice, and no `connectEstablished` comes after the
  `connectDestoryed` of its connection;
* `FunctorsInPlace`: a functor is in the loop it is for;
* `StartedOnce`, `LoopsOfPool`: at most one thread is inside `start()`; nothing is
  accepted before the pool is there; a loop of the pool is gone only when the destructor has told
  it to quit, and all that it told but the last one are;
* `OwnNames`: `nextConnId_` counts the connections, so names are unique and
  `removeConnectionInLoop` finds its entry; it also bounds `nextConnId_`;
* `ConnsInPlace`: for each connection, what its queued functors, its counts, its
  entry and its poller may be at the same time, before and after the destructor
  has begun;
* `ServerInPlace`: what is left of the server.

**TcpServerLifeProofs.tla**: `ConnectionsLive`, that `TcpServer` implements
`ConnectionLife` for every client. One lemma per abstract step says which change
of the record and the table it is; one lemma per action of the server that touches
a connection finds the abstract step, with `IInv`.

The proofs assume what the modules' `ASSUME`s say of the constants, which TLC
evaluates in the runs, and the library theorems of TLAPS. Out of the prover's
reach, and model-checked only: all liveness. Every invariant and every action or
refinement property of the passing runs is proved, and of several liveness
properties the safety that they rest on: `ShutdownIsKept`, `NeverLeftBehind`,
`NotificationIsToCome` and `NobodyIsLeftBehind`. These are stated beside their proofs
and are in no run.

## 5. Not modelled

* The lifetime of the string behind `buf.c_str()` in `send`, and SIGPIPE after a
  reset: the model goes on as when the signal is ignored.
* `epoll_wait` failing for another reason than a signal, `eventfd`, `epoll_create`
  and `socket` failing (they end the program), an eventfd counter at its limit.
* What the user may not do and the code does not check: destroying the server in
  a handler (`~TcpServer` calls `connectDestoryed` at once in the base loop, which
  would break `MayRemove`, on which `NoDanglingChannel` rests), on another thread,
  or while a thread is in `start()`; a `TcpConnectionPtr` kept past the end of the
  pool, whose `send` would use a destroyed loop.
* Functors of other threads' `send` and `shutdown` in `TcpServer.tla`: what they do
  to one connection is in `TcpConnection.tla`.
* The races of the log: `Logger` keeps its level in one object without a lock, and
  `Timestamp::toString` uses the static buffer of `localtime`. No state of the
  program depends on the log.
* `bind`, the options of `Socket`, the formatting of `InetAddress`, the
  constructors that only store their arguments, `onConnection` of the example,
  which only logs, and the Poller that `MUDUO_USE_POLL` asks for and does not get.

## 6. Plan

Done, in this order: `EventLoop` with `TaskQueue` and proofs; `Channel` and
`EPollPoller` with proofs; `Buffer` with `ByteQueue` and proofs; `TcpConnection`
with proofs; `EventLoopThreadPool` with proofs; `TcpServer` with `Acceptor` and
proofs; `ConnectionLife` with its two implementations, both proved.

Then, on the side of the proofs: the life of a connection for any threads, what
becomes of an accepted `shutdown`, that nothing is left behind, and the assumption of
`EPollPoller` about its user.

Next: an abstract poller (who is watched, for which events), implemented by
`EPollPoller` with the kernel's list as the refinement mapping, and `TcpConnection`
composed with it, to see at the poller what a functor of another thread does after
`handleClose`.
