------------------------- MODULE EventLoopThreadPool -------------------------
(***************************************************************************)
(* The threads behind a server (src/src/EventLoopThreadPool.cc,            *)
(* EventLoopThread.cc, Thread.cc): the main thread starts numThreads       *)
(* EventLoopThreads one after the other, hands their loops out in turn     *)
(* and destroys them one after the other.  Each has a thread that makes    *)
(* an EventLoop on its stack, publishes its address in loop_ and runs it.  *)
(*                                                                         *)
(* Of EventLoop.tla only quit_ is left here, which loop() clears when it   *)
(* starts and obeys afterwards (QuitStopsTheLoop).                         *)
(***************************************************************************)
EXTENDS Integers, Sequences, FiniteSets

CONSTANTS
    numThreads,     \* numThreads_
    SelfQuit,       \* threads on whose loops user code may call quit()
    MaxConns        \* bound: calls of getNextLoop

ASSUME ThreadsAssumption == numThreads \in Nat \ {0}
ASSUME ConnsAssumption == MaxConns \in Nat

Threads == 1..numThreads

ASSUME SelfQuitAssumption == SelfQuit \subseteq Threads

VARIABLES
    pc,         \* where the main thread is
    cur,        \* the EventLoopThread it is starting or destroying
    io,         \* io[t]: where threadFunc of t is
    loop,       \* loop[t]: loop_ of t is not null
    quit,       \* quit[t]: quit_ of the EventLoop of t
    loops,      \* loops_: the loops that were started
    next,       \* next_
    handed,     \* history: how often getNextLoop has returned the loop of t
    gone,       \* the EventLoopThreads that were destroyed
    fault       \* uses of an EventLoopThread or an EventLoop after its
                \* destruction, or through a null pointer

ioVars == <<io, loop, quit>>
poolVars == <<loops, next, handed>>
vars == <<pc, cur, ioVars, poolVars, gone, fault>>

Destructor == {"test", "quit", "wake", "join", "destroyed"}

\* The uses that may come too late: threadFunc's of mutex_ and loop_, which are
\* members of its EventLoopThread; ~EventLoopThread's of loop_ to call quit();
\* and, in quit(), isInLoopThread() and wakeup() behind quit_ = true.
Use == {"member", "quit", "wakeup"}

LateUse(t, use) == fault' = fault \cup {[thread |-> t, use |-> use]}

Elements(s) == {s[i] : i \in DOMAIN s}

(* Every variable has its type; loop_ points to the loop exactly between the  *)
(* two locked sections of threadFunc.                                         *)
TypeOK ==
    /\ pc \in {"created", "start", "check", "asleep", "running"} \cup Destructor
    /\ cur \in Threads
    /\ io \in [Threads -> {"none", "init", "start", "looping", "returned",
                           "unlock", "done"}]
    /\ loop \in [Threads -> BOOLEAN]
    /\ quit \in [Threads -> BOOLEAN]
    /\ loops \in Seq(Threads)
    /\ next \in 0..numThreads - 1
    /\ handed \in [Threads -> 0..MaxConns]
    /\ gone \subseteq Threads
    /\ fault \subseteq [thread : Threads, use : Use]
    /\ \A t \in Threads : loop[t] <=> io[t] \in {"start", "looping", "returned"}

Init ==
    /\ pc = "created"
    /\ cur = 1
    /\ io = [t \in Threads |-> "none"]
    /\ loop = [t \in Threads |-> FALSE]
    /\ quit = [t \in Threads |-> FALSE]
    /\ loops = <<>>
    /\ next = 0
    /\ handed = [t \in Threads |-> 0]
    /\ gone = {}
    /\ fault = {}

-----------------------------------------------------------------------------
(* EventLoopThread::threadFunc, on the thread of t. *)

IoStep(t, from, to) ==
    /\ io[t] = from
    /\ io' = [io EXCEPT ![t] = to]

\* The EventLoop is made and the init callback called; then, under the lock,
\* loop_ is set and cond_ is notified.
PublishSilently(t) ==               \* mutant: no notify_one
    /\ IoStep(t, "init", "start")
    /\ loop' = [loop EXCEPT ![t] = TRUE]
    /\ UNCHANGED <<pc, cur, quit, poolVars, gone, fault>>

Publish(t) ==
    /\ IoStep(t, "init", "start")
    /\ loop' = [loop EXCEPT ![t] = TRUE]
    /\ pc' = IF pc = "asleep" /\ cur = t THEN "check" ELSE pc
    /\ UNCHANGED <<cur, quit, poolVars, gone, fault>>

\* loop() begins with quit_ = false.
LoopStart(t) ==
    /\ IoStep(t, "start", "looping")
    /\ quit' = [quit EXCEPT ![t] = FALSE]
    /\ UNCHANGED <<pc, cur, loop, poolVars, gone, fault>>

LoopReturns(t) ==
    /\ IoStep(t, "looping", "returned")
    /\ quit[t]
    /\ UNCHANGED <<pc, cur, loop, quit, poolVars, gone, fault>>

\* threadFunc locks mutex_ and clears loop_; the lock is released and the
\* EventLoop destroyed on the way out.  mutex_ and loop_ are members of t.
UseMembers(t) == IF t \in gone THEN LateUse(t, "member") ELSE UNCHANGED fault

ClearKeepsPointer(t) ==             \* mutant: loop_ = nullptr is forgotten
    /\ IoStep(t, "returned", "unlock")
    /\ UseMembers(t)
    /\ UNCHANGED <<pc, cur, loop, quit, poolVars, gone>>

ClearLoop(t) ==
    /\ IoStep(t, "returned", "unlock")
    /\ loop' = [loop EXCEPT ![t] = FALSE]
    /\ UseMembers(t)
    /\ UNCHANGED <<pc, cur, quit, poolVars, gone>>

Leave(t) ==
    /\ IoStep(t, "unlock", "done")
    /\ UseMembers(t)
    /\ UNCHANGED <<pc, cur, loop, quit, poolVars, gone>>

IoThread(t) ==
    Publish(t) \/ LoopStart(t) \/ LoopReturns(t) \/ ClearLoop(t) \/ Leave(t)

\* quit() from the init callback, from a handler or a functor of the loop, or
\* from a thread that was given its address.
UserQuit(t) ==
    /\ t \in SelfQuit
    /\ io[t] \in {"init", "start", "looping"}
    /\ quit' = [quit EXCEPT ![t] = TRUE]
    /\ UNCHANGED <<pc, cur, io, loop, poolVars, gone, fault>>

-----------------------------------------------------------------------------
(* EventLoopThreadPool::start and EventLoopThread::startLoop. *)

Start ==
    /\ pc = "created"
    /\ pc' = "start"
    /\ UNCHANGED <<cur, ioVars, poolVars, gone, fault>>

\* Thread::start returns when the new thread runs.
ThreadStart ==
    /\ pc = "start"
    /\ io' = [io EXCEPT ![cur] = "init"]
    /\ pc' = "check"
    /\ UNCHANGED <<cur, loop, quit, poolVars, gone, fault>>

\* The loop is in hand: push it back and start the next thread.
Started ==
    /\ loops' = Append(loops, cur)
    /\ IF cur = numThreads THEN pc' = "running" /\ UNCHANGED cur
                           ELSE pc' = "start" /\ cur' = cur + 1

\* while (loop_ == nullptr) cond_.wait(lock), with mutex_ held.
CheckOnce ==                        \* mutant: if instead of while
    /\ pc = "check"
    /\ io[cur] # "unlock"
    /\ Started
    /\ UNCHANGED <<ioVars, next, handed, gone, fault>>

Check ==
    /\ pc = "check"
    /\ io[cur] # "unlock"
    /\ IF loop[cur] THEN Started ELSE pc' = "asleep" /\ UNCHANGED <<cur, loops>>
    /\ UNCHANGED <<ioVars, next, handed, gone, fault>>

\* cond_.wait may return for no reason.
SpuriousWakeup ==
    /\ pc = "asleep"
    /\ pc' = "check"
    /\ UNCHANGED <<cur, ioVars, poolVars, gone, fault>>

-----------------------------------------------------------------------------
(* getNextLoop, called by TcpServer::newConncetion. *)

NextIndexShort(n) ==                \* mutant: wraps around too early
    IF n + 2 >= Len(loops) THEN 0 ELSE n + 1

NextIndex(n) == IF n + 1 >= Len(loops) THEN 0 ELSE n + 1

Handed == {p \in Threads \X (1..MaxConns) : p[2] <= handed[p[1]]}

GetNextLoop ==
    /\ pc = "running"
    /\ Cardinality(Handed) < MaxConns
    /\ handed' = [handed EXCEPT ![loops[next + 1]] = @ + 1]
    /\ next' = NextIndex(next)
    /\ UNCHANGED <<pc, cur, ioVars, loops, gone, fault>>

-----------------------------------------------------------------------------
(* ~EventLoopThreadPool destroys threads_: ~EventLoopThread of each in turn. *)

Destroy ==
    /\ pc = "running"
    /\ pc' = "test"
    /\ cur' = 1
    /\ UNCHANGED <<ioVars, poolVars, gone, fault>>

Destroyed ==
    /\ gone' = gone \cup {cur}
    /\ IF cur = numThreads THEN pc' = "destroyed" /\ UNCHANGED cur
                           ELSE pc' = "test" /\ cur' = cur + 1

\* loop_ != nullptr, read without the lock.  If it is null the thread is left
\* alone: ~Thread detaches it.
DestructorTest ==
    /\ pc = "test"
    /\ IF loop[cur] THEN pc' = "quit" /\ UNCHANGED <<cur, gone>> ELSE Destroyed
    /\ UNCHANGED <<ioVars, poolVars, fault>>

\* loop_->quit(), up to quit_ = true.  The compiler may read loop_ again or use
\* the pointer it has tested; by now loop_ may be null and the EventLoop
\* destroyed.  fault records the undefined behaviour, and the program goes on as
\* one of its outcomes.
DestructorNoQuit ==                 \* mutant: leaves quit_ alone
    /\ pc = "quit"
    /\ pc' = "wake"
    /\ UNCHANGED <<cur, ioVars, poolVars, gone, fault>>

DestructorQuit ==
    /\ pc = "quit"
    /\ pc' = "wake"
    /\ quit' = [quit EXCEPT ![cur] = TRUE]
    /\ \E pointer \in {TRUE, loop[cur]} :
          IF pointer /\ io[cur] # "done" THEN UNCHANGED fault
                                         ELSE LateUse(cur, "quit")
    /\ UNCHANGED <<cur, io, loop, poolVars, gone>>

\* The rest of quit(): isInLoopThread() reads threadId_, wakeup() wakeupFd_.
DestructorWake ==
    /\ pc = "wake"
    /\ pc' = "join"
    /\ IF io[cur] = "done" THEN LateUse(cur, "wakeup") ELSE UNCHANGED fault
    /\ UNCHANGED <<cur, ioVars, poolVars, gone>>

\* thread_.join()
DestructorNoJoin ==                 \* mutant: does not wait for the thread
    /\ pc = "join"
    /\ Destroyed
    /\ UNCHANGED <<ioVars, poolVars, fault>>

DestructorJoin ==
    /\ pc = "join"
    /\ io[cur] = "done"
    /\ Destroyed
    /\ UNCHANGED <<ioVars, poolVars, fault>>

-----------------------------------------------------------------------------
\* What the main thread does without being asked.
MainStep ==
    \/ ThreadStart \/ Check
    \/ DestructorTest \/ DestructorQuit \/ DestructorWake \/ DestructorJoin

Next ==
    \/ \E t \in Threads : IoThread(t) \/ UserQuit(t)
    \/ MainStep
    \/ Start \/ SpuriousWakeup \/ GetNextLoop \/ Destroy

Spec == Init /\ [][Next]_vars

\* All threads keep running; cond_.wait need not return unless notified, and
\* nobody has to start, use or destroy the pool.
FairSpec ==
    Spec /\ WF_vars(MainStep) /\ \A t \in Threads : WF_vars(IoThread(t))

-----------------------------------------------------------------------------
(* Every loop that startLoop has returned was published by its thread and is  *)
(* alive, whatever wakes cond_.wait, until the pool is destroyed or user code *)
(* quits the loop.                                                            *)
StartedLoopsAreAlive ==
    pc \notin Destructor =>
        \A t \in Elements(loops) \ SelfQuit : io[t] \in {"start", "looping"}

(* getNextLoop deals connections out evenly (README.md:19, round robin): the  *)
(* loops never differ by more than one.                                       *)
FairShare ==
    pc = "running" => \A s, t \in Threads : handed[s] <= handed[t] + 1

(* threadFunc never touches mutex_ or loop_ of a destroyed EventLoopThread,   *)
(* and ~EventLoopThread never calls quit() on a destroyed EventLoop, as long  *)
(* as nobody else quits the loop.  The exception is reached in the code:      *)
(* between quit_ = true (EventLoop.cc:118) and the wakeup() of the same       *)
(* quit() the loop can return and be destroyed on its thread's stack.         *)
OnlyWakeupComesLate ==
    \A f \in fault : f.thread \in SelfQuit \/ f.use = "wakeup"

(* startLoop returns, unless user code has quit the loop: no notification is  *)
(* lost between the test of loop_ and the wait.                               *)
StartReturns ==
    \A t \in Threads \ SelfQuit :
        (pc = "start" /\ cur = t) ~> t \in Elements(loops)

(* ~EventLoopThread ends if loop() is already running when it calls quit(),   *)
(* whoever else calls quit() at the same time.                                *)
JoinReturns ==
    \A t \in Threads :
        (pc = "quit" /\ cur = t /\ io[t] = "looping") ~> t \in gone

(* tutorial/chapter1.md:557 says that loop() exits because quit_ = true; so   *)
(* ~EventLoopThread, which relies on it, ends.  A loop that was published and *)
(* is yet to start forgets the quit() and is joined for ever.                 *)
DestructorReturns == pc = "test" ~> pc = "destroyed"
=============================================================================
