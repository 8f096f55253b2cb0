------------------------------ MODULE EventLoop ------------------------------
(***************************************************************************)
(* One EventLoop (src/src/EventLoop.{h,cc}): the thread that owns it and   *)
(* runs loop(), and the other threads that call queueInLoop, runInLoop and *)
(* quit on it.  A step is the code between two accesses to shared state:   *)
(* the locked push of queueInLoop and the wakeup() that follows it are two *)
(* steps, and so are quit_ = true and its wakeup().                        *)
(*                                                                         *)
(* The owner calls the API of its loop before loop() (the thread-init      *)
(* callback of EventLoopThread), from an event handler, from a functor,    *)
(* and after loop() has returned.                                          *)
(*                                                                         *)
(* Left out: looping_, which nothing reads; pollReturnTime_; logging.      *)
(***************************************************************************)
EXTENDS Integers, Sequences, FiniteSets

CONSTANTS
    Owner,          \* the thread whose id is threadId_
    Callers,        \* the other threads that hold a pointer to the loop
    MaxCalls        \* bound: API calls made by each thread

ASSUME OwnerAssumption == Owner \notin Callers
ASSUME CallsAssumption == MaxCalls \in Nat

Thread == Callers \cup {Owner}

\* The channels of this loop that can be active: the eventfd's, and one that
\* stands for all the sockets.
Channels == {"wakeup", "io"}

\* A functor is known by who queued it and by which of its calls; when says
\* where loop() was at that time ("batch": between the swap of
\* doPendingFunctors and its end, "quitting": after a quit()).
When == {"beforeLoop", "looping", "batch", "quitting"}
Functor == [by : Thread, n : 1..MaxCalls, when : When]

VARIABLES
    pendingFunctors,            \* pendingFunctors_, guarded by mutex_
    functors,                   \* local vector of doPendingFunctors
    callingPendingFunctors,     \* callingPendingFunctors_
    quit,                       \* quit_
    wakeupFd,                   \* the eventfd holds a non-zero count
    activeChannels,             \* activeChannels_ not yet handled
    pc,                         \* where the owner is in loop()
    call,                       \* call[t]: API call thread t is inside of
    calls,                      \* calls[t]: API calls t has made
    executed                    \* history: functors in the order they ran

taskVars == <<pendingFunctors, functors, callingPendingFunctors, executed>>
loopVars == <<quit, wakeupFd, activeChannels, pc>>
callVars == <<call, calls>>

vars == <<taskVars, loopVars, callVars>>

Pc == {"created", "test", "poll", "dispatch", "handler", "next", "functor",
       "exited"}

\* Where the owner's thread is executing user code, so that it can call the API.
InUserCode == pc \in {"created", "handler", "functor", "exited"}

(* Every variable has its type; callingPendingFunctors_ is up exactly while *)
(* doPendingFunctors runs its batch, which exists nowhere else.             *)
TypeOK ==
    /\ pendingFunctors \in Seq(Functor)
    /\ functors \in Seq(Functor)
    /\ callingPendingFunctors \in BOOLEAN
    /\ quit \in BOOLEAN
    /\ wakeupFd \in BOOLEAN
    /\ activeChannels \in SUBSET Channels
    /\ pc \in Pc
    /\ call \in [Thread -> {"idle", "queued", "quitting"}]
    /\ calls \in [Thread -> 0..MaxCalls]
    /\ executed \in Seq(Functor)
    /\ callingPendingFunctors <=> pc \in {"next", "functor"}
    /\ functors # <<>> => callingPendingFunctors

Init ==
    /\ pendingFunctors = <<>>
    /\ functors = <<>>
    /\ callingPendingFunctors = FALSE
    /\ quit = FALSE
    /\ wakeupFd = FALSE
    /\ activeChannels = {}
    /\ pc = "created"
    /\ call = [t \in Thread |-> "idle"]
    /\ calls = [t \in Thread |-> 0]
    /\ executed = <<>>

-----------------------------------------------------------------------------
(* The API, called by any thread. *)

\* EventLoop::isInLoopThread
isInLoopThread(t) == t = Owner

MayCall(t) ==
    /\ call[t] = "idle"
    /\ calls[t] < MaxCalls
    /\ isInLoopThread(t) => InUserCode

\* The functor that thread t passes to its next call.
NewFunctor(t) ==
    [by |-> t, n |-> calls[t] + 1,
     when |-> CASE pc = "created" -> "beforeLoop"
                [] pc # "created" /\ (quit \/ pc = "exited") -> "quitting"
                [] pc # "created" /\ ~quit /\ pc # "exited" ->
                       IF callingPendingFunctors THEN "batch" ELSE "looping"]

EnterCall(t) == calls' = [calls EXCEPT ![t] = @ + 1]

wakeup == wakeupFd' = TRUE

\* queueInLoop up to the end of the locked block.
QueueInLoop(t) ==
    /\ MayCall(t)
    /\ EnterCall(t)
    /\ pendingFunctors' = Append(pendingFunctors, NewFunctor(t))
    /\ call' = [call EXCEPT ![t] = "queued"]
    /\ UNCHANGED <<functors, callingPendingFunctors, executed, loopVars>>

\* The rest of queueInLoop: wake the loop unless its owner is sure to see the
\* functor before it polls again.
NeedsWakeupCallersOnly(t) == ~isInLoopThread(t)       \* mutant

NeedsWakeup(t) == ~isInLoopThread(t) \/ callingPendingFunctors

QueueInLoopWake(t) ==
    /\ call[t] = "queued"
    /\ IF NeedsWakeup(t) THEN wakeup ELSE UNCHANGED wakeupFd
    /\ call' = [call EXCEPT ![t] = "idle"]
    /\ UNCHANGED <<taskVars, quit, activeChannels, pc, calls>>

\* runInLoop on the owner's thread runs the functor at once; on another thread
\* it is queueInLoop.
RunInLoop(t) ==
    /\ isInLoopThread(t)
    /\ MayCall(t)
    /\ EnterCall(t)
    /\ executed' = Append(executed, NewFunctor(t))
    /\ UNCHANGED <<pendingFunctors, functors, callingPendingFunctors, loopVars,
                   call>>

\* quit up to its test of the calling thread.
Quit(t) ==
    /\ MayCall(t)
    /\ EnterCall(t)
    /\ quit' = TRUE
    /\ call' = [call EXCEPT ![t] = "quitting"]
    /\ UNCHANGED <<taskVars, wakeupFd, activeChannels, pc>>

QuitNeedsWakeupInverted(t) == isInLoopThread(t)       \* mutant

QuitNeedsWakeup(t) == ~isInLoopThread(t)

QuitWake(t) ==
    /\ call[t] = "quitting"
    /\ IF QuitNeedsWakeup(t) THEN wakeup ELSE UNCHANGED wakeupFd
    /\ call' = [call EXCEPT ![t] = "idle"]
    /\ UNCHANGED <<taskVars, quit, activeChannels, pc, calls>>

FinishCall(t) == QueueInLoopWake(t) \/ QuitWake(t)

-----------------------------------------------------------------------------
(* loop(), on the owner's thread. *)

\* The owner proceeds only when it is not inside a call of its own.
OwnerIdle == call[Owner] = "idle"

\* loop() starts: looping_ = true; quit_ = false.
LoopStart ==
    /\ pc = "created"
    /\ OwnerIdle
    /\ quit' = FALSE
    /\ pc' = "test"
    /\ UNCHANGED <<taskVars, wakeupFd, activeChannels, callVars>>

\* while (!quit_), then activeChannels_.clear() and into epoll_wait.
Test ==
    /\ pc = "test"
    /\ pc' = IF quit THEN "exited" ELSE "poll"
    /\ activeChannels' = {}
    /\ UNCHANGED <<taskVars, quit, wakeupFd, callVars>>

\* What epoll_wait can report now.  A socket may be ready at any time; the
\* eventfd is level-triggered and ready while its count is not zero.
Ready == {"io"} \cup (IF wakeupFd THEN {"wakeup"} ELSE {})

\* epoll_wait reports some of the ready channels (its table is finite).
PollReturn ==
    /\ pc = "poll"
    /\ activeChannels' \in (SUBSET Ready) \ {{}}
    /\ pc' = "dispatch"
    /\ UNCHANGED <<taskVars, quit, wakeupFd, callVars>>

\* kPollTimeMs have passed, or a signal interrupted epoll_wait.
PollTimeout ==
    /\ pc = "poll"
    /\ pc' = "dispatch"
    /\ UNCHANGED <<taskVars, quit, wakeupFd, activeChannels, callVars>>

\* EventLoop::handleRead: reading the eventfd resets its count.
HandleRead ==
    /\ pc = "dispatch"
    /\ "wakeup" \in activeChannels
    /\ wakeupFd' = FALSE
    /\ activeChannels' = activeChannels \ {"wakeup"}
    /\ UNCHANGED <<taskVars, quit, pc, callVars>>

\* The handler of a socket's channel, which is user code.
HandleEvent ==
    /\ pc = "dispatch"
    /\ "io" \in activeChannels
    /\ activeChannels' = activeChannels \ {"io"}
    /\ pc' = "handler"
    /\ UNCHANGED <<taskVars, quit, wakeupFd, callVars>>

HandlerReturn ==
    /\ pc = "handler"
    /\ OwnerIdle
    /\ pc' = "dispatch"
    /\ UNCHANGED <<taskVars, quit, wakeupFd, activeChannels, callVars>>

\* doPendingFunctors up to the swap, which is under the lock; only the owner
\* reads callingPendingFunctors_, so raising it is not a step of its own.
DoPendingFunctorsCopy ==        \* mutant: copies the vector, leaves it as it is
    /\ pc = "dispatch"
    /\ activeChannels = {}
    /\ callingPendingFunctors' = TRUE
    /\ functors' = pendingFunctors
    /\ pc' = "next"
    /\ UNCHANGED <<pendingFunctors, executed, quit, wakeupFd, activeChannels,
                   callVars>>

DoPendingFunctors ==
    /\ pc = "dispatch"
    /\ activeChannels = {}
    /\ callingPendingFunctors' = TRUE
    /\ functors' = pendingFunctors
    /\ pendingFunctors' = <<>>
    /\ pc' = "next"
    /\ UNCHANGED <<executed, quit, wakeupFd, activeChannels, callVars>>

\* The next functor of the batch starts to run.
RunFunctor ==
    /\ pc = "next"
    /\ functors # <<>>
    /\ executed' = Append(executed, Head(functors))
    /\ functors' = Tail(functors)
    /\ pc' = "functor"
    /\ UNCHANGED <<pendingFunctors, callingPendingFunctors, quit, wakeupFd,
                   activeChannels, callVars>>

FunctorReturn ==
    /\ pc = "functor"
    /\ OwnerIdle
    /\ pc' = "next"
    /\ UNCHANGED <<taskVars, quit, wakeupFd, activeChannels, callVars>>

FunctorsDoneFlagUp ==           \* mutant: leaves callingPendingFunctors_ up
    /\ pc = "next"
    /\ functors = <<>>
    /\ pc' = "test"
    /\ UNCHANGED <<taskVars, quit, wakeupFd, activeChannels, callVars>>

FunctorsDoneClear ==            \* mutant: clears what was queued meanwhile
    /\ pc = "next"
    /\ functors = <<>>
    /\ callingPendingFunctors' = FALSE
    /\ pendingFunctors' = <<>>
    /\ pc' = "test"
    /\ UNCHANGED <<functors, executed, quit, wakeupFd, activeChannels,
                   callVars>>

\* doPendingFunctors ends.
FunctorsDone ==
    /\ pc = "next"
    /\ functors = <<>>
    /\ callingPendingFunctors' = FALSE
    /\ pc' = "test"
    /\ UNCHANGED <<pendingFunctors, functors, executed, quit, wakeupFd,
                   activeChannels, callVars>>

-----------------------------------------------------------------------------
\* The owner's steps that do not wait for the outside world.
OwnerStep ==
    \/ LoopStart \/ Test
    \/ HandleRead \/ HandleEvent \/ HandlerReturn
    \/ DoPendingFunctors \/ RunFunctor \/ FunctorReturn \/ FunctorsDone

Next ==
    \/ \E t \in Thread :
          \/ QueueInLoop(t) \/ RunInLoop(t) \/ Quit(t)
          \/ QueueInLoopWake(t) \/ QuitWake(t)
    \/ OwnerStep
    \/ PollReturn
    \/ PollTimeout

Spec == Init /\ [][Next]_vars

\* Every thread keeps running, handlers and functors return, and epoll_wait
\* returns when the eventfd is readable.  Nobody has to call the API, no socket
\* has to become ready, and the 100 s timeout is not counted on.
Fairness ==
    /\ WF_vars(OwnerStep)
    /\ WF_vars(PollReturn /\ wakeupFd)
    /\ \A t \in Thread : WF_vars(FinishCall(t))

FairSpec == Spec /\ Fairness

-----------------------------------------------------------------------------
(* The functors handed over and not run yet, oldest first. *)
Waiting == functors \o pendingFunctors

\* Queued by the thread-init callback, before loop().
Early(f) == f.by = Owner /\ f.when = "beforeLoop"

(* The owner does not sleep on work: while it is in epoll_wait and a functor  *)
(* is pending, the eventfd is readable or the thread that queued one is about *)
(* to write to it.  Functors of the thread-init callback are the exception,   *)
(* see WakeupsSuffice.  (queueInLoop against loop() and doPendingFunctors.)   *)
NoLostWakeup ==
    (/\ pc = "poll"
     /\ \E i \in DOMAIN pendingFunctors : ~Early(pendingFunctors[i]))
        => wakeupFd \/ \E t \in Callers : call[t] = "queued"

(* The owner does not sleep on quit_: while it is in epoll_wait and quit_ is  *)
(* up, the eventfd is readable or the thread that raised it is about to write *)
(* to it.  (quit against loop().)                                             *)
NoLostQuit ==
    (pc = "poll" /\ quit)
        => wakeupFd \/ \E t \in Callers : call[t] = "quitting"

(* The functors of one thread run once, in the order of its calls, also when  *)
(* they are spread over the running batch and the vector.  Only what has run  *)
(* on the owner may be out of order: runInLoop there overtakes the functors   *)
(* that the owner has queued before.                                          *)
ProgramOrder ==
    LET all == executed \o Waiting IN
    \A i, j \in DOMAIN all :
        (i < j /\ all[i].by = all[j].by)
            => \/ all[i].n < all[j].n
               \/ /\ isInLoopThread(all[i].by) /\ i <= Len(executed)
                  /\ all[i].n # all[j].n

(* The loop keeps the promise of TaskQueue: what a step does to the two       *)
(* vectors is to submit one task, to run the oldest one, to run a task of the *)
(* owner on the spot, or nothing.                                             *)
TQ == INSTANCE TaskQueue
        WITH Task <- Functor, queue <- Waiting, done <- executed,
             stopped <- pc = "exited"

ImplementsTaskQueue == TQ!Spec

(* Every functor is run unless the loop exits, without the help of a timeout  *)
(* or of a socket.  Not so those that the thread-init callback queues before  *)
(* loop(): nothing announces them, and they wait for the first poll to end.   *)
WakeupsSuffice ==
    \A f \in Functor :
        (~Early(f) /\ f \in TQ!Elements(Waiting))
            ~> (f \in TQ!Elements(executed) \/ pc = "exited")

(* A quit() that finds the loop running makes loop() return, without the help *)
(* of a timeout or of a socket.                                               *)
QuitStopsTheLoop == (quit /\ pc # "created") ~> pc = "exited"

(* tutorial/chapter1.md:559 says that when quit() takes effect the earlier    *)
(* tasks have all been processed.  loop() tests quit_ right after             *)
(* doPendingFunctors, so a task queued after the swap and before quit() is    *)
(* dropped.                                                                   *)
EarlierTasksProcessed ==
    pc = "exited" =>
        \A i \in DOMAIN pendingFunctors : pendingFunctors[i].when # "batch"
=============================================================================
