--------------------------- MODULE EventLoopProofs ---------------------------
(***************************************************************************)
(* Proofs about EventLoop.tla for any set of callers and any MaxCalls.     *)
(***************************************************************************)
EXTENDS EventLoop, SequenceTheorems, TLAPS

-----------------------------------------------------------------------------
(* The inductive invariant behind NoLostWakeup and NoLostQuit. *)

\* The owner is inside an API call only while it runs user code.
CallsFromUserCode == call[Owner] # "idle" => InUserCode

\* Outside the stretch of loop() from the return of epoll_wait to the swap of
\* doPendingFunctors, a pending functor is announced by the eventfd, or will be
\* by a thread that is still inside queueInLoop.
PendingIsAnnounced ==
    (/\ pc \notin {"dispatch", "handler", "exited"}
     /\ \E i \in DOMAIN pendingFunctors : ~Early(pendingFunctors[i]))
        => wakeupFd \/ \E t \in Thread : call[t] = "queued" /\ NeedsWakeup(t)

IInv == TypeOK /\ CallsFromUserCode /\ PendingIsAnnounced /\ NoLostQuit

-----------------------------------------------------------------------------
(* Every variable keeps its type; the flag of doPendingFunctors is up exactly *)
(* while a batch runs.                                                        *)
THEOREM TypeCorrect == Spec => []TypeOK
<1>1. Init => TypeOK
  <2> SUFFICES ASSUME Init PROVE TypeOK
    OBVIOUS
  <2> USE DEF Init
  <2>1. <<>> \in Seq(Functor)
    BY EmptySeq
  <2>2. callingPendingFunctors <=> pc \in {"next", "functor"}
    OBVIOUS
  <2>3. calls \in [Thread -> 0..MaxCalls]
    BY CallsAssumption
  <2>4. functors # <<>> => callingPendingFunctors
    OBVIOUS
  <2> QED
    BY <2>1, <2>2, <2>3, <2>4 DEF TypeOK, Pc, Channels
<1>2. TypeOK /\ [Next]_vars => TypeOK'
  <2> SUFFICES ASSUME TypeOK, [Next]_vars PROVE TypeOK'
    OBVIOUS
  <2> USE CallsAssumption DEF TypeOK, Pc, Channels, Thread, taskVars,
                             loopVars, callVars
  <2>1. ASSUME NEW t \in Thread, MayCall(t)
        PROVE  NewFunctor(t) \in Functor
    BY <2>1 DEF MayCall, NewFunctor, Functor, When
  <2>2. ASSUME NEW t \in Thread, QueueInLoop(t) PROVE TypeOK'
    BY <2>1, <2>2 DEF QueueInLoop, EnterCall, MayCall
  <2>3. ASSUME NEW t \in Thread, RunInLoop(t) PROVE TypeOK'
    BY <2>1, <2>3 DEF RunInLoop, EnterCall, MayCall
  <2>4. ASSUME NEW t \in Thread, Quit(t) PROVE TypeOK'
    BY <2>4 DEF Quit, EnterCall, MayCall
  <2>5. ASSUME NEW t \in Thread, QueueInLoopWake(t) PROVE TypeOK'
    BY <2>5 DEF QueueInLoopWake, wakeup
  <2>6. ASSUME NEW t \in Thread, QuitWake(t) PROVE TypeOK'
    BY <2>6 DEF QuitWake, wakeup
  <2>7. CASE LoopStart
    BY <2>7 DEF LoopStart
  <2>8. CASE Test
    BY <2>8 DEF Test
  <2>9. CASE HandleRead
    BY <2>9 DEF HandleRead
  <2>10. CASE HandleEvent
    BY <2>10 DEF HandleEvent
  <2>11. CASE HandlerReturn
    BY <2>11 DEF HandlerReturn
  <2>12. CASE DoPendingFunctors
    BY <2>12 DEF DoPendingFunctors
  <2>13. CASE RunFunctor
    <3>1. Head(functors) \in Functor /\ Tail(functors) \in Seq(Functor)
      BY <2>13, HeadTailProperties DEF RunFunctor
    <3> QED
      BY <2>13, <3>1 DEF RunFunctor
  <2>14. CASE FunctorReturn
    BY <2>14 DEF FunctorReturn
  <2>15. CASE FunctorsDone
    BY <2>15 DEF FunctorsDone
  <2>16. CASE PollReturn
    BY <2>16 DEF PollReturn, Ready
  <2>17. CASE PollTimeout
    BY <2>17 DEF PollTimeout
  <2>18. CASE UNCHANGED vars
    BY <2>18 DEF vars
  <2> QED
    BY <2>2, <2>3, <2>4, <2>5, <2>6, <2>7, <2>8, <2>9, <2>10, <2>11, <2>12,
       <2>13, <2>14, <2>15, <2>16, <2>17, <2>18 DEF Next, OwnerStep
<1> QED
  BY <1>1, <1>2, PTL DEF Spec

-----------------------------------------------------------------------------
LEMMA InitIInv == Init => CallsFromUserCode /\ PendingIsAnnounced /\ NoLostQuit
<1> SUFFICES ASSUME Init
             PROVE  CallsFromUserCode /\ PendingIsAnnounced /\ NoLostQuit
  OBVIOUS
<1>1. CallsFromUserCode
  BY DEF Init, CallsFromUserCode, InUserCode
<1>2. DOMAIN pendingFunctors = {}
  BY DEF Init
<1>3. PendingIsAnnounced
  BY <1>2 DEF PendingIsAnnounced
<1>4. NoLostQuit
  BY DEF Init, NoLostQuit
<1> QED
  BY <1>1, <1>3, <1>4

LEMMA NextCallsFromUserCode ==
    TypeOK /\ CallsFromUserCode /\ [Next]_vars => CallsFromUserCode'
<1> SUFFICES ASSUME TypeOK, CallsFromUserCode, [Next]_vars
             PROVE  CallsFromUserCode'
  OBVIOUS
<1> USE DEF TypeOK, CallsFromUserCode, InUserCode, Thread, isInLoopThread,
            taskVars, loopVars, callVars
<1>1. ASSUME NEW t \in Thread,
             QueueInLoop(t) \/ RunInLoop(t) \/ Quit(t) \/ QueueInLoopWake(t)
                \/ QuitWake(t)
      PROVE  CallsFromUserCode'
  BY <1>1 DEF QueueInLoop, RunInLoop, Quit, QueueInLoopWake, QuitWake, MayCall
<1>2. CASE OwnerStep
  BY <1>2 DEF OwnerStep, LoopStart, Test, HandleRead, HandleEvent,
              HandlerReturn, DoPendingFunctors, RunFunctor, FunctorReturn,
              FunctorsDone, OwnerIdle
<1>3. CASE PollReturn \/ PollTimeout
  BY <1>3 DEF PollReturn, PollTimeout
<1>4. CASE UNCHANGED vars
  BY <1>4 DEF vars
<1> QED
  BY <1>1, <1>2, <1>3, <1>4 DEF Next

LEMMA NextNoLostQuit ==
    TypeOK /\ CallsFromUserCode /\ NoLostQuit /\ [Next]_vars => NoLostQuit'
<1> SUFFICES ASSUME TypeOK, CallsFromUserCode, NoLostQuit, [Next]_vars
             PROVE  NoLostQuit'
  OBVIOUS
<1> USE DEF TypeOK, NoLostQuit, Thread, taskVars, loopVars, callVars
<1>1. ASSUME NEW t \in Thread, QueueInLoop(t) PROVE NoLostQuit'
  BY <1>1 DEF QueueInLoop, MayCall
<1>2. ASSUME NEW t \in Thread, RunInLoop(t) PROVE NoLostQuit'
  BY <1>2 DEF RunInLoop
\* Only another thread can call quit() while the owner is in epoll_wait.
<1>3. ASSUME NEW t \in Thread, Quit(t) PROVE NoLostQuit'
  BY <1>3 DEF Quit, MayCall, InUserCode, isInLoopThread
<1>4. ASSUME NEW t \in Thread, QueueInLoopWake(t) PROVE NoLostQuit'
  BY <1>4 DEF QueueInLoopWake, wakeup
<1>5. ASSUME NEW t \in Thread, QuitWake(t) PROVE NoLostQuit'
  BY <1>5 DEF QuitWake, QuitNeedsWakeup, isInLoopThread, wakeup,
              CallsFromUserCode, InUserCode
\* Of the owner's own steps only Test enters epoll_wait, and it saw quit_ down.
<1>6. CASE OwnerStep
  BY <1>6 DEF OwnerStep, LoopStart, Test, HandleRead, HandleEvent,
              HandlerReturn, DoPendingFunctors, RunFunctor, FunctorReturn,
              FunctorsDone
<1>7. CASE PollReturn \/ PollTimeout
  BY <1>7 DEF PollReturn, PollTimeout
<1>8. CASE UNCHANGED vars
  BY <1>8 DEF vars
<1> QED
  BY <1>1, <1>2, <1>3, <1>4, <1>5, <1>6, <1>7, <1>8 DEF Next

LEMMA NextPendingIsAnnounced ==
    IInv /\ [Next]_vars => PendingIsAnnounced'
<1> SUFFICES ASSUME IInv, [Next]_vars PROVE PendingIsAnnounced'
  OBVIOUS
<1> DEFINE LatePending ==
             \E i \in DOMAIN pendingFunctors : ~Early(pendingFunctors[i])
<1> USE DEF IInv, TypeOK, PendingIsAnnounced, Thread, NeedsWakeup, Early,
            isInLoopThread, taskVars, loopVars, callVars
\* The new functor is early, or comes with a thread that will wake the loop.
<1>1. ASSUME NEW t \in Thread, QueueInLoop(t) PROVE PendingIsAnnounced'
  <2>1. CASE pc \in {"dispatch", "handler", "exited"}
    BY <1>1, <2>1 DEF QueueInLoop
  <2>2. CASE t # Owner \/ callingPendingFunctors
    <3>1. call'[t] = "queued" /\ NeedsWakeup(t)'
      BY <1>1, <2>2 DEF QueueInLoop
    <3> QED
      BY <3>1
  <2>3. CASE t = Owner /\ pc = "created" /\ ~callingPendingFunctors
    <3>1. NewFunctor(t) \in Functor /\ Early(NewFunctor(t))
      BY <1>1, <2>3, CallsAssumption
         DEF NewFunctor, QueueInLoop, MayCall, Functor, When
    <3>2. LatePending' => LatePending
      BY <1>1, <3>1, AppendProperties, LenProperties DEF QueueInLoop
    <3>3. ASSUME NEW u \in Thread, call[u] = "queued", NeedsWakeup(u)
          PROVE  call'[u] = "queued" /\ NeedsWakeup(u)'
      BY <1>1, <3>3 DEF QueueInLoop
    <3> HIDE DEF LatePending
    <3> QED
      BY <1>1, <3>2, <3>3 DEF QueueInLoop, LatePending
  <2> QED
    BY <1>1, <2>1, <2>2, <2>3 DEF QueueInLoop, MayCall, InUserCode
<1>2. ASSUME NEW t \in Thread, RunInLoop(t) PROVE PendingIsAnnounced'
  BY <1>2 DEF RunInLoop
<1>3. ASSUME NEW t \in Thread, Quit(t) PROVE PendingIsAnnounced'
  BY <1>3 DEF Quit, MayCall
<1>4. ASSUME NEW t \in Thread, QueueInLoopWake(t) PROVE PendingIsAnnounced'
  BY <1>4 DEF QueueInLoopWake, wakeup
<1>5. ASSUME NEW t \in Thread, QuitWake(t) PROVE PendingIsAnnounced'
  BY <1>5 DEF QuitWake, wakeup
<1>6. CASE LoopStart \/ Test \/ HandleRead \/ HandleEvent \/ HandlerReturn
  BY <1>6 DEF LoopStart, Test, HandleRead, HandleEvent, HandlerReturn
<1>7. CASE DoPendingFunctors
  BY <1>7 DEF DoPendingFunctors
<1>8. CASE RunFunctor \/ FunctorReturn
  BY <1>8 DEF RunFunctor, FunctorReturn
\* The flag comes down, but the owner is not inside queueInLoop any more.
<1>9. CASE FunctorsDone
  <2>1. call[Owner] = "idle"
    BY <1>9 DEF FunctorsDone, CallsFromUserCode, InUserCode
  <2> QED
    BY <1>9, <2>1 DEF FunctorsDone
<1>10. CASE PollReturn \/ PollTimeout
  BY <1>10 DEF PollReturn, PollTimeout
<1>11. CASE UNCHANGED vars
  BY <1>11 DEF vars
<1> QED
  BY <1>1, <1>2, <1>3, <1>4, <1>5, <1>6, <1>7, <1>8, <1>9, <1>10, <1>11
     DEF Next, OwnerStep

(* Wherever the loop and its callers are, a pending functor and a quit() are  *)
(* announced: the strengthening of the wakeup properties.                     *)
THEOREM Inductive == Spec => []IInv
<1>1. Init => CallsFromUserCode /\ PendingIsAnnounced /\ NoLostQuit
  BY InitIInv
<1>2. IInv /\ TypeOK' /\ [Next]_vars => IInv'
  BY NextCallsFromUserCode, NextNoLostQuit, NextPendingIsAnnounced DEF IInv
<1>3. IInv <=> TypeOK /\ CallsFromUserCode /\ PendingIsAnnounced /\ NoLostQuit
  BY DEF IInv
<1> QED
  BY <1>1, <1>2, <1>3, TypeCorrect, PTL DEF Spec

(* The owner never sleeps in epoll_wait on a functor that another thread, a   *)
(* handler or a functor has queued, unless the wakeup is under way.           *)
THEOREM WakeupIsNotLost == Spec => []NoLostWakeup
<1>1. IInv => NoLostWakeup
  <2> SUFFICES ASSUME IInv, pc = "poll",
                      \E i \in DOMAIN pendingFunctors :
                          ~Early(pendingFunctors[i])
               PROVE  wakeupFd \/ \E t \in Callers : call[t] = "queued"
    BY DEF NoLostWakeup
  <2>1. call[Owner] = "idle"
    BY DEF IInv, CallsFromUserCode, InUserCode
  <2> QED
    BY <2>1 DEF IInv, PendingIsAnnounced, Thread
<1> QED
  BY <1>1, Inductive, PTL

(* The owner never sleeps in epoll_wait on a quit() that came after loop()    *)
(* began, unless the wakeup is under way.                                     *)
THEOREM QuitIsNotLost == Spec => []NoLostQuit
<1>1. IInv => NoLostQuit
  BY DEF IInv
<1> QED
  BY <1>1, Inductive, PTL

-----------------------------------------------------------------------------
(* EventLoop implements TaskQueue. *)

LEMMA ElementsOfAppend ==
    ASSUME NEW S, NEW s \in Seq(S), NEW e \in S
    PROVE  TQ!Elements(Append(s, e)) = TQ!Elements(s) \cup {e}
BY AppendProperties, LenProperties DEF TQ!Elements

LEMMA ElementsOfConcat ==
    ASSUME NEW S, NEW s \in Seq(S), NEW t \in Seq(S)
    PROVE  TQ!Elements(s \o t) = TQ!Elements(s) \cup TQ!Elements(t)
<1> DEFINE c == s \o t
<1>1. /\ c \in Seq(S) /\ Len(c) = Len(s) + Len(t)
      /\ \A i \in 1..Len(s) + Len(t) :
            c[i] = IF i <= Len(s) THEN s[i] ELSE t[i - Len(s)]
  BY ConcatProperties
<1>2. Len(s) \in Nat /\ Len(t) \in Nat
  BY LenProperties
<1>3. /\ DOMAIN c = 1..Len(s) + Len(t)
      /\ DOMAIN s = 1..Len(s)
      /\ DOMAIN t = 1..Len(t)
  BY <1>1, LenProperties
<1> HIDE DEF c
<1>4. \A i \in DOMAIN s : i \in DOMAIN c /\ c[i] = s[i]
  BY <1>1, <1>2, <1>3
<1>5. \A i \in DOMAIN t : i + Len(s) \in DOMAIN c /\ c[i + Len(s)] = t[i]
  BY <1>1, <1>2, <1>3
<1>6. \A i \in DOMAIN c :
         \/ i \in DOMAIN s /\ c[i] = s[i]
         \/ i - Len(s) \in DOMAIN t /\ c[i] = t[i - Len(s)]
  BY <1>1, <1>2, <1>3
<1>7. TQ!Elements(c) = TQ!Elements(s) \cup TQ!Elements(t)
  BY <1>4, <1>5, <1>6 DEF TQ!Elements
<1> QED
  BY <1>7 DEF c

\* Taking the head of the running batch is taking the head of all that waits.
LEMMA WaitingHeadTail ==
    ASSUME TypeOK, functors # <<>>
    PROVE  /\ Waiting # <<>>
           /\ Head(functors) = Head(Waiting)
           /\ Tail(functors) \o pendingFunctors = Tail(Waiting)
<1> USE DEF TypeOK, Waiting
<1>1. Waiting \in Seq(Functor) /\ Waiting # <<>>
  BY ConcatProperties, ConcatEqualIffEmpty
<1>2. Head(functors) = Head(Waiting)
  BY <1>1, ConcatProperties, EmptySeq
<1> DEFINE l == Tail(functors) \o pendingFunctors
           r == Tail(Waiting)
<1>3. /\ l \in Seq(Functor)
      /\ Len(l) = Len(functors) - 1 + Len(pendingFunctors)
      /\ \A i \in 1..Len(l) : l[i] = Waiting[i + 1]
  <2> DEFINE h == Tail(functors)
  <2>1. /\ h \in Seq(Functor)
        /\ Len(h) = Len(functors) - 1
        /\ \A i \in 1..Len(h) : h[i] = functors[i + 1]
    BY HeadTailProperties
  <2>2. Len(functors) \in Nat \ {0} /\ Len(pendingFunctors) \in Nat
    BY LenProperties, EmptySeq
  <2>3. /\ l \in Seq(Functor)
        /\ Len(l) = Len(h) + Len(pendingFunctors)
        /\ \A i \in 1..Len(h) + Len(pendingFunctors) :
              l[i] = IF i <= Len(h) THEN h[i] ELSE pendingFunctors[i - Len(h)]
    BY <2>1, ConcatProperties
  <2>4. \A i \in 1..Len(functors) + Len(pendingFunctors) :
           Waiting[i] = IF i <= Len(functors) THEN functors[i]
                        ELSE pendingFunctors[i - Len(functors)]
    BY ConcatProperties
  <2> HIDE DEF l, h, Waiting
  <2>5. ASSUME NEW i \in 1..Len(l) PROVE l[i] = Waiting[i + 1]
    <3>1. CASE i <= Len(h)
      BY <2>1, <2>2, <2>3, <2>4, <3>1
    <3>2. CASE i > Len(h)
      BY <2>1, <2>2, <2>3, <2>4, <3>2
    <3> QED
      BY <2>1, <2>2, <2>3, <3>1, <3>2
  <2> QED
    BY <2>1, <2>2, <2>3, <2>5
<1>4. /\ r \in Seq(Functor)
      /\ Len(r) = Len(functors) + Len(pendingFunctors) - 1
      /\ \A i \in 1..Len(r) : r[i] = Waiting[i + 1]
  BY <1>1, HeadTailProperties, ConcatProperties
<1>5. Len(functors) \in Nat /\ Len(pendingFunctors) \in Nat
  BY LenProperties
<1>6. l = r
  <2> HIDE DEF l, r, Waiting, TypeOK
  <2>1. Len(l) = Len(r) /\ \A i \in 1..Len(l) : l[i] = r[i]
    BY <1>3, <1>4, <1>5
  <2> QED
    BY <1>3, <1>4, <2>1, SeqEqual
<1> QED
  BY <1>1, <1>2, <1>6
\* A functor carries the number of a call that has been made.
Numbered ==
    \A f \in TQ!Submitted : f.n <= calls[f.by]

\* A call leaves the functors of earlier calls numbered.
LEMMA CallsMonotonic ==
    ASSUME TypeOK, NEW t \in Thread, EnterCall(t), NEW f \in Functor,
           f.n <= calls[f.by]
    PROVE  f.n <= calls'[f.by]
<1>1. f.by \in Thread /\ f.n \in Nat /\ calls[f.by] \in Nat
  BY CallsAssumption DEF TypeOK, Functor
<1>2. calls'[f.by] = calls[f.by] \/ calls'[f.by] = calls[f.by] + 1
  BY <1>1 DEF TypeOK, EnterCall
<1> QED
  BY <1>1, <1>2

\* What each kind of step does to the two sequences of TaskQueue.
LEMMA QueueInLoopSubmits ==
    ASSUME TypeOK, Numbered, NEW t \in Thread, QueueInLoop(t)
    PROVE  TQ!Submit(NewFunctor(t)) /\ Numbered'
<1> USE DEF TypeOK, taskVars, loopVars, callVars
<1>1. NewFunctor(t) \in Functor /\ NewFunctor(t).n = calls[t] + 1
                                /\ NewFunctor(t).by = t
  BY CallsAssumption DEF QueueInLoop, MayCall, NewFunctor, Functor, When
<1>2. EnterCall(t) /\ calls'[t] = calls[t] + 1
  BY DEF QueueInLoop, EnterCall
<1>3. Waiting \in Seq(Functor)
  BY ConcatProperties DEF Waiting
<1>4. Waiting' = Append(Waiting, NewFunctor(t))
  <2> DEFINE f == NewFunctor(t)
  <2>1. Append(pendingFunctors, f) = pendingFunctors \o <<f>>
    BY <1>1, AppendIsConcat
  <2>2. (functors \o pendingFunctors) \o <<f>>
            = functors \o (pendingFunctors \o <<f>>)
    BY <1>1, ConcatAssociative
  <2>3. Append(Waiting, f) = Waiting \o <<f>>
    BY <1>1, <1>3, AppendIsConcat
  <2> QED
    BY <2>1, <2>2, <2>3 DEF QueueInLoop, Waiting
<1>5. NewFunctor(t) \notin TQ!Submitted
  BY <1>1 DEF Numbered
<1>6. TQ!Submitted' = TQ!Submitted \cup {NewFunctor(t)}
  <2>1. TQ!Elements(Waiting') = TQ!Elements(Waiting) \cup {NewFunctor(t)}
    BY <1>1, <1>3, <1>4, ElementsOfAppend
  <2> QED
    BY <2>1 DEF TQ!Submitted, QueueInLoop
<1>7. \A f \in TQ!Submitted : f \in Functor
  BY <1>3, LenProperties DEF TQ!Submitted, TQ!Elements
<1>8. Numbered'
  BY <1>1, <1>2, <1>6, <1>7, CallsMonotonic DEF Numbered
<1> QED
  BY <1>4, <1>5, <1>8 DEF TQ!Submit, QueueInLoop

LEMMA RunInLoopRunsNow ==
    ASSUME TypeOK, Numbered, NEW t \in Thread, RunInLoop(t)
    PROVE  TQ!RunNow(NewFunctor(t)) /\ Numbered'
<1> USE DEF TypeOK, taskVars, loopVars, callVars
<1>1. NewFunctor(t) \in Functor /\ NewFunctor(t).n = calls[t] + 1
                                /\ NewFunctor(t).by = t
  BY CallsAssumption DEF RunInLoop, MayCall, NewFunctor, Functor, When
<1>2. EnterCall(t) /\ calls'[t] = calls[t] + 1
  BY DEF RunInLoop, EnterCall
<1>3. Waiting \in Seq(Functor) /\ Waiting' = Waiting
  BY ConcatProperties DEF Waiting, RunInLoop
<1>4. TQ!Submitted' = TQ!Submitted \cup {NewFunctor(t)}
  <2>1. TQ!Elements(executed') = TQ!Elements(executed) \cup {NewFunctor(t)}
    BY <1>1, ElementsOfAppend DEF RunInLoop
  <2> QED
    BY <1>3, <2>1 DEF TQ!Submitted
<1>5. \A f \in TQ!Submitted : f \in Functor
  BY <1>3, LenProperties DEF TQ!Submitted, TQ!Elements
<1>6. Numbered'
  BY <1>1, <1>2, <1>4, <1>5, CallsMonotonic DEF Numbered
<1>7. NewFunctor(t) \notin TQ!Submitted
  BY <1>1 DEF Numbered
<1> QED
  BY <1>3, <1>6, <1>7 DEF TQ!RunNow, RunInLoop

LEMMA RunFunctorExecutes ==
    ASSUME TypeOK, Numbered, RunFunctor
    PROVE  TQ!Execute /\ Numbered'
<1> USE DEF TypeOK, taskVars, loopVars, callVars
<1>1. /\ Waiting # <<>>
      /\ Head(functors) = Head(Waiting)
      /\ Waiting' = Tail(Waiting)
  BY WaitingHeadTail DEF RunFunctor, Waiting
<1>2. Waiting \in Seq(Functor)
  BY ConcatProperties DEF Waiting
<1>3. TQ!Execute
  BY <1>1 DEF TQ!Execute, RunFunctor
<1>4. TQ!Submitted' = TQ!Submitted
  <2>1. TQ!Elements(Waiting) = {Head(Waiting)} \cup TQ!Elements(Tail(Waiting))
    <3>1. /\ Head(Waiting) = Waiting[1]
          /\ Tail(Waiting) \in Seq(Functor)
          /\ Len(Tail(Waiting)) = Len(Waiting) - 1
          /\ \A i \in 1..Len(Tail(Waiting)) : Tail(Waiting)[i] = Waiting[i + 1]
      BY <1>1, <1>2, HeadTailProperties
    <3>2. Len(Waiting) \in Nat \ {0}
      BY <1>1, <1>2, EmptySeq
    <3>3. DOMAIN Waiting = 1..Len(Waiting)
          /\ DOMAIN Tail(Waiting) = 1..Len(Waiting) - 1
      BY <1>2, <3>1, LenProperties
    <3>4. \A i \in DOMAIN Waiting : i = 1 \/ (i - 1 \in DOMAIN Tail(Waiting)
                                        /\ Tail(Waiting)[i - 1] = Waiting[i])
      BY <3>1, <3>2, <3>3
    <3>5. \A i \in DOMAIN Tail(Waiting) : i + 1 \in DOMAIN Waiting
                                        /\ Tail(Waiting)[i] = Waiting[i + 1]
      BY <3>1, <3>2, <3>3
    <3>6. 1 \in DOMAIN Waiting
      BY <3>2, <3>3
    <3>7. TQ!Elements(Waiting) \subseteq
             {Head(Waiting)} \cup TQ!Elements(Tail(Waiting))
      <4>1. ASSUME NEW i \in DOMAIN Waiting
            PROVE  Waiting[i] \in {Head(Waiting)} \cup TQ!Elements(Tail(Waiting))
        <5>1. CASE i = 1
          BY <3>1, <5>1
        <5>2. CASE /\ i - 1 \in DOMAIN Tail(Waiting)
                   /\ Tail(Waiting)[i - 1] = Waiting[i]
          BY <5>2 DEF TQ!Elements
        <5> QED
          BY <3>4, <5>1, <5>2
      <4> QED
        BY <4>1 DEF TQ!Elements
    <3>8. TQ!Elements(Tail(Waiting)) \subseteq TQ!Elements(Waiting)
      BY <3>5 DEF TQ!Elements
    <3>9. Head(Waiting) \in TQ!Elements(Waiting)
      BY <3>1, <3>6 DEF TQ!Elements
    <3> QED
      BY <3>7, <3>8, <3>9
  <2>2. Head(Waiting) \in Functor
    BY <1>1, <1>2, HeadTailProperties
  <2>3. TQ!Elements(executed') = TQ!Elements(executed) \cup {Head(Waiting)}
    BY <1>1, <2>2, ElementsOfAppend DEF RunFunctor
  <2> QED
    BY <1>1, <2>1, <2>3 DEF TQ!Submitted
<1>5. Numbered'
  BY <1>4 DEF Numbered, RunFunctor
<1> QED
  BY <1>3, <1>5

LEMMA OtherStepsKeepTheQueue ==
    ASSUME TypeOK, Numbered, UNCHANGED <<Waiting, executed, calls>>
    PROVE  UNCHANGED TQ!Submitted /\ Numbered'
BY DEF Numbered, TQ!Submitted

\* Each step is one of TaskQueue, or none, and keeps the numbering.
LEMMA StepsOfTaskQueue ==
    ASSUME TypeOK, Numbered, [Next]_vars
    PROVE  [TQ!Next]_TQ!vars /\ Numbered'
<1> USE DEF taskVars, loopVars, callVars
<1>1. ASSUME NEW t \in Thread, QueueInLoop(t)
      PROVE  [TQ!Next]_TQ!vars /\ Numbered'
  <2>1. NewFunctor(t) \in Functor
    BY <1>1, CallsAssumption
       DEF TypeOK, QueueInLoop, MayCall, NewFunctor, Functor, When
  <2> QED
    BY <1>1, <2>1, QueueInLoopSubmits DEF TQ!Next
<1>2. ASSUME NEW t \in Thread, RunInLoop(t)
      PROVE  [TQ!Next]_TQ!vars /\ Numbered'
  <2>1. NewFunctor(t) \in Functor
    BY <1>2, CallsAssumption
       DEF TypeOK, RunInLoop, MayCall, NewFunctor, Functor, When
  <2> QED
    BY <1>2, <2>1, RunInLoopRunsNow DEF TQ!Next
<1>3. CASE RunFunctor
  BY <1>3, RunFunctorExecutes DEF TQ!Next
\* At the swap the batch is empty, so Waiting does not change.
<1>4. CASE DoPendingFunctors
  <2>1. functors = <<>>
    BY <1>4 DEF TypeOK, DoPendingFunctors
  <2>2. Waiting' = Waiting
    BY <1>4, <2>1, ConcatEmptySeq DEF TypeOK, DoPendingFunctors, Waiting
  <2> QED
    BY <1>4, <2>2, OtherStepsKeepTheQueue DEF DoPendingFunctors, TQ!vars
<1>5. CASE Test
  <2>1. UNCHANGED <<Waiting, executed, calls>>
    BY <1>5 DEF Test, Waiting
  <2>2. TQ!Stop \/ UNCHANGED TQ!vars
    BY <1>5, <2>1 DEF Test, TQ!Stop, TQ!vars
  <2> QED
    BY <2>1, <2>2, OtherStepsKeepTheQueue DEF TQ!Next
<1>6. ASSUME NEW t \in Thread, Quit(t)
      PROVE  [TQ!Next]_TQ!vars /\ Numbered'
  <2>1. UNCHANGED TQ!vars /\ UNCHANGED TQ!Submitted /\ EnterCall(t)
    BY <1>6 DEF Quit, Waiting, TQ!vars, TQ!Submitted
  <2>2. \A f \in TQ!Submitted : f \in Functor
    BY ConcatProperties, LenProperties
       DEF TypeOK, Waiting, TQ!Submitted, TQ!Elements
  <2>3. Numbered'
    BY <2>1, <2>2, CallsMonotonic DEF Numbered
  <2> QED
    BY <2>1, <2>3
<1>7. ASSUME NEW t \in Thread, QueueInLoopWake(t) \/ QuitWake(t)
      PROVE  [TQ!Next]_TQ!vars /\ Numbered'
  <2>1. UNCHANGED <<Waiting, executed, calls, pc>>
    BY <1>7 DEF QueueInLoopWake, QuitWake, Waiting
  <2> QED
    BY <2>1, OtherStepsKeepTheQueue DEF TQ!vars
<1>8. CASE LoopStart \/ HandleRead \/ HandleEvent \/ HandlerReturn
           \/ FunctorReturn \/ FunctorsDone \/ PollReturn \/ PollTimeout
  <2>1. UNCHANGED <<Waiting, executed, calls>>
    BY <1>8 DEF LoopStart, HandleRead, HandleEvent, HandlerReturn,
                FunctorReturn, FunctorsDone, PollReturn, PollTimeout, Waiting
  <2>2. (pc = "exited") = (pc = "exited")'
    BY <1>8 DEF LoopStart, HandleRead, HandleEvent, HandlerReturn,
                FunctorReturn, FunctorsDone, PollReturn, PollTimeout
  <2> QED
    BY <2>1, <2>2, OtherStepsKeepTheQueue DEF TQ!vars
<1>9. CASE UNCHANGED vars
  <2>1. UNCHANGED <<Waiting, executed, calls, pc>>
    BY <1>9 DEF vars, Waiting
  <2> QED
    BY <2>1, OtherStepsKeepTheQueue DEF TQ!vars
<1> QED
  BY <1>1, <1>2, <1>3, <1>4, <1>5, <1>6, <1>7, <1>8, <1>9 DEF Next, OwnerStep

(* Every step on the two vectors, the flags and the eventfd is a step of      *)
(* TaskQueue, so queued functors run at most once and in order.               *)
THEOREM LoopImplementsTaskQueue == Spec => ImplementsTaskQueue
<1>1. Init => TQ!Init /\ Numbered
  <2> SUFFICES ASSUME Init PROVE TQ!Init /\ Numbered
    OBVIOUS
  <2>1. Waiting = <<>> /\ executed = <<>>
    BY ConcatEmptySeq, EmptySeq DEF Init, Waiting
  <2>2. TQ!Submitted = {}
    BY <2>1 DEF TQ!Submitted, TQ!Elements
  <2> QED
    BY <2>1, <2>2 DEF Init, TQ!Init, Numbered
<1>2. TypeOK /\ Numbered /\ [Next]_vars => [TQ!Next]_TQ!vars /\ Numbered'
  BY StepsOfTaskQueue
<1> QED
  BY <1>1, <1>2, TypeCorrect, PTL DEF Spec, ImplementsTaskQueue, TQ!Spec

-----------------------------------------------------------------------------
(* ProgramOrder: Numbered is what makes it inductive, because a new functor   *)
(* must have the largest number of its thread, wherever it comes.             *)

\* The first k of s have run.
Ordered(s, k) ==
    \A i, j \in DOMAIN s :
        (i < j /\ s[i].by = s[j].by)
            => \/ s[i].n < s[j].n
               \/ s[i].by = Owner /\ i <= k /\ s[i].n # s[j].n

Latest(f, s) == \A i \in DOMAIN s : s[i].by = f.by => s[i].n < f.n

LEMMA AppendKeepsOrder ==
    ASSUME NEW s \in Seq(Functor), NEW f \in Functor, NEW k \in Nat,
           Ordered(s, k), Latest(f, s)
    PROVE  Ordered(Append(s, f), k)
<1> DEFINE r == Append(s, f)
<1>1. /\ Len(s) \in Nat /\ DOMAIN s = 1..Len(s) /\ DOMAIN r = 1..Len(s) + 1
      /\ \A i \in 1..Len(s) : r[i] = s[i]
      /\ r[Len(s) + 1] = f
  BY AppendProperties, LenProperties
<1> HIDE DEF r
<1> SUFFICES ASSUME NEW i \in DOMAIN r, NEW j \in DOMAIN r,
                    i < j, r[i].by = r[j].by
             PROVE  \/ r[i].n < r[j].n
                    \/ r[i].by = Owner /\ i <= k /\ r[i].n # r[j].n
  BY DEF Ordered, r
<1>2. i \in DOMAIN s /\ r[i] = s[i]
  BY <1>1
<1>3. CASE j = Len(s) + 1
  BY <1>1, <1>2, <1>3 DEF Latest
<1>4. CASE j # Len(s) + 1
  <2>1. j \in DOMAIN s /\ r[j] = s[j]
    BY <1>1, <1>4
  <2> QED
    BY <1>2, <2>1 DEF Ordered
<1> QED
  BY <1>3, <1>4

\* A functor of the owner that has run, in front of those that wait.
LEMMA OwnersFunctorKeepsOrder ==
    ASSUME NEW s \in Seq(Functor), NEW t \in Seq(Functor), NEW f \in Functor,
           f.by = Owner, Ordered(s \o t, Len(s)), Latest(f, s \o t)
    PROVE  Ordered(Append(s, f) \o t, Len(s) + 1)
<1> DEFINE a == s \o t
           b == Append(s, f)
           r == b \o t
<1>1. /\ Len(s) \in Nat /\ Len(t) \in Nat
      /\ DOMAIN a = 1..Len(s) + Len(t)
      /\ \A i \in 1..Len(s) + Len(t) :
            a[i] = IF i <= Len(s) THEN s[i] ELSE t[i - Len(s)]
      /\ \A i \in DOMAIN a : a[i].n \in Nat
  <2>1. /\ a \in Seq(Functor) /\ Len(a) = Len(s) + Len(t)
        /\ \A i \in 1..Len(s) + Len(t) :
              a[i] = IF i <= Len(s) THEN s[i] ELSE t[i - Len(s)]
    BY ConcatProperties
  <2> HIDE DEF a
  <2>2. DOMAIN a = 1..Len(a) /\ \A i \in DOMAIN a : a[i] \in Functor
    BY <2>1, LenProperties
  <2>3. \A g \in Functor : g.n \in Nat
    BY CallsAssumption DEF Functor
  <2> QED
    BY <2>1, <2>2, <2>3, LenProperties
<1>2. /\ b \in Seq(Functor) /\ Len(b) = Len(s) + 1
      /\ \A i \in 1..Len(s) : b[i] = s[i]
      /\ b[Len(s) + 1] = f
  BY AppendProperties
<1> HIDE DEF a, b
<1>3. /\ DOMAIN r = 1..Len(b) + Len(t)
      /\ \A i \in 1..Len(b) + Len(t) :
            r[i] = IF i <= Len(b) THEN b[i] ELSE t[i - Len(b)]
  <2>1. /\ r \in Seq(Functor) /\ Len(r) = Len(b) + Len(t)
        /\ \A i \in 1..Len(b) + Len(t) :
              r[i] = IF i <= Len(b) THEN b[i] ELSE t[i - Len(b)]
    BY <1>2, ConcatProperties
  <2> HIDE DEF r
  <2>2. DOMAIN r = 1..Len(r)
    BY <2>1, LenProperties
  <2> QED
    BY <2>1, <2>2
<1> HIDE DEF r
\* Where an element other than the new one was before.
<1> DEFINE old(i) == IF i <= Len(s) THEN i ELSE i - 1
<1>4. ASSUME NEW i \in DOMAIN r, i # Len(s) + 1
      PROVE  old(i) \in DOMAIN a /\ r[i] = a[old(i)]
  <2>1. CASE i <= Len(s)
    BY <1>1, <1>2, <1>3, <2>1
  <2>2. CASE i > Len(s) + 1
    BY <1>1, <1>2, <1>3, <2>2
  <2> QED
    BY <1>1, <1>2, <1>3, <1>4, <2>1, <2>2
<1>5. r[Len(s) + 1] = f /\ f.n \in Nat
  BY <1>1, <1>2, <1>3, CallsAssumption DEF Functor
<1> SUFFICES ASSUME NEW i \in DOMAIN r, NEW j \in DOMAIN r,
                    i < j, r[i].by = r[j].by
             PROVE  \/ r[i].n < r[j].n
                    \/ r[i].by = Owner /\ i <= Len(s) + 1 /\ r[i].n # r[j].n
  BY DEF Ordered, r, b
<1>6. i \in Nat /\ j \in Nat
  BY <1>1, <1>2, <1>3
<1>7. CASE j = Len(s) + 1
  <2>1. i # Len(s) + 1
    BY <1>6, <1>7
  <2> QED
    BY <1>4, <1>5, <1>7, <2>1 DEF Latest, a
<1>8. CASE i = Len(s) + 1
  <2>1. j # Len(s) + 1
    BY <1>6, <1>8
  <2>2. a[old(j)].n < f.n /\ a[old(j)].n \in Nat /\ r[j] = a[old(j)]
    BY <1>1, <1>4, <1>5, <1>8, <2>1 DEF Latest, a
  <2> HIDE DEF old
  <2>3. r[i].n # r[j].n
    BY <1>5, <1>8, <2>2
  <2> QED
    BY <1>1, <1>5, <1>8, <2>3
<1>9. CASE i # Len(s) + 1 /\ j # Len(s) + 1
  <2>1. /\ old(i) < old(j)
        /\ old(i) <= Len(s) => i <= Len(s) + 1
    BY <1>1, <1>2, <1>3, <1>9
  <2>2. /\ old(i) \in DOMAIN a /\ r[i] = a[old(i)]
        /\ old(j) \in DOMAIN a /\ r[j] = a[old(j)]
    BY <1>4, <1>9
  <2> HIDE DEF old
  <2> QED
    BY <2>1, <2>2 DEF Ordered, a
<1> QED
  BY <1>7, <1>8, <1>9

\* Moving the oldest of t to the end of s leaves the whole as it is.
LEMMA ExecuteMovesHead ==
    ASSUME NEW s \in Seq(Functor), NEW t \in Seq(Functor), t # <<>>
    PROVE  Append(s, Head(t)) \o Tail(t) = s \o t
<1>1. Head(t) \in Functor /\ Tail(t) \in Seq(Functor)
  BY HeadTailProperties
<1>2. Len(t) \in Nat \ {0}
  BY EmptySeq
<1>3. t = <<Head(t)>> \o Tail(t)
  <2>1. SubSeq(t, 1, Len(t)) = <<t[1]>> \o SubSeq(t, 2, Len(t))
    BY <1>2, SubSeqRecursiveFirst
  <2>2. SubSeq(t, 1, Len(t)) = t
    BY SubSeqFull
  <2>3. Tail(t) = SubSeq(t, 2, Len(t))
    BY TailIsSubSeq
  <2> QED
    BY <2>1, <2>2, <2>3
<1>4. <<Head(t)>> \in Seq(Functor)
  BY <1>1
<1>5. (s \o <<Head(t)>>) \o Tail(t) = s \o (<<Head(t)>> \o Tail(t))
  BY <1>1, <1>4, ConcatAssociative
<1>6. Append(s, Head(t)) = s \o <<Head(t)>>
  BY <1>1, AppendIsConcat
<1> QED
  BY <1>3, <1>5, <1>6

LEMMA NextProgramOrder ==
    ASSUME TypeOK, Numbered, ProgramOrder, [Next]_vars
    PROVE  ProgramOrder'
<1> DEFINE all == executed \o Waiting
<1>1. /\ executed \in Seq(Functor) /\ Waiting \in Seq(Functor)
      /\ all \in Seq(Functor) /\ Len(executed) \in Nat
  BY ConcatProperties, LenProperties DEF TypeOK, Waiting
<1>2. ProgramOrder <=> Ordered(all, Len(executed))
  BY DEF ProgramOrder, Ordered, isInLoopThread
<1>3. ProgramOrder' <=> Ordered(all', Len(executed'))
  BY DEF ProgramOrder, Ordered, isInLoopThread
<1>4. \A i \in DOMAIN all : /\ all[i].n <= calls[all[i].by]
                           /\ all[i].n \in Nat /\ calls[all[i].by] \in Nat
  <2>1. TQ!Elements(all) = TQ!Elements(executed) \cup TQ!Elements(Waiting)
    BY <1>1, ElementsOfConcat
  <2>2. \A i \in DOMAIN all : all[i] \in Functor /\ all[i] \in TQ!Elements(all)
    BY <1>1, LenProperties DEF TQ!Elements
  <2>3. \A f \in Functor : f.n \in Nat /\ calls[f.by] \in Nat
    BY CallsAssumption DEF TypeOK, Functor
  <2> QED
    BY <2>1, <2>2, <2>3 DEF Numbered, TQ!Submitted
<1> HIDE DEF all
<1>5. ASSUME UNCHANGED <<executed, Waiting>> PROVE ProgramOrder'
  BY <1>2, <1>3, <1>5 DEF all
<1>6. ASSUME NEW t \in Thread, QueueInLoop(t) PROVE ProgramOrder'
  <2> DEFINE f == NewFunctor(t)
  <2>1. f \in Functor /\ f.n = calls[t] + 1 /\ f.by = t
    BY <1>6, CallsAssumption
       DEF TypeOK, QueueInLoop, MayCall, NewFunctor, Functor, When
  <2>2. executed' = executed /\ Waiting' = Append(Waiting, f)
    <3>1. Append(pendingFunctors, f) = pendingFunctors \o <<f>>
      BY <2>1, AppendIsConcat DEF TypeOK
    <3>2. (functors \o pendingFunctors) \o <<f>>
              = functors \o (pendingFunctors \o <<f>>)
      BY <2>1, ConcatAssociative DEF TypeOK
    <3>3. Append(Waiting, f) = Waiting \o <<f>>
      BY <1>1, <2>1, AppendIsConcat
    <3> QED
      BY <1>6, <3>1, <3>2, <3>3 DEF QueueInLoop, Waiting
  <2> HIDE DEF f
  <2>3. all' = Append(all, f)
    <3>1. <<f>> \in Seq(Functor)
      BY <2>1
    <3>2. Append(Waiting, f) = Waiting \o <<f>> /\ Append(all, f) = all \o <<f>>
      BY <1>1, <2>1, AppendIsConcat
    <3>3. (executed \o Waiting) \o <<f>> = executed \o (Waiting \o <<f>>)
      BY <1>1, <3>1, ConcatAssociative
    <3> QED
      BY <2>2, <3>2, <3>3 DEF all
  <2>4. Latest(f, all)
    BY <1>4, <2>1 DEF Latest
  <2>5. Ordered(Append(all, f), Len(executed))
    BY <1>1, <1>2, <2>1, <2>4, AppendKeepsOrder
  <2> QED
    BY <1>3, <2>2, <2>3, <2>5
<1>7. ASSUME NEW t \in Thread, RunInLoop(t) PROVE ProgramOrder'
  <2> DEFINE f == NewFunctor(t)
  <2>1. f \in Functor /\ f.n = calls[t] + 1 /\ f.by = t /\ t = Owner
    BY <1>7, CallsAssumption
       DEF TypeOK, RunInLoop, MayCall, NewFunctor, Functor, When, isInLoopThread
  <2>2. executed' = Append(executed, f) /\ Waiting' = Waiting
    BY <1>7 DEF RunInLoop, Waiting
  <2> HIDE DEF f
  <2>3. Latest(f, all)
    BY <1>4, <2>1 DEF Latest
  <2>4. Ordered(Append(executed, f) \o Waiting, Len(executed) + 1)
    BY <1>1, <1>2, <2>1, <2>3, OwnersFunctorKeepsOrder DEF all
  <2>5. Len(executed') = Len(executed) + 1
    BY <1>1, <2>1, <2>2, AppendProperties
  <2> QED
    BY <1>3, <2>2, <2>4, <2>5 DEF all
<1>8. CASE RunFunctor
  <2>1. /\ Waiting # <<>>
        /\ executed' = Append(executed, Head(Waiting))
        /\ Waiting' = Tail(Waiting)
    BY <1>8, WaitingHeadTail DEF RunFunctor, Waiting
  <2>2. all' = all
    BY <1>1, <2>1, ExecuteMovesHead DEF all
  <2>3. Len(executed') = Len(executed) + 1
    <3>1. Head(Waiting) \in Functor
      BY <1>1, <2>1, HeadTailProperties
    <3> QED
      BY <1>1, <2>1, <3>1, AppendProperties
  <2>4. DOMAIN all = 1..Len(all) /\ Len(all) \in Nat
    BY <1>1, LenProperties
  <2> QED
    BY <1>1, <1>2, <1>3, <2>2, <2>3, <2>4 DEF Ordered
<1>9. CASE DoPendingFunctors
  <2>1. functors = <<>>
    BY <1>9 DEF TypeOK, DoPendingFunctors
  <2>2. executed' = executed /\ Waiting' = Waiting
    BY <1>9, <2>1, ConcatEmptySeq DEF TypeOK, DoPendingFunctors, Waiting
  <2> QED
    BY <1>5, <2>2
<1>10. ASSUME NEW t \in Thread, Quit(t) \/ QueueInLoopWake(t) \/ QuitWake(t)
       PROVE  ProgramOrder'
  BY <1>5, <1>10 DEF Quit, QueueInLoopWake, QuitWake, taskVars, Waiting
<1>11. CASE LoopStart \/ Test \/ HandleRead \/ HandleEvent \/ HandlerReturn
            \/ FunctorReturn \/ FunctorsDone \/ PollReturn \/ PollTimeout
            \/ UNCHANGED vars
  BY <1>5, <1>11
     DEF LoopStart, Test, HandleRead, HandleEvent, HandlerReturn, FunctorReturn,
         FunctorsDone, PollReturn, PollTimeout, vars, taskVars, Waiting
<1> QED
  BY <1>6, <1>7, <1>8, <1>9, <1>10, <1>11 DEF Next, OwnerStep

(* The functors of one thread run once and in the order of its calls,         *)
(* wherever the swap of doPendingFunctors falls between them; on the owner's  *)
(* thread, runInLoop may overtake what the owner has queued.                  *)
THEOREM CallsRunInOrder == Spec => []ProgramOrder
<1>1. Init => Numbered /\ ProgramOrder
  <2> SUFFICES ASSUME Init PROVE Numbered /\ ProgramOrder
    OBVIOUS
  <2>1. Waiting = <<>> /\ executed = <<>> /\ executed \o Waiting = <<>>
    BY ConcatEmptySeq, EmptySeq DEF Init, Waiting
  <2> QED
    BY <2>1 DEF Numbered, ProgramOrder, TQ!Submitted, TQ!Elements
<1>2. TypeOK /\ Numbered /\ ProgramOrder /\ [Next]_vars
        => Numbered' /\ ProgramOrder'
  BY StepsOfTaskQueue, NextProgramOrder
<1> QED
  BY <1>1, <1>2, TypeCorrect, PTL DEF Spec
=============================================================================
