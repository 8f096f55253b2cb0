---------------------- MODULE EventLoopThreadPoolProofs ----------------------
(***************************************************************************)
(* Proofs about EventLoopThreadPool.tla for any number of threads and of   *)
(* connections, and any set of loops that user code may quit.              *)
(***************************************************************************)
EXTENDS EventLoopThreadPool, FiniteSetTheorems, SequenceTheorems, TLAPS

-----------------------------------------------------------------------------
(* The inductive invariant. *)

Starting == {"created", "start", "check", "asleep"}

\* loops_ holds the loops in the order of their threads.
LoopsInOrder ==
    /\ Len(loops) = IF pc \in Starting THEN cur - 1 ELSE numThreads
    /\ \A i \in 1..Len(loops) : loops[i] = i

\* The main thread starts and destroys one thread after the other.
ThreadsInOrder ==
    \A t \in Threads :
        /\ io[t] = "none" <=> \/ pc \in {"created", "start"} /\ t >= cur
                              \/ pc \in {"check", "asleep"} /\ t > cur
        /\ t \in gone <=> \/ pc = "destroyed"
                          \/ pc \in Destructor /\ t < cur

\* A loop that user code leaves alone runs from the moment startLoop returns it
\* until ~EventLoopThread quits it, and is joined before that ends.
LoopsRun ==
    \A t \in Threads \ SelfQuit :
        /\ quit[t] => t \in gone \/ (pc \in {"wake", "join"} /\ cur = t)
        /\ io[t] \in {"returned", "unlock", "done"} => quit[t]
        /\ t <= Len(loops) => io[t] \notin {"none", "init"}
        /\ t \in gone => io[t] = "done"

\* The loops up to next_ have been handed out once more than the others.
Dealt ==
    \A s, t \in Threads :
        handed[s] + (IF t <= next THEN 1 ELSE 0)
            = handed[t] + (IF s <= next THEN 1 ELSE 0)

IInv ==
    /\ TypeOK
    /\ LoopsInOrder /\ ThreadsInOrder /\ LoopsRun
    /\ Dealt /\ OnlyWakeupComesLate

-----------------------------------------------------------------------------
LEMMA HandedIsFinite == IsFiniteSet(Handed) /\ Cardinality(Handed) \in Nat
<1>1. IsFiniteSet(Threads) /\ IsFiniteSet(1..MaxConns)
  BY ThreadsAssumption, ConnsAssumption, FS_Interval DEF Threads
<1>2. IsFiniteSet(Threads \X (1..MaxConns))
  BY <1>1, FS_Product
<1> QED
  BY <1>2, FS_Subset, FS_CardinalityType DEF Handed

\* Nobody is handed more connections than there are.
LEMMA HandedIsBounded ==
    ASSUME TypeOK, NEW t \in Threads
    PROVE  handed[t] <= Cardinality(Handed)
<1> DEFINE mine == {t} \X (1..handed[t])
<1>1. handed[t] \in 0..MaxConns /\ MaxConns \in Nat
  BY ConnsAssumption DEF TypeOK
<1>2. IsFiniteSet(Handed)
  BY HandedIsFinite
<1>3. mine \subseteq Handed
  BY <1>1 DEF Handed
<1>4. Cardinality(mine) = handed[t]
  <2>1. IsFiniteSet({t}) /\ Cardinality({t}) = 1
    BY FS_Singleton
  <2>2. IsFiniteSet(1..handed[t]) /\ Cardinality(1..handed[t]) = handed[t]
    <3>1. handed[t] \in Nat
      BY <1>1
    <3>2. IsFiniteSet(1..handed[t])
      BY <3>1, FS_Interval
    <3>3. Cardinality(1..handed[t]) = IF 1 > handed[t] THEN 0 ELSE handed[t] - 1 + 1
      BY <3>1, FS_Interval
    <3> QED
      BY <3>1, <3>2, <3>3
  <2>3. Cardinality(mine) = Cardinality({t}) * Cardinality(1..handed[t])
    BY <2>1, <2>2, FS_Product
  <2> QED
    BY <1>1, <2>1, <2>2, <2>3
<1>5. Cardinality(mine) <= Cardinality(Handed)
  BY <1>2, <1>3, FS_Subset
<1> QED
  BY <1>4, <1>5

\* A thread of the pool that the destructor has yet to quit still runs.
LEMMA OwnLoopIsAlive ==
    ASSUME IInv, NEW t \in Threads \ SelfQuit,
           t <= Len(loops), t \notin gone, ~(pc \in {"wake", "join"} /\ cur = t)
    PROVE  io[t] \in {"start", "looping"} /\ loop[t]
BY DEF IInv, TypeOK, LoopsRun

LEMMA InitIInv == Init => IInv
<1> SUFFICES ASSUME Init PROVE IInv
  OBVIOUS
<1> USE ThreadsAssumption, ConnsAssumption DEF Init, Threads
<1>1. TypeOK
  BY DEF TypeOK, Destructor
<1>2. LoopsInOrder
  BY DEF LoopsInOrder, Starting
<1>3. ThreadsInOrder
  BY DEF ThreadsInOrder
<1>4. LoopsRun
  BY DEF LoopsRun
<1>5. Dealt
  BY DEF Dealt
<1>6. OnlyWakeupComesLate
  BY DEF OnlyWakeupComesLate
<1> QED
  BY <1>1, <1>2, <1>3, <1>4, <1>5, <1>6 DEF IInv

\* startLoop has returned the loop of cur.
LEMMA StartedGrowsLoops ==
    ASSUME TypeOK, Started
    PROVE  /\ loops' \in Seq(Threads)
           /\ Len(loops') = Len(loops) + 1
           /\ \A i \in 1..Len(loops) : loops'[i] = loops[i]
           /\ loops'[Len(loops) + 1] = cur
           /\ Len(loops) \in Nat
BY AppendProperties, LenProperties DEF TypeOK, Started

LEMMA LateUseType ==
    ASSUME TypeOK, NEW t \in Threads, NEW use \in Use,
           LateUse(t, use) \/ UNCHANGED fault
    PROVE  fault' \subseteq [thread : Threads, use : Use]
BY DEF TypeOK, LateUse

LEMMA NextTypeOK == IInv /\ [Next]_vars => TypeOK'
<1> SUFFICES ASSUME IInv, [Next]_vars PROVE TypeOK'
  OBVIOUS
<1> USE DEF IInv, TypeOK, Destructor, ioVars, poolVars
\* The thread that follows cur, and the first one.
<1>0. 1 \in Threads /\ (cur # numThreads => cur + 1 \in Threads)
  BY ThreadsAssumption DEF Threads
<1>1. ASSUME NEW t \in Threads, IoThread(t) PROVE TypeOK'
  <2>1. CASE Publish(t)
    BY <2>1 DEF Publish, IoStep
  <2>2. CASE LoopStart(t)
    BY <2>2 DEF LoopStart, IoStep
  <2>3. CASE LoopReturns(t)
    BY <2>3 DEF LoopReturns, IoStep
  <2>4. UseMembers(t) => fault' \subseteq [thread : Threads, use : Use]
    BY LateUseType DEF UseMembers, Use
  <2>5. CASE ClearLoop(t)
    BY <2>4, <2>5 DEF ClearLoop, IoStep
  <2>6. CASE Leave(t)
    BY <2>4, <2>6 DEF Leave, IoStep
  <2> QED
    BY <1>1, <2>1, <2>2, <2>3, <2>5, <2>6 DEF IoThread
<1>2. ASSUME NEW t \in Threads, UserQuit(t) PROVE TypeOK'
  BY <1>2 DEF UserQuit
<1>3. CASE ThreadStart
  <2>1. io[cur] = "none"
    BY <1>3, ThreadsAssumption DEF ThreadStart, ThreadsInOrder, Threads
  <2> QED
    BY <1>3, <2>1 DEF ThreadStart
<1>4. CASE Check
  <2>1. CASE Started
    BY <1>0, <1>4, <2>1, StartedGrowsLoops DEF Check, Started
  <2>2. CASE ~loop[cur]
    BY <1>4, <2>2 DEF Check
  <2> QED
    BY <1>4, <2>1, <2>2 DEF Check
<1>5. CASE DestructorTest \/ DestructorJoin
  BY <1>0, <1>5 DEF DestructorTest, DestructorJoin, Destroyed
<1>6. CASE DestructorQuit \/ DestructorWake
  <2>1. fault' \subseteq [thread : Threads, use : Use]
    BY <1>6, LateUseType DEF DestructorQuit, DestructorWake, Use
  <2> QED
    BY <1>6, <2>1 DEF DestructorQuit, DestructorWake
<1>7. CASE Start \/ SpuriousWakeup \/ Destroy
  BY <1>0, <1>7 DEF Start, SpuriousWakeup, Destroy
<1>8. CASE GetNextLoop
  <2>1. next' \in 0..numThreads - 1
    BY <1>8, ThreadsAssumption
       DEF GetNextLoop, NextIndex, LoopsInOrder, Starting
  <2>2. ASSUME NEW t \in Threads PROVE handed[t] + 1 \in 0..MaxConns
    <3>1. handed[t] <= Cardinality(Handed) /\ Cardinality(Handed) < MaxConns
      BY <1>8, HandedIsBounded DEF GetNextLoop
    <3> QED
      BY <3>1, HandedIsFinite, ConnsAssumption
  <2>3. handed' \in [Threads -> 0..MaxConns]
    BY <1>8, <2>2 DEF GetNextLoop
  <2> QED
    BY <1>8, <2>1, <2>3 DEF GetNextLoop
<1>9. CASE UNCHANGED vars
  BY <1>9 DEF vars
<1> QED
  BY <1>1, <1>2, <1>3, <1>4, <1>5, <1>6, <1>7, <1>8, <1>9 DEF Next, MainStep

LEMMA NextInOrder == IInv /\ [Next]_vars => LoopsInOrder' /\ ThreadsInOrder'
<1> SUFFICES ASSUME IInv, [Next]_vars PROVE LoopsInOrder' /\ ThreadsInOrder'
  OBVIOUS
<1> USE ThreadsAssumption
    DEF IInv, TypeOK, Threads, LoopsInOrder, ThreadsInOrder, Starting,
        Destructor, ioVars, poolVars
<1>1. ASSUME NEW t \in Threads, IoThread(t)
      PROVE  LoopsInOrder' /\ ThreadsInOrder'
  <2>1. io[t] # "none" /\ \E x : x # "none" /\ io' = [io EXCEPT ![t] = x]
    BY <1>1 DEF IoThread, Publish, LoopStart, LoopReturns, ClearLoop, Leave, IoStep
  <2>2. \A u \in Threads : io'[u] = "none" <=> io[u] = "none"
    BY <2>1
  <2>3. UNCHANGED <<cur, loops, gone>>
        /\ (pc' = pc \/ (pc = "asleep" /\ pc' = "check"))
    BY <1>1 DEF IoThread, Publish, LoopStart, LoopReturns, ClearLoop, Leave, IoStep
  <2> QED
    BY <2>2, <2>3
<1>2. ASSUME NEW t \in Threads, UserQuit(t)
      PROVE  LoopsInOrder' /\ ThreadsInOrder'
  BY <1>2 DEF UserQuit
<1>3. CASE ThreadStart
  BY <1>3 DEF ThreadStart
<1>4. CASE Check /\ ~loop[cur]
  BY <1>4 DEF Check
<1>5. CASE Check /\ loop[cur]
  <2>1. Started /\ pc = "check" /\ UNCHANGED <<io, gone>>
    BY <1>5 DEF Check
  <2>2. LoopsInOrder'
    BY <2>1, StartedGrowsLoops DEF Started
  <2>3. ThreadsInOrder'
    BY <2>1 DEF Started
  <2> QED
    BY <2>2, <2>3
<1>6. CASE DestructorTest \/ DestructorJoin
  <2>1. UNCHANGED <<io, loops>> /\ pc \in {"test", "join"}
    BY <1>6 DEF DestructorTest, DestructorJoin
  <2>2. CASE Destroyed
    BY <2>1, <2>2 DEF Destroyed
  <2>3. CASE pc' = "quit" /\ UNCHANGED <<cur, gone>>
    BY <2>1, <2>3
  <2> QED
    BY <1>6, <2>2, <2>3 DEF DestructorTest, DestructorJoin
<1>7. CASE DestructorQuit \/ DestructorWake
  BY <1>7 DEF DestructorQuit, DestructorWake
<1>8. CASE Start \/ SpuriousWakeup \/ GetNextLoop
  BY <1>8 DEF Start, SpuriousWakeup, GetNextLoop
<1>9. CASE Destroy
  BY <1>9 DEF Destroy
<1>10. CASE UNCHANGED vars
  BY <1>10 DEF vars
<1> QED
  BY <1>1, <1>2, <1>3, <1>4, <1>5, <1>6, <1>7, <1>8, <1>9, <1>10
     DEF Next, MainStep

LEMMA NextLoopsRun == IInv /\ [Next]_vars => LoopsRun'
<1> SUFFICES ASSUME IInv, [Next]_vars PROVE LoopsRun'
  OBVIOUS
<1> USE ThreadsAssumption
    DEF IInv, TypeOK, Threads, LoopsRun, ioVars, poolVars
<1>1. ASSUME NEW t \in Threads, IoThread(t) PROVE LoopsRun'
  <2>1. CASE Publish(t)
    BY <2>1 DEF Publish, IoStep
  <2>2. CASE LoopStart(t)
    BY <2>2 DEF LoopStart, IoStep
  <2>3. CASE LoopReturns(t)
    BY <2>3 DEF LoopReturns, IoStep
  <2>4. CASE ClearLoop(t)
    BY <2>4 DEF ClearLoop, IoStep
  <2>5. CASE Leave(t)
    BY <2>5 DEF Leave, IoStep
  <2> QED
    BY <1>1, <2>1, <2>2, <2>3, <2>4, <2>5 DEF IoThread
<1>2. ASSUME NEW t \in Threads, UserQuit(t) PROVE LoopsRun'
  BY <1>2 DEF UserQuit
<1>3. CASE ThreadStart
  <2>1. Len(loops) = cur - 1
    BY <1>3 DEF ThreadStart, LoopsInOrder, Starting
  <2>2. \A t \in Threads : t # cur => io'[t] = io[t]
    BY <1>3 DEF ThreadStart
  <2>3. io'[cur] = "init" /\ io[cur] = "none"
    BY <1>3 DEF ThreadStart, ThreadsInOrder
  <2> QED
    BY <1>3, <2>1, <2>2, <2>3 DEF ThreadStart
<1>4. CASE Check /\ ~loop[cur]
  BY <1>4 DEF Check
<1>5. CASE Check /\ loop[cur]
  <2>1. Started /\ pc = "check" /\ UNCHANGED <<io, quit, gone>>
    BY <1>5 DEF Check
  <2>2. Len(loops') = cur /\ Len(loops) = cur - 1
    BY <2>1, StartedGrowsLoops DEF LoopsInOrder, Starting
  <2>3. io[cur] \notin {"none", "init"}
    BY <1>5
  <2>4. \A t \in Threads : ~(pc \in {"wake", "join"} /\ cur = t)
    BY <2>1
  <2> QED
    BY <2>1, <2>2, <2>3, <2>4
<1>6. CASE DestructorTest
  <2>1. pc = "test" /\ cur \notin gone /\ cur <= Len(loops)
    BY <1>6 DEF DestructorTest, ThreadsInOrder, LoopsInOrder, Starting, Destructor
  <2>2. cur \notin SelfQuit => loop[cur]
    BY <2>1, OwnLoopIsAlive
  <2> QED
    BY <1>6, <2>1, <2>2 DEF DestructorTest, Destroyed
<1>7. CASE DestructorQuit
  BY <1>7 DEF DestructorQuit
<1>8. CASE DestructorJoin
  BY <1>8 DEF DestructorJoin, Destroyed
<1>9. CASE Start \/ SpuriousWakeup \/ Destroy \/ GetNextLoop \/ DestructorWake
  BY <1>9 DEF Start, SpuriousWakeup, Destroy, GetNextLoop, DestructorWake
<1>10. CASE UNCHANGED vars
  BY <1>10 DEF vars
<1> QED
  BY <1>1, <1>2, <1>3, <1>4, <1>5, <1>6, <1>7, <1>8, <1>9, <1>10
     DEF Next, MainStep

\* A destroyed thread of the pool has been joined, and is done; and its loop is
\* alive when ~EventLoopThread calls quit().
LEMMA NextInTime == IInv /\ [Next]_vars => OnlyWakeupComesLate'
<1> SUFFICES ASSUME IInv, [Next]_vars PROVE OnlyWakeupComesLate'
  OBVIOUS
<1> USE DEF OnlyWakeupComesLate
<1>1. CASE UNCHANGED fault
  BY <1>1 DEF IInv
<1>2. ASSUME NEW t \in Threads, ClearLoop(t) \/ Leave(t)
      PROVE  OnlyWakeupComesLate'
  <2>1. t \in gone => t \in SelfQuit
    BY <1>2 DEF IInv, LoopsRun, ClearLoop, Leave, IoStep
  <2>2. UseMembers(t)
    BY <1>2 DEF ClearLoop, Leave
  <2> QED
    BY <2>1, <2>2 DEF IInv, UseMembers, LateUse
<1>3. CASE DestructorQuit
  <2>1. /\ pc = "quit" /\ cur \in Threads /\ cur \notin gone
        /\ cur <= Len(loops)
    BY <1>3, ThreadsAssumption
       DEF DestructorQuit, IInv, TypeOK, ThreadsInOrder, LoopsInOrder, Starting,
           Destructor, Threads
  <2>2. cur \notin SelfQuit => loop[cur] /\ io[cur] # "done"
    BY <2>1, OwnLoopIsAlive
  <2>3. LateUse(cur, "quit") \/ UNCHANGED fault
    BY <1>3 DEF DestructorQuit
  <2>4. cur \notin SelfQuit => UNCHANGED fault
    BY <1>3, <2>2 DEF DestructorQuit
  <2> QED
    BY <2>3, <2>4 DEF IInv, LateUse
<1>4. CASE DestructorWake
  <2>1. LateUse(cur, "wakeup") \/ UNCHANGED fault
    BY <1>4 DEF DestructorWake
  <2> QED
    BY <2>1 DEF IInv, LateUse
<1> QED
  BY <1>1, <1>2, <1>3, <1>4
     DEF Next, MainStep, IoThread, Publish, LoopStart, LoopReturns, UserQuit,
         ThreadStart, Check, DestructorTest, DestructorJoin, Start,
         SpuriousWakeup, Destroy, GetNextLoop, vars

LEMMA NextDealt == IInv /\ [Next]_vars => Dealt'
<1> SUFFICES ASSUME IInv, [Next]_vars PROVE Dealt'
  OBVIOUS
<1>1. CASE GetNextLoop
  <2> USE ThreadsAssumption DEF IInv, TypeOK, Threads, Dealt
  <2>1. Len(loops) = numThreads /\ loops[next + 1] = next + 1
    BY <1>1 DEF GetNextLoop, LoopsInOrder, Starting
  <2>2. handed' = [handed EXCEPT ![next + 1] = @ + 1]
    BY <1>1, <2>1 DEF GetNextLoop
  <2>3. next' = IF next + 1 >= numThreads THEN 0 ELSE next + 1
    BY <1>1, <2>1 DEF GetNextLoop, NextIndex
  <2>4. \A t \in Threads :
           handed'[t] = handed[t] + (IF t = next + 1 THEN 1 ELSE 0)
    BY <2>2
  <2> QED
    BY <2>3, <2>4
<1>2. CASE UNCHANGED <<handed, next>>
  BY <1>2 DEF IInv, Dealt
<1>3. ~GetNextLoop => UNCHANGED <<handed, next>>
  BY DEF Next, vars, ioVars, poolVars, MainStep, IoThread, Publish, LoopStart,
         LoopReturns, ClearLoop, Leave, UserQuit, ThreadStart, Check,
         DestructorTest, DestructorQuit, DestructorWake, DestructorJoin, Start,
         SpuriousWakeup, Destroy
<1> QED
  BY <1>1, <1>2, <1>3

(* Threads and loops follow the main thread in start() and the destructor.    *)
THEOREM Inductive == Spec => []IInv
<1>1. IInv /\ [Next]_vars => IInv'
  BY NextTypeOK, NextInOrder, NextLoopsRun, NextInTime, NextDealt DEF IInv
<1> QED
  BY <1>1, InitIInv, PTL DEF Spec

-----------------------------------------------------------------------------
(* Every variable keeps its type; loop_ is set exactly between the two locked *)
(* sections of threadFunc.                                                    *)
THEOREM TypeCorrect == Spec => []TypeOK
<1>1. IInv => TypeOK
  BY DEF IInv
<1> QED
  BY <1>1, Inductive, PTL

(* startLoop returns only loops that are published and run, and they run      *)
(* until the pool is destroyed.                                               *)
THEOREM LoopsHandedOutAreAlive == Spec => []StartedLoopsAreAlive
<1>1. IInv => StartedLoopsAreAlive
  <2> SUFFICES ASSUME IInv, pc \notin Destructor,
                      NEW t \in Elements(loops) \ SelfQuit
               PROVE  io[t] \in {"start", "looping"}
    BY DEF StartedLoopsAreAlive
  <2>1. PICK i \in 1..Len(loops) : loops[i] = t
    BY LenProperties DEF IInv, TypeOK, Elements
  <2>2. t = i /\ t \in Threads
    BY <2>1, LenProperties DEF IInv, TypeOK, LoopsInOrder
  <2>3. t <= Len(loops) /\ t \notin gone
    BY <2>1, <2>2, LenProperties
       DEF IInv, TypeOK, LoopsInOrder, ThreadsInOrder, Destructor
  <2> QED
    BY <2>2, <2>3, OwnLoopIsAlive DEF Destructor
<1> QED
  BY <1>1, Inductive, PTL

(* The round robin of getNextLoop is fair for any number of loops.            *)
THEOREM SharesAreFair == Spec => []FairShare
<1>1. IInv => FairShare
  BY DEF IInv, TypeOK, Dealt, FairShare, Threads
<1> QED
  BY <1>1, Inductive, PTL

(* Nothing of an EventLoopThread or its EventLoop is used after its           *)
(* destruction, as long as only ~EventLoopThread quits the loop, but by the   *)
(* wakeup() of that quit(), for any number of threads.                        *)
THEOREM UsesComeInTime == Spec => []OnlyWakeupComesLate
<1>1. IInv => OnlyWakeupComesLate
  BY DEF IInv
<1> QED
  BY <1>1, Inductive, PTL

(* startLoop never sleeps on a notification that has come already: while it   *)
(* is in cond_.wait, the thread has yet to publish its loop, unless user code *)
(* has quit that loop.  (The wait gives mutex_ up and tests loop_ under it.)  *)
NotificationIsToCome ==
    pc = "asleep" /\ cur \notin SelfQuit => io[cur] = "init"

(* startLoop sleeps before the notification only, for any number of threads.  *)
THEOREM SleepIsAnswered == Spec => []NotificationIsToCome
<1>1. Init => NotificationIsToCome
  BY DEF Init, NotificationIsToCome
<1>2. IInv /\ NotificationIsToCome /\ [Next]_vars => NotificationIsToCome'
  <2> SUFFICES ASSUME IInv, NotificationIsToCome, [Next]_vars,
                      pc' = "asleep", cur' \notin SelfQuit
               PROVE  io'[cur'] = "init"
    BY DEF NotificationIsToCome
  <2> USE DEF IInv, TypeOK, ioVars, poolVars
  \* The mutex is free, so threadFunc is before or behind its locked section.
  <2>1. CASE Check
    <3>1. /\ pc = "check" /\ ~loop[cur] /\ UNCHANGED <<cur, io>>
      BY <2>1 DEF Check, Started
    <3>2. cur \in Threads \ SelfQuit /\ io[cur] # "none"
      BY <3>1, ThreadsAssumption DEF ThreadsInOrder, Threads
    <3>3. io[cur] \notin {"returned", "unlock", "done"}
      BY <3>1, <3>2 DEF LoopsRun, ThreadsInOrder
    <3> QED
      BY <3>1, <3>2, <3>3
  <2>2. ASSUME NEW t \in Threads, IoThread(t) PROVE io'[cur'] = "init"
    <3>1. (io[t] # "init" /\ pc' = pc) \/ Publish(t)
      BY <2>2 DEF IoThread, Publish, LoopStart, LoopReturns, ClearLoop, Leave, IoStep
    <3>2. UNCHANGED cur /\ \E x : io' = [io EXCEPT ![t] = x]
      BY <2>2 DEF IoThread, Publish, LoopStart, LoopReturns, ClearLoop, Leave, IoStep
    <3> QED
      BY <3>1, <3>2 DEF Publish, NotificationIsToCome
  <2>3. CASE (\E t \in Threads : UserQuit(t)) \/ GetNextLoop \/ UNCHANGED vars
    BY <2>3 DEF UserQuit, GetNextLoop, vars, NotificationIsToCome
  <2>4. ~(Start \/ ThreadStart \/ SpuriousWakeup \/ Destroy \/ DestructorTest
            \/ DestructorQuit \/ DestructorWake \/ DestructorJoin)
    BY DEF Start, ThreadStart, SpuriousWakeup, Destroy, DestructorTest,
           DestructorQuit, DestructorWake, DestructorJoin, Destroyed
  <2> QED
    BY <2>1, <2>2, <2>3, <2>4 DEF Next, MainStep
<1> QED
  BY <1>1, <1>2, Inductive, PTL DEF Spec
=============================================================================
