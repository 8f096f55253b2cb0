--------------------------- MODULE TcpServerProofs ---------------------------
(***************************************************************************)
(* Proofs about TcpServer.tla for any set of clients, any number of loops  *)
(* and of descriptors.                                                     *)
(***************************************************************************)
EXTENDS TcpServer, FiniteSetTheorems, SequenceTheorems, TLAPS

-----------------------------------------------------------------------------
(* The queues of the loops. *)

\* In one queue f may come before g: nothing is there twice, and a connection is
\* not set up after its end.
MayPrecede(f, g) ==
    /\ f # g
    /\ ~(f.fn = "connectDestoryed" /\ g = Bound("connectEstablished", f.conn))

\* A queue is what is left of a batch, and what waits behind it.
Ordered(b, t) ==
    /\ \A i, j \in DOMAIN b : i < j => MayPrecede(b[i], b[j])
    /\ \A i, j \in DOMAIN t : i < j => MayPrecede(t[i], t[j])
    /\ \A f \in Elements(b), g \in Elements(t) : MayPrecede(f, g)

Queued(b, t, l) == Elements(t[l]) \cup Elements(b[l])

QueuesOK(b, t) ==
    /\ b \in [Loops -> Seq(Functor)] /\ t \in [Loops -> Seq(Functor)]
    /\ \A l \in Loops : Ordered(b[l], t[l])

LEMMA AppendElements ==
    ASSUME NEW S, NEW s \in Seq(S), NEW e \in S
    PROVE  /\ Append(s, e) \in Seq(S)
           /\ Elements(Append(s, e)) = Elements(s) \cup {e}
BY AppendProperties, LenProperties DEF Elements

LEMMA TailElements ==
    ASSUME NEW S, NEW s \in Seq(S), s # <<>>
    PROVE  /\ Tail(s) \in Seq(S) /\ Head(s) \in S
           /\ Elements(s) = {Head(s)} \cup Elements(Tail(s))
<1>1. /\ Head(s) = s[1] /\ Tail(s) \in Seq(S) /\ Head(s) \in S
      /\ Len(Tail(s)) = Len(s) - 1
      /\ \A i \in 1..Len(Tail(s)) : Tail(s)[i] = s[i + 1]
  BY HeadTailProperties
<1>2. Len(s) \in Nat \ {0} /\ DOMAIN s = 1..Len(s)
      /\ DOMAIN Tail(s) = 1..Len(s) - 1
  BY <1>1, EmptySeq, LenProperties
<1>3. \A i \in DOMAIN Tail(s) : i + 1 \in DOMAIN s /\ Tail(s)[i] = s[i + 1]
  BY <1>1, <1>2
<1>4. \A j \in DOMAIN s : j = 1 \/ (j - 1 \in DOMAIN Tail(s)
                                      /\ Tail(s)[j - 1] = s[j])
  BY <1>1, <1>2
<1>5. 1 \in DOMAIN s
  BY <1>2
<1> QED
  BY <1>1, <1>3, <1>4, <1>5 DEF Elements

LEMMA EmptyElements == Elements(<<>>) = {}
BY DEF Elements

LEMMA AppendOrdered ==
    ASSUME NEW b \in Seq(Functor), NEW t \in Seq(Functor), NEW f \in Functor,
           Ordered(b, t),
           \A g \in Elements(t) \cup Elements(b) : MayPrecede(g, f)
    PROVE  Ordered(b, Append(t, f))
<1> DEFINE u == Append(t, f)
<1>1. /\ DOMAIN u = 1..Len(t) + 1 /\ DOMAIN t = 1..Len(t) /\ Len(t) \in Nat
      /\ u[Len(t) + 1] = f
      /\ \A i \in DOMAIN t : u[i] = t[i]
  BY AppendProperties, LenProperties
<1>2. Elements(u) = Elements(t) \cup {f}
  BY AppendElements
<1>3. ASSUME NEW i \in DOMAIN u, NEW j \in DOMAIN u, i < j
      PROVE  MayPrecede(u[i], u[j])
  <2>1. i \in DOMAIN t /\ u[i] = t[i] /\ t[i] \in Elements(t)
    BY <1>1, <1>3 DEF Elements
  <2>2. CASE j = Len(t) + 1
    BY <1>1, <2>1, <2>2
  <2>3. CASE j # Len(t) + 1
    <3>1. j \in DOMAIN t /\ u[j] = t[j]
      BY <1>1, <2>3
    <3> QED
      BY <1>3, <2>1, <3>1 DEF Ordered
  <2> QED
    BY <2>2, <2>3
<1>4. \A x \in Elements(b), g \in Elements(u) : MayPrecede(x, g)
  BY <1>2 DEF Ordered
<1> QED
  BY <1>3, <1>4 DEF Ordered

LEMMA TailOrdered ==
    ASSUME NEW b \in Seq(Functor), NEW t \in Seq(Functor), b # <<>>,
           Ordered(b, t)
    PROVE  /\ Ordered(Tail(b), t)
           /\ \A g \in Elements(t) \cup Elements(Tail(b)) : MayPrecede(Head(b), g)
<1>1. /\ Head(b) = b[1] /\ Tail(b) \in Seq(Functor)
      /\ Len(Tail(b)) = Len(b) - 1
      /\ \A i \in 1..Len(Tail(b)) : Tail(b)[i] = b[i + 1]
  BY HeadTailProperties
<1>2. Len(b) \in Nat \ {0} /\ DOMAIN b = 1..Len(b)
      /\ DOMAIN Tail(b) = 1..Len(b) - 1
  BY <1>1, EmptySeq, LenProperties
<1>3. \A i \in DOMAIN Tail(b) :
          i + 1 \in DOMAIN b /\ 1 < i + 1 /\ Tail(b)[i] = b[i + 1]
  BY <1>1, <1>2
<1>4. Elements(b) = {Head(b)} \cup Elements(Tail(b))
  BY TailElements
<1>5. ASSUME NEW i \in DOMAIN Tail(b), NEW j \in DOMAIN Tail(b), i < j
      PROVE  MayPrecede(Tail(b)[i], Tail(b)[j])
  <2>1. i + 1 < j + 1
    BY <1>2, <1>5
  <2> QED
    BY <1>3, <2>1 DEF Ordered
<1>6. \A g \in Elements(Tail(b)) : MayPrecede(Head(b), g)
  <2>1. 1 \in DOMAIN b
    BY <1>2
  <2>2. \A i \in DOMAIN Tail(b) : MayPrecede(b[1], Tail(b)[i])
    BY <1>3, <2>1 DEF Ordered
  <2> QED
    BY <1>1, <2>2 DEF Elements
<1> QED
  BY <1>4, <1>5, <1>6 DEF Ordered

LEMMA EmptyOrdered ==
    ASSUME NEW b, NEW t, Ordered(b, t)
    PROVE  Ordered(<<>>, t) /\ Ordered(b, <<>>) /\ Ordered(t, <<>>)
BY EmptyElements DEF Ordered

\* queueInLoop
LEMMA Push ==
    ASSUME NEW b, NEW t, QueuesOK(b, t), NEW k \in Loops, NEW f \in Functor,
           \A g \in Queued(b, t, k) : MayPrecede(g, f),
           NEW u \in [Loops -> Seq(Functor)], u[k] = Append(t[k], f),
           \A l \in Loops \ {k} : u[l] = t[l]
    PROVE  /\ QueuesOK(b, u)
           /\ \A l \in Loops :
                 Queued(b, u, l) = IF l = k THEN Queued(b, t, l) \cup {f}
                                            ELSE Queued(b, t, l)
<1>1. t[k] \in Seq(Functor) /\ b[k] \in Seq(Functor) /\ Ordered(b[k], t[k])
  BY DEF QueuesOK
<1>2. Ordered(b[k], u[k])
  BY <1>1, AppendOrdered DEF Queued
<1>3. Elements(u[k]) = Elements(t[k]) \cup {f}
  BY <1>1, AppendElements
<1> QED
  BY <1>2, <1>3 DEF QueuesOK, Queued

-----------------------------------------------------------------------------
(* The inductive invariant. *)

Here(fn, c, l) == Bound(fn, c) \in Queued(batch, tasks, l)

\* connectEstablished, connectDestoryed and the removal of c are waiting.
Starts(c) == \E l \in Loops : Here("connectEstablished", c, l)
Ends(c) == \E l \in Loops : Here("connectDestoryed", c, l)
Removal(c) == Here("removeConnectionInLoop", c, Base)
Listens == Here("listen", NoConn, Base)

\* A functor is in the loop it is for, and of a connection that was made.
FunctorsInPlace ==
    \A l \in Loops, c \in Clients :
        /\ Here("connectEstablished", c, l) \/ Here("connectDestoryed", c, l)
              => Created(c) /\ conn[c].loop = l
        /\ Here("connectEstablished", c, l) => l # Base
        /\ Here("removeConnectionInLoop", c, l)
              => Created(c) /\ l = Base /\ conn[c].loop # Base

\* One thread is in start(), and the socket is listened on when there is a pool.
StartedOnce ==
    /\ started = (IF caller["base"] = "idle" THEN 0 ELSE 1)
                   + (IF caller["user"] = "idle" THEN 0 ELSE 1)
    /\ caller["base"] \in {"idle", "done"} \/ caller["user"] \in {"idle", "done"}
    /\ \A t \in Callers :
          /\ caller[t] \in {"pool", "listen"} =>
                server = "alive" /\ ~listening /\ ~Listens
          /\ caller[t] = "pool" => loops = 0
          /\ caller[t] = "listen" => loops = numThreads
    /\ started = 0 => loops = 0 /\ ~listening /\ ~Listens
    /\ Listens => ~listening /\ caller["user"] = "done"
    /\ \A l \in Loops : Here("listen", NoConn, l) => l = Base
    /\ listening \/ Listens \/ backlog # <<>> => loops = numThreads

\* The loops of the pool run from StartPool until ~TcpServer quits them, one
\* after the other: all but the last one it has told are gone.
LoopsOfPool ==
    /\ next = 0 \/ next < loops
    /\ \A c \in Clients : Created(c) => /\ conn[c].loop <= loops
                                        /\ loops = numThreads
                                        /\ loops > 0 => conn[c].loop > 0
    /\ \A l \in SubLoops :
          /\ quit[l] => server \in {"pool", "destroyed"}
          /\ pc[l] = "gone" => quit[l] /\ tasks[l] = <<>>
          /\ loops = 0 => pc[l] = "main"
          /\ l < told => pc[l] = "gone"
          /\ server = "destroyed" => loops = 0 \/ pc[l] = "gone"
    /\ \A l \in Loops : l > numThreads => pc[l] = "main"
    /\ told > 0 => server \in {"pool", "destroyed"}
    /\ pc[Base] = "gone" => server = "destroyed" /\ tasks[Base] = <<>>

CreatedConns == {c \in Clients : Created(c)}

\* Every connection has a name of its own, and so has every entry of the table.
OwnNames ==
    /\ nextConnId = Cardinality(CreatedConns) + 1
    /\ \A i \in DOMAIN backlog : ~Created(backlog[i])
    /\ \A i, j \in DOMAIN backlog : i # j => backlog[i] # backlog[j]
    /\ \A c \in CreatedConns : conn[c].name \in 1..nextConnId - 1
    /\ \A c, d \in CreatedConns : conn[c].name = conn[d].name => c = d
    /\ \A n \in DOMAIN conncetions :
          Created(conncetions[n]) /\ conn[conncetions[n]].name = n

\* The functors of a connection, its entry and its poller fit together.
ConnInPlace(c) ==
    /\ Starts(c) => /\ conn[c].ups = 0 /\ conn[c].downs = 0
                    /\ conn[c].destroyed = 0 /\ ~conn[c].added
    /\ conn[c].added => /\ conn[c].ups = 1 /\ conn[c].downs = 0
                        /\ conn[c].destroyed = 0 /\ ~Removal(c)
    /\ Starts(c) \/ pc[conn[c].loop] = "gone" \/ conn[c].ups = 1
    /\ conn[c].ups = 1 /\ conn[c].downs = 0 /\ conn[c].destroyed = 0
          => conn[c].added
    /\ conn[c].destroyed > 0 => ~Starts(c) /\ ~Ends(c) /\ ~InTable(c)
    /\ Ends(c) => ~InTable(c)
    /\ Ends(c) /\ server = "alive" => conn[c].downs = 1 /\ ~Removal(c)
    /\ Removal(c) => conn[c].downs = 1
    /\ server = "alive" => (InTable(c) <=> conn[c].downs = 0 \/ Removal(c))
    /\ conn[c].added \/ Starts(c) =>
          InTable(c) \/ Ends(c) \/ pc[conn[c].loop] = "gone"
    /\ conn[c].loop = Base /\ conn[c].added => InTable(c)

ConnsInPlace ==
    \A c \in Clients :
        /\ Created(c) => ConnInPlace(c)
        /\ ~Created(c) => conn[c] = NoConnection

\* What is left of the server, and when it went.
ServerInPlace ==
    /\ server \in {"pool", "destroyed"} => DOMAIN conncetions = {}
    /\ server # "alive" /\ ~early => pc[Base] \in {"out", "gone"}
    /\ server = "alive" => ~early /\ ~fault
    /\ server = "destroyed" => ~listening
    /\ NoUseOfDestroyedServer

IInv ==
    /\ TypeOK /\ QueuesOK(batch, tasks)
    /\ FunctorsInPlace /\ StartedOnce /\ LoopsOfPool
    /\ OwnNames /\ ConnsInPlace /\ ServerInPlace

USE DEF config, startVars, acceptVars, connVars, batchVars, loopVars, endVars

-----------------------------------------------------------------------------
LEMMA LoopNumbers ==
    /\ MaxThreads \in Nat /\ Base \in Loops
    /\ \A l \in Loops : l \in Nat /\ l <= MaxThreads
BY ThreadsAssumption DEF Loops, Base

LEMMA SubLoopsAreLoops ==
    ASSUME TypeOK
    PROVE  /\ SubLoops = (1..numThreads) /\ numThreads \in Nat
           /\ \A l \in SubLoops : l \in Loops /\ l # Base
BY ThreadsAssumption DEF TypeOK, SubLoops, Loops, Base

LEMMA TwoCallers == Cardinality(Callers) = 2
<1>1. IsFiniteSet({"base"}) /\ Cardinality({"base"}) = 1
  BY FS_Singleton
<1>2. Callers = {"base"} \cup {"user"} /\ "user" \notin {"base"}
  BY DEF Callers
<1> QED
  BY <1>1, <1>2, FS_AddElement

LEMMA CreatedIsFinite ==
    /\ IsFiniteSet(CreatedConns) /\ Cardinality(CreatedConns) \in Nat
    /\ Cardinality(CreatedConns) <= Cardinality(Clients)
    /\ IsFiniteSet(Clients) /\ Cardinality(Clients) \in Nat
BY ClientsAssumption, FS_Subset, FS_CardinalityType DEF CreatedConns

LEMMA InitIInv == Init => IInv
<1> SUFFICES ASSUME Init PROVE IInv
  OBVIOUS
<1>1. conn = [c \in Clients |-> NoConnection] /\ conncetions = [n \in {} |-> NoConn]
  BY DEF Init
<1>2. \A l \in Loops : Queued(batch, tasks, l) = {}
  BY EmptyElements DEF Init, Queued
<1>3. \A fn, c : \A l \in Loops : ~Here(fn, c, l)
  BY <1>2 DEF Here
<1>4. \A c \in Clients : ~Created(c)
  BY <1>1 DEF Created, NoConnection
<1>5. TypeOK
  <2>1. NoConnection \in Connection
    BY LoopNumbers DEF NoConnection, Connection
  <2>2. <<>> \in Seq(Functor) /\ <<>> \in Seq(Clients)
    BY EmptySeq
  <2>3. Cardinality(Callers) = 2
    BY TwoCallers
  <2>4. DOMAIN conncetions = {}
    BY <1>1
  <2>5. /\ conn \in [Clients -> Connection]
        /\ tasks \in [Loops -> Seq(Functor)] /\ batch \in [Loops -> Seq(Functor)]
    BY <2>1, <2>2 DEF Init
  <2>6. /\ caller \in [Callers -> {"idle", "pool", "listen", "done"}]
        /\ pc \in [Loops -> {"main", "published", "poll", "functors", "out",
                              "gone", "undefined"}]
        /\ quit \in [Loops -> BOOLEAN]
        /\ ran \in [Loops -> SUBSET Clients]
        /\ \A l \in Loops : batch[l] = <<>> /\ ran[l] = {}
    BY DEF Init
  <2>7. nextConnId \in 1..Cardinality(Clients) + 1
    BY CreatedIsFinite DEF Init
  <2>8. DOMAIN conncetions \subseteq 1..nextConnId - 1
    BY <2>4
  <2>9. /\ numThreads \in 0..MaxThreads
        /\ maxFds \in 1..Cardinality(Clients)
        /\ started \in 0..Cardinality(Callers)
        /\ loops \in {0, numThreads}
        /\ next \in 0..MaxThreads
        /\ listening = FALSE /\ early = FALSE /\ fault = FALSE
        /\ backlog = <<>> /\ left = {} /\ server = "alive"
        /\ told \in 0..loops
    BY <2>3, LoopNumbers DEF Init
  <2> QED
    BY <2>2, <2>4, <2>5, <2>6, <2>7, <2>8, <2>9 DEF TypeOK
<1>6. QueuesOK(batch, tasks)
  BY EmptySeq, EmptyElements DEF Init, QueuesOK, Ordered
<1>7. FunctorsInPlace
  BY <1>3 DEF FunctorsInPlace
<1>8. StartedOnce
  BY <1>3, LoopNumbers DEF Init, StartedOnce, Listens, Callers, Base
<1>9. LoopsOfPool
  BY <1>4, LoopNumbers DEF Init, LoopsOfPool, SubLoops, Loops
<1>10. OwnNames
  <2>1. CreatedConns = {}
    BY <1>4 DEF CreatedConns
  <2>2. Cardinality(CreatedConns) = 0
    BY <2>1, FS_EmptySet
  <2>3. DOMAIN backlog = {}
    BY DEF Init
  <2> QED
    BY <1>1, <2>1, <2>2, <2>3 DEF Init, OwnNames
<1>11. ConnsInPlace
  BY <1>1, <1>4 DEF ConnsInPlace
<1>12. ServerInPlace
  BY DEF Init, ServerInPlace, NoUseOfDestroyedServer
<1> QED
  BY <1>5, <1>6, <1>7, <1>8, <1>9, <1>10, <1>11, <1>12 DEF IInv

\* Where no functor and no connection changes.
LEMMA QuietStep ==
    ASSUME IInv, UNCHANGED <<connVars, tasks, batch>>,
           server' = "alive" => server = "alive",
           \A l \in Loops : pc[l] = "gone" => pc'[l] = "gone"
    PROVE  QueuesOK(batch, tasks)' /\ FunctorsInPlace' /\ ConnsInPlace'
<1>1. \A fn, c, l : Here(fn, c, l)' <=> Here(fn, c, l)
  BY DEF Here
<1>2. \A c : /\ Starts(c)' <=> Starts(c)
             /\ Ends(c)' <=> Ends(c)
             /\ Removal(c)' <=> Removal(c)
             /\ InTable(c)' <=> InTable(c)
             /\ Created(c)' <=> Created(c)
  BY <1>1 DEF Starts, Ends, Removal, InTable, Created
<1>3. FunctorsInPlace'
  BY <1>1, <1>2 DEF IInv, FunctorsInPlace
<1>4. ASSUME NEW c \in Clients, Created(c) PROVE ConnInPlace(c)'
  <2>1. conn[c].loop \in Loops
    BY DEF IInv, TypeOK, Connection
  <2> QED
    BY <1>2, <1>4, <2>1 DEF IInv, ConnsInPlace, ConnInPlace
<1> QED
  BY <1>2, <1>3, <1>4 DEF IInv, ConnsInPlace
-----------------------------------------------------------------------------
(* The steps that leave functors and connections alone. *)

LEMMA StartKeeps == ASSUME IInv, NEW t \in Callers, Start(t) PROVE IInv'
<1> USE LoopNumbers DEF Start, Callers, StartSteps, FirstStart
<1>1. QueuesOK(batch, tasks)' /\ FunctorsInPlace' /\ ConnsInPlace'
  BY QuietStep DEF IInv, TypeOK, StartedOnce, LoopsOfPool
<1>2. TypeOK'
  BY TwoCallers DEF IInv, TypeOK, StartedOnce
<1>3. StartedOnce'
  BY DEF IInv, TypeOK, StartedOnce, Listens, Here
<1>4. LoopsOfPool'
  BY DEF IInv, TypeOK, LoopsOfPool, StartedOnce, Created, SubLoops, Base
<1>5. OwnNames'
  BY DEF IInv, TypeOK, OwnNames, CreatedConns, Created
<1>6. ServerInPlace'
  BY DEF IInv, TypeOK, ServerInPlace, NoUseOfDestroyedServer, StartedOnce
<1> QED
  BY <1>1, <1>2, <1>3, <1>4, <1>5, <1>6 DEF IInv

LEMMA StartPoolKeeps == ASSUME IInv, NEW t \in Callers, StartPool(t) PROVE IInv'
<1> USE LoopNumbers DEF StartPool, Callers, StartSteps, SubLoops
<1>1. QueuesOK(batch, tasks)' /\ FunctorsInPlace' /\ ConnsInPlace'
  BY QuietStep DEF IInv, TypeOK, StartedOnce, LoopsOfPool
<1>2. TypeOK'
  <2>1. /\ loops = 0 /\ loops' = numThreads
        /\ pc' \in [Loops -> {"main", "published", "poll", "functors", "out",
                              "gone", "undefined"}]
        /\ caller' \in [Callers -> {"idle", "pool", "listen", "done"}]
    BY DEF IInv, TypeOK, StartedOnce
  <2>2. \A l \in Loops : batch'[l] # <<>> \/ ran'[l] # {}
                           => pc'[l] \in {"functors", "undefined"}
    BY <2>1 DEF IInv, TypeOK, LoopsOfPool, SubLoops
  <2>3. told = 0 /\ told \in 0..loops'
    BY <2>1 DEF IInv, TypeOK
  <2> QED
    BY <2>1, <2>2, <2>3 DEF IInv, TypeOK
<1>3. StartedOnce'
  BY DEF IInv, TypeOK, StartedOnce, Listens, Here
<1>4. LoopsOfPool'
  <2>1. /\ loops = 0 /\ loops' = numThreads /\ server = "alive"
        /\ UNCHANGED <<server, next, conn, tasks, quit, numThreads>>
    BY DEF IInv, TypeOK, StartedOnce
  <2>2. numThreads \in Nat /\ numThreads <= MaxThreads
    BY DEF IInv, TypeOK
  <2>3. ASSUME NEW l \in SubLoops PROVE pc'[l] = "published" /\ ~quit[l]
    BY <2>1, <2>2 DEF IInv, LoopsOfPool, Loops
  <2>4. pc'[Base] = pc[Base]
    BY DEF Base
  <2>5. \A c \in Clients : Created(c)' <=> Created(c)
    BY DEF Created
  <2>6. \A c \in Clients : Created(c) => numThreads = 0
    BY <2>1 DEF IInv, LoopsOfPool
  <2>7. next' = 0
    BY <2>1, <2>2 DEF IInv, LoopsOfPool, TypeOK
  <2>8. SubLoops' = SubLoops
    BY <2>1
  <2>9. \A l \in SubLoops : loops' # 0
    BY <2>1, <2>2
  <2>10. \A c \in Clients : Created(c) => conn[c].loop <= loops'
    BY <2>1, <2>2, <2>6 DEF IInv, LoopsOfPool
  <2> QED
    BY <2>1, <2>2, <2>3, <2>4, <2>5, <2>6, <2>7, <2>8, <2>9, <2>10
       DEF IInv, LoopsOfPool
<1>5. OwnNames'
  BY DEF IInv, TypeOK, OwnNames, CreatedConns, Created
<1>6. ServerInPlace'
  BY DEF IInv, TypeOK, ServerInPlace, NoUseOfDestroyedServer, StartedOnce
<1> QED
  BY <1>1, <1>2, <1>3, <1>4, <1>5, <1>6 DEF IInv

LEMMA ListenHereKeeps == ASSUME IInv, Listen("base") PROVE IInv'
<1> USE LoopNumbers DEF Listen, Callers, StartSteps
<1>1. QueuesOK(batch, tasks)' /\ FunctorsInPlace' /\ ConnsInPlace'
  BY QuietStep DEF IInv, TypeOK, StartedOnce, LoopsOfPool
<1>2. TypeOK'
  BY DEF IInv, TypeOK, StartedOnce
<1>3. StartedOnce'
  BY DEF IInv, TypeOK, StartedOnce, Listens, Here
<1>4. LoopsOfPool'
  BY DEF IInv, TypeOK, LoopsOfPool, StartedOnce, Created, SubLoops, Base
<1>5. OwnNames'
  BY DEF IInv, TypeOK, OwnNames, CreatedConns, Created
<1>6. ServerInPlace'
  BY DEF IInv, TypeOK, ServerInPlace, NoUseOfDestroyedServer, StartedOnce
<1> QED
  BY <1>1, <1>2, <1>3, <1>4, <1>5, <1>6 DEF IInv

LEMMA EnterLoopKeeps == ASSUME IInv, EnterLoop PROVE IInv'
<1> USE LoopNumbers DEF EnterLoop
<1>1. QueuesOK(batch, tasks)' /\ FunctorsInPlace' /\ ConnsInPlace'
  BY QuietStep DEF IInv, TypeOK, StartedOnce, LoopsOfPool
<1>2. TypeOK'
  BY DEF IInv, TypeOK, StartedOnce
<1>3. StartedOnce'
  BY DEF IInv, TypeOK, StartedOnce, Listens, Here
<1>4. LoopsOfPool'
  BY DEF IInv, TypeOK, LoopsOfPool, StartedOnce, Created, SubLoops, Base
<1>5. OwnNames'
  BY DEF IInv, TypeOK, OwnNames, CreatedConns, Created
<1>6. ServerInPlace'
  BY DEF IInv, TypeOK, ServerInPlace, NoUseOfDestroyedServer, StartedOnce
<1> QED
  BY <1>1, <1>2, <1>3, <1>4, <1>5, <1>6 DEF IInv

LEMMA BeginLoopKeeps == ASSUME IInv, NEW k \in Loops, BeginLoop(k) PROVE IInv'
<1> USE LoopNumbers DEF BeginLoop
<1>1. QueuesOK(batch, tasks)' /\ FunctorsInPlace' /\ ConnsInPlace'
  BY QuietStep DEF IInv, TypeOK, StartedOnce, LoopsOfPool
<1>2. TypeOK'
  BY DEF IInv, TypeOK, StartedOnce
<1>3. StartedOnce'
  BY DEF IInv, TypeOK, StartedOnce, Listens, Here
<1>4. LoopsOfPool'
  BY DEF IInv, TypeOK, LoopsOfPool, StartedOnce, Created, SubLoops, Base
<1>5. OwnNames'
  BY DEF IInv, TypeOK, OwnNames, CreatedConns, Created
<1>6. ServerInPlace'
  BY DEF IInv, TypeOK, ServerInPlace, NoUseOfDestroyedServer, StartedOnce
<1> QED
  BY <1>1, <1>2, <1>3, <1>4, <1>5, <1>6 DEF IInv

LEMMA QuitBaseKeeps == ASSUME IInv, QuitBase PROVE IInv'
<1> USE LoopNumbers DEF QuitBase
<1>1. QueuesOK(batch, tasks)' /\ FunctorsInPlace' /\ ConnsInPlace'
  BY QuietStep DEF IInv, TypeOK, StartedOnce, LoopsOfPool
<1>2. TypeOK'
  BY DEF IInv, TypeOK, StartedOnce
<1>3. StartedOnce'
  BY DEF IInv, TypeOK, StartedOnce, Listens, Here
<1>4. LoopsOfPool'
  BY DEF IInv, TypeOK, LoopsOfPool, StartedOnce, Created, SubLoops, Base
<1>5. OwnNames'
  BY DEF IInv, TypeOK, OwnNames, CreatedConns, Created
<1>6. ServerInPlace'
  BY DEF IInv, TypeOK, ServerInPlace, NoUseOfDestroyedServer, StartedOnce
<1> QED
  BY <1>1, <1>2, <1>3, <1>4, <1>5, <1>6 DEF IInv

LEMMA DestroyKeeps == ASSUME IInv, Destroy PROVE IInv'
<1> USE LoopNumbers DEF Destroy
<1>1. QueuesOK(batch, tasks)' /\ FunctorsInPlace' /\ ConnsInPlace'
  BY QuietStep DEF IInv, TypeOK, StartedOnce, LoopsOfPool
<1>2. TypeOK'
  BY DEF IInv, TypeOK, StartedOnce
<1>3. StartedOnce'
  BY DEF IInv, TypeOK, StartedOnce, Listens, Here
<1>4. LoopsOfPool'
  BY DEF IInv, TypeOK, LoopsOfPool, StartedOnce, Created, SubLoops, Base
<1>5. OwnNames'
  BY DEF IInv, TypeOK, OwnNames, CreatedConns, Created
<1>6. ServerInPlace'
  BY DEF IInv, TypeOK, ServerInPlace, NoUseOfDestroyedServer, StartedOnce
<1> QED
  BY <1>1, <1>2, <1>3, <1>4, <1>5, <1>6 DEF IInv

LEMMA ItemsDoneKeeps == ASSUME IInv, ItemsDone PROVE IInv'
<1> USE LoopNumbers DEF ItemsDone
<1>1. QueuesOK(batch, tasks)' /\ FunctorsInPlace' /\ ConnsInPlace'
  BY QuietStep DEF IInv, TypeOK, StartedOnce, LoopsOfPool
<1>2. TypeOK'
  BY DEF IInv, TypeOK, StartedOnce
<1>3. StartedOnce'
  BY DEF IInv, TypeOK, StartedOnce, Listens, Here
<1>4. LoopsOfPool'
  BY DEF IInv, TypeOK, LoopsOfPool, StartedOnce, Created, SubLoops, Base
<1>5. OwnNames'
  BY DEF IInv, TypeOK, OwnNames, CreatedConns, Created
<1>6. ServerInPlace'
  BY DEF IInv, TypeOK, ServerInPlace, NoUseOfDestroyedServer, StartedOnce
<1> QED
  BY <1>1, <1>2, <1>3, <1>4, <1>5, <1>6 DEF IInv

LEMMA QuitThreadKeeps == ASSUME IInv, NEW k \in Loops, QuitThread(k) PROVE IInv'
<1> USE LoopNumbers DEF QuitThread, Quit, Joined, SubLoops
<1>1. QueuesOK(batch, tasks)' /\ FunctorsInPlace' /\ ConnsInPlace'
  BY QuietStep DEF IInv, TypeOK, StartedOnce, LoopsOfPool
<1>2. TypeOK'
  BY DEF IInv, TypeOK, StartedOnce
<1>3. StartedOnce'
  BY DEF IInv, TypeOK, StartedOnce, Listens, Here
<1>4. LoopsOfPool'
  <2>1. /\ server = "pool" /\ k \in 1..loops /\ told' = k /\ SubLoops' = SubLoops
        /\ quit' = [quit EXCEPT ![k] = TRUE]
        /\ UNCHANGED <<numThreads, loops, next, conn, pc, tasks, server>>
    OBVIOUS
  <2>2. ASSUME NEW l \in SubLoops, l < k PROVE pc[l] = "gone"
    <3>1. k \in Nat /\ l \in Nat \ {0} /\ told = k - 1 /\ (told > 0 => pc[told] = "gone")
      BY DEF IInv, TypeOK
    <3>2. l < told \/ (l = told /\ told > 0)
      BY <2>2, <3>1
    <3> QED
      BY <3>1, <3>2 DEF IInv, LoopsOfPool
  <2>3. quit'[k] = TRUE /\ \A l \in SubLoops \ {k} : quit'[l] = quit[l]
    <3>1. quit \in [Loops -> BOOLEAN] /\ SubLoops \subseteq Loops
      BY SubLoopsAreLoops DEF IInv, TypeOK
    <3> QED
      BY <2>1, <3>1
  <2>4. \A c : Created(c)' <=> Created(c)
    BY <2>1 DEF Created
  <2> QED
    BY <2>1, <2>2, <2>3, <2>4 DEF IInv, LoopsOfPool
<1>5. OwnNames'
  BY DEF IInv, TypeOK, OwnNames, CreatedConns, Created
<1>6. ServerInPlace'
  BY DEF IInv, TypeOK, ServerInPlace, NoUseOfDestroyedServer, StartedOnce
<1> QED
  BY <1>1, <1>2, <1>3, <1>4, <1>5, <1>6 DEF IInv

LEMMA DestroyAcceptorKeeps == ASSUME IInv, DestroyAcceptor PROVE IInv'
<1> USE LoopNumbers DEF DestroyAcceptor, Joined, SubLoops
<1>1. QueuesOK(batch, tasks)' /\ FunctorsInPlace' /\ ConnsInPlace'
  BY QuietStep DEF IInv, TypeOK, StartedOnce, LoopsOfPool
<1>2. TypeOK'
  <2>1. <<>> \in Seq(Clients)
    BY EmptySeq
  <2> QED
    BY <2>1 DEF IInv, TypeOK
<1>3. StartedOnce'
  BY DEF IInv, TypeOK, StartedOnce, Listens, Here
<1>4. LoopsOfPool'
  BY DEF IInv, TypeOK, LoopsOfPool, StartedOnce, Created, SubLoops, Base
<1>5. OwnNames'
  BY DEF IInv, TypeOK, OwnNames, CreatedConns, Created
<1>6. ServerInPlace'
  BY DEF IInv, TypeOK, ServerInPlace, NoUseOfDestroyedServer, StartedOnce
<1> QED
  BY <1>1, <1>2, <1>3, <1>4, <1>5, <1>6 DEF IInv

LEMMA ConnectKeeps == ASSUME IInv, NEW c \in Clients, Connect(c) PROVE IInv'
<1> USE LoopNumbers DEF Connect
<1>1. QueuesOK(batch, tasks)' /\ FunctorsInPlace' /\ ConnsInPlace'
  BY QuietStep DEF IInv, TypeOK, StartedOnce, LoopsOfPool
<1>2. TypeOK'
  BY DEF IInv, TypeOK, StartedOnce
<1>3. StartedOnce'
  BY DEF IInv, TypeOK, StartedOnce, Listens, Here
<1>4. LoopsOfPool'
  BY DEF IInv, TypeOK, LoopsOfPool, StartedOnce, Created, SubLoops, Base
<1>5. OwnNames'
  <2>1. /\ DOMAIN backlog' = 1..Len(backlog) + 1 /\ DOMAIN backlog = 1..Len(backlog)
        /\ Len(backlog) \in Nat /\ backlog'[Len(backlog) + 1] = c
        /\ \A i \in DOMAIN backlog : backlog'[i] = backlog[i] /\ backlog[i] # c
    BY AppendProperties, LenProperties DEF IInv, TypeOK, Elements
  <2>2. /\ \A i \in DOMAIN backlog' : ~Created(backlog'[i])
        /\ \A i, j \in DOMAIN backlog' : i # j => backlog'[i] # backlog'[j]
    BY <2>1 DEF IInv, OwnNames
  <2>3. \A d : Created(d)' <=> Created(d)
    BY DEF Created
  <2>4. CreatedConns' = CreatedConns
    BY <2>3 DEF CreatedConns
  <2> QED
    BY <2>2, <2>3, <2>4 DEF IInv, OwnNames, Created
<1>6. ServerInPlace'
  BY DEF IInv, TypeOK, ServerInPlace, NoUseOfDestroyedServer, StartedOnce
<1> QED
  BY <1>1, <1>2, <1>3, <1>4, <1>5, <1>6 DEF IInv

LEMMA LeaveKeeps == ASSUME IInv, NEW c \in Clients, Leave(c) PROVE IInv'
<1> USE LoopNumbers DEF Leave
<1>1. QueuesOK(batch, tasks)' /\ FunctorsInPlace' /\ ConnsInPlace'
  BY QuietStep DEF IInv, TypeOK, StartedOnce, LoopsOfPool
<1>2. TypeOK'
  BY DEF IInv, TypeOK, StartedOnce
<1>3. StartedOnce'
  BY DEF IInv, TypeOK, StartedOnce, Listens, Here
<1>4. LoopsOfPool'
  BY DEF IInv, TypeOK, LoopsOfPool, StartedOnce, Created, SubLoops, Base
<1>5. OwnNames'
  BY DEF IInv, TypeOK, OwnNames, CreatedConns, Created
<1>6. ServerInPlace'
  BY DEF IInv, TypeOK, ServerInPlace, NoUseOfDestroyedServer, StartedOnce
<1> QED
  BY <1>1, <1>2, <1>3, <1>4, <1>5, <1>6 DEF IInv

-----------------------------------------------------------------------------
(* The effect of queueInLoop, of running a functor and of erasing an entry. *)

LEMMA FunctorFields ==
    ASSUME NEW f \in Functor
    PROVE  /\ f = Bound(f.fn, f.conn)
           /\ f.fn # "listen" => f.conn \in Clients
           /\ f.fn = "listen" => f.conn = NoConn
BY DEF Functor, Bound

LEMMA BoundIsInjective ==
    ASSUME NEW x, NEW c, NEW y, NEW d, Bound(x, c) = Bound(y, d)
    PROVE  x = y /\ c = d
<1>1. Bound(x, c).fn = x /\ Bound(x, c).conn = c
  BY DEF Bound
<1>2. Bound(y, d).fn = y /\ Bound(y, d).conn = d
  BY DEF Bound
<1> QED
  BY <1>1, <1>2

LEMMA BoundFields ==
    ASSUME NEW x, NEW c
    PROVE  Bound(x, c).fn = x /\ Bound(x, c).conn = c
BY DEF Bound

LEMMA QueuedAreFunctors ==
    ASSUME NEW b, NEW t, QueuesOK(b, t), NEW l \in Loops
    PROVE  Queued(b, t, l) \subseteq Functor
<1>1. b[l] \in Seq(Functor) /\ t[l] \in Seq(Functor)
  BY DEF QueuesOK
<1>2. \A s \in Seq(Functor) : Elements(s) \subseteq Functor
  BY LenProperties, ElementOfSeq DEF Elements
<1> QED
  BY <1>1, <1>2 DEF Queued

LEMMA QueueInEffect ==
    ASSUME IInv, NEW k \in Loops, NEW fn, NEW c, Bound(fn, c) \in Functor,
           ~Here(fn, c, k),
           fn = "connectEstablished" => ~Here("connectDestoryed", c, k),
           QueueIn(k, Bound(fn, c)), batch' = batch
    PROVE  /\ QueuesOK(batch, tasks)'
           /\ \A l \in Loops : \A x, d :
                 Here(x, d, l)' <=> Here(x, d, l) \/ (l = k /\ x = fn /\ d = c)
<1>1. /\ QueuesOK(batch, tasks) /\ tasks' \in [Loops -> Seq(Functor)]
      /\ tasks'[k] = Append(tasks[k], Bound(fn, c))
      /\ \A l \in Loops \ {k} : tasks'[l] = tasks[l]
  BY AppendElements DEF IInv, QueuesOK, QueueIn
<1>2. ASSUME NEW g \in Queued(batch, tasks, k) PROVE MayPrecede(g, Bound(fn, c))
  <2>1. g \in Functor /\ g = Bound(g.fn, g.conn)
    BY <1>1, QueuedAreFunctors, FunctorFields
  <2>2. Here(g.fn, g.conn, k)
    BY <2>1 DEF Here
  <2>3. g # Bound(fn, c)
    BY <2>2 DEF Here
  <2>4. ASSUME g.fn = "connectDestoryed",
               Bound(fn, c) = Bound("connectEstablished", g.conn)
        PROVE  FALSE
    BY <2>2, <2>4, BoundIsInjective
  <2> QED
    BY <2>3, <2>4 DEF MayPrecede
<1>3. /\ QueuesOK(batch, tasks')
      /\ \A l \in Loops :
            Queued(batch, tasks', l) = IF l = k
                THEN Queued(batch, tasks, l) \cup {Bound(fn, c)}
                ELSE Queued(batch, tasks, l)
  BY <1>1, <1>2, Push
<1>4. ASSUME NEW l \in Loops, NEW x, NEW d
      PROVE  Here(x, d, l)' <=> Here(x, d, l) \/ (l = k /\ x = fn /\ d = c)
  BY <1>3, BoundIsInjective DEF Here
<1> QED
  BY <1>3, <1>4

\* What is left of a batch, and what has run, belongs to a loop that is in it.
LEMMA NextFunctorType ==
    ASSUME IInv, NEW k \in Loops, NEW fn, NextFunctor(k, fn)
    PROVE  /\ ran' \in [Loops -> SUBSET Clients]
           /\ \A l \in Loops : batch'[l] # <<>> \/ ran'[l] # {}
                                  => pc[l] \in {"functors", "undefined"}
BY DEF NextFunctor, IInv, TypeOK

\* The functor that runs, and what is left of the queues after it.
LEMMA NextFunctorEffect ==
    ASSUME IInv, NEW k \in Loops, NEW fn, NextFunctor(k, fn),
           NEW c, c = Head(batch[k]).conn
    PROVE  /\ QueuesOK(batch', tasks)
           /\ Here(fn, c, k) /\ Bound(fn, c) \in Functor
           /\ fn = "connectDestoryed" =>
                 Bound("connectEstablished", c) \notin Queued(batch', tasks, k)
           /\ \A l \in Loops : \A x, d :
                 Bound(x, d) \in Queued(batch', tasks, l)
                     <=> Here(x, d, l) /\ ~(l = k /\ x = fn /\ d = c)
<1>1. /\ QueuesOK(batch, tasks) /\ batch[k] # <<>> /\ Head(batch[k]).fn = fn
      /\ batch' \in [Loops -> Seq(Functor)]
      /\ batch'[k] = Tail(batch[k])
      /\ \A l \in Loops \ {k} : batch'[l] = batch[l]
  BY TailElements DEF IInv, QueuesOK, NextFunctor
<1>2. /\ QueuesOK(batch', tasks)
      /\ Head(batch[k]) \in Functor /\ Head(batch[k]) \in Queued(batch, tasks, k)
      /\ \A g \in Queued(batch', tasks, k) : MayPrecede(Head(batch[k]), g)
      /\ \A l \in Loops :
            Queued(batch', tasks, l) = IF l = k
                THEN Queued(batch, tasks, l) \ {Head(batch[k])}
                ELSE Queued(batch, tasks, l)
  <2>1. tasks[k] \in Seq(Functor) /\ batch[k] \in Seq(Functor)
        /\ Ordered(batch[k], tasks[k])
    BY <1>1 DEF QueuesOK
  <2>2. /\ Ordered(batch'[k], tasks[k])
        /\ \A g \in Elements(tasks[k]) \cup Elements(batch'[k]) :
              MayPrecede(Head(batch[k]), g)
    BY <1>1, <2>1, TailOrdered
  <2>3. /\ Elements(batch[k]) = {Head(batch[k])} \cup Elements(batch'[k])
        /\ Head(batch[k]) \in Functor
    BY <1>1, <2>1, TailElements
  <2>4. Head(batch[k]) \notin Elements(tasks[k]) \cup Elements(batch'[k])
    BY <2>2 DEF MayPrecede
  <2> QED
    BY <1>1, <2>2, <2>3, <2>4 DEF QueuesOK, Queued
<1>3. Head(batch[k]) = Bound(fn, c)
  BY <1>1, <1>2, FunctorFields
<1>4. ASSUME NEW l \in Loops, NEW x, NEW d
      PROVE  Bound(x, d) \in Queued(batch', tasks, l)
                 <=> Here(x, d, l) /\ ~(l = k /\ x = fn /\ d = c)
  BY <1>2, <1>3, BoundIsInjective DEF Here
<1>5. ASSUME fn = "connectDestoryed",
             Bound("connectEstablished", c) \in Queued(batch', tasks, k)
      PROVE  FALSE
  <2>1. MayPrecede(Bound(fn, c), Bound("connectEstablished", c))
    BY <1>2, <1>3, <1>5
  <2> QED
    BY <1>5, <2>1, BoundFields DEF MayPrecede
<1> QED
  BY <1>2, <1>3, <1>4, <1>5 DEF Here

\* An entry is found under the name of its connection.
LEMMA EraseEntry ==
    ASSUME IInv, NEW c \in Clients, Created(c),
           conncetions' = [n \in DOMAIN conncetions \ {conn[c].name} |->
                              conncetions[n]]
    PROVE  /\ \A d \in Clients : InTable(d)' <=> InTable(d) /\ d # c
           /\ DOMAIN conncetions' \subseteq DOMAIN conncetions
           /\ \A n \in DOMAIN conncetions' : conncetions'[n] = conncetions[n]
<1>1. /\ DOMAIN conncetions' = DOMAIN conncetions \ {conn[c].name}
      /\ \A n \in DOMAIN conncetions' : conncetions'[n] = conncetions[n]
  OBVIOUS
<1>2. \A n \in DOMAIN conncetions :
          Created(conncetions[n]) /\ conn[conncetions[n]].name = n
  BY DEF IInv, OwnNames
<1>3. ASSUME NEW d \in Clients, InTable(d), d # c PROVE InTable(d)'
  <2>1. PICK n \in DOMAIN conncetions : conncetions[n] = d
    BY <1>3 DEF InTable
  <2>2. Created(d) /\ conn[d].name = n
    BY <1>2, <2>1
  <2>3. n # conn[c].name
    BY <1>3, <2>2 DEF IInv, OwnNames, CreatedConns
  <2> QED
    BY <1>1, <2>1, <2>3 DEF InTable
<1>4. ASSUME NEW d \in Clients, InTable(d)' PROVE InTable(d) /\ d # c
  <2>1. PICK n \in DOMAIN conncetions' : conncetions'[n] = d
    BY <1>4 DEF InTable
  <2>2. n \in DOMAIN conncetions /\ conncetions[n] = d /\ n # conn[c].name
    BY <1>1, <2>1
  <2> QED
    BY <1>2, <2>2 DEF InTable
<1> QED
  BY <1>1, <1>3, <1>4

-----------------------------------------------------------------------------
(* The steps of functors and connections. *)

\* A connection that the step does not touch.
LEMMA OtherConn ==
    ASSUME IInv, NEW d \in Clients, conn'[d] = conn[d],
           InTable(d)' <=> InTable(d), Starts(d)' <=> Starts(d),
           Ends(d)' <=> Ends(d), Removal(d)' <=> Removal(d),
           server' = "alive" => server = "alive",
           \A l \in Loops : pc[l] = "gone" => pc'[l] = "gone"
    PROVE  /\ Created(d) => ConnInPlace(d)'
           /\ ~Created(d) => conn'[d] = NoConnection
<1>1. conn[d].loop \in Loops
  BY DEF IInv, TypeOK, Connection
<1> QED
  BY <1>1 DEF IInv, ConnsInPlace, ConnInPlace

ConnFunctor ==
    {"connectEstablished", "connectDestoryed", "removeConnectionInLoop"}

\* A step after which the functors of all connections are where they were.
LEMMA SameConns ==
    ASSUME IInv, UNCHANGED connVars,
           \A l \in Loops, x \in ConnFunctor, d \in Clients :
               Here(x, d, l)' <=> Here(x, d, l),
           server' = "alive" => server = "alive",
           \A l \in Loops : pc[l] = "gone" => pc'[l] = "gone"
    PROVE  FunctorsInPlace' /\ ConnsInPlace'
<1>1. ASSUME NEW d \in Clients
      PROVE  /\ Starts(d)' <=> Starts(d)
             /\ Ends(d)' <=> Ends(d)
             /\ Removal(d)' <=> Removal(d)
  <2>1. Starts(d)' <=> Starts(d)
    BY DEF Starts, ConnFunctor
  <2>2. Ends(d)' <=> Ends(d)
    BY DEF Ends, ConnFunctor
  <2>3. Removal(d)' <=> Removal(d)
    BY LoopNumbers DEF Removal, ConnFunctor
  <2> QED
    BY <2>1, <2>2, <2>3
<1>2. \A d : InTable(d)' <=> InTable(d)
  BY DEF InTable
<1>3. \A d : Created(d)' <=> Created(d)
  BY DEF Created
<1>4. FunctorsInPlace'
  <2> SUFFICES ASSUME NEW l \in Loops, NEW c \in Clients
               PROVE  /\ Here("connectEstablished", c, l)'
                            \/ Here("connectDestoryed", c, l)'
                            => Created(c)' /\ conn'[c].loop = l
                      /\ Here("connectEstablished", c, l)' => l # Base
                      /\ Here("removeConnectionInLoop", c, l)'
                            => Created(c)' /\ l = Base /\ conn'[c].loop # Base
    BY DEF FunctorsInPlace
  <2>1. \A x \in ConnFunctor : Here(x, c, l)' <=> Here(x, c, l)
    OBVIOUS
  <2> QED
    BY <1>3, <2>1 DEF IInv, FunctorsInPlace, ConnFunctor
<1>5. ASSUME NEW d \in Clients
      PROVE  /\ Created(d)' => ConnInPlace(d)'
             /\ ~Created(d)' => conn'[d] = NoConnection
  BY <1>1, <1>2, <1>3, OtherConn
<1>6. ConnsInPlace'
  BY <1>5 DEF ConnsInPlace
<1> QED
  BY <1>4, <1>6

LEMMA ListenElsewhereKeeps == ASSUME IInv, Listen("user") PROVE IInv'
<1>1. /\ caller["user"] = "listen" /\ UNCHANGED batchVars
      /\ caller' = [caller EXCEPT !["user"] = "done"]
      /\ QueueIn(Base, Bound("listen", NoConn))
      /\ UNCHANGED <<config, started, loops, acceptVars, left, connVars,
                     pc, quit, endVars>>
  BY DEF Listen, StartSteps
<1>2. /\ ~Listens /\ ~listening /\ loops = numThreads /\ server = "alive"
      /\ caller'["user"] = "done" /\ caller'["base"] = caller["base"]
      /\ caller' \in [Callers -> {"idle", "pool", "listen", "done"}]
  BY <1>1 DEF IInv, TypeOK, StartedOnce, Callers
<1>3. /\ QueuesOK(batch, tasks)'
      /\ \A l \in Loops : \A x, d :
            Here(x, d, l)' <=>
                Here(x, d, l) \/ (l = Base /\ x = "listen" /\ d = NoConn)
  <2>1. Bound("listen", NoConn) \in Functor
    BY DEF Bound, Functor
  <2> QED
    BY <1>1, <1>2, <2>1, LoopNumbers, QueueInEffect DEF Listens
<1>4. \A l \in Loops, x \in ConnFunctor, d \in Clients :
          Here(x, d, l)' <=> Here(x, d, l)
  BY <1>3 DEF ConnFunctor
<1>5. TypeOK'
  BY <1>1, <1>2, <1>3 DEF IInv, TypeOK, QueuesOK
<1>6. FunctorsInPlace' /\ ConnsInPlace'
  BY <1>1, <1>4, SameConns
<1>7. StartedOnce'
  BY <1>1, <1>2, <1>3 DEF IInv, TypeOK, StartedOnce, Callers, Listens
<1>8. LoopsOfPool'
  <2>1. \A l \in SubLoops : tasks'[l] = tasks[l]
    BY <1>1 DEF QueueIn, IInv, TypeOK, SubLoops, Base
  <2> QED
    BY <1>1, <1>2, <2>1 DEF IInv, LoopsOfPool, SubLoops, Created
<1>9. OwnNames'
  BY <1>1 DEF IInv, OwnNames, CreatedConns, Created
<1>10. ServerInPlace'
  BY <1>1, <1>2 DEF IInv, ServerInPlace, NoUseOfDestroyedServer
<1> QED
  BY <1>3, <1>5, <1>6, <1>7, <1>8, <1>9, <1>10 DEF IInv

LEMMA RunListenKeeps == ASSUME IInv, RunListen PROVE IInv'
<1> DEFINE c == Head(batch[Base]).conn
<1>1. /\ NextFunctor(Base, "listen") /\ server = "alive" /\ listening' = TRUE
      /\ pc[Base] = "functors"
      /\ UNCHANGED <<config, startVars, next, backlog, left, connVars,
                     pc, tasks, quit, endVars>>
  BY DEF RunListen, NextFunctor
<1>2. /\ QueuesOK(batch', tasks) /\ Here("listen", c, Base)
      /\ Bound("listen", c) \in Functor
      /\ \A l \in Loops : \A x, d :
            Bound(x, d) \in Queued(batch', tasks, l)
                <=> Here(x, d, l) /\ ~(l = Base /\ x = "listen" /\ d = c)
  BY <1>1, LoopNumbers, NextFunctorEffect
<1>3. c = NoConn /\ Listens
  BY <1>2, FunctorFields, BoundFields DEF Listens
<1>4. /\ QueuesOK(batch, tasks)'
      /\ \A l \in Loops : \A x, d :
            Here(x, d, l)' <=>
                Here(x, d, l) /\ ~(l = Base /\ x = "listen" /\ d = NoConn)
  BY <1>1, <1>2, <1>3 DEF Here
<1>5. \A l \in Loops, x \in ConnFunctor, d \in Clients :
          Here(x, d, l)' <=> Here(x, d, l)
  BY <1>4 DEF ConnFunctor
<1>6. TypeOK'
  <2>1. /\ ran' \in [Loops -> SUBSET Clients]
        /\ \A l \in Loops : batch'[l] # <<>> \/ ran'[l] # {}
                               => pc[l] \in {"functors", "undefined"}
    BY <1>1, NextFunctorType, LoopNumbers
  <2> QED
    BY <1>1, <1>4, <2>1 DEF IInv, TypeOK, QueuesOK
<1>7. FunctorsInPlace' /\ ConnsInPlace'
  BY <1>1, <1>5, SameConns
<1>8. StartedOnce'
  BY <1>1, <1>3, <1>4, LoopNumbers DEF IInv, TypeOK, StartedOnce, Callers, Listens
<1>9. LoopsOfPool'
  BY <1>1 DEF IInv, LoopsOfPool, SubLoops, Created
<1>10. OwnNames'
  BY <1>1 DEF IInv, OwnNames, CreatedConns, Created
<1>11. ServerInPlace'
  BY <1>1 DEF IInv, ServerInPlace, NoUseOfDestroyedServer
<1> QED
  BY <1>4, <1>6, <1>7, <1>8, <1>9, <1>10, <1>11 DEF IInv

LEMMA TakeFunctorsKeeps ==
    ASSUME IInv, NEW k \in Loops, TakeFunctors(k) PROVE IInv'
<1>1. /\ pc[k] = "poll" /\ batch[k] = <<>>
      /\ pc' = [pc EXCEPT ![k] = "functors"]
      /\ batch' = [batch EXCEPT ![k] = tasks[k]]
      /\ tasks' = [tasks EXCEPT ![k] = <<>>]
      /\ UNCHANGED <<config, startVars, acceptVars, left, connVars, ran, quit,
                     endVars>>
  BY DEF TakeFunctors, IInv, TypeOK
<1>2. /\ batch' \in [Loops -> Seq(Functor)] /\ batch'[k] = tasks[k]
      /\ \A l \in Loops \ {k} : batch'[l] = batch[l]
      /\ tasks' \in [Loops -> Seq(Functor)] /\ tasks'[k] = <<>>
      /\ \A l \in Loops \ {k} : tasks'[l] = tasks[l]
      /\ pc'[k] = "functors" /\ \A l \in Loops \ {k} : pc'[l] = pc[l]
      /\ pc' \in [Loops -> {"main", "published", "poll", "functors", "out",
                           "gone", "undefined"}]
  BY <1>1, EmptySeq DEF IInv, TypeOK
<1>3. /\ QueuesOK(batch', tasks')
      /\ \A l \in Loops : Queued(batch', tasks', l) = Queued(batch, tasks, l)
  <2>1. Ordered(batch'[k], tasks'[k])
    BY <1>2, EmptyOrdered DEF IInv, QueuesOK
  <2> QED
    BY <1>1, <1>2, <2>1, EmptyElements DEF IInv, QueuesOK, Queued
<1>4. \A l \in Loops : \A x, d : Here(x, d, l)' <=> Here(x, d, l)
  BY <1>3 DEF Here
<1>5. FunctorsInPlace' /\ ConnsInPlace'
  <2>1. \A l \in Loops : pc[l] = "gone" => pc'[l] = "gone"
    BY <1>1, <1>2
  <2> QED
    BY <1>1, <1>4, <2>1, SameConns
<1>6. TypeOK'
  BY <1>1, <1>2 DEF IInv, TypeOK
<1>7. StartedOnce'
  BY <1>1, <1>4, LoopNumbers DEF IInv, StartedOnce, Listens
<1>8. LoopsOfPool'
  <2>1. \A l \in Loops : pc'[l] # pc[l] => pc'[l] = "functors" /\ pc[l] = "poll"
    BY <1>1, <1>2
  <2>2. \A l \in Loops : pc'[l] = "gone" => tasks'[l] = tasks[l]
    BY <1>1, <1>2
  <2>3. SubLoops \subseteq Loops /\ SubLoops' = SubLoops
    BY <1>1, SubLoopsAreLoops DEF SubLoops, IInv
  <2> QED
    BY <1>1, <2>1, <2>2, <2>3, LoopNumbers DEF IInv, LoopsOfPool, Created
<1>9. OwnNames'
  BY <1>1 DEF IInv, OwnNames, CreatedConns, Created
<1>10. ServerInPlace'
  BY <1>1, <1>2, LoopNumbers DEF IInv, ServerInPlace, NoUseOfDestroyedServer
<1> QED
  BY <1>3, <1>5, <1>6, <1>7, <1>8, <1>9, <1>10 DEF IInv

LEMMA FunctorsDoneKeeps ==
    ASSUME IInv, NEW k \in Loops, FunctorsDone(k) PROVE IInv'
<1> DEFINE ends == quit[k] /\ k # Base
<1>1. /\ pc[k] = "functors" /\ batch[k] = <<>> /\ batch' = batch
      /\ ran' = [ran EXCEPT ![k] = {}]
      /\ pc' = [pc EXCEPT ![k] = IF ~quit[k] THEN "poll"
                                 ELSE IF k = Base THEN "out" ELSE "gone"]
      /\ tasks' = IF ends THEN [tasks EXCEPT ![k] = <<>>] ELSE tasks
      /\ UNCHANGED <<config, startVars, acceptVars, left, connVars, quit, endVars>>
  BY DEF FunctorsDone
<1>2. /\ tasks' \in [Loops -> Seq(Functor)]
      /\ ends => tasks'[k] = <<>> /\ pc'[k] = "gone"
      /\ ~ends => tasks' = tasks /\ pc'[k] \in {"poll", "out"}
      /\ pc'[k] = "poll" => ~quit[k]
      /\ k # Base => pc'[k] # "out"
      /\ \A l \in Loops \ {k} : tasks'[l] = tasks[l] /\ pc'[l] = pc[l]
      /\ pc' \in [Loops -> {"main", "published", "poll", "functors", "out",
                           "gone", "undefined"}]
  BY <1>1, EmptySeq DEF IInv, TypeOK
<1>3. /\ QueuesOK(batch', tasks')
      /\ \A l \in Loops : Queued(batch', tasks', l)
                            = IF ends /\ l = k THEN {} ELSE Queued(batch, tasks, l)
  <2>1. CASE ends
    <3>1. Ordered(batch[k], tasks'[k])
      BY <1>2, <2>1, EmptyOrdered DEF IInv, QueuesOK
    <3> QED
      BY <1>1, <1>2, <2>1, <3>1, EmptyElements DEF IInv, QueuesOK, Queued
  <2>2. CASE ~ends
    BY <1>1, <1>2, <2>2 DEF IInv
  <2> QED
    BY <2>1, <2>2
<1>4. \A l \in Loops : \A x, d :
          Here(x, d, l)' <=> Here(x, d, l) /\ ~(ends /\ l = k)
  BY <1>3 DEF Here
<1>5. FunctorsInPlace'
  <2>1. \A d : Created(d)' <=> Created(d)
    BY <1>1 DEF Created
  <2> QED
    BY <1>1, <1>4, <2>1 DEF IInv, FunctorsInPlace
<1>6. TypeOK'
  <2>1. /\ ran' \in [Loops -> SUBSET Clients]
        /\ \A l \in Loops : batch'[l] # <<>> \/ ran'[l] # {}
                               => pc'[l] \in {"functors", "undefined"}
    BY <1>1, <1>2 DEF IInv, TypeOK
  <2> QED
    BY <1>1, <1>2, <2>1 DEF IInv, TypeOK
<1>7. StartedOnce'
  BY <1>1, <1>4, LoopNumbers DEF IInv, StartedOnce, Listens
<1>8. LoopsOfPool'
  <2>1. SubLoops \subseteq Loops \ {Base} /\ SubLoops' = SubLoops
    BY <1>1, SubLoopsAreLoops DEF SubLoops, IInv
  <2>2. ASSUME NEW l \in SubLoops
        PROVE  /\ pc'[l] = "gone" => quit[l] /\ tasks'[l] = <<>>
               /\ loops = 0 => pc'[l] = "main"
               /\ l < told => pc'[l] = "gone"
               /\ server = "destroyed" => loops = 0 \/ pc'[l] = "gone"
    BY <1>1, <1>2, <2>1 DEF IInv, LoopsOfPool
  <2>3. pc'[Base] = "gone" => server = "destroyed" /\ tasks'[Base] = <<>>
    BY <1>1, <1>2, LoopNumbers DEF IInv, LoopsOfPool
  <2> QED
    BY <1>1, <2>1, <2>2, <2>3 DEF IInv, LoopsOfPool, Created
<1>9. OwnNames'
  BY <1>1 DEF IInv, OwnNames, CreatedConns, Created
<1>10. ConnsInPlace'
  <2>1. ASSUME NEW d \in Clients, Created(d) PROVE ConnInPlace(d)'
    <3>1. conn[d].loop \in Loops /\ ConnInPlace(d)
      BY <2>1 DEF IInv, TypeOK, Connection, ConnsInPlace
    <3>2. \A l \in Loops : \A x \in {"connectEstablished", "connectDestoryed"} :
              Here(x, d, l) => l = conn[d].loop
      BY DEF IInv, FunctorsInPlace
    <3>3. /\ Starts(d)' <=> Starts(d) /\ ~(ends /\ conn[d].loop = k)
          /\ Ends(d)' <=> Ends(d) /\ ~(ends /\ conn[d].loop = k)
      BY <1>4, <3>1, <3>2 DEF Starts, Ends
    <3>4. Removal(d)' <=> Removal(d)
      BY <1>4, LoopNumbers DEF Removal
    <3>5. InTable(d)' <=> InTable(d)
      BY <1>1 DEF InTable
    <3>6. /\ pc[conn[d].loop] = "gone" => pc'[conn[d].loop] = "gone"
          /\ ends /\ conn[d].loop = k => pc'[conn[d].loop] = "gone"
      BY <1>1, <1>2, <3>1
    <3> QED
      BY <1>1, <3>1, <3>3, <3>4, <3>5, <3>6 DEF ConnInPlace
  <2> QED
    BY <1>1, <2>1 DEF IInv, ConnsInPlace, Created
<1>11. ServerInPlace'
  BY <1>1, <1>2, LoopNumbers DEF IInv, ServerInPlace, NoUseOfDestroyedServer
<1> QED
  BY <1>1, <1>3, <1>5, <1>6, <1>7, <1>8, <1>9, <1>10, <1>11 DEF IInv

LEMMA DestroyBaseLoopKeeps == ASSUME IInv, DestroyBaseLoop PROVE IInv'
<1>1. /\ server = "destroyed" /\ pc[Base] \in {"main", "out"}
      /\ batch[Base] = <<>> /\ ran[Base] = {} /\ UNCHANGED batchVars
      /\ pc' = [pc EXCEPT ![Base] = "gone"]
      /\ tasks' = [tasks EXCEPT ![Base] = <<>>]
      /\ UNCHANGED <<config, startVars, acceptVars, left, connVars, quit, endVars>>
  BY LoopNumbers DEF DestroyBaseLoop, IInv, TypeOK
<1>2. /\ tasks' \in [Loops -> Seq(Functor)]
      /\ tasks'[Base] = <<>> /\ pc'[Base] = "gone"
      /\ \A l \in Loops \ {Base} : tasks'[l] = tasks[l] /\ pc'[l] = pc[l]
      /\ pc' \in [Loops -> {"main", "published", "poll", "functors", "out",
                           "gone", "undefined"}]
  BY <1>1, EmptySeq, LoopNumbers DEF IInv, TypeOK
<1>3. /\ QueuesOK(batch', tasks')
      /\ \A l \in Loops : Queued(batch', tasks', l)
                            = IF l = Base THEN {} ELSE Queued(batch, tasks, l)
  <2>1. Ordered(batch[Base], tasks'[Base])
    BY <1>2, LoopNumbers, EmptyOrdered DEF IInv, QueuesOK
  <2> QED
    BY <1>1, <1>2, <2>1, EmptyElements DEF IInv, QueuesOK, Queued
<1>4. \A l \in Loops : \A x, d : Here(x, d, l)' <=> Here(x, d, l) /\ l # Base
  BY <1>3 DEF Here
<1>5. FunctorsInPlace'
  <2>1. \A d : Created(d)' <=> Created(d)
    BY <1>1 DEF Created
  <2> QED
    BY <1>1, <1>4, <2>1 DEF IInv, FunctorsInPlace
<1>6. TypeOK'
  <2>1. /\ ran' \in [Loops -> SUBSET Clients]
        /\ \A l \in Loops : batch'[l] # <<>> \/ ran'[l] # {}
                               => pc'[l] \in {"functors", "undefined"}
    BY <1>1, <1>2 DEF IInv, TypeOK
  <2> QED
    BY <1>1, <1>2, <2>1 DEF IInv, TypeOK
<1>7. StartedOnce'
  BY <1>1, <1>4, LoopNumbers DEF IInv, StartedOnce, Listens
<1>8. LoopsOfPool'
  <2>1. SubLoops \subseteq Loops \ {Base} /\ SubLoops' = SubLoops
    BY <1>1, SubLoopsAreLoops DEF SubLoops, IInv
  <2> QED
    BY <1>1, <1>2, <2>1, LoopNumbers DEF IInv, TypeOK, LoopsOfPool, Created, Base
<1>9. OwnNames'
  BY <1>1 DEF IInv, OwnNames, CreatedConns, Created
<1>10. ConnsInPlace'
  <2>1. ASSUME NEW d \in Clients, Created(d) PROVE ConnInPlace(d)'
    <3>1. conn[d].loop \in Loops /\ ConnInPlace(d)
      BY <2>1 DEF IInv, TypeOK, Connection, ConnsInPlace
    <3>2. \A l \in Loops : \A x \in {"connectEstablished", "connectDestoryed"} :
              Here(x, d, l) => l = conn[d].loop
      BY DEF IInv, FunctorsInPlace
    <3>3. /\ Starts(d)' <=> Starts(d) /\ conn[d].loop # Base
          /\ Ends(d)' <=> Ends(d) /\ conn[d].loop # Base
      BY <1>4, <3>1, <3>2 DEF Starts, Ends
    <3>4. ~Removal(d)'
      BY <1>4, LoopNumbers DEF Removal
    <3>5. InTable(d)' <=> InTable(d)
      BY <1>1 DEF InTable
    <3>6. /\ pc[conn[d].loop] = "gone" => pc'[conn[d].loop] = "gone"
          /\ conn[d].loop = Base => pc'[conn[d].loop] = "gone"
      BY <1>1, <1>2, <3>1
    <3> QED
      BY <1>1, <3>1, <3>3, <3>4, <3>5, <3>6 DEF ConnInPlace
  <2> QED
    BY <1>1, <2>1 DEF IInv, ConnsInPlace, Created
<1>11. ServerInPlace'
  BY <1>1, <1>2, LoopNumbers DEF IInv, ServerInPlace, NoUseOfDestroyedServer
<1> QED
  BY <1>1, <1>3, <1>5, <1>6, <1>7, <1>8, <1>9, <1>10, <1>11 DEF IInv

LEMMA RunDanglingKeeps == ASSUME IInv, RunDangling PROVE IInv'
<1>1. PICK fn \in {"removeConnectionInLoop", "listen"} : NextFunctor(Base, fn)
  BY DEF RunDangling
<1> DEFINE c == Head(batch[Base]).conn
<1>2. /\ server = "destroyed" /\ fault' = TRUE /\ pc[Base] = "functors"
      /\ pc' = [pc EXCEPT ![Base] = "undefined"]
      /\ UNCHANGED <<config, startVars, acceptVars, left, connVars,
                     tasks, quit, server, told, early>>
  BY <1>1 DEF RunDangling, NextFunctor
<1>3. /\ QueuesOK(batch', tasks) /\ Here(fn, c, Base)
      /\ Bound(fn, c) \in Functor
      /\ \A l \in Loops : \A x, d :
            Bound(x, d) \in Queued(batch', tasks, l)
                <=> Here(x, d, l) /\ ~(l = Base /\ x = fn /\ d = c)
  BY <1>1, LoopNumbers, NextFunctorEffect
<1>4. /\ QueuesOK(batch, tasks)'
      /\ \A l \in Loops : \A x, d :
            Here(x, d, l)' <=> Here(x, d, l) /\ ~(l = Base /\ x = fn /\ d = c)
  BY <1>2, <1>3 DEF Here
<1>5. /\ pc'[Base] = "undefined" /\ \A l \in Loops \ {Base} : pc'[l] = pc[l]
      /\ pc' \in [Loops -> {"main", "published", "poll", "functors", "out",
                           "gone", "undefined"}]
  BY <1>2, LoopNumbers DEF IInv, TypeOK
<1>6. FunctorsInPlace'
  <2>1. \A d : Created(d)' <=> Created(d)
    BY <1>2 DEF Created
  <2> QED
    BY <1>2, <1>4, <2>1 DEF IInv, FunctorsInPlace
<1>7. TypeOK'
  <2>1. /\ ran' \in [Loops -> SUBSET Clients]
        /\ \A l \in Loops : batch'[l] # <<>> \/ ran'[l] # {}
                               => pc'[l] \in {"functors", "undefined"}
    BY <1>1, <1>5, NextFunctorType, LoopNumbers
  <2> QED
    BY <1>2, <1>4, <1>5, <2>1 DEF IInv, TypeOK, QueuesOK
<1>8. StartedOnce'
  BY <1>2, <1>4, LoopNumbers DEF IInv, StartedOnce, Listens
<1>9. LoopsOfPool'
  <2>1. SubLoops \subseteq Loops \ {Base} /\ SubLoops' = SubLoops
    BY <1>2, SubLoopsAreLoops DEF SubLoops, IInv
  <2> QED
    BY <1>2, <1>5, <2>1 DEF IInv, LoopsOfPool, Created
<1>10. OwnNames'
  BY <1>2 DEF IInv, OwnNames, CreatedConns, Created
<1>11. ConnsInPlace'
  <2>1. ASSUME NEW d \in Clients, Created(d) PROVE ConnInPlace(d)'
    <3>1. conn[d].loop \in Loops /\ ConnInPlace(d)
      BY <2>1 DEF IInv, TypeOK, Connection, ConnsInPlace
    <3>2. Starts(d)' <=> Starts(d)
      BY <1>4 DEF Starts
    <3>3. Ends(d)' <=> Ends(d)
      BY <1>4 DEF Ends
    <3>4. Removal(d)' => Removal(d)
      BY <1>4, LoopNumbers DEF Removal
    <3>5. InTable(d)' <=> InTable(d)
      BY <1>2 DEF InTable
    <3>6. pc[conn[d].loop] = "gone" <=> pc'[conn[d].loop] = "gone"
      BY <1>2, <1>5, <3>1
    <3> QED
      BY <1>2, <3>1, <3>2, <3>3, <3>4, <3>5, <3>6 DEF ConnInPlace
  <2> QED
    BY <1>2, <2>1 DEF IInv, ConnsInPlace, Created
<1>12. ServerInPlace'
  <2>1. early
    BY <1>2 DEF IInv, ServerInPlace
  <2>2. CASE fn = "listen"
    <3>1. c = NoConn
      BY <1>3, <2>2, FunctorFields, BoundFields
    <3>2. caller["user"] = "done"
      BY <1>3, <2>2, <3>1 DEF IInv, StartedOnce, Listens
    <3> QED
      BY <1>2, <1>5, <2>1, <3>2 DEF IInv, ServerInPlace, NoUseOfDestroyedServer
  <2>3. CASE fn = "removeConnectionInLoop"
    <3>1. c \in Clients
      BY <1>3, <2>3, FunctorFields, BoundFields
    <3>2. Created(c) /\ conn[c].loop # Base
      BY <1>3, <2>3, <3>1, LoopNumbers DEF IInv, FunctorsInPlace
    <3>3. conn[c].loop \in Loops /\ conn[c].loop <= loops /\ loops \in Nat
      BY <3>1, <3>2, SubLoopsAreLoops DEF IInv, TypeOK, Connection, LoopsOfPool
    <3>4. loops > 0
      BY <3>2, <3>3, LoopNumbers DEF Base
    <3> QED
      BY <1>2, <1>5, <2>1, <3>4 DEF IInv, ServerInPlace, NoUseOfDestroyedServer
  <2> QED
    BY <2>2, <2>3
<1> QED
  BY <1>4, <1>6, <1>7, <1>8, <1>9, <1>10, <1>11, <1>12 DEF IInv

\* The records of connectEstablished, connectDestoryed and handleClose.
LEMMA StateField ==
    ASSUME NEW d \in Connection,
           NEW s \in {"none", "kconnecting", "kConnected", "kDisconnected"}
    PROVE  [d EXCEPT !.state = s] \in Connection
BY DEF Connection

LEMMA AddedField ==
    ASSUME NEW d \in Connection, NEW a \in BOOLEAN
    PROVE  [d EXCEPT !.added = a] \in Connection
BY DEF Connection

LEMMA CountFields ==
    ASSUME NEW d \in Connection, NEW n \in 0..1
    PROVE  /\ [d EXCEPT !.ups = n] \in Connection
           /\ [d EXCEPT !.downs = n] \in Connection
           /\ [d EXCEPT !.destroyed = n] \in Connection
BY DEF Connection

\* handleClose
Closed(d) ==
    [d EXCEPT !.state = "kDisconnected", !.added = FALSE, !.downs = @ + 1]

LEMMA EstablishedType ==
    ASSUME NEW d \in Connection, d.ups = 0
    PROVE  Established(d) \in Connection
<1> DEFINE e == [d EXCEPT !.state = "kConnected"]
<1> DEFINE f == [e EXCEPT !.added = TRUE]
<1>1. f \in Connection
  BY StateField, AddedField
<1>2. [f EXCEPT !.ups = 1] \in Connection
  <2> HIDE DEF f
  <2>1. 1 \in 0..1
    OBVIOUS
  <2> QED
    BY <1>1, <2>1, CountFields
<1>3. Established(d) = [f EXCEPT !.ups = 1]
  BY DEF Established
<1> QED
  BY <1>2, <1>3

LEMMA DestroyedType ==
    ASSUME NEW d \in Connection, d.destroyed = 0
    PROVE  Destroyed(d) \in Connection
<1> DEFINE e == [d EXCEPT !.state = IF @ = "kConnected" THEN "kDisconnected" ELSE @]
<1> DEFINE f == [e EXCEPT !.added = FALSE]
<1>1. e \in Connection
  BY StateField DEF Connection
<1>2. f \in Connection
  BY <1>1, AddedField
<1>3. [f EXCEPT !.destroyed = 1] \in Connection
  <2> HIDE DEF f
  <2>1. 1 \in 0..1
    OBVIOUS
  <2> QED
    BY <1>2, <2>1, CountFields
<1>4. Destroyed(d) = [f EXCEPT !.destroyed = 1]
  BY DEF Destroyed
<1> QED
  BY <1>3, <1>4

LEMMA ClosedType ==
    ASSUME NEW d \in Connection, d.downs = 0
    PROVE  Closed(d) \in Connection
<1> DEFINE e == [d EXCEPT !.state = "kDisconnected"]
<1> DEFINE f == [e EXCEPT !.added = FALSE]
<1>1. f \in Connection
  BY StateField, AddedField
<1>2. [f EXCEPT !.downs = 1] \in Connection
  <2> HIDE DEF f
  <2>1. 1 \in 0..1
    OBVIOUS
  <2> QED
    BY <1>1, <2>1, CountFields
<1>3. Closed(d) = [f EXCEPT !.downs = 1]
  BY DEF Closed
<1> QED
  BY <1>2, <1>3

LEMMA ConnectionSteps ==
    ASSUME NEW d \in Connection
    PROVE  /\ Established(d).state = "kConnected" /\ Established(d).added
           /\ Established(d).ups = d.ups + 1
           /\ Established(d).loop = d.loop /\ Established(d).name = d.name
           /\ Established(d).downs = d.downs
           /\ Established(d).destroyed = d.destroyed
           /\ (Destroyed(d).state = "none" <=> d.state = "none")
           /\ ~Destroyed(d).added /\ Destroyed(d).ups = d.ups
           /\ Destroyed(d).loop = d.loop /\ Destroyed(d).name = d.name
           /\ Destroyed(d).downs = d.downs
           /\ Destroyed(d).destroyed = d.destroyed + 1
           /\ Closed(d).state = "kDisconnected" /\ ~Closed(d).added
           /\ Closed(d).ups = d.ups
           /\ Closed(d).loop = d.loop /\ Closed(d).name = d.name
           /\ Closed(d).downs = d.downs + 1
           /\ Closed(d).destroyed = d.destroyed
<1>1. /\ Established(d).state = "kConnected" /\ Established(d).added
      /\ Established(d).ups = d.ups + 1
      /\ Established(d).loop = d.loop /\ Established(d).name = d.name
      /\ Established(d).downs = d.downs
      /\ Established(d).destroyed = d.destroyed
  BY DEF Connection, Established
<1>2. /\ (Destroyed(d).state = "none" <=> d.state = "none")
      /\ ~Destroyed(d).added /\ Destroyed(d).ups = d.ups
      /\ Destroyed(d).loop = d.loop /\ Destroyed(d).name = d.name
      /\ Destroyed(d).downs = d.downs
      /\ Destroyed(d).destroyed = d.destroyed + 1
  BY DEF Connection, Destroyed
<1>3. /\ Closed(d).state = "kDisconnected" /\ ~Closed(d).added
      /\ Closed(d).ups = d.ups
      /\ Closed(d).loop = d.loop /\ Closed(d).name = d.name
      /\ Closed(d).downs = d.downs + 1
      /\ Closed(d).destroyed = d.destroyed
  BY DEF Connection, Closed
<1> QED
  BY <1>1, <1>2, <1>3

\* Names and entries do not care for the rest of a connection.
LEMMA SameNames ==
    ASSUME IInv, nextConnId' = nextConnId, backlog' = backlog,
           conn' \in [Clients -> Connection],
           \A d \in Clients : /\ Created(d)' <=> Created(d)
                              /\ conn'[d].name = conn[d].name,
           DOMAIN conncetions' \subseteq DOMAIN conncetions,
           \A n \in DOMAIN conncetions' : conncetions'[n] = conncetions[n]
    PROVE  OwnNames'
<1>1. CreatedConns' = CreatedConns /\ CreatedConns \subseteq Clients
  BY DEF CreatedConns
<1>2. \A n \in DOMAIN conncetions : conncetions[n] \in Clients
  BY DEF IInv, TypeOK
<1>3. \A i \in DOMAIN backlog : backlog[i] \in Clients
  BY LenProperties, ElementOfSeq DEF IInv, TypeOK
<1>4. /\ \A i \in DOMAIN backlog' : conn'[backlog'[i]].state = "none"
      /\ \A i, j \in DOMAIN backlog' : i # j => backlog'[i] # backlog'[j]
  <2>1. ASSUME NEW i \in DOMAIN backlog PROVE conn'[backlog[i]].state = "none"
    BY <1>3, <2>1 DEF IInv, OwnNames, Created
  <2> QED
    BY <2>1 DEF IInv, OwnNames, Created
<1>5. ASSUME NEW n \in DOMAIN conncetions'
      PROVE  /\ conn'[conncetions'[n]].state # "none"
             /\ conn'[conncetions'[n]].name = n
  <2> DEFINE d == conncetions[n]
  <2>1. d \in Clients /\ conncetions'[n] = d /\ Created(d) /\ conn[d].name = n
    BY <1>2 DEF IInv, OwnNames
  <2>2. conn'[d].state # "none" /\ conn'[d].name = n
    BY <2>1 DEF Created
  <2> QED
    BY <2>1, <2>2
<1>6. \A c, d \in CreatedConns : conn'[c].name = conn'[d].name => c = d
  BY <1>1 DEF IInv, OwnNames
<1>7. \A c \in CreatedConns : conn'[c].name \in 1..nextConnId - 1
  BY <1>1 DEF IInv, OwnNames
<1>8. nextConnId = Cardinality(CreatedConns) + 1
  BY DEF IInv, OwnNames
<1> QED
  BY <1>1, <1>4, <1>5, <1>6, <1>7, <1>8 DEF OwnNames, Created

\* Where the loops and connections of the pool are does not change.
LEMMA SameLoops ==
    ASSUME IInv, UNCHANGED <<numThreads, loops, next, server, told, pc, quit>>,
           \A d \in Clients : /\ Created(d)' <=> Created(d)
                              /\ conn'[d].loop = conn[d].loop,
           \A l \in Loops : pc[l] = "gone" => tasks'[l] = tasks[l]
    PROVE  LoopsOfPool'
<1>1. SubLoops \subseteq Loops /\ SubLoops' = SubLoops
  BY SubLoopsAreLoops DEF SubLoops, IInv
<1> QED
  BY <1>1, LoopNumbers DEF IInv, LoopsOfPool

LEMMA RunConnectEstablishedKeeps ==
    ASSUME IInv, NEW k \in Loops, RunConnectEstablished(k) PROVE IInv'
<1>0. PICK c : c = Head(batch[k]).conn
  OBVIOUS
<1>1. /\ NextFunctor(k, "connectEstablished") /\ pc[k] = "functors"
      /\ conn' = [conn EXCEPT ![c] = Established(@)]
      /\ UNCHANGED <<config, startVars, acceptVars, left, nextConnId,
                     conncetions, pc, tasks, quit, endVars>>
  BY <1>0 DEF RunConnectEstablished, NextFunctor
<1>2. /\ QueuesOK(batch', tasks) /\ Here("connectEstablished", c, k)
      /\ Bound("connectEstablished", c) \in Functor
      /\ \A l \in Loops : \A x, d :
            Bound(x, d) \in Queued(batch', tasks, l)
                <=> Here(x, d, l)
                        /\ ~(l = k /\ x = "connectEstablished" /\ d = c)
  BY <1>0, <1>1, NextFunctorEffect
<1>3. /\ QueuesOK(batch, tasks)'
      /\ \A l \in Loops : \A x, d :
            Here(x, d, l)' <=>
                Here(x, d, l) /\ ~(l = k /\ x = "connectEstablished" /\ d = c)
  BY <1>1, <1>2 DEF Here
<1>4. c \in Clients
  BY <1>2, FunctorFields, BoundFields
<1>5. /\ Created(c) /\ conn[c].loop = k /\ k # Base /\ Starts(c)
      /\ conn[c] \in Connection /\ ConnInPlace(c)
  BY <1>2, <1>4 DEF IInv, TypeOK, FunctorsInPlace, Starts, ConnsInPlace
<1>6. /\ conn[c].ups = 0 /\ conn[c].downs = 0 /\ conn[c].destroyed = 0
      /\ ~Removal(c)
  BY <1>5 DEF ConnInPlace
<1>7. /\ conn'[c] = Established(conn[c]) /\ conn'[c] \in Connection
      /\ \A d \in Clients \ {c} : conn'[d] = conn[d]
      /\ conn' \in [Clients -> Connection]
  BY <1>1, <1>4, <1>5, <1>6, EstablishedType DEF IInv, TypeOK
<1>8. /\ conn'[c].state = "kConnected" /\ conn'[c].added /\ conn'[c].ups = 1
      /\ conn'[c].loop = k /\ conn'[c].name = conn[c].name
      /\ conn'[c].downs = 0 /\ conn'[c].destroyed = 0
  BY <1>5, <1>6, <1>7, ConnectionSteps
<1>9. \A d \in Clients : /\ Created(d)' <=> Created(d)
                         /\ conn'[d].loop = conn[d].loop
                         /\ conn'[d].name = conn[d].name
  BY <1>5, <1>7, <1>8 DEF Created
<1>10. FunctorsInPlace'
  BY <1>3, <1>9 DEF IInv, FunctorsInPlace
<1>11. TypeOK'
  <2>1. /\ ran' \in [Loops -> SUBSET Clients]
        /\ \A l \in Loops : batch'[l] # <<>> \/ ran'[l] # {}
                               => pc[l] \in {"functors", "undefined"}
    BY <1>1, NextFunctorType, LoopNumbers
  <2> QED
    BY <1>1, <1>3, <1>7, <2>1 DEF IInv, TypeOK, QueuesOK
<1>12. StartedOnce'
  BY <1>1, <1>3, LoopNumbers DEF IInv, StartedOnce, Listens
<1>13. LoopsOfPool' /\ OwnNames'
  BY <1>1, <1>7, <1>9, SameLoops, SameNames
<1>14. ConnsInPlace'
  <2>1. \A d : InTable(d)' <=> InTable(d)
    BY <1>1 DEF InTable
  <2>2. \A d \in Clients : /\ Ends(d)' <=> Ends(d)
                           /\ Removal(d)' <=> Removal(d)
    BY <1>3, LoopNumbers DEF Ends, Removal
  <2>3. \A d \in Clients \ {c} : Starts(d)' <=> Starts(d)
    BY <1>3 DEF Starts
  <2>4. ~Starts(c)'
    BY <1>3, <1>4, <1>5 DEF Starts, IInv, FunctorsInPlace
  <2>5. ConnInPlace(c)'
    BY <1>1, <1>4, <1>5, <1>6, <1>8, <2>1, <2>2, <2>4 DEF ConnInPlace
  <2>6. ASSUME NEW d \in Clients \ {c}
        PROVE  /\ Created(d) => ConnInPlace(d)'
               /\ ~Created(d) => conn'[d] = NoConnection
    BY <1>1, <1>7, <2>1, <2>2, <2>3, OtherConn
  <2> QED
    BY <1>5, <1>9, <2>5, <2>6 DEF ConnsInPlace
<1>15. ServerInPlace'
  BY <1>1 DEF IInv, ServerInPlace, NoUseOfDestroyedServer
<1> QED
  BY <1>3, <1>10, <1>11, <1>12, <1>13, <1>14, <1>15 DEF IInv

LEMMA RunConnectDestoryedKeeps ==
    ASSUME IInv, NEW k \in Loops, RunConnectDestoryed(k) PROVE IInv'
<1>0. PICK c : c = Head(batch[k]).conn
  OBVIOUS
<1>1. /\ NextFunctor(k, "connectDestoryed") /\ pc[k] = "functors"
      /\ conn' = [conn EXCEPT ![c] = Destroyed(@)]
      /\ UNCHANGED <<config, startVars, acceptVars, left, nextConnId,
                     conncetions, pc, tasks, quit, endVars>>
  BY <1>0 DEF RunConnectDestoryed, NextFunctor
<1>2. /\ QueuesOK(batch', tasks) /\ Here("connectDestoryed", c, k)
      /\ Bound("connectDestoryed", c) \in Functor
      /\ Bound("connectEstablished", c) \notin Queued(batch', tasks, k)
      /\ \A l \in Loops : \A x, d :
            Bound(x, d) \in Queued(batch', tasks, l)
                <=> Here(x, d, l)
                        /\ ~(l = k /\ x = "connectDestoryed" /\ d = c)
  BY <1>0, <1>1, NextFunctorEffect
<1>3. /\ QueuesOK(batch, tasks)' /\ ~Here("connectEstablished", c, k)'
      /\ \A l \in Loops : \A x, d :
            Here(x, d, l)' <=>
                Here(x, d, l) /\ ~(l = k /\ x = "connectDestoryed" /\ d = c)
  BY <1>1, <1>2 DEF Here
<1>4. c \in Clients
  BY <1>2, FunctorFields, BoundFields
<1>5. /\ Created(c) /\ conn[c].loop = k /\ Ends(c)
      /\ conn[c] \in Connection /\ ConnInPlace(c)
  BY <1>2, <1>4 DEF IInv, TypeOK, FunctorsInPlace, Ends, ConnsInPlace
<1>6. ~Starts(c) /\ ~Starts(c)'
  <2>1. ~Here("connectEstablished", c, k)
    BY <1>3
  <2> QED
    BY <1>3, <1>4, <1>5, <2>1 DEF Starts, IInv, FunctorsInPlace
<1>7. /\ conn[c].ups = 1 /\ conn[c].destroyed = 0 /\ ~InTable(c)
      /\ server = "alive" => conn[c].downs = 1 /\ ~Removal(c)
  <2>1. ~(conn[c].destroyed > 0) /\ conn[c].destroyed \in 0..1
    BY <1>5 DEF ConnInPlace, Connection
  <2>2. conn[c].destroyed = 0
    BY <2>1
  <2> QED
    BY <1>1, <1>5, <1>6, <2>2 DEF ConnInPlace
<1>8. /\ conn'[c] = Destroyed(conn[c]) /\ conn'[c] \in Connection
      /\ \A d \in Clients \ {c} : conn'[d] = conn[d]
      /\ conn' \in [Clients -> Connection]
  BY <1>1, <1>4, <1>5, <1>7, DestroyedType DEF IInv, TypeOK
<1>9. /\ conn'[c].state # "none" /\ ~conn'[c].added /\ conn'[c].ups = 1
      /\ conn'[c].loop = k /\ conn'[c].name = conn[c].name
      /\ conn'[c].downs = conn[c].downs /\ conn'[c].destroyed = 1
  BY <1>5, <1>7, <1>8, ConnectionSteps DEF Created
<1>10. \A d \in Clients : /\ Created(d)' <=> Created(d)
                          /\ conn'[d].loop = conn[d].loop
                          /\ conn'[d].name = conn[d].name
  BY <1>5, <1>8, <1>9 DEF Created
<1>11. FunctorsInPlace'
  BY <1>3, <1>10 DEF IInv, FunctorsInPlace
<1>12. TypeOK'
  <2>1. /\ ran' \in [Loops -> SUBSET Clients]
        /\ \A l \in Loops : batch'[l] # <<>> \/ ran'[l] # {}
                               => pc[l] \in {"functors", "undefined"}
    BY <1>1, NextFunctorType, LoopNumbers
  <2> QED
    BY <1>1, <1>3, <1>8, <2>1 DEF IInv, TypeOK, QueuesOK
<1>13. StartedOnce'
  BY <1>1, <1>3, LoopNumbers DEF IInv, StartedOnce, Listens
<1>14. LoopsOfPool' /\ OwnNames'
  BY <1>1, <1>8, <1>10, SameLoops, SameNames
<1>15. ConnsInPlace'
  <2>1. \A d : InTable(d)' <=> InTable(d)
    BY <1>1 DEF InTable
  <2>2. \A d \in Clients : /\ Starts(d)' <=> Starts(d)
                           /\ Removal(d)' <=> Removal(d)
    BY <1>3, LoopNumbers DEF Starts, Removal
  <2>3. \A d \in Clients \ {c} : Ends(d)' <=> Ends(d)
    BY <1>3 DEF Ends
  <2>4. ~Ends(c)'
    BY <1>3, <1>4, <1>5 DEF Ends, IInv, FunctorsInPlace
  <2>5. ConnInPlace(c)'
    BY <1>1, <1>4, <1>5, <1>6, <1>7, <1>9, <2>1, <2>2, <2>4 DEF ConnInPlace
  <2>6. ASSUME NEW d \in Clients \ {c}
        PROVE  /\ Created(d) => ConnInPlace(d)'
               /\ ~Created(d) => conn'[d] = NoConnection
    BY <1>1, <1>8, <2>1, <2>2, <2>3, OtherConn
  <2> QED
    BY <1>5, <1>10, <2>5, <2>6 DEF ConnsInPlace
<1>16. ServerInPlace'
  BY <1>1 DEF IInv, ServerInPlace, NoUseOfDestroyedServer
<1> QED
  BY <1>3, <1>11, <1>12, <1>13, <1>14, <1>15, <1>16 DEF IInv

\* No loop ends before ~TcpServer quits those of the pool, and is done.
LEMMA GoneLate ==
    ASSUME IInv, server \in {"alive", "conns"}, NEW c \in Clients, Created(c)
    PROVE  pc[conn[c].loop] # "gone" /\ pc[Base] # "gone"
<1>1. /\ conn[c].loop \in Loops /\ conn[c].loop <= loops /\ loops = numThreads
      /\ numThreads \in Nat
  BY SubLoopsAreLoops DEF IInv, TypeOK, Connection, LoopsOfPool
<1>2. conn[c].loop = Base \/ conn[c].loop \in SubLoops
  BY <1>1, LoopNumbers DEF SubLoops, Base
<1> QED
  BY <1>2 DEF IInv, LoopsOfPool

LEMMA DestroyItemKeeps == ASSUME IInv, DestroyItem PROVE IInv'
<1>1. PICK n \in DOMAIN conncetions :
          /\ DestroyConnection(conncetions[n])
          /\ conncetions' = [m \in DOMAIN conncetions \ {n} |-> conncetions[m]]
  BY DEF DestroyItem
<1>2. PICK c : c = conncetions[n]
  OBVIOUS
<1>3. /\ server = "conns" /\ UNCHANGED batchVars
      /\ UNCHANGED <<config, startVars, acceptVars, left, nextConnId,
                     pc, quit, endVars>>
  BY DEF DestroyItem
<1>4. /\ c \in Clients /\ InTable(c) /\ Created(c) /\ conn[c].name = n
      /\ ConnInPlace(c) /\ conn[c] \in Connection
  BY <1>2 DEF IInv, TypeOK, OwnNames, ConnsInPlace, InTable
<1>5. /\ \A d \in Clients : InTable(d)' <=> InTable(d) /\ d # c
      /\ DOMAIN conncetions' \subseteq DOMAIN conncetions
      /\ \A m \in DOMAIN conncetions' : conncetions'[m] = conncetions[m]
  BY <1>1, <1>4, EraseEntry
<1>6. conn[c].destroyed = 0 /\ ~Ends(c)
  <2>1. ~(conn[c].destroyed > 0) /\ conn[c].destroyed \in 0..1 /\ ~Ends(c)
    BY <1>4 DEF ConnInPlace, Connection
  <2> QED
    BY <2>1
<1>7. pc[conn[c].loop] # "gone" /\ pc[Base] # "gone" /\ conn[c].loop \in Loops
  BY <1>3, <1>4, GoneLate DEF Connection
<1>8. SubLoops' = SubLoops /\ \A l \in SubLoops : pc[l] # "gone"
  BY <1>3 DEF IInv, LoopsOfPool, SubLoops
<1>9. ServerInPlace'
  BY <1>3 DEF IInv, ServerInPlace, NoUseOfDestroyedServer
<1>10. CASE conn[c].loop = Base
  <2>1. conn' = [conn EXCEPT ![c] = Destroyed(@)] /\ tasks' = tasks
    BY <1>1, <1>2, <1>10 DEF DestroyConnection
  <2>2. \A l \in Loops : \A x, d : Here(x, d, l)' <=> Here(x, d, l)
    BY <1>3, <2>1 DEF Here
  <2>3. /\ conn'[c] = Destroyed(conn[c]) /\ conn'[c] \in Connection
        /\ \A d \in Clients \ {c} : conn'[d] = conn[d]
        /\ conn' \in [Clients -> Connection]
    BY <1>4, <1>6, <2>1, DestroyedType DEF IInv, TypeOK
  <2>4. /\ conn'[c].state # "none" /\ ~conn'[c].added
        /\ conn'[c].ups = conn[c].ups
        /\ conn'[c].loop = Base /\ conn'[c].name = conn[c].name
        /\ conn'[c].downs = conn[c].downs /\ conn'[c].destroyed = 1
    BY <1>4, <1>6, <1>10, <2>3, ConnectionSteps DEF Created
  <2>5. \A d \in Clients : /\ Created(d)' <=> Created(d)
                           /\ conn'[d].loop = conn[d].loop
                           /\ conn'[d].name = conn[d].name
    BY <1>4, <1>10, <2>3, <2>4 DEF Created
  <2>6. \A d \in Clients : /\ Starts(d)' <=> Starts(d)
                           /\ Ends(d)' <=> Ends(d)
    BY <2>2 DEF Starts, Ends
  <2>7. \A d \in Clients : Removal(d)' <=> Removal(d)
    BY <2>2, LoopNumbers DEF Removal
  <2>8. ~Starts(c)
    BY <1>4, <1>10 DEF Starts, IInv, FunctorsInPlace
  <2>9. ConnInPlace(c)'
    BY <1>3, <1>4, <1>5, <1>6, <1>7, <2>4, <2>6, <2>7, <2>8 DEF ConnInPlace
  <2>10. ASSUME NEW d \in Clients \ {c}
         PROVE  /\ Created(d) => ConnInPlace(d)'
                /\ ~Created(d) => conn'[d] = NoConnection
    BY <1>3, <1>5, <2>3, <2>6, <2>7, OtherConn
  <2>11. ConnsInPlace'
    BY <1>4, <2>5, <2>9, <2>10 DEF ConnsInPlace
  <2>12. TypeOK'
    BY <1>3, <1>5, <2>1, <2>3 DEF IInv, TypeOK
  <2>13. FunctorsInPlace'
    BY <2>2, <2>5 DEF IInv, FunctorsInPlace
  <2>14. StartedOnce'
    BY <1>3, <2>2, LoopNumbers DEF IInv, StartedOnce, Listens
  <2>15. OwnNames'
    BY <1>3, <1>5, <2>3, <2>5, SameNames
  <2>16. LoopsOfPool'
    BY <1>3, <2>1, <2>5, SameLoops
  <2>17. QueuesOK(batch, tasks)'
    BY <1>3, <2>1 DEF IInv
  <2> QED
    BY <1>9, <2>11, <2>12, <2>13, <2>14, <2>15, <2>16, <2>17 DEF IInv
<1>11. CASE conn[c].loop # Base
  <2>1. conn' = conn /\ QueueIn(conn[c].loop, Bound("connectDestoryed", c))
    BY <1>1, <1>2, <1>11 DEF DestroyConnection
  <2>2. /\ QueuesOK(batch, tasks)'
        /\ \A l \in Loops : \A x, d :
              Here(x, d, l)' <=>
                  \/ Here(x, d, l)
                  \/ l = conn[c].loop /\ x = "connectDestoryed" /\ d = c
    <3>1. Bound("connectDestoryed", c) \in Functor
      BY <1>4 DEF Bound, Functor
    <3>2. ~Here("connectDestoryed", c, conn[c].loop)
      BY <1>6, <1>7 DEF Ends
    <3> QED
      BY <1>3, <1>7, <2>1, <3>1, <3>2, QueueInEffect
  <2>3. \A d \in Clients : /\ Created(d)' <=> Created(d)
                           /\ conn'[d] = conn[d]
    BY <2>1 DEF Created
  <2>4. \A d \in Clients : Starts(d)' <=> Starts(d)
    BY <2>2 DEF Starts
  <2>5. \A d \in Clients : Removal(d)' <=> Removal(d)
    BY <2>2, LoopNumbers DEF Removal
  <2>6. Ends(c)' /\ \A d \in Clients \ {c} : Ends(d)' <=> Ends(d)
    BY <1>7, <2>2 DEF Ends
  <2>7. ConnInPlace(c)'
    BY <1>3, <1>4, <1>5, <1>6, <1>11, <2>1, <2>4, <2>5, <2>6 DEF ConnInPlace
  <2>8. ASSUME NEW d \in Clients \ {c}
        PROVE  /\ Created(d) => ConnInPlace(d)'
               /\ ~Created(d) => conn'[d] = NoConnection
    BY <1>3, <1>5, <2>3, <2>4, <2>5, <2>6, OtherConn
  <2>9. ConnsInPlace'
    BY <1>4, <2>3, <2>7, <2>8 DEF ConnsInPlace
  <2>10. TypeOK'
    BY <1>3, <1>5, <2>1, <2>2 DEF IInv, TypeOK, QueuesOK
  <2>11. FunctorsInPlace'
    BY <1>4, <1>11, <2>1, <2>2, <2>3 DEF IInv, FunctorsInPlace
  <2>12. StartedOnce'
    BY <1>3, <2>2, LoopNumbers DEF IInv, StartedOnce, Listens
  <2>13. OwnNames'
    BY <1>3, <1>5, <2>1, <2>3, SameNames DEF IInv, TypeOK
  <2>14. LoopsOfPool'
    BY <1>3, <1>7, <1>8, <2>1, <2>3 DEF IInv, LoopsOfPool
  <2> QED
    BY <1>9, <2>2, <2>9, <2>10, <2>11, <2>12, <2>13, <2>14 DEF IInv
<1> QED
  BY <1>10, <1>11

LEMMA HandleCloseKeeps ==
    ASSUME IInv, NEW k \in Loops, NEW c \in Clients, HandleClose(k, c)
    PROVE  IInv'
<1>1. /\ pc[k] = "poll" /\ (k = Base => BaseIdle)
      /\ conn[c].loop = k /\ conn[c].added /\ UNCHANGED batchVars
      /\ conn' = [conn EXCEPT ![c] = Closed(@)]
      /\ RemoveConnection(c)
      /\ fault' = (fault \/ server = "destroyed")
      /\ UNCHANGED <<config, startVars, acceptVars, left, nextConnId,
                     pc, quit, server, told, early>>
  BY DEF HandleClose, Closed
<1>2. Created(c) /\ ConnInPlace(c) /\ conn[c] \in Connection
  BY <1>1 DEF IInv, TypeOK, ConnsInPlace, NoConnection
<1>3. /\ conn[c].ups = 1 /\ conn[c].downs = 0 /\ conn[c].destroyed = 0
      /\ ~Removal(c) /\ ~Starts(c)
      /\ k = Base => InTable(c)
      /\ InTable(c) \/ Ends(c)
      /\ server = "alive" => InTable(c)
  BY <1>1, <1>2 DEF ConnInPlace
<1>4. server # "destroyed" /\ fault' = fault
  <2>1. CASE k = Base
    BY <1>1, <1>3, <2>1 DEF InTable, IInv, ServerInPlace, BaseIdle, TypeOK
  <2>2. CASE k # Base
    <3>1. k \in SubLoops /\ loops # 0
      BY <1>1, <1>2, <2>2, LoopNumbers, SubLoopsAreLoops
         DEF IInv, LoopsOfPool, SubLoops, Base
    <3> QED
      BY <1>1, <3>1 DEF IInv, LoopsOfPool, TypeOK
  <2> QED
    BY <2>1, <2>2
<1>5. /\ conn'[c] = Closed(conn[c]) /\ conn'[c] \in Connection
      /\ \A d \in Clients \ {c} : conn'[d] = conn[d]
      /\ conn' \in [Clients -> Connection]
  BY <1>1, <1>2, <1>3, ClosedType DEF IInv, TypeOK
<1>6. /\ conn'[c].state = "kDisconnected" /\ ~conn'[c].added
      /\ conn'[c].ups = 1 /\ conn'[c].loop = k /\ conn'[c].name = conn[c].name
      /\ conn'[c].downs = 1 /\ conn'[c].destroyed = 0
  BY <1>1, <1>2, <1>3, <1>5, ConnectionSteps
<1>7. \A d \in Clients : /\ Created(d)' <=> Created(d)
                         /\ conn'[d].loop = conn[d].loop
                         /\ conn'[d].name = conn[d].name
  BY <1>1, <1>2, <1>5, <1>6 DEF Created
<1>8. pc[Base] # "gone"
  BY <1>4 DEF IInv, LoopsOfPool
<1>9. ServerInPlace' \/ DOMAIN conncetions' # DOMAIN conncetions
  BY <1>1, <1>4 DEF IInv, ServerInPlace, NoUseOfDestroyedServer
<1>10. CASE k = Base
  <2>1. /\ conncetions' = [n \in DOMAIN conncetions \ {conn[c].name} |->
                              conncetions[n]]
        /\ QueueIn(Base, Bound("connectDestoryed", c))
        /\ server = "alive"
    BY <1>1, <1>4, <1>10 DEF RemoveConnection, RemoveConnectionInLoop, BaseIdle
  <2>2. /\ \A d \in Clients : InTable(d)' <=> InTable(d) /\ d # c
        /\ DOMAIN conncetions' \subseteq DOMAIN conncetions
        /\ \A m \in DOMAIN conncetions' : conncetions'[m] = conncetions[m]
    BY <1>2, <2>1, EraseEntry
  <2>3. ~Ends(c) /\ InTable(c)
    BY <1>2, <1>3, <1>10 DEF ConnInPlace
  <2>4. /\ QueuesOK(batch, tasks)'
        /\ \A l \in Loops : \A x, d :
              Here(x, d, l)' <=>
                  Here(x, d, l) \/ (l = Base /\ x = "connectDestoryed" /\ d = c)
    <3>1. Bound("connectDestoryed", c) \in Functor
      BY DEF Bound, Functor
    <3>2. ~Here("connectDestoryed", c, Base)
      BY <2>3, LoopNumbers DEF Ends
    <3> QED
      BY <1>1, <2>1, <3>1, <3>2, LoopNumbers, QueueInEffect
  <2>5. \A d \in Clients : Starts(d)' <=> Starts(d)
    BY <2>4 DEF Starts
  <2>6. \A d \in Clients : Removal(d)' <=> Removal(d)
    BY <2>4, LoopNumbers DEF Removal
  <2>7. Ends(c)' /\ \A d \in Clients \ {c} : Ends(d)' <=> Ends(d)
    BY <2>4, LoopNumbers DEF Ends
  <2>8. ConnInPlace(c)'
    BY <1>1, <1>3, <1>6, <2>1, <2>2, <2>5, <2>6, <2>7 DEF ConnInPlace
  <2>9. ASSUME NEW d \in Clients \ {c}
        PROVE  /\ Created(d) => ConnInPlace(d)'
               /\ ~Created(d) => conn'[d] = NoConnection
    BY <1>1, <1>5, <2>2, <2>5, <2>6, <2>7, OtherConn
  <2>10. ConnsInPlace'
    BY <1>2, <1>7, <2>8, <2>9 DEF ConnsInPlace
  <2>11. TypeOK'
    BY <1>1, <1>4, <1>5, <2>2, <2>4 DEF IInv, TypeOK, QueuesOK
  <2>12. FunctorsInPlace'
    BY <1>1, <1>2, <1>7, <1>10, <2>4 DEF IInv, FunctorsInPlace
  <2>13. StartedOnce'
    BY <1>1, <2>4, LoopNumbers DEF IInv, StartedOnce, Listens
  <2>14. OwnNames'
    BY <1>1, <1>5, <1>7, <2>2, SameNames
  <2>15. LoopsOfPool'
    <3>1. \A l \in Loops \ {Base} : tasks'[l] = tasks[l]
      BY <2>1, LoopNumbers DEF QueueIn, IInv, TypeOK
    <3> QED
      BY <1>1, <1>7, <1>8, <3>1, SameLoops
  <2>16. ServerInPlace'
    BY <1>1, <1>4, <2>1 DEF IInv, ServerInPlace, NoUseOfDestroyedServer
  <2> QED
    BY <2>4, <2>10, <2>11, <2>12, <2>13, <2>14, <2>15, <2>16 DEF IInv
<1>11. CASE k # Base
  <2>1. /\ conncetions' = conncetions
        /\ QueueIn(Base, Bound("removeConnectionInLoop", c))
    BY <1>1, <1>11 DEF RemoveConnection
  <2>2. /\ QueuesOK(batch, tasks)'
        /\ \A l \in Loops : \A x, d :
              Here(x, d, l)' <=>
                  \/ Here(x, d, l)
                  \/ l = Base /\ x = "removeConnectionInLoop" /\ d = c
    <3>1. Bound("removeConnectionInLoop", c) \in Functor
      BY DEF Bound, Functor
    <3>2. ~Here("removeConnectionInLoop", c, Base)
      BY <1>3 DEF Removal
    <3> QED
      BY <1>1, <2>1, <3>1, <3>2, LoopNumbers, QueueInEffect
  <2>3. \A d \in Clients : /\ Starts(d)' <=> Starts(d)
                           /\ Ends(d)' <=> Ends(d)
    BY <2>2 DEF Starts, Ends
  <2>4. Removal(c)' /\ \A d \in Clients \ {c} : Removal(d)' <=> Removal(d)
    BY <2>2, LoopNumbers DEF Removal
  <2>5. \A d : InTable(d)' <=> InTable(d)
    BY <2>1 DEF InTable
  <2>6. ConnInPlace(c)'
    <3>1. ~Ends(c) \/ server # "alive"
      BY <1>2, <1>3 DEF ConnInPlace
    <3> QED
      BY <1>1, <1>2, <1>3, <1>6, <1>11, <2>3, <2>4, <2>5, <3>1 DEF ConnInPlace
  <2>7. ASSUME NEW d \in Clients \ {c}
        PROVE  /\ Created(d) => ConnInPlace(d)'
               /\ ~Created(d) => conn'[d] = NoConnection
    BY <1>1, <1>5, <2>3, <2>4, <2>5, OtherConn
  <2>8. ConnsInPlace'
    BY <1>2, <1>7, <2>6, <2>7 DEF ConnsInPlace
  <2>9. TypeOK'
    BY <1>1, <1>4, <1>5, <2>1, <2>2 DEF IInv, TypeOK, QueuesOK
  <2>10. FunctorsInPlace'
    BY <1>1, <1>2, <1>7, <1>11, <2>2 DEF IInv, FunctorsInPlace
  <2>11. StartedOnce'
    BY <1>1, <2>2, LoopNumbers DEF IInv, StartedOnce, Listens
  <2>12. OwnNames'
    BY <1>1, <1>5, <1>7, <2>1, SameNames
  <2>13. LoopsOfPool'
    <3>1. \A l \in Loops \ {Base} : tasks'[l] = tasks[l]
      BY <2>1, LoopNumbers DEF QueueIn, IInv, TypeOK
    <3> QED
      BY <1>1, <1>7, <1>8, <3>1, SameLoops
  <2> QED
    BY <1>9, <2>1, <2>2, <2>8, <2>9, <2>10, <2>11, <2>12, <2>13 DEF IInv
<1> QED
  BY <1>10, <1>11

LEMMA RunRemoveKeeps == ASSUME IInv, RunRemoveConnectionInLoop PROVE IInv'
<1>0. PICK c : c = Head(batch[Base]).conn
  OBVIOUS
<1>1. /\ NextFunctor(Base, "removeConnectionInLoop") /\ server = "alive"
      /\ conncetions' = [n \in DOMAIN conncetions \ {conn[c].name} |->
                            conncetions[n]]
      /\ QueueIn(conn[c].loop, Bound("connectDestoryed", c))
      /\ UNCHANGED <<config, startVars, acceptVars, left, conn, nextConnId,
                     pc, quit, endVars>>
  BY <1>0 DEF RunRemoveConnectionInLoop, RemoveConnectionInLoop
<1>2. /\ QueuesOK(batch', tasks) /\ Here("removeConnectionInLoop", c, Base)
      /\ Bound("removeConnectionInLoop", c) \in Functor
      /\ \A l \in Loops : \A x, d :
            Bound(x, d) \in Queued(batch', tasks, l)
                <=> Here(x, d, l)
                        /\ ~(l = Base /\ x = "removeConnectionInLoop" /\ d = c)
  BY <1>0, <1>1, LoopNumbers, NextFunctorEffect
<1>3. c \in Clients
  BY <1>2, FunctorFields, BoundFields
<1>4. /\ Created(c) /\ conn[c].loop # Base /\ Removal(c) /\ ConnInPlace(c)
      /\ conn[c].loop \in Loops
  BY <1>2, <1>3, LoopNumbers
     DEF IInv, TypeOK, Connection, FunctorsInPlace, Removal, ConnsInPlace
<1>5. /\ InTable(c) /\ ~Ends(c) /\ conn[c].downs = 1 /\ ~Starts(c)
      /\ ~conn[c].added /\ ~(conn[c].destroyed > 0)
  BY <1>1, <1>4 DEF ConnInPlace
<1>6. /\ \A d \in Clients : InTable(d)' <=> InTable(d) /\ d # c
      /\ DOMAIN conncetions' \subseteq DOMAIN conncetions
      /\ \A m \in DOMAIN conncetions' : conncetions'[m] = conncetions[m]
  BY <1>1, <1>3, <1>4, EraseEntry
<1>7. PICK k \in Loops : k = conn[c].loop
  BY <1>4
<1>8. /\ QueuesOK(batch', tasks')
      /\ \A l \in Loops :
            Queued(batch', tasks', l) = IF l = k
                THEN Queued(batch', tasks, l) \cup {Bound("connectDestoryed", c)}
                ELSE Queued(batch', tasks, l)
  <2>1. /\ tasks' \in [Loops -> Seq(Functor)]
        /\ tasks'[k] = Append(tasks[k], Bound("connectDestoryed", c))
        /\ \A l \in Loops \ {k} : tasks'[l] = tasks[l]
        /\ Bound("connectDestoryed", c) \in Functor
    <3>1. Bound("connectDestoryed", c) \in Functor
      BY <1>3 DEF Bound, Functor
    <3> QED
      BY <1>1, <1>7, <3>1, AppendElements DEF IInv, QueuesOK, QueueIn
  <2>2. ASSUME NEW g \in Queued(batch', tasks, k)
        PROVE  MayPrecede(g, Bound("connectDestoryed", c))
    <3>1. g \in Functor /\ g = Bound(g.fn, g.conn)
      BY <1>2, QueuedAreFunctors, FunctorFields
    <3>2. Here(g.fn, g.conn, k)
      BY <1>2, <3>1
    <3>3. g # Bound("connectDestoryed", c)
      BY <1>5, <3>2, BoundIsInjective, <3>1 DEF Ends
    <3>4. \A d : Bound("connectDestoryed", c) # Bound("connectEstablished", d)
      BY BoundIsInjective
    <3> QED
      BY <3>3, <3>4 DEF MayPrecede
  <2> QED
    BY <1>2, <2>1, <2>2, Push
<1>9. /\ QueuesOK(batch, tasks)'
      /\ \A l \in Loops : \A x, d :
            Here(x, d, l)' <=>
                \/ /\ Here(x, d, l)
                   /\ ~(l = Base /\ x = "removeConnectionInLoop" /\ d = c)
                \/ l = k /\ x = "connectDestoryed" /\ d = c
  <2>1. ASSUME NEW l \in Loops, NEW x, NEW d
        PROVE  Here(x, d, l)' <=>
                  \/ Bound(x, d) \in Queued(batch', tasks, l)
                  \/ l = k /\ x = "connectDestoryed" /\ d = c
    BY <1>8, BoundIsInjective DEF Here
  <2> QED
    BY <1>2, <1>8, <2>1
<1>10. \A d : Created(d)' <=> Created(d)
  BY <1>1 DEF Created
<1>11. TypeOK'
  <2>1. /\ ran' \in [Loops -> SUBSET Clients]
        /\ \A l \in Loops : batch'[l] # <<>> \/ ran'[l] # {}
                               => pc[l] \in {"functors", "undefined"}
    BY <1>1, NextFunctorType, LoopNumbers
  <2> QED
    BY <1>1, <1>6, <1>9, <2>1 DEF IInv, TypeOK, QueuesOK
<1>12. FunctorsInPlace'
  BY <1>1, <1>4, <1>7, <1>9, <1>10 DEF IInv, FunctorsInPlace
<1>13. StartedOnce'
  BY <1>1, <1>9, LoopNumbers DEF IInv, StartedOnce, Listens
<1>14. OwnNames'
  BY <1>1, <1>6, <1>10, SameNames DEF IInv, TypeOK
<1>15. LoopsOfPool'
  <2>1. SubLoops' = SubLoops
    BY <1>1 DEF SubLoops
  <2>2. pc[Base] # "gone" /\ \A l \in SubLoops : pc[l] # "gone"
    BY <1>1 DEF IInv, LoopsOfPool
  <2> QED
    BY <1>1, <1>10, <2>1, <2>2 DEF IInv, LoopsOfPool
<1>16. ConnsInPlace'
  <2>1. \A d \in Clients : Starts(d)' <=> Starts(d)
    BY <1>9 DEF Starts
  <2>2. ~Removal(c)' /\ \A d \in Clients \ {c} : Removal(d)' <=> Removal(d)
    BY <1>9, LoopNumbers DEF Removal
  <2>3. Ends(c)' /\ \A d \in Clients \ {c} : Ends(d)' <=> Ends(d)
    BY <1>9 DEF Ends
  <2>4. ConnInPlace(c)'
    BY <1>1, <1>3, <1>4, <1>5, <1>6, <2>1, <2>2, <2>3 DEF ConnInPlace
  <2>5. ASSUME NEW d \in Clients \ {c}
        PROVE  /\ Created(d) => ConnInPlace(d)'
               /\ ~Created(d) => conn'[d] = NoConnection
    BY <1>1, <1>6, <2>1, <2>2, <2>3, OtherConn
  <2> QED
    BY <1>4, <1>10, <2>4, <2>5 DEF ConnsInPlace
<1>17. ServerInPlace'
  BY <1>1 DEF IInv, ServerInPlace, NoUseOfDestroyedServer
<1> QED
  BY <1>9, <1>11, <1>12, <1>13, <1>14, <1>15, <1>16, <1>17 DEF IInv

\* The record of a new connection.
Made == [NoConnection EXCEPT !.state = "kconnecting", !.loop = NextLoop,
                             !.name = nextConnId]

LEMMA LoopField ==
    ASSUME NEW d \in Connection, NEW l \in Loops
    PROVE  [d EXCEPT !.loop = l] \in Connection
BY DEF Connection

LEMMA NameField ==
    ASSUME NEW d \in Connection, NEW n \in Names
    PROVE  [d EXCEPT !.name = n] \in Connection
BY DEF Connection

LEMMA MadeFields ==
    ASSUME NextLoop \in Loops, nextConnId \in Names
    PROVE  /\ Made \in Connection /\ Made.state = "kconnecting"
           /\ Made.loop = NextLoop /\ Made.name = nextConnId /\ ~Made.added
           /\ Made.ups = 0 /\ Made.downs = 0 /\ Made.destroyed = 0
<1> DEFINE d1 == [NoConnection EXCEPT !.state = "kconnecting"]
<1> DEFINE d2 == [d1 EXCEPT !.loop = NextLoop]
<1> DEFINE d3 == [d2 EXCEPT !.name = nextConnId]
<1>1. NoConnection \in Connection
  BY LoopNumbers DEF NoConnection, Connection
<1>2. d1 \in Connection
  BY <1>1, StateField
<1>3. d2 \in Connection
  <2> HIDE DEF d1
  <2> QED
    BY <1>2, LoopField
<1>4. d3 \in Connection
  <2> HIDE DEF d2
  <2> QED
    BY <1>3, NameField
<1>5. Made = d3
  BY DEF Made
<1>6. /\ d3.state = "kconnecting" /\ d3.loop = NextLoop /\ d3.name = nextConnId
      /\ ~d3.added /\ d3.ups = 0 /\ d3.downs = 0 /\ d3.destroyed = 0
  BY DEF NoConnection
<1> QED
  BY <1>4, <1>5, <1>6

LEMMA HandleReadKeeps == ASSUME IInv, HandleRead PROVE IInv'
<1>1. /\ pc[Base] = "poll" /\ BaseIdle /\ listening /\ backlog # <<>>
      /\ listening' = listening /\ UNCHANGED batchVars
      /\ UNCHANGED <<config, startVars, left, pc, quit, endVars>>
  BY DEF HandleRead, WatchedAfter, IInv, TypeOK
<1>2. server = "alive" /\ loops = numThreads
  BY <1>1 DEF IInv, ServerInPlace, StartedOnce, BaseIdle
<1>3. CASE ~(OpenFds < maxFds)
  <2>1. UNCHANGED <<next, backlog, connVars, tasks>>
    BY <1>3 DEF HandleRead
  <2>2. QueuesOK(batch, tasks)' /\ FunctorsInPlace' /\ ConnsInPlace'
    BY <1>1, <2>1, QuietStep
  <2>3. TypeOK' /\ StartedOnce'
    BY <1>1, <2>1 DEF IInv, TypeOK, StartedOnce, Listens, Here
  <2>4. LoopsOfPool' /\ OwnNames' /\ ServerInPlace'
    BY <1>1, <2>1 DEF IInv, LoopsOfPool, SubLoops, OwnNames, CreatedConns, Created,
                      ServerInPlace, NoUseOfDestroyedServer
  <2> QED
    BY <2>2, <2>3, <2>4 DEF IInv
<1>4. CASE OpenFds < maxFds
  <2>0. PICK c : c = Head(backlog)
    OBVIOUS
  <2>1. backlog' = Tail(backlog) /\ NewConncetion(c)
    BY <1>4, <2>0 DEF HandleRead
  <2>2. /\ next' = NextIndex /\ nextConnId' = nextConnId + 1
        /\ conncetions' = [n \in DOMAIN conncetions \cup {nextConnId} |->
                              IF n = nextConnId THEN c ELSE conncetions[n]]
        /\ NextLoop = Base =>
              conn' = [conn EXCEPT ![c] = Established(Made)] /\ tasks' = tasks
        /\ NextLoop # Base =>
              /\ conn' = [conn EXCEPT ![c] = Made]
              /\ QueueIn(NextLoop, Bound("connectEstablished", c))
    BY <2>1 DEF NewConncetion, NextId, Made
  <2>3. /\ c \in Clients /\ ~Created(c) /\ backlog' \in Seq(Clients)
        /\ DOMAIN backlog = 1..Len(backlog) /\ Len(backlog) \in Nat \ {0}
        /\ DOMAIN backlog' = 1..Len(backlog) - 1
        /\ \A i \in DOMAIN backlog' : /\ i + 1 \in DOMAIN backlog
                                      /\ backlog'[i] = backlog[i + 1]
                                      /\ backlog'[i] # c
    <3>1. /\ backlog \in Seq(Clients) /\ backlog[1] = c /\ c \in Clients
          /\ backlog' \in Seq(Clients) /\ Len(backlog') = Len(backlog) - 1
          /\ \A i \in 1..Len(backlog') : backlog'[i] = backlog[i + 1]
      BY <1>1, <2>0, <2>1, HeadTailProperties DEF IInv, TypeOK
    <3>2. /\ Len(backlog) \in Nat \ {0} /\ DOMAIN backlog = 1..Len(backlog)
          /\ DOMAIN backlog' = 1..Len(backlog) - 1
      BY <1>1, <3>1, EmptySeq, LenProperties
    <3>3. \A i \in DOMAIN backlog' : i + 1 \in DOMAIN backlog /\ 1 # i + 1
      BY <3>2
    <3>4. 1 \in DOMAIN backlog
      BY <3>2
    <3> QED
      BY <3>1, <3>2, <3>3, <3>4 DEF IInv, OwnNames
  <2>4. /\ NextLoop \in Loops /\ NextLoop <= loops
        /\ loops > 0 => NextLoop > 0 /\ NextLoop # Base
        /\ next' \in 0..MaxThreads /\ (next' = 0 \/ next' < loops)
    <3>1. /\ loops \in Nat /\ loops <= MaxThreads /\ next \in Nat
          /\ MaxThreads \in Nat
      BY <1>2, LoopNumbers DEF IInv, TypeOK
    <3>2. CASE loops = 0
      BY <2>2, <3>1, <3>2, LoopNumbers
         DEF NextLoop, NextIndex, IInv, LoopsOfPool, Base
    <3>3. CASE loops # 0
      <4>1. next < loops
        BY <3>1, <3>3 DEF IInv, LoopsOfPool
      <4>2. NextLoop = next + 1 /\ next' = (next + 1) % loops
        BY <2>2, <3>3 DEF NextLoop, NextIndex
      <4>3. (next + 1) % loops \in 0..loops - 1
        BY <3>1, <3>3
      <4> QED
        BY <3>1, <3>3, <4>1, <4>2, <4>3 DEF Loops, Base
    <3> QED
      BY <3>2, <3>3
  <2>5. /\ Cardinality(CreatedConns \cup {c}) = nextConnId
        /\ Cardinality(CreatedConns \cup {c}) = Cardinality(CreatedConns) + 1
        /\ nextConnId \in Names /\ nextConnId \in Nat
    <3>1. nextConnId = Cardinality(CreatedConns) + 1 /\ c \notin CreatedConns
      BY <2>3 DEF IInv, OwnNames, CreatedConns
    <3>2. Cardinality(CreatedConns \cup {c}) = Cardinality(CreatedConns) + 1
      BY <3>1, CreatedIsFinite, FS_AddElement
    <3>3. CreatedConns \cup {c} \subseteq Clients
      BY <2>3 DEF CreatedConns
    <3>4. Cardinality(CreatedConns \cup {c}) <= Cardinality(Clients)
      BY <3>3, CreatedIsFinite, FS_Subset
    <3> QED
      BY <3>1, <3>2, <3>4, CreatedIsFinite DEF Names
  <2>6. /\ conn'[c] \in Connection /\ conn'[c].state # "none"
        /\ conn'[c].loop = NextLoop /\ conn'[c].name = nextConnId
        /\ conn'[c].downs = 0 /\ conn'[c].destroyed = 0
        /\ NextLoop = Base => conn'[c].added /\ conn'[c].ups = 1
        /\ NextLoop # Base => ~conn'[c].added /\ conn'[c].ups = 0
        /\ \A d \in Clients \ {c} : conn'[d] = conn[d]
        /\ conn' \in [Clients -> Connection]
    <3>1. /\ Made \in Connection /\ Made.state = "kconnecting"
          /\ Made.loop = NextLoop /\ Made.name = nextConnId /\ ~Made.added
          /\ Made.ups = 0 /\ Made.downs = 0 /\ Made.destroyed = 0
      BY <2>4, <2>5, MadeFields
    <3>2. CASE NextLoop = Base
      <4>1. Established(Made) \in Connection
        BY <3>1, EstablishedType
      <4>2. conn'[c] = Established(Made)
        BY <2>2, <2>3, <3>2 DEF IInv, TypeOK
      <4>3. /\ \A d \in Clients \ {c} : conn'[d] = conn[d]
            /\ conn' \in [Clients -> Connection]
        BY <2>2, <2>3, <3>2, <4>1 DEF IInv, TypeOK
      <4> QED
        BY <3>1, <3>2, <4>1, <4>2, <4>3, ConnectionSteps
    <3>3. CASE NextLoop # Base
      <4>1. conn'[c] = Made
        BY <2>2, <2>3, <3>3 DEF IInv, TypeOK
      <4>2. /\ \A d \in Clients \ {c} : conn'[d] = conn[d]
            /\ conn' \in [Clients -> Connection]
        BY <2>2, <2>3, <3>1, <3>3 DEF IInv, TypeOK
      <4> QED
        BY <3>1, <3>3, <4>1, <4>2
    <3> QED
      BY <3>2, <3>3
  <2>7. Created(c)' /\ \A d \in Clients \ {c} : Created(d)' <=> Created(d)
    BY <2>3, <2>6 DEF Created
  <2>8. \A l \in Loops : \A x \in ConnFunctor : ~Here(x, c, l)
    BY <2>3 DEF IInv, FunctorsInPlace, ConnFunctor
  <2>9. /\ QueuesOK(batch, tasks)'
        /\ \A l \in Loops : \A x, d :
              Here(x, d, l)' <=>
                  \/ Here(x, d, l)
                  \/ /\ NextLoop # Base /\ l = NextLoop
                     /\ x = "connectEstablished" /\ d = c
    <3>1. CASE NextLoop = Base
      BY <1>1, <2>2, <3>1 DEF IInv, Here
    <3>2. CASE NextLoop # Base
      <4>1. Bound("connectEstablished", c) \in Functor
        BY <2>3 DEF Bound, Functor
      <4>2. PICK k \in Loops : k = NextLoop
        BY <2>4
      <4>3. /\ ~Here("connectEstablished", c, k) /\ ~Here("connectDestoryed", c, k)
            /\ QueueIn(k, Bound("connectEstablished", c))
        BY <2>2, <2>8, <3>2, <4>2 DEF ConnFunctor
      <4>4. /\ QueuesOK(batch, tasks)'
            /\ \A l \in Loops : \A x, d :
                  Here(x, d, l)' <=>
                      Here(x, d, l) \/ (l = k /\ x = "connectEstablished" /\ d = c)
        BY <1>1, <4>1, <4>3, QueueInEffect
      <4> QED
        BY <3>2, <4>2, <4>4
    <3> QED
      BY <3>1, <3>2
  <2>10. TypeOK'
    <3>1. /\ nextConnId' \in 1..Cardinality(Clients) + 1
          /\ DOMAIN conncetions' \subseteq 1..nextConnId' - 1
      BY <2>2, <2>5, CreatedIsFinite DEF IInv, TypeOK, Names
    <3>2. \A n \in DOMAIN conncetions' : conncetions'[n] \in Clients
      BY <2>2, <2>3 DEF IInv, TypeOK
    <3> QED
      BY <1>1, <2>3, <2>4, <2>6, <2>9, <3>1, <3>2 DEF IInv, TypeOK, QueuesOK
  <2>11. FunctorsInPlace'
    <3> SUFFICES ASSUME NEW l \in Loops, NEW d \in Clients
                 PROVE  /\ Here("connectEstablished", d, l)'
                               \/ Here("connectDestoryed", d, l)'
                              => Created(d)' /\ conn'[d].loop = l
                        /\ Here("connectEstablished", d, l)' => l # Base
                        /\ Here("removeConnectionInLoop", d, l)'
                              => Created(d)' /\ l = Base /\ conn'[d].loop # Base
      BY DEF FunctorsInPlace
    <3>1. CASE d = c
      BY <2>6, <2>7, <2>8, <2>9, <3>1 DEF ConnFunctor
    <3>2. CASE d # c
      BY <2>6, <2>7, <2>9, <3>2 DEF IInv, FunctorsInPlace
    <3> QED
      BY <3>1, <3>2
  <2>12. StartedOnce'
    BY <1>1, <1>2, <2>9, LoopNumbers DEF IInv, StartedOnce, Listens
  <2>13. LoopsOfPool'
    <3>1. SubLoops' = SubLoops /\ SubLoops \subseteq Loops
      BY <1>1, SubLoopsAreLoops DEF SubLoops, IInv
    <3>2. pc[Base] # "gone" /\ \A l \in SubLoops : pc[l] # "gone"
      BY <1>2 DEF IInv, LoopsOfPool
    <3>3. \A d \in Clients : Created(d)' => /\ conn'[d].loop <= loops
                                            /\ loops > 0 => conn'[d].loop > 0
      BY <2>4, <2>6, <2>7 DEF IInv, LoopsOfPool
    <3> QED
      BY <1>1, <1>2, <2>4, <3>1, <3>2, <3>3 DEF IInv, LoopsOfPool
  <2>14. OwnNames'
    <3>1. CreatedConns' = CreatedConns \cup {c}
      BY <2>3, <2>7 DEF CreatedConns
    <3>2. nextConnId' = Cardinality(CreatedConns') + 1
      BY <2>2, <2>5, <3>1 DEF IInv, OwnNames
    <3>3. \A i \in DOMAIN backlog' : conn'[backlog'[i]].state = "none"
      <4>1. ASSUME NEW i \in DOMAIN backlog' PROVE conn'[backlog'[i]].state = "none"
        <5>1. backlog'[i] \in Clients
          BY <2>3, LenProperties, ElementOfSeq
        <5>2. conn[backlog'[i]].state = "none"
          BY <2>3 DEF IInv, OwnNames, Created
        <5> QED
          BY <2>3, <2>6, <5>1, <5>2
      <4> QED
        BY <4>1
    <3>4. \A i, j \in DOMAIN backlog' : i # j => backlog'[i] # backlog'[j]
      <4>1. ASSUME NEW i \in DOMAIN backlog', NEW j \in DOMAIN backlog', i # j
            PROVE  backlog'[i] # backlog'[j]
        <5>1. i + 1 # j + 1
          BY <2>3, <4>1
        <5> QED
          BY <2>3, <5>1 DEF IInv, OwnNames
      <4> QED
        BY <4>1
    <3>5. ASSUME NEW d \in CreatedConns
          PROVE  /\ d \in Clients \ {c} /\ conn'[d].name = conn[d].name
                 /\ conn[d].name \in 1..nextConnId - 1
                 /\ conn[d].name # nextConnId
      BY <2>3, <2>5, <2>6 DEF CreatedConns, IInv, OwnNames
    <3>6. \A d \in CreatedConns' : conn'[d].name \in 1..nextConnId' - 1
      <4>1. nextConnId' = nextConnId + 1 /\ nextConnId \in Nat \ {0}
        BY <2>2, <2>5 DEF Names
      <4>2. conn'[c].name \in 1..nextConnId' - 1
        BY <2>6, <4>1
      <4>3. ASSUME NEW d \in CreatedConns PROVE conn'[d].name \in 1..nextConnId' - 1
        <5>1. conn'[d].name \in 1..nextConnId - 1
          BY <3>5
        <5> QED
          BY <4>1, <5>1
      <4> QED
        BY <3>1, <4>2, <4>3
    <3>7. \A d, e \in CreatedConns' : conn'[d].name = conn'[e].name => d = e
      BY <2>6, <3>1, <3>5 DEF IInv, OwnNames
    <3>8. ASSUME NEW n \in DOMAIN conncetions'
          PROVE  /\ conn'[conncetions'[n]].state # "none"
                 /\ conn'[conncetions'[n]].name = n
      <4>1. CASE n = nextConnId
        BY <2>2, <2>6, <4>1
      <4>2. CASE n # nextConnId
        <5>1. n \in DOMAIN conncetions /\ conncetions'[n] = conncetions[n]
          BY <2>2, <4>2
        <5>2. conncetions[n] \in CreatedConns /\ conn[conncetions[n]].name = n
          BY <5>1 DEF IInv, TypeOK, OwnNames, CreatedConns
        <5> QED
          BY <2>6, <3>5, <5>1, <5>2 DEF CreatedConns, Created
      <4> QED
        BY <4>1, <4>2
    <3> QED
      BY <3>2, <3>3, <3>4, <3>6, <3>7, <3>8 DEF OwnNames, Created
  <2>15. ConnsInPlace'
    <3>1. \A d \in Clients : Ends(d)' <=> Ends(d)
      BY <2>9 DEF Ends
    <3>2. \A d \in Clients : Removal(d)' <=> Removal(d)
      BY <2>9, LoopNumbers DEF Removal
    <3>3. /\ Starts(c)' <=> NextLoop # Base
          /\ \A d \in Clients \ {c} : Starts(d)' <=> Starts(d)
      BY <2>4, <2>8, <2>9 DEF Starts, ConnFunctor
    <3>4. ~Ends(c) /\ ~Removal(c)
      BY <2>8, LoopNumbers DEF Ends, Removal, ConnFunctor
    <3>5. InTable(c)' /\ \A d \in Clients \ {c} : InTable(d)' <=> InTable(d)
      <4>1. /\ DOMAIN conncetions' = DOMAIN conncetions \cup {nextConnId}
            /\ conncetions'[nextConnId] = c
            /\ \A n \in DOMAIN conncetions \ {nextConnId} :
                  conncetions'[n] = conncetions[n]
            /\ nextConnId \notin DOMAIN conncetions
        BY <2>2, <2>5 DEF IInv, TypeOK
      <4> QED
        BY <4>1 DEF InTable
    <3>6. ConnInPlace(c)'
      <4>1. /\ InTable(c)' /\ ~Ends(c)' /\ ~Removal(c)'
            /\ Starts(c)' <=> NextLoop # Base
            /\ server' = "alive"
        BY <1>1, <1>2, <2>3, <3>1, <3>2, <3>3, <3>4, <3>5
      <4>2. CASE NextLoop = Base
        BY <2>6, <4>1, <4>2 DEF ConnInPlace
      <4>3. CASE NextLoop # Base
        BY <2>6, <4>1, <4>3 DEF ConnInPlace
      <4> QED
        BY <4>2, <4>3
    <3>7. ASSUME NEW d \in Clients \ {c}
          PROVE  /\ Created(d) => ConnInPlace(d)'
                 /\ ~Created(d) => conn'[d] = NoConnection
      BY <1>1, <2>6, <3>1, <3>2, <3>3, <3>5, OtherConn
    <3> QED
      BY <2>7, <3>6, <3>7 DEF ConnsInPlace
  <2>16. ServerInPlace'
    BY <1>1, <1>2 DEF IInv, ServerInPlace, NoUseOfDestroyedServer
  <2> QED
    BY <2>9, <2>10, <2>11, <2>12, <2>13, <2>14, <2>15, <2>16 DEF IInv
<1> QED
  BY <1>3, <1>4

-----------------------------------------------------------------------------
(* All steps. *)

LEMMA NextKeeps == ASSUME IInv, [Next]_vars PROVE IInv'
<1>1. ASSUME NEW t \in Callers, Start(t) \/ StartPool(t) \/ Listen(t) PROVE IInv'
  <2>1. CASE Listen(t)
    <3>1. t = "base" \/ t = "user"
      BY DEF Callers
    <3> QED
      BY <2>1, <3>1, ListenHereKeeps, ListenElsewhereKeeps
  <2> QED
    BY <1>1, <2>1, StartKeeps, StartPoolKeeps
<1>2. CASE HandleRead
  BY <1>2, HandleReadKeeps
<1>3. ASSUME NEW l \in Loops, NEW c \in Clients, HandleClose(l, c) PROVE IInv'
  BY <1>3, HandleCloseKeeps
<1>4. CASE EnterLoop \/ QuitBase
  BY <1>4, EnterLoopKeeps, QuitBaseKeeps
<1>5. ASSUME NEW l \in Loops, LoopStep(l) PROVE IInv'
  BY <1>5, BeginLoopKeeps, TakeFunctorsKeeps, RunConnectEstablishedKeeps,
     RunConnectDestoryedKeeps, FunctorsDoneKeeps DEF LoopStep
<1>6. CASE BaseStep \/ RunDangling
  BY <1>6, RunRemoveKeeps, RunListenKeeps, RunDanglingKeeps DEF BaseStep
<1>7. CASE Destroy \/ DestroyBaseLoop
  BY <1>7, DestroyKeeps, DestroyBaseLoopKeeps
<1>8. CASE DestructorStep
  BY <1>8, DestroyItemKeeps, ItemsDoneKeeps, QuitThreadKeeps, DestroyAcceptorKeeps
     DEF DestructorStep
<1>9. ASSUME NEW c \in Clients, Connect(c) \/ Leave(c) PROVE IInv'
  BY <1>9, ConnectKeeps, LeaveKeeps
<1>10. CASE UNCHANGED vars
  <2>1. QueuesOK(batch, tasks)' /\ FunctorsInPlace' /\ ConnsInPlace'
    BY <1>10, QuietStep DEF vars
  <2>2. TypeOK' /\ StartedOnce'
    BY <1>10 DEF vars, IInv, TypeOK, StartedOnce, Listens, Here
  <2>3. LoopsOfPool' /\ OwnNames' /\ ServerInPlace'
    BY <1>10 DEF vars, IInv, LoopsOfPool, SubLoops, OwnNames, CreatedConns,
                 Created, ServerInPlace, NoUseOfDestroyedServer
  <2> QED
    BY <2>1, <2>2, <2>3 DEF IInv
<1> QED
  BY <1>1, <1>2, <1>3, <1>4, <1>5, <1>6, <1>7, <1>8, <1>9, <1>10 DEF Next

(* Queues, names, table, connections and loops fit together in every state.   *)
THEOREM Inductive == Spec => []IInv
BY InitIInv, NextKeeps, PTL DEF Spec

-----------------------------------------------------------------------------
(* Every variable keeps its type: the pool is started once, every client has  *)
(* one connection, and what a loop runs are functors.                         *)
THEOREM TypeCorrect == Spec => []TypeOK
<1>1. IInv => TypeOK
  BY DEF IInv
<1> QED
  BY <1>1, Inductive, PTL

LEMMA TableLookup ==
    ASSUME IInv, NEW c \in Clients
    PROVE  InTable(c) <=> /\ conn[c].name \in DOMAIN conncetions
                          /\ conncetions[conn[c].name] = c
BY DEF IInv, OwnNames, InTable

(* conncetions_ holds, under its own name, exactly the connections whose end  *)
(* their user has not heard of or whose removal waits in the base loop.       *)
THEOREM TableIsRight == Spec => []TableIsExact
<1>1. IInv => TableIsExact
  <2> SUFFICES ASSUME IInv, server = "alive", NEW c \in Clients
               PROVE  InTable(c) <=> Created(c)
                                        /\ (conn[c].downs = 0 \/ RemovalWaits(c))
    BY TableLookup DEF TableIsExact
  <2>1. RemovalWaits(c) <=> Removal(c)
    BY DEF RemovalWaits, Removal, Here, Queued, Functors
  <2>2. InTable(c) => Created(c)
    BY DEF IInv, OwnNames, InTable
  <2>3. Created(c) => (InTable(c) <=> conn[c].downs = 0 \/ Removal(c))
    BY DEF IInv, ConnsInPlace, ConnInPlace
  <2> QED
    BY <2>1, <2>2, <2>3
<1> QED
  BY <1>1, Inductive, PTL

(* What the poller of a living loop watches is alive: the table or a queued   *)
(* connectDestoryed refers to it.                                             *)
THEOREM WatchedConnectionsLive == Spec => []WatchedAreAlive
<1>1. IInv => WatchedAreAlive
  <2> SUFFICES ASSUME IInv, NEW c \in Clients, conn[c].added
               PROVE  Alive(c) \/ pc[conn[c].loop] = "gone"
    BY DEF WatchedAreAlive
  <2>1. Created(c)
    BY DEF IInv, ConnsInPlace, NoConnection
  <2>2. InTable(c) \/ Ends(c) \/ pc[conn[c].loop] = "gone"
    BY <2>1 DEF IInv, ConnsInPlace, ConnInPlace
  <2>3. ASSUME NEW l \in Loops, Here("connectDestoryed", c, l)
        PROVE  InFunctors(c, l)
    BY <2>3 DEF InFunctors, Functors, Here, Queued, Bound
  <2> QED
    BY <2>1, <2>2, <2>3 DEF Ends, Alive
<1> QED
  BY <1>1, Inductive, PTL

(* With a pool of any size the base loop serves no connection, whichever      *)
(* thread calls start(): nothing is accepted before the loops are there.      *)
THEOREM PoolServes == Spec => []ServedByPool
<1>1. IInv => ServedByPool
  BY DEF IInv, TypeOK, LoopsOfPool, ServedByPool, Base
<1> QED
  BY <1>1, Inductive, PTL

(* A destroyed server is used only by what ran or waited in the base loop     *)
(* when the user destroyed the server early.                                  *)
THEOREM ServerUsedAlive == Spec => []NoUseOfDestroyedServer
<1>1. IInv => NoUseOfDestroyedServer
  BY DEF IInv, ServerInPlace
<1> QED
  BY <1>1, Inductive, PTL

(* After ~TcpServer only a functor of the base loop still holds a connection: *)
(* the table is empty, and the loops of the pool took their functors along.   *)
THEOREM ReleasedAtLast == Spec => []ReleasedWithServer
<1>1. IInv => ReleasedWithServer
  <2> SUFFICES ASSUME IInv, server = "destroyed", NEW c \in Clients, Alive(c)
               PROVE  InFunctors(c, Base)
    BY DEF ReleasedWithServer
  <2>1. PICK l \in Loops : InFunctors(c, l)
    BY DEF IInv, ServerInPlace, Alive, InTable
  <2>2. ASSUME l # Base PROVE FALSE
    <3>1. CASE c \in ran[l]
      <4>1. pc[l] \in {"functors", "undefined"}
        BY <3>1 DEF IInv, TypeOK
      <4>2. l \in SubLoops /\ loops # 0
        BY <2>2, <4>1, LoopNumbers
           DEF IInv, TypeOK, LoopsOfPool, SubLoops, Loops, Base
      <4> QED
        BY <4>1, <4>2 DEF IInv, LoopsOfPool
    <3>2. CASE c \notin ran[l]
      <4>1. PICK f \in Queued(batch, tasks, l) : f.conn = c
        BY <2>1, <3>2 DEF InFunctors, Functors, Queued
      <4>2. f \in Functor /\ f = Bound(f.fn, c) /\ f.fn # "listen"
        BY <4>1, QueuedAreFunctors, FunctorFields, ClientsAssumption DEF IInv
      <4>3. Here(f.fn, c, l)
        BY <4>1, <4>2 DEF Here
      <4>4. Created(c) /\ conn[c].loop = l
        BY <2>2, <4>2, <4>3 DEF IInv, FunctorsInPlace, Functor
      <4>5. l \in SubLoops /\ loops # 0
        BY <2>2, <4>4, LoopNumbers
           DEF IInv, TypeOK, LoopsOfPool, SubLoops, Loops, Base
      <4>6. pc[l] = "gone" /\ tasks[l] = <<>> /\ batch[l] = <<>>
        BY <4>5 DEF IInv, TypeOK, LoopsOfPool
      <4> QED
        BY <4>1, <4>6, EmptyElements DEF Queued
    <3> QED
      BY <3>1, <3>2
  <2> QED
    BY <2>1, <2>2
<1> QED
  BY <1>1, Inductive, PTL

(* While the server is there, none of its connections is left behind: each    *)
(* that exists is watched by its poller, or a functor waits in the right loop *)
(* that will set it up, drop it from the table, or destroy it, or has run and *)
(* goes with its batch.  So none stays in conncetions_ that nobody hears of   *)
(* and nobody will release.                                                   *)
NobodyIsLeftBehind ==
    server = "alive" =>
        \A c \in Clients : Alive(c) =>
            \/ conn[c].added
            \/ RemovalWaits(c)
            \/ Bound("connectEstablished", c) \in Functors(conn[c].loop)
            \/ Bound("connectDestoryed", c) \in Functors(conn[c].loop)
            \/ \E l \in Loops : c \in ran[l]

(* No connection of a living server is leaked, for any clients and loops.     *)
THEOREM EveryConnectionIsAttended == Spec => []NobodyIsLeftBehind
<1>1. IInv => NobodyIsLeftBehind
  <2> SUFFICES ASSUME IInv, server = "alive", NEW c \in Clients, Alive(c)
               PROVE  \/ conn[c].added
                      \/ RemovalWaits(c)
                      \/ Bound("connectEstablished", c) \in Functors(conn[c].loop)
                      \/ Bound("connectDestoryed", c) \in Functors(conn[c].loop)
                      \/ \E l \in Loops : c \in ran[l]
    BY DEF NobodyIsLeftBehind
  <2> SUFFICES ASSUME ~Removal(c), ~Starts(c), ~Ends(c),
                      \A l \in Loops : c \notin ran[l]
               PROVE  conn[c].added
    <3>1. \A fn : \A l \in Loops : Here(fn, c, l) => Bound(fn, c) \in Functors(l)
      BY DEF Here, Queued, Functors
    <3>2. \A l \in Loops :
             Here("connectEstablished", c, l) \/ Here("connectDestoryed", c, l)
                => conn[c].loop = l
      BY DEF IInv, FunctorsInPlace
    <3> QED
      BY <3>1, <3>2, LoopNumbers DEF Removal, Starts, Ends, RemovalWaits
  <2>1. Created(c) /\ ConnInPlace(c)
    BY DEF Alive, IInv, ConnsInPlace
  <2>2. \A l \in Loops : ~InFunctors(c, l)
    <3> SUFFICES ASSUME NEW l \in Loops, NEW f \in Queued(batch, tasks, l),
                        f.conn = c
                 PROVE  FALSE
      BY DEF InFunctors, Functors, Queued
    <3>1. f \in Functor /\ f = Bound(f.fn, c) /\ f.fn # "listen"
      BY QueuedAreFunctors, FunctorFields, ClientsAssumption DEF IInv
    <3>2. Here(f.fn, c, l)
      BY <3>1 DEF Here
    <3>3. f.fn = "removeConnectionInLoop"
      BY <3>1, <3>2 DEF Functor, Starts, Ends
    <3> QED
      BY <3>2, <3>3 DEF IInv, FunctorsInPlace, Removal
  <2>3. InTable(c) /\ conn[c].downs = 0 /\ conn[c].destroyed = 0
    <3>1. InTable(c)
      BY <2>2 DEF Alive
    <3>2. conn[c] \in Connection
      BY DEF IInv, TypeOK
    <3> QED
      BY <2>1, <3>1, <3>2 DEF ConnInPlace, Connection
  <2>4. pc[conn[c].loop] # "gone"
    <3>1. conn[c] \in Connection /\ conn[c].loop <= loops /\ loops \in {0, numThreads}
          /\ numThreads \in 0..MaxThreads
      BY <2>1 DEF IInv, TypeOK, LoopsOfPool
    <3>2. conn[c].loop = Base \/ conn[c].loop \in SubLoops
      BY <3>1, LoopNumbers DEF Connection, SubLoops, Loops, Base
    <3> QED
      BY <3>2 DEF IInv, LoopsOfPool
  <2> QED
    BY <2>1, <2>3, <2>4 DEF ConnInPlace
<1> QED
  BY <1>1, Inductive, PTL
=============================================================================
