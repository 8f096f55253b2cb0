------------------------- MODULE TcpServerLifeProofs -------------------------
(***************************************************************************)
(* Proof that a TcpServer gives each of its connections the life that      *)
(* ConnectionLife.tla promises, for any set of clients and any number of   *)
(* loops.  It rests on the inductive invariant of TcpServerProofs.tla.     *)
(***************************************************************************)
EXTENDS TcpServerProofs

USE DEF config, startVars, acceptVars, connVars, loopVars, endVars

-----------------------------------------------------------------------------
(* The steps of the abstract connection, by the records of the server.        *)

Lives(c) == [Life(c)!Next]_<<Phase(c), InTable(c), conn[c].added,
                             server # "alive">>

LEMMA Stays ==
    ASSUME NEW c \in Clients, conn'[c] = conn[c], InTable(c)' <=> InTable(c),
           (server # "alive")' <=> server # "alive"
    PROVE  Lives(c)
<1>1. Phase(c)' = Phase(c)
  BY DEF Phase, Created
<1>2. <<Phase(c), InTable(c), conn[c].added, server # "alive">>' =
          <<Phase(c), InTable(c), conn[c].added, server # "alive">>
  <2>1. InTable(c)' = InTable(c) /\ (server # "alive")' = (server # "alive")
    BY DEF InTable
  <2> QED
    BY <1>1, <2>1
<1> QED
  BY <1>2 DEF Lives

LEMMA StayAll ==
    ASSUME conn' = conn, conncetions' = conncetions,
           server' = server \/ (server # "alive" /\ server' # "alive"),
           NEW c \in Clients
    PROVE  Lives(c)
BY Stays DEF InTable

LEMMA Makes ==
    ASSUME NEW c \in Clients, ~Created(c), Created(c)',
           conn'[c].downs = 0, conn'[c].destroyed = 0, InTable(c)',
           \/ conn'[c].ups = 0 /\ conn'[c].added = FALSE
           \/ conn'[c].ups = 1 /\ conn'[c].added = TRUE,
           server' = server
    PROVE  Lives(c)
<1>1. Phase(c) = "none"
  BY DEF Phase
<1>2. CASE conn'[c].ups = 0 /\ conn'[c].added = FALSE
  <2>1. Phase(c)' = "made" /\ InTable(c)' = TRUE
    BY <1>2 DEF Phase
  <2> QED
    BY <1>1, <1>2, <2>1 DEF Lives, Life!Next, Life!Make
<1>3. CASE conn'[c].ups = 1 /\ conn'[c].added = TRUE
  <2>1. Phase(c)' = "up" /\ InTable(c)' = TRUE
    BY <1>3 DEF Phase
  <2> QED
    BY <1>1, <1>3, <2>1 DEF Lives, Life!Next, Life!Make
<1> QED
  BY <1>2, <1>3

LEMMA Establishes ==
    ASSUME NEW c \in Clients, Created(c), Created(c)',
           conn[c].downs = 0, conn[c].destroyed = 0, conn[c].ups = 0,
           conn'[c].downs = 0, conn'[c].destroyed = 0, conn'[c].ups = 1,
           conn'[c].added = TRUE, InTable(c)' <=> InTable(c), server' = server
    PROVE  Lives(c)
<1>1. Phase(c) = "made" /\ Phase(c)' = "up"
  BY DEF Phase
<1> QED
  BY <1>1 DEF Lives, Life!Next, Life!Establish, InTable

LEMMA Closes ==
    ASSUME NEW c \in Clients, Created(c), Created(c)',
           conn[c].downs = 0, conn[c].destroyed = 0, conn[c].ups = 1,
           conn'[c].downs = 1, conn'[c].destroyed = 0, conn'[c].added = FALSE,
           InTable(c)' => InTable(c), server' = server
    PROVE  Lives(c)
<1>1. Phase(c) = "up" /\ Phase(c)' = "down"
  BY DEF Phase
<1>2. InTable(c)' \in {InTable(c), FALSE}
  BY DEF InTable
<1> QED
  BY <1>1, <1>2 DEF Lives, Life!Next, Life!Close

LEMMA Forgets ==
    ASSUME NEW c \in Clients, Created(c), conn'[c] = conn[c], ~InTable(c)',
           conn[c].destroyed = 0,
           conn[c].downs = 1 \/ server # "alive", server' = server
    PROVE  Lives(c)
<1>1. Phase(c)' = Phase(c) /\ (conn[c].downs = 1 => Phase(c) = "down")
  BY DEF Phase, Created
<1> QED
  BY <1>1 DEF Lives, Life!Next, Life!Forget

LEMMA Finishes ==
    ASSUME NEW c \in Clients, Created(c), Created(c)',
           conn[c].destroyed = 0, conn'[c].destroyed = 1, conn'[c].added = FALSE,
           conn[c].ups = 1, conn[c].downs \in 0..1, ~InTable(c)',
           server = "alive" => conn[c].downs = 1 /\ ~InTable(c),
           server' = server
    PROVE  Lives(c)
<1>1. Phase(c) = (IF conn[c].downs = 1 THEN "down" ELSE "up") /\ Phase(c)' = "ended"
  BY DEF Phase
<1> QED
  BY <1>1 DEF Lives, Life!Next, Life!End

LEMMA Orphans ==
    ASSUME NEW c \in Clients, conn' = conn, conncetions' = conncetions,
           server' # "alive"
    PROVE  Lives(c)
<1>1. Phase(c)' = Phase(c) /\ InTable(c)' = InTable(c)
  BY DEF Phase, Created, InTable
<1> QED
  BY <1>1 DEF Lives, Life!Next, Life!Orphan

-----------------------------------------------------------------------------
(* The steps of the server that change a connection.                          *)

LEMMA HandleReadLives ==
    ASSUME IInv, HandleRead, NEW d \in Clients PROVE Lives(d)
<1>1. server' = server /\ backlog # <<>>
  BY DEF HandleRead
<1>2. CASE ~(OpenFds < maxFds)
  BY <1>1, <1>2, StayAll DEF HandleRead
<1>3. CASE OpenFds < maxFds
  <2>1. PICK c : c = Head(backlog)
    OBVIOUS
  <2>2. /\ conncetions' = [n \in DOMAIN conncetions \cup {nextConnId} |->
                              IF n = nextConnId THEN c ELSE conncetions[n]]
        /\ NextLoop = Base => conn' = [conn EXCEPT ![c] = Established(Made)]
        /\ NextLoop # Base => conn' = [conn EXCEPT ![c] = Made]
    BY <1>3, <2>1 DEF HandleRead, NewConncetion, Made
  <2>3. c \in Clients /\ ~Created(c)
    <3>1. backlog[1] = c /\ c \in Clients /\ Len(backlog) \in Nat \ {0}
          /\ DOMAIN backlog = 1..Len(backlog)
      BY <1>1, <2>1, HeadTailProperties, EmptySeq, LenProperties
         DEF IInv, TypeOK
    <3>2. 1 \in DOMAIN backlog
      BY <3>1
    <3> QED
      BY <3>1, <3>2 DEF IInv, OwnNames
  <2>4. InTable(c)' /\ \A e \in Clients \ {c} : InTable(e)' <=> InTable(e)
    <3>1. /\ DOMAIN conncetions' = DOMAIN conncetions \cup {nextConnId}
          /\ conncetions'[nextConnId] = c
          /\ \A n \in DOMAIN conncetions \ {nextConnId} :
                conncetions'[n] = conncetions[n]
          /\ nextConnId \notin DOMAIN conncetions
      BY <2>2 DEF IInv, TypeOK
    <3> QED
      BY <3>1 DEF InTable
  <2>5. CASE d # c
    <3>1. conn'[d] = conn[d]
      BY <2>2, <2>5 DEF IInv, TypeOK
    <3> QED
      BY <1>1, <2>4, <2>5, <3>1, Stays
  <2>6. CASE d = c
    <3>1. /\ Made.state = "kconnecting" /\ Made.added = FALSE /\ Made.ups = 0
          /\ Made.downs = 0 /\ Made.destroyed = 0
      BY DEF Made, NoConnection
    <3>2. /\ Established(Made).state = "kConnected"
          /\ Established(Made).added = TRUE /\ Established(Made).ups = 1
          /\ Established(Made).downs = 0 /\ Established(Made).destroyed = 0
      BY DEF Established, Made, NoConnection
    <3>3. conn'[c] = Made \/ conn'[c] = Established(Made)
      BY <2>2, <2>3 DEF IInv, TypeOK
    <3>4. Created(c)'
      BY <3>1, <3>2, <3>3 DEF Created
    <3>5. /\ conn'[c].downs = 0 /\ conn'[c].destroyed = 0
          /\ \/ conn'[c].ups = 0 /\ conn'[c].added = FALSE
             \/ conn'[c].ups = 1 /\ conn'[c].added = TRUE
      BY <3>1, <3>2, <3>3
    <3>6. Lives(c)
      BY <1>1, <2>3, <2>4, <3>4, <3>5, Makes
    <3> QED
      BY <2>6, <3>6
  <2> QED
    BY <2>5, <2>6
<1> QED
  BY <1>2, <1>3

LEMMA RunConnectEstablishedLives ==
    ASSUME IInv, NEW k \in Loops, RunConnectEstablished(k), NEW d \in Clients
    PROVE  Lives(d)
<1>1. PICK c : c = Head(batch[k]).conn
  OBVIOUS
<1>2. /\ NextFunctor(k, "connectEstablished")
      /\ conn' = [conn EXCEPT ![c] = Established(@)]
      /\ conncetions' = conncetions /\ server' = server
  BY <1>1 DEF RunConnectEstablished
<1>3. Here("connectEstablished", c, k) /\ Bound("connectEstablished", c) \in Functor
  BY <1>1, <1>2, NextFunctorEffect
<1>4. c \in Clients
  BY <1>3, FunctorFields, BoundFields
<1>5. /\ Created(c) /\ conn[c] \in Connection
      /\ conn[c].ups = 0 /\ conn[c].downs = 0 /\ conn[c].destroyed = 0
  BY <1>3, <1>4
     DEF IInv, TypeOK, FunctorsInPlace, Starts, ConnsInPlace, ConnInPlace
<1>6. CASE d # c
  BY <1>2, <1>6, Stays DEF IInv, TypeOK, InTable
<1>7. CASE d = c
  <2>1. conn'[c] = Established(conn[c])
    BY <1>2, <1>4 DEF IInv, TypeOK
  <2>2. /\ conn'[c].state # "none" /\ conn'[c].added = TRUE /\ conn'[c].ups = 1
        /\ conn'[c].downs = 0 /\ conn'[c].destroyed = 0
    BY <1>5, <2>1 DEF Established, Connection
  <2> QED
    BY <1>2, <1>4, <1>5, <1>7, <2>2, Establishes DEF Created, InTable
<1> QED
  BY <1>6, <1>7

LEMMA RunConnectDestoryedLives ==
    ASSUME IInv, NEW k \in Loops, RunConnectDestoryed(k), NEW d \in Clients
    PROVE  Lives(d)
<1>1. PICK c : c = Head(batch[k]).conn
  OBVIOUS
<1>2. /\ NextFunctor(k, "connectDestoryed") /\ pc[k] = "functors"
      /\ conn' = [conn EXCEPT ![c] = Destroyed(@)]
      /\ conncetions' = conncetions /\ server' = server
      /\ tasks' = tasks /\ pc' = pc
  BY <1>1 DEF RunConnectDestoryed, NextFunctor
<1>3. /\ Here("connectDestoryed", c, k) /\ Bound("connectDestoryed", c) \in Functor
      /\ Bound("connectEstablished", c) \notin Queued(batch', tasks, k)
      /\ \A l \in Loops : \A x, e :
            Bound(x, e) \in Queued(batch', tasks, l)
                <=> Here(x, e, l)
                        /\ ~(l = k /\ x = "connectDestoryed" /\ e = c)
  BY <1>1, <1>2, NextFunctorEffect
<1>4. c \in Clients
  BY <1>3, FunctorFields, BoundFields
<1>5. /\ Created(c) /\ conn[c].loop = k /\ Ends(c)
      /\ conn[c] \in Connection /\ ConnInPlace(c)
  BY <1>3, <1>4 DEF IInv, TypeOK, FunctorsInPlace, Ends, ConnsInPlace
<1>6. ~Starts(c)
  <2>1. ~Here("connectEstablished", c, k)
    BY <1>3
  <2> QED
    BY <1>4, <1>5, <2>1 DEF Starts, IInv, FunctorsInPlace
<1>7. /\ conn[c].ups = 1 /\ conn[c].destroyed = 0 /\ ~InTable(c)
      /\ server = "alive" => conn[c].downs = 1
  <2>1. ~(conn[c].destroyed > 0) /\ conn[c].destroyed \in 0..1
    BY <1>5 DEF ConnInPlace, Connection
  <2>2. conn[c].destroyed = 0
    BY <2>1
  <2> QED
    BY <1>2, <1>5, <1>6, <2>2 DEF ConnInPlace
<1>8. CASE d # c
  BY <1>2, <1>8, Stays DEF IInv, TypeOK, InTable
<1>9. CASE d = c
  <2>1. conn'[c] = Destroyed(conn[c])
    BY <1>2, <1>4 DEF IInv, TypeOK
  <2>2. conn'[c].state # "none" /\ conn'[c].added = FALSE /\ conn'[c].destroyed = 1
    BY <1>5, <1>7, <2>1 DEF Destroyed, Connection, Created
  <2>3. conn[c].downs \in 0..1 /\ ~InTable(c)' /\ Created(c)'
    BY <1>2, <1>5, <1>7, <2>2 DEF Connection, InTable, Created
  <2> QED
    BY <1>2, <1>4, <1>5, <1>7, <1>9, <2>2, <2>3, Finishes
<1> QED
  BY <1>8, <1>9

LEMMA HandleCloseLives ==
    ASSUME IInv, NEW k \in Loops, NEW c \in Clients, HandleClose(k, c),
           NEW d \in Clients
    PROVE  Lives(d)
<1>1. /\ conn[c].loop = k /\ conn[c].added /\ server' = server
      /\ conn' = [conn EXCEPT ![c].state = "kDisconnected", ![c].added = FALSE,
                              ![c].downs = @ + 1]
      /\ RemoveConnection(c)
  BY DEF HandleClose
<1>2. Created(c) /\ conn[c] \in Connection
  BY <1>1 DEF IInv, TypeOK, ConnsInPlace, NoConnection
<1>3. conn[c].ups = 1 /\ conn[c].downs = 0 /\ conn[c].destroyed = 0
  BY <1>1, <1>2 DEF IInv, ConnsInPlace, ConnInPlace
<1>4. \A e \in Clients : /\ InTable(e)' => InTable(e)
                         /\ e # c => (InTable(e) => InTable(e)')
  <2>1. CASE conn[c].loop = Base
    <3>1. conncetions' = [n \in DOMAIN conncetions \ {conn[c].name} |->
                             conncetions[n]]
      BY <1>1, <2>1 DEF RemoveConnection, RemoveConnectionInLoop
    <3> QED
      BY <1>2, <3>1, EraseEntry
  <2>2. CASE conn[c].loop # Base
    BY <1>1, <2>2 DEF RemoveConnection, InTable
  <2> QED
    BY <2>1, <2>2
<1>5. CASE d # c
  <2>1. conn'[d] = conn[d]
    BY <1>1, <1>5 DEF IInv, TypeOK
  <2> QED
    BY <1>1, <1>4, <1>5, <2>1, Stays
<1>6. CASE d = c
  <2>1. conn'[c] = [conn[c] EXCEPT !.state = "kDisconnected", !.added = FALSE,
                                   !.downs = @ + 1]
    BY <1>1 DEF IInv, TypeOK
  <2>2. /\ conn'[c].state # "none" /\ conn'[c].added = FALSE
        /\ conn'[c].downs = 1 /\ conn'[c].destroyed = 0
    BY <1>2, <1>3, <2>1 DEF Connection
  <2> QED
    BY <1>1, <1>2, <1>3, <1>4, <1>6, <2>2, Closes DEF Created
<1> QED
  BY <1>5, <1>6

LEMMA RunRemoveLives ==
    ASSUME IInv, RunRemoveConnectionInLoop, NEW d \in Clients
    PROVE  Lives(d)
<1>1. PICK c : c = Head(batch[Base]).conn
  OBVIOUS
<1>2. /\ NextFunctor(Base, "removeConnectionInLoop") /\ server = "alive"
      /\ conncetions' = [n \in DOMAIN conncetions \ {conn[c].name} |->
                            conncetions[n]]
      /\ conn' = conn /\ server' = server
  BY <1>1 DEF RunRemoveConnectionInLoop, RemoveConnectionInLoop
<1>3. /\ Here("removeConnectionInLoop", c, Base)
      /\ Bound("removeConnectionInLoop", c) \in Functor
  BY <1>1, <1>2, LoopNumbers, NextFunctorEffect
<1>4. c \in Clients
  BY <1>3, FunctorFields, BoundFields
<1>5. Created(c) /\ Removal(c) /\ ConnInPlace(c) /\ conn[c] \in Connection
  BY <1>3, <1>4, LoopNumbers
     DEF IInv, TypeOK, FunctorsInPlace, Removal, ConnsInPlace
<1>6. InTable(c) /\ conn[c].downs = 1 /\ conn[c].destroyed = 0
  <2>1. InTable(c) /\ conn[c].downs = 1 /\ ~(conn[c].destroyed > 0)
    BY <1>2, <1>5 DEF ConnInPlace
  <2>2. conn[c].destroyed \in 0..1
    BY <1>5 DEF Connection
  <2> QED
    BY <2>1, <2>2
<1>7. \A e \in Clients : InTable(e)' <=> InTable(e) /\ e # c
  BY <1>2, <1>4, <1>5, EraseEntry
<1>8. CASE d # c
  BY <1>2, <1>7, <1>8, Stays
<1>9. CASE d = c
  BY <1>2, <1>5, <1>6, <1>7, <1>9, Forgets
<1> QED
  BY <1>8, <1>9

LEMMA DestroyItemLives ==
    ASSUME IInv, DestroyItem, NEW d \in Clients PROVE Lives(d)
<1>1. PICK n \in DOMAIN conncetions :
          /\ DestroyConnection(conncetions[n])
          /\ conncetions' = [m \in DOMAIN conncetions \ {n} |-> conncetions[m]]
  BY DEF DestroyItem
<1>2. PICK c : c = conncetions[n]
  OBVIOUS
<1>3. server = "conns" /\ server' = server
  BY DEF DestroyItem
<1>4. /\ c \in Clients /\ InTable(c) /\ Created(c) /\ conn[c].name = n
      /\ ConnInPlace(c) /\ conn[c] \in Connection
  BY <1>2 DEF IInv, TypeOK, OwnNames, ConnsInPlace, InTable
<1>5. \A e \in Clients : InTable(e)' <=> InTable(e) /\ e # c
  BY <1>1, <1>4, EraseEntry
<1>6. conn[c].destroyed = 0 /\ conn[c].downs \in 0..1
  <2>1. ~(conn[c].destroyed > 0) /\ conn[c].destroyed \in 0..1
    BY <1>4 DEF ConnInPlace, Connection
  <2> QED
    BY <1>4, <2>1 DEF Connection
<1>7. CASE conn[c].loop # Base
  <2>1. conn' = conn
    BY <1>1, <1>2, <1>7 DEF DestroyConnection
  <2> QED
    BY <1>3, <1>4, <1>5, <1>6, <2>1, Stays, Forgets
<1>8. CASE conn[c].loop = Base
  <2>1. conn' = [conn EXCEPT ![c] = Destroyed(@)]
    BY <1>1, <1>2, <1>8 DEF DestroyConnection
  <2>2. ~Starts(c) /\ pc[Base] # "gone"
    BY <1>3, <1>4, <1>8, GoneLate DEF Starts, IInv, FunctorsInPlace
  <2>3. conn[c].ups = 1
    BY <1>4, <1>8, <2>2 DEF ConnInPlace
  <2>4. CASE d # c
    BY <1>3, <1>5, <2>1, <2>4, Stays DEF IInv, TypeOK
  <2>5. CASE d = c
    <3>1. conn'[c] = Destroyed(conn[c])
      BY <1>4, <2>1 DEF IInv, TypeOK
    <3>2. /\ conn'[c].state # "none" /\ conn'[c].added = FALSE
          /\ conn'[c].destroyed = 1
      BY <1>4, <1>6, <3>1 DEF Destroyed, Connection, Created
    <3> QED
      BY <1>3, <1>4, <1>5, <1>6, <2>3, <2>5, <3>2, Finishes DEF Created
  <2> QED
    BY <2>4, <2>5
<1> QED
  BY <1>7, <1>8

-----------------------------------------------------------------------------
LEMMA NextLives ==
    ASSUME IInv, [Next]_vars, NEW d \in Clients PROVE Lives(d)
<1>1. ASSUME NEW t \in Callers, Start(t) \/ StartPool(t) \/ Listen(t)
      PROVE  Lives(d)
  BY <1>1, StayAll DEF Start, StartPool, Listen
<1>2. CASE EnterLoop \/ QuitBase \/ RunListen \/ RunDangling
  BY <1>2, StayAll DEF EnterLoop, QuitBase, RunListen, RunDangling
<1>3. ASSUME NEW l \in Loops, LoopStep(l) PROVE Lives(d)
  <2>1. CASE BeginLoop(l) \/ TakeFunctors(l) \/ FunctorsDone(l)
    BY <2>1, StayAll DEF BeginLoop, TakeFunctors, FunctorsDone
  <2> QED
    BY <1>3, <2>1, RunConnectEstablishedLives, RunConnectDestoryedLives
       DEF LoopStep
<1>4. CASE Destroy
  BY <1>4, Orphans DEF Destroy
<1>5. CASE DestructorStep \/ DestroyBaseLoop
  <2>1. CASE ItemsDone \/ DestroyAcceptor \/ DestroyBaseLoop
    BY <2>1, StayAll DEF ItemsDone, DestroyAcceptor, DestroyBaseLoop
  <2>2. ASSUME NEW l \in Loops, QuitThread(l) PROVE Lives(d)
    BY <2>2, StayAll DEF QuitThread
  <2> QED
    BY <1>5, <2>1, <2>2, DestroyItemLives DEF DestructorStep
<1>6. ASSUME NEW c \in Clients, Connect(c) \/ Leave(c) PROVE Lives(d)
  BY <1>6, StayAll DEF Connect, Leave
<1>7. CASE UNCHANGED vars
  BY <1>7, StayAll DEF vars
<1> QED
  BY <1>1, <1>2, <1>3, <1>4, <1>5, <1>6, <1>7, HandleReadLives, HandleCloseLives,
     RunRemoveLives DEF Next, BaseStep

(* Each connection of a server has the life of ConnectionLife, in whichever   *)
(* loop it is served, and also if ~TcpServer meets it while connectEstablished *)
(* or its removal waits in a queue.                                           *)
THEOREM ConnectionsLive == Spec => ImplementsConnectionLife
<1>1. Init => \A c \in Clients : Life(c)!Init
  <2> SUFFICES ASSUME Init, NEW c \in Clients PROVE Life(c)!Init
    OBVIOUS
  <2>1. conn[c] = NoConnection /\ DOMAIN conncetions = {} /\ server = "alive"
    BY DEF Init
  <2>2. Phase(c) = "none" /\ InTable(c) = FALSE /\ conn[c].added = FALSE
    BY <2>1 DEF Phase, Created, InTable, NoConnection
  <2> QED
    BY <2>1, <2>2 DEF Life!Init
<1>2. IInv /\ [Next]_vars =>
          \A c \in Clients : [Life(c)!Next]_<<Phase(c), InTable(c),
                                 conn[c].added, server # "alive">>
  BY NextLives DEF Lives
<1> QED
  BY <1>1, <1>2, Inductive, PTL DEF Spec, ImplementsConnectionLife
=============================================================================
