---------------------------- MODULE ConnectionLife ----------------------------
(***************************************************************************)
(* What the server promises of one connection, however its life is spread  *)
(* over two loops, their functors and the poller: it is made and entered   *)
(* in the table, its user hears of its start and then, once, of its end,   *)
(* only then the table forgets it, and connectDestoryed comes last.  The   *)
(* poller watches it from its start to its end and never again.  The       *)
(* destruction of the server may end it at any time after its start, and   *)
(* without a word to the user.                                             *)
(*                                                                         *)
(* TcpConnection.tla implements it for the connection alone, TcpServer.tla *)
(* for each of its connections.                                            *)
(***************************************************************************)
VARIABLES
    phase,      \* how far the connection has come
    inTable,    \* conncetions_ has it
    watched,    \* its channel is in the poller
    orphan      \* ~TcpServer has begun

lifeVars == <<phase, inTable, watched, orphan>>

Init ==
    /\ phase \in {"none", "made"}
    /\ inTable = (phase = "made")
    /\ watched = FALSE
    /\ orphan = FALSE

\* The acceptor's own loop starts it at once.
Make ==
    /\ phase = "none"
    /\ phase' \in {"made", "up"}
    /\ inTable' = TRUE
    /\ watched' = (phase' = "up")
    /\ UNCHANGED orphan

Establish ==
    /\ phase = "made"
    /\ phase' = "up"
    /\ watched' = TRUE
    /\ UNCHANGED <<inTable, orphan>>

\* In the base loop the table forgets the connection in the same step.
Close ==
    /\ phase = "up"
    /\ phase' = "down"
    /\ watched' = FALSE
    /\ inTable' \in {inTable, FALSE}
    /\ UNCHANGED orphan

Forget ==
    /\ phase = "down" \/ orphan
    /\ inTable' = FALSE
    /\ UNCHANGED <<phase, watched, orphan>>

End ==
    /\ \/ phase = "down" /\ ~inTable
       \/ phase \in {"up", "down"} /\ orphan
    /\ phase' = "ended"
    /\ inTable' = FALSE
    /\ watched' = FALSE
    /\ UNCHANGED orphan

Orphan ==
    /\ orphan' = TRUE
    /\ UNCHANGED <<phase, inTable, watched>>

\* Nothing is promised of a connection that is opened again after its end,
\* and only such a one is.
Reopen ==
    /\ phase \in {"down", "ended", "reopened"}
    /\ phase' = "reopened"
    /\ UNCHANGED orphan

Next ==
    Make \/ Establish \/ Close \/ Forget \/ End \/ Orphan \/ Reopen

Spec == Init /\ [][Next]_lifeVars
=============================================================================
