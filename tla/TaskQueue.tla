------------------------------ MODULE TaskQueue ------------------------------
(***************************************************************************)
(* What an event loop promises to the threads that hand it work, whatever  *)
(* lies between them (mutex, swapped vectors, eventfd, epoll): a task that *)
(* is submitted is run once, in the order of submission, by the loop, or   *)
(* the loop has stopped.  A task of the loop's own thread may also be run  *)
(* on the spot, ahead of everything that is queued.                        *)
(* EventLoop.tla is shown to implement this module.                        *)
(***************************************************************************)
EXTENDS Sequences

CONSTANT Task       \* the tasks that may ever be submitted

VARIABLES
    queue,          \* tasks submitted and not yet run, oldest first
    done,           \* tasks in the order they were run
    stopped         \* the loop has left for good

vars == <<queue, done, stopped>>

Elements(s) == {s[i] : i \in DOMAIN s}

Submitted == Elements(queue) \cup Elements(done)

Init ==
    /\ queue = <<>>
    /\ done = <<>>
    /\ stopped = FALSE

\* Anyone submits a task that was never submitted before.
Submit(f) ==
    /\ f \notin Submitted
    /\ queue' = Append(queue, f)
    /\ UNCHANGED <<done, stopped>>

\* The loop's own thread runs a fresh task without queueing it.
RunNow(f) ==
    /\ f \notin Submitted
    /\ done' = Append(done, f)
    /\ UNCHANGED <<queue, stopped>>

\* The loop runs its oldest task.
Execute ==
    /\ ~stopped
    /\ queue # <<>>
    /\ queue' = Tail(queue)
    /\ done' = Append(done, Head(queue))
    /\ UNCHANGED stopped

\* The loop leaves; what is still queued is never run.
Stop ==
    /\ ~stopped
    /\ stopped' = TRUE
    /\ UNCHANGED <<queue, done>>

Next ==
    \/ \E f \in Task : Submit(f) \/ RunNow(f)
    \/ Execute
    \/ Stop

Spec == Init /\ [][Next]_vars
=============================================================================
