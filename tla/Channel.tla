------------------------------- MODULE Channel -------------------------------
(***************************************************************************)
(* A Channel (src/src/Channel.{h,cc}) as the value it is: the events it is *)
(* interested in and the index by which EPollPoller remembers what it did  *)
(* with it.  No state of its own: EPollPoller.tla and TcpConnection.tla    *)
(* keep such values in their variables.                                    *)
(***************************************************************************)
EXTENDS Sequences

\* EPOLLIN stands for kReadEvent (EPOLLIN | EPOLLPRI), EPOLLOUT for kWriteEvent.
Interest == {"EPOLLIN", "EPOLLOUT"}

\* What epoll_wait reports; the last two need not be asked for.
Revents == Interest \cup {"EPOLLHUP", "EPOLLERR"}

Index == {"kNew", "kAdded", "kDeleted"}

Channel == [events : SUBSET Interest, index : Index]

NewChannel == [events |-> {}, index |-> "kNew"]

isNoneEvent(c) == c.events = {}
isWriting(c) == "EPOLLOUT" \in c.events

\* EPollPoller::updateChannel: its epoll_ctl operation, and the index after it.
UpdateOp(c) ==
    IF c.index \in {"kNew", "kDeleted"} THEN "ADD"
    ELSE IF isNoneEvent(c) THEN "DEL" ELSE "MOD"

UpdatedIndexStaysAdded(c) == "kAdded"      \* mutant: no set_index(kDeleted)

UpdatedIndex(c) == IF UpdateOp(c) = "DEL" THEN "kDeleted" ELSE "kAdded"

\* enableReading, disalbeReading, enableWriting, disableWriting and disableAll
\* change events_ and call update().
WithEvents(c, ev) == [c EXCEPT !.events = ev]
Updated(c) == [c EXCEPT !.index = UpdatedIndex(c)]

EnableReading(c) == WithEvents(c, c.events \cup {"EPOLLIN"})
DisableReading(c) == WithEvents(c, c.events \ {"EPOLLIN"})
EnableWriting(c) == WithEvents(c, c.events \cup {"EPOLLOUT"})
DisableWriting(c) == WithEvents(c, c.events \ {"EPOLLOUT"})
DisableAll(c) == WithEvents(c, {})

\* EPollPoller::removeChannel.
Removed(c) == [c EXCEPT !.index = "kNew"]

\* handleEventWithGuard: the callbacks that revents_ calls for, in their order.
Callbacks(revents) ==
    (IF "EPOLLHUP" \in revents /\ "EPOLLIN" \notin revents
        THEN <<"close">> ELSE <<>>)
    \o (IF "EPOLLERR" \in revents THEN <<"error">> ELSE <<>>)
    \o (IF "EPOLLIN" \in revents THEN <<"read">> ELSE <<>>)
    \o (IF "EPOLLOUT" \in revents THEN <<"write">> ELSE <<>>)
=============================================================================
