------------------------------ MODULE ByteQueue ------------------------------
(***************************************************************************)
(* What a Buffer promises: the bytes that go in come out once, in order.   *)
(* Buffer.tla is shown to implement it.                                    *)
(***************************************************************************)
EXTENDS Integers, Sequences

CONSTANT Byte

VARIABLES
    content,        \* the readable bytes, oldest first
    in,             \* the bytes most recently put in
    out             \* the bytes most recently handed out

vars == <<content, in, out>>

Prefix(n) == SubSeq(content, 1, n)
Rest(n) == SubSeq(content, n + 1, Len(content))

Init == content = <<>> /\ in = <<>> /\ out = <<>>

Put ==
    /\ in' \in Seq(Byte)
    /\ content' = content \o in'
    /\ UNCHANGED out

\* The first n bytes are dropped.
Drop(n) == content' = Rest(n) /\ UNCHANGED <<in, out>>

\* The first n bytes are handed out and dropped.
Take(n) == content' = Rest(n) /\ out' = Prefix(n) /\ UNCHANGED in

\* The first n bytes are handed out and stay.
Peek(n) == out' = Prefix(n) /\ UNCHANGED <<content, in>>

Next == Put \/ \E n \in 0..Len(content) : Drop(n) \/ Take(n) \/ Peek(n)

Spec == Init /\ [][Next]_vars
=============================================================================
