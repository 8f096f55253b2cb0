---------------------------- MODULE MCEventLoop ----------------------------
(* EventLoop for TLC: the callers are interchangeable model values. *)
EXTENDS EventLoop, TLC

Symmetry == Permutations(Callers)
=============================================================================
