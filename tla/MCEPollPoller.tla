--------------------------- MODULE MCEPollPoller ---------------------------
(* EPollPoller for TLC: addresses and descriptors are interchangeable. *)
EXTENDS EPollPoller, TLC

Symmetry == Permutations(ChannelPtr) \cup Permutations(Fd)
=============================================================================
