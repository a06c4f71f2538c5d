---------------------------- MODULE MCSSEBroker ----------------------------
(***************************************************************************)
(* SSEBroker for TLC.  The configurations give the sets; symmetry is used  *)
(* only where no liveness is checked.                                      *)
(***************************************************************************)
EXTENDS SSEBroker, TLC

Symmetry == Permutations(Streams) \cup Permutations(Addrs)
              \cup Permutations(Broadcasts)
=============================================================================
