---------------------------- MODULE MCSMBSession ----------------------------
(***************************************************************************)
(* SMBSession on small instances; the calls are interchangeable.           *)
(***************************************************************************)
EXTENDS SMBSession, TLC

Symmetry == Permutations(Calls)
=============================================================================
