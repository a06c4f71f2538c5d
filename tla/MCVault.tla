------------------------------ MODULE MCVault ------------------------------
(***************************************************************************)
(* Vault for TLC.  Ids and requests of one kind are interchangeable.       *)
(***************************************************************************)
EXTENDS Vault, TLC

Symmetry ==
    Permutations(Files) \cup Permutations(Clips) \cup Permutations(Requests)
=============================================================================
