---------------------------- MODULE ItemRegistry ----------------------------
(***************************************************************************)
(* What Share-Home promises the people of a household about the things     *)
(* they share, without SQLite, the SMB share or any request in it.  An     *)
(* item is listed once, from its INSERT to its DELETE; it leaves the list  *)
(* only after somebody asked to delete it or its expiry time passed; once  *)
(* gone it never comes back.  Vault implements this module, and all steps  *)
(* of BulkActions are steps of it.                                         *)
(***************************************************************************)
EXTENDS Naturals

CONSTANT Items          \* every file and clipboard entry there can be

VARIABLES
    status,             \* [Items -> {"unborn", "listed", "gone"}]
    condemned,          \* items a delete was asked for, or that expired
    confirmed,          \* items whose creator was told 201 (303 for share)
    served              \* [Items -> Nat], how often a file was handed out

vars == <<status, condemned, confirmed, served>>

Listed == {i \in Items : status[i] = "listed"}
Born   == {i \in Items : status[i] # "unborn"}

Init ==
    /\ status = [i \in Items |-> "unborn"]
    /\ condemned = {}
    /\ confirmed = {}
    /\ served = [i \in Items |-> 0]

Publish(i) ==
    /\ status[i] = "unborn"
    /\ status' = [status EXCEPT ![i] = "listed"]
    /\ UNCHANGED <<condemned, confirmed, served>>

Confirm(i) ==
    /\ i \in Born
    /\ confirmed' = confirmed \cup {i}
    /\ UNCHANGED <<status, condemned, served>>

\* A download that found the item listed may finish after the item is gone.
Serve(i) ==
    /\ i \in Born
    /\ served' = [served EXCEPT ![i] = @ + 1]
    /\ UNCHANGED <<status, condemned, confirmed>>

Condemn(i) ==
    /\ i \in Listed
    /\ condemned' = condemned \cup {i}
    /\ UNCHANGED <<status, confirmed, served>>

\* One delete takes one item away, one purge a whole set of them.
Retire(S) ==
    /\ S \subseteq Listed \cap condemned
    /\ status' = [i \in Items |-> IF i \in S THEN "gone" ELSE status[i]]
    /\ UNCHANGED <<condemned, confirmed, served>>

Next ==
    \/ \E i \in Items : Publish(i) \/ Confirm(i) \/ Serve(i) \/ Condemn(i)
    \/ \E S \in SUBSET Items : Retire(S)

Spec == Init /\ [][Next]_vars
=============================================================================
