--------------------------- MODULE IdentityStore ---------------------------
(***************************************************************************)
(* What the broker promises about entity identity, whatever its log, its   *)
(* staging queues, its compaction and its restarts do: an id becomes live  *)
(* by being created, stops being live only by being deleted, and a deleted *)
(* id is deleted for good.  There is no crash and no log in this module:   *)
(* Durability implements it, so a restart must be invisible here.          *)
(***************************************************************************)
CONSTANT Entities

VARIABLES live, deleted

vars == <<live, deleted>>

Init == live = {} /\ deleted = {}

Create(e) ==
    /\ e \notin live \cup deleted
    /\ live' = live \cup {e}
    /\ UNCHANGED deleted

Delete(e) ==
    /\ e \in live
    /\ live' = live \ {e}
    /\ deleted' = deleted \cup {e}

Next == \E e \in Entities : Create(e) \/ Delete(e)

Spec == Init /\ [][Next]_vars
=============================================================================
