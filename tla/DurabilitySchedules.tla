------------------------ MODULE DurabilitySchedules ------------------------
(***************************************************************************)
(* Restricted schedules of Durability.  In a serial one an entity is left  *)
(* alone while a transition of its own is staged; in a settled one,        *)
(* besides, no write of an entity follows, in one batch, the write that    *)
(* crosses a region boundary.  The broker enforces neither: they are the   *)
(* schedules in which what is staged for an entity does not overtake what  *)
(* else happens to it.                                                     *)
(***************************************************************************)
EXTENDS Durability

Grants(e) == {i \in DOMAIN failovers : failovers[i].grants[e] # None}
\* How many transitions of e are staged, a run of writes counting once.
Staged(e) ==
    (IF writes[e] # <<>> THEN 1 ELSE 0) + (IF handoffs[e] # None THEN 1 ELSE 0)
        + Cardinality(Grants(e))

\* The step stages a second transition of e, or logs or applies something else
\* for e while one is staged.
Overlaps(e) ==
    \/ Staged(e)' > 1
    \/ /\ Staged(e) > 0
       /\ writes'[e] = writes[e] /\ handoffs'[e] = handoffs[e]
       /\ Grants(e)' = Grants(e)
       /\ \/ logged'.entities[e] # logged.entities[e]
          \/ entities'[e] # entities[e]

SerialNext == Next /\ \A e \in Entities : ~Overlaps(e)
SerialSpec == Init /\ [][SerialNext]_vars

WritesPastCrossing(e) ==
    \E i \in 1..(Len(writes[e]) - 1) :
        writes[e][i].comp = "pos" /\ writes[e][i].val # entities[e].region
SettledNext == SerialNext /\ \A e \in Entities : ~WritesPastCrossing(e)'
SettledSpec == Init /\ [][SettledNext]_vars
=============================================================================
