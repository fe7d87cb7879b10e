---------------------------- MODULE MCDurability ----------------------------
(***************************************************************************)
(* Model checking of Durability, over every schedule (Spec) and over the   *)
(* restricted ones of DurabilitySchedules.                                 *)
(***************************************************************************)
EXTENDS DurabilitySchedules, TLC

Symmetry == Permutations(Workers) \cup Permutations(Regions) \cup Permutations(Entities)
=============================================================================
