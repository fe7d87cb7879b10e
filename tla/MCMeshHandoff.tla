--------------------------- MODULE MCMeshHandoff ---------------------------
(* Model checking of MeshHandoff: brokers and entities are interchangeable. *)
EXTENDS MeshHandoff, TLC

Symmetry == Permutations(Brokers) \cup Permutations(Entities)
=============================================================================
