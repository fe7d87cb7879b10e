------------------------------- MODULE Names -------------------------------
(***************************************************************************)
(* What the models of the regions of one broker name: workers, entities,   *)
(* and nobody.                                                             *)
(***************************************************************************)
CONSTANTS Workers, Entities, None
=============================================================================
