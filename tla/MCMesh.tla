-------------------------------- MODULE MCMesh --------------------------------
(***************************************************************************)
(* Instances of Mesh: two engines whose sessions draw any of a few ids in  *)
(* any order.                                                              *)
(***************************************************************************)
EXTENDS Mesh

CONSTANTS c1, c2, none

MCIds == 1..4
=============================================================================
