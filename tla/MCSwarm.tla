------------------------------- MODULE MCSwarm -------------------------------
(***************************************************************************)
(* Instances of Swarm.  Migrations are alike.                              *)
(***************************************************************************)
EXTENDS Swarm, TLC

Symmetry == Permutations(Teleports)
=============================================================================
