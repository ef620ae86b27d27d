------------------------- MODULE MCDistributedMemory -------------------------
(***************************************************************************)
(* Two nodes: two writers on the first, one on the second.                 *)
(***************************************************************************)
EXTENDS DistributedMemory, TLC

CONSTANTS a, b, k1, w1, w2, w3, v1, v2

TwoNodes == [w \in {w1, w2, w3} |-> IF w = w3 THEN b ELSE a]

\* Writers of one node are alike, and so are the values.
Symmetry == Permutations({w1, w2}) \union Permutations({v1, v2})
=============================================================================
