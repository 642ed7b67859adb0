--------------------------- MODULE MCPersistence ---------------------------
(* Model checking Persistence.  Three table contents are the least that    *)
(* tells the last, the previous and the next save apart; the two that are  *)
(* not the empty database are interchangeable.                             *)
EXTENDS Persistence, TLC

Symmetry == Permutations(Data \ {NoData})
=============================================================================
