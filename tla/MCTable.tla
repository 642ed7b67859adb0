------------------------------ MODULE MCTable ------------------------------
(* Table on small sets of keys and values. *)
EXTENDS Table, TLC

CONSTANTS a, b

(* The CHECK of the instance: one combination of id and u is forbidden. *)
MCChecked == Row \ {[id |-> 2, u |-> Null]}

MCAllRows == Row

Symmetry == Permutations({a, b})
=============================================================================
