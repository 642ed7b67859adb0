----------------------------- MODULE MCServer -----------------------------
(* Server on small sets of ports, connections and credentials. *)
EXTENDS Server, TLC

Symmetry == Permutations(Ports) \cup Permutations(Conns) \cup Permutations(Credentials)
=============================================================================
