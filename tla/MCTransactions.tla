-------------------------- MODULE MCTransactions --------------------------
(* Transactions on small sets of clients, items and names. *)
EXTENDS Transactions, TLC

Symmetry == Permutations(Clients) \cup Permutations(Items) \cup Permutations(Names)
=============================================================================
