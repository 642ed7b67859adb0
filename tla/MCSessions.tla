----------------------------- MODULE MCSessions -----------------------------
(* Sessions for TLC: the game and one TCP client, and the rows a and b,    *)
(* which every batch inserts or deletes together.                          *)
EXTENDS Sessions

CONSTANTS a, b

MCRows == {a, b}
MCParams == {<<>>}
MCLower == [n \in Names |-> "c"]
MCBatches ==
    { <<Stmt("insert", a), Stmt("insert", b)>>,
      <<Stmt("begin", <<>>), Stmt("delete", a), Stmt("delete", b)>>,
      <<Stmt("select", <<>>), Stmt("rollback", <<>>)>>,
      <<Stmt("create", <<>>), Stmt("panic", <<>>)>> }

\* What the theorem on paired rows asks of the batches holds of these.
ASSUME MCPremises == PairedBatches
=============================================================================
