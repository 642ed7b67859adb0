--------------------------- MODULE MCForwarding ---------------------------
(* Forwarding between a game server, a relay and a database server. *)
EXTENDS Forwarding

CONSTANTS game, relay, base, player, console, admin

(* The game server forwards to the relay and the relay to the database. *)
MCProcs == {game, relay, base}
MCChain == [p \in MCProcs |-> CASE p = game -> relay [] p = relay -> base [] p = base -> NoProc]
MCHome == [c \in Callers |-> CASE c = player -> game [] c = console -> relay [] c = admin -> base]

(* CONNECT without arguments reaches the process's own listener. *)
MCLoop == [p \in MCProcs |-> CASE p = game -> game [] p = relay -> base [] p = base -> NoProc]

MCRequests == {<<"sql">>, <<"quit">>, <<"sql", "blank", "quit">>}
MCOneLine == {<<"sql">>, <<"quit">>}
=============================================================================
