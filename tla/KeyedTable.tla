---------------------------- MODULE KeyedTable ----------------------------
(***************************************************************************)
(* What a table with a primary key id and a UNIQUE column u promises: a    *)
(* set of rows in which no two rows share an id or a u, changed one row at *)
(* a time or by removing rows.  Table implements it (with respect to the   *)
(* statements it names) through four redundant structures.                 *)
(***************************************************************************)
CONSTANT Rows       \* the rows a client may write: records with id and u

VARIABLE rel        \* the rows the table holds

(* No row of S holds a key of r. *)
Unused(r, S) == \A s \in S : s.id # r.id /\ s.u # r.u

Add(r) == Unused(r, rel) /\ rel' = rel \cup {r}

Change(r, s) ==
    /\ r \in rel /\ Unused(s, rel \ {r})
    /\ rel' = (rel \ {r}) \cup {s}

RemoveSome == rel' \subseteq rel

KeyedInit == rel = {}

KeyedNext ==
    \/ RemoveSome
    \/ \E r \in Rows : Add(r)
    \/ \E r \in rel, s \in Rows : Change(r, s)

KeyedSpec == KeyedInit /\ [][KeyedNext]_rel
=============================================================================
