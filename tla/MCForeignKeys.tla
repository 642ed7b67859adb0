--------------------------- MODULE MCForeignKeys ---------------------------
(* A parent p with three kinds of children, a log g and a guarded table h.   *)
EXTENDS ForeignKeys, TLC

p == "p"
c == "c"   \* ON DELETE CASCADE, indexed
s == "s"   \* ON DELETE SET NULL ON UPDATE CASCADE
r == "r"   \* no action: RESTRICT
g == "g"   \* filled by a trigger on p, fires itself
h == "h"   \* BEFORE INSERT raises; BEFORE UPDATE deletes

MCOrder == <<c, g, h, p, r, s>>
MCParent == [t \in Tables |-> IF t \in {c, r, s} THEN p ELSE None]
MCOnDelete == [t \in Tables |-> CASE t = c -> "CASCADE" [] t = s -> "SET NULL" [] OTHER -> "RESTRICT"]
MCOnUpdate == [t \in Tables |-> IF t = s THEN "CASCADE" ELSE "RESTRICT"]
MCIndexed == {c}

Insert(t, k, v) == [op |-> "INSERT", table |-> t, id |-> k, ref |-> v, mode |-> "plain", returning |-> FALSE]
Delete(t, ks) == [op |-> "DELETE", table |-> t, ids |-> ks, returning |-> FALSE]
Update(t, k, col, v) == [op |-> "UPDATE", table |-> t, id |-> k, col |-> col, val |-> v, returning |-> FALSE]
Upsert(t, k, v) == [Insert(t, k, v) EXCEPT !.mode = "upsert"] @@ [set |-> v]
RaiseBody == [op |-> "RAISE", table |-> None]

MCBodies ==
    [x \in Tables \X {"BEFORE", "AFTER"} \X {"INSERT", "UPDATE", "DELETE"} |->
       CASE x = <<p, "AFTER", "INSERT">>  -> <<Insert(g, 1, None), Insert(h, 1, None)>>
         [] x = <<g, "AFTER", "INSERT">>  -> <<Insert(g, NewPlus1, None), Insert(h, New, None)>>
         [] x = <<c, "AFTER", "INSERT">>  -> <<Insert(g, New, None)>>
         [] x = <<g, "AFTER", "UPDATE">>  -> <<Update(g, New, "ref", None)>>
         [] x = <<r, "BEFORE", "INSERT">> -> <<Update(g, New, "ref", 1)>>
         [] x = <<h, "BEFORE", "INSERT">> -> <<RaiseBody>>
         [] x = <<h, "BEFORE", "UPDATE">> -> <<Delete(h, {1})>>
         [] x = <<r, "BEFORE", "DELETE">> -> <<RaiseBody>>
         [] OTHER -> <<>>]

MCClientStmts ==
    LET some == {1, 2}
    IN  {Insert(p, k, None) : k \in some} \cup {Insert(s, 1, v) : v \in some} \cup {Insert(r, 1, 1)}
        \cup {Insert(c, k, v) : k \in some, v \in some}
        \cup {[Insert(c, 1, 2) EXCEPT !.mode = "ignore", !.returning = TRUE],
              [Insert(s, 1, 2) EXCEPT !.mode = "replace"], Upsert(c, 1, 1)}
        \cup {Delete(p, {k}) : k \in some} \cup {Delete(p, some), Delete(c, {1}), Delete(r, {1}), Delete(g, some)}
        \cup {Update(p, k, "id", 3 - k) : k \in some}
        \cup {Update(c, 1, "ref", 2), Update(g, 1, "ref", None), Update(h, 1, "ref", None)}

\* What the theorems ask of a schema holds of this one.
ASSUME MCPremises == WritesAreIndexed /\ ReferencesGuarded /\ BodiesApart /\ RefusalsApart
=============================================================================
