------------------------------- MODULE Joins -------------------------------
(***************************************************************************)
(* Joins: the tables of a FROM clause are joined one after the other by    *)
(* nested loops over row numbers; a joined row is the row numbers of its   *)
(* tables, 0 standing for NULLs; and which rows there should be.           *)
(*                                                                         *)
(* A source is [name, rows, cols], cols its columns in order.  A join is   *)
(* [kind, con]: how the source at the same place, the first excepted, is   *)
(* joined; con is "none", ON one comparison of two columns, USING columns  *)
(* or NATURAL.  A column is referred to as [name, col].                    *)
(***************************************************************************)
EXTENDS Values

Tbl(name, rows, cols) == [name |-> name, rows |-> rows, cols |-> cols]
Ref(name, col) == [name |-> name, col |-> col]
On(left, op, right) == [kind |-> "on", left |-> left, op |-> op, right |-> right]
Using(cols) == [kind |-> "using", cols |-> cols]
Natural == [kind |-> "natural"]
Unconstrained == [kind |-> "none"]
Join(kind, con) == [kind |-> kind, con |-> con]

(* bf: the values of a joined row, each source's or NULLs. *)
Cells(sources, x) ==
    [i \in DOMAIN x |-> [c \in ToSet(sources[i].cols) |->
                           IF x[i] = 0 THEN Null ELSE sources[i].rows[x[i]][c]]]

(* col_map: a qualified name is its source's column; a bare one, or one    *)
(* whose qualifier is no source, that of the last source that has it.      *)
PlaceOfRef(sources, ref) ==
    LET having == {i \in DOMAIN sources : ref.col \in ToSet(sources[i].cols)}
        named == {i \in having : sources[i].name = ref.name}
    IN  IF named # {} THEN Max(named) ELSE Max(having)

(* The first source on the left that has a column of the right one.        *)
CommonPairs(sources, k, cols) ==
    LET owners(c) == {i \in 1..(k - 1) : c \in ToSet(sources[i].cols)}
    IN  {<<c, Min(owners(c))>> : c \in {c \in cols : owners(c) # {}
                                                   /\ c \in ToSet(sources[k].cols)}}

(* Mutant: USING and NATURAL take two NULLs for the same.                  *)
MatchesNulls(sources, k, con, x) ==
    LET cells == Cells(sources, x)
        value(ref) == cells[PlaceOfRef(sources, ref)][ref.col]
        common == CommonPairs(sources, k,
                              IF con.kind = "using" THEN con.cols ELSE ToSet(sources[k].cols))
    IN  CASE con.kind = "none" -> TRUE
          [] con.kind = "on" -> Compares(value(con.left), con.op, value(con.right))
          [] con.kind \in {"using", "natural"} ->
               \A p \in common : cells[p[2]][p[1]] = cells[k][p[1]]

(* ON, USING, NATURAL for a row that ends with source k.                   *)
Matches(sources, k, con, x) ==
    LET cells == Cells(sources, x)
        value(ref) == cells[PlaceOfRef(sources, ref)][ref.col]
        common == CommonPairs(sources, k,
                              IF con.kind = "using" THEN con.cols ELSE ToSet(sources[k].cols))
    IN  CASE con.kind = "none" -> TRUE
          [] con.kind = "on" -> Compares(value(con.left), con.op, value(con.right))
          [] con.kind \in {"using", "natural"} ->
               \A p \in common : Equal(cells[p[2]][p[1]], cells[k][p[1]])

(* A column the name of which a later source has too, or which is one of   *)
(* its own, is beyond the row's end: evaluating the condition panics.      *)
OutOfBounds(sources, joins) ==
    \E k \in 2..Len(sources) :
      /\ joins[k - 1].con.kind = "on"
      /\ \/ PlaceOfRef(sources, joins[k - 1].con.left) > k
         \/ PlaceOfRef(sources, joins[k - 1].con.right) > k

KeepsLeft(join) == join.kind \in {"left", "full"}
KeepsRight(join) == join.kind \in {"right", "full"}

(* The members of a set of numbers up to n, in their order. *)
Ascending(n, set) ==
    LET acc[i \in 0..n] ==
          IF i = 0 THEN <<>> ELSE IF i \in set THEN Append(acc[i - 1], i) ELSE acc[i - 1]
    IN  acc[n]

(* One turn of the loop: source k joined to the rows so far.               *)
Lengthened(x, rs) == [h \in DOMAIN rs |-> Append(x, rs[h])]
Nulls(n) == [p \in 1..n |-> 0]
Hits(sources, k, con, x) ==
    Ascending(Len(sources[k].rows), {r \in DOMAIN sources[k].rows : Matches(sources, k, con, Append(x, r))})
With(sources, k, join, x) ==
    LET rs == Hits(sources, k, join.con, x)
    IN  IF rs = <<>> /\ KeepsLeft(join) THEN <<Append(x, 0)>> ELSE Lengthened(x, rs)
Alone(sources, k, join, rows) ==
    IF KeepsRight(join)
    THEN Ascending(Len(sources[k].rows),
                   {r \in DOMAIN sources[k].rows :
                      \A i \in DOMAIN rows : ~Matches(sources, k, join.con, Append(rows[i], r))})
    ELSE <<>>
JoinNext(sources, k, join, rows) ==
    FlattenSeq([i \in DOMAIN rows |-> With(sources, k, join, rows[i])])
      \o Lengthened(Nulls(k - 1), Alone(sources, k, join, rows))

Joined(sources, joins) ==
    LET rows[k \in 1..Len(sources)] ==
          IF k = 1 THEN Lengthened(<<>>, [r \in DOMAIN sources[1].rows |-> r])
          ELSE JoinNext(sources, k, joins[k - 1], rows[k - 1])
    IN  rows[Len(sources)]

-----------------------------------------------------------------------------
(* Which rows there should be.  A row of the first k sources belongs when  *)
(* its parts match, or when it is a row an outer join keeps and nothing on *)
(* the other side matches it.  A column that both sides have is compared   *)
(* with the first source on the left that has it.                          *)
Owns(sources, i, c) == c \in ToSet(sources[i].cols)
Meets(sources, con, x) ==
    LET k == Len(x)
        value(ref) == Cells(sources, x)[PlaceOfRef(sources, ref)][ref.col]
    IN  CASE con.kind = "none" -> TRUE
          [] con.kind = "on" -> Compares(value(con.left), con.op, value(con.right))
          [] OTHER -> \A i \in 1..(k - 1), c \in ToSet(sources[k].cols) :
                        /\ Owns(sources, i, c) /\ \A j \in 1..(i - 1) : ~Owns(sources, j, c)
                        /\ con.kind = "natural" \/ c \in con.cols
                        => Compares(Cells(sources, x)[i][c], "=", Cells(sources, x)[k][c])

Pairs(sources, k, con, lefts) ==
    {p \in lefts \X DOMAIN sources[k].rows : Meets(sources, con, Append(p[1], p[2]))}
Belonging(sources, k, join, lefts) ==
    LET pairs == Pairs(sources, k, join.con, lefts)
        unmet == {r \in DOMAIN sources[k].rows : \A p \in pairs : p[2] # r}
    IN  {Append(p[1], p[2]) : p \in pairs}
          \cup (IF KeepsLeft(join) THEN {Append(x, 0) : x \in {x \in lefts : \A p \in pairs : p[1] # x}} ELSE {})
          \cup (IF KeepsRight(join) THEN {Append(Nulls(k - 1), r) : r \in unmet} ELSE {})
Wanted(sources, joins) ==
    LET rows[k \in 1..Len(sources)] ==
          IF k = 1 THEN {<<r>> : r \in DOMAIN sources[1].rows}
          ELSE Belonging(sources, k, joins[k - 1], rows[k - 1])
    IN  rows[Len(sources)]

(* Every row that belongs is there, once, and no other; and a RIGHT join   *)
(* of two sources is the LEFT join of them the other way round.            *)
Mirrored(kind) == CASE kind = "left" -> "right" [] kind = "right" -> "left" [] OTHER -> kind
TurnedRound(sources, joins) == Joined(Reverse(sources), <<Join(Mirrored(joins[1].kind), joins[1].con)>>)
RowsRight(sources, joins, rows) ==
    /\ IsInjective(rows)
    /\ ToSet(rows) = Wanted(sources, joins)
    /\ Len(sources) = 2 => ToSet(rows) = {Reverse(x) : x \in ToSet(TurnedRound(sources, joins))}
JoinRight(sources, joins) ==
    OutOfBounds(sources, joins) \/ RowsRight(sources, joins, Joined(sources, joins))
=============================================================================
