-------------------------------- MODULE Paths --------------------------------
(***************************************************************************)
(* Access paths: how a SELECT finds the rows of its WHERE clause by the    *)
(* primary key, a trigram index or a BTREE index instead of a scan.  What  *)
(* a path proposes is filtered by the WHERE clause again, so a path may    *)
(* propose too much and never too little.                                  *)
(*                                                                         *)
(* A table is a sequence of rows, a row a function from columns to values  *)
(* of the column's type or NULL; its keys and indexes are in step with its *)
(* rows, which is the subject of module Table.                             *)
(***************************************************************************)
EXTENDS Values

CONSTANTS Types,       \* column -> its type
          PkColumns,   \* the columns of the primary key
          BTree,       \* columns with a BTREE index
          Trigram      \* columns with a TRIGRAM index

ASSUME PathsAssumption ==
    /\ PkColumns \cup BTree \cup Trigram \subseteq DOMAIN Types
    /\ \A c \in DOMAIN Types : Types[c] \in {"bool", "int", "float", "string"}

(* A WHERE clause is the sequence of the conditions its ANDs join.         *)
Cmp(col, op, lit) == [kind |-> "cmp", col |-> col, op |-> op, lit |-> lit, flipped |-> FALSE]
Flipped(c) == [c EXCEPT !.flipped = TRUE]                \* 5 < v
Between(col, lo, hi) == [kind |-> "between", col |-> col, lo |-> lo, hi |-> hi]
Like(col, pat) == [kind |-> "like", col |-> col, pat |-> pat]

-----------------------------------------------------------------------------
(* eval_expr of a WHERE clause for one row: the scan. *)
Holds(c, row) ==
    LET v == row[c.col]
    IN  CASE c.kind = "cmp" -> IF c.flipped THEN Compares(c.lit, c.op, v)
                               ELSE Compares(v, c.op, c.lit)
          [] c.kind = "between" -> ~Less(v, c.lo) /\ ~Less(c.hi, v)
          [] c.kind = "like" -> LikeMatch(Text(v), c.pat)
Keeps(where, row) == \A i \in DOMAIN where : Holds(where[i], row)
Scan(where, t) == {i \in DOMAIN t : Keeps(where, t[i])}

(* A path yields the rows it proposes, {} when it does not apply.          *)
Equalities(where) == SelectSeq(where, LAMBDA c : c.kind = "cmp" /\ c.op = "=")

(* try_pk_index: the equalities pin every column of the key, once each;    *)
(* other conditions do not matter here.                                    *)
PkPath(where, t) ==
    LET eqs == Equalities(where)
        cols == {eqs[i].col : i \in DOMAIN eqs}
        asStored(i) == IF Fits(eqs[i].lit, Types[eqs[i].col]) THEN {eqs[i].lit}
                       ELSE Coerced(eqs[i].lit, Types[eqs[i].col])
    IN  IF PkColumns = {} \/ cols # PkColumns \/ Len(eqs) # Cardinality(cols)
           \/ \E i \in DOMAIN eqs : asStored(i) = {}
        THEN {}
        ELSE {{r \in DOMAIN t : \A i \in DOMAIN eqs :
                 \A v \in asStored(i) : EncodePart(t[r][eqs[i].col]) = EncodePart(v)}}

(* longest_literal_run of a LIKE pattern: the first of the longest. *)
LongestRun(pat) ==
    LET wild == {37, 95}
        runs == {<<i, j>> \in (1..Len(pat)) \X (0..Len(pat)) :
                   j >= i /\ \A k \in i..j : pat[k] \notin wild}
        longest == {r \in runs : \A q \in runs : q[2] - q[1] <= r[2] - r[1]}
    IN  IF runs = {} THEN <<>>
        ELSE LET r == CHOOSE r \in longest : \A q \in longest : r[1] <= q[1]
             IN  SubSeq(pat, r[1], r[2])

Windows3(s) == {SubSeq(s, i, i + 2) : i \in 1..(Len(s) - 2)}
Trigrams(v) ==
    LET text == IF v = Null THEN <<>> ELSE Lower(Text(v))
    IN  Windows3(<<32, 32>> \o text \o <<32, 32>>)

(* like_candidates: the rows that have every three letters of the run, as  *)
(* far as any row has them; none when no row has any.                      *)
LikeCandidates(run, col, t) ==
    LET known == Windows3(Lower(run)) \cap UNION {Trigrams(t[r][col]) : r \in DOMAIN t}
    IN  IF known = {} THEN {} ELSE {r \in DOMAIN t : known \subseteq Trigrams(t[r][col])}

(* try_trigram_index: of no use when no row or every row is a candidate.   *)
TrigramPath(where, t) ==
    IF Len(where) # 1 \/ where[1].kind # "like" THEN {}
    ELSE LET c == where[1]
             found == LikeCandidates(LongestRun(c.pat), c.col, t)
         IN  IF c.col \notin Trigram \/ Len(LongestRun(c.pat)) < 3 \/ found \in {{}, DOMAIN t}
             THEN {} ELSE {found}

(* coerce_bound: a fraction is floored, so that a bound stays on its side. *)
Bound(v, type) ==
    IF v = Null THEN {}
    ELSE IF Fits(v, type) THEN {v}
    ELSE IF type = "int" /\ v.type = "float" THEN {IntVal(v.h \div 2)}
    ELSE Coerced(v, type)

Flip(op) == CASE op = "<" -> ">" [] op = "<=" -> ">=" [] op = ">" -> "<" [] op = ">=" -> "<="

(* increment_last_byte: with it, the keys that begin with k are those from *)
(* k up to, and not including, this one.                                   *)
Incremented(k) == [k EXCEPT ![Len(k)] = @ + 1]

(* Mutant: the rows at the bound are left out of `<`, as they are of the   *)
(* condition itself.                                                       *)
InBoundsStrict(k, op, b) ==
    CASE op = ">" -> TextLess(b, k)
      [] op = ">=" -> ~TextLess(k, b)
      [] op = "<" -> TextLess(k, b)
      [] op = "<=" -> ~TextLess(b, k)

InBounds(k, op, b) ==
    CASE op = ">" -> TextLess(b, k)
      [] op = ">=" -> ~TextLess(k, b)
      [] op \in {"<", "<="} -> ~TextLess(b, k)

(* range_bounds and BTreeIndex::range: the rows in the range of the index  *)
(* a condition asks for, {} when it has no such range.                     *)
RangeRows(c, t) ==
    LET type == Types[c.col]
        key(r) == EncodeKey(t[r][c.col])
    IN  CASE c.kind = "cmp" /\ c.op \in {"<", "<=", ">", ">="} ->
               {{r \in DOMAIN t : InBounds(key(r), IF c.flipped THEN Flip(c.op) ELSE c.op,
                                           EncodeKey(b))} : b \in Bound(c.lit, type)}
          [] c.kind = "between" ->
               {{r \in DOMAIN t : InBounds(key(r), ">=", EncodeKey(b[1]))
                                  /\ InBounds(key(r), "<=", EncodeKey(b[2]))} :
                  b \in {b \in Bound(c.lo, type) \X Bound(c.hi, type) :
                           ~TextLess(EncodeKey(b[2]), EncodeKey(b[1]))}}
          [] c.kind = "like" /\ type = "string" /\ Len(c.pat) > 1 /\ Last(c.pat) = 37
               /\ ToSet(Front(c.pat)) \cap {37, 95} = {} ->
               LET low == EncodeKey(StrVal(Front(c.pat)))
               IN  {{r \in DOMAIN t : ~TextLess(key(r), low)
                                      /\ TextLess(key(r), Incremented(low))}}
          [] OTHER -> {}

(* try_btree_index: the literal of an equality is looked up as it is, not  *)
(* as the column would store it; a range is of no use when it is all rows. *)
BTreePath(where, t) ==
    IF Len(where) # 1 \/ where[1].col \notin BTree THEN {}
    ELSE LET c == where[1]
         IN  IF c.kind = "cmp" /\ c.op = "="
             THEN {{r \in DOMAIN t : EncodeKey(t[r][c.col]) = EncodeKey(c.lit)}}
             ELSE {rows \in RangeRows(c, t) : rows # DOMAIN t}

(* exec_select_rows, 1.: the first path that applies, and the filter.      *)
Proposed(where, t) ==
    IF PkPath(where, t) # {} THEN UNION PkPath(where, t)
    ELSE IF TrigramPath(where, t) # {} THEN UNION TrigramPath(where, t)
    ELSE IF BTreePath(where, t) # {} THEN UNION BTreePath(where, t)
    ELSE DOMAIN t
Found(where, t) == {r \in Proposed(where, t) : Keeps(where, t[r])}
=============================================================================
