------------------------------- MODULE Groups -------------------------------
(***************************************************************************)
(* What a SELECT on one table does with the rows its WHERE clause kept:    *)
(* groups and their aggregates, HAVING, DISTINCT, ORDER BY, LIMIT and the  *)
(* columns of the answer; and what that means.                             *)
(*                                                                         *)
(* An item is a column or an aggregate over one; an expression that fails  *)
(* is NULL in the answer.  SUM's overflow is not modelled.                 *)
(***************************************************************************)
EXTENDS Values

NoFilter == <<>>
Column(col) == [fn |-> "column", col |-> col, filter |-> NoFilter, aliased |-> FALSE]
Aggregate(fn, col) == [fn |-> fn, col |-> col, filter |-> NoFilter, aliased |-> FALSE]
Filtered(item, col, op, lit) == [item EXCEPT !.filter = <<[col |-> col, op |-> op, lit |-> lit]>>]
Aliased(item) == [item EXCEPT !.aliased = TRUE]

(* group: columns; having: <<>> or <<[item, op, lit]>>; distinct: "no",    *)
(* "yes" or "on" the columns on; order: [item, asc]; limit: a set of at    *)
(* most one number.                                                        *)
Select(items) == [items |-> items, group |-> <<>>, having |-> <<>>, distinct |-> "no",
                  on |-> <<>>, order |-> <<>>, offset |-> 0, limit |-> {}]

IsAggregate(item) == item.fn # "column"
HasAggregate(q) == \E i \in DOMAIN q.items : IsAggregate(q.items[i])

-----------------------------------------------------------------------------
(* One group's value of an item: eval_projection_expr.                     *)
Passes(item, row) ==
    \A i \in DOMAIN item.filter :
      Compares(row[item.filter[i].col], item.filter[i].op, item.filter[i].lit)
Passing(item, group) == SelectSeq(group, LAMBDA row : Passes(item, row))
ValuesOf(item, rows) == [i \in DOMAIN rows |-> rows[i][item.col]]
NotNull(vs) == SelectSeq(vs, LAMBDA v : v # Null)
SumSeq(ns) == FoldLeft(+, 0, ns)

(* What AVG answers; the quotient is left as it is. *)
Average(sum, count) == [type |-> "avg", sum |-> sum, count |-> count]

(* min_by and max_by: of equals the first, or the last. *)
Best(fn, vs) ==
    FoldLeft(LAMBDA best, v : IF Less(v, best) = (fn = "min") THEN v ELSE best, vs[1], Tail(vs))

SumHalves(numbers) == SumSeq([i \in DOMAIN numbers |-> CHOOSE h \in Number(numbers[i]) : TRUE])

(* aggregate_sum: the first row decides the type, whether it passes the    *)
(* filter or not; a FLOAT sum takes no notice of the filter.               *)
Sum(item, group, vs) ==
    LET ints == SelectSeq(vs, LAMBDA v : v.type = "int")
    IN  CASE group = <<>> \/ ~Numeric(group[1][item.col]) -> Null
          [] group[1][item.col].type = "int" -> IntVal(SumSeq([i \in DOMAIN ints |-> ints[i].n]))
          [] group[1][item.col].type = "float" ->
               FloatVal(SumHalves(SelectSeq(ValuesOf(item, group), Numeric)))

Avg(vs) ==
    LET numbers == SelectSeq(vs, Numeric)
    IN  IF numbers = <<>> THEN Null ELSE Average(SumHalves(numbers), Len(numbers))

(* Mutant: MIN and MAX take NULL for a value, as ORDER BY does.            *)
ExtremeWithNull(fn, vs) == IF vs = <<>> THEN Null ELSE Best(fn, vs)

(* aggregate_min and aggregate_max. *)
Extreme(fn, vs) == IF NotNull(vs) = <<>> THEN Null ELSE Best(fn, NotNull(vs))

GroupConcat(texts) ==
    StrVal(FoldLeft(LAMBDA acc, i : acc \o (IF i = 1 THEN <<>> ELSE <<44>>) \o Text(texts[i]),
                    <<>>, [i \in DOMAIN texts |-> i]))

(* vs are the values of the item's column in the rows that pass its filter. *)
AggregateOf(item, group, vs) ==
    CASE item.fn = "column" -> IF group = <<>> THEN Null ELSE group[1][item.col]
      [] item.fn = "count*" -> IntVal(Len(vs))
      [] item.fn = "count" -> IntVal(Len(NotNull(vs)))
      [] item.fn = "count distinct" -> IntVal(Cardinality(ToSet(vs)))
      [] item.fn = "sum" -> Sum(item, group, vs)
      [] item.fn = "avg" -> Avg(vs)
      [] item.fn \in {"min", "max"} -> Extreme(item.fn, vs)
      [] item.fn = "group_concat" -> GroupConcat(NotNull(vs))

GroupValue(item, group) == AggregateOf(item, group, ValuesOf(item, Passing(item, group)))

-----------------------------------------------------------------------------
(* The steps of exec_select_rows.                                          *)
RowKey(cols, row) == [i \in DOMAIN cols |-> row[cols[i]]]
Grouped(q, rows) ==
    IF q.group = <<>> THEN <<rows>> ELSE Partitions([i \in DOMAIN rows |-> RowKey(q.group, rows[i])], rows)

Satisfies(having, group) ==
    \A i \in DOMAIN having : Compares(GroupValue(having[i].item, group), having[i].op, having[i].lit)
AfterHaving(q, groups) ==
    IF q.having = <<>> THEN groups
    ELSE SelectSeq(groups, LAMBDA g : g # <<>> /\ Satisfies(q.having, g))

(* sort_partitions, sort_rows: a row is sorted as the group it alone is.   *)
OrderValues(q, group) == [i \in DOMAIN q.order |-> GroupValue(q.order[i].item, group)]
Sorted(q, groups) ==
    SortedBy([g \in DOMAIN groups |-> OrderValues(q, groups[g])], q.order, groups)

Answered(q, groups) ==
    [g \in DOMAIN groups |-> [i \in DOMAIN q.items |-> GroupValue(q.items[i], groups[g])]]

(* 3.5: DISTINCT compares the items that have no alias. *)
DistinctKey(q, row) ==
    IF q.distinct = "on" THEN RowKey(q.on, row)
    ELSE RowKey([i \in DOMAIN SelectSeq(q.items, LAMBDA it : ~it.aliased) |->
                   SelectSeq(q.items, LAMBDA it : ~it.aliased)[i].col], row)
Deduplicated(q, rows) ==
    IF q.distinct = "no" THEN rows
    ELSE LET parts == Partitions([i \in DOMAIN rows |-> DistinctKey(q, rows[i])], rows)
         IN  [i \in DOMAIN parts |-> parts[i][1]]

(* apply_limit_offset *)
Limited(q, rows) ==
    LET n == Len(rows)
        start == IF q.offset < n THEN q.offset ELSE n
        end == IF q.limit = {} THEN n
               ELSE CHOOSE e \in 0..n :
                      \A l \in q.limit : e = (IF start + l < n THEN start + l ELSE n)
    IN  SubSeq(rows, start + 1, end)

(* A query with aggregates has no DISTINCT and no LIMIT: neither is looked *)
(* at on that path.                                                        *)
Answer(q, rows) ==
    IF HasAggregate(q)
    THEN Answered(q, Sorted(q, AfterHaving(q, Grouped(q, rows))))
    ELSE LET firsts(groups) == [g \in DOMAIN groups |-> groups[g][1]]
             singles(rs) == [i \in DOMAIN rs |-> <<rs[i]>>]
             kept == IF q.group = <<>> THEN rows ELSE firsts(AfterHaving(q, Grouped(q, rows)))
         IN  Answered(q, Limited(q, Sorted(q, singles(Deduplicated(q, kept)))))

-----------------------------------------------------------------------------
(* What the query means, told from the rows as a collection.               *)
Classes(q, t) ==
    IF q.group = <<>> THEN {DOMAIN t}
    ELSE {{j \in DOMAIN t : RowKey(q.group, t[j]) = RowKey(q.group, t[i])} : i \in DOMAIN t}

MeantOf(item, t, class, rows) ==
    LET present == {j \in rows : t[j][item.col] # Null}
        values == {t[j][item.col] : j \in present}
        half(j) == CHOOSE h \in Number(t[j][item.col]) : TRUE
    IN  CASE item.fn = "column" -> IF class = {} THEN Null
                                   ELSE CHOOSE v \in {t[j][item.col] : j \in class} : TRUE
          [] item.fn = "count*" -> IntVal(Cardinality(rows))
          [] item.fn = "count" -> IntVal(Cardinality(present))
          [] item.fn = "count distinct" -> IntVal(Cardinality(values))
          [] values = {} -> Null
          [] item.fn = "sum" -> IntVal(MapThenSumSet(half, present) \div 2)
          [] item.fn = "avg" -> Average(MapThenSumSet(half, present), Cardinality(present))
          [] item.fn = "min" -> CHOOSE v \in values : \A w \in values : ~Less(w, v)
          [] item.fn = "max" -> CHOOSE v \in values : \A w \in values : ~Less(v, w)
Meant(item, t, class) == MeantOf(item, t, class, {j \in class : Passes(item, t[j])})

MeantRow(q, t, class) == [i \in DOMAIN q.items |-> Meant(q.items[i], t, class)]
MeantGroups(q, t) ==
    {c \in Classes(q, t) :
       \A i \in DOMAIN q.having :
         Compares(Meant(q.having[i].item, t, c), q.having[i].op, q.having[i].lit)}

(* Each class of rows that HAVING keeps answers one row, each row without  *)
(* groups one, each distinct row one.                                      *)
Times(x, seq) == Cardinality({i \in DOMAIN seq : seq[i] = x})
AnswersGroups(row, answer) ==   \* row is a function on the classes
    /\ Len(answer) = Cardinality(DOMAIN row)
    /\ \A c \in DOMAIN row : Times(row[c], answer) = Cardinality({d \in DOMAIN row : row[d] = row[c]})
AnswersRows(q, t, rows, answer) ==
    CASE q.distinct = "no" -> \A x \in ToSet(rows) \cup ToSet(answer) : Times(x, rows) = Times(x, answer)
      [] q.distinct = "yes" -> ToSet(answer) = ToSet(rows) /\ IsInjective(answer)
      [] q.distinct = "on" -> /\ Len(answer) = Cardinality({RowKey(q.on, t[j]) : j \in DOMAIN t})
                              /\ ToSet(answer) \subseteq ToSet(rows)
RightRows(q, t, answer) ==
    IF HasAggregate(q) \/ q.group # <<>>
    THEN AnswersGroups([c \in MeantGroups(q, t) |-> MeantRow(q, t, c)], answer)
    ELSE AnswersRows(q, t, [j \in DOMAIN t |-> MeantRow(q, t, {j})], answer)

RightOrder(q, answer) ==
    LET place(i) == CHOOSE p \in DOMAIN q.items : q.items[p] = q.order[i].item
        values(row) == [i \in DOMAIN q.order |-> row[place(i)]]
    IN  \A i, j \in DOMAIN answer :
          i < j => ~Before(values(answer[j]), values(answer[i]), q.order)

(* Pages of n rows, one after the other, are the whole answer.             *)
PageOf(q, n, p, t) == Answer([q EXCEPT !.offset = n * p, !.limit = {n}], t)
PagesTile(q, n, t, answer) ==
    FoldLeft(LAMBDA acc, p : acc \o PageOf(q, n, p - 1, t), <<>>, [p \in 1..(Len(t) + 1) |-> p]) = answer

IsRight(q, t, answer) ==
    /\ RightRows(q, t, answer)
    /\ RightOrder(q, answer)
    /\ ~HasAggregate(q) => \A n \in 1..2 : PagesTile(q, n, t, answer)
Right(q, t) == IsRight(q, t, Answer(q, t))
=============================================================================
