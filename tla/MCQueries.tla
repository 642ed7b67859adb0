----------------------------- MODULE MCQueries -----------------------------
(***************************************************************************)
(* The query modules for TLC.  Two tables t and u and a request's text     *)
(* grow row by row, symbol by symbol; in each state every question of the  *)
(* lists below is asked of what there is, and the answer compared with     *)
(* what the question means.                                                *)
(***************************************************************************)
EXTENDS Paths, Groups, Windows, Joins, SetOperations, Texts

CONSTANTS MaxRows,     \* rows of t and u together
          MaxText,     \* symbols of a text, after the start of a trigger
          Starts       \* what a text may begin with

MCTypes == [c \in {"k", "g", "v", "f", "s"} |->
              CASE c \in {"k", "v"} -> "int" [] c = "f" -> "float" [] OTHER -> "string"]

(* Texts: A, B, a, ab, abc, abcd, xabc. *)
A == StrVal(<<65>>)
B == StrVal(<<66>>)
AB == StrVal(<<97, 98>>)
ABC == StrVal(<<97, 98, 99>>)
ABCD == StrVal(<<97, 98, 99, 100>>)
XABC == StrVal(<<120, 97, 98, 99>>)

Row(k, g, v, f, s) ==
    [c \in DOMAIN MCTypes |-> CASE c = "k" -> IntVal(k) [] c = "g" -> g [] c = "v" -> v
                                [] c = "f" -> f [] c = "s" -> s]
Rows ==
    { Row(1, A, IntVal(2), FloatVal(5), ABC), Row(1, B, Null, FloatVal(-1), ABCD),
      Row(2, A, IntVal(10), Null, Null),      Row(2, B, IntVal(2), FloatVal(4), XABC),
      Row(3, A, IntVal(-1), FloatVal(5), AB), Row(3, B, IntVal(1), FloatVal(4), ABC),
      Row(2, Null, IntVal(3), FloatVal(0), ABCD) }

(* u has the columns k, v and w. *)
URow(k, v, w) == [c \in {"k", "v", "w"} |-> CASE c = "k" -> IntVal(k) [] c = "v" -> v [] c = "w" -> w]
URows == { URow(1, IntVal(2), A), URow(2, Null, B), URow(2, IntVal(10), A) }

Alphabets ==
    { {"'", ";", "a", "--", "\n", "$1"}, {"'", "a", "%%", "(", ")"},
      {"'", "MATCH", "NOT", " ", "1e2"}, {"'", "/*", "*/", "\\", ";"},
      {"TRIGGER", "BEGIN", "END", ";", "a", " "} }
MCStarts == { <<>>, <<"TRIGGER", "BEGIN">> }
MCNoTexts == { <<>> }
MCTriggers == { <<"TRIGGER", "BEGIN">> }
Args == { <<>>, <<"100">>, <<"a", "'", ";">>, <<"--", "a">>, <<"$1">> }

-----------------------------------------------------------------------------
VARIABLES t, u, text
vars == <<t, u, text>>

Init == t = <<>> /\ u = <<>> /\ text \in Starts

GrowT(row) ==
    /\ text = <<>> /\ u = <<>> /\ Len(t) < 3
    /\ \A i \in DOMAIN t : RowKey(<<"k", "g">>, t[i]) # RowKey(<<"k", "g">>, row)
    /\ t' = Append(t, row)
    /\ UNCHANGED <<u, text>>

GrowU(row) ==
    /\ text = <<>> /\ Len(t) + Len(u) < MaxRows /\ Len(u) < 2
    /\ u' = Append(u, row)
    /\ UNCHANGED <<t, text>>

GrowText(c) ==
    /\ t = <<>> /\ u = <<>>
    /\ Len(text) < MaxText + (IF text # <<>> /\ IsTrigger(text) THEN 2 ELSE 0)
    /\ \E alphabet \in Alphabets : ToSet(text) \cup {c} \subseteq alphabet
    /\ c # "TRIGGER"
    /\ text' = Append(text, c)
    /\ UNCHANGED <<t, u>>

Next == \/ \E row \in Rows : GrowT(row)
        \/ \E row \in URows : GrowU(row)
        \/ \E c \in UNION Alphabets : GrowText(c)

-----------------------------------------------------------------------------
(* WHERE clauses: literals of the column's type and, in ranges and on the  *)
(* key, of others; not those the README lists, on which the paths and the  *)
(* scan are known to disagree.                                             *)
Ops == {"<", "<=", ">", ">="}
Conditions ==
    {Cmp("v", op, lit) : op \in Ops, lit \in {IntVal(2), FloatVal(5), FloatVal(-1), StrVal(<<50>>), Null}}
      \cup {Flipped(Cmp("v", op, IntVal(2))) : op \in Ops}
      \cup {Cmp("v", op, lit) : op \in {"=", "<>"}, lit \in {IntVal(2), Null}}
      \cup {Cmp("f", op, lit) : op \in Ops, lit \in {IntVal(2), FloatVal(5)}}
      \cup {Cmp("s", op, lit) : op \in Ops \cup {"="}, lit \in {AB, ABC}}
      \cup {Between("v", b[1], b[2]) : b \in {IntVal(1), IntVal(2), FloatVal(5), IntVal(10)} \X {IntVal(2), FloatVal(5)}}
      \cup {Between("s", AB, ABCD), Between("f", IntVal(2), FloatVal(5))}
      \cup {Like("s", p) : p \in {<<97, 98, 99>>, <<97, 98, 37>>, <<97, 98, 99, 37>>, <<37, 97, 98, 99>>,
                                  <<37, 98, 99, 100>>, <<97, 98, 99, 95>>, <<37>>, <<65, 98, 99, 37>>}}
KeyParts == {Cmp("k", "=", lit) : lit \in {IntVal(1), IntVal(2), StrVal(<<49>>), FloatVal(3), FloatVal(4)}}
Wheres == {<<c>> : c \in Conditions \cup KeyParts}
            \cup {<<k, Cmp("g", "=", g)>> : k \in KeyParts, g \in {A, Null}}
            \cup {<<Cmp("g", "=", B), k, Cmp("v", "<", IntVal(3))>> : k \in KeyParts}
            \cup {<<Cmp("k", "=", IntVal(1)), Cmp("k", "=", IntVal(2))>>,
                  <<Cmp("v", "=", IntVal(2)), Like("s", <<97, 98, 99, 37>>)>>}

(* An index is a way to find what a scan finds: whichever path applies     *)
(* answers the rows of the WHERE clause, no more and no less.              *)
PathsAgree == u = <<>> => \A where \in Wheres : Found(where, t) = Scan(where, t)

-----------------------------------------------------------------------------
K == Column("k")
G == Column("g")
V == Column("v")
CountAll == Aggregate("count*", "k")
Ordered(item, asc) == [item |-> item, asc |-> asc]
Having(item, op, lit) == <<[item |-> item, op |-> op, lit |-> lit]>>

Aggregates ==
    { CountAll, Aggregate("count", "v"), Aggregate("sum", "k"), Aggregate("avg", "v"),
      Aggregate("min", "v"), Aggregate("max", "v"), Aggregate("min", "s"), Aggregate("max", "f"),
      Aggregate("count distinct", "k"),
      Filtered(CountAll, "v", ">", IntVal(1)), Filtered(Aggregate("avg", "k"), "g", "=", A),
      Filtered(Aggregate("max", "v"), "f", "<>", FloatVal(5)) }
Queries ==
    {Select(<<a>>) : a \in Aggregates}
      \cup {[Select(<<G, a>>) EXCEPT !.group = <<"g">>, !.order = <<Ordered(a, asc)>>] :
              a \in {CountAll, Aggregate("max", "v")}, asc \in BOOLEAN}
      \cup {[Select(<<G, CountAll, Aggregate("min", "v")>>) EXCEPT
               !.group = <<"g">>, !.having = h] :
              h \in {Having(CountAll, ">", IntVal(1)), Having(Aggregate("max", "v"), ">=", IntVal(2))}}
      \cup {[Select(<<V, K>>) EXCEPT !.order = <<Ordered(V, asc), Ordered(K, ~asc)>>] : asc \in BOOLEAN}
      \cup {[Select(<<V>>) EXCEPT !.distinct = "yes"], [Select(<<K, G>>) EXCEPT !.distinct = "yes"],
            [Select(<<V>>) EXCEPT !.distinct = "yes", !.order = <<Ordered(V, FALSE)>>],
            [Select(<<V, K>>) EXCEPT !.distinct = "on", !.on = <<"v">>],
            [Select(<<V>>) EXCEPT !.group = <<"v">>], [Select(<<Aliased(V), G>>) EXCEPT !.order = <<Ordered(G, TRUE)>>]}

(* Groups partition the rows, aggregates are those of their group, HAVING  *)
(* keeps or drops whole groups, DISTINCT answers each row once, the answer *)
(* is in the order asked for, and pages tile it.                           *)
GroupsAgree == u = <<>> => \A q \in Queries : (q.having # <<>> => t # <<>>) => Right(q, t)

-----------------------------------------------------------------------------
Asc(col) == [col |-> col, asc |-> TRUE]
Desc(col) == [col |-> col, asc |-> FALSE]
Orders == {<<Asc("v")>>, <<Desc("v"), Asc("g")>>}
Frames == {Frame("rows", -1, 1), Frame("rows", -Far, 0), Frame("groups", -1, 0), Frame("groups", 0, 1),
           Frame("range", -Far, 0), Frame("range", 0, Far)}
SqlWindows ==
    {[Window(fn, "v") EXCEPT !.partition = p, !.order = o] :
       fn \in {"row_number", "rank", "dense_rank", "lag", "lead", "count", "first_value"},
       p \in {<<>>, <<"g">>}, o \in Orders}
      \cup {[Window(fn, "k") EXCEPT !.order = <<Asc("v")>>, !.frame = f] :
              fn \in {"sum", "count", "min", "max", "first_value", "last_value"}, f \in Frames}
      \cup {[Window(fn, "k") EXCEPT !.partition = <<"g">>] : fn \in {"sum", "last_value"}}

(* A row's rank is the number of rows before it, lag and lead are its      *)
(* neighbours, and an aggregate's frame has the rows it names; ties under  *)
(* an aggregate that runs without a frame are left to RunningHasPeers.     *)
WindowsAgree == u = <<>> => \A w \in SqlWindows : ~(Running(w) /\ Tied(w, t)) => WindowRight(w, t)

(* engine/stmts/select/window.rs:581: "SQL default: ORDER BY without a     *)
(* frame clause is RANGE UNBOUNDED PRECEDING .. CURRENT ROW": a running    *)
(* aggregate gives the rows that tie one value.                            *)
RunningHasPeers == \A w \in SqlWindows : Running(w) => WindowRight(w, t)

-----------------------------------------------------------------------------
T == Tbl("t", t, <<"k", "g", "v">>)
U == Tbl("u", u, <<"k", "v", "w">>)
U2 == Tbl("u2", u, <<"k", "v", "w">>)
Kinds == {"inner", "left", "right", "full"}
Constraints == { On(Ref("t", "k"), "=", Ref("u", "k")), On(Ref("t", "v"), "<", Ref("u", "v")),
                 Using({"k"}), Using({"v"}), Natural }
ThirdOn == On(Ref("u", "v"), "=", Ref("u2", "v"))

(* An answer has exactly the combinations of rows that match, and those an *)
(* outer join keeps alone; two joins in a row too.                         *)
JoinsAgree ==
    text = <<>> =>
      /\ \A kind \in Kinds, con \in Constraints : JoinRight(<<T, U>>, <<Join(kind, con)>>)
      /\ JoinRight(<<T, U>>, <<Join("cross", Unconstrained)>>)
      /\ Len(t) < 3 => \A k1, k2 \in Kinds :
           JoinRight(<<T, U, U2>>, <<Join(k1, On(Ref("t", "k"), "=", Ref("u", "k"))), Join(k2, ThirdOn)>>)

-----------------------------------------------------------------------------
Operations == {"union", "union all", "except", "except all", "intersect", "intersect all"}
ColumnOf(rows, col) == [i \in DOMAIN rows |-> rows[i][col]]
Edges == [i \in DOMAIN t |-> <<t[i]["k"], t[i]["v"]>>]

(* Every set operation keeps a row as often as it should, and a recursive  *)
(* CTE ends with exactly what can be reached from its anchor.              *)
SetsAgree ==
    LET l == ColumnOf(t, "v")
        r == ColumnOf(u, "v")
        anchor == ColumnOf(u, "k")
    IN  /\ \A op \in Operations : (op = "except" => IsInjective(l)) => CombineRight(op, l, r)
        /\ RecursiveRight(anchor, Edges, ToSet(anchor) \cup ToSet(l))

(* A client's literals and arguments come through splitting, substitution  *)
(* and preprocessing as they were written, and so does a trigger's body.   *)
TextsAgree == /\ \A arg \in Args : TextRight(text, arg)
              /\ TriggerRight(text)

(* dispatch/sql.rs:156: "Skip remaining parts of the trigger body that     *)
(* were merged".                                                           *)
PartsSkipped == BodyWaits(text)
=============================================================================
