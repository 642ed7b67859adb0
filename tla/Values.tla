------------------------------- MODULE Values -------------------------------
(***************************************************************************)
(* Runtime values: how the engine reads them as numbers and texts,         *)
(* compares them, converts them to a column's type and encodes them as     *)
(* keys.                                                                   *)
(*                                                                         *)
(* A text is the sequence of its characters' codes, which is the order the *)
(* code compares it in; a FLOAT is counted in halves.  NaN, infinities,    *)
(* texts of fractions and the array types are not modelled.                *)
(***************************************************************************)
EXTENDS Integers, FiniteSets, Sequences, SequencesExt

Null == [type |-> "null"]
BoolVal(b) == [type |-> "bool", b |-> b]
IntVal(n) == [type |-> "int", n |-> n]
FloatVal(h) == [type |-> "float", h |-> h]
StrVal(s) == [type |-> "string", s |-> s]

Minus == 45
Zero == 48
Digit == 48..57
Upper == 65..90

Digits(n) ==
    LET of[m \in Nat] ==
          IF m < 10 THEN <<Zero + m>> ELSE of[m \div 10] \o <<Zero + (m % 10)>>
    IN  IF n < 0 THEN <<Minus>> \o of[-n] ELSE of[n]

(* The INT a text is, {} when it is none. *)
Unsigned(s) ==
    IF s = <<>> \/ ToSet(s) \ Digit # {} THEN {}
    ELSE {FoldLeft(LAMBDA acc, c : 10 * acc + (c - Zero), 0, s)}
ParseInt(s) ==
    IF s # <<>> /\ s[1] = Minus THEN {-n : n \in Unsigned(Tail(s))} ELSE Unsigned(s)

(* value_to_string *)
Text(v) ==
    CASE v.type = "null" -> <<78, 85, 76, 76>>
      [] v.type = "bool" -> IF v.b THEN <<116, 114, 117, 101>> ELSE <<102, 97, 108, 115, 101>>
      [] v.type = "int" -> Digits(v.n)
      [] v.type = "float" /\ v.h % 2 = 0 -> Digits(v.h \div 2)
      [] v.type = "float" /\ v.h % 2 = 1 ->
           (IF v.h < 0 THEN <<Minus>> ELSE <<>>)
             \o Digits((IF v.h < 0 THEN -v.h ELSE v.h) \div 2) \o <<46, Zero + 5>>
      [] v.type = "string" -> v.s

Lower(s) == [i \in DOMAIN s |-> IF s[i] \in Upper THEN s[i] + 32 ELSE s[i]]

(* to_float: the number, in halves, a value is for a comparison. *)
Number(v) ==
    CASE v.type = "int" -> {2 * v.n}
      [] v.type = "float" -> {v.h}
      [] v.type = "string" -> {2 * n : n \in ParseInt(v.s)}
      [] OTHER -> {}

TextLess(s, t) ==
    \/ IsStrictPrefix(s, t)
    \/ \E i \in DOMAIN s \cap DOMAIN t :
         s[i] < t[i] /\ \A j \in 1..(i - 1) : s[j] = t[j]

(* db_value_cmp: numbers as numbers, anything else as texts. *)
LessAs(x, y, a, b) ==
    IF x # {} /\ y # {} THEN \A m \in x, n \in y : m < n ELSE TextLess(Text(a), Text(b))
Less(a, b) == LessAs(Number(a), Number(b), a, b)

(* values_equal: `=`, USING and NATURAL; NULL equals nothing. *)
Numeric(v) == v.type \in {"int", "float"}
Equal(a, b) ==
    /\ Null \notin {a, b}
    /\ IF Numeric(a) /\ Numeric(b) THEN Number(a) = Number(b) ELSE Text(a) = Text(b)

(* cmp_values and apply_binary_op: a comparison with NULL is false, but    *)
(* `<>` is the negation of `=`, and the other two are those of `<`.        *)
Compares(a, op, b) ==
    LET sides == IF op \in {"<", ">="} THEN <<a, b>> ELSE <<b, a>>
    IN  IF op \in {"=", "<>"} THEN Equal(a, b) = (op = "=")
        ELSE Null \notin {a, b} /\ Less(sides[1], sides[2]) = (op \in {"<", ">"})

(* like_match: % is any text, _ any character. *)
LikeMatch(s, pat) ==
    LET from[i \in 1..(Len(s) + 1), j \in 1..(Len(pat) + 1)] ==
          IF j > Len(pat) THEN i > Len(s)
          ELSE IF pat[j] = 37 THEN \E h \in i..(Len(s) + 1) : from[h, j + 1]
          ELSE i <= Len(s) /\ pat[j] \in {95, s[i]} /\ from[i + 1, j + 1]
    IN  from[1, 1]

(* coerce_value: the value as the column stores it, {} when it cannot.     *)
Towards0(h) == IF h < 0 THEN -((-h) \div 2) ELSE h \div 2
Coerced(v, type) ==
    CASE type = "float" /\ v.type = "int" -> {FloatVal(2 * v.n)}
      [] type = "float" /\ v.type = "string" -> {FloatVal(h) : h \in Number(v)}
      [] type = "int" /\ v.type = "float" -> {IntVal(Towards0(v.h))}
      [] type = "int" /\ v.type = "string" -> {IntVal(n) : n \in ParseInt(v.s)}
      [] type = "string" /\ Numeric(v) -> {StrVal(Text(v))}
      [] OTHER -> {}
Fits(v, type) == v.type \in {type, "null"}

(* encode_part: keys of rows, injective.  encode_key: keys of an index, in *)
(* the order of their types, then of their values.                         *)
EncodePart(v) == <<v.type, Text(v)>>
EncodeKey(v) ==
    CASE v.type = "null" -> <<0>>
      [] v.type = "bool" -> <<1>> \o Text(v)
      [] v.type = "int" -> <<2, v.n>>
      [] v.type = "float" -> <<3, v.h>>
      [] v.type = "string" -> <<4>> \o v.s

(* The values of the ORDER BY expressions: the first that differ decide.   *)
Before(vs, ws, order) ==
    LET less(i, asc) == \E p \in {<<vs[i], ws[i], asc>>, <<ws[i], vs[i], ~asc>>} : p[3] /\ Less(p[1], p[2])
    IN  \E i \in DOMAIN order :
          /\ less(i, order[i].asc)
          /\ \A j \in 1..(i - 1), asc \in BOOLEAN : ~less(j, asc)

(* sort_by, which is stable. *)
InsertSorted(Ahead(_, _), sorted, r) ==
    LET n == Cardinality({i \in DOMAIN sorted : ~Ahead(r, sorted[i])})
    IN  SubSeq(sorted, 1, n) \o <<r>> \o SubSeq(sorted, n + 1, Len(sorted))
StableSort(Ahead(_, _), seq) ==
    FoldLeft(LAMBDA sorted, r : InsertSorted(Ahead, sorted, r), <<>>, seq)

(* seq sorted by the values keys gives each place of it.                   *)
At(seq, places) == [n \in DOMAIN places |-> seq[places[n]]]
SortedBy(keys, order, seq) ==
    At(seq, StableSort(LAMBDA i, j : Before(keys[i], keys[j], order), [i \in DOMAIN seq |-> i]))

(* partition_by_group: seq in parts of one GroupKey each, in the order in  *)
(* which these first occur; keys[i] is that of seq[i].                     *)
FirstOccurrences(keys) ==
    FoldLeft(LAMBDA seen, k : IF \E i \in DOMAIN seen : seen[i] = k THEN seen ELSE Append(seen, k),
             <<>>, keys)
Partitions(keys, seq) ==
    LET firsts == FirstOccurrences(keys)
        places(k) == SelectSeq([i \in DOMAIN seq |-> i], LAMBDA i : keys[i] = k)
    IN  [g \in DOMAIN firsts |-> At(seq, places(firsts[g]))]
=============================================================================
