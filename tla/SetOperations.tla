--------------------------- MODULE SetOperations ---------------------------
(***************************************************************************)
(* UNION, EXCEPT and INTERSECT, and the loop that evaluates a recursive    *)
(* CTE with them; and what they mean.  An answer is the sequence of its    *)
(* rows; the header is left out.                                           *)
(***************************************************************************)
EXTENDS Integers, FiniteSets, Sequences, SequencesExt

CONSTANT MaxIters     \* turns a recursive CTE may take
ASSUME SetOperationsAssumption == MaxIters \in Nat \ {0}

Count(x, seq) == Cardinality({i \in DOMAIN seq : seq[i] = x})

-----------------------------------------------------------------------------
(* rows, and each row of more that is not there yet. *)
WithNew(rows, more) ==
    LET acc[i \in 0 .. Len(more)] ==
          IF i = 0 THEN rows
          ELSE IF Contains(acc[i - 1], more[i]) THEN acc[i - 1]
          ELSE Append(acc[i - 1], more[i])
    IN  acc[Len(more)]

(* exec_union.  EXCEPT ALL: each row on the right takes one on the left.   *)
Earliest(x, rows) == CHOOSE i \in DOMAIN rows : rows[i] = x /\ \A j \in 1 .. i - 1 : rows[j] # x
ExceptAll(l, r) ==
    LET acc[i \in 0 .. Len(r)] ==
          IF i = 0 THEN l
          ELSE IF Contains(acc[i - 1], r[i]) THEN RemoveAt(acc[i - 1], Earliest(r[i], acc[i - 1]))
          ELSE acc[i - 1]
    IN  acc[Len(r)]

(* EXCEPT leaves the rows of the left side that are there more than once   *)
(* as they are.                                                            *)
Except(l, r) ==
    LET acc[i \in 0 .. Len(l)] ==
          IF i = 0 THEN <<>> ELSE IF Contains(r, l[i]) THEN acc[i - 1] ELSE Append(acc[i - 1], l[i])
    IN  acc[Len(l)]

Fewer(x, l, r) == IF Count(x, l) < Count(x, r) THEN Count(x, l) ELSE Count(x, r)
IntersectAll(l, r) ==
    LET once == WithNew(<<>>, l)
        acc[i \in 0 .. Len(once)] ==
          IF i = 0 THEN <<>> ELSE acc[i - 1] \o [n \in 1 .. Fewer(once[i], l, r) |-> once[i]]
    IN  acc[Len(once)]

Intersect(l, r) ==
    LET acc[i \in 0 .. Len(l)] ==
          IF i = 0 THEN <<>>
          ELSE IF Contains(r, l[i]) /\ ~Contains(acc[i - 1], l[i]) THEN Append(acc[i - 1], l[i])
          ELSE acc[i - 1]
    IN  acc[Len(l)]

Combine(op, l, r) ==
    CASE op = "union all" -> l \o r
      [] op = "union" -> WithNew(WithNew(<<>>, l), r)
      [] op = "except all" -> ExceptAll(l, r)
      [] op = "except" -> Except(l, r)
      [] op = "intersect all" -> IntersectAll(l, r)
      [] op = "intersect" -> Intersect(l, r)

-----------------------------------------------------------------------------
(* WITH RECURSIVE: edges are the rows <<x, y>> of a table, the step answers*)
(* the y of every edge whose x the CTE has.  The CTE starts with the rows  *)
(* of its anchor; a turn evaluates both sides again, and ends the loop     *)
(* when they have no more rows than the CTE.                               *)
Onward(edges, x) ==
    LET acc[i \in 0 .. Len(edges)] ==
          IF i = 0 THEN <<>>
          ELSE IF edges[i][1] = x THEN Append(acc[i - 1], edges[i][2]) ELSE acc[i - 1]
    IN  acc[Len(edges)]
Step(edges, cte) ==
    LET acc[i \in 0 .. Len(cte)] ==
          IF i = 0 THEN <<>> ELSE acc[i - 1] \o Onward(edges, cte[i])
    IN  acc[Len(cte)]

(* Mutant: the loop ends one turn early. *)
TurnEarly(op, anchor, edges, loop) ==
    LET now == Combine(op, anchor, Step(edges, loop.cte))
    IN  IF loop.done THEN loop
        ELSE IF Len(now) <= Len(loop.cte) + 1 THEN [loop EXCEPT !.done = TRUE]
        ELSE [loop EXCEPT !.cte = WithNew(@, now)]

Turn(op, anchor, edges, loop) ==
    LET now == Combine(op, anchor, Step(edges, loop.cte))
    IN  IF loop.done THEN loop
        ELSE IF Len(now) <= Len(loop.cte) THEN [loop EXCEPT !.done = TRUE]
        ELSE [loop EXCEPT !.cte = WithNew(@, now)]

(* Not done after the last turn: the statement fails. *)
Recursive(op, anchor, edges) ==
    LET loop[i \in 0 .. MaxIters] ==
          IF i = 0 THEN [cte |-> anchor, done |-> FALSE] ELSE Turn(op, anchor, edges, loop[i - 1])
    IN  loop[MaxIters]

-----------------------------------------------------------------------------
(* What the operations mean, row by row. *)
Expected(op, m, n) ==
    CASE op = "union all" -> m + n
      [] op = "union" -> IF m + n > 0 THEN 1 ELSE 0
      [] op = "except all" -> IF m > n THEN m - n ELSE 0
      [] op = "except" -> IF m > 0 /\ n = 0 THEN 1 ELSE 0
      [] op = "intersect all" -> IF m < n THEN m ELSE n
      [] op = "intersect" -> IF m > 0 /\ n > 0 THEN 1 ELSE 0

CombineRight(op, l, r) ==
    LET answer == Combine(op, l, r)
    IN  \A x \in ToSet(l) \cup ToSet(r) \cup ToSet(answer) :
          Count(x, answer) = Expected(op, Count(x, l), Count(x, r))

(* A join without rows answers a header that is not read as one: on the    *)
(* right of a UNION that does not keep duplicates the statement panics.    *)
StepPanics(op, anchor, edges) == op # "union all" /\ Step(edges, anchor) = <<>>

(* A recursive CTE without duplicates in its anchor is, once, everything   *)
(* that can be reached from it; MaxIters must be enough for the longest    *)
(* way.                                                                    *)
ClosedSets(anchor, edges, values) ==
    {s \in SUBSET values : ToSet(anchor) \subseteq s
                           /\ \A e \in ToSet(edges) : e[1] \in s => e[2] \in s}
RecursiveRight(anchor, edges, values) ==
    LET loop == Recursive("union", anchor, edges)
        reachable == {x \in values : \A s \in ClosedSets(anchor, edges, values) : x \in s}
    IN  IsInjective(anchor) /\ ~StepPanics("union", anchor, edges) =>
          /\ loop.done
          /\ ToSet(loop.cte) = reachable /\ IsInjective(loop.cte)
=============================================================================
