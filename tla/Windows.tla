------------------------------ MODULE Windows ------------------------------
(***************************************************************************)
(* Window functions: one more value for every row of a SELECT, from the    *)
(* rows of its partition in the order of the OVER clause; and what the     *)
(* functions mean.                                                         *)
(*                                                                         *)
(* A window is [fn, col, partition, order, frame, offset, default]: order  *)
(* a sequence of [col, asc], frame <<>> or <<[units, start, end]>> with    *)
(* bounds counted from the current row, Far meaning UNBOUNDED.             *)
(***************************************************************************)
EXTENDS Values

Far == 99
Window(fn, col) == [fn |-> fn, col |-> col, partition |-> <<>>, order |-> <<>>,
                    frame |-> <<>>, offset |-> 1, default |-> Null]
Frame(units, start, end) == <<[units |-> units, start |-> start, end |-> end]>>

SmallerOf(m, n) == IF m < n THEN m ELSE n
LargerOf(m, n) == IF m < n THEN n ELSE m

OrderKey(w, row) == [i \in DOMAIN w.order |-> row[w.order[i].col]]

-----------------------------------------------------------------------------
(* frame_bounds.  part is the partition, a sequence of rows in order, pos  *)
(* a position in it; a bound outside of it is moved to its ends, and bounds*)
(* the wrong way round change places.                                      *)
InOrder(start, end) == <<SmallerOf(start, end), LargerOf(start, end)>>
Clamped(n, last) == LargerOf(1, SmallerOf(n, last))

RowsFrame(f, part, pos) ==
    InOrder(Clamped(pos + f.start, Len(part)), Clamped(pos + f.end, Len(part)))

(* The furthest that can be walked from pos without a row that stops.      *)
Back(Stops(_), pos) == Min({s \in 1..pos : \A j \in s..(pos - 1) : ~Stops(j)})
Ahead(Stops(_), pos, last) == Max({e \in pos..last : \A j \in (pos + 1)..e : ~Stops(j)})

(* db_value_diff_ge: v is off or more above u; FLOATs are halves. *)
FarAbove(v, u, off) ==
    /\ Numeric(v) /\ Numeric(u)
    /\ \A x \in Number(v), y \in Number(u) : x >= y + 2 * off

(* RANGE: peers of the current row, or rows closer to it than the offset;  *)
(* the first ORDER BY expression alone counts.                             *)
RangeFrame(f, w, part, pos) ==
    LET v(j) == part[j][w.order[1].col]
        peerless(j) == v(j) # v(pos)
        below(j) == FarAbove(v(pos), v(j), -f.start)
        belowEnd(j) == FarAbove(v(pos), v(j), -f.end)
        above(j) == FarAbove(v(j), v(pos), f.end)
        aboveStart(j) == FarAbove(v(j), v(pos), f.start)
        start == CASE f.start = -Far -> 1
                   [] f.start = 0 -> Back(peerless, pos)
                   [] f.start < 0 -> Back(below, pos)
                   [] f.start > 0 -> Ahead(aboveStart, pos, Len(part))
        end == CASE f.end = Far -> Len(part)
                 [] f.end = 0 -> Ahead(peerless, pos, Len(part))
                 [] f.end > 0 -> Ahead(above, pos, Len(part))
                 [] f.end < 0 -> Back(belowEnd, pos)
    IN  IF w.order = <<>> THEN <<1, Len(part)>> ELSE InOrder(start, end)

(* compute_group_bounds: the groups of peers, as their last positions.     *)
GroupEnds(w, part) ==
    SetToSortSeq({j \in DOMAIN part :
                    j = Len(part) \/ part[j][w.order[1].col] # part[j + 1][w.order[1].col]}, <)

(* Mutant: the group after the current one begins where that one ends.     *)
GroupsFrameOverlaps(f, w, part, pos) ==
    LET ends == GroupEnds(w, part)
        here == Min({g \in DOMAIN ends : pos <= ends[g]})
        bounds == InOrder(Clamped(here + f.start, Len(ends)), Clamped(here + f.end, Len(ends)))
    IN  IF w.order = <<>> THEN <<1, Len(part)>>
        ELSE <<IF bounds[1] = 1 THEN 1 ELSE ends[bounds[1] - 1], ends[bounds[2]]>>

GroupsFrame(f, w, part, pos) ==
    LET ends == GroupEnds(w, part)
        here == Min({g \in DOMAIN ends : pos <= ends[g]})
        bounds == InOrder(Clamped(here + f.start, Len(ends)), Clamped(here + f.end, Len(ends)))
    IN  IF w.order = <<>> THEN <<1, Len(part)>>
        ELSE <<IF bounds[1] = 1 THEN 1 ELSE ends[bounds[1] - 1] + 1, ends[bounds[2]]>>

FrameBounds(w, part, pos) ==
    LET f == w.frame[1]
    IN  CASE f.units = "rows" -> RowsFrame(f, part, pos)
          [] f.units = "range" -> RangeFrame(f, w, part, pos)
          [] f.units = "groups" -> GroupsFrame(f, w, part, pos)

(* eval_window_aggregate: MIN and MAX take NULL for a value. *)
FrameAggregate(w, rows) ==
    LET vs == [i \in DOMAIN rows |-> rows[i][w.col]]
        numbers == SelectSeq(vs, Numeric)
        ints == SelectSeq(vs, LAMBDA v : v.type = "int")
        halves == FoldLeft(LAMBDA acc, v : acc + (CHOOSE h \in Number(v) : TRUE), 0, numbers)
    IN  CASE w.fn = "count" -> IntVal(Len(SelectSeq(vs, LAMBDA v : v # Null)))
          [] w.fn = "sum" -> IF vs[1].type = "int"
                             THEN IntVal(FoldLeft(LAMBDA acc, v : acc + v.n, 0, ints))
                             ELSE FloatVal(halves)
          [] w.fn = "avg" -> IF numbers = <<>> THEN Null
                             ELSE [type |-> "avg", sum |-> halves, count |-> Len(numbers)]
          [] w.fn = "min" -> FoldLeft(LAMBDA m, v : IF Less(v, m) THEN v ELSE m, vs[1], vs)
          [] w.fn = "max" -> FoldLeft(LAMBDA m, v : IF Less(v, m) THEN m ELSE v, vs[1], vs)

(* Without a frame FIRST_VALUE and LAST_VALUE see the partition, and the   *)
(* aggregates the rows up to this one, or all if there is no order.        *)
FrameOf(w, part, pos) ==
    IF w.frame # <<>> THEN FrameBounds(w, part, pos)
    ELSE IF w.order # <<>> /\ w.fn \notin {"first_value", "last_value"} THEN <<1, pos>>
    ELSE <<1, Len(part)>>

(* The function's value at a position; a rank goes up where the ORDER BY   *)
(* values differ from those of the row before.                             *)
Steps(w, part, pos) ==
    {j \in 2..pos : OrderKey(w, part[j]) # OrderKey(w, part[j - 1])}
FrameValue(w, part, frame) ==
    CASE w.fn = "first_value" -> part[frame[1]][w.col]
      [] w.fn = "last_value" -> part[frame[2]][w.col]
      [] OTHER -> FrameAggregate(w, SubSeq(part, frame[1], frame[2]))
ValueAt(w, part, pos) ==
    LET shifted == IF w.fn = "lag" THEN pos - w.offset ELSE pos + w.offset
    IN  CASE w.fn = "row_number" -> IntVal(pos)
          [] w.fn = "rank" -> IntVal(IF Steps(w, part, pos) = {} THEN 1
                                     ELSE Max(Steps(w, part, pos)))
          [] w.fn = "dense_rank" -> IntVal(1 + Cardinality(Steps(w, part, pos)))
          [] w.fn \in {"lag", "lead"} ->
               IF shifted \in DOMAIN part THEN part[shifted][w.col] ELSE w.default
          [] OTHER -> FrameValue(w, part, FrameOf(w, part, pos))

(* compute_window_functions: partitions of row numbers; each is sorted and *)
(* its rows are given their values.                                        *)
Partitioned(w, t) ==
    Partitions([i \in DOMAIN t |-> [p \in DOMAIN w.partition |-> t[i][w.partition[p]]]],
               [i \in DOMAIN t |-> i])
SortedPartition(w, t, part) == SortedBy([n \in DOMAIN part |-> OrderKey(w, t[part[n]])], w.order, part)
PartitionColumn(w, t, part) ==
    [i \in ToSet(part) |-> ValueAt(w, At(t, part), CHOOSE pos \in DOMAIN part : part[pos] = i)]
WindowColumn(w, t) ==
    FoldLeft(LAMBDA col, part : col @@ PartitionColumn(w, t, SortedPartition(w, t, part)),
             <<>>, Partitioned(w, t))

-----------------------------------------------------------------------------
(* What the functions mean, told from the rows as a collection: a row of   *)
(* the same partition comes before another by its values or, when these    *)
(* are the same, by its place in the table.                                *)
Rivals(w, t, i) ==
    {j \in DOMAIN t : \A p \in DOMAIN w.partition : t[j][w.partition[p]] = t[i][w.partition[p]]}
Precedes(w, t, j, i) ==
    \/ Before(OrderKey(w, t[j]), OrderKey(w, t[i]), w.order)
    \/ /\ ~Before(OrderKey(w, t[i]), OrderKey(w, t[j]), w.order) /\ j < i
Smaller(w, t, i) ==
    {j \in Rivals(w, t, i) : Before(OrderKey(w, t[j]), OrderKey(w, t[i]), w.order)}
PlaceOf(w, t, i) == 1 + Cardinality({j \in Rivals(w, t, i) : Precedes(w, t, j, i)})
PeerGroups(w, t, i) == {OrderKey(w, t[j]) : j \in Rivals(w, t, i)}
DensePlace(w, t, i) == 1 + Cardinality({OrderKey(w, t[j]) : j \in Smaller(w, t, i)})

(* The rows of a frame that begins at or before the current row and ends   *)
(* at or after it.                                                         *)
FrameRows(w, t, i) ==
    LET f == w.frame[1]
        place(j) == IF f.units = "rows" THEN PlaceOf(w, t, j) ELSE DensePlace(w, t, j)
    IN  {j \in Rivals(w, t, i) : place(j) - place(i) \in f.start..f.end}

(* Without a frame: FIRST_VALUE and LAST_VALUE see the partition, and an   *)
(* aggregate what RANGE UNBOUNDED PRECEDING .. CURRENT ROW has, the row's  *)
(* peers with it, or all if there is no order.                             *)
Seen(w, t, i) ==
    IF w.frame # <<>> THEN FrameRows(w, t, i)
    ELSE {j \in Rivals(w, t, i) :
            w.fn \in {"first_value", "last_value"} \/ DensePlace(w, t, j) <= DensePlace(w, t, i)}

MeantOfSeen(w, t, seen) ==
    LET present == {t[j][w.col] : j \in seen} \ {Null}
        atEnd(j, k) == IF w.fn = "first_value" THEN Precedes(w, t, j, k) ELSE Precedes(w, t, k, j)
    IN  CASE w.fn \in {"first_value", "last_value"} ->
               t[CHOOSE j \in seen : \A k \in seen : j = k \/ atEnd(j, k)][w.col]
          [] w.fn = "count" -> IntVal(Cardinality({j \in seen : t[j][w.col] # Null}))
          [] w.fn = "sum" -> IntVal(MapThenSumSet(LAMBDA j : t[j][w.col].n, seen))
          [] w.fn = "min" -> CHOOSE v \in present : \A u \in present : ~Less(u, v)
          [] w.fn = "max" -> CHOOSE v \in present : \A u \in present : ~Less(v, u)
Neighbour(w, t, at) ==
    IF at = {} THEN w.default ELSE t[CHOOSE j \in at : TRUE][w.col]
MeantAt(w, t, i) ==
    LET away == IF w.fn = "lag" THEN -w.offset ELSE w.offset
    IN  CASE w.fn = "row_number" -> IntVal(PlaceOf(w, t, i))
          [] w.fn = "rank" -> IntVal(1 + Cardinality(Smaller(w, t, i)))
          [] w.fn = "dense_rank" -> IntVal(DensePlace(w, t, i))
          [] w.fn \in {"lag", "lead"} ->
               Neighbour(w, t, {j \in Rivals(w, t, i) : PlaceOf(w, t, j) = PlaceOf(w, t, i) + away})
          [] OTHER -> MeantOfSeen(w, t, Seen(w, t, i))

(* An aggregate that runs along an ORDER BY, and rows with the same ORDER  *)
(* BY values in one partition.                                             *)
Running(w) == w.frame = <<>> /\ w.order # <<>> /\ w.fn \in {"count", "sum", "avg", "min", "max"}
Tied(w, t) ==
    \E i \in DOMAIN t : \E j \in Rivals(w, t, i) : i # j /\ OrderKey(w, t[i]) = OrderKey(w, t[j])

WindowRight(w, t) ==
    \E column \in {WindowColumn(w, t)} : \A i \in DOMAIN t : column[i] = MeantAt(w, t, i)
=============================================================================
