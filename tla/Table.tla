------------------------------- MODULE Table -------------------------------
(***************************************************************************)
(* One table of the engine: its rows and the structures kept beside them   *)
(* (pk_set, pk_row_index, unique_set and one CREATE INDEX index), under    *)
(* INSERT in its conflict modes, UPDATE, DELETE, TRUNCATE, VACUUM and      *)
(* CREATE / DROP INDEX.                                                    *)
(*                                                                         *)
(* The table has an AUTO_INCREMENT primary key id and a nullable UNIQUE    *)
(* column u, which carries the index, and one CHECK over both.             *)
(* exec_insert and exec_update collect their rows or cells first and apply *)
(* them one by one: a statement in progress is the pair of what is left to *)
(* do, so every property is checked inside statements too, where an error  *)
(* leaves the earlier rows in place.  No client sees those states: the     *)
(* database mutex is held until the statement ends.                        *)
(*                                                                         *)
(* Foreign keys, triggers and RETURNING are not part of this module.       *)
(***************************************************************************)
EXTENDS Naturals, Sequences, FiniteSets

CONSTANTS MaxId,          \* bound: primary keys are 1 .. MaxId
          Values,         \* values of u other than NULL
          Null,
          Succ,           \* the expression id + 1
          Checked,        \* the rows that satisfy the CHECK
          MaxRows,        \* bound: rows in the table
          MaxBatch,       \* bound: rows of one INSERT
          Disciplined,    \* do clients only assign keys no row holds?
          Replaces,       \* do clients use INSERT OR REPLACE?
          Truncates       \* do clients use TRUNCATE?

Ids == 1 .. MaxId
Us == Values \cup {Null}
Row == [id : Ids, u : Us]
NewRow == [id : Ids \cup {Null}, u : Us]

ASSUME TableAssumption ==
    /\ MaxId \in Nat
    /\ Null \notin Ids /\ Null \notin Values /\ Succ \notin Ids \cup Us
    /\ Checked \subseteq Row
    /\ MaxRows \in Nat /\ MaxBatch \in Nat
    /\ Disciplined \in BOOLEAN /\ Replaces \in BOOLEAN /\ Truncates \in BOOLEAN

(* One assignment of an UPDATE, resolved to a row and a value. *)
Cell == [idx : Nat, id : BOOLEAN, val : Ids \cup Us]

VARIABLES rows,           \* the rows, in insertion order
          pk_set,         \* keys taken, for uniqueness
          pk_row_index,   \* key -> position of its row, 0 when absent
          unique_set,     \* values of u taken
          indexed,        \* is there an index on u
          index,          \* its entries: <<position, value>>
          next_auto_inc,
          mode,           \* the statement in progress, "none" between two
          inserts,        \* the rows an INSERT still has to write
          updates         \* the cells an UPDATE still has to write

vars == <<rows, pk_set, pk_row_index, unique_set, indexed, index,
          next_auto_inc, mode, inserts, updates>>

InsertModes == {"abort", "ignore", "nothing", "replace", "upsert"}

TypeOK ==
    /\ rows \in Seq(Row)
    /\ pk_set \subseteq Ids
    /\ pk_row_index \in [Ids -> Nat]
    /\ unique_set \subseteq Us
    /\ indexed \in BOOLEAN
    /\ index \subseteq Nat \X Us
    /\ next_auto_inc \in Nat
    /\ mode \in {"none", "update"} \cup InsertModes
    /\ inserts \in Seq(NewRow)
    /\ updates \subseteq Cell

Init ==
    /\ rows = <<>>
    /\ pk_set = {} /\ pk_row_index = [k \in Ids |-> 0] /\ unique_set = {}
    /\ indexed = FALSE /\ index = {}
    /\ next_auto_inc = 1
    /\ mode = "none" /\ inserts = <<>> /\ updates = {}

-----------------------------------------------------------------------------
(* The structures a rebuild derives from the rows.                         *)
IdsOf(s) == {s[i].id : i \in DOMAIN s}
UsOf(s) == {s[i].u : i \in DOMAIN s}
Entries(s) == {<<i, s[i].u>> : i \in DOMAIN s}

(* A later row with the same key overwrites the entry of an earlier one.   *)
LastWith(s, k) ==
    IF k \in IdsOf(s)
    THEN CHOOSE i \in DOMAIN s :
            s[i].id = k /\ \A j \in DOMAIN s : s[j].id = k => j <= i
    ELSE 0

(* Mutant: a rebuild of the keys that leaves the index as it was. *)
RebuildKeysOnly(s) ==
    /\ pk_set' = IdsOf(s)
    /\ pk_row_index' = [k \in Ids |-> LastWith(s, k)]
    /\ unique_set' = UsOf(s)
    /\ UNCHANGED index

(* rebuild_index and rebuild_indices, for the rows s. *)
RebuildIndex(s) ==
    /\ pk_set' = IdsOf(s)
    /\ pk_row_index' = [k \in Ids |-> LastWith(s, k)]
    /\ unique_set' = UsOf(s)
    /\ index' = IF indexed THEN Entries(s) ELSE {}

(* The order-preserving enumerations of a set of positions (there is one). *)
Enumerations(P) ==
    {f \in [1 .. Cardinality(P) -> P] :
        /\ \A m, n \in DOMAIN f : m < n => f[m] < f[n]
        /\ \A i \in P : \E n \in DOMAIN f : f[n] = i}

-----------------------------------------------------------------------------
(* Mutants: one of the two constraints is not looked at. *)
ConflictOnKey(r) == r.id \in pk_set
ConflictOnUnique(r) == r.u \in unique_set

(* Table::insert finds a key it would duplicate. *)
Conflict(r) == r.id \in pk_set \/ r.u \in unique_set

(* The next row of the INSERT, with its AUTO_INCREMENT column filled in.   *)
Filled ==
    LET n == Head(inserts)
    IN  [id |-> IF n.id = Null THEN next_auto_inc ELSE n.id, u |-> n.u]

(* The counter moves on before the row is known to be acceptable. *)
TakeAutoInc ==
    next_auto_inc' = next_auto_inc + (IF Head(inserts).id = Null THEN 1 ELSE 0)

(* The INSERT goes on with the rows that are left, or is over. *)
Continue ==
    /\ inserts' = Tail(inserts)
    /\ mode' = IF Tail(inserts) = <<>> THEN "none" ELSE mode

Abandon == inserts' = <<>> /\ mode' = "none"

(* Table::insert with all constraints passed. *)
Push(r) ==
    /\ rows' = Append(rows, r)
    /\ pk_set' = pk_set \cup {r.id}
    /\ pk_row_index' = [pk_row_index EXCEPT ![r.id] = Len(rows) + 1]
    /\ unique_set' = unique_set \cup {r.u}
    /\ index' = IF indexed THEN index \cup {<<Len(rows) + 1, r.u>>} ELSE index

(* Mutant: the old key stays taken. *)
UpdateIdKeepsOld(i, k) ==
    /\ rows' = [rows EXCEPT ![i] = [id |-> k, u |-> rows[i].u]]
    /\ pk_set' = pk_set \cup {k}
    /\ pk_row_index' = [pk_row_index EXCEPT ![k] = i]
    /\ UNCHANGED <<unique_set, index>>

(* Table::update_cell on the key column: the old key is given up without   *)
(* asking whether another row still holds it, the new one taken without    *)
(* asking whether it is free.                                              *)
UpdateId(i, k) ==
    LET old == rows[i].id IN
    /\ rows' = [rows EXCEPT ![i] = [id |-> k, u |-> rows[i].u]]
    /\ pk_set' = (pk_set \ {old}) \cup {k}
    /\ pk_row_index' = [pk_row_index EXCEPT ![old] = 0, ![k] = i]
    /\ UNCHANGED <<unique_set, index>>

(* Table::update_cell on u, which moves the row's index entry. *)
UpdateU(i, v) ==
    LET old == rows[i].u IN
    /\ rows' = [rows EXCEPT ![i] = [id |-> rows[i].id, u |-> v]]
    /\ unique_set' = (unique_set \ {old}) \cup {v}
    /\ index' = IF indexed THEN (index \ {<<i, old>>}) \cup {<<i, v>>} ELSE index
    /\ UNCHANGED <<pk_set, pk_row_index>>

(* Mutant: the replaced row's u stays taken. *)
ReplaceKeepsOld(i, r) ==
    /\ rows' = [rows EXCEPT ![i] = r]
    /\ unique_set' = unique_set \cup {r.u}
    /\ UNCHANGED <<pk_set, pk_row_index, index>>

(* replace_by_pk on a row it finds: no index is told, and a u that another *)
(* row holds is taken over.                                                *)
ReplaceByPk(i, r) ==
    /\ rows' = [rows EXCEPT ![i] = r]
    /\ unique_set' = (unique_set \ {rows[i].u}) \cup {r.u}
    /\ UNCHANGED <<pk_set, pk_row_index, index>>

-----------------------------------------------------------------------------
(* A batch a careful client sends with REPLACE or ON CONFLICT DO UPDATE:   *)
(* no u of it is held by a row with another key, or used for two keys.     *)
FreshRows(batch) ==
    /\ \A n \in DOMAIN batch, i \in DOMAIN rows :
            rows[i].u = batch[n].u => rows[i].id = batch[n].id
    /\ \A m, n \in DOMAIN batch :
            m # n /\ batch[m].u = batch[n].u
                => batch[m].id = batch[n].id /\ batch[m].id # Null

(* Assignments a careful client makes: keys no row holds, each used once.  *)
FreshCells(cells) ==
    /\ \A c \in cells, i \in DOMAIN rows :
            (c.id => rows[i].id # c.val) /\ (~c.id => rows[i].u # c.val)
    /\ \A c, d \in cells : c.id = d.id /\ c.val = d.val => c = d

(* exec_insert starts on a batch of rows.  Bounds: the table's size and    *)
(* the auto-increment counter.                                             *)
BeginInsert(m, batch) ==
    /\ mode = "none" /\ batch # <<>>
    /\ m = "replace" => Replaces
    /\ Len(rows) + Len(batch) <= MaxRows
    /\ (\E n \in DOMAIN batch : batch[n].id = Null)
            => next_auto_inc + Len(batch) <= MaxId + 1
    /\ Disciplined /\ m \in {"replace", "upsert"} => FreshRows(batch)
    /\ mode' = m /\ inserts' = batch
    /\ UNCHANGED <<rows, pk_set, pk_row_index, unique_set, indexed, index,
                   next_auto_inc, updates>>

(* The row is accepted. *)
InsertNew ==
    /\ inserts # <<>>
    /\ Filled \in Checked /\ ~Conflict(Filled)
    /\ Push(Filled) /\ TakeAutoInc /\ Continue
    /\ UNCHANGED <<indexed, updates>>

(* The CHECK fails, a key is taken and the mode has no answer, or REPLACE  *)
(* finds no row under the key (the conflict was on u) and inserts in vain: *)
(* the statement fails here and the rows before this one stay.             *)
InsertFails ==
    /\ inserts # <<>>
    /\ \/ Filled \notin Checked
       \/ Conflict(Filled) /\ mode = "abort"
       \/ Conflict(Filled) /\ mode = "replace" /\ pk_row_index[Filled.id] = 0
    /\ TakeAutoInc /\ Abandon
    /\ UNCHANGED <<rows, pk_set, pk_row_index, unique_set, indexed, index,
                   updates>>

(* OR IGNORE, ON CONFLICT DO NOTHING, and DO UPDATE when no row has the    *)
(* proposed key: the row is skipped silently.                              *)
InsertSkips ==
    /\ inserts # <<>>
    /\ Filled \in Checked /\ Conflict(Filled)
    /\ \/ mode \in {"ignore", "nothing"}
       \/ mode = "upsert" /\ pk_row_index[Filled.id] = 0
    /\ TakeAutoInc /\ Continue
    /\ UNCHANGED <<rows, pk_set, pk_row_index, unique_set, indexed, index,
                   updates>>

(* OR REPLACE on a key that has a row. *)
InsertReplaces ==
    /\ inserts # <<>>
    /\ Filled \in Checked /\ Conflict(Filled) /\ mode = "replace"
    /\ pk_row_index[Filled.id] \in DOMAIN rows
    /\ ReplaceByPk(pk_row_index[Filled.id], Filled)
    /\ TakeAutoInc /\ Continue
    /\ UNCHANGED <<indexed, updates>>

(* ON CONFLICT DO UPDATE SET u = EXCLUDED.u on a key that has a row. *)
InsertUpserts ==
    /\ inserts # <<>>
    /\ Filled \in Checked /\ Conflict(Filled) /\ mode = "upsert"
    /\ pk_row_index[Filled.id] \in DOMAIN rows
    /\ UpdateU(pk_row_index[Filled.id], Filled.u)
    /\ TakeAutoInc /\ Continue
    /\ UNCHANGED <<indexed, updates>>

(* pk_row_index names a position past the last row: indexing panics, the   *)
(* panic is caught at the extension boundary and the lock recovered.       *)
InsertPanics ==
    /\ inserts # <<>>
    /\ Filled \in Checked /\ Conflict(Filled) /\ mode \in {"replace", "upsert"}
    /\ pk_row_index[Filled.id] > Len(rows)
    /\ TakeAutoInc /\ Abandon
    /\ UNCHANGED <<rows, pk_set, pk_row_index, unique_set, indexed, index,
                   updates>>

-----------------------------------------------------------------------------
(* The rows a WHERE id = k finds: the fast path through pk_row_index. *)
FastPath(k) == {pk_row_index[k]} \ {0}

(* The rows any other WHERE finds by scanning, for a predicate that holds  *)
(* of the rows in S.                                                       *)
Scan(S) == {i \in DOMAIN rows : rows[i] \in S}

(* SET id = e [, u = e]: each value is computed from the row as it was. *)
Assignments ==
    {[id |-> TRUE, val |-> e] : e \in Ids \cup {Null, Succ}}
        \cup {[id |-> FALSE, val |-> e] : e \in Us}
Assigned(r, a) == IF a.val = Succ THEN r.id + 1 ELSE a.val
Cells(P, set) ==
    {[idx |-> i, id |-> a.id, val |-> Assigned(rows[i], a)] : i \in P, a \in set}

(* The row with one cell of the statement applied, as the CHECK sees it:   *)
(* assignments are validated one at a time.                                *)
Candidate(c) ==
    IF c.id THEN [id |-> c.val, u |-> rows[c.idx].u]
            ELSE [id |-> rows[c.idx].id, u |-> c.val]

(* Mutant: nothing is validated before the first write. *)
BeginUpdateUnchecked(P, set) ==
    /\ mode = "none" /\ P # {} /\ P \subseteq DOMAIN rows
    /\ Disciplined => FreshCells(Cells(P, set))
    /\ mode' = "update" /\ updates' = Cells(P, set)
    /\ UNCHANGED <<rows, pk_set, pk_row_index, unique_set, indexed, index,
                   next_auto_inc, inserts>>

(* exec_update validates every cell and starts writing (the guard on keys  *)
(* is its NULL test, and the bound for id + 1).  A NULL key or a           *)
(* failed CHECK rejects the statement before any change, a stale position  *)
(* panics before any change, and a statement that matches nothing changes  *)
(* nothing: none of these is a step.                                       *)
BeginUpdate(P, set) ==
    /\ mode = "none" /\ P # {} /\ P \subseteq DOMAIN rows
    /\ \A c \in Cells(P, set) :
            (c.id => c.val \in Ids) /\ Candidate(c) \in Checked
    /\ Disciplined => FreshCells(Cells(P, set))
    /\ mode' = "update" /\ updates' = Cells(P, set)
    /\ UNCHANGED <<rows, pk_set, pk_row_index, unique_set, indexed, index,
                   next_auto_inc, inserts>>

(* The next cell is written: rows in order. *)
UpdateCell(c) ==
    /\ c \in updates /\ \A d \in updates : c.idx <= d.idx
    /\ IF c.id THEN UpdateId(c.idx, c.val) ELSE UpdateU(c.idx, c.val)
    /\ updates' = updates \ {c}
    /\ mode' = IF updates = {c} THEN "none" ELSE mode
    /\ UNCHANGED <<indexed, next_auto_inc, inserts>>

(* exec_delete, for a predicate that holds of the rows in S. *)
Delete(S) ==
    /\ mode = "none"
    /\ \E f \in Enumerations(DOMAIN rows \ Scan(S)) :
            LET kept == [n \in DOMAIN f |-> rows[f[n]]]
            IN  rows' = kept /\ RebuildIndex(kept)
    /\ UNCHANGED <<indexed, next_auto_inc, mode, inserts, updates>>

(* TRUNCATE: clears rows, pk_set and the indices, and nothing else. *)
Truncate ==
    /\ mode = "none" /\ Truncates
    /\ rows' = <<>> /\ pk_set' = {}
    /\ indexed' = FALSE /\ index' = {}
    /\ UNCHANGED <<pk_row_index, unique_set, next_auto_inc, mode, inserts,
                   updates>>

(* VACUUM and REINDEX. *)
Vacuum ==
    /\ mode = "none"
    /\ RebuildIndex(rows)
    /\ UNCHANGED <<rows, indexed, next_auto_inc, mode, inserts, updates>>

CreateIndex ==
    /\ mode = "none" /\ ~indexed
    /\ indexed' = TRUE /\ index' = Entries(rows)
    /\ UNCHANGED <<rows, pk_set, pk_row_index, unique_set, next_auto_inc, mode,
                   inserts, updates>>

DropIndex ==
    /\ mode = "none" /\ indexed
    /\ indexed' = FALSE /\ index' = {}
    /\ UNCHANGED <<rows, pk_set, pk_row_index, unique_set, next_auto_inc, mode,
                   inserts, updates>>

Batches == UNION {[1 .. n -> NewRow] : n \in 1 .. MaxBatch}
SetClauses == {A \in SUBSET Assignments :
                  A # {} /\ \A a, b \in A : a.id = b.id => a = b}
ScanSets == SUBSET {rows[i] : i \in DOMAIN rows}

(* A statement starts; DELETE and those below it are a single step. *)
Begin ==
    /\ mode = "none"
    /\ \/ \E m \in InsertModes, batch \in Batches : BeginInsert(m, batch)
       \/ \E set \in SetClauses, k \in Ids : BeginUpdate(FastPath(k), set)
       \/ \E set \in SetClauses, S \in ScanSets : BeginUpdate(Scan(S), set)
       \/ \E S \in ScanSets : Delete(S)
       \/ Truncate \/ Vacuum \/ CreateIndex \/ DropIndex

(* The statement in progress goes on. *)
Proceed ==
    \/ InsertNew \/ InsertFails \/ InsertSkips
    \/ InsertReplaces \/ InsertUpserts \/ InsertPanics
    \/ \E c \in updates : UpdateCell(c)

Next == Begin \/ Proceed

Spec == Init /\ [][Next]_vars

-----------------------------------------------------------------------------
(* The primary-key structures describe the rows: pk_set (for uniqueness)   *)
(* is exactly the keys present, and pk_row_index (for lookups) finds the   *)
(* row of every key and nothing else, also in the middle of a statement    *)
(* that is about to fail.                                                  *)
PkAgrees ==
    /\ pk_set = IdsOf(rows)
    /\ \A k \in Ids :
            IF k \in pk_set
            THEN /\ pk_row_index[k] \in DOMAIN rows
                 /\ rows[pk_row_index[k]].id = k
            ELSE pk_row_index[k] = 0

(* unique_set is exactly the values of the UNIQUE column that are present, *)
(* so an INSERT is refused only for a value a row really holds.            *)
UniqueAgrees == unique_set = UsOf(rows)

(* No two rows share a primary key or a UNIQUE value: "duplicates are      *)
(* rejected" (SQL-Dialect.qmd, Constraints).                               *)
NoDuplicates ==
    \A i, j \in DOMAIN rows :
        i # j => rows[i].id # rows[j].id /\ rows[i].u # rows[j].u

(* The index lists every row at its present position under its present     *)
(* value, and nothing else: a SELECT that trusts it misses no row and      *)
(* never addresses a position past the end.                                *)
IndexAgrees == index = IF indexed THEN Entries(rows) ELSE {}

(* Seen as a set of rows, the table is a keyed table: rows are added or    *)
(* changed one at a time under keys no other row holds, or removed.        *)
Keyed == INSTANCE KeyedTable WITH
            Rows <- Row,
            rel  <- {rows[i] : i \in DOMAIN rows}
ImplementsKeyed == Keyed!KeyedSpec
=============================================================================
