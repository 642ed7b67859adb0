---------------------------- MODULE TableProofs ----------------------------
(***************************************************************************)
(* Table for any number of keys, values, rows and rows per statement: its  *)
(* types, the secondary index without INSERT OR REPLACE, and the key       *)
(* structures and the refinement of KeyedTable for clients that assign     *)
(* only free keys and do not TRUNCATE.                                     *)
(***************************************************************************)
EXTENDS Table, FiniteSetTheorems, WellFoundedInduction, TLAPS

-----------------------------------------------------------------------------
(* Facts about the operators Table is built from.                          *)

(* A set of positions that is not empty has a last one. *)
LEMMA LastPosition ==
    ASSUME NEW n \in Nat, NEW T \in SUBSET (1 .. n), T # {}
    PROVE  \E i \in T : \A j \in T : j <= i
<1> DEFINE D == {n - i : i \in T}
<1>0. \A i \in T : n - i \in Nat
  OBVIOUS
<1>1. D \subseteq Nat /\ D # {}
  BY <1>0
<1>2. PICK d \in D : \A e \in D : ~ (<<e, d>> \in OpToRel(<, Nat))
  <2> HIDE DEF D
  <2> QED
    BY <1>1, NatLessThanWellFounded, WFMin
<1>3. PICK i \in T : d = n - i
  BY <1>2
<1>4. \A j \in T : j <= i
  <2> TAKE j \in T
  <2>1. n - j \in D
    OBVIOUS
  <2>2. ~ (n - j < d)
    BY <2>1, <1>1, <1>2 DEF OpToRel
  <2> QED
    BY <2>2, <1>3
<1> QED
  BY <1>4

(* What rebuild_index leaves in pk_row_index for a key that is present. *)
LEMMA LastWithIsLast ==
    ASSUME NEW s \in Seq(Row), NEW k \in IdsOf(s)
    PROVE  /\ LastWith(s, k) \in DOMAIN s
           /\ s[LastWith(s, k)].id = k
<1> DEFINE T == {i \in DOMAIN s : s[i].id = k}
<1>1. T \in SUBSET (1 .. Len(s)) /\ T # {} /\ Len(s) \in Nat
  BY DEF IdsOf
<1>2. \E i \in T : \A j \in T : j <= i
  <2> HIDE DEF T
  <2> QED
    BY <1>1, LastPosition
<1>3. \E i \in DOMAIN s :
        s[i].id = k /\ \A j \in DOMAIN s : s[j].id = k => j <= i
  BY <1>2
<1> QED
  BY <1>3 DEF LastWith

LEMMA LastWithType ==
    ASSUME NEW s \in Seq(Row), NEW k
    PROVE  LastWith(s, k) \in Nat
<1>1. CASE k \in IdsOf(s)
  <2>1. LastWith(s, k) \in DOMAIN s
    BY <1>1, LastWithIsLast
  <2>2. DOMAIN s = 1 .. Len(s) /\ Len(s) \in Nat
    OBVIOUS
  <2> QED
    BY <2>1, <2>2
<1>2. CASE k \notin IdsOf(s)
  BY <1>2 DEF LastWith
<1> QED
  BY <1>1, <1>2

(* The rows a DELETE keeps are rows of the table, none twice. *)
LEMMA KeptRows ==
    ASSUME rows \in Seq(Row),
           NEW P \in SUBSET DOMAIN rows, NEW f \in Enumerations(P)
    PROVE  /\ DOMAIN f \subseteq Nat
           /\ \A n \in DOMAIN f : f[n] \in DOMAIN rows
           /\ \A m, n \in DOMAIN f : m # n => f[m] # f[n]
           /\ [n \in DOMAIN f |-> rows[f[n]]] \in Seq(Row)
<1>1. IsFiniteSet(DOMAIN rows)
  <2>1. DOMAIN rows = 1 .. Len(rows) /\ Len(rows) \in Nat
    OBVIOUS
  <2> QED
    BY <2>1, FS_Interval
<1>2. Cardinality(P) \in Nat
  BY <1>1, FS_Subset, FS_CardinalityType
<1>3. f \in [1 .. Cardinality(P) -> P]
  BY DEF Enumerations
<1>4. \A m, n \in DOMAIN f : m < n => f[m] < f[n]
  BY DEF Enumerations
<1>5. \A m, n \in DOMAIN f : m # n => f[m] # f[n]
  BY <1>2, <1>3, <1>4
<1> DEFINE g == [n \in DOMAIN f |-> rows[f[n]]]
<1>6. g \in [1 .. Cardinality(P) -> Row]
  BY <1>3
<1>7. g \in Seq(Row)
  BY <1>2, <1>6
<1> QED
  BY <1>2, <1>3, <1>5, <1>7

(* What a rebuild leaves is well typed. *)
LEMMA RebuildTyped ==
    ASSUME NEW s \in Seq(Row), indexed \in BOOLEAN, RebuildIndex(s)
    PROVE  /\ pk_set' \subseteq Ids
           /\ pk_row_index' \in [Ids -> Nat]
           /\ unique_set' \subseteq Us
           /\ index' \subseteq Nat \X Us
<1>1. \A i \in DOMAIN s : i \in Nat /\ s[i] \in Row
  OBVIOUS
<1>2. \A i \in DOMAIN s : s[i].id \in Ids /\ s[i].u \in Us
  BY <1>1 DEF Row
<1>3. pk_row_index' \in [Ids -> Nat]
  BY LastWithType DEF RebuildIndex
<1> QED
  BY <1>1, <1>2, <1>3 DEF RebuildIndex, IdsOf, UsOf, Entries

-----------------------------------------------------------------------------
(* A statement is in progress in one way only, and the cells an UPDATE has *)
(* left name rows that are still there.                                    *)
Alternate ==
    /\ mode = "none" => inserts = <<>> /\ updates = {}
    /\ inserts = <<>> \/ updates = {}

CellsFit ==
    \A c \in updates :
        /\ c.idx \in DOMAIN rows
        /\ IF c.id THEN c.val \in Ids ELSE c.val \in Us

Typed == TypeOK /\ Alternate /\ CellsFit

(* The parts of Typed that a write to the rows concerns.                   *)
StoreTyped ==
    /\ rows \in Seq(Row)
    /\ pk_set \subseteq Ids /\ pk_row_index \in [Ids -> Nat]
    /\ unique_set \subseteq Us /\ index \subseteq Nat \X Us

LEMMA PushTyped ==
    ASSUME Typed, NEW r \in Row, Push(r)
    PROVE  StoreTyped' /\ DOMAIN rows \subseteq DOMAIN rows'
<1>1. r.id \in Ids /\ r.u \in Us
  BY DEF Row
<1>2. rows' \in Seq(Row) /\ DOMAIN rows \subseteq DOMAIN rows' /\ Len(rows) + 1 \in Nat
  BY DEF Push, Typed, TypeOK
<1> QED
  BY <1>1, <1>2 DEF Push, Typed, TypeOK, StoreTyped

LEMMA UpdateIdTyped ==
    ASSUME Typed, NEW i \in DOMAIN rows, NEW k \in Ids, UpdateId(i, k)
    PROVE  StoreTyped' /\ DOMAIN rows' = DOMAIN rows
<1>0. rows[i] \in Row /\ i \in Nat
  BY DEF Typed, TypeOK
<1>1. rows[i].u \in Us /\ rows[i].id \in Ids
  BY <1>0 DEF Row
<1>2. [id |-> k, u |-> rows[i].u] \in Row
  BY <1>1 DEF Row
<1>3. rows' \in Seq(Row) /\ DOMAIN rows' = DOMAIN rows
  BY <1>2 DEF UpdateId, Typed, TypeOK
<1> QED
  BY <1>0, <1>1, <1>3 DEF UpdateId, Typed, TypeOK, StoreTyped

LEMMA UpdateUTyped ==
    ASSUME Typed, NEW i \in DOMAIN rows, NEW v \in Us, UpdateU(i, v)
    PROVE  StoreTyped' /\ DOMAIN rows' = DOMAIN rows
<1>0. rows[i] \in Row /\ i \in Nat
  BY DEF Typed, TypeOK
<1>1. rows[i].u \in Us /\ rows[i].id \in Ids
  BY <1>0 DEF Row
<1>2. [id |-> rows[i].id, u |-> v] \in Row
  BY <1>1 DEF Row
<1>3. rows' \in Seq(Row) /\ DOMAIN rows' = DOMAIN rows
  BY <1>2 DEF UpdateU, Typed, TypeOK
<1> QED
  BY <1>0, <1>1, <1>3 DEF UpdateU, Typed, TypeOK, StoreTyped

LEMMA ReplaceTyped ==
    ASSUME Typed, NEW i \in DOMAIN rows, NEW r \in Row, ReplaceByPk(i, r)
    PROVE  StoreTyped' /\ DOMAIN rows' = DOMAIN rows
<1>1. r.u \in Us
  BY DEF Row
<1>2. rows' \in Seq(Row) /\ DOMAIN rows' = DOMAIN rows
  BY DEF ReplaceByPk, Typed, TypeOK
<1> QED
  BY <1>1, <1>2 DEF ReplaceByPk, Typed, TypeOK, StoreTyped

(* What an INSERT does besides the rows. *)
LEMMA InsertGoesOn ==
    ASSUME Typed, inserts # <<>>, TakeAutoInc, Continue \/ Abandon
    PROVE  /\ next_auto_inc' \in Nat
           /\ inserts' \in Seq(NewRow)
           /\ mode' \in {"none", "update"} \cup InsertModes
           /\ updates = {}
           /\ mode' = "none" => inserts' = <<>>
<1>0. inserts \in Seq(NewRow)
  BY DEF Typed, TypeOK
<1> DEFINE T == NewRow
<1>1. inserts' \in Seq(NewRow)
  <2>1. inserts \in Seq(T)
    BY <1>0
  <2> HIDE DEF T
  <2>2. Tail(inserts) \in Seq(T) /\ <<>> \in Seq(T)
    BY <2>1
  <2>3. inserts' \in Seq(T)
    BY <2>2 DEF Continue, Abandon
  <2> QED
    BY <2>3 DEF T
<1>2. next_auto_inc' \in Nat
  BY DEF Typed, TypeOK, TakeAutoInc
<1> QED
  BY <1>1, <1>2 DEF Typed, TypeOK, Alternate, Continue, Abandon

-----------------------------------------------------------------------------
(* Every step keeps Typed. *)
LEMMA EmptyTyped == <<>> \in Seq(Row) /\ <<>> \in Seq(NewRow)
<1> DEFINE R == Row
           N == NewRow
<1> HIDE DEF R, N
<1>1. <<>> \in Seq(R) /\ <<>> \in Seq(N)
  OBVIOUS
<1> QED
  BY <1>1 DEF R, N

LEMMA FilledTyped ==
    ASSUME TableAssumption, Filled \in Checked
    PROVE  Filled \in Row /\ Filled.id \in Ids /\ Filled.u \in Us
<1>1. Filled \in Row
  BY DEF TableAssumption
<1> HIDE DEF Filled
<1> QED
  BY <1>1 DEF Row

LEMMA BatchesTyped == Batches \subseteq Seq(NewRow)
<1> SUFFICES ASSUME NEW n \in 1 .. MaxBatch, NEW b \in [1 .. n -> NewRow]
             PROVE  b \in Seq(NewRow)
  BY DEF Batches
<1> DEFINE T == NewRow
<1>1. b \in [1 .. n -> T] /\ n \in Nat
  OBVIOUS
<1> HIDE DEF T
<1>2. b \in Seq(T)
  BY <1>1
<1> QED
  BY <1>2 DEF T

(* A row written by an INSERT in progress. *)
LEMMA InsertWritesTyped ==
    ASSUME Typed, inserts # <<>>, TakeAutoInc, Continue,
           StoreTyped', indexed' = indexed, updates' = updates
    PROVE  Typed'
<1>1. /\ next_auto_inc' \in Nat
      /\ inserts' \in Seq(NewRow)
      /\ mode' \in {"none", "update"} \cup InsertModes
      /\ updates = {}
      /\ mode' = "none" => inserts' = <<>>
  BY InsertGoesOn
<1> QED
  BY <1>1 DEF Typed, TypeOK, StoreTyped, Alternate, CellsFit

(* An INSERT in progress that leaves the rows alone. *)
LEMMA InsertSkipTyped ==
    ASSUME Typed, inserts # <<>>, TakeAutoInc, Continue \/ Abandon,
           UNCHANGED <<rows, pk_set, pk_row_index, unique_set, indexed, index,
                       updates>>
    PROVE  Typed'
<1>1. /\ next_auto_inc' \in Nat
      /\ inserts' \in Seq(NewRow)
      /\ mode' \in {"none", "update"} \cup InsertModes
      /\ updates = {}
      /\ mode' = "none" => inserts' = <<>>
  BY InsertGoesOn
<1> QED
  BY <1>1 DEF Typed, TypeOK, StoreTyped, Alternate, CellsFit

LEMMA BeginUpdateTyped ==
    ASSUME TableAssumption, Typed, NEW P, NEW set \in SetClauses, BeginUpdate(P, set)
    PROVE  Typed'
<1>1. ASSUME NEW c \in Cells(P, set)
      PROVE  /\ c \in Cell /\ c.idx \in DOMAIN rows
             /\ IF c.id THEN c.val \in Ids ELSE c.val \in Us
  <2>1. PICK i \in P, a \in set :
            c = [idx |-> i, id |-> a.id, val |-> Assigned(rows[i], a)]
    BY DEF Cells
  <2>2. i \in DOMAIN rows /\ i \in Nat
    BY DEF BeginUpdate, Typed, TypeOK
  <2>3. a \in Assignments
    BY DEF SetClauses
  <2>8. a.id \in BOOLEAN
    <3>1. CASE a \in {[id |-> TRUE, val |-> e] : e \in Ids \cup {Null, Succ}}
      <4>1. PICK e \in Ids \cup {Null, Succ} : a = [id |-> TRUE, val |-> e]
        BY <3>1
      <4> QED
        BY <4>1
    <3>2. CASE a \in {[id |-> FALSE, val |-> e] : e \in Us}
      <4>1. PICK e \in Us : a = [id |-> FALSE, val |-> e]
        BY <3>2
      <4> QED
        BY <4>1
    <3> QED
      BY <2>3, <3>1, <3>2 DEF Assignments
  <2>4. c.idx = i /\ c.id = a.id /\ c.id \in BOOLEAN
    BY <2>1, <2>8
  <2>5. (c.id => c.val \in Ids) /\ Candidate(c) \in Row
    BY DEF BeginUpdate, TableAssumption
  <2>6. CASE c.id
    BY <2>1, <2>2, <2>4, <2>5, <2>6 DEF Cell
  <2>7. CASE ~ c.id
    <3>1. c.val \in Us
      BY <2>5, <2>7 DEF Candidate, Row
    <3> QED
      BY <2>1, <2>2, <2>4, <2>7, <3>1 DEF Cell
  <2> QED
    BY <2>4, <2>6, <2>7
<1> HIDE DEF Cells
<1>2. inserts = <<>>
  BY DEF BeginUpdate, Typed, Alternate
<1> QED
  BY <1>1, <1>2 DEF BeginUpdate, Typed, TypeOK, Alternate, CellsFit

LEMMA BeginTyped ==
    ASSUME TableAssumption, Typed, Begin
    PROVE  Typed'
<1> USE DEF Typed, TypeOK, Alternate, CellsFit
<1>0. mode = "none" /\ inserts = <<>> /\ updates = {}
  BY DEF Begin
<1>1. ASSUME NEW m \in InsertModes, NEW b \in Batches, BeginInsert(m, b)
      PROVE  Typed'
  <2>1. b \in Seq(NewRow)
    BY BatchesTyped
  <2>2. m # "none"
    BY DEF InsertModes
  <2> QED
    BY <1>0, <1>1, <2>1, <2>2 DEF BeginInsert
<1>2. ASSUME NEW set \in SetClauses, NEW P, BeginUpdate(P, set)
      PROVE  Typed'
  BY <1>2, BeginUpdateTyped
<1>3. ASSUME NEW S, Delete(S)
      PROVE  Typed'
  <2> DEFINE Q == DOMAIN rows \ Scan(S)
  <2>1. PICK f \in Enumerations(Q) :
            LET kept == [n \in DOMAIN f |-> rows[f[n]]]
            IN  rows' = kept /\ RebuildIndex(kept)
    BY <1>3 DEF Delete
  <2> DEFINE kept == [n \in DOMAIN f |-> rows[f[n]]]
  <2>2. kept \in Seq(Row)
    BY KeptRows
  <2>3. rows' = kept /\ RebuildIndex(kept)
    BY <2>1
  <2> HIDE DEF kept
  <2>4. /\ pk_set' \subseteq Ids /\ pk_row_index' \in [Ids -> Nat]
        /\ unique_set' \subseteq Us /\ index' \subseteq Nat \X Us
    BY <2>2, <2>3, RebuildTyped
  <2> QED
    BY <1>0, <1>3, <2>2, <2>3, <2>4 DEF Delete
<1>4. CASE Truncate
  BY <1>0, <1>4, EmptyTyped DEF Truncate
<1>5. CASE Vacuum
  <2>1. /\ pk_set' \subseteq Ids /\ pk_row_index' \in [Ids -> Nat]
        /\ unique_set' \subseteq Us /\ index' \subseteq Nat \X Us
    BY <1>5, RebuildTyped DEF Vacuum
  <2> QED
    BY <1>0, <1>5, <2>1 DEF Vacuum
<1>6. CASE CreateIndex
  <2>1. \A i \in DOMAIN rows : i \in Nat /\ rows[i] \in Row
    OBVIOUS
  <2>2. Entries(rows) \subseteq Nat \X Us
    BY <2>1 DEF Entries, Row
  <2> QED
    BY <1>0, <1>6, <2>2 DEF CreateIndex
<1>7. CASE DropIndex
  BY <1>0, <1>7 DEF DropIndex
<1> QED
  BY <1>1, <1>2, <1>3, <1>4, <1>5, <1>6, <1>7 DEF Begin

(* An UPDATE writes its next cell. *)
LEMMA UpdateCellTyped ==
    ASSUME Typed, NEW c \in updates, UpdateCell(c)
    PROVE  Typed'
<1>1. c.idx \in DOMAIN rows /\ IF c.id THEN c.val \in Ids ELSE c.val \in Us
  BY DEF Typed, CellsFit
<1>2. StoreTyped' /\ DOMAIN rows' = DOMAIN rows
  <2>1. CASE c.id
    BY <1>1, <2>1, UpdateIdTyped DEF UpdateCell
  <2>2. CASE ~ c.id
    BY <1>1, <2>2, UpdateUTyped DEF UpdateCell
  <2> QED
    BY <2>1, <2>2
<1>3. inserts = <<>>
  BY DEF Typed, Alternate
<1> QED
  BY <1>2, <1>3 DEF UpdateCell, Typed, TypeOK, StoreTyped, Alternate, CellsFit

LEMMA ProceedTyped ==
    ASSUME TableAssumption, Typed, Proceed
    PROVE  Typed'
<1>1. CASE InsertNew
  BY <1>1, FilledTyped, PushTyped, InsertWritesTyped DEF InsertNew
<1>2. CASE InsertFails
  BY <1>2, InsertSkipTyped DEF InsertFails
<1>3. CASE InsertSkips
  BY <1>3, InsertSkipTyped DEF InsertSkips
<1>4. CASE InsertReplaces
  BY <1>4, FilledTyped, ReplaceTyped, InsertWritesTyped DEF InsertReplaces
<1>5. CASE InsertUpserts
  BY <1>5, FilledTyped, UpdateUTyped, InsertWritesTyped DEF InsertUpserts
<1>6. CASE InsertPanics
  BY <1>6, InsertSkipTyped DEF InsertPanics
<1>7. CASE \E c \in updates : UpdateCell(c)
  BY <1>7, UpdateCellTyped
<1> QED
  BY <1>1, <1>2, <1>3, <1>4, <1>5, <1>6, <1>7 DEF Proceed

LEMMA InitTyped == ASSUME Init PROVE Typed
<1>1. rows \in Seq(Row) /\ inserts \in Seq(NewRow)
  BY EmptyTyped DEF Init
<1> QED
  BY <1>1 DEF Init, Typed, TypeOK, Alternate, CellsFit

LEMMA StepTyped ==
    ASSUME TableAssumption, Typed, [Next]_vars
    PROVE  Typed'
<1>1. CASE Next
  BY <1>1, BeginTyped, ProceedTyped DEF Next
<1>2. CASE UNCHANGED vars
  BY <1>2 DEF vars, Typed, TypeOK, Alternate, CellsFit
<1> QED
  BY <1>1, <1>2

(* The table and the structures beside it keep their types, whatever       *)
(* statements clients send: in particular pk_row_index and the index only  *)
(* ever hold positions, and an UPDATE in progress only writes rows that    *)
(* are still there.                                                        *)
THEOREM TypeCorrect == Spec => []TypeOK
<1>1. Init => Typed
  BY InitTyped
<1>2. Typed /\ [Next]_vars => Typed'
  BY StepTyped, TableAssumption
<1>3. Typed => TypeOK
  BY DEF Typed
<1> QED
  BY <1>1, <1>2, <1>3, PTL DEF Spec
-----------------------------------------------------------------------------
(* The secondary index, for clients that do not use INSERT OR REPLACE.     *)
IndexInv == Typed /\ mode # "replace" /\ IndexAgrees

LEMMA PushEntries ==
    ASSUME rows \in Seq(Row), NEW r \in Row
    PROVE  Entries(Append(rows, r)) = Entries(rows) \cup {<<Len(rows) + 1, r.u>>}
<1> DEFINE s == Append(rows, r)
           n == Len(rows)
<1>1. /\ n \in Nat /\ DOMAIN rows = 1 .. n /\ DOMAIN s = 1 .. (n + 1)
      /\ s[n + 1] = r /\ \A j \in 1 .. n : s[j] = rows[j]
  OBVIOUS
<1> HIDE DEF s, n
<1>2. DOMAIN s = (DOMAIN rows) \cup {n + 1}
  BY <1>1
<1>3. Entries(s) = Entries(rows) \cup {<<n + 1, r.u>>}
  BY <1>1, <1>2 DEF Entries
<1> QED
  BY <1>3 DEF s, n

LEMMA SameEntries ==
    ASSUME rows \in Seq(Row), NEW i \in DOMAIN rows, NEW k,
           rows' = [rows EXCEPT ![i] = [id |-> k, u |-> rows[i].u]]
    PROVE  Entries(rows') = Entries(rows)
<1>1. DOMAIN rows' = DOMAIN rows /\ \A j \in DOMAIN rows : rows'[j].u = rows[j].u
  OBVIOUS
<1> QED
  BY <1>1 DEF Entries

LEMMA UpdateEntries ==
    ASSUME rows \in Seq(Row), NEW i \in DOMAIN rows, NEW v,
           rows' = [rows EXCEPT ![i] = [id |-> rows[i].id, u |-> v]]
    PROVE  Entries(rows') = (Entries(rows) \ {<<i, rows[i].u>>}) \cup {<<i, v>>}
<1>1. /\ DOMAIN rows' = DOMAIN rows /\ rows'[i].u = v
      /\ \A j \in DOMAIN rows : j # i => rows'[j].u = rows[j].u
  OBVIOUS
<1> QED
  BY <1>1 DEF Entries

LEMMA IndexStep ==
    ASSUME TableAssumption, ~Replaces, IndexInv, Next
    PROVE  IndexAgrees' /\ mode' # "replace"
<1> USE DEF IndexInv
<1>0. rows \in Seq(Row)
  BY DEF Typed, TypeOK
<1>1. CASE Begin
  <2>1. ASSUME NEW m, NEW b, BeginInsert(m, b)
        PROVE  IndexAgrees' /\ mode' # "replace"
    BY <2>1 DEF BeginInsert, IndexAgrees
  <2>2. ASSUME NEW P, NEW set, BeginUpdate(P, set)
        PROVE  IndexAgrees' /\ mode' # "replace"
    BY <2>2 DEF BeginUpdate, IndexAgrees
  <2>3. ASSUME NEW S, Delete(S)
        PROVE  IndexAgrees' /\ mode' # "replace"
    <3> DEFINE kept(f) == [n \in DOMAIN f |-> rows[f[n]]]
    <3>1. PICK f : rows' = kept(f) /\ RebuildIndex(kept(f))
      BY <2>3 DEF Delete
    <3> HIDE DEF kept
    <3> QED
      BY <2>3, <3>1 DEF Delete, RebuildIndex, IndexAgrees
  <2>4. CASE Truncate
    BY <2>4 DEF Truncate, IndexAgrees
  <2>5. CASE Vacuum
    BY <2>5 DEF Vacuum, RebuildIndex, IndexAgrees
  <2>6. CASE CreateIndex
    BY <2>6 DEF CreateIndex, IndexAgrees
  <2>7. CASE DropIndex
    BY <2>7 DEF DropIndex, IndexAgrees
  <2> QED
    BY <1>1, <2>1, <2>2, <2>3, <2>4, <2>5, <2>6, <2>7 DEF Begin
<1>2. CASE InsertNew
  <2>1. Filled \in Row
    BY <1>2, FilledTyped DEF InsertNew
  <2>2. Entries(rows') = Entries(rows) \cup {<<Len(rows) + 1, Filled.u>>}
    BY <1>0, <1>2, <2>1, PushEntries DEF InsertNew, Push
  <2> QED
    BY <1>2, <2>2 DEF InsertNew, Push, Continue, IndexAgrees
<1>3. CASE InsertFails
  BY <1>3 DEF InsertFails, Abandon, IndexAgrees
<1>4. CASE InsertSkips
  BY <1>4 DEF InsertSkips, Continue, IndexAgrees
<1>5. CASE InsertReplaces
  BY <1>5 DEF InsertReplaces
<1>6. ASSUME NEW i \in DOMAIN rows, NEW v, UpdateU(i, v), indexed' = indexed
      PROVE  IndexAgrees'
  <2>1. Entries(rows') = (Entries(rows) \ {<<i, rows[i].u>>}) \cup {<<i, v>>}
    BY <1>0, <1>6, UpdateEntries DEF UpdateU
  <2> QED
    BY <1>6, <2>1 DEF UpdateU, IndexAgrees
<1>7. CASE InsertUpserts
  BY <1>6, <1>7 DEF InsertUpserts, Continue
<1>8. CASE InsertPanics
  BY <1>8 DEF InsertPanics, Abandon, IndexAgrees
<1>9. ASSUME NEW c \in updates, UpdateCell(c)
      PROVE  IndexAgrees' /\ mode' # "replace"
  <2>1. c.idx \in DOMAIN rows
    BY DEF Typed, CellsFit
  <2>2. CASE c.id
    <3>1. Entries(rows') = Entries(rows)
      BY <1>0, <1>9, <2>1, <2>2, SameEntries DEF UpdateCell, UpdateId
    <3> QED
      BY <1>9, <2>2, <3>1 DEF UpdateCell, UpdateId, IndexAgrees
  <2>3. CASE ~ c.id
    BY <1>6, <1>9, <2>1, <2>3 DEF UpdateCell
  <2> QED
    BY <1>9, <2>2, <2>3 DEF UpdateCell
<1> QED
  BY <1>1, <1>2, <1>3, <1>4, <1>5, <1>7, <1>8, <1>9 DEF Next, Proceed

(* Without INSERT OR REPLACE the secondary index always lists exactly the  *)
(* rows, whatever else clients do: keys assigned twice, TRUNCATE, failed   *)
(* statements and statements in progress included.                         *)
THEOREM IndexCorrect ==
    ASSUME ~Replaces
    PROVE  Spec => []IndexAgrees
<1>1. Init => IndexInv
  BY InitTyped DEF Init, IndexInv, IndexAgrees
<1>2. IndexInv /\ [Next]_vars => IndexInv'
  <2> SUFFICES ASSUME IndexInv, [Next]_vars
               PROVE  IndexInv'
    OBVIOUS
  <2>1. Typed'
    BY StepTyped, TableAssumption DEF IndexInv
  <2>2. CASE Next
    BY <2>1, <2>2, IndexStep, TableAssumption DEF IndexInv
  <2>3. CASE UNCHANGED vars
    BY <2>1, <2>3 DEF vars, IndexInv, IndexAgrees
  <2> QED
    BY <2>2, <2>3
<1>3. IndexInv => IndexAgrees
  BY DEF IndexInv
<1> QED
  BY <1>1, <1>2, <1>3, PTL DEF Spec
-----------------------------------------------------------------------------
(* The key structures, for clients that assign only free keys and do not   *)
(* TRUNCATE.  What they promise of a statement has to be kept while it is  *)
(* in progress, for the rows or cells that are left.                       *)
KeysAgree == PkAgrees /\ UniqueAgrees /\ NoDuplicates
StillFresh ==
    /\ mode \in {"replace", "upsert"} => FreshRows(inserts)
    /\ FreshCells(updates)

KeysInv == Typed /\ KeysAgree /\ StillFresh

(* The set of rows, as KeyedTable sees the table. *)
Rel(s) == {s[i] : i \in DOMAIN s}

(* A row is appended under keys that no row has. *)
LEMMA RowAdded ==
    ASSUME Typed, NoDuplicates, NEW r \in Row, rows' = Append(rows, r),
           r.id \notin IdsOf(rows), r.u \notin UsOf(rows)
    PROVE  /\ NoDuplicates'
           /\ IdsOf(rows') = IdsOf(rows) \cup {r.id}
           /\ UsOf(rows') = UsOf(rows) \cup {r.u}
           /\ Rel(rows') = Rel(rows) \cup {r}
           /\ \A q \in Rel(rows) : q.id # r.id /\ q.u # r.u
<1> DEFINE n == Len(rows)
<1>1. /\ n \in Nat /\ DOMAIN rows = 1 .. n /\ DOMAIN rows' = 1 .. (n + 1)
      /\ rows'[n + 1] = r /\ \A j \in 1 .. n : rows'[j] = rows[j]
  BY DEF Typed, TypeOK
<1> HIDE DEF n
<1>2. DOMAIN rows' = (DOMAIN rows) \cup {n + 1}
  BY <1>1
<1>3. \A j \in DOMAIN rows : rows[j].id # r.id /\ rows[j].u # r.u
  BY DEF IdsOf, UsOf
<1>4. \A j \in DOMAIN rows : rows'[j] = rows[j]
  BY <1>1
<1>5. NoDuplicates'
  BY <1>1, <1>2, <1>3, <1>4 DEF NoDuplicates
<1>6. IdsOf(rows') = IdsOf(rows) \cup {r.id}
  BY <1>1, <1>2, <1>4 DEF IdsOf
<1>7. UsOf(rows') = UsOf(rows) \cup {r.u}
  BY <1>1, <1>2, <1>4 DEF UsOf
<1>8. Rel(rows') = Rel(rows) \cup {r}
  BY <1>1, <1>2, <1>4 DEF Rel
<1>9. \A q \in Rel(rows) : q.id # r.id /\ q.u # r.u
  BY <1>3 DEF Rel
<1> QED
  BY <1>5, <1>6, <1>7, <1>8, <1>9

(* A row is overwritten by one whose keys no other row has. *)
Swapped(i, r) ==
    /\ NoDuplicates'
    /\ IdsOf(rows') = (IdsOf(rows) \ {rows[i].id}) \cup {r.id}
    /\ UsOf(rows') = (UsOf(rows) \ {rows[i].u}) \cup {r.u}
    /\ r.id = rows[i].id => IdsOf(rows') = IdsOf(rows)
    /\ r.u = rows[i].u => UsOf(rows') = UsOf(rows)
    /\ Rel(rows') = (Rel(rows) \ {rows[i]}) \cup {r}
    /\ rows[i] \in Rel(rows)
    /\ \A q \in Rel(rows) \ {rows[i]} : q.id # r.id /\ q.u # r.u

LEMMA RowChanged ==
    ASSUME Typed, NoDuplicates, NEW i \in DOMAIN rows, NEW r \in Row,
           rows' = [rows EXCEPT ![i] = r],
           \A j \in DOMAIN rows : j # i => rows[j].id # r.id /\ rows[j].u # r.u
    PROVE  Swapped(i, r)
<1>1. /\ DOMAIN rows' = DOMAIN rows /\ rows'[i] = r
      /\ \A j \in DOMAIN rows : j # i => rows'[j] = rows[j]
  BY DEF Typed, TypeOK
<1>2. \A j \in DOMAIN rows :
          j # i => rows[j].id # rows[i].id /\ rows[j].u # rows[i].u
  BY DEF NoDuplicates
<1>3. \A j \in DOMAIN rows : j # i => rows[j] # rows[i]
  BY <1>2
<1>4. NoDuplicates'
  BY <1>1 DEF NoDuplicates
<1>5. IdsOf(rows') = (IdsOf(rows) \ {rows[i].id}) \cup {r.id}
  BY <1>1, <1>2 DEF IdsOf
<1>6. UsOf(rows') = (UsOf(rows) \ {rows[i].u}) \cup {r.u}
  BY <1>1, <1>2 DEF UsOf
<1>7. Rel(rows') = (Rel(rows) \ {rows[i]}) \cup {r}
  BY <1>1, <1>3 DEF Rel
<1>8. \A q \in Rel(rows) \ {rows[i]} : q.id # r.id /\ q.u # r.u
  BY DEF Rel
<1>9. rows[i] \in Rel(rows)
  BY DEF Rel
<1>10. r.id = rows[i].id => IdsOf(rows') = IdsOf(rows)
  BY <1>1 DEF IdsOf
<1>11. r.u = rows[i].u => UsOf(rows') = UsOf(rows)
  BY <1>1 DEF UsOf
<1> QED
  BY <1>4, <1>5, <1>6, <1>7, <1>8, <1>9, <1>10, <1>11 DEF Swapped

(* The key structures after a rebuild from rows without duplicates.        *)
LEMMA RebuiltAgree ==
    ASSUME rows' \in Seq(Row), RebuildIndex(rows')
    PROVE  PkAgrees' /\ UniqueAgrees'
<1>1. ASSUME NEW k \in Ids
      PROVE  IF k \in IdsOf(rows')
             THEN /\ LastWith(rows', k) \in DOMAIN rows'
                  /\ rows'[LastWith(rows', k)].id = k
             ELSE LastWith(rows', k) = 0
  <2>1. CASE k \in IdsOf(rows')
    BY <2>1, LastWithIsLast
  <2>2. CASE k \notin IdsOf(rows')
    BY <2>2 DEF LastWith
  <2> QED
    BY <2>1, <2>2
<1>2. pk_set' = IdsOf(rows') /\ unique_set' = UsOf(rows')
  BY DEF RebuildIndex
<1>3. \A k \in Ids : pk_row_index'[k] = LastWith(rows', k)
  BY DEF RebuildIndex
<1>4. PkAgrees'
  BY <1>1, <1>2, <1>3 DEF PkAgrees
<1> QED
  BY <1>2, <1>4 DEF UniqueAgrees

(* What every step has to give: the key structures still agree with the    *)
(* rows, the rest of the statement is still free of conflicts, and the set *)
(* of rows took a step of KeyedTable.                                      *)
Outcome ==
    /\ KeysAgree' /\ StillFresh'
    /\ Keyed!KeyedNext \/ rows' = rows

(* A step that leaves the rows and the key structures alone. *)
LEMMA KeysKept ==
    ASSUME KeysAgree, UNCHANGED <<rows, pk_set, pk_row_index, unique_set>>
    PROVE  KeysAgree'
  BY DEF KeysAgree, PkAgrees, UniqueAgrees, NoDuplicates

LEMMA NothingLeft ==
    ASSUME inserts' = <<>>, updates' = {}
    PROVE  StillFresh'
<1>1. DOMAIN inserts' = {}
  OBVIOUS
<1> QED
  BY <1>1 DEF StillFresh, FreshRows, FreshCells

(* The rows an INSERT still has to write stay free of conflicts when the   *)
(* one before them is written, over an old row or beside the old rows.     *)
LEMMA RestFresh ==
    ASSUME TableAssumption, Typed, StillFresh, inserts # <<>>, Continue,
           Filled.id \in Ids, updates' = updates,
           \A j \in DOMAIN rows' :
              rows'[j] = Filled \/ \E k \in DOMAIN rows : rows'[j] = rows[k]
    PROVE  StillFresh'
<1> DEFINE rest == Tail(inserts)
<1>0. updates' = {}
  BY DEF Typed, Alternate
<1>1. SUFFICES ASSUME mode' \in {"replace", "upsert"}
               PROVE  FreshRows(inserts)'
  BY <1>0 DEF StillFresh, FreshCells
<1>2. FreshRows(inserts) /\ inserts' = rest
  BY <1>1 DEF Continue, StillFresh
<1>3. /\ 1 \in DOMAIN inserts /\ Head(inserts) = inserts[1]
      /\ \A n \in DOMAIN rest : /\ n \in Nat /\ n + 1 \in DOMAIN inserts
                               /\ rest[n] = inserts[n + 1] /\ n + 1 # 1
  <2> DEFINE T == NewRow
  <2>1. inserts \in Seq(T)
    BY DEF Typed, TypeOK
  <2> HIDE DEF T
  <2> QED
    BY <2>1
<1>4. /\ Filled.u = inserts[1].u
      /\ inserts[1].id # Null => Filled.id = inserts[1].id
  BY <1>3 DEF Filled
<1>5. ASSUME NEW n \in DOMAIN rest, NEW j \in DOMAIN rows',
             rows'[j].u = rest[n].u
      PROVE  rows'[j].id = rest[n].id
  <2>1. CASE rows'[j] = Filled
    <3>1. inserts[1].u = inserts[n + 1].u
      BY <1>3, <1>4, <1>5, <2>1
    <3>2. inserts[1].id = inserts[n + 1].id /\ inserts[1].id # Null
      BY <1>2, <1>3, <3>1 DEF FreshRows
    <3> QED
      BY <1>3, <1>4, <2>1, <3>2
  <2>2. CASE \E k \in DOMAIN rows : rows'[j] = rows[k]
    BY <1>2, <1>3, <1>5, <2>2 DEF FreshRows
  <2> QED
    BY <2>1, <2>2
<1>6. ASSUME NEW m \in DOMAIN rest, NEW n \in DOMAIN rest,
             m # n, rest[m].u = rest[n].u
      PROVE  rest[m].id = rest[n].id /\ rest[m].id # Null
  <2>1. m + 1 # n + 1
    BY <1>3, <1>6
  <2> QED
    BY <1>2, <1>3, <1>6, <2>1 DEF FreshRows
<1> HIDE DEF rest
<1> QED
  BY <1>2, <1>5, <1>6 DEF FreshRows

LEMMA AddStep ==
    ASSUME NEW r \in Row, Rel(rows') = Rel(rows) \cup {r},
           \A q \in Rel(rows) : q.id # r.id /\ q.u # r.u
    PROVE  Keyed!KeyedNext
<1>1. Keyed!Add(r)
  BY DEF Keyed!Add, Keyed!Unused, Rel
<1> QED
  BY <1>1 DEF Keyed!KeyedNext

LEMMA ChangeStep ==
    ASSUME NEW o \in Rel(rows), NEW r \in Row,
           Rel(rows') = (Rel(rows) \ {o}) \cup {r},
           \A q \in Rel(rows) \ {o} : q.id # r.id /\ q.u # r.u
    PROVE  Keyed!KeyedNext
<1>1. Keyed!Change(o, r)
  BY DEF Keyed!Change, Keyed!Unused, Rel
<1> QED
  BY <1>1 DEF Keyed!KeyedNext, Rel

LEMMA InsertNewKeys ==
    ASSUME TableAssumption, KeysInv, InsertNew
    PROVE  Outcome
<1> DEFINE r == Filled
           n == Len(rows)
<1>1. r \in Row /\ r.id \in Ids /\ r.u \in Us
  BY FilledTyped DEF InsertNew
<1>2. /\ pk_set = IdsOf(rows) /\ unique_set = UsOf(rows)
      /\ Typed /\ NoDuplicates /\ StillFresh
  BY DEF KeysInv, KeysAgree, PkAgrees, UniqueAgrees
<1>3. /\ rows' = Append(rows, r)
      /\ pk_set' = pk_set \cup {r.id}
      /\ pk_row_index' = [pk_row_index EXCEPT ![r.id] = n + 1]
      /\ unique_set' = unique_set \cup {r.u}
      /\ updates' = updates /\ Continue /\ inserts # <<>>
      /\ r.id \notin pk_set /\ r.u \notin unique_set
  BY DEF InsertNew, Push, Conflict
<1>4. /\ n \in Nat /\ DOMAIN rows = 1 .. n /\ DOMAIN rows' = 1 .. (n + 1)
      /\ rows'[n + 1] = r /\ \A j \in 1 .. n : rows'[j] = rows[j]
  BY <1>1, <1>2, <1>3 DEF Typed, TypeOK
<1> HIDE DEF r, n
<1>5. /\ NoDuplicates'
      /\ IdsOf(rows') = IdsOf(rows) \cup {r.id}
      /\ UsOf(rows') = UsOf(rows) \cup {r.u}
      /\ Rel(rows') = Rel(rows) \cup {r}
      /\ \A q \in Rel(rows) : q.id # r.id /\ q.u # r.u
  BY <1>1, <1>2, <1>3, RowAdded
<1>6. PkAgrees'
  <2>1. pk_row_index \in [Ids -> Nat]
    BY <1>2 DEF Typed, TypeOK
  <2>2. ASSUME NEW k \in Ids
        PROVE  IF k \in pk_set'
               THEN /\ pk_row_index'[k] \in DOMAIN rows'
                    /\ rows'[pk_row_index'[k]].id = k
               ELSE pk_row_index'[k] = 0
    <3>1. IF k \in pk_set
          THEN /\ pk_row_index[k] \in DOMAIN rows
               /\ rows[pk_row_index[k]].id = k
          ELSE pk_row_index[k] = 0
      BY DEF KeysInv, KeysAgree, PkAgrees
    <3>2. CASE k = r.id
      BY <1>1, <1>3, <1>4, <2>1, <3>2
    <3>3. CASE k # r.id
      BY <1>1, <1>3, <1>4, <2>1, <3>1, <3>3
    <3> QED
      BY <3>2, <3>3
  <2> QED
    BY <1>2, <1>3, <1>5, <2>2 DEF PkAgrees
<1>7. UniqueAgrees'
  BY <1>2, <1>3, <1>5 DEF UniqueAgrees
<1>8. StillFresh'
  <2>1. \A j \in DOMAIN rows' :
            rows'[j] = r \/ \E k \in DOMAIN rows : rows'[j] = rows[k]
    BY <1>4
  <2> QED
    BY <1>1, <1>2, <1>3, <2>1, RestFresh DEF r
<1> QED
  BY <1>1, <1>5, <1>6, <1>7, <1>8, AddStep DEF Outcome, KeysAgree

(* OR REPLACE and DO UPDATE on the row that has the proposed key. *)
LEMMA SameKeyKeys ==
    ASSUME TableAssumption, KeysInv, inserts # <<>>, Continue,
           mode \in {"replace", "upsert"}, Filled \in Checked,
           NEW i \in DOMAIN rows, i = pk_row_index[Filled.id],
           rows' = [rows EXCEPT ![i] = Filled],
           unique_set' = (unique_set \ {rows[i].u}) \cup {Filled.u},
           UNCHANGED <<pk_set, pk_row_index, updates>>
    PROVE  Outcome
<1> DEFINE r == Filled
<1>1. r \in Row /\ r.id \in Ids /\ r.u \in Us
  BY FilledTyped
<1>2. /\ pk_set = IdsOf(rows) /\ unique_set = UsOf(rows)
      /\ Typed /\ NoDuplicates /\ StillFresh
  BY DEF KeysInv, KeysAgree, PkAgrees, UniqueAgrees
<1>3. /\ DOMAIN rows' = DOMAIN rows /\ rows'[i] = r
      /\ \A j \in DOMAIN rows : j # i => rows'[j] = rows[j]
  BY <1>2 DEF Typed, TypeOK
<1>4. rows[i].id = r.id
  <2>1. 0 \notin DOMAIN rows
    BY <1>2 DEF Typed, TypeOK
  <2> QED
    BY <1>1, <2>1 DEF KeysInv, KeysAgree, PkAgrees
<1>5. 1 \in DOMAIN inserts /\ r.u = inserts[1].u
      /\ (inserts[1].id # Null => r.id = inserts[1].id)
  <2> DEFINE T == NewRow
  <2>1. inserts \in Seq(T)
    BY <1>2 DEF Typed, TypeOK
  <2> HIDE DEF T
  <2>2. 1 \in DOMAIN inserts /\ Head(inserts) = inserts[1]
    BY <2>1
  <2> QED
    BY <2>2 DEF Filled
<1> HIDE DEF r
<1>6. \A j \in DOMAIN rows : j # i => rows[j].id # r.id /\ rows[j].u # r.u
  <2> TAKE j \in DOMAIN rows
  <2> HAVE j # i
  <2>1. rows[j].id # r.id
    BY <1>2, <1>4 DEF NoDuplicates
  <2>2. ASSUME rows[j].u = r.u
        PROVE  FALSE
    <3>1. rows[j].id = inserts[1].id
      BY <1>2, <1>5, <2>2 DEF StillFresh, FreshRows
    <3>2. rows[j] \in Row
      BY <1>2 DEF Typed, TypeOK
    <3>3. rows[j].id # Null
      BY <3>2 DEF Row, TableAssumption
    <3> QED
      BY <1>5, <2>1, <3>1, <3>3
  <2> QED
    BY <2>1, <2>2
<1>7. rows' = [rows EXCEPT ![i] = r]
  BY DEF r
<1>8. /\ NoDuplicates'
      /\ IdsOf(rows') = (IdsOf(rows) \ {rows[i].id}) \cup {r.id}
      /\ UsOf(rows') = (UsOf(rows) \ {rows[i].u}) \cup {r.u}
      /\ r.id = rows[i].id => IdsOf(rows') = IdsOf(rows)
      /\ Rel(rows') = (Rel(rows) \ {rows[i]}) \cup {r}
      /\ rows[i] \in Rel(rows)
      /\ \A q \in Rel(rows) \ {rows[i]} : q.id # r.id /\ q.u # r.u
  <2>1. Swapped(i, r)
    BY <1>1, <1>2, <1>6, <1>7, RowChanged
  <2> QED
    BY <2>1 DEF Swapped
<1>9. PkAgrees'
  <2>1. IdsOf(rows') = IdsOf(rows)
    BY <1>4, <1>8
  <2>2. \A k \in DOMAIN rows : rows'[k].id = rows[k].id
    BY <1>3, <1>4
  <2>3. PkAgrees
    BY DEF KeysInv, KeysAgree
  <2> QED
    BY <1>3, <2>1, <2>2, <2>3 DEF PkAgrees
<1>10. UniqueAgrees'
  BY <1>2, <1>8 DEF UniqueAgrees, r
<1>11. StillFresh'
  <2>1. \A j \in DOMAIN rows' :
            rows'[j] = r \/ \E k \in DOMAIN rows : rows'[j] = rows[k]
    BY <1>3
  <2> QED
    BY <1>1, <1>2, <2>1, RestFresh DEF r
<1> QED
  BY <1>1, <1>8, <1>9, <1>10, <1>11, ChangeStep DEF Outcome, KeysAgree

LEMMA UpdateCellKeys ==
    ASSUME TableAssumption, KeysInv, NEW c \in updates, UpdateCell(c)
    PROVE  Outcome
<1> DEFINE i == c.idx
           old == rows[i]
           r == Candidate(c)
<1>1. /\ pk_set = IdsOf(rows) /\ unique_set = UsOf(rows)
      /\ Typed /\ NoDuplicates /\ FreshCells(updates) /\ PkAgrees
  BY DEF KeysInv, KeysAgree, PkAgrees, UniqueAgrees, StillFresh
<1>2. /\ i \in DOMAIN rows /\ c.id \in BOOLEAN
      /\ IF c.id THEN c.val \in Ids ELSE c.val \in Us
  BY <1>1 DEF Typed, TypeOK, CellsFit, Cell
<1>3. old \in Row /\ old.id \in Ids /\ old.u \in Us
  <2>1. old \in Row
    BY <1>1, <1>2 DEF Typed, TypeOK
  <2> HIDE DEF old
  <2> QED
    BY <2>1 DEF Row
<1>4. /\ r \in Row /\ rows' = [rows EXCEPT ![i] = r]
      /\ c.id => r.id = c.val /\ r.u = old.u /\ r.id # old.id
      /\ ~c.id => r.id = old.id /\ r.u = c.val /\ r.u # old.u
  <2>1. CASE c.id
    <3>1. rows' = [rows EXCEPT ![i] = [id |-> c.val, u |-> rows[i].u]]
      BY <2>1 DEF UpdateCell, UpdateId
    <3>2. old.id # c.val
      BY <1>1, <1>2, <2>1 DEF FreshCells
    <3> QED
      BY <1>2, <1>3, <2>1, <3>1, <3>2 DEF Candidate, Row
  <2>2. CASE ~ c.id
    <3>1. rows' = [rows EXCEPT ![i] = [id |-> rows[i].id, u |-> c.val]]
      BY <2>2 DEF UpdateCell, UpdateU
    <3>2. old.u # c.val
      BY <1>1, <1>2, <2>2 DEF FreshCells
    <3> QED
      BY <1>2, <1>3, <2>2, <3>1, <3>2 DEF Candidate, Row
  <2> QED
    BY <1>2, <2>1, <2>2
<1>5. /\ DOMAIN rows' = DOMAIN rows /\ rows'[i] = r
      /\ \A j \in DOMAIN rows : j # i => rows'[j] = rows[j]
  BY <1>1, <1>2, <1>4 DEF Typed, TypeOK
<1> HIDE DEF r, i
<1>6. \A j \in DOMAIN rows :
          j # i => rows[j].id # old.id /\ rows[j].u # old.u
  BY <1>1, <1>2 DEF NoDuplicates
<1>7. \A j \in DOMAIN rows : j # i => rows[j].id # r.id /\ rows[j].u # r.u
  <2> TAKE j \in DOMAIN rows
  <2> HAVE j # i
  <2>1. (c.id => rows[j].id # c.val) /\ (~c.id => rows[j].u # c.val)
    BY <1>1 DEF FreshCells
  <2> QED
    BY <1>2, <1>4, <1>6, <2>1
<1>8. /\ NoDuplicates'
      /\ IdsOf(rows') = (IdsOf(rows) \ {old.id}) \cup {r.id}
      /\ UsOf(rows') = (UsOf(rows) \ {old.u}) \cup {r.u}
      /\ r.id = old.id => IdsOf(rows') = IdsOf(rows)
      /\ r.u = old.u => UsOf(rows') = UsOf(rows)
      /\ Rel(rows') = (Rel(rows) \ {old}) \cup {r}
      /\ old \in Rel(rows)
      /\ \A q \in Rel(rows) \ {old} : q.id # r.id /\ q.u # r.u
  <2>1. Swapped(i, r)
    BY <1>1, <1>2, <1>4, <1>7, RowChanged
  <2> QED
    BY <2>1 DEF Swapped
<1>9. PkAgrees' /\ UniqueAgrees'
  <2>1. CASE c.id
    <3>1. /\ pk_set' = (pk_set \ {old.id}) \cup {r.id}
          /\ pk_row_index' = [pk_row_index EXCEPT ![old.id] = 0, ![r.id] = i]
          /\ unique_set' = unique_set
      BY <1>4, <2>1 DEF UpdateCell, UpdateId, i
    <3> HIDE DEF old
    <3>2. UniqueAgrees'
      BY <1>1, <1>4, <1>8, <2>1, <3>1 DEF UniqueAgrees
    <3>3. ASSUME NEW k \in Ids
          PROVE  IF k \in pk_set'
                 THEN /\ pk_row_index'[k] \in DOMAIN rows'
                      /\ rows'[pk_row_index'[k]].id = k
                 ELSE pk_row_index'[k] = 0
      <4>1. pk_row_index \in [Ids -> Nat] /\ r.id \in Ids
        BY <1>1, <1>2, <1>4, <2>1 DEF Typed, TypeOK
      <4>2. IF k \in pk_set
            THEN /\ pk_row_index[k] \in DOMAIN rows
                 /\ rows[pk_row_index[k]].id = k
            ELSE pk_row_index[k] = 0
        BY <1>1 DEF PkAgrees
      <4>3. CASE k = r.id
        BY <1>2, <1>5, <3>1, <4>1, <4>3
      <4>4. CASE k # r.id /\ k = old.id
        BY <3>1, <4>1, <4>4
      <4>5. CASE k # r.id /\ k # old.id
        <5>1. pk_row_index'[k] = pk_row_index[k] /\ (k \in pk_set' <=> k \in pk_set)
          BY <3>1, <4>1, <4>5
        <5>2. pk_row_index[k] # i \/ k \notin pk_set
          BY <4>2, <4>5 DEF old
        <5> QED
          BY <1>5, <4>2, <5>1, <5>2
      <4> QED
        BY <4>3, <4>4, <4>5
    <3>4. pk_set' = IdsOf(rows')
      BY <1>1, <1>8, <3>1
    <3> QED
      BY <3>2, <3>3, <3>4 DEF PkAgrees
  <2>2. CASE ~ c.id
    <3>1. /\ unique_set' = (unique_set \ {old.u}) \cup {r.u}
          /\ pk_row_index' = pk_row_index /\ pk_set' = pk_set
      BY <1>4, <2>2 DEF UpdateCell, UpdateU, i
    <3>2. IdsOf(rows') = IdsOf(rows)
      BY <1>4, <1>8, <2>2
    <3>3. \A j \in DOMAIN rows : rows'[j].id = rows[j].id
      BY <1>4, <1>5, <2>2
    <3>4. UniqueAgrees'
      BY <1>1, <1>8, <3>1 DEF UniqueAgrees
    <3>5. PkAgrees'
      BY <1>1, <1>5, <3>1, <3>2, <3>3 DEF PkAgrees
    <3> QED
      BY <3>4, <3>5
  <2> QED
    BY <1>2, <2>1, <2>2
<1>10. StillFresh'
  <2>1. updates' = updates \ {c} /\ inserts' = inserts /\ inserts = <<>>
    BY <1>1 DEF UpdateCell, Typed, Alternate
  <2>2. DOMAIN inserts' = {}
    BY <2>1
  <2>3. FreshRows(inserts)'
    BY <2>2 DEF FreshRows
  <2>4. ASSUME NEW d \in updates \ {c}, NEW j \in DOMAIN rows
        PROVE  /\ d.id => rows'[j].id # d.val
               /\ ~d.id => rows'[j].u # d.val
    <3>1. d.id \in BOOLEAN
      BY <1>1 DEF Typed, TypeOK, Cell
    <3>2. (d.id => rows[j].id # d.val) /\ (~d.id => rows[j].u # d.val)
      BY <1>1 DEF FreshCells
    <3>3. c.id = d.id => c.val # d.val
      BY <1>1 DEF FreshCells
    <3> QED
      BY <1>2, <1>4, <1>5, <3>1, <3>2, <3>3
  <2>5. FreshCells(updates)'
    BY <1>1, <1>5, <2>1, <2>4 DEF FreshCells
  <2> QED
    BY <2>3, <2>5 DEF StillFresh
<1> HIDE DEF old
<1> QED
  BY <1>4, <1>8, <1>9, <1>10, ChangeStep DEF Outcome, KeysAgree

(* The rows a DELETE keeps are rows it found, still without duplicates.    *)
LEMMA DeleteKeys ==
    ASSUME KeysInv, NEW S, Delete(S)
    PROVE  KeysAgree' /\ Keyed!KeyedNext
<1> DEFINE P == DOMAIN rows \ Scan(S)
           kept(f) == [n \in DOMAIN f |-> rows[f[n]]]
<1>0. rows \in Seq(Row) /\ NoDuplicates
  BY DEF KeysInv, KeysAgree, Typed, TypeOK
<1>1. PICK f \in Enumerations(P) : rows' = kept(f) /\ RebuildIndex(kept(f))
  BY DEF Delete
<1>2. /\ \A n \in DOMAIN f : f[n] \in DOMAIN rows
      /\ \A m, n \in DOMAIN f : m # n => f[m] # f[n]
      /\ kept(f) \in Seq(Row)
  BY <1>0, KeptRows
<1>3. DOMAIN rows' = DOMAIN f /\ \A n \in DOMAIN f : rows'[n] = rows[f[n]]
  BY <1>1
<1>4. rows' \in Seq(Row) /\ RebuildIndex(rows')
  BY <1>1, <1>2
<1> HIDE DEF kept, P
<1>5. PkAgrees' /\ UniqueAgrees'
  BY <1>4, RebuiltAgree
<1>6. NoDuplicates'
  BY <1>0, <1>2, <1>3 DEF NoDuplicates
<1>7. Rel(rows') \subseteq Rel(rows)
  BY <1>2, <1>3 DEF Rel
<1>8. Keyed!KeyedNext
  BY <1>7 DEF Keyed!KeyedNext, Keyed!RemoveSome, Rel
<1> QED
  BY <1>5, <1>6, <1>8 DEF KeysAgree

LEMMA BeginKeys ==
    ASSUME TableAssumption, Disciplined, ~Truncates, KeysInv, Begin
    PROVE  Outcome
<1>0. /\ mode = "none" /\ inserts = <<>> /\ updates = {}
      /\ KeysAgree /\ rows \in Seq(Row) /\ NoDuplicates
  BY DEF Begin, KeysInv, KeysAgree, Typed, TypeOK, Alternate
<1>1. ASSUME NEW m, NEW b, BeginInsert(m, b)
      PROVE  Outcome
  <2>1. KeysAgree' /\ rows' = rows /\ updates' = {}
    BY <1>0, <1>1, KeysKept DEF BeginInsert
  <2>2. mode' \in {"replace", "upsert"} => FreshRows(inserts')
    BY <1>1 DEF BeginInsert
  <2>3. StillFresh'
    BY <2>1, <2>2 DEF StillFresh, FreshRows, FreshCells
  <2> QED
    BY <2>1, <2>3 DEF Outcome
<1>2. ASSUME NEW P, NEW set, BeginUpdate(P, set)
      PROVE  Outcome
  <2>1. KeysAgree' /\ rows' = rows
    BY <1>0, <1>2, KeysKept DEF BeginUpdate
  <2>2. mode' = "update" /\ FreshCells(updates')
    BY <1>2 DEF BeginUpdate
  <2>3. StillFresh'
    BY <2>1, <2>2 DEF StillFresh, FreshCells
  <2> QED
    BY <2>1, <2>3 DEF Outcome
<1>3. ASSUME NEW S, Delete(S)
      PROVE  Outcome
  <2>1. KeysAgree' /\ Keyed!KeyedNext
    BY <1>3, DeleteKeys
  <2>2. StillFresh'
    BY <1>0, <1>3, NothingLeft DEF Delete
  <2> QED
    BY <2>1, <2>2 DEF Outcome
<1>4. CASE Vacuum
  <2>1. rows' = rows /\ RebuildIndex(rows') /\ rows' \in Seq(Row)
    BY <1>0, <1>4 DEF Vacuum
  <2>2. PkAgrees' /\ UniqueAgrees'
    BY <2>1, RebuiltAgree
  <2>3. NoDuplicates'
    BY <1>0, <2>1 DEF NoDuplicates
  <2>4. StillFresh'
    BY <1>0, <1>4, NothingLeft DEF Vacuum
  <2> QED
    BY <2>1, <2>2, <2>3, <2>4 DEF Outcome, KeysAgree
<1>5. CASE CreateIndex \/ DropIndex
  <2>1. UNCHANGED <<rows, pk_set, pk_row_index, unique_set, inserts, updates>>
    BY <1>5 DEF CreateIndex, DropIndex
  <2> QED
    BY <1>0, <2>1, KeysKept, NothingLeft DEF Outcome
<1>6. ~ Truncate
  BY DEF Truncate
<1> QED
  BY <1>1, <1>2, <1>3, <1>4, <1>5, <1>6 DEF Begin

(* An INSERT that skips a row or gives up. *)
LEMMA InsertLeavesKeys ==
    ASSUME TableAssumption, KeysInv, InsertFails \/ InsertSkips \/ InsertPanics
    PROVE  Outcome
<1>1. UNCHANGED <<rows, pk_set, pk_row_index, unique_set, updates>>
  BY DEF InsertFails, InsertSkips, InsertPanics
<1>2. KeysAgree'
  BY <1>1, KeysKept DEF KeysInv
<1>3. CASE Abandon
  <2>1. inserts' = <<>>
    BY <1>3 DEF Abandon
  <2>2. updates = {}
    BY DEF InsertFails, InsertSkips, InsertPanics, KeysInv, Typed, Alternate
  <2> QED
    BY <1>1, <1>2, <2>1, <2>2, NothingLeft DEF Outcome
<1>4. CASE InsertSkips
  <2>1. Filled.id \in Ids
    BY <1>4, FilledTyped DEF InsertSkips
  <2>2. \A j \in DOMAIN rows' :
            rows'[j] = Filled \/ \E k \in DOMAIN rows : rows'[j] = rows[k]
    BY <1>1
  <2>3. StillFresh'
    BY <1>1, <1>4, <2>1, <2>2, RestFresh DEF InsertSkips, KeysInv
  <2> QED
    BY <1>1, <1>2, <2>3 DEF Outcome
<1> QED
  BY <1>3, <1>4 DEF InsertFails, InsertPanics

LEMMA ProceedKeys ==
    ASSUME TableAssumption, KeysInv, Proceed
    PROVE  Outcome
<1>1. CASE InsertReplaces
  BY <1>1, SameKeyKeys DEF InsertReplaces, ReplaceByPk
<1>2. CASE InsertUpserts
  <2> DEFINE i == pk_row_index[Filled.id]
  <2>1. rows[i].id = Filled.id
    <3>1. Filled.id \in Ids
      BY <1>2, FilledTyped DEF InsertUpserts
    <3>2. i \in DOMAIN rows /\ 0 \notin DOMAIN rows
      BY <1>2 DEF InsertUpserts, KeysInv, Typed, TypeOK
    <3> QED
      BY <3>1, <3>2 DEF KeysInv, KeysAgree, PkAgrees
  <2>2. Filled = [id |-> rows[i].id, u |-> Filled.u]
    BY <2>1 DEF Filled
  <2>3. rows' = [rows EXCEPT ![i] = Filled]
    BY <1>2, <2>2 DEF InsertUpserts, UpdateU
  <2> QED
    BY <1>2, <2>3, SameKeyKeys DEF InsertUpserts, UpdateU
<1>3. CASE \E c \in updates : UpdateCell(c)
  BY <1>3, UpdateCellKeys
<1> QED
  BY <1>1, <1>2, <1>3, InsertNewKeys, InsertLeavesKeys DEF Proceed

LEMMA KeysStep ==
    ASSUME TableAssumption, Disciplined, ~Truncates, KeysInv, [Next]_vars
    PROVE  KeysInv' /\ (Keyed!KeyedNext \/ rows' = rows)
<1>1. Typed'
  BY StepTyped DEF KeysInv
<1>2. CASE Next
  BY <1>1, <1>2, BeginKeys, ProceedKeys DEF Next, Outcome, KeysInv
<1>3. CASE UNCHANGED vars
  <2>1. KeysAgree'
    BY <1>3, KeysKept DEF vars, KeysInv
  <2>2. StillFresh'
    BY <1>3 DEF vars, KeysInv, StillFresh, FreshRows, FreshCells
  <2> QED
    BY <1>1, <1>3, <2>1, <2>2 DEF vars, KeysInv
<1> QED
  BY <1>2, <1>3

LEMMA InitKeys == ASSUME Init PROVE KeysInv
<1>1. rows = <<>> /\ DOMAIN rows = {}
  BY DEF Init
<1>2. KeysAgree
  BY <1>1 DEF Init, KeysAgree, PkAgrees, UniqueAgrees, NoDuplicates, IdsOf, UsOf
<1>3. StillFresh
  BY <1>1 DEF Init, StillFresh, FreshRows, FreshCells
<1> QED
  BY <1>2, <1>3, InitTyped DEF KeysInv

(* For clients that assign only free keys and do not TRUNCATE, the four    *)
(* structures agree with the rows in every state, in the middle of a       *)
(* statement too, and no two rows share a key: whichever mode an INSERT    *)
(* uses, wherever it fails, and whatever was deleted before it.            *)
THEOREM KeysCorrect ==
    ASSUME Disciplined, ~Truncates
    PROVE  Spec => [](PkAgrees /\ UniqueAgrees /\ NoDuplicates)
<1>1. Init => KeysInv
  BY InitKeys
<1>2. KeysInv /\ [Next]_vars => KeysInv'
  BY KeysStep, TableAssumption
<1>3. KeysInv => PkAgrees /\ UniqueAgrees /\ NoDuplicates
  BY DEF KeysInv, KeysAgree
<1> QED
  BY <1>1, <1>2, <1>3, PTL DEF Spec

(* pk_set and pk_row_index in particular: no key is lost, kept after its   *)
(* row or found at another row's position.                                 *)
COROLLARY PkCorrect ==
    ASSUME Disciplined, ~Truncates
    PROVE  Spec => []PkAgrees
BY KeysCorrect, PTL

(* ... and unique_set.                                                     *)
COROLLARY UniqueCorrect ==
    ASSUME Disciplined, ~Truncates
    PROVE  Spec => []UniqueAgrees
BY KeysCorrect, PTL

(* For those clients a table, seen as its set of rows, is a keyed table:   *)
(* every step of a statement adds or changes one row under keys that no    *)
(* other row holds, or removes rows, or leaves the rows alone.             *)
THEOREM TableImplementsKeyed ==
    ASSUME Disciplined, ~Truncates
    PROVE  Spec => ImplementsKeyed
<1>1. Init => KeysInv /\ Keyed!KeyedInit
  <2>1. ASSUME Init PROVE {rows[i] : i \in DOMAIN rows} = {}
    BY <2>1 DEF Init
  <2> QED
    BY <2>1, InitKeys DEF Keyed!KeyedInit
<1>2. KeysInv /\ [Next]_vars
          => KeysInv' /\ [Keyed!KeyedNext]_({rows[i] : i \in DOMAIN rows})
  BY KeysStep, TableAssumption
<1> QED
  BY <1>1, <1>2, PTL DEF Spec, ImplementsKeyed, Keyed!KeyedSpec
=============================================================================
