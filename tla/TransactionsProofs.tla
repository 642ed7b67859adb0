------------------------- MODULE TransactionsProofs -------------------------
(***************************************************************************)
(* Proofs about Transactions for any number of clients, items, names and   *)
(* any depth of nesting.                                                   *)
(***************************************************************************)
EXTENDS Transactions, TLAPS

(* The stack without one snapshot is a stack, and which snapshots it has.  *)
LEMMA WithoutFacts ==
    ASSUME savepoints \in Seq(Snapshot), NEW i \in 1 .. Depth
    PROVE  /\ Without(i) \in Seq(Snapshot)
           /\ Len(Without(i)) = Depth - 1
           /\ \A j \in 1 .. Depth - 1 :
                Without(i)[j] = IF j < i THEN savepoints[j] ELSE savepoints[j + 1]
<1>1. Depth \in Nat /\ Depth >= 1
  BY DEF Depth
<1>2. \A j \in 1 .. Depth : savepoints[j] \in Snapshot
  BY DEF Depth
<1>3. Without(i) \in [1 .. Depth - 1 -> Snapshot]
  BY <1>1, <1>2 DEF Without
<1>4. Without(i) \in Seq(Snapshot)
  BY <1>1, <1>3
<1> QED
  BY <1>1, <1>3, <1>4 DEF Without

LEMMA TopType ==
    ASSUME savepoints \in Seq(Snapshot), Depth # 0
    PROVE  Depth \in 1 .. Depth /\ Top \in Snapshot /\ Top.saved \subseteq Items
<1>1. Depth \in 1 .. Depth
  BY DEF Depth
<1>2. Top \in Snapshot
  BY <1>1 DEF Depth, Top
<1> QED
  BY <1>1, <1>2 DEF Snapshot

(* Type correctness of the content, the stack and the clients' view. *)
THEOREM TypeCorrect == Spec => []TypeOK
<1>1. Init => TypeOK
  BY DEF Init, TypeOK
<1>2. TypeOK /\ [Next]_vars => TypeOK'
  <2> SUFFICES ASSUME TypeOK, [Next]_vars PROVE TypeOK'
    OBVIOUS
  <2> USE DEF TypeOK
  <2>p. ASSUME NEW n \in Names \cup {NoName}, Push(n)
        PROVE  savepoints' \in Seq(Snapshot) /\ db' = db
    BY <2>p DEF Push, Snapshot
  <2>r. PopAndRestore => savepoints' \in Seq(Snapshot) /\ db' \subseteq Items
    BY TopType, WithoutFacts DEF PopAndRestore
  <2>f. ASSUME NEW c \in Clients, NEW kept \in SUBSET Items, Finished(c, kept)
        PROVE  open' \in [Clients -> Nat] /\ pending' \in [Clients -> SUBSET Items]
    BY <2>f DEF Finished
  <2>1. ASSUME NEW c \in Clients, NEW w \in Items, Insert(c, w) \/ Delete(c, w)
        PROVE  TypeOK'
    BY <2>1 DEF Insert, Delete
  <2>2. ASSUME NEW c \in Clients, Begin(c) PROVE TypeOK'
    BY <2>2, <2>p DEF Begin
  <2>3. ASSUME NEW c \in Clients, NEW n \in Names, Savepoint(c, n) PROVE TypeOK'
    BY <2>3, <2>p DEF Savepoint
  <2>4. ASSUME NEW c \in Clients, Commit(c) PROVE TypeOK'
    <3>1. savepoints' \in Seq(Snapshot) /\ safe' \subseteq Items /\ db' = db
      BY <2>4, TopType, WithoutFacts DEF Commit
    <3>2. Finished(c, pending[c])
      BY <2>4 DEF Commit
    <3> QED
      BY <3>1, <3>2, <2>f
  <2>5. ASSUME NEW c \in Clients, Rollback(c) PROVE TypeOK'
    <3>1. Finished(c, pending[c] \cap db') /\ PopAndRestore /\ safe' = safe
      BY <2>5 DEF Rollback
    <3> QED
      BY <3>1, <2>r, <2>f
  <2>6. ASSUME NEW c \in Clients, NEW w \in Items, InsertOrRollback(c, w)
        PROVE  TypeOK'
    BY <2>5, <2>6 DEF InsertOrRollback
  <2>7. ASSUME NEW c \in Clients, NEW n \in Names, RollbackTo(c, n) PROVE TypeOK'
    BY <2>7, <2>r DEF RollbackTo
  <2>8. ASSUME NEW c \in Clients, NEW n \in Names, Release(c, n) PROVE TypeOK'
    BY <2>8, WithoutFacts DEF Release
  <2>9. ASSUME NEW c \in Clients, Reset(c) PROVE TypeOK'
    BY <2>9 DEF Reset
  <2>11. ASSUME NEW c \in Clients, Load(c) PROVE TypeOK'
    <3>1. savepoints' = <<>>
      BY <2>11 DEF Load
    <3>2. savepoints' \in Seq(Snapshot)
      BY <3>1
    <3> QED
      BY <2>11, <3>2 DEF Load
  <2>10. CASE UNCHANGED vars
    BY <2>10 DEF vars
  <2> QED
    BY <2>1, <2>2, <2>3, <2>4, <2>5, <2>6, <2>7, <2>8, <2>9, <2>10, <2>11 DEF Next
<1> QED
  BY <1>1, <1>2, PTL DEF Spec

-----------------------------------------------------------------------------
(***************************************************************************)
(* The stack of whole-content snapshots implements the stack of layers.    *)
(* For a content x above the snapshots s, Level(x, s, i) is what a reader  *)
(* saw when level i began, and the last one what it sees now; layer i is   *)
(* the difference of two neighbours.                                       *)
(***************************************************************************)
Diff(S, T) == (S \ T) \cup (T \ S)
Level(x, s, i) == IF i = Len(s) + 1 THEN x ELSE s[i].saved
Base(x, s) == Level(x, s, 1)
Stack(x, s) ==
    [i \in 1 .. Len(s) |-> Diff(Level(x, s, i), Level(x, s, i + 1))]

LEMMA FlipFacts ==
    ASSUME NEW S, NEW T
    PROVE  /\ Diff(S, Diff(S, T)) = T
           /\ Diff(S, S) = {}
  BY DEF Diff

LEMMA FlipComposes ==
    ASSUME NEW S, NEW T, NEW U
    PROVE  Diff(Diff(S, T), Diff(T, U)) = Diff(S, U)
  BY DEF Diff

(* The substitutions of the refinement mapping, in these terms. *)
LEMMA MappingFacts ==
    ASSUME NEW x, NEW s \in Seq(Snapshot)
    PROVE  /\ (IF Len(s) = 0 THEN x ELSE s[1].saved) = Base(x, s)
           /\ [i \in 1 .. Len(s) |->
                  (s[i].saved \ (IF i = Len(s) THEN x ELSE s[i + 1].saved))
                    \cup ((IF i = Len(s) THEN x ELSE s[i + 1].saved) \ s[i].saved)]
              = Stack(x, s)
           /\ Len(Stack(x, s)) = Len(s)
           /\ Stack(x, s) = <<>> <=> Len(s) = 0
<1>1. Len(s) \in Nat
  OBVIOUS
<1>2. \A i \in 1 .. Len(s) :
        /\ s[i].saved = Level(x, s, i)
        /\ (IF i = Len(s) THEN x ELSE s[i + 1].saved) = Level(x, s, i + 1)
  BY <1>1 DEF Level
<1> QED
  BY <1>1, <1>2 DEF Stack, Base, Level, Diff


(* A statement changes the content: the difference goes to the base when   *)
(* there is no layer ...                                                   *)
LEMMA StatementInBase ==
    ASSUME NEW s \in Seq(Snapshot), NEW x, NEW y, Len(s) = 0
    PROVE  /\ Base(y, s) = Diff(Base(x, s), Diff(x, y))
           /\ Stack(y, s) = Stack(x, s)
<1>1. Level(x, s, 1) = x /\ Level(y, s, 1) = y
  BY DEF Level
<1> QED
  BY <1>1, FlipFacts DEF Base, Stack

(* ... and to the top layer otherwise.                                     *)
LEMMA StatementInLayer ==
    ASSUME NEW s \in Seq(Snapshot), NEW x, NEW y, Len(s) # 0
    PROVE  /\ Base(y, s) = Base(x, s)
           /\ Stack(y, s) = [Stack(x, s) EXCEPT ![Len(s)] =
                                Diff(Stack(x, s)[Len(s)], Diff(x, y))]
<1>0. Len(s) \in Nat
  OBVIOUS
<1>1. \A i \in 1 .. Len(s) : Level(y, s, i) = Level(x, s, i)
  BY <1>0 DEF Level
<1>2. Level(x, s, Len(s) + 1) = x /\ Level(y, s, Len(s) + 1) = y
  BY <1>0 DEF Level
<1>3. Base(y, s) = Base(x, s)
  BY <1>0, <1>1 DEF Base
<1>4. Stack(y, s)[Len(s)] = Diff(Stack(x, s)[Len(s)], Diff(x, y))
  BY <1>0, <1>1, <1>2, FlipComposes DEF Stack
<1>5. \A i \in 1 .. Len(s) : i # Len(s) => Stack(y, s)[i] = Stack(x, s)[i]
  BY <1>0, <1>1 DEF Stack
<1>6. /\ Stack(y, s) = [i \in 1 .. Len(s) |-> Stack(y, s)[i]]
      /\ Stack(x, s) = [i \in 1 .. Len(s) |-> Stack(x, s)[i]]
  BY <1>0 DEF Stack
<1> QED
  BY <1>3, <1>4, <1>5, <1>6

(* Append as a function. *)
LEMMA AppendFunction ==
    ASSUME NEW S, NEW q \in Seq(S), NEW e
    PROVE  Append(q, e) = [i \in 1 .. Len(q) + 1 |->
                              IF i = Len(q) + 1 THEN e ELSE q[i]]
<1>1. q \in Seq(S \cup {e}) /\ Len(q) \in Nat
  OBVIOUS
<1>2. Append(q, e) \in Seq(S \cup {e}) /\ Len(Append(q, e)) = Len(q) + 1
  BY <1>1
<1>3. Append(q, e) \in [1 .. Len(q) + 1 -> S \cup {e}]
  <2> DEFINE a == Append(q, e)
  <2>1. a \in Seq(S \cup {e}) /\ Len(a) = Len(q) + 1
    BY <1>2
  <2> HIDE DEF a
  <2>2. a \in [1 .. Len(a) -> S \cup {e}]
    BY <2>1
  <2> QED
    BY <2>1, <2>2 DEF a
<1>4. \A i \in 1 .. Len(q) + 1 :
        Append(q, e)[i] = IF i = Len(q) + 1 THEN e ELSE q[i]
  BY <1>1
<1> QED
  BY <1>3, <1>4

(* BEGIN and SAVEPOINT open an empty layer. *)
LEMMA PushFacts ==
    ASSUME NEW s \in Seq(Snapshot), NEW x, NEW r \in Snapshot, r.saved = x
    PROVE  /\ Base(x, Append(s, r)) = Base(x, s)
           /\ Stack(x, Append(s, r)) = Append(Stack(x, s), {})
<1> DEFINE t == Append(s, r)
<1>0. Len(s) \in Nat /\ Len(t) = Len(s) + 1 /\ t[Len(s) + 1] = r
  OBVIOUS
<1>1. \A i \in 1 .. Len(s) : t[i] = s[i]
  OBVIOUS
<1> HIDE DEF t
<1>2. \A i \in 1 .. Len(s) + 1 : Level(x, t, i) = Level(x, s, i)
  BY <1>0, <1>1 DEF Level
<1>3. Level(x, s, Len(s) + 1) = x /\ Level(x, t, Len(s) + 2) = x
  BY <1>0 DEF Level
<1>4. Base(x, t) = Base(x, s)
  BY <1>0, <1>2 DEF Base
<1>5. Stack(x, t) = [i \in 1 .. Len(s) + 1 |->
                        IF i = Len(s) + 1 THEN {} ELSE Stack(x, s)[i]]
  <2>1. \A i \in 1 .. Len(s) :
            Diff(Level(x, t, i), Level(x, t, i + 1)) = Stack(x, s)[i]
    BY <1>0, <1>2 DEF Stack
  <2>2. Diff(Level(x, t, Len(s) + 1), Level(x, t, Len(s) + 1 + 1)) = {}
    <3>1. Level(x, t, Len(s) + 1) = x /\ Level(x, t, Len(s) + 1 + 1) = x
      BY <1>0, <1>2, <1>3
    <3> QED
      BY <3>1, FlipFacts
  <2>3. Stack(x, t) =
            [i \in 1 .. Len(t) |-> Diff(Level(x, t, i), Level(x, t, i + 1))]
    BY DEF Stack
  <2>4. ASSUME NEW i \in 1 .. Len(s) + 1
        PROVE  Diff(Level(x, t, i), Level(x, t, i + 1)) =
                    IF i = Len(s) + 1 THEN {} ELSE Stack(x, s)[i]
    <3>1. CASE i = Len(s) + 1
      BY <2>2, <3>1
    <3>2. CASE i \in 1 .. Len(s)
      BY <1>0, <2>1, <3>2
    <3> QED
      BY <1>0, <3>1, <3>2
  <2> QED
    BY <1>0, <2>3, <2>4
<1>6. Len(Stack(x, s)) = Len(s)
  BY MappingFacts
<1>7. Append(Stack(x, s), {}) = [i \in 1 .. Len(s) + 1 |->
                        IF i = Len(s) + 1 THEN {} ELSE Stack(x, s)[i]]
  <2>1. Stack(x, s) \in Seq({Stack(x, s)[i] : i \in 1 .. Len(s)})
    BY <1>0 DEF Stack
  <2> QED
    BY <1>6, <2>1, AppendFunction
<1> QED
  BY <1>4, <1>5, <1>7 DEF t


(* Taking snapshot k out of the stack folds its layer into the one below:  *)
(* COMMIT at the top, RELEASE anywhere.                                    *)
Removed(s, t, k) ==
    /\ Len(t) = Len(s) - 1
    /\ \A j \in 1 .. Len(t) : t[j] = IF j < k THEN s[j] ELSE s[j + 1]
Folded(B, S, C, T, n, k) ==
    /\ C = IF k = 1 THEN Diff(B, S[1]) ELSE B
    /\ T = [j \in 1 .. n |-> IF j = k - 1 THEN Diff(S[j], S[k])
                             ELSE IF j < k THEN S[j] ELSE S[j + 1]]

LEMMA MergeFacts ==
    ASSUME NEW s \in Seq(Snapshot), NEW t \in Seq(Snapshot), NEW x,
           NEW k \in 1 .. Len(s), Removed(s, t, k)
    PROVE  Folded(Base(x, s), Stack(x, s), Base(x, t), Stack(x, t), Len(t), k)
<1>0. Len(s) \in Nat /\ Len(t) \in Nat /\ k \in Nat /\ Len(t) = Len(s) - 1
  BY DEF Removed
<1>1. \A j \in 1 .. Len(s) :
        Level(x, t, j) = IF j < k THEN Level(x, s, j) ELSE Level(x, s, j + 1)
  BY <1>0 DEF Level, Removed
<1>2. \A j \in 1 .. Len(s) :
        Stack(x, s)[j] = Diff(Level(x, s, j), Level(x, s, j + 1))
  BY DEF Stack
<1>3. Base(x, t) = IF k = 1 THEN Diff(Base(x, s), Stack(x, s)[1])
                            ELSE Base(x, s)
  <2>1. 1 \in 1 .. Len(s)
    BY <1>0
  <2>2. /\ Level(x, t, 1) = IF 1 < k THEN Level(x, s, 1) ELSE Level(x, s, 2)
        /\ Stack(x, s)[1] = Diff(Level(x, s, 1), Level(x, s, 2))
    BY <1>1, <1>2, <2>1
  <2> QED
    BY <1>0, <2>2, FlipFacts DEF Base
<1>4. ASSUME NEW j \in 1 .. Len(s) - 1
      PROVE  Diff(Level(x, t, j), Level(x, t, j + 1)) =
                IF j = k - 1 THEN Diff(Stack(x, s)[j], Stack(x, s)[k])
                ELSE IF j < k THEN Stack(x, s)[j] ELSE Stack(x, s)[j + 1]
  <2>0. j \in Nat /\ j \in 1 .. Len(s) /\ j + 1 \in 1 .. Len(s)
    BY <1>0
  <2>1. CASE j = k - 1
    <3>1. /\ Level(x, t, j) = Level(x, s, j)
          /\ Level(x, t, j + 1) = Level(x, s, j + 2)
          /\ Stack(x, s)[j] = Diff(Level(x, s, j), Level(x, s, j + 1))
          /\ Stack(x, s)[k] = Diff(Level(x, s, j + 1), Level(x, s, j + 2))
      BY <1>0, <1>1, <1>2, <2>0, <2>1
    <3> QED
      BY <2>1, <3>1, FlipComposes
  <2>2. CASE j < k - 1
    BY <1>0, <1>1, <1>2, <2>0, <2>2
  <2>3. CASE j >= k
    BY <1>0, <1>1, <1>2, <2>0, <2>3
  <2> QED
    BY <1>0, <2>0, <2>1, <2>2, <2>3
<1>5. Stack(x, t) =
        [j \in 1 .. Len(t) |-> Diff(Level(x, t, j), Level(x, t, j + 1))]
  BY DEF Stack
<1> QED
  BY <1>0, <1>3, <1>4, <1>5 DEF Folded

(* Restoring the top snapshot drops the top layer. *)
LEMMA DropFacts ==
    ASSUME NEW s \in Seq(Snapshot), NEW t \in Seq(Snapshot), NEW x,
           Len(s) # 0, Len(t) = Len(s) - 1,
           \A j \in 1 .. Len(t) : t[j] = s[j]
    PROVE  /\ Base(s[Len(s)].saved, t) = Base(x, s)
           /\ Stack(s[Len(s)].saved, t) = [j \in 1 .. Len(s) - 1 |-> Stack(x, s)[j]]
<1> DEFINE y == s[Len(s)].saved
<1>0. Len(s) \in Nat /\ Len(t) \in Nat
  OBVIOUS
<1>1. \A j \in 1 .. Len(s) : Level(y, t, j) = Level(x, s, j)
  BY <1>0 DEF Level
<1>2. \A j \in 1 .. Len(s) :
        Stack(x, s)[j] = Diff(Level(x, s, j), Level(x, s, j + 1))
  BY DEF Stack
<1>3. Stack(y, t) =
        [j \in 1 .. Len(t) |-> Diff(Level(y, t, j), Level(y, t, j + 1))]
  BY DEF Stack
<1> HIDE DEF y
<1>4. Base(y, t) = Base(x, s)
  BY <1>0, <1>1 DEF Base
<1>5. Stack(y, t) = [j \in 1 .. Len(s) - 1 |-> Stack(x, s)[j]]
  BY <1>0, <1>1, <1>2, <1>3
<1> QED
  BY <1>4, <1>5 DEF y


-----------------------------------------------------------------------------
(* The mapped state. *)
LEMMA Mapped ==
    TypeOK => /\ BaseContent = Base(db, savepoints)
              /\ Changes = Stack(db, savepoints)
              /\ Len(Changes) = Depth
              /\ Changes = <<>> <=> Depth = 0
<1> SUFFICES ASSUME TypeOK
             PROVE  /\ BaseContent = Base(db, savepoints)
                    /\ Changes = Stack(db, savepoints)
                    /\ Len(Changes) = Depth
                    /\ Changes = <<>> <=> Depth = 0
  OBVIOUS
<1>1. /\ BaseContent = Base(db, savepoints)
      /\ Changes = Stack(db, savepoints)
  BY MappingFacts DEF TypeOK, BaseContent, Changes, Depth, Above
<1> QED
  BY <1>1, MappingFacts DEF TypeOK, Depth

(* Every step of the engine is a step on the layers.                       *)
LEMMA StepRefines ==
    ASSUME TypeOK, TypeOK', [Next]_vars
    PROVE  [Layers!LayeredNext]_<<BaseContent, Changes>>
<1> DEFINE Goal == [Layers!LayeredNext]_<<BaseContent, Changes>>
<1>m. /\ BaseContent = Base(db, savepoints)
      /\ Changes = Stack(db, savepoints)
      /\ Len(Changes) = Depth
      /\ Changes = <<>> <=> Depth = 0
  BY Mapped
<1>n. /\ BaseContent' = Base(db', savepoints')
      /\ Changes' = Stack(db', savepoints')
      /\ Changes' = <<>> <=> Depth' = 0
  <2>1. (TypeOK => /\ BaseContent = Base(db, savepoints)
                   /\ Changes = Stack(db, savepoints)
                   /\ Len(Changes) = Depth
                   /\ Changes = <<>> <=> Depth = 0)'
    BY Mapped, PTL
  <2> QED
    BY <2>1
<1>d. Depth = Len(savepoints) /\ Depth' = Len(savepoints') /\ Depth \in Nat
  BY DEF Depth, TypeOK
<1>s. savepoints' = savepoints => Goal
  <2> SUFFICES ASSUME savepoints' = savepoints PROVE Layers!LayeredNext
    OBVIOUS
  <2>1. PICK F \in SUBSET Items : F = Diff(db, db')
    BY DEF TypeOK, Diff
  <2>2. CASE Depth = 0
    <3>0. /\ Base(db', savepoints) =
                Diff(Base(db, savepoints), Diff(db, db'))
          /\ Stack(db', savepoints) = Stack(db, savepoints)
      <4>1. savepoints \in Seq(Snapshot) /\ Len(savepoints) = 0
        BY <1>d, <2>2 DEF TypeOK
      <4> QED
        BY <4>1, StatementInBase, Zenon
    <3>1. BaseContent' = Diff(BaseContent, F) /\ Changes' = Changes
      BY <1>m, <1>n, <2>1, <3>0
    <3>2. Layers!Apply(F)
      BY <1>m, <2>2, <3>1 DEF Layers!Apply, Layers!Flip, Diff
    <3> QED
      BY <3>2 DEF Layers!LayeredNext
  <2>3. CASE Depth # 0
    <3>1. Changes' = [Changes EXCEPT ![Depth] = Diff(Changes[Depth], F)]
      BY <1>m, <1>n, <1>d, <2>1, <2>3, StatementInLayer DEF TypeOK
    <3>2. BaseContent' = BaseContent
      BY <1>m, <1>n, <1>d, <2>3, StatementInLayer DEF TypeOK
    <3>3. Layers!Apply(F)
      BY <1>m, <2>3, <3>1, <3>2 DEF Layers!Apply, Layers!Flip, Diff
    <3> QED
      BY <3>3 DEF Layers!LayeredNext
  <2> QED
    BY <2>2, <2>3
<1>p. ASSUME NEW n \in Names \cup {NoName}, Push(n) PROVE Goal
  <2> DEFINE r == [name |-> n, saved |-> db]
  <2>1. r \in Snapshot /\ r.saved = db
    BY DEF TypeOK, Snapshot
  <2>2. savepoints' = Append(savepoints, r) /\ db' = db
    BY <1>p DEF Push
  <2> HIDE DEF r
  <2>3. BaseContent' = BaseContent /\ Changes' = Append(Changes, {})
    BY <1>m, <1>n, <2>1, <2>2, PushFacts DEF TypeOK
  <2> QED
    BY <2>3 DEF Layers!LayeredNext, Layers!Push
<1>w. ASSUME NEW k \in 1 .. Depth, savepoints' = Without(k), db' = db PROVE Goal
  <2>1. Removed(savepoints, savepoints', k)
    BY <1>w, <1>d, WithoutFacts DEF TypeOK, Removed
  <2>2. /\ savepoints \in Seq(Snapshot) /\ savepoints' \in Seq(Snapshot)
        /\ k \in 1 .. Len(savepoints)
    BY <1>d DEF TypeOK
  <2>3. Folded(BaseContent, Changes, BaseContent', Changes', Len(savepoints'), k)
    BY <1>m, <1>n, <1>w, <2>1, <2>2, MergeFacts
  <2>4. Len(savepoints') = Len(Changes) - 1
    BY <1>m, <1>d, <2>1 DEF Removed
  <2>5. Layers!Merge(k)
    BY <2>3, <2>4 DEF Folded, Layers!Merge, Layers!Flip, Diff
  <2> QED
    BY <1>m, <2>5 DEF Layers!LayeredNext
<1>r. PopAndRestore => Goal
  <2> SUFFICES ASSUME PopAndRestore PROVE Goal
    OBVIOUS
  <2>1. CASE Depth = 0
    BY <1>s, <2>1 DEF PopAndRestore
  <2>2. CASE Depth # 0
    <3>1. savepoints' = Without(Depth) /\ db' = savepoints[Len(savepoints)].saved
      BY <1>d, <2>2 DEF PopAndRestore, Top
    <3>2. /\ Len(savepoints') = Len(savepoints) - 1
          /\ \A j \in 1 .. Len(savepoints') : savepoints'[j] = savepoints[j]
      <4>1. Depth \in 1 .. Depth
        BY <1>d, <2>2
      <4>2. /\ Len(Without(Depth)) = Depth - 1
            /\ \A j \in 1 .. Depth - 1 :
                  Without(Depth)[j] =
                    IF j < Depth THEN savepoints[j] ELSE savepoints[j + 1]
        BY <4>1, WithoutFacts DEF TypeOK
      <4> QED
        BY <1>d, <3>1, <4>2
    <3>3. /\ BaseContent' = BaseContent
          /\ Changes' = [j \in 1 .. Len(Changes) - 1 |-> Changes[j]]
      <4>1. /\ Base(savepoints[Len(savepoints)].saved, savepoints') =
                  Base(db, savepoints)
            /\ Stack(savepoints[Len(savepoints)].saved, savepoints') =
                  [j \in 1 .. Len(savepoints) - 1 |-> Stack(db, savepoints)[j]]
        <5>1. savepoints \in Seq(Snapshot) /\ savepoints' \in Seq(Snapshot) /\ Len(savepoints) # 0
          BY <1>d, <2>2 DEF TypeOK
        <5> QED
          BY ONLY <3>2, <5>1, DropFacts
      <4> QED
        BY <1>m, <1>n, <1>d, <3>1, <4>1
    <3> QED
      BY <1>m, <2>2, <3>3 DEF Layers!LayeredNext, Layers!Drop
  <2> QED
    BY <2>1, <2>2
<1>1. ASSUME NEW c \in Clients, NEW w \in Items, Insert(c, w) \/ Delete(c, w)
      PROVE  Goal
  BY <1>1, <1>s DEF Insert, Delete
<1>2. ASSUME NEW c \in Clients, Begin(c) PROVE Goal
  BY <1>2, <1>p DEF Begin
<1>3. ASSUME NEW c \in Clients, NEW n \in Names, Savepoint(c, n) PROVE Goal
  BY <1>3, <1>p DEF Savepoint
<1>4. ASSUME NEW c \in Clients, Commit(c) PROVE Goal
  <2>1. CASE Depth = 0
    BY <1>4, <1>s, <2>1 DEF Commit
  <2>2. CASE Depth # 0
    <3>1. Depth \in 1 .. Depth
      BY <1>d, <2>2
    <3> QED
      BY <1>4, <1>w, <2>2, <3>1 DEF Commit
  <2> QED
    BY <2>1, <2>2
<1>5. ASSUME NEW c \in Clients, Rollback(c) PROVE Goal
  BY <1>5, <1>r DEF Rollback
<1>6. ASSUME NEW c \in Clients, NEW w \in Items, InsertOrRollback(c, w) PROVE Goal
  BY <1>5, <1>6 DEF InsertOrRollback
<1>7. ASSUME NEW c \in Clients, NEW n \in Names, RollbackTo(c, n) PROVE Goal
  BY <1>7, <1>r DEF RollbackTo
<1>8. ASSUME NEW c \in Clients, NEW n \in Names, Release(c, n) PROVE Goal
  BY <1>8, <1>w DEF Release
<1>9. ASSUME NEW c \in Clients, Reset(c) PROVE Goal
  BY <1>9, <1>s DEF Reset
<1>10. ASSUME NEW c \in Clients, Load(c) PROVE Goal
  <2>1. Depth' = 0
    BY <1>10 DEF Load, Depth
  <2>2. BaseContent' \in SUBSET Items /\ Changes' = <<>>
    BY <1>n, <2>1 DEF BaseContent, TypeOK
  <2> QED
    BY <2>2 DEF Layers!LayeredNext, Layers!Replace
<1>11. CASE UNCHANGED vars
  BY <1>11, <1>s DEF vars
<1> HIDE DEF Goal
<1>12. ASSUME Next PROVE Goal
  BY <1>1, <1>2, <1>3, <1>4, <1>5, <1>6, <1>7, <1>8, <1>9, <1>10, <1>12 DEF Next
<1> QED
  BY <1>11, <1>12 DEF Goal

(* The one shared stack of snapshots behaves as nested transactions: for   *)
(* any clients and any order of their statements, ending a level keeps or  *)
(* undoes exactly the changes made since it began (Database::begin,        *)
(* commit, rollback, savepoint, release_savepoint).                        *)
THEOREM LayersRefinement == Spec => ImplementsLayers
<1>1. Init => Layers!LayeredInit
  <2> SUFFICES ASSUME Init PROVE Layers!LayeredInit
    OBVIOUS
  <2>1. Depth = 0
    BY DEF Init, Depth
  <2>2. BaseContent = {} /\ Changes = <<>>
    BY <2>1 DEF Init, BaseContent, Changes
  <2> QED
    BY <2>2 DEF Layers!LayeredInit
<1>2. TypeOK /\ TypeOK' /\ [Next]_vars
      => [Layers!LayeredNext]_<<BaseContent, Changes>>
  BY StepRefines
<1> QED
  BY <1>1, <1>2, TypeCorrect, PTL DEF Spec, ImplementsLayers, Layers!LayeredSpec

-----------------------------------------------------------------------------
(***************************************************************************)
(* Clients that keep their transactions apart and nested lose nothing.     *)
(* While one is open, the bottom snapshot is its BEGIN, the others are its *)
(* savepoints, and every snapshot has all that was acknowledged for good.  *)
(***************************************************************************)
Nested ==
    /\ \A c \in Clients : open[c] \in {0, 1}
    /\ \A c, d \in Clients : open[c] = 1 /\ open[d] = 1 => c = d
    /\ Depth # 0 <=> \E c \in Clients : open[c] = 1
    /\ \A i \in 1 .. Depth : savepoints[i].name = NoName <=> i = 1
Kept ==
    /\ safe \subseteq db
    /\ \A i \in 1 .. Depth : safe \subseteq savepoints[i].saved
    /\ \A c \in Clients : pending[c] \subseteq db
    /\ \A c \in Clients : open[c] = 0 => pending[c] = {}
ExclusiveInv == Nested /\ Kept

LEMMA ExclusiveStep ==
    ASSUME Exclusive, TypeOK, ExclusiveInv, [Next]_vars
    PROVE  ExclusiveInv'
<1> USE DEF ExclusiveInv
<1>d. Depth \in Nat /\ Depth = Len(savepoints)
  BY DEF TypeOK, Depth
<1>a. ASSUME NEW c \in Clients, Alone(c)
      PROVE  /\ \A d \in Clients : d # c => open[d] = 0 /\ pending[d] = {}
             /\ Depth # 0 <=> open[c] = 1
  BY <1>a DEF Alone, Nested, Kept
<1>1. ASSUME NEW c \in Clients, NEW w \in Items, Insert(c, w)
      PROVE  ExclusiveInv'
  <2>1. Nested'
    BY <1>1 DEF Insert, Nested, Depth
  <2>2. CASE open[c] > 0
    BY <1>1, <2>1, <2>2 DEF Insert, Kept, TypeOK, Depth
  <2>3. CASE open[c] = 0
    <3>1. Depth = 0
      BY <1>1, <1>a, <2>3 DEF Insert
    <3> QED
      BY <1>1, <1>d, <2>1, <2>3, <3>1 DEF Insert, Kept, TypeOK, Depth
  <2> QED
    BY <2>1, <2>2, <2>3 DEF TypeOK, Nested
<1>2. ASSUME NEW c \in Clients, NEW w \in Items, Delete(c, w)
      PROVE  ExclusiveInv'
  BY <1>2 DEF Delete, Nested, Kept, TypeOK, Depth
<1>p. ASSUME NEW n \in Names \cup {NoName}, Push(n), safe' = safe,
             n = NoName <=> Depth = 0
      PROVE  /\ Depth' = Depth + 1
             /\ \A i \in 1 .. Depth' : savepoints'[i].name = NoName <=> i = 1
             /\ \A i \in 1 .. Depth' : safe' \subseteq savepoints'[i].saved
  <2>1. /\ Depth' = Depth + 1
        /\ savepoints'[Depth + 1] = [name |-> n, saved |-> db]
        /\ \A i \in 1 .. Depth : savepoints'[i] = savepoints[i]
    BY <1>p, <1>d DEF Push, Depth, TypeOK
  <2>2. \A i \in 1 .. Depth' : i = Depth + 1 \/ i \in 1 .. Depth
    BY <1>d, <2>1
  <2> QED
    BY <1>p, <1>d, <2>1, <2>2 DEF Nested, Kept
<1>3. ASSUME NEW c \in Clients, Begin(c) PROVE ExclusiveInv'
  <2>1. Depth = 0
    BY <1>3, <1>a DEF Begin
  <2>2. /\ Depth' = 1
        /\ \A i \in 1 .. Depth' : savepoints'[i].name = NoName <=> i = 1
        /\ \A i \in 1 .. Depth' : safe' \subseteq savepoints'[i].saved
    BY <1>3, <1>p, <2>1 DEF Begin
  <2> QED
    BY <1>3, <1>a, <2>1, <2>2 DEF Begin, Push, Nested, Kept, TypeOK
<1>4. ASSUME NEW c \in Clients, NEW n \in Names, Savepoint(c, n)
      PROVE  ExclusiveInv'
  <2>1. Depth # 0 /\ open[c] = 1
    BY <1>4, <1>a DEF Savepoint, Nested
  <2>2. /\ Depth' # 0
        /\ \A i \in 1 .. Depth' : savepoints'[i].name = NoName <=> i = 1
        /\ \A i \in 1 .. Depth' : safe' \subseteq savepoints'[i].saved
    BY <1>4, <1>d, <1>p, <2>1, TransactionsAssumption DEF Savepoint
  <2>3. open' = open
    BY <1>4, <2>1 DEF Savepoint, TypeOK
  <2> QED
    BY <1>4, <2>1, <2>2, <2>3 DEF Savepoint, Push, Nested, Kept, TypeOK
<1>t. ASSUME Depth # 0, savepoints' = Without(Depth)
      PROVE  /\ Depth' = Depth - 1
             /\ \A i \in 1 .. Depth' : i \in 1 .. Depth /\ savepoints'[i] = savepoints[i]
  <2>1. Depth \in 1 .. Depth
    BY <1>d, <1>t
  <2>2. /\ Len(Without(Depth)) = Depth - 1
        /\ \A j \in 1 .. Depth - 1 : Without(Depth)[j] =
              IF j < Depth THEN savepoints[j] ELSE savepoints[j + 1]
    BY <2>1, WithoutFacts DEF TypeOK
  <2>3. Depth' = Depth - 1
    BY <1>t, <2>2 DEF Depth
  <2> QED
    BY <1>d, <1>t, <2>2, <2>3
<1>e. ASSUME NEW c \in Clients, Alone(c), Ends(NoName)
      PROVE  (Depth = 0 /\ open[c] = 0) \/ (Depth = 1 /\ open[c] = 1)
  <2>1. CASE Depth = 0
    BY <1>a, <1>e, <2>1 DEF Nested
  <2>2. CASE Depth # 0
    BY <1>a, <1>d, <1>e, <2>2 DEF Ends, NameOfTop, Top, Nested
  <2> QED
    BY <2>1, <2>2
<1>f. ASSUME NEW c \in Clients, NEW kept, Alone(c), Ends(NoName), Finished(c, kept)
      PROVE  \A d \in Clients : open'[d] = 0 /\ pending'[d] = {}
  <2>1. open[c] \in {0, 1} /\ \A d \in Clients : d # c => open[d] = 0 /\ pending[d] = {}
    BY <1>a, <1>f DEF Nested
  <2> QED
    BY <1>f, <2>1 DEF Finished, TypeOK
<1>z. ASSUME Depth' = 0, \A d \in Clients : open'[d] = 0 /\ pending'[d] = {},
             safe' \subseteq db'
      PROVE  ExclusiveInv'
  BY <1>z DEF Nested, Kept
<1>5. ASSUME NEW c \in Clients, Commit(c) PROVE ExclusiveInv'
  <2>1. Alone(c) /\ Ends(NoName) /\ Finished(c, pending[c]) /\ db' = db
    BY <1>5 DEF Commit
  <2>2. Depth' = 0
    BY <1>5, <1>d, <1>e, <1>t, <2>1 DEF Commit, Depth
  <2>3. safe' \subseteq db'
    BY <1>5, <2>1 DEF Commit, Kept
  <2> QED
    BY <1>f, <1>z, <2>1, <2>2, <2>3
<1>6. ASSUME NEW c \in Clients, Rollback(c) PROVE ExclusiveInv'
  <2>1. /\ Alone(c) /\ Ends(NoName) /\ Finished(c, pending[c] \cap db')
        /\ PopAndRestore /\ safe' = safe
    BY <1>6 DEF Rollback
  <2>2. Depth' = 0
    <3>1. CASE Depth = 0
      BY <2>1, <3>1 DEF PopAndRestore, Depth
    <3>2. CASE Depth = 1
      BY <1>t, <2>1, <3>2 DEF PopAndRestore
    <3> QED
      BY <1>e, <2>1, <3>1, <3>2
  <2>3. safe' \subseteq db'
    BY <1>d, <2>1 DEF PopAndRestore, Top, Kept
  <2>4. \A d \in Clients : open'[d] = 0 /\ pending'[d] = {}
    BY <1>f, <2>1
  <2> QED
    BY <1>z, <2>2, <2>3, <2>4
<1>7. ASSUME NEW c \in Clients, NEW w \in Items, InsertOrRollback(c, w)
      PROVE  ExclusiveInv'
  BY <1>6, <1>7 DEF InsertOrRollback
<1>n. ASSUME NEW n \in Names, Ends(n)
      PROVE  Depth > 1 /\ savepoints[Depth].name = n
  BY <1>d, <1>n, TransactionsAssumption DEF Ends, NameOfTop, Top, Nested
<1>8. ASSUME NEW c \in Clients, NEW n \in Names, RollbackTo(c, n)
      PROVE  ExclusiveInv'
  <2>1. Depth > 1
    BY <1>8, <1>n DEF RollbackTo
  <2>2. /\ savepoints' = Without(Depth) /\ db' = savepoints[Depth].saved
        /\ safe' = safe /\ open' = open
        /\ pending' = [pending EXCEPT ![c] = @ \cap db']
    BY <1>8, <1>d, <2>1 DEF RollbackTo, PopAndRestore, Top
  <2>3. /\ Depth' = Depth - 1
        /\ \A i \in 1 .. Depth' : i \in 1 .. Depth /\ savepoints'[i] = savepoints[i]
    BY <1>d, <1>t, <2>1, <2>2
  <2>4. Nested'
    <3>1. Depth # 0 /\ Depth' # 0
      BY <1>d, <2>1, <2>3
    <3>2. \A i \in 1 .. Depth' : savepoints'[i].name = NoName <=> i = 1
      BY <2>3 DEF Nested
    <3> QED
      BY <2>2, <3>1, <3>2 DEF Nested
  <2>5. \A d \in Clients : d # c => pending[d] = {}
    BY <1>8, <1>a DEF RollbackTo
  <2>6. safe \subseteq savepoints[Depth].saved
    BY <1>d, <2>1 DEF Kept
  <2>7. \A d \in Clients : pending'[d] \subseteq db' /\ pending'[d] \subseteq pending[d]
    BY <2>2, <2>5 DEF TypeOK
  <2>8. Kept'
    BY <2>2, <2>3, <2>6, <2>7 DEF Kept
  <2> QED
    BY <2>4, <2>8
<1>9. ASSUME NEW c \in Clients, NEW n \in Names, Release(c, n)
      PROVE  ExclusiveInv'
  <2>1. Depth > 1 /\ savepoints[Depth].name = n
    BY <1>9, <1>n DEF Release
  <2>2. savepoints' = Without(Depth) /\ UNCHANGED <<db, open, pending, safe>>
    BY <1>9, <1>d, <2>1 DEF Release
  <2>3. /\ Depth' = Depth - 1
        /\ \A i \in 1 .. Depth' : i \in 1 .. Depth /\ savepoints'[i] = savepoints[i]
    BY <1>d, <1>t, <2>1, <2>2
  <2>4. Nested'
    <3>1. Depth # 0 /\ Depth' # 0
      BY <1>d, <2>1, <2>3
    <3>2. \A i \in 1 .. Depth' : savepoints'[i].name = NoName <=> i = 1
      BY <2>3 DEF Nested
    <3> QED
      BY <2>2, <3>1, <3>2 DEF Nested
  <2>5. Kept'
    BY <2>2, <2>3 DEF Kept
  <2> QED
    BY <2>4, <2>5
<1>10. ASSUME NEW c \in Clients, Reset(c) \/ Load(c) PROVE ExclusiveInv'
  <2>1. Depth = 0 /\ Depth' = 0 /\ safe' = {} /\ open' = open
    BY <1>10 DEF Reset, Load, Depth
  <2>2. \A d \in Clients : open'[d] = 0 /\ pending'[d] = {}
    BY <1>10, <2>1 DEF Reset, Load, Nested
  <2> QED
    BY <1>z, <2>1, <2>2
<1>11. CASE UNCHANGED vars
  BY <1>11 DEF vars, Nested, Kept, Depth
<1>12. ASSUME Next PROVE ExclusiveInv'
  BY <1>1, <1>2, <1>3, <1>4, <1>5, <1>6, <1>7, <1>8, <1>9, <1>10, <1>12 DEF Next
<1> QED
  BY <1>11, <1>12

LEMMA ExclusiveInit == Init => ExclusiveInv
<1> SUFFICES ASSUME Init PROVE ExclusiveInv
  OBVIOUS
<1>1. Depth = 0
  BY DEF Init, Depth
<1> QED
  BY <1>1 DEF Init, ExclusiveInv, Nested, Kept

(* No write is lost that was acknowledged outside a transaction or by a    *)
(* COMMIT, as long as clients do not interleave their transactions on the  *)
(* shared stack and end the innermost level first.                         *)
THEOREM WritesKept ==
    ASSUME Exclusive
    PROVE  Spec => []NoLostWrites
<1>1. TypeOK /\ ExclusiveInv /\ [Next]_vars => ExclusiveInv'
  BY ExclusiveStep
<1>2. ExclusiveInv => NoLostWrites
  BY DEF ExclusiveInv, Kept, NoLostWrites
<1> QED
  BY <1>1, <1>2, ExclusiveInit, TypeCorrect, PTL DEF Spec

(* For such clients a ROLLBACK outside a transaction changes nothing: no   *)
(* earlier transaction has left a snapshot behind.                         *)
THEOREM IdleRollback ==
    ASSUME Exclusive
    PROVE  Spec => IdleRollbackIsNoop
<1>1. TypeOK /\ ExclusiveInv /\ [Next]_vars => ExclusiveInv'
  BY ExclusiveStep
<1>2. ExclusiveInv /\ [Next]_vars
      => [\A c \in Clients : open[c] = 0 /\ Rollback(c) => UNCHANGED db]_vars
  <2> SUFFICES ASSUME ExclusiveInv, NEW c \in Clients, open[c] = 0, Rollback(c)
               PROVE  UNCHANGED db
    OBVIOUS
  <2>1. \A d \in Clients \ {c} : open[d] = 0
    BY DEF Rollback, Alone
  <2>2. Depth = 0
    BY <2>1 DEF ExclusiveInv, Nested
  <2> QED
    BY <2>2 DEF Rollback, PopAndRestore
<1> QED
  BY <1>1, <1>2, ExclusiveInit, TypeCorrect, PTL DEF Spec, IdleRollbackIsNoop
=============================================================================
