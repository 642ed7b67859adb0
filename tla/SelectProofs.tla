---------------------------- MODULE SelectProofs ---------------------------
(***************************************************************************)
(* The SELECT pipeline.  Views, derived tables and CTEs, for any queries   *)
(* over any names, nested and joined in any way, and any room on the       *)
(* stack; the set operations for any answers, recursive CTEs over any      *)
(* table of edges, and joins of any tables.                                *)
(***************************************************************************)
EXTENDS Views, SetOperations, Joins, FiniteSetTheorems, WellFoundedInduction, TLAPS

-----------------------------------------------------------------------------
(* Induction and recursion over the numbers, for sets and functions. *)

(* A set of numbers that is not empty has a least one. *)
LEMMA Least ==
    ASSUME NEW T \in SUBSET Nat, T # {}
    PROVE  \E x \in T : \A y \in T : x <= y
<1> DEFINE R == OpToRel(<, Nat)
<1>1. IsWellFoundedOn(R, Nat)
  BY NatLessThanWellFounded
<1>2. PICK x \in T : \A y \in T : ~(<<y, x>> \in R)
  <2> HIDE DEF R
  <2> QED BY <1>1, WFMin
<1>3. ASSUME NEW y \in T PROVE x <= y
  <2>1. ~(<<y, x>> \in R)
    BY <1>2
  <2>2. y \in Nat /\ x \in Nat
    OBVIOUS
  <2> QED
    BY <2>1, <2>2 DEF OpToRel
<1> QED
  BY <1>3

(* Induction, with the set of the numbers a fact holds for in place of     *)
(* the fact.                                                               *)
LEMMA NatSetInduction ==
    ASSUME NEW S, 0 \in S, \A n \in Nat : n \in S => n + 1 \in S
    PROVE  Nat \subseteq S
<1> DEFINE T == Nat \ S
<1> SUFFICES ASSUME T # {} PROVE FALSE
  OBVIOUS
<1>1. PICK x \in T : \A y \in T : x <= y
  <2> HIDE DEF T
  <2>1. T \in SUBSET Nat
    BY DEF T
  <2> QED BY <2>1, Least
<1>2. x \in Nat /\ x # 0 /\ x \notin S
  OBVIOUS
<1>3. x - 1 \in Nat /\ x - 1 \notin T
  BY <1>1, <1>2
<1>4. (x - 1) + 1 = x
  BY <1>2
<1> QED
  BY <1>2, <1>3, <1>4

(* What leads from a value and its number to the next value. *)
Steps(S) == [Nat \X S -> S]
(* f is the sequence of values that starts with x0. *)
Iterates(f, S, x0, step) ==
    f \in [Nat -> S] /\ f[0] = x0 /\ \A n \in Nat : f[n + 1] = step[<<n, f[n]>>]

(* There is such a sequence, whatever the step: its first n values exist   *)
(* for every n and are the same in all that are longer.                    *)
LEMMA Recursion ==
    ASSUME NEW S, NEW x0 \in S, NEW step \in Steps(S)
    PROVE  \E f : Iterates(f, S, x0, step)
<1> USE DEF Steps
<1> DEFINE Good(n) == {g \in [0 .. n -> S] : g[0] = x0 /\ \A m \in 0 .. n - 1 : g[m + 1] = step[<<m, g[m]>>]}
           Exists == {n \in Nat : Good(n) # {}}
           Same == {n \in Nat : \A g, h \in UNION {Good(m) : m \in Nat} :
                        n \in DOMAIN g /\ n \in DOMAIN h => g[n] = h[n]}
<1>1. Nat \subseteq Exists
  <2>1. 0 \in Exists
    <3>1. [m \in 0 .. 0 |-> x0] \in Good(0)
      OBVIOUS
    <3> QED
      BY <3>1
  <2>2. ASSUME NEW n \in Nat, n \in Exists PROVE n + 1 \in Exists
    <3>1. PICK g \in Good(n) : TRUE
      BY <2>2
    <3> DEFINE h == [m \in 0 .. n + 1 |-> IF m = n + 1 THEN step[<<n, g[n]>>] ELSE g[m]]
    <3>2. g \in [0 .. n -> S] /\ g[0] = x0 /\ \A m \in 0 .. n - 1 : g[m + 1] = step[<<m, g[m]>>]
      OBVIOUS
    <3>3. \A m \in 0 .. n : h[m] = g[m] /\ m \in 0 .. n + 1
      OBVIOUS
    <3>4. h[n + 1] = step[<<n, g[n]>>]
      OBVIOUS
    <3>5. h \in [0 .. n + 1 -> S]
      <4>1. <<n, g[n]>> \in Nat \X S
        BY <3>2
      <4>2. step[<<n, g[n]>>] \in S
        BY <4>1
      <4>3. \A m \in 0 .. n + 1 : m # n + 1 => m \in 0 .. n
        OBVIOUS
      <4> HIDE DEF Good
      <4> QED
        BY <3>2, <4>2, <4>3
    <3> HIDE DEF h, Good
    <3>6. \A m \in 0 .. (n + 1) - 1 : h[m + 1] = step[<<m, h[m]>>]
      <4> SUFFICES ASSUME NEW m \in 0 .. (n + 1) - 1 PROVE h[m + 1] = step[<<m, h[m]>>]
        OBVIOUS
      <4>1. CASE m = n
        BY <4>1, <3>3, <3>4
      <4>2. CASE m # n
        <5>1. m \in 0 .. n - 1 /\ m \in 0 .. n /\ m + 1 \in 0 .. n
          BY <4>2
        <5> QED
          BY <5>1, <3>2, <3>3
      <4> QED
        BY <4>1, <4>2
    <3>7. h[0] = x0
      BY <3>2, <3>3
    <3>8. h \in Good(n + 1)
      BY <3>5, <3>6, <3>7 DEF Good
    <3> QED
      BY <3>8
  <2> HIDE DEF Exists
  <2> QED
    BY <2>1, <2>2, NatSetInduction
<1>2. Nat \subseteq Same
  <2>1. 0 \in Same
    OBVIOUS
  <2>2. ASSUME NEW n \in Nat, n \in Same PROVE n + 1 \in Same
    <3> SUFFICES ASSUME NEW g \in UNION {Good(m) : m \in Nat}, NEW h \in UNION {Good(m) : m \in Nat},
                        n + 1 \in DOMAIN g, n + 1 \in DOMAIN h
                 PROVE  g[n + 1] = h[n + 1]
      <4> HIDE DEF Good
      <4> QED
        OBVIOUS
    <3>0. PICK i \in Nat, j \in Nat : g \in Good(i) /\ h \in Good(j)
      <4> HIDE DEF Good
      <4> QED
        OBVIOUS
    <3>1. n \in 0 .. i /\ n \in 0 .. j /\ n \in 0 .. i - 1 /\ n \in 0 .. j - 1
      BY <3>0
    <3>2. g[n] = h[n]
      <4>1. n \in DOMAIN g /\ n \in DOMAIN h
        BY <3>0, <3>1
      <4> HIDE DEF Good
      <4> QED
        BY <2>2, <4>1
    <3>3. g[n + 1] = step[<<n, g[n]>>] /\ h[n + 1] = step[<<n, h[n]>>]
      BY <3>0, <3>1
    <3> QED
      BY <3>2, <3>3
  <2> HIDE DEF Same
  <2> QED
    BY <2>1, <2>2, NatSetInduction
<1> DEFINE at(n) == CHOOSE g \in Good(n) : TRUE
           f == [n \in Nat |-> at(n)[n]]
<1>3. ASSUME NEW n \in Nat PROVE at(n) \in Good(n)
  BY <1>1
<1>4. ASSUME NEW n \in Nat
      PROVE  /\ at(n) \in [0 .. n -> S] /\ at(n)[0] = x0
             /\ \A m \in 0 .. n - 1 : at(n)[m + 1] = step[<<m, at(n)[m]>>]
  <2> HIDE DEF at
  <2> QED
    BY <1>3
<1>5. f \in [Nat -> S]
  <2> HIDE DEF at
  <2>1. \A n \in Nat : n \in 0 .. n
    OBVIOUS
  <2> QED
    BY <1>4, <2>1
<1>6. f[0] = x0
  <2> HIDE DEF at
  <2> QED
    BY <1>4
<1>7. ASSUME NEW n \in Nat PROVE f[n + 1] = step[<<n, f[n]>>]
  <2>1. n \in DOMAIN at(n) /\ n \in DOMAIN at(n + 1) /\ n \in 0 .. (n + 1) - 1
    <3> HIDE DEF at
    <3> QED BY <1>4
  <2>2. at(n) \in UNION {Good(m) : m \in Nat} /\ at(n + 1) \in UNION {Good(m) : m \in Nat}
    <3> HIDE DEF at, Good
    <3> QED BY <1>3
  <2>3. at(n)[n] = at(n + 1)[n]
    <3> HIDE DEF at, Good
    <3> QED BY <1>2, <2>1, <2>2
  <2>4. at(n + 1)[n + 1] = step[<<n, at(n + 1)[n]>>]
    <3> HIDE DEF at, Good
    <3> QED BY <1>4, <2>1
  <2> HIDE DEF at, Good
  <2> QED
    BY <2>3, <2>4
<1> HIDE DEF f
<1> QED
  BY <1>5, <1>6, <1>7 DEF Iterates

-----------------------------------------------------------------------------
(* The operators of Views, as recursions. *)

(* What the execution of a SELECT can return, and how SELECTs inside one   *)
(* can be executed.                                                        *)
Results == [ok : BOOLEAN, tables : Databases, rows : SUBSET Values, bare : BOOLEAN]
Runs == [Queries -> [Databases -> Results]]

(* A query has at least one source, and each source a name it is found     *)
(* under.                                                                  *)
LEMMA QueryForm ==
    ASSUME NEW q \in Queries
    PROVE  /\ Len(q.from) \in Nat /\ Len(q.from) >= 1 /\ DOMAIN q.from = 1 .. Len(q.from)
           /\ q.fails \in BOOLEAN /\ q # None
           /\ \A i \in DOMAIN q.from :
                /\ NameOf(q, i) \in AllNames
                /\ IsDerived(q, i) => q.from[i].query \in Queries /\ NameOf(q, i) \in ToSet(Temps) \ Names
                /\ ~IsDerived(q, i) => NameOf(q, i) = q.from[i].name /\ q.from[i].name \in Names
<1>1. q.from \in Seq(Source) /\ q.from # <<>> /\ q.fails \in BOOLEAN /\ q # None
  BY ViewsAssumption
<1>2. Len(q.from) \in Nat /\ DOMAIN q.from = 1 .. Len(q.from) /\ Len(q.from) # 0
  BY <1>1
<1>3. ASSUME NEW i \in DOMAIN q.from
      PROVE  /\ NameOf(q, i) \in AllNames
             /\ IsDerived(q, i) => q.from[i].query \in Queries /\ NameOf(q, i) \in ToSet(Temps) \ Names
             /\ ~IsDerived(q, i) => NameOf(q, i) = q.from[i].name /\ q.from[i].name \in Names
  <2>1. q.from[i] \in Source
    BY <1>1, <1>2
  <2>2. CASE IsDerived(q, i)
    <3>1. q.from[i].query \in Queries
      BY <2>1, <2>2 DEF Source, IsDerived, Named, Derived
    <3>2. NameOf(q, i) \in ToSet(Temps) /\ ToSet(Temps) \cap Names = {}
      BY <2>2, ViewsAssumption
    <3> QED
      BY <2>2, <3>1, <3>2 DEF AllNames
  <2>3. CASE ~IsDerived(q, i)
    <3>1. q.from[i].name \in Names
      BY <2>1, <2>3 DEF Source, IsDerived, Named, Derived
    <3>2. NameOf(q, i) = q.from[i].name
      BY <2>3 DEF NameOf
    <3> QED
      BY <2>3, <3>1, <3>2 DEF AllNames
  <2> QED
    BY <2>2, <2>3
<1> QED
  BY <1>1, <1>2, <1>3

(* What a view is called and what it stands for. *)
LEMMA ViewForm ==
    ASSUME TypeOK, NEW n, IsView(n)
    PROVE  n \in Names /\ n \in AllNames /\ views[n] \in Queries
BY ViewsAssumption DEF TypeOK, IsView, AllNames

(* A failure is a result. *)
LEMMA FailTyped ==
    ASSUME NEW ts \in Databases
    PROVE  Fail(ts) \in Results
BY DEF Fail, Results

(* An answer is a result. *)
LEMMA DoneTyped ==
    ASSUME NEW ts \in Databases, NEW rows \in SUBSET Values, NEW bare \in BOOLEAN
    PROVE  Done(ts, rows, bare) \in Results
BY DEF Done, Results

(* Tables that lose some are tables. *)
LEMMA WithoutTyped ==
    ASSUME NEW ts \in Databases, NEW gone
    PROVE  Without(ts, gone) \in Databases
<1>1. None \in Content /\ \A n \in AllNames : ts[n] \in Content
  BY DEF Content, Databases
<1> QED
  BY <1>1 DEF Without, Databases

(* To materialise is to have a result. *)
LEMMA MaterializeTyped ==
    ASSUME NEW run \in Runs, NEW q \in Queries, NEW n \in AllNames, NEW ts \in Databases
    PROVE  Materialize(run, q, n, ts) \in Results
<1> DEFINE r == run[q][ts]
<1>1. r \in Results
  BY DEF Runs
<1>2. r.tables \in Databases /\ r.rows \in SUBSET Values /\ r.ok \in BOOLEAN /\ r.bare \in BOOLEAN
  BY <1>1 DEF Results
<1> HIDE DEF r
<1>3. [r.tables EXCEPT ![n] = r.rows] \in Databases
  BY <1>2 DEF Databases, Content
<1>4. Fail(r.tables) \in Results
  BY <1>2, FailTyped
<1>5. Done([r.tables EXCEPT ![n] = r.rows], r.rows, FALSE) \in Results
  BY <1>2, <1>3, DoneTyped
<1> QED
  BY <1>4, <1>5 DEF Materialize, r

(* So is to read a source ... *)
LEMMA ReadSourceTyped ==
    ASSUME TypeOK, NEW run \in Runs, NEW q \in Queries, NEW i \in DOMAIN q.from, NEW ts \in Databases
    PROVE  ReadSource(run, q, i, ts) \in Results
<1> DEFINE n == NameOf(q, i)
           m == IF IsDerived(q, i) THEN Materialize(run, q.from[i].query, n, ts)
                ELSE IF NeedsView(n, ts) THEN Materialize(run, views[n], n, ts)
                ELSE Done(ts, {}, FALSE)
<1>1. n \in AllNames
  BY QueryForm
<1>2. m \in Results
  <2>1. CASE IsDerived(q, i)
    BY <1>1, <2>1, QueryForm, MaterializeTyped
  <2>2. CASE ~IsDerived(q, i) /\ NeedsView(n, ts)
    <3>1. views[n] \in Queries
      BY <2>2, ViewForm DEF NeedsView
    <3> HIDE DEF n
    <3> QED
      BY <1>1, <2>2, <3>1, MaterializeTyped
  <2>3. CASE ~IsDerived(q, i) /\ ~NeedsView(n, ts)
    BY <2>3, DoneTyped
  <2> QED
    BY <2>1, <2>2, <2>3
<1> HIDE DEF n, m
<1>3. m.tables \in Databases
  BY <1>2 DEF Results
<1>4. CASE ~m.ok \/ m.tables[n] = None
  <2>1. ReadSource(run, q, i, ts) = Fail(m.tables)
    BY <1>4 DEF ReadSource, Reading, n, m
  <2> QED
    BY <1>3, <2>1, FailTyped
<1>5. CASE ~(~m.ok \/ m.tables[n] = None)
  <2>1. ReadSource(run, q, i, ts) = Done(m.tables, m.tables[n], FALSE)
    BY <1>5 DEF ReadSource, Reading, n, m
  <2>2. m.tables[n] \in SUBSET Values
    <3>1. m.tables[n] \in Content /\ m.tables[n] # None
      BY <1>1, <1>3, <1>5 DEF Databases
    <3> QED
      BY <3>1 DEF Content
  <2> QED
    BY <1>3, <2>1, <2>2, DoneTyped
<1> QED
  BY <1>4, <1>5

(* ... one source after another ... *)
LEMMA ResolveTyped ==
    ASSUME TypeOK, NEW run \in Runs, NEW q \in Queries, NEW i \in DOMAIN q.from, NEW acc \in Results
    PROVE  Resolve(run, q, i, acc) \in Results
<1> DEFINE r == ReadSource(run, q, i, acc.tables)
<1>1. acc.tables \in Databases /\ acc.rows \in SUBSET Values
  BY DEF Results
<1>2. r \in Results
  BY <1>1, ReadSourceTyped
<1> HIDE DEF r
<1>3. r.tables \in Databases /\ acc.rows \cap r.rows \in SUBSET Values
  BY <1>1, <1>2 DEF Results
<1>4. Done(r.tables, acc.rows \cap r.rows, FALSE) \in Results
  BY <1>3, DoneTyped
<1> QED
  BY <1>2, <1>4 DEF Resolve, InCommon, r

(* ... up to the last: the sources of a join read so far, as a recursion   *)
(* over their number.                                                      *)
LEMMA ResolvedForm ==
    ASSUME TypeOK, NEW run \in Runs, NEW q \in Queries, NEW ts \in Databases
    PROVE  /\ Resolved(run, q, ts) \in [0 .. Len(q.from) -> Results]
           /\ Resolved(run, q, ts)[0] = Done(ts, Values, FALSE)
           /\ \A i \in DOMAIN q.from :
                Resolved(run, q, ts)[i] = Resolve(run, q, i, Resolved(run, q, ts)[i - 1])
<1> DEFINE len == Len(q.from)
           start == Done(ts, Values, FALSE)
           step == [p \in Nat \X Results |->
                      IF p[1] + 1 \in DOMAIN q.from THEN Resolve(run, q, p[1] + 1, p[2]) ELSE p[2]]
           rule(acc) == [i \in 0 .. len |-> IF i = 0 THEN start ELSE Resolve(run, q, i, acc[i - 1])]
<1>1. len \in Nat /\ DOMAIN q.from = 1 .. len
  BY QueryForm
<1>2. start \in Results
  BY DoneTyped
<1>3. step \in [Nat \X Results -> Results]
  <2>1. ASSUME NEW k \in Nat, NEW acc \in Results, k + 1 \in DOMAIN q.from
        PROVE  Resolve(run, q, k + 1, acc) \in Results
    BY <2>1, ResolveTyped
  <2> QED
    BY <2>1
<1> HIDE DEF start, len
<1>4. PICK f : f \in [Nat -> Results] /\ f[0] = start /\ \A n \in Nat : f[n + 1] = step[<<n, f[n]>>]
  <2> HIDE DEF step
  <2>1. step \in Steps(Results)
    BY <1>3 DEF Steps
  <2>2. \E f : Iterates(f, Results, start, step)
    BY <1>2, <2>1, Recursion
  <2> QED
    BY <2>2 DEF Iterates
<1> DEFINE g == [i \in 0 .. len |-> f[i]]
<1>5. ASSUME NEW i \in 0 .. len, i # 0 PROVE f[i] = Resolve(run, q, i, f[i - 1])
  <2>1. i - 1 \in Nat /\ (i - 1) + 1 = i /\ i \in DOMAIN q.from
    BY <1>1, <1>5
  <2>2. f[(i - 1) + 1] = step[<<i - 1, f[i - 1]>>]
    <3> HIDE DEF step
    <3> QED
      BY <1>4, <2>1
  <2>3. <<i - 1, f[i - 1]>> \in Nat \X Results
    BY <1>4, <2>1
  <2> QED
    BY <2>1, <2>2, <2>3
<1>6. g = rule(g)
  <2>1. ASSUME NEW i \in 0 .. len
        PROVE  f[i] = IF i = 0 THEN start ELSE Resolve(run, q, i, g[i - 1])
    <3>1. CASE i = 0
      BY <1>4, <3>1
    <3>2. CASE i # 0
      <4>1. i - 1 \in 0 .. len
        BY <1>1, <3>2
      <4>2. g[i - 1] = f[i - 1]
        BY <4>1
      <4> QED
        BY <1>5, <3>2, <4>2
    <3> QED
      BY <3>1, <3>2
  <2> QED
    BY <2>1
<1>7. Resolved(run, q, ts) = CHOOSE acc : acc = rule(acc)
  BY DEF Resolved, start, len
<1> DEFINE r == Resolved(run, q, ts)
<1>8. r = rule(r)
  <2> HIDE DEF rule, g
  <2> QED
    BY <1>6, <1>7
<1>9. r[0] = start /\ \A i \in DOMAIN q.from : r[i] = Resolve(run, q, i, r[i - 1])
  <2> HIDE DEF r
  <2>1. 0 \in 0 .. len /\ \A i \in DOMAIN q.from : i \in 0 .. len /\ i # 0
    BY <1>1
  <2>2. r = [i \in 0 .. len |-> IF i = 0 THEN start ELSE Resolve(run, q, i, r[i - 1])]
    BY <1>8
  <2> QED
    BY <2>1, <2>2
<1> DEFINE Good == {i \in Nat : i \in 0 .. len => r[i] \in Results}
<1>10. Nat \subseteq Good
  <2> HIDE DEF r
  <2>1. 0 \in Good
    BY <1>2, <1>9
  <2>2. ASSUME NEW i \in Nat, i \in Good PROVE i + 1 \in Good
    <3> SUFFICES ASSUME i + 1 \in 0 .. len PROVE r[i + 1] \in Results
      OBVIOUS
    <3>1. i \in 0 .. len /\ i + 1 \in DOMAIN q.from /\ (i + 1) - 1 = i
      BY <1>1
    <3>2. r[i] \in Results
      BY <2>2, <3>1
    <3>3. r[i + 1] = Resolve(run, q, i + 1, r[i])
      BY <1>9, <3>1
    <3> QED
      BY <3>1, <3>2, <3>3, ResolveTyped
  <2> HIDE DEF Good
  <2> QED
    BY <2>1, <2>2, NatSetInduction
<1>11. r \in [0 .. len -> Results]
  <2> HIDE DEF r
  <2>1. \A i \in 0 .. len : r[i] \in Results
    BY <1>1, <1>10
  <2>2. r = [i \in 0 .. len |-> IF i = 0 THEN start ELSE Resolve(run, q, i, r[i - 1])]
    BY <1>8
  <2> QED
    BY <2>1, <2>2
<1> QED
  BY <1>9, <1>11 DEF len, start

(* A SELECT of one named source has a result. *)
LEMMA ExecSingleTyped ==
    ASSUME TypeOK, NEW run \in Runs, NEW q \in Queries, NEW ts \in Databases
    PROVE  ExecSingle(run, q, ts) \in Results
<1> DEFINE r == ReadSource(run, q, 1, ts)
           gone == IF NeedsView(NameOf(q, 1), ts) THEN {NameOf(q, 1)} ELSE {}
<1>1. 1 \in DOMAIN q.from
  BY QueryForm
<1>2. r \in Results
  BY <1>1, ReadSourceTyped
<1> HIDE DEF r, gone
<1>3. r.tables \in Databases /\ r.rows \in SUBSET Values
  BY <1>2 DEF Results
<1>4. Fail(r.tables) \in Results
  BY <1>3, FailTyped
<1>5. Done(Without(r.tables, gone), r.rows, FALSE) \in Results
  BY <1>3, WithoutTyped, DoneTyped
<1> QED
  BY <1>4, <1>5 DEF ExecSingle, r, gone

(* A join has a result. *)
LEMMA ExecJoinTyped ==
    ASSUME TypeOK, NEW run \in Runs, NEW q \in Queries, NEW ts \in Databases
    PROVE  ExecJoin(run, q, ts) \in Results
<1> DEFINE r == Resolved(run, q, ts)[Len(q.from)]
<1>1. Len(q.from) \in 0 .. Len(q.from)
  BY QueryForm
<1>2. r \in Results
  BY <1>1, ResolvedForm
<1> HIDE DEF r
<1>3. r.tables \in Databases /\ r.rows \in SUBSET Values /\ (r.rows = {}) \in BOOLEAN
  BY <1>2 DEF Results
<1>4. Fail(r.tables) \in Results
  BY <1>3, FailTyped
<1>5. Done(Without(r.tables, Dropped(q)), r.rows, r.rows = {}) \in Results
  BY <1>3, WithoutTyped, DoneTyped
<1> QED
  BY <1>4, <1>5 DEF ExecJoin, r

(* One level of execution over those inside it. *)
ExecOver(run) ==
    [q \in Queries |-> [ts \in Databases |->
       IF IsJoin(q) THEN ExecJoin(run, q, ts) ELSE ExecSingle(run, q, ts)]]

(* Execution to a depth, as a recursion over the depth. *)
LEMMA ExecForm ==
    ASSUME TypeOK
    PROVE  /\ Exec \in [Nat -> Runs]
           /\ \A q \in Queries, ts \in Databases : Exec[0][q][ts] = Fail(ts)
           /\ \A d \in Nat, q \in Queries, ts \in Databases :
                Exec[d + 1][q][ts] = IF IsJoin(q) THEN ExecJoin(Exec[d], q, ts)
                                     ELSE ExecSingle(Exec[d], q, ts)
<1> DEFINE none == [q \in Queries |-> [ts \in Databases |-> Fail(ts)]]
           step == [p \in Nat \X Runs |-> ExecOver(p[2])]
           rule(e) == [depth \in Nat |->
             [q \in Queries |-> [ts \in Databases |->
                IF depth = 0 THEN Fail(ts)
                ELSE IF IsJoin(q) THEN ExecJoin(e[depth - 1], q, ts)
                ELSE ExecSingle(e[depth - 1], q, ts)]]]
<1>1. none \in Runs
  BY FailTyped DEF Runs
<1>2. ASSUME NEW run \in Runs PROVE ExecOver(run) \in Runs
  BY ExecJoinTyped, ExecSingleTyped DEF Runs, ExecOver
<1>3. step \in Steps(Runs)
  BY <1>2 DEF Steps
<1>4. PICK f : f \in [Nat -> Runs] /\ f[0] = none /\ \A n \in Nat : f[n + 1] = step[<<n, f[n]>>]
  <2> HIDE DEF step, none
  <2>1. \E f : Iterates(f, Runs, none, step)
    BY <1>1, <1>3, Recursion
  <2> QED
    BY <2>1 DEF Iterates
<1>5. ASSUME NEW n \in Nat PROVE f[n + 1] = ExecOver(f[n])
  <2>1. <<n, f[n]>> \in Nat \X Runs
    BY <1>4
  <2>2. f[n + 1] = step[<<n, f[n]>>]
    BY <1>4
  <2> HIDE DEF ExecOver
  <2> QED
    BY <2>1, <2>2
<1>6. f = rule(f)
  <2>1. ASSUME NEW n \in Nat PROVE f[n] = rule(f)[n]
    <3>1. CASE n = 0
      BY <1>4, <3>1
    <3>2. CASE n # 0
      <4>1. n - 1 \in Nat /\ (n - 1) + 1 = n
        BY <3>2
      <4>2. f[n] = ExecOver(f[n - 1])
        BY <1>5, <4>1
      <4> QED
        BY <3>2, <4>2 DEF ExecOver
    <3> QED
      BY <3>1, <3>2
  <2>2. f = [n \in Nat |-> f[n]]
    BY <1>4
  <2>3. rule(f) = [n \in Nat |-> rule(f)[n]]
    OBVIOUS
  <2> HIDE DEF rule
  <2> QED
    BY <2>1, <2>2, <2>3
<1>7. Exec = CHOOSE e : e = rule(e)
  BY DEF Exec
<1>8. Exec = rule(Exec)
  <2> HIDE DEF rule
  <2> QED
    BY <1>6, <1>7
<1> DEFINE e == Exec
<1> HIDE DEF e
<1>9. e = rule(e)
  BY <1>8 DEF e
<1>10. \A q \in Queries, ts \in Databases : e[0][q][ts] = Fail(ts)
  BY <1>9
<1>11. ASSUME NEW n \in Nat PROVE e[n + 1] = ExecOver(e[n])
  <2>1. n + 1 \in Nat /\ n + 1 # 0 /\ (n + 1) - 1 = n
    OBVIOUS
  <2>2. e[n + 1] = rule(e)[n + 1]
    <3> HIDE DEF rule
    <3> QED
      BY <1>9
  <2> QED
    BY <2>1, <2>2 DEF ExecOver
<1>12. e \in [Nat -> Runs]
  <2> DEFINE Good == {n \in Nat : e[n] \in Runs}
  <2>1. 0 \in Good
    <3>1. e[0] = none
      BY <1>9
    <3> QED
      BY <1>1, <3>1
  <2>2. ASSUME NEW n \in Nat, n \in Good PROVE n + 1 \in Good
    BY <1>2, <1>11, <2>2
  <2>3. Nat \subseteq Good
    <3> HIDE DEF Good
    <3> QED
      BY <2>1, <2>2, NatSetInduction
  <2>4. e = [n \in Nat |-> e[n]]
    BY <1>9
  <2> QED
    BY <2>3, <2>4
<1>13. \A d \in Nat, q \in Queries, ts \in Databases :
         e[d + 1][q][ts] = IF IsJoin(q) THEN ExecJoin(e[d], q, ts) ELSE ExecSingle(e[d], q, ts)
  <2> TAKE d \in Nat, q \in Queries, ts \in Databases
  <2>1. e[d + 1] = ExecOver(e[d])
    BY <1>11
  <2>2. ExecOver(e[d])[q][ts] = IF IsJoin(q) THEN ExecJoin(e[d], q, ts) ELSE ExecSingle(e[d], q, ts)
    BY DEF ExecOver
  <2> QED
    BY <2>1, <2>2
<1> QED
  BY <1>10, <1>12, <1>13 DEF e

(* What SELECTs inside one can mean. *)
Readings == [Queries -> [Scopes -> Content]]

(* The meaning of a SELECT is a set of rows or there is none. *)
LEMMA MeantTyped ==
    ASSUME NEW inside, NEW q, NEW env
    PROVE  Meant(inside, q, env) \in Content
BY DEF Meant, Content

(* One level of meaning over those inside it. *)
MeantOver(inside) == [q \in Queries |-> [env \in Scopes |-> Meant(inside, q, env)]]

(* Meaning to a depth, as a recursion over the depth. *)
LEMMA MeaningForm ==
    /\ Meaning \in [Nat -> Readings]
    /\ \A q \in Queries, env \in Scopes : Meaning[0][q][env] = None
    /\ \A d \in Nat, q \in Queries, env \in Scopes :
         Meaning[d + 1][q][env] = Meant(Meaning[d], q, env)
<1> DEFINE none == [q \in Queries |-> [env \in Scopes |-> None]]
           step == [p \in Nat \X Readings |-> MeantOver(p[2])]
           rule(e) == [depth \in Nat |->
             [q \in Queries |-> [env \in Scopes |->
                IF depth = 0 THEN None ELSE Meant(e[depth - 1], q, env)]]]
<1>1. none \in Readings
  BY DEF Readings, Content
<1>2. ASSUME NEW inside \in Readings PROVE MeantOver(inside) \in Readings
  BY MeantTyped DEF Readings, MeantOver
<1>3. step \in Steps(Readings)
  BY <1>2 DEF Steps
<1>4. PICK f : f \in [Nat -> Readings] /\ f[0] = none /\ \A n \in Nat : f[n + 1] = step[<<n, f[n]>>]
  <2> HIDE DEF step, none
  <2>1. \E f : Iterates(f, Readings, none, step)
    BY <1>1, <1>3, Recursion
  <2> QED
    BY <2>1 DEF Iterates
<1>5. ASSUME NEW n \in Nat PROVE f[n + 1] = MeantOver(f[n])
  <2>1. <<n, f[n]>> \in Nat \X Readings
    BY <1>4
  <2>2. f[n + 1] = step[<<n, f[n]>>]
    BY <1>4
  <2> HIDE DEF MeantOver
  <2> QED
    BY <2>1, <2>2
<1>6. f = rule(f)
  <2>1. ASSUME NEW n \in Nat PROVE f[n] = rule(f)[n]
    <3>1. CASE n = 0
      BY <1>4, <3>1
    <3>2. CASE n # 0
      <4>1. n - 1 \in Nat /\ (n - 1) + 1 = n
        BY <3>2
      <4>2. f[n] = MeantOver(f[n - 1])
        BY <1>5, <4>1
      <4> QED
        BY <3>2, <4>2 DEF MeantOver
    <3> QED
      BY <3>1, <3>2
  <2>2. f = [n \in Nat |-> f[n]]
    BY <1>4
  <2>3. rule(f) = [n \in Nat |-> rule(f)[n]]
    OBVIOUS
  <2> HIDE DEF rule
  <2> QED
    BY <2>1, <2>2, <2>3
<1>7. Meaning = CHOOSE e : e = rule(e)
  BY DEF Meaning
<1>8. Meaning = rule(Meaning)
  <2> HIDE DEF rule
  <2> QED
    BY <1>6, <1>7
<1> DEFINE e == Meaning
<1> HIDE DEF e
<1>9. e = rule(e)
  BY <1>8 DEF e
<1>10. \A q \in Queries, env \in Scopes : e[0][q][env] = None
  BY <1>9
<1>11. ASSUME NEW n \in Nat PROVE e[n + 1] = MeantOver(e[n])
  <2>1. n + 1 \in Nat /\ n + 1 # 0 /\ (n + 1) - 1 = n
    OBVIOUS
  <2>2. e[n + 1] = rule(e)[n + 1]
    <3> HIDE DEF rule
    <3> QED
      BY <1>9
  <2> QED
    BY <2>1, <2>2 DEF MeantOver
<1>12. e \in [Nat -> Readings]
  <2> DEFINE Good == {n \in Nat : e[n] \in Readings}
  <2>1. 0 \in Good
    <3>1. e[0] = none
      BY <1>9
    <3> QED
      BY <1>1, <3>1
  <2>2. ASSUME NEW n \in Nat, n \in Good PROVE n + 1 \in Good
    BY <1>2, <1>11, <2>2
  <2>3. Nat \subseteq Good
    <3> HIDE DEF Good
    <3> QED
      BY <2>1, <2>2, NatSetInduction
  <2>4. e = [n \in Nat |-> e[n]]
    BY <1>9
  <2> QED
    BY <2>3, <2>4
<1>13. \A d \in Nat, q \in Queries, env \in Scopes : e[d + 1][q][env] = Meant(e[d], q, env)
  <2> TAKE d \in Nat, q \in Queries, env \in Scopes
  <2>1. e[d + 1] = MeantOver(e[d])
    BY <1>11
  <2>2. MeantOver(e[d])[q][env] = Meant(e[d], q, env)
    BY DEF MeantOver
  <2> QED
    BY <2>1, <2>2
<1> QED
  BY <1>10, <1>12, <1>13 DEF e

(* The SELECT inside a source is a query, and the source has a name of     *)
(* its own.                                                                *)
LEMMA InnerOfTyped ==
    ASSUME TypeOK, NEW q \in Queries, NEW i \in DOMAIN q.from, HasInner(q, i)
    PROVE  /\ InnerOf(q, i) \in Queries /\ InnerOf(q, i) \in Direct(q)
           /\ NameOf(q, i) \in AllNames
           /\ IsDerived(q, i) => NameOf(q, i) \in ToSet(Temps) \ Names
           /\ ~IsDerived(q, i) => /\ NameOf(q, i) = q.from[i].name /\ NameOf(q, i) \in Names
                                 /\ IsView(NameOf(q, i)) /\ InnerOf(q, i) = views[NameOf(q, i)]
<1>1. InnerOf(q, i) \in Direct(q)
  BY DEF Direct
<1>2. CASE IsDerived(q, i)
  BY <1>1, <1>2, QueryForm DEF InnerOf
<1>3. CASE ~IsDerived(q, i)
  <2>1. IsView(q.from[i].name)
    BY <1>3 DEF HasInner
  <2>2. views[q.from[i].name] \in Queries
    BY <2>1, ViewForm
  <2>3. InnerOf(q, i) = views[q.from[i].name] /\ NameOf(q, i) = q.from[i].name
    BY <1>3, QueryForm DEF InnerOf
  <2> QED
    BY <1>1, <1>3, <2>1, <2>2, <2>3, QueryForm
<1> QED
  BY <1>2, <1>3

(* The SELECTs directly inside one are queries. *)
LEMMA DirectTyped ==
    ASSUME TypeOK, NEW q \in Queries
    PROVE  Direct(q) \in SUBSET Queries
BY InnerOfTyped DEF Direct

(* One level of the SELECTs inside one. *)
InnerOver(inner) == [q \in Queries |-> Direct(q) \cup UNION {inner[p] : p \in Direct(q)}]
InnerSets == [Queries -> SUBSET Queries]

(* The SELECTs inside one to a depth, as a recursion over the depth. *)
LEMMA InnerForm ==
    ASSUME TypeOK
    PROVE  /\ Inner \in [Nat -> InnerSets]
           /\ \A q \in Queries : Inner[0][q] = {}
           /\ \A d \in Nat, q \in Queries :
                Inner[d + 1][q] = Direct(q) \cup UNION {Inner[d][p] : p \in Direct(q)}
<1> DEFINE none == [q \in Queries |-> {}]
           step == [p \in Nat \X InnerSets |-> InnerOver(p[2])]
           rule(e) == [depth \in Nat |->
             [q \in Queries |->
                IF depth = 0 THEN {} ELSE Direct(q) \cup UNION {e[depth - 1][p] : p \in Direct(q)}]]
<1>1. none \in InnerSets
  BY DEF InnerSets
<1>2. ASSUME NEW inner \in InnerSets PROVE InnerOver(inner) \in InnerSets
  <2>1. ASSUME NEW q \in Queries
        PROVE  Direct(q) \cup UNION {inner[p] : p \in Direct(q)} \in SUBSET Queries
    BY DirectTyped DEF InnerSets
  <2> QED
    BY <2>1 DEF InnerSets, InnerOver
<1>3. step \in Steps(InnerSets)
  BY <1>2 DEF Steps
<1>4. PICK f : f \in [Nat -> InnerSets] /\ f[0] = none /\ \A n \in Nat : f[n + 1] = step[<<n, f[n]>>]
  <2> HIDE DEF step, none
  <2>1. \E f : Iterates(f, InnerSets, none, step)
    BY <1>1, <1>3, Recursion
  <2> QED
    BY <2>1 DEF Iterates
<1>5. ASSUME NEW n \in Nat PROVE f[n + 1] = InnerOver(f[n])
  <2>1. <<n, f[n]>> \in Nat \X InnerSets
    BY <1>4
  <2>2. f[n + 1] = step[<<n, f[n]>>]
    BY <1>4
  <2> HIDE DEF InnerOver
  <2> QED
    BY <2>1, <2>2
<1>6. f = rule(f)
  <2>1. ASSUME NEW n \in Nat PROVE f[n] = rule(f)[n]
    <3>1. CASE n = 0
      BY <1>4, <3>1
    <3>2. CASE n # 0
      <4>1. n - 1 \in Nat /\ (n - 1) + 1 = n
        BY <3>2
      <4>2. f[n] = InnerOver(f[n - 1])
        BY <1>5, <4>1
      <4> QED
        BY <3>2, <4>2 DEF InnerOver
    <3> QED
      BY <3>1, <3>2
  <2>2. f = [n \in Nat |-> f[n]]
    BY <1>4
  <2>3. rule(f) = [n \in Nat |-> rule(f)[n]]
    OBVIOUS
  <2> HIDE DEF rule
  <2> QED
    BY <2>1, <2>2, <2>3
<1>7. Inner = CHOOSE e : e = rule(e)
  BY DEF Inner
<1>8. Inner = rule(Inner)
  <2> HIDE DEF rule
  <2> QED
    BY <1>6, <1>7
<1> DEFINE e == Inner
<1> HIDE DEF e
<1>9. e = rule(e)
  BY <1>8 DEF e
<1>10. \A q \in Queries : e[0][q] = {}
  BY <1>9
<1>11. ASSUME NEW n \in Nat PROVE e[n + 1] = InnerOver(e[n])
  <2>1. n + 1 \in Nat /\ n + 1 # 0 /\ (n + 1) - 1 = n
    OBVIOUS
  <2>2. e[n + 1] = rule(e)[n + 1]
    <3> HIDE DEF rule
    <3> QED
      BY <1>9
  <2> QED
    BY <2>1, <2>2 DEF InnerOver
<1>12. e \in [Nat -> InnerSets]
  <2> DEFINE Good == {n \in Nat : e[n] \in InnerSets}
  <2>1. 0 \in Good
    <3>1. e[0] = none
      BY <1>9
    <3> QED
      BY <1>1, <3>1
  <2>2. ASSUME NEW n \in Nat, n \in Good PROVE n + 1 \in Good
    BY <1>2, <1>11, <2>2
  <2>3. Nat \subseteq Good
    <3> HIDE DEF Good
    <3> QED
      BY <2>1, <2>2, NatSetInduction
  <2>4. e = [n \in Nat |-> e[n]]
    BY <1>9
  <2> QED
    BY <2>3, <2>4
<1>13. \A d \in Nat, q \in Queries : e[d + 1][q] = Direct(q) \cup UNION {e[d][p] : p \in Direct(q)}
  <2> TAKE d \in Nat, q \in Queries
  <2>1. e[d + 1] = InnerOver(e[d])
    BY <1>11
  <2>2. InnerOver(e[d])[q] = Direct(q) \cup UNION {e[d][p] : p \in Direct(q)}
    BY DEF InnerOver
  <2> QED
    BY <2>1, <2>2
<1> QED
  BY <1>10, <1>12, <1>13 DEF e

-----------------------------------------------------------------------------
(* Meaning does not depend on the depth, once there is one, nor on the     *)
(* CTEs beside the tables it reads.                                        *)

(* A SELECT that means something has sources that do, and is the rows      *)
(* they have in common.                                                    *)
LEMMA MeantOfSources ==
    ASSUME NEW inside, NEW q, NEW env, Meant(inside, q, env) # None
    PROVE  /\ ~q.fails /\ \A i \in DOMAIN q.from : SourceMeaning(inside, q, i, env) # None
           /\ Meant(inside, q, env) =
                {v \in Values : \A i \in DOMAIN q.from : v \in SourceMeaning(inside, q, i, env)}
BY DEF Meant

(* If its sources mean the same, a SELECT does. *)
LEMMA MeantSame ==
    ASSUME NEW inside, NEW deeper, NEW q, NEW env, NEW wider, Meant(inside, q, env) # None,
           \A i \in DOMAIN q.from :
             SourceMeaning(inside, q, i, env) # None =>
               SourceMeaning(deeper, q, i, wider) = SourceMeaning(inside, q, i, env)
    PROVE  Meant(deeper, q, wider) = Meant(inside, q, env)
<1>1. ~q.fails /\ \A i \in DOMAIN q.from : SourceMeaning(inside, q, i, env) # None
  BY MeantOfSources
<1>2. \A i \in DOMAIN q.from : SourceMeaning(deeper, q, i, wider) = SourceMeaning(inside, q, i, env)
  BY <1>1
<1>3. {v \in Values : \A i \in DOMAIN q.from : v \in SourceMeaning(deeper, q, i, wider)}
      = {v \in Values : \A i \in DOMAIN q.from : v \in SourceMeaning(inside, q, i, env)}
  BY <1>2
<1>4. Meant(deeper, q, wider) =
        {v \in Values : \A i \in DOMAIN q.from : v \in SourceMeaning(deeper, q, i, wider)}
  BY <1>1, <1>2 DEF Meant
<1> QED
  BY <1>3, <1>4, MeantOfSources

(* The tables that were created are a scope. *)
LEMMA RealTyped ==
    ASSUME TypeOK
    PROVE  real \in Scopes
BY DEF TypeOK, Scopes

(* One level more changes no meaning there is, ... *)
LEMMA MeaningNext ==
    ASSUME TypeOK, NEW d \in Nat
    PROVE  \A q \in Queries, env \in Scopes :
             Meaning[d][q][env] # None => Meaning[d + 1][q][env] = Meaning[d][q][env]
<1> DEFINE Good == {n \in Nat : \A q \in Queries, env \in Scopes :
                      Meaning[n][q][env] # None => Meaning[n + 1][q][env] = Meaning[n][q][env]}
<1>1. 0 \in Good
  BY MeaningForm
<1>2. ASSUME NEW n \in Nat, n \in Good PROVE n + 1 \in Good
  <2> SUFFICES ASSUME NEW q \in Queries, NEW env \in Scopes, Meaning[n + 1][q][env] # None
               PROVE  Meaning[(n + 1) + 1][q][env] = Meaning[n + 1][q][env]
    OBVIOUS
  <2>1. /\ Meaning[n + 1][q][env] = Meant(Meaning[n], q, env)
        /\ Meaning[(n + 1) + 1][q][env] = Meant(Meaning[n + 1], q, env)
    BY MeaningForm
  <2>2. ASSUME NEW i \in DOMAIN q.from, SourceMeaning(Meaning[n], q, i, env) # None
        PROVE  SourceMeaning(Meaning[n + 1], q, i, env) = SourceMeaning(Meaning[n], q, i, env)
    <3>1. CASE IsDerived(q, i)
      <4>1. q.from[i].query \in Queries
        BY <3>1, QueryForm
      <4> QED
        BY <1>2, <2>2, <3>1, <4>1 DEF SourceMeaning
    <3>2. CASE ~IsDerived(q, i) /\ env[q.from[i].name] = None /\ views[q.from[i].name] # None
      <4>1. views[q.from[i].name] \in Queries
        BY <3>2, QueryForm, ViewForm DEF IsView
      <4> QED
        BY <1>2, <2>2, <3>2, <4>1, RealTyped DEF SourceMeaning
    <3>3. CASE ~IsDerived(q, i) /\ (env[q.from[i].name] # None \/ views[q.from[i].name] = None)
      BY <3>3 DEF SourceMeaning
    <3> QED
      BY <3>1, <3>2, <3>3
  <2> QED
    BY <2>1, <2>2, MeantSame
<1> HIDE DEF Good
<1>3. Nat \subseteq Good
  BY <1>1, <1>2, NatSetInduction
<1> QED
  BY <1>3 DEF Good

(* ... nor do more levels. *)
LEMMA MeaningDeeper ==
    ASSUME TypeOK, NEW d \in Nat, NEW e \in Nat, d <= e,
           NEW q \in Queries, NEW env \in Scopes, Meaning[d][q][env] # None
    PROVE  Meaning[e][q][env] = Meaning[d][q][env]
<1> DEFINE Good == {n \in Nat : Meaning[d + n][q][env] = Meaning[d][q][env]}
<1>1. 0 \in Good
  OBVIOUS
<1>2. ASSUME NEW n \in Nat, n \in Good PROVE n + 1 \in Good
  <2>1. d + n \in Nat /\ (d + n) + 1 = d + (n + 1)
    OBVIOUS
  <2>2. Meaning[(d + n) + 1][q][env] = Meaning[d + n][q][env]
    BY <1>2, <2>1, MeaningNext
  <2> QED
    BY <1>2, <2>1, <2>2
<1>3. Nat \subseteq Good
  <2> HIDE DEF Good
  <2> QED
    BY <1>1, <1>2, NatSetInduction
<1>4. e - d \in Nat /\ d + (e - d) = e
  OBVIOUS
<1> QED
  BY <1>3, <1>4

(* Beside the tables that were created env has CTEs, under names that are  *)
(* no view's.                                                              *)
RealWithin(env) ==
    \A n \in Names : (real[n] # None => env[n] = real[n]) /\ (views[n] # None => env[n] = None)

(* What a SELECT means on the tables that were created, it means with      *)
(* CTEs beside them: the body of a view does not see the CTEs of the       *)
(* statement that names it.                                                *)
LEMMA MeaningWider ==
    ASSUME TypeOK, NEW env \in Scopes, RealWithin(env), NEW d \in Nat, NEW q \in Queries,
           Meaning[d][q][real] # None
    PROVE  Meaning[d][q][env] = Meaning[d][q][real]
<1> DEFINE Good == {n \in Nat : \A p \in Queries :
                      Meaning[n][p][real] # None => Meaning[n][p][env] = Meaning[n][p][real]}
<1>1. 0 \in Good
  BY MeaningForm, RealTyped
<1>2. ASSUME NEW n \in Nat, n \in Good PROVE n + 1 \in Good
  <2> SUFFICES ASSUME NEW p \in Queries, Meaning[n + 1][p][real] # None
               PROVE  Meaning[n + 1][p][env] = Meaning[n + 1][p][real]
    OBVIOUS
  <2>1. /\ Meaning[n + 1][p][env] = Meant(Meaning[n], p, env)
        /\ Meaning[n + 1][p][real] = Meant(Meaning[n], p, real)
    BY MeaningForm, RealTyped
  <2>2. ASSUME NEW i \in DOMAIN p.from, SourceMeaning(Meaning[n], p, i, real) # None
        PROVE  SourceMeaning(Meaning[n], p, i, env) = SourceMeaning(Meaning[n], p, i, real)
    <3>1. CASE IsDerived(p, i)
      <4>1. p.from[i].query \in Queries
        BY <3>1, QueryForm
      <4> QED
        BY <1>2, <2>2, <3>1, <4>1 DEF SourceMeaning
    <3>2. CASE ~IsDerived(p, i)
      <4>1. p.from[i].name \in Names
        BY <3>2, QueryForm
      <4>2. /\ real[p.from[i].name] # None => env[p.from[i].name] = real[p.from[i].name]
            /\ views[p.from[i].name] # None => env[p.from[i].name] = None
        BY <4>1 DEF RealWithin
      <4> QED
        BY <2>2, <3>2, <4>2 DEF SourceMeaning
    <3> QED
      BY <3>1, <3>2
  <2> QED
    BY <2>1, <2>2, MeantSame
<1>3. Nat \subseteq Good
  <2> HIDE DEF Good
  <2> QED
    BY <1>1, <1>2, NatSetInduction
<1> QED
  BY <1>3

(* A level more only adds SELECTs, ... *)
LEMMA InnerNext ==
    ASSUME TypeOK, NEW d \in Nat
    PROVE  \A q \in Queries : Inner[d][q] \subseteq Inner[d + 1][q]
<1> DEFINE Good == {n \in Nat : \A q \in Queries : Inner[n][q] \subseteq Inner[n + 1][q]}
<1>1. 0 \in Good
  BY InnerForm
<1>2. ASSUME NEW n \in Nat, n \in Good PROVE n + 1 \in Good
  <2> SUFFICES ASSUME NEW q \in Queries, NEW p \in Inner[n + 1][q]
               PROVE  p \in Inner[(n + 1) + 1][q]
    OBVIOUS
  <2>0. n + 1 \in Nat
    OBVIOUS
  <2>1. Inner[n + 1][q] = Direct(q) \cup UNION {Inner[n][o] : o \in Direct(q)}
    BY InnerForm
  <2>3. Inner[(n + 1) + 1][q] = Direct(q) \cup UNION {Inner[n + 1][o] : o \in Direct(q)}
    BY <2>0, InnerForm
  <2>2. \A o \in Direct(q) : Inner[n][o] \subseteq Inner[n + 1][o]
    BY <1>2, DirectTyped
  <2> QED
    BY <2>1, <2>2, <2>3
<1>3. Nat \subseteq Good
  <2> HIDE DEF Good
  <2> QED
    BY <1>1, <1>2, NatSetInduction
<1> QED
  BY <1>3

(* ... and so do more. *)
LEMMA InnerDeeper ==
    ASSUME TypeOK, NEW d \in Nat, NEW e \in Nat, d <= e, NEW q \in Queries
    PROVE  Inner[d][q] \subseteq Inner[e][q]
<1> DEFINE Good == {n \in Nat : Inner[d][q] \subseteq Inner[d + n][q]}
<1>1. 0 \in Good
  OBVIOUS
<1>2. ASSUME NEW n \in Nat, n \in Good PROVE n + 1 \in Good
  <2>1. d + n \in Nat /\ (d + n) + 1 = d + (n + 1)
    OBVIOUS
  <2>2. Inner[d + n][q] \subseteq Inner[(d + n) + 1][q]
    BY <2>1, InnerNext
  <2> QED
    BY <1>2, <2>1, <2>2
<1>3. Nat \subseteq Good
  <2> HIDE DEF Good
  <2> QED
    BY <1>1, <1>2, NatSetInduction
<1>4. e - d \in Nat /\ d + (e - d) = e
  OBVIOUS
<1> QED
  BY <1>3, <1>4

(* What is inside a SELECT inside q is inside q. *)
LEMMA InnerOfDirect ==
    ASSUME TypeOK, NEW d \in Nat, NEW q \in Queries, NEW p \in Direct(q)
    PROVE  {p} \cup Inner[d][p] \subseteq Inner[d + 1][q]
<1>1. Inner[d + 1][q] = Direct(q) \cup UNION {Inner[d][o] : o \in Direct(q)}
  BY InnerForm
<1> QED
  BY <1>1

-----------------------------------------------------------------------------
(* Execution answers what a SELECT means.  By induction over the depth: a  *)
(* source first, then a SELECT of one, then a join source by source.       *)

(* The tables are those of env; what else is there is a view's, with the   *)
(* rows it means now.                                                      *)
Agree(ts, env) ==
    \A n \in Names :
      /\ env[n] # None => ts[n] = env[n]
      /\ env[n] = None /\ ts[n] # None => views[n] # None /\ ts[n] = Means(views[n], real)
(* Nothing is there that a join in q would drop. *)
Clear(d, q, ts) ==
    \A p \in {q} \cup Inner[d][q] : IsJoin(p) => \A n \in Dropped(p) : ts[n] = None
(* q, executed on ts to the depth d, meets none of what is known to go     *)
(* wrong.                                                                  *)
FitsIn(d, q, ts, env) ==
    /\ Agree(ts, env) /\ Clear(d, q, ts) /\ Meaning[d][q][env] # None
    /\ \A p \in Inner[d][q] : Means(p, env) # {}
    /\ \A p \in {q} \cup Inner[d][q] : Undisturbed(p)
(* What it should then leave: the tables as they were, and the rows it     *)
(* means.                                                                  *)
Answer(d, q, ts, env) == Done(ts, Meaning[d][q][env], IsJoin(q) /\ Meaning[d][q][env] = {})
(* At depth d every SELECT does. *)
AnswersWell(d) ==
    \A q \in Queries, ts \in Databases, env \in Scopes :
      RealWithin(env) /\ FitsIn(d, q, ts, env) => Exec[d][q][ts] = Answer(d, q, ts, env)

(* A name has no table or one with rows of values. *)
LEMMA ContentRows ==
    ASSUME NEW c \in Content
    PROVE  c # None <=> c \in SUBSET Values
BY ViewsAssumption DEF Content

(* A meaning is a set of rows or there is none. *)
LEMMA MeaningTyped ==
    ASSUME NEW d \in Nat, NEW q \in Queries, NEW env \in Scopes
    PROVE  Meaning[d][q][env] \in Content
BY MeaningForm DEF Readings

(* So is that of a source. *)
LEMMA SourceTyped ==
    ASSUME TypeOK, NEW d \in Nat, NEW q \in Queries, NEW i \in DOMAIN q.from, NEW env \in Scopes
    PROVE  SourceMeaning(Meaning[d], q, i, env) \in Content
<1>1. CASE IsDerived(q, i)
  <2>1. q.from[i].query \in Queries
    BY <1>1, QueryForm
  <2> QED
    BY <1>1, <2>1, MeaningTyped DEF SourceMeaning
<1>2. CASE ~IsDerived(q, i)
  <2> DEFINE n == q.from[i].name
  <2>1. n \in Names
    BY <1>2, QueryForm
  <2>2. env[n] \in Content /\ None \in Content
    BY <2>1 DEF Scopes, Content
  <2>3. views[n] # None => Meaning[d][views[n]][real] \in Content
    BY <2>1, ViewForm, RealTyped, MeaningTyped DEF IsView
  <2> QED
    BY <1>2, <2>2, <2>3 DEF SourceMeaning
<1> QED
  BY <1>1, <1>2

(* A SELECT that fits has sources that mean something and is the rows      *)
(* they have in common.                                                    *)
LEMMA SourceKnown ==
    ASSUME TypeOK, NEW d \in Nat, NEW q \in Queries, NEW ts \in Databases, NEW env \in Scopes,
           FitsIn(d + 1, q, ts, env)
    PROVE  /\ ~q.fails
           /\ Meaning[d + 1][q][env] =
                {v \in Values : \A i \in DOMAIN q.from : v \in SourceMeaning(Meaning[d], q, i, env)}
           /\ \A i \in DOMAIN q.from : /\ SourceMeaning(Meaning[d], q, i, env) # None
                                      /\ SourceMeaning(Meaning[d], q, i, env) \in SUBSET Values
<1>1. Meaning[d + 1][q][env] = Meant(Meaning[d], q, env) /\ Meaning[d + 1][q][env] # None
  BY MeaningForm DEF FitsIn
<1>2. /\ ~q.fails /\ \A i \in DOMAIN q.from : SourceMeaning(Meaning[d], q, i, env) # None
      /\ Meant(Meaning[d], q, env) =
           {v \in Values : \A i \in DOMAIN q.from : v \in SourceMeaning(Meaning[d], q, i, env)}
  BY <1>1, MeantOfSources
<1> QED
  BY <1>1, <1>2, SourceTyped, ContentRows

(* The SELECT inside a source means what the source does, has rows, and,   *)
(* if it is a view's, there is no table of that name in env.               *)
LEMMA InnerMeaning ==
    ASSUME TypeOK, NEW d \in Nat, d + 1 <= MaxNesting, NEW q \in Queries, NEW ts \in Databases,
           NEW env \in Scopes, RealWithin(env), FitsIn(d + 1, q, ts, env),
           NEW i \in DOMAIN q.from, HasInner(q, i)
    PROVE  /\ {InnerOf(q, i)} \cup Inner[d][InnerOf(q, i)] \subseteq Inner[d + 1][q]
           /\ Meaning[d][InnerOf(q, i)][env] = SourceMeaning(Meaning[d], q, i, env)
           /\ SourceMeaning(Meaning[d], q, i, env) # {}
           /\ ~IsDerived(q, i) => /\ env[NameOf(q, i)] = None
                                 /\ SourceMeaning(Meaning[d], q, i, env) = Means(views[NameOf(q, i)], real)
<1> DEFINE p == InnerOf(q, i)
           m == SourceMeaning(Meaning[d], q, i, env)
           n == NameOf(q, i)
<1>1. p \in Queries /\ p \in Direct(q)
  BY InnerOfTyped
<1>2. {p} \cup Inner[d][p] \subseteq Inner[d + 1][q]
  <2> HIDE DEF p
  <2> QED
    BY <1>1, InnerOfDirect
<1>3. m # None
  BY SourceKnown
<1>4. MaxNesting \in Nat /\ d <= MaxNesting
  BY ViewsAssumption
<1>5. /\ Meaning[d][p][env] = m
      /\ ~IsDerived(q, i) => env[n] = None /\ m = Means(views[n], real)
  <2>1. CASE IsDerived(q, i)
    BY <2>1 DEF SourceMeaning, InnerOf
  <2>2. CASE ~IsDerived(q, i)
    <3>1. n = q.from[i].name /\ n \in Names /\ IsView(n) /\ p = views[n] /\ views[n] # None
      BY <2>2, InnerOfTyped DEF IsView
    <3>2. env[n] = None
      BY <3>1 DEF RealWithin
    <3>3. m = Meaning[d][views[n]][real]
      BY <2>2, <3>1, <3>2 DEF SourceMeaning
    <3>4. Meaning[d][views[n]][env] = m
      <4> HIDE DEF m, n, p
      <4> QED
        BY <1>1, <1>3, <3>1, <3>3, MeaningWider
    <3>5. Means(views[n], real) = m
      <4> HIDE DEF m, n, p
      <4> QED
        BY <1>1, <1>3, <1>4, <3>1, <3>3, MeaningDeeper, RealTyped DEF Means
    <3> QED
      BY <3>1, <3>2, <3>4, <3>5
  <2> QED
    BY <2>1, <2>2
<1>6. m # {}
  <2> HIDE DEF m, n, p
  <2>1. Means(p, env) = Meaning[d][p][env]
    BY <1>1, <1>3, <1>4, <1>5, MeaningDeeper DEF Means
  <2>2. Means(p, env) # {}
    BY <1>2 DEF FitsIn
  <2> QED
    BY <1>5, <2>1, <2>2
<1> QED
  BY <1>2, <1>5, <1>6

(* So executing it and putting its answer under a name is what is wanted,  *)
(* once all there is agrees with env.                                      *)
LEMMA MaterializeInner ==
    ASSUME TypeOK, NEW d \in Nat, d + 1 <= MaxNesting, AnswersWell(d),
           NEW q \in Queries, NEW ts \in Databases, NEW env \in Scopes, RealWithin(env),
           FitsIn(d + 1, q, ts, env), NEW i \in DOMAIN q.from, HasInner(q, i),
           NEW now \in Databases, Agree(now, env), Clear(d, InnerOf(q, i), now), NEW n \in AllNames
    PROVE  Materialize(Exec[d], InnerOf(q, i), n, now)
             = Done([now EXCEPT ![n] = SourceMeaning(Meaning[d], q, i, env)],
                    SourceMeaning(Meaning[d], q, i, env), FALSE)
<1> DEFINE p == InnerOf(q, i)
           m == SourceMeaning(Meaning[d], q, i, env)
<1>1. p \in Queries
  BY InnerOfTyped
<1>2. {p} \cup Inner[d][p] \subseteq Inner[d + 1][q] /\ Meaning[d][p][env] = m /\ m # {}
  BY InnerMeaning
<1>3. m # None
  BY SourceKnown
<1> HIDE DEF p, m
<1>4. FitsIn(d, p, now, env)
  BY <1>2, <1>3 DEF FitsIn, p
<1>5. Exec[d][p][now] = Done(now, m, FALSE)
  <2>1. Exec[d][p][now] = Answer(d, p, now, env)
    BY <1>1, <1>4 DEF AnswersWell
  <2>2. (IsJoin(p) /\ Meaning[d][p][env] = {}) = FALSE
    BY <1>2
  <2> QED
    BY <1>2, <2>1, <2>2 DEF Answer
<1>6. Materialize(Exec[d], p, n, now) = Done([now EXCEPT ![n] = m], m, FALSE)
  BY <1>5 DEF Materialize, Done
<1> QED
  BY <1>6 DEF p, m

(* The i-th source is read: its rows are what it means, and no other       *)
(* table is changed.                                                       *)
ReadsWell(d, q, env, i, now) ==
    \E then \in Databases :
      /\ ReadSource(Exec[d], q, i, now) = Done(then, SourceMeaning(Meaning[d], q, i, env), FALSE)
      /\ then[NameOf(q, i)] = SourceMeaning(Meaning[d], q, i, env)
      /\ \A n \in AllNames : n # NameOf(q, i) \/ ~HasInner(q, i) => then[n] = now[n]

(* resolve_any_factor reads a source well, whether it finds the table or   *)
(* has to make it.                                                         *)
LEMMA ReadSourceWell ==
    ASSUME TypeOK, NEW d \in Nat, d + 1 <= MaxNesting, AnswersWell(d),
           NEW q \in Queries, NEW ts \in Databases, NEW env \in Scopes, RealWithin(env),
           FitsIn(d + 1, q, ts, env), NEW i \in DOMAIN q.from,
           NEW now \in Databases, Agree(now, env),
           HasInner(q, i) => Clear(d, InnerOf(q, i), now)
    PROVE  ReadsWell(d, q, env, i, now)
<1> USE DEF ReadsWell
<1> DEFINE n == NameOf(q, i)
           m == SourceMeaning(Meaning[d], q, i, env)
           then == [now EXCEPT ![n] = m]
<1>1. n \in AllNames
  BY QueryForm
<1>2. m # None /\ m \in Content
  BY SourceKnown, SourceTyped
<1>3. then \in Databases /\ then[n] = m /\ \A o \in AllNames : o # n => then[o] = now[o]
  <2> HIDE DEF n, m
  <2> QED
    BY <1>1, <1>2 DEF Databases
<1>4. CASE HasInner(q, i) /\ (IsDerived(q, i) \/ NeedsView(n, now))
  <2>1. Materialize(Exec[d], InnerOf(q, i), n, now) = Done(then, m, FALSE)
    BY <1>1, <1>4, MaterializeInner
  <2>2. /\ IsDerived(q, i) => InnerOf(q, i) = q.from[i].query
        /\ ~IsDerived(q, i) => InnerOf(q, i) = views[n]
    BY <1>4, InnerOfTyped DEF InnerOf
  <2>3. ReadSource(Exec[d], q, i, now) = Done(then, m, FALSE)
    <3> DEFINE r == IF IsDerived(q, i) THEN Materialize(Exec[d], q.from[i].query, n, now)
                    ELSE IF NeedsView(n, now) THEN Materialize(Exec[d], views[n], n, now)
                    ELSE Done(now, {}, FALSE)
    <3>1. r = Done(then, m, FALSE)
      <4> HIDE DEF then, m, n
      <4> QED
        BY <1>4, <2>1, <2>2
    <3>2. ReadSource(Exec[d], q, i, now) =
            IF ~r.ok \/ r.tables[n] = None THEN Fail(r.tables) ELSE Done(r.tables, r.tables[n], FALSE)
      BY DEF ReadSource, Reading
    <3> HIDE DEF r, then, m, n
    <3>3. r.ok = TRUE /\ r.tables = then
      BY <3>1 DEF Done
    <3> QED
      BY <1>2, <1>3, <3>2, <3>3
  <2> HIDE DEF then
  <2> QED
    BY <1>3, <1>4, <2>3
<1>5. CASE ~(HasInner(q, i) /\ (IsDerived(q, i) \/ NeedsView(n, now)))
  <2>1. ~IsDerived(q, i) /\ n = q.from[i].name /\ n \in Names
    BY <1>5, QueryForm DEF HasInner
  <2>2. now[n] = m
    <3>1. CASE env[n] # None
      <4>1. now[n] = env[n]
        BY <2>1, <3>1 DEF Agree
      <4> QED
        BY <2>1, <3>1, <4>1 DEF SourceMeaning
    <3>2. CASE env[n] = None
      <4>1. views[n] # None
        BY <1>2, <2>1, <3>2 DEF SourceMeaning
      <4>2. HasInner(q, i) /\ IsView(n)
        BY <2>1, <4>1 DEF HasInner, IsView
      <4>3. now[n] # None
        BY <1>5, <4>2 DEF NeedsView
      <4>4. now[n] = Means(views[n], real)
        BY <2>1, <3>2, <4>3 DEF Agree
      <4> QED
        BY <2>1, <4>2, <4>4, InnerMeaning
    <3> QED
      BY <3>1, <3>2
  <2>3. ~NeedsView(n, now)
    BY <1>2, <2>2 DEF NeedsView
  <2>4. ReadSource(Exec[d], q, i, now) = Done(now, m, FALSE)
    <3> HIDE DEF m
    <3> QED
      BY <1>2, <2>1, <2>2, <2>3 DEF ReadSource, Reading, Done
  <2> QED
    BY <2>2, <2>4
<1> QED
  BY <1>4, <1>5

(* To drop what was put is to be where one was. *)
LEMMA WithoutAt ==
    ASSUME NEW ts \in Databases, NEW then \in Databases, NEW gone,
           \A n \in AllNames : IF n \in gone THEN ts[n] = None ELSE then[n] = ts[n]
    PROVE  Without(then, gone) = ts
BY DEF Without, Databases

(* What is clear for a SELECT is for those inside it. *)
LEMMA ClearInner ==
    ASSUME TypeOK, NEW d \in Nat, d + 1 <= MaxNesting, NEW q \in Queries, NEW ts \in Databases,
           NEW env \in Scopes, RealWithin(env), FitsIn(d + 1, q, ts, env),
           NEW i \in DOMAIN q.from, HasInner(q, i)
    PROVE  Clear(d, InnerOf(q, i), ts)
<1>1. {InnerOf(q, i)} \cup Inner[d][InnerOf(q, i)] \subseteq Inner[d + 1][q]
  BY InnerMeaning
<1> QED
  BY <1>1 DEF FitsIn, Clear

(* A SELECT of one named source leaves what it should: a view              *)
(* materialised here is dropped, one found is not.                         *)
LEMMA SingleWell ==
    ASSUME TypeOK, NEW d \in Nat, d + 1 <= MaxNesting, AnswersWell(d),
           NEW q \in Queries, ~IsJoin(q), NEW ts \in Databases, NEW env \in Scopes, RealWithin(env),
           FitsIn(d + 1, q, ts, env)
    PROVE  ExecSingle(Exec[d], q, ts) = Answer(d + 1, q, ts, env)
<1> DEFINE n == NameOf(q, 1)
           m == SourceMeaning(Meaning[d], q, 1, env)
           gone == IF NeedsView(n, ts) THEN {n} ELSE {}
<1>1. DOMAIN q.from = {1} /\ 1 \in DOMAIN q.from /\ ~IsDerived(q, 1)
  <2>1. ~(Len(q.from) > 1) /\ ~IsDerived(q, 1)
    BY DEF IsJoin
  <2>2. Len(q.from) \in Nat /\ Len(q.from) >= 1 /\ DOMAIN q.from = 1 .. Len(q.from)
    BY QueryForm
  <2>3. Len(q.from) = 1
    <3> DEFINE len == Len(q.from)
    <3> HIDE DEF len
    <3>1. ~(len > 1) /\ len \in Nat /\ len >= 1
      BY <2>1, <2>2 DEF len
    <3>2. len = 1
      BY <3>1
    <3> QED
      BY <3>2 DEF len
  <2> QED
    BY <2>1, <2>2, <2>3
<1>2. n \in Names /\ n \in AllNames /\ n = q.from[1].name
  BY <1>1, QueryForm
<1>3. PICK then \in Databases : /\ ReadSource(Exec[d], q, 1, ts) = Done(then, m, FALSE)
                               /\ then[n] = m
                               /\ \A o \in AllNames : o # n \/ ~HasInner(q, 1) => then[o] = ts[o]
  <2>1. Agree(ts, env)
    BY DEF FitsIn
  <2>2. HasInner(q, 1) => Clear(d, InnerOf(q, 1), ts)
    BY <1>1, ClearInner
  <2> QED
    BY <1>1, <2>1, <2>2, ReadSourceWell DEF ReadsWell
<1>4. Without(then, gone) = ts
  <2>1. ASSUME NEW o \in AllNames
        PROVE  IF o \in gone THEN ts[o] = None ELSE then[o] = ts[o]
    <3>1. CASE o # n \/ ~HasInner(q, 1)
      <4>1. then[o] = ts[o]
        BY <1>3, <3>1
      <4> QED
        BY <4>1 DEF NeedsView
    <3>2. CASE o = n /\ HasInner(q, 1) /\ ts[n] = None
      <4>1. IsView(n)
        BY <1>1, <1>2, <3>2 DEF HasInner
      <4> QED
        BY <3>2, <4>1 DEF NeedsView
    <3>3. CASE o = n /\ HasInner(q, 1) /\ ts[n] # None
      <4>1. env[n] = None /\ m = Means(views[n], real)
        BY <1>1, <3>3, InnerMeaning
      <4>2. ts[n] = m
        BY <1>2, <3>3, <4>1 DEF FitsIn, Agree
      <4>3. o \notin gone
        BY <3>3 DEF NeedsView
      <4> QED
        BY <1>3, <3>3, <4>2, <4>3
    <3> QED
      BY <3>1, <3>2, <3>3
  <2> HIDE DEF gone
  <2> QED
    BY <2>1, WithoutAt
<1>5. ~q.fails /\ m \in SUBSET Values /\ Meaning[d + 1][q][env] = m
  <2>1. Meaning[d + 1][q][env] =
          {v \in Values : \A i \in DOMAIN q.from : v \in SourceMeaning(Meaning[d], q, i, env)}
    BY SourceKnown
  <2>3. ~q.fails /\ m \in SUBSET Values
    <3> HIDE DEF m
    <3> QED
      BY <1>1, SourceKnown DEF m
  <2>2. {v \in Values : \A i \in {1} : v \in SourceMeaning(Meaning[d], q, i, env)}
                = {v \in Values : v \in m}
    OBVIOUS
  <2>4. Meaning[d + 1][q][env] = {v \in Values : v \in m}
    BY <1>1, <2>1, <2>2
  <2> HIDE DEF m
  <2> QED
    BY <2>3, <2>4
<1>6. ExecSingle(Exec[d], q, ts) = Done(ts, m, FALSE)
  <2> DEFINE r == ReadSource(Exec[d], q, 1, ts)
  <2>1. ExecSingle(Exec[d], q, ts) =
          IF ~r.ok \/ q.fails THEN Fail(r.tables) ELSE Done(Without(r.tables, gone), r.rows, FALSE)
    BY DEF ExecSingle
  <2> HIDE DEF r, m, gone
  <2>2. r.ok = TRUE /\ r.tables = then /\ r.rows = m
    BY <1>3 DEF Done, r
  <2> QED
    BY <1>4, <1>5, <2>1, <2>2
<1>7. (IsJoin(q) /\ Meaning[d + 1][q][env] = {}) = FALSE
  OBVIOUS
<1> QED
  BY <1>5, <1>6, <1>7 DEF Answer

(* What a join has put into the Database for its first i sources. *)
Put(q, i) == {NameOf(q, j) : j \in {k \in DOMAIN q.from : k <= i /\ HasInner(q, k)}}

(* It drops all of that. *)
LEMMA PutNames ==
    ASSUME TypeOK, NEW q \in Queries, NEW i \in Nat, NEW n \in Put(q, i)
    PROVE  n \in AllNames /\ n \in Dropped(q) /\ (n \in Names => views[n] # None)
<1>1. PICK j \in DOMAIN q.from : n = NameOf(q, j) /\ HasInner(q, j)
  BY DEF Put
<1>2. n \in Used(q)
  BY <1>1 DEF Used
<1>3. CASE IsDerived(q, j)
  BY <1>1, <1>2, <1>3, InnerOfTyped DEF Dropped
<1>4. CASE ~IsDerived(q, j)
  BY <1>1, <1>2, <1>4, InnerOfTyped DEF Dropped, IsView
<1> QED
  BY <1>3, <1>4

(* What a join drops are names. *)
LEMMA DroppedNames ==
    ASSUME NEW q \in Queries
    PROVE  Dropped(q) \subseteq AllNames
BY QueryForm DEF Dropped, Used

(* The first i sources are read, and nothing but theirs was put. *)
ReadSoFar(d, q, ts, env, i, acc) ==
    /\ acc.ok /\ acc.tables \in Databases
    /\ \A n \in AllNames : n \notin Put(q, i) => acc.tables[n] = ts[n]
    /\ \A n \in Put(q, i) : acc.tables[n] # None /\ (n \in Names => acc.tables[n] = Means(views[n], real))
    /\ acc.rows = {v \in Values : \A j \in DOMAIN q.from :
                                    j <= i => v \in SourceMeaning(Meaning[d], q, j, env)}

(* Nothing is read yet. *)
LEMMA ReadFirst ==
    ASSUME NEW d, NEW q \in Queries, NEW ts \in Databases, NEW env
    PROVE  ReadSoFar(d, q, ts, env, 0, Done(ts, Values, FALSE))
<1>1. \A j \in DOMAIN q.from : ~(j <= 0)
  BY QueryForm
<1>2. Put(q, 0) = {}
  BY <1>1 DEF Put
<1> QED
  BY <1>1, <1>2 DEF ReadSoFar, Done

(* What was put for them agrees with what they mean, ... *)
LEMMA AgreeSoFar ==
    ASSUME TypeOK, NEW d \in Nat, NEW q \in Queries, NEW ts \in Databases,
           NEW env \in Scopes, RealWithin(env), Agree(ts, env), NEW i \in Nat, NEW acc,
           ReadSoFar(d, q, ts, env, i, acc)
    PROVE  Agree(acc.tables, env)
<1> SUFFICES ASSUME NEW n \in Names
             PROVE  /\ env[n] # None => acc.tables[n] = env[n]
                    /\ env[n] = None /\ acc.tables[n] # None =>
                         views[n] # None /\ acc.tables[n] = Means(views[n], real)
  BY DEF Agree
<1>1. CASE n \in Put(q, i)
  <2>1. views[n] # None
    BY <1>1, PutNames
  <2>2. env[n] = None
    BY <2>1 DEF RealWithin
  <2> QED
    BY <1>1, <2>1, <2>2 DEF ReadSoFar
<1>2. CASE n \notin Put(q, i)
  <2>1. acc.tables[n] = ts[n]
    BY <1>2 DEF ReadSoFar, AllNames
  <2> QED
    BY <2>1 DEF Agree
<1> QED
  BY <1>1, <1>2

(* ... and is nothing the next source drops: this is what Undisturbed      *)
(* says.                                                                   *)
LEMMA ClearSoFar ==
    ASSUME TypeOK, NEW d \in Nat, d + 1 <= MaxNesting, NEW q \in Queries, NEW ts \in Databases,
           NEW env \in Scopes, RealWithin(env), FitsIn(d + 1, q, ts, env), NEW i \in Nat, NEW acc,
           ReadSoFar(d, q, ts, env, i, acc), i + 1 \in DOMAIN q.from, HasInner(q, i + 1)
    PROVE  Clear(d, InnerOf(q, i + 1), acc.tables)
<1> DEFINE p == InnerOf(q, i + 1)
<1>1. p \in Queries
  BY InnerOfTyped
<1>2. Clear(d, p, ts)
  BY ClearInner
<1>3. {p} \cup Inner[d][p] \subseteq {p} \cup Inner[MaxNesting][p]
  <2>1. MaxNesting \in Nat /\ d <= MaxNesting
    BY ViewsAssumption
  <2> HIDE DEF p
  <2> QED
    BY <1>1, <2>1, InnerDeeper
<1>4. ASSUME NEW n \in Put(q, i) PROVE n \notin DroppedWithin(p)
  <2>1. PICK j \in DOMAIN q.from : j <= i /\ HasInner(q, j) /\ n = NameOf(q, j)
    BY DEF Put
  <2>2. j < i + 1
    BY <2>1, QueryForm
  <2>3. Undisturbed(q)
    BY DEF FitsIn
  <2> QED
    BY <2>1, <2>2, <2>3 DEF Undisturbed
<1> SUFFICES ASSUME NEW o \in {p} \cup Inner[d][p], IsJoin(o), NEW n \in Dropped(o)
             PROVE  acc.tables[n] = None
  BY DEF Clear
<1>5. o \in Queries
  <2>1. Inner[d][p] \in SUBSET Queries
    <3> HIDE DEF p
    <3> QED
      BY <1>1, InnerForm DEF InnerSets
  <2> QED
    BY <1>1, <2>1
<1>6. n \in AllNames /\ ts[n] = None
  BY <1>2, <1>5, DroppedNames DEF Clear
<1>7. n \in DroppedWithin(p)
  <2> HIDE DEF p
  <2> QED
    BY <1>3 DEF DroppedWithin
<1>8. n \notin Put(q, i)
  BY <1>4, <1>7
<1> QED
  BY <1>6, <1>8 DEF ReadSoFar

(* One more source is read. *)
LEMMA ReadNext ==
    ASSUME TypeOK, NEW d \in Nat, d + 1 <= MaxNesting, AnswersWell(d),
           NEW q \in Queries, NEW ts \in Databases, NEW env \in Scopes, RealWithin(env),
           FitsIn(d + 1, q, ts, env), NEW i \in Nat, NEW acc, ReadSoFar(d, q, ts, env, i, acc),
           i + 1 \in DOMAIN q.from
    PROVE  ReadSoFar(d, q, ts, env, i + 1, Resolve(Exec[d], q, i + 1, acc))
<1> DEFINE k == i + 1
           n == NameOf(q, k)
           m == SourceMeaning(Meaning[d], q, k, env)
           now == acc.tables
<1>1. k \in DOMAIN q.from /\ k \in Nat /\ n \in AllNames
  BY QueryForm
<1>2. now \in Databases /\ Agree(now, env)
  BY AgreeSoFar DEF ReadSoFar, FitsIn
<1>3. HasInner(q, k) => Clear(d, InnerOf(q, k), now)
  BY ClearSoFar
<1>4. PICK then \in Databases : /\ ReadSource(Exec[d], q, k, now) = Done(then, m, FALSE)
                               /\ then[n] = m
                               /\ \A o \in AllNames : o # n \/ ~HasInner(q, k) => then[o] = now[o]
  <2> HIDE DEF k, now
  <2>1. k \in DOMAIN q.from /\ now \in Databases /\ Agree(now, env)
    BY <1>1, <1>2
  <2>2. ReadsWell(d, q, env, k, now)
    BY <2>1, <1>3, ReadSourceWell
  <2> QED
    BY <2>2 DEF ReadsWell
<1>5. m # None /\ m \in SUBSET Values
  <2> HIDE DEF k
  <2> QED
    BY <1>1, SourceKnown
<1>6. Resolve(Exec[d], q, k, acc) = Done(then, acc.rows \cap m, FALSE)
  <2>1. acc.ok
    BY DEF ReadSoFar
  <2> HIDE DEF k, m
  <2> QED
    BY <1>4, <2>1 DEF Resolve, InCommon, Done
<1>7. Put(q, k) = Put(q, i) \cup (IF HasInner(q, k) THEN {n} ELSE {})
  <2>1. \A j \in DOMAIN q.from : j <= k <=> (j <= i \/ j = k)
    BY QueryForm
  <2> HIDE DEF k
  <2> QED
    BY <1>1, <2>1 DEF Put
<1>8. ASSUME NEW o \in AllNames, o \notin Put(q, k) PROVE then[o] = ts[o]
  <2>1. o \notin Put(q, i) /\ (o # n \/ ~HasInner(q, k))
    BY <1>7, <1>8
  <2>2. now[o] = ts[o]
    BY <2>1 DEF ReadSoFar
  <2> QED
    BY <1>4, <2>1, <2>2
<1>9. ASSUME NEW o \in Put(q, k)
      PROVE  then[o] # None /\ (o \in Names => then[o] = Means(views[o], real))
  <2>1. CASE HasInner(q, k) /\ o = n
    <3>1. o \in Names => ~IsDerived(q, k)
      BY <1>1, <2>1, QueryForm
    <3>2. ~IsDerived(q, k) => m = Means(views[n], real)
      <4> HIDE DEF k, n, m
      <4> QED
        BY <1>1, <2>1, InnerMeaning DEF n, m
    <3> QED
      BY <1>4, <1>5, <2>1, <3>1, <3>2
  <2>2. CASE ~(HasInner(q, k) /\ o = n)
    <3>1. o \in Put(q, i)
      BY <1>7, <2>2
    <3>2. o \in AllNames
      BY <3>1, PutNames
    <3>3. then[o] = now[o]
      BY <1>4, <2>2, <3>2
    <3>4. now[o] # None /\ (o \in Names => now[o] = Means(views[o], real))
      BY <3>1 DEF ReadSoFar
    <3> QED
      BY <3>3, <3>4
  <2> QED
    BY <2>1, <2>2
<1>10. acc.rows \cap m = {v \in Values : \A j \in DOMAIN q.from :
                                          j <= k => v \in SourceMeaning(Meaning[d], q, j, env)}
  <2>1. \A j \in DOMAIN q.from : j <= k <=> (j <= i \/ j = k)
    BY QueryForm
  <2>2. acc.rows = {v \in Values : \A j \in DOMAIN q.from :
                                     j <= i => v \in SourceMeaning(Meaning[d], q, j, env)}
    BY DEF ReadSoFar
  <2> HIDE DEF k
  <2> QED
    BY <1>1, <2>1, <2>2
<1> HIDE DEF k, m, n, now
<1>11. ReadSoFar(d, q, ts, env, k, Done(then, acc.rows \cap m, FALSE))
  BY <1>8, <1>9, <1>10 DEF ReadSoFar, Done
<1> QED
  BY <1>6, <1>11 DEF k

(* All of them are, as a recursion over their number. *)
LEMMA ReadAll ==
    ASSUME TypeOK, NEW d \in Nat, d + 1 <= MaxNesting, AnswersWell(d),
           NEW q \in Queries, NEW ts \in Databases, NEW env \in Scopes, RealWithin(env),
           FitsIn(d + 1, q, ts, env)
    PROVE  ReadSoFar(d, q, ts, env, Len(q.from), Resolved(Exec[d], q, ts)[Len(q.from)])
<1> DEFINE r == Resolved(Exec[d], q, ts)
           Good == {i \in Nat : i <= Len(q.from) => ReadSoFar(d, q, ts, env, i, r[i])}
<1>1. Exec[d] \in Runs
  BY ExecForm
<1>2. r[0] = Done(ts, Values, FALSE) /\ \A i \in DOMAIN q.from : r[i] = Resolve(Exec[d], q, i, r[i - 1])
  BY <1>1, ResolvedForm
<1> HIDE DEF r
<1>3. 0 \in Good
  BY <1>2, ReadFirst
<1>4. ASSUME NEW i \in Nat, i \in Good PROVE i + 1 \in Good
  <2> SUFFICES ASSUME i + 1 <= Len(q.from) PROVE ReadSoFar(d, q, ts, env, i + 1, r[i + 1])
    OBVIOUS
  <2>1. i + 1 \in DOMAIN q.from /\ i <= Len(q.from) /\ (i + 1) - 1 = i
    BY QueryForm
  <2>2. r[i + 1] = Resolve(Exec[d], q, i + 1, r[i])
    BY <1>2, <2>1
  <2>3. ReadSoFar(d, q, ts, env, i, r[i])
    BY <1>4, <2>1
  <2>4. ReadSoFar(d, q, ts, env, i + 1, Resolve(Exec[d], q, i + 1, r[i]))
    <3> HIDE DEF Good
    <3> QED
      BY <2>1, <2>3, ReadNext
  <2> QED
    BY <2>2, <2>4
<1>5. Nat \subseteq Good
  <2> HIDE DEF Good
  <2> QED
    BY <1>3, <1>4, NatSetInduction
<1>6. Len(q.from) \in Nat /\ Len(q.from) <= Len(q.from)
  BY QueryForm
<1> QED
  BY <1>5, <1>6 DEF r

(* A join leaves what it should: it still finds every source, and drops    *)
(* each that was put.                                                      *)
LEMMA JoinWell ==
    ASSUME TypeOK, NEW d \in Nat, d + 1 <= MaxNesting, AnswersWell(d),
           NEW q \in Queries, IsJoin(q), NEW ts \in Databases, NEW env \in Scopes, RealWithin(env),
           FitsIn(d + 1, q, ts, env)
    PROVE  ExecJoin(Exec[d], q, ts) = Answer(d + 1, q, ts, env)
<1> DEFINE len == Len(q.from)
           r == Resolved(Exec[d], q, ts)[len]
           rows == Meaning[d + 1][q][env]
<1>1. ReadSoFar(d, q, ts, env, len, r)
  BY ReadAll
<1>2. len \in Nat /\ \A i \in DOMAIN q.from : i <= len
  BY QueryForm
<1>3. ~q.fails /\ rows = {v \in Values : \A i \in DOMAIN q.from : v \in SourceMeaning(Meaning[d], q, i, env)}
  BY SourceKnown
<1>4. r.rows = rows
  <2> HIDE DEF r, len, rows
  <2> QED
    BY <1>1, <1>2, <1>3 DEF ReadSoFar
<1>5. \A n \in Put(q, len) : r.tables[n] # None
  BY <1>1 DEF ReadSoFar
<1>6. \A n \in AllNames : n \notin Put(q, len) => r.tables[n] = ts[n]
  BY <1>1 DEF ReadSoFar
<1>7. r.ok /\ r.tables \in Databases
  BY <1>1 DEF ReadSoFar
<1> HIDE DEF r
<1>8. ASSUME NEW i \in DOMAIN q.from PROVE r.tables[NameOf(q, i)] # None
  <2>1. CASE HasInner(q, i)
    <3>1. NameOf(q, i) \in Put(q, len)
      BY <1>2, <2>1 DEF Put
    <3> QED
      BY <1>5, <3>1
  <2>2. CASE ~HasInner(q, i)
    <3> DEFINE n == q.from[i].name
    <3>1. ~IsDerived(q, i) /\ ~IsView(n)
      BY <2>2 DEF HasInner
    <3>2. NameOf(q, i) = n /\ n \in Names /\ n \in AllNames
      BY <3>1, QueryForm
    <3>3. env[n] # None
      <4>1. SourceMeaning(Meaning[d], q, i, env) # None
        BY SourceKnown
      <4> QED
        BY <3>1, <3>2, <4>1 DEF SourceMeaning, IsView
    <3>4. ts[n] # None
      BY <3>2, <3>3 DEF FitsIn, Agree
    <3> HIDE DEF n
    <3> QED
      BY <1>5, <1>6, <3>2, <3>4
  <2> QED
    BY <2>1, <2>2
<1>9. ~ \E n \in Used(q) : r.tables[n] = None
  BY <1>8 DEF Used
<1>10. Without(r.tables, Dropped(q)) = ts
  <2>1. ASSUME NEW n \in AllNames
        PROVE  IF n \in Dropped(q) THEN ts[n] = None ELSE r.tables[n] = ts[n]
    <3>1. CASE n \in Dropped(q)
      BY <3>1 DEF FitsIn, Clear
    <3>2. CASE n \notin Dropped(q)
      <4>1. n \notin Put(q, len)
        <5> HIDE DEF len
        <5> QED
          BY <1>2, <3>2, PutNames
      <4> QED
        BY <1>6, <3>2, <4>1
    <3> QED
      BY <3>1, <3>2
  <2> QED
    BY <1>7, <2>1, WithoutAt
<1>11. ExecJoin(Exec[d], q, ts) =
         IF ~r.ok \/ q.fails \/ \E n \in Used(q) : r.tables[n] = None THEN Fail(r.tables)
         ELSE Done(Without(r.tables, Dropped(q)), r.rows, r.rows = {})
  BY DEF ExecJoin, r
<1>12. ExecJoin(Exec[d], q, ts) = Done(ts, rows, rows = {})
  <2> HIDE DEF rows
  <2> QED
    BY <1>3, <1>4, <1>7, <1>9, <1>10, <1>11
<1>13. (IsJoin(q) /\ rows = {}) = (rows = {})
  OBVIOUS
<1> QED
  BY <1>12, <1>13 DEF Answer

(* One level more of SELECTs ... *)
LEMMA AnswersNext ==
    ASSUME TypeOK, NEW d \in Nat, d + 1 <= MaxNesting, AnswersWell(d)
    PROVE  AnswersWell(d + 1)
<1> SUFFICES ASSUME NEW q \in Queries, NEW ts \in Databases, NEW env \in Scopes,
                    RealWithin(env), FitsIn(d + 1, q, ts, env)
             PROVE  Exec[d + 1][q][ts] = Answer(d + 1, q, ts, env)
  BY DEF AnswersWell
<1>1. CASE IsJoin(q)
  <2>1. Exec[d + 1][q][ts] = ExecJoin(Exec[d], q, ts)
    BY <1>1, ExecForm
  <2> QED
    BY <1>1, <2>1, JoinWell
<1>2. CASE ~IsJoin(q)
  <2>1. Exec[d + 1][q][ts] = ExecSingle(Exec[d], q, ts)
    BY <1>2, ExecForm
  <2> QED
    BY <1>2, <2>1, SingleWell
<1> QED
  BY <1>1, <1>2

(* ... and all the levels there are. *)
LEMMA AnswersAlways ==
    ASSUME TypeOK
    PROVE  AnswersWell(MaxNesting)
<1> DEFINE Good == {d \in Nat : d <= MaxNesting => AnswersWell(d)}
<1>1. MaxNesting \in Nat
  BY ViewsAssumption
<1>2. 0 \in Good
  <2>1. \A q \in Queries, env \in Scopes : Meaning[0][q][env] = None
    BY MeaningForm
  <2> QED
    BY <2>1 DEF AnswersWell, FitsIn
<1>3. ASSUME NEW d \in Nat, d \in Good PROVE d + 1 \in Good
  <2> SUFFICES ASSUME d + 1 <= MaxNesting PROVE AnswersWell(d + 1)
    OBVIOUS
  <2>1. d <= MaxNesting
    BY <1>1
  <2> QED
    BY <1>3, <2>1, AnswersNext
<1>4. Nat \subseteq Good
  <2> HIDE DEF Good
  <2> QED
    BY <1>2, <1>3, NatSetInduction
<1> QED
  BY <1>1, <1>4

-----------------------------------------------------------------------------
(* Statements with CTEs. *)

(* A statement is CTEs, with names, and a query. *)
LEMMA StatementForm ==
    ASSUME NEW s \in Questions
    PROVE  /\ Len(s.ctes) \in Nat /\ DOMAIN s.ctes = 1 .. Len(s.ctes) /\ s.main \in Queries
           /\ \A i \in DOMAIN s.ctes : s.ctes[i].alias \in Names /\ s.ctes[i].query \in Queries
<1>1. s.ctes \in Seq([alias : Names, query : Queries]) /\ s.main \in Queries
  BY ViewsAssumption
<1>2. Len(s.ctes) \in Nat /\ DOMAIN s.ctes = 1 .. Len(s.ctes)
  BY <1>1
<1>3. ASSUME NEW i \in DOMAIN s.ctes
      PROVE  s.ctes[i].alias \in Names /\ s.ctes[i].query \in Queries
  <2> DEFINE T == [alias : Names, query : Queries]
  <2>1. s.ctes \in Seq(T)
    BY <1>1
  <2>2. s.ctes[i] \in T
    <3> HIDE DEF T
    <3> QED
      BY <1>2, <2>1
  <2> QED
    BY <2>2
<1> QED
  BY <1>1, <1>2, <1>3

(* A SELECT has a result. *)
LEMMA ExecSelectTyped ==
    ASSUME TypeOK, NEW q \in Queries, NEW ts \in Databases
    PROVE  ExecSelect(q, ts) \in Results
BY ViewsAssumption, ExecForm DEF ExecSelect, Runs

(* One CTE more has a result. *)
LEMMA WithCteTyped ==
    ASSUME TypeOK, NEW cte, cte.alias \in Names, cte.query \in Queries, NEW acc \in Results
    PROVE  WithCte(cte, acc) \in Results
<1> DEFINE r == ExecSelect(cte.query, acc.tables)
<1>1. acc.tables \in Databases
  BY DEF Results
<1>2. r \in Results
  BY <1>1, ExecSelectTyped
<1> HIDE DEF r
<1>3. r.tables \in Databases /\ r.rows \in SUBSET Values
  BY <1>2 DEF Results
<1>4. Fail(r.tables) \in Results /\ Done(r.tables, {}, FALSE) \in Results
  BY <1>3, FailTyped, DoneTyped
<1>5. Done([r.tables EXCEPT ![cte.alias] = r.rows], {}, FALSE) \in Results
  <2>1. [r.tables EXCEPT ![cte.alias] = r.rows] \in Databases
    BY <1>3 DEF Databases, Content
  <2> QED
    BY <2>1, DoneTyped
<1> QED
  BY <1>4, <1>5 DEF WithCte, r

(* The CTEs of a statement, as a recursion over their number. *)
LEMMA WithCtesForm ==
    ASSUME TypeOK, NEW s \in Questions
    PROVE  /\ WithCtes(s) \in [0 .. Len(s.ctes) -> Results]
           /\ WithCtes(s)[0] = Done(tables, {}, FALSE)
           /\ \A i \in DOMAIN s.ctes : WithCtes(s)[i] = WithCte(s.ctes[i], WithCtes(s)[i - 1])
<1> DEFINE len == Len(s.ctes)
           start == Done(tables, {}, FALSE)
           step == [p \in Nat \X Results |->
                      IF p[1] + 1 \in DOMAIN s.ctes THEN WithCte(s.ctes[p[1] + 1], p[2]) ELSE p[2]]
           rule(acc) == [i \in 0 .. len |-> IF i = 0 THEN start ELSE WithCte(s.ctes[i], acc[i - 1])]
<1>1. len \in Nat /\ DOMAIN s.ctes = 1 .. len
  BY StatementForm
<1>2. start \in Results
  BY DoneTyped DEF TypeOK
<1>3. step \in Steps(Results)
  <2>1. ASSUME NEW k \in Nat, NEW acc \in Results, k + 1 \in DOMAIN s.ctes
        PROVE  WithCte(s.ctes[k + 1], acc) \in Results
    BY <2>1, WithCteTyped, StatementForm
  <2> QED
    BY <2>1 DEF Steps
<1> HIDE DEF start, len
<1>4. PICK f : f \in [Nat -> Results] /\ f[0] = start /\ \A n \in Nat : f[n + 1] = step[<<n, f[n]>>]
  <2> HIDE DEF step
  <2>1. \E f : Iterates(f, Results, start, step)
    BY <1>2, <1>3, Recursion
  <2> QED
    BY <2>1 DEF Iterates
<1> DEFINE g == [i \in 0 .. len |-> f[i]]
<1>5. ASSUME NEW i \in 0 .. len, i # 0 PROVE f[i] = WithCte(s.ctes[i], f[i - 1])
  <2>1. i - 1 \in Nat /\ (i - 1) + 1 = i /\ i \in DOMAIN s.ctes
    BY <1>1, <1>5
  <2>2. f[(i - 1) + 1] = step[<<i - 1, f[i - 1]>>]
    <3> HIDE DEF step
    <3> QED
      BY <1>4, <2>1
  <2>3. <<i - 1, f[i - 1]>> \in Nat \X Results
    BY <1>4, <2>1
  <2> QED
    BY <2>1, <2>2, <2>3
<1>6. g = rule(g)
  <2>1. ASSUME NEW i \in 0 .. len
        PROVE  f[i] = IF i = 0 THEN start ELSE WithCte(s.ctes[i], g[i - 1])
    <3>1. CASE i = 0
      BY <1>4, <3>1
    <3>2. CASE i # 0
      <4>1. i - 1 \in 0 .. len
        BY <1>1, <3>2
      <4>2. g[i - 1] = f[i - 1]
        BY <4>1
      <4> QED
        BY <1>5, <3>2, <4>2
    <3> QED
      BY <3>1, <3>2
  <2> QED
    BY <2>1
<1>7. WithCtes(s) = CHOOSE acc : acc = rule(acc)
  BY DEF WithCtes, start, len
<1> DEFINE r == WithCtes(s)
<1>8. r = rule(r)
  <2> HIDE DEF rule, g
  <2> QED
    BY <1>6, <1>7
<1>9. r[0] = start /\ \A i \in DOMAIN s.ctes : r[i] = WithCte(s.ctes[i], r[i - 1])
  <2> HIDE DEF r
  <2>1. 0 \in 0 .. len /\ \A i \in DOMAIN s.ctes : i \in 0 .. len /\ i # 0
    BY <1>1
  <2>2. r = [i \in 0 .. len |-> IF i = 0 THEN start ELSE WithCte(s.ctes[i], r[i - 1])]
    BY <1>8
  <2> QED
    BY <2>1, <2>2
<1> DEFINE Good == {i \in Nat : i \in 0 .. len => r[i] \in Results}
<1>10. Nat \subseteq Good
  <2> HIDE DEF r
  <2>1. 0 \in Good
    BY <1>2, <1>9
  <2>2. ASSUME NEW i \in Nat, i \in Good PROVE i + 1 \in Good
    <3> SUFFICES ASSUME i + 1 \in 0 .. len PROVE r[i + 1] \in Results
      OBVIOUS
    <3>1. i \in 0 .. len /\ i + 1 \in DOMAIN s.ctes /\ (i + 1) - 1 = i
      BY <1>1
    <3>2. r[i] \in Results
      BY <2>2, <3>1
    <3>3. r[i + 1] = WithCte(s.ctes[i + 1], r[i])
      BY <1>9, <3>1
    <3> QED
      BY <3>1, <3>2, <3>3, StatementForm, WithCteTyped
  <2> HIDE DEF Good
  <2> QED
    BY <2>1, <2>2, NatSetInduction
<1>11. r \in [0 .. len -> Results]
  <2> HIDE DEF r
  <2>1. \A i \in 0 .. len : r[i] \in Results
    BY <1>1, <1>10
  <2>2. r = [i \in 0 .. len |-> IF i = 0 THEN start ELSE WithCte(s.ctes[i], r[i - 1])]
    BY <1>8
  <2> QED
    BY <2>1, <2>2
<1> QED
  BY <1>9, <1>11 DEF len, start

(* env with one CTE more. *)
Bound(cte, env) == [env EXCEPT ![cte.alias] = Means(cte.query, env)]

(* It is a scope. *)
LEMMA BoundTyped ==
    ASSUME TypeOK, NEW cte, cte.alias \in Names, cte.query \in Queries, NEW env \in Scopes
    PROVE  Bound(cte, env) \in Scopes
<1>1. Means(cte.query, env) \in Content
  BY ViewsAssumption, MeaningTyped DEF Means
<1> QED
  BY <1>1 DEF Bound, Scopes

(* The scopes of a statement's CTEs, as a recursion over their number. *)
LEMMA ScopeForm ==
    ASSUME TypeOK, NEW s \in Questions
    PROVE  /\ Scope(s) \in [0 .. Len(s.ctes) -> Scopes]
           /\ Scope(s)[0] = real
           /\ \A i \in DOMAIN s.ctes : Scope(s)[i] = Bound(s.ctes[i], Scope(s)[i - 1])
<1> DEFINE len == Len(s.ctes)
           start == real
           step == [p \in Nat \X Scopes |->
                      IF p[1] + 1 \in DOMAIN s.ctes THEN Bound(s.ctes[p[1] + 1], p[2]) ELSE p[2]]
           rule(env) == [i \in 0 .. len |-> IF i = 0 THEN start ELSE Bound(s.ctes[i], env[i - 1])]
<1>1. len \in Nat /\ DOMAIN s.ctes = 1 .. len
  BY StatementForm
<1>2. start \in Scopes
  BY RealTyped
<1>3. step \in Steps(Scopes)
  <2>1. ASSUME NEW k \in Nat, NEW env \in Scopes, k + 1 \in DOMAIN s.ctes
        PROVE  Bound(s.ctes[k + 1], env) \in Scopes
    BY <2>1, BoundTyped, StatementForm
  <2> QED
    BY <2>1 DEF Steps
<1> HIDE DEF start, len
<1>4. PICK f : f \in [Nat -> Scopes] /\ f[0] = start /\ \A n \in Nat : f[n + 1] = step[<<n, f[n]>>]
  <2> HIDE DEF step
  <2>1. \E f : Iterates(f, Scopes, start, step)
    BY <1>2, <1>3, Recursion
  <2> QED
    BY <2>1 DEF Iterates
<1> DEFINE g == [i \in 0 .. len |-> f[i]]
<1>5. ASSUME NEW i \in 0 .. len, i # 0 PROVE f[i] = Bound(s.ctes[i], f[i - 1])
  <2>1. i - 1 \in Nat /\ (i - 1) + 1 = i /\ i \in DOMAIN s.ctes
    BY <1>1, <1>5
  <2>2. f[(i - 1) + 1] = step[<<i - 1, f[i - 1]>>]
    <3> HIDE DEF step
    <3> QED
      BY <1>4, <2>1
  <2>3. <<i - 1, f[i - 1]>> \in Nat \X Scopes
    BY <1>4, <2>1
  <2> QED
    BY <2>1, <2>2, <2>3
<1>6. g = rule(g)
  <2>1. ASSUME NEW i \in 0 .. len
        PROVE  f[i] = IF i = 0 THEN start ELSE Bound(s.ctes[i], g[i - 1])
    <3>1. CASE i = 0
      BY <1>4, <3>1
    <3>2. CASE i # 0
      <4>1. i - 1 \in 0 .. len
        BY <1>1, <3>2
      <4>2. g[i - 1] = f[i - 1]
        BY <4>1
      <4> QED
        BY <1>5, <3>2, <4>2
    <3> QED
      BY <3>1, <3>2
  <2> QED
    BY <2>1
<1>7. Scope(s) = CHOOSE env : env = rule(env)
  BY DEF Scope, start, Bound, len
<1> DEFINE r == Scope(s)
<1>8. r = rule(r)
  <2> HIDE DEF rule, g
  <2> QED
    BY <1>6, <1>7
<1>9. r[0] = start /\ \A i \in DOMAIN s.ctes : r[i] = Bound(s.ctes[i], r[i - 1])
  <2> HIDE DEF r
  <2>1. 0 \in 0 .. len /\ \A i \in DOMAIN s.ctes : i \in 0 .. len /\ i # 0
    BY <1>1
  <2>2. r = [i \in 0 .. len |-> IF i = 0 THEN start ELSE Bound(s.ctes[i], r[i - 1])]
    BY <1>8
  <2> QED
    BY <2>1, <2>2
<1> DEFINE Good == {i \in Nat : i \in 0 .. len => r[i] \in Scopes}
<1>10. Nat \subseteq Good
  <2> HIDE DEF r
  <2>1. 0 \in Good
    BY <1>2, <1>9
  <2>2. ASSUME NEW i \in Nat, i \in Good PROVE i + 1 \in Good
    <3> SUFFICES ASSUME i + 1 \in 0 .. len PROVE r[i + 1] \in Scopes
      OBVIOUS
    <3>1. i \in 0 .. len /\ i + 1 \in DOMAIN s.ctes /\ (i + 1) - 1 = i
      BY <1>1
    <3>2. r[i] \in Scopes
      BY <2>2, <3>1
    <3>3. r[i + 1] = Bound(s.ctes[i + 1], r[i])
      BY <1>9, <3>1
    <3> QED
      BY <3>1, <3>2, <3>3, StatementForm, BoundTyped
  <2> HIDE DEF Good
  <2> QED
    BY <2>1, <2>2, NatSetInduction
<1>11. r \in [0 .. len -> Scopes]
  <2> HIDE DEF r
  <2>1. \A i \in 0 .. len : r[i] \in Scopes
    BY <1>1, <1>10
  <2>2. r = [i \in 0 .. len |-> IF i = 0 THEN start ELSE Bound(s.ctes[i], r[i - 1])]
    BY <1>8
  <2> QED
    BY <2>1, <2>2
<1> QED
  BY <1>9, <1>11 DEF len, start

(* No name is both a table that was created and a view. *)
Unshadowed == \A n \in Names : real[n] # None => views[n] = None

(* The tables are those of env and no others. *)
Holds(ts, env) ==
    /\ \A n \in Names : ts[n] = env[n]
    /\ \A n \in ToSet(Temps) : ts[n] = None

(* A safe SELECT on the tables of its scope leaves them as they were and   *)
(* answers what it means.                                                  *)
LEMMA SelectWell ==
    ASSUME TypeOK, NEW q \in Queries, NEW ts \in Databases, NEW env \in Scopes,
           RealWithin(env), Holds(ts, env), SafeQuery(q, env)
    PROVE  /\ ExecSelect(q, ts).ok /\ ExecSelect(q, ts).tables = ts
           /\ ExecSelect(q, ts).rows = Means(q, env) /\ Means(q, env) \in SUBSET Values
<1>1. MaxNesting \in Nat
  BY ViewsAssumption
<1>2. Agree(ts, env)
  BY DEF Agree, Holds
<1>3. Clear(MaxNesting, q, ts)
  <2> SUFFICES ASSUME NEW p \in {q} \cup Inner[MaxNesting][q], NEW n \in Dropped(p)
               PROVE  ts[n] = None
    BY DEF Clear
  <2>1. CASE IsView(n)
    BY <2>1 DEF IsView, Holds, RealWithin
  <2>2. CASE n \in ToSet(Temps)
    BY <2>2 DEF Holds
  <2> QED
    BY <2>1, <2>2 DEF Dropped
<1>4. FitsIn(MaxNesting, q, ts, env)
  BY <1>2, <1>3 DEF FitsIn, SafeQuery, Means
<1>5. ExecSelect(q, ts) = Answer(MaxNesting, q, ts, env)
  BY <1>4, AnswersAlways DEF AnswersWell, ExecSelect
<1>6. Means(q, env) \in SUBSET Values
  BY <1>1, MeaningTyped, ContentRows DEF SafeQuery, Means
<1> QED
  BY <1>5, <1>6 DEF Answer, Done, Means

(* The names of the first i CTEs. *)
Aliases(s, i) == {s.ctes[j].alias : j \in {k \in DOMAIN s.ctes : k <= i}}
(* After the first i CTEs the tables are those of their scope. *)
GivenSoFar(s, i) ==
    /\ WithCtes(s)[i].ok
    /\ Holds(WithCtes(s)[i].tables, Scope(s)[i]) /\ RealWithin(Scope(s)[i])
    /\ \A n \in AllNames : n \notin Aliases(s, i) => WithCtes(s)[i].tables[n] = tables[n]

(* With no CTE they are those that were created. *)
LEMMA GivenFirst ==
    ASSUME TypeOK, LeavesNoTrace, Unshadowed, NEW s \in Questions
    PROVE  GivenSoFar(s, 0)
<1>1. WithCtes(s)[0] = Done(tables, {}, FALSE) /\ Scope(s)[0] = real
  BY WithCtesForm, ScopeForm
<1> QED
  BY <1>1 DEF GivenSoFar, Holds, RealWithin, LeavesNoTrace, Unshadowed, Done

(* The next CTE's query answers what it means. *)
LEMMA CteWell ==
    ASSUME TypeOK, NEW s \in Questions, Safe(s),
           NEW i \in Nat, i + 1 \in DOMAIN s.ctes, GivenSoFar(s, i)
    PROVE  /\ WithCtes(s)[i].tables \in Databases /\ Scope(s)[i] \in Scopes
           /\ ExecSelect(s.ctes[i + 1].query, WithCtes(s)[i].tables).ok
           /\ ExecSelect(s.ctes[i + 1].query, WithCtes(s)[i].tables).tables = WithCtes(s)[i].tables
           /\ ExecSelect(s.ctes[i + 1].query, WithCtes(s)[i].tables).rows
                = Means(s.ctes[i + 1].query, Scope(s)[i])
           /\ Means(s.ctes[i + 1].query, Scope(s)[i]) \in SUBSET Values
           /\ Means(s.ctes[i + 1].query, Scope(s)[i]) # {}
<1> DEFINE cte == s.ctes[i + 1]
           ts == WithCtes(s)[i].tables
           env == Scope(s)[i]
<1>1. i \in 0 .. Len(s.ctes) /\ (i + 1) - 1 = i /\ cte.alias \in Names /\ cte.query \in Queries
  BY StatementForm
<1>2. ts \in Databases /\ env \in Scopes
  BY <1>1, WithCtesForm, ScopeForm DEF Results
<1>3. SafeQuery(cte.query, env) /\ Scope(s)[i + 1][cte.alias] # {}
  BY <1>1 DEF Safe
<1>4. Scope(s)[i + 1] = [env EXCEPT ![cte.alias] = Means(cte.query, env)]
  BY <1>1, ScopeForm DEF Bound
<1>5. Means(cte.query, env) # {}
  <2> HIDE DEF cte, env
  <2> QED
    BY <1>1, <1>2, <1>3, <1>4 DEF Scopes
<1>6. Holds(ts, env) /\ RealWithin(env)
  BY DEF GivenSoFar
<1>7. /\ ExecSelect(cte.query, ts).ok /\ ExecSelect(cte.query, ts).tables = ts
      /\ ExecSelect(cte.query, ts).rows = Means(cte.query, env) /\ Means(cte.query, env) \in SUBSET Values
  <2> HIDE DEF cte, env, ts
  <2> QED
    BY <1>1, <1>2, <1>3, <1>6, SelectWell
<1> QED
  BY <1>2, <1>5, <1>7

(* So they are with one CTE more ... *)
LEMMA GivenNext ==
    ASSUME TypeOK, LeavesNoTrace, NEW s \in Questions, Safe(s),
           NEW i \in Nat, i + 1 \in DOMAIN s.ctes, GivenSoFar(s, i)
    PROVE  GivenSoFar(s, i + 1)
<1> DEFINE cte == s.ctes[i + 1]
           acc == WithCtes(s)[i]
           env == Scope(s)[i]
           m == Means(cte.query, env)
           ts == [acc.tables EXCEPT ![cte.alias] = m]
<1>1. i \in 0 .. Len(s.ctes) /\ (i + 1) - 1 = i /\ cte.alias \in Names /\ cte.query \in Queries
  BY StatementForm
<1>2. /\ acc.tables \in Databases /\ env \in Scopes
      /\ ExecSelect(cte.query, acc.tables).ok /\ ExecSelect(cte.query, acc.tables).tables = acc.tables
      /\ ExecSelect(cte.query, acc.tables).rows = m /\ m # {}
  BY CteWell
<1>3. WithCtes(s)[i + 1] = WithCte(cte, acc)
  BY <1>1, WithCtesForm
<1>4. Scope(s)[i + 1] = [env EXCEPT ![cte.alias] = m]
  BY <1>1, ScopeForm DEF Bound
<1>5. real[cte.alias] = None /\ views[cte.alias] = None /\ cte.alias \notin ToSet(Temps)
  <2>1. tables[cte.alias] = None /\ views[cte.alias] = None
    BY DEF Safe, FreshName
  <2>2. real[cte.alias] = None
    BY <1>1, <2>1 DEF LeavesNoTrace
  <2>3. ToSet(Temps) \cap Names = {}
    BY ViewsAssumption
  <2> QED
    BY <1>1, <2>1, <2>2, <2>3
<1>6. acc.ok /\ Holds(acc.tables, env) /\ RealWithin(env)
  BY DEF GivenSoFar
<1>7. \A n \in AllNames : n \notin Aliases(s, i) => acc.tables[n] = tables[n]
  BY DEF GivenSoFar
<1>8. Aliases(s, i + 1) = Aliases(s, i) \cup {cte.alias}
  <2>1. \A j \in DOMAIN s.ctes : j <= i + 1 <=> (j <= i \/ j = i + 1)
    BY StatementForm
  <2> QED
    BY <2>1 DEF Aliases
<1> HIDE DEF acc, cte, env, m
<1>9. WithCtes(s)[i + 1] = Done(ts, {}, FALSE)
  BY <1>2, <1>3, <1>6 DEF WithCte
<1>10. \A n \in AllNames : ts[n] = IF n = cte.alias THEN m ELSE acc.tables[n]
  BY <1>2 DEF Databases
<1>11. \A n \in Names : Scope(s)[i + 1][n] = IF n = cte.alias THEN m ELSE env[n]
  BY <1>2, <1>4 DEF Scopes
<1>12. \A n \in Names : n \in AllNames
  BY DEF AllNames
<1>13. \A n \in ToSet(Temps) : n \in AllNames
  BY DEF AllNames
<1> HIDE DEF ts
<1>14. Holds(ts, Scope(s)[i + 1])
  BY <1>5, <1>6, <1>10, <1>11, <1>12, <1>13 DEF Holds
<1>15. RealWithin(Scope(s)[i + 1])
  BY <1>5, <1>6, <1>11 DEF RealWithin
<1>16. \A n \in AllNames : n \notin Aliases(s, i + 1) => ts[n] = tables[n]
  BY <1>7, <1>8, <1>10
<1> QED
  BY <1>9, <1>14, <1>15, <1>16 DEF GivenSoFar, Done

(* ... and with all of them. *)
LEMMA GivenAll ==
    ASSUME TypeOK, LeavesNoTrace, Unshadowed, NEW s \in Questions, Safe(s)
    PROVE  \A i \in 0 .. Len(s.ctes) : GivenSoFar(s, i)
<1> DEFINE Good == {i \in Nat : i <= Len(s.ctes) => GivenSoFar(s, i)}
<1>1. 0 \in Good
  BY GivenFirst
<1>2. ASSUME NEW i \in Nat, i \in Good PROVE i + 1 \in Good
  <2> SUFFICES ASSUME i + 1 <= Len(s.ctes) PROVE GivenSoFar(s, i + 1)
    OBVIOUS
  <2>1. i + 1 \in DOMAIN s.ctes /\ i <= Len(s.ctes)
    BY StatementForm
  <2> QED
    BY <1>2, <2>1, GivenNext
<1>3. Nat \subseteq Good
  <2> HIDE DEF Good
  <2> QED
    BY <1>1, <1>2, NatSetInduction
<1> QED
  BY <1>3, StatementForm

(* Every CTE got a table, so all of them are dropped in the end. *)
LEMMA GivenAliases ==
    ASSUME TypeOK, LeavesNoTrace, Unshadowed, NEW s \in Questions, Safe(s)
    PROVE  Given(s) = {s.ctes[i].alias : i \in DOMAIN s.ctes}
<1>1. ASSUME NEW j \in DOMAIN s.ctes
      PROVE  ExecSelect(s.ctes[j].query, WithCtes(s)[j - 1].tables).rows # {}
  <2> DEFINE i == j - 1
  <2>1. i \in Nat /\ i \in 0 .. Len(s.ctes) /\ i + 1 = j
    BY StatementForm
  <2>2. GivenSoFar(s, i)
    <3> HIDE DEF i
    <3> QED
      BY <2>1, GivenAll
  <2>3. ExecSelect(s.ctes[i + 1].query, WithCtes(s)[i].tables).rows # {}
    <3>1. i + 1 \in DOMAIN s.ctes
      BY <2>1
    <3> HIDE DEF i
    <3>2. /\ ExecSelect(s.ctes[i + 1].query, WithCtes(s)[i].tables).rows
               = Means(s.ctes[i + 1].query, Scope(s)[i])
          /\ Means(s.ctes[i + 1].query, Scope(s)[i]) # {}
      BY <2>1, <2>2, <3>1, CteWell
    <3> QED
      BY <3>2
  <2> QED
    BY <2>1, <2>3
<1>2. {j \in DOMAIN s.ctes : ExecSelect(s.ctes[j].query, WithCtes(s)[j - 1].tables).rows # {}}
      = DOMAIN s.ctes
  BY <1>1
<1> QED
  BY <1>2 DEF Given

(* A statement that avoids what is known to go wrong leaves the Database   *)
(* as it was and answers what it means.                                    *)
LEMMA SafeSelect ==
    ASSUME TypeOK, LeavesNoTrace, Unshadowed, NEW s \in Questions, Safe(s)
    PROVE  /\ ExecCte(s).ok /\ ExecCte(s).tables = tables
           /\ ExecCte(s).rows = StatementMeaning(s)
<1> DEFINE len == Len(s.ctes)
           ctes == WithCtes(s)[len]
           env == Scope(s)[len]
           r == ExecSelect(s.main, ctes.tables)
<1>1. len \in Nat /\ len \in 0 .. len /\ s.main \in Queries /\ \A i \in DOMAIN s.ctes : i <= len
  BY StatementForm
<1>2. ctes.tables \in Databases /\ env \in Scopes
  BY <1>1, WithCtesForm, ScopeForm DEF Results
<1>3. GivenSoFar(s, len)
  BY <1>1, GivenAll
<1>4. ctes.ok /\ Holds(ctes.tables, env) /\ RealWithin(env)
  BY <1>3 DEF GivenSoFar
<1>5. SafeQuery(s.main, env)
  BY DEF Safe
<1>6. \A n \in AllNames : n \notin Given(s) => ctes.tables[n] = tables[n]
  <2>1. Aliases(s, len) = Given(s)
    BY <1>1, GivenAliases DEF Aliases
  <2> QED
    BY <1>3, <2>1 DEF GivenSoFar
<1>7. r.ok /\ r.tables = ctes.tables /\ r.rows = Means(s.main, env)
  <2> HIDE DEF ctes, env
  <2> QED
    BY <1>1, <1>2, <1>4, <1>5, SelectWell
<1>8. r \in Results
  BY <1>1, <1>2, ExecSelectTyped
<1>9. \A n \in Given(s) : tables[n] = None
  <2>1. Given(s) = {s.ctes[i].alias : i \in DOMAIN s.ctes}
    BY GivenAliases
  <2>2. \A i \in DOMAIN s.ctes : tables[s.ctes[i].alias] = None
    BY DEF Safe, FreshName
  <2> QED
    BY <2>1, <2>2
<1>10. ExecCte(s) = [r EXCEPT !.tables = Without(@, Given(s))]
  <2> HIDE DEF r
  <2> QED
    BY <1>4 DEF ExecCte, r
<1>11. StatementMeaning(s) = Means(s.main, env)
  BY DEF StatementMeaning
<1>12. Without(ctes.tables, Given(s)) = tables
  <2>1. tables \in Databases
    BY DEF TypeOK
  <2>2. \A n \in AllNames : IF n \in Given(s) THEN tables[n] = None ELSE ctes.tables[n] = tables[n]
    BY <1>6, <1>9
  <2> HIDE DEF ctes
  <2> QED
    BY <1>2, <2>1, <2>2, WithoutAt
<1> HIDE DEF r, ctes, env
<1> QED
  BY <1>7, <1>8, <1>10, <1>11, <1>12 DEF Results

(* Any statement leaves tables and rows. *)
LEMMA ExecCteTyped ==
    ASSUME TypeOK, NEW s \in Questions
    PROVE  ExecCte(s) \in Results
<1> DEFINE ctes == WithCtes(s)[Len(s.ctes)]
           r == ExecSelect(s.main, ctes.tables)
           gone == Given(s)
<1>1. Len(s.ctes) \in 0 .. Len(s.ctes) /\ s.main \in Queries
  BY StatementForm
<1>2. ctes.tables \in Databases
  BY <1>1, WithCtesForm DEF Results
<1>3. r \in Results
  BY <1>1, <1>2, ExecSelectTyped
<1>4. Fail(ctes.tables) \in Results
  BY <1>2, FailTyped
<1> HIDE DEF ctes, r, gone
<1>5. Without(r.tables, gone) \in Databases
  BY <1>3, WithoutTyped DEF Results
<1>6. [r EXCEPT !.tables = Without(@, gone)] \in Results
  BY <1>3, <1>5 DEF Results
<1> QED
  BY <1>4, <1>6 DEF ExecCte, ctes, r, gone

-----------------------------------------------------------------------------
(* The specification. *)

(* Every step keeps the types. *)
LEMMA TypeNext ==
    ASSUME TypeOK, [Next]_vars
    PROVE  TypeOK'
<1> USE DEF TypeOK
<1>0. Bases \subseteq Names /\ None \in Content /\ {} \in Content /\ Names \subseteq AllNames
      /\ \A c \in Content : c # None => \A v \in Values : c \cup {v} \in Content
  BY ViewsAssumption DEF Content, AllNames
<1>1. ASSUME NEW n \in Bases, CreateTable(n) PROVE TypeOK'
  BY <1>0, <1>1 DEF CreateTable, Databases
<1>2. ASSUME NEW n \in Names, DropTable(n) PROVE TypeOK'
  BY <1>0, <1>2 DEF DropTable, Databases
<1>3. ASSUME NEW n \in Names, NEW v \in Values, Insert(n, v) PROVE TypeOK'
  <2>1. tables[n] \cup {v} \in Content
    BY <1>0, <1>3 DEF Insert, Databases
  <2>2. real[n] = None \/ real[n] \cup {v} \in Content
    BY <1>0
  <2> QED
    BY <1>0, <1>3, <2>1, <2>2 DEF Insert, Databases
<1>4. ASSUME NEW n \in Names, NEW m \in Bases, Rename(n, m) PROVE TypeOK'
  BY <1>0, <1>4 DEF Rename, Databases
<1>5. ASSUME NEW n \in Names, NEW q \in Defs[n], CreateView(n, q) PROVE TypeOK'
  BY <1>5 DEF CreateView
<1>6. ASSUME NEW n \in Names, DropView(n) PROVE TypeOK'
  BY <1>6 DEF DropView
<1>7. ASSUME NEW s \in Questions, Select(s) PROVE TypeOK'
  <2>1. ExecCte(s) \in Results
    BY ExecCteTyped
  <2>2. ExecCte(s).tables \in Databases /\ ExecCte(s).ok \in BOOLEAN /\ ExecCte(s).rows \in SUBSET Values
    BY <2>1 DEF Results
  <2> QED
    BY <1>7, <2>2 DEF Select
<1>8. CASE UNCHANGED vars
  BY <1>8 DEF vars
<1> QED
  BY <1>1, <1>2, <1>3, <1>4, <1>5, <1>6, <1>7, <1>8 DEF Next

(* Tables, views and answers keep their types, for any queries, views in   *)
(* views, CTEs and room on the stack: whatever a SELECT puts into the      *)
(* Database or drops from it, and wherever it fails (exec_select,          *)
(* exec_cte_query).                                                        *)
THEOREM TypeCorrect == Spec => []TypeOK
<1>1. Init => TypeOK
  BY DEF Init, TypeOK, Databases, Content
<1>2. TypeOK /\ [Next]_vars => TypeOK'
  BY TypeNext
<1> QED
  BY <1>1, <1>2, PTL DEF Spec

(* What every step of careful clients keeps: the answer is right because   *)
(* the Database is as the statements that write it left it, and because    *)
(* no view hides a table.                                                  *)
IInv == TypeOK /\ LeavesNoTrace /\ Unshadowed /\ answer.ok /\ answer.rows = answer.meant

(* SELECT keeps it by SafeSelect; the others write tables and real alike. *)
LEMMA Invariant ==
    ASSUME Careful
    PROVE  Spec => []IInv
<1>1. Init => IInv
  <2> SUFFICES ASSUME Init PROVE IInv
    OBVIOUS
  <2>1. TypeOK
    BY DEF Init, TypeOK, Databases, Content
  <2>2. Names \subseteq AllNames /\ ToSet(Temps) \subseteq AllNames
    BY DEF AllNames
  <2> QED
    BY <2>1, <2>2 DEF Init, IInv, LeavesNoTrace, Unshadowed
<1>2. IInv /\ [Next]_vars => IInv'
  <2> SUFFICES ASSUME IInv, [Next]_vars PROVE IInv'
    OBVIOUS
  <2>1. TypeOK /\ LeavesNoTrace /\ Unshadowed /\ answer.ok /\ answer.rows = answer.meant
    BY DEF IInv
  <2>2. TypeOK'
    BY <2>1, TypeNext
  <2>3. /\ \A n \in Names : tables[n] = real[n] /\ n \notin ToSet(Temps) /\ n \in AllNames
        /\ \A n \in ToSet(Temps) : tables[n] = None /\ n \in AllNames
        /\ \A n \in Names : real[n] # None => views[n] = None
    BY <2>1, ViewsAssumption DEF LeavesNoTrace, Unshadowed, AllNames
  <2>4. tables \in [AllNames -> Content] /\ real \in [Names -> Content] /\ DOMAIN views = Names
    BY <2>1 DEF TypeOK, Databases
  <2>5. Bases \subseteq Names
    BY ViewsAssumption
  <2>6. \A n \in Names, c \in Content, v \in Values : c # None => c \cup {v} # None
    <3>1. \A c \in Content, v \in Values : c # None => c \cup {v} \in SUBSET Values
      BY DEF Content
    <3> QED
      BY <3>1, ViewsAssumption
  <2> USE DEF LeavesNoTrace, Unshadowed
  <2>7. ASSUME NEW n \in Bases, CreateTable(n) PROVE LeavesNoTrace' /\ Unshadowed' /\ UNCHANGED answer
    BY <2>3, <2>4, <2>5, <2>7 DEF CreateTable
  <2>8. ASSUME NEW n \in Names, DropTable(n) PROVE LeavesNoTrace' /\ Unshadowed' /\ UNCHANGED answer
    BY <2>3, <2>4, <2>8 DEF DropTable
  <2>9. ASSUME NEW n \in Names, NEW v \in Values, Insert(n, v)
        PROVE  LeavesNoTrace' /\ Unshadowed' /\ UNCHANGED answer
    BY <2>3, <2>4, <2>6, <2>9 DEF Insert
  <2>10. ASSUME NEW n \in Names, NEW m \in Bases, Rename(n, m)
         PROVE  LeavesNoTrace' /\ Unshadowed' /\ UNCHANGED answer
    BY <2>3, <2>4, <2>5, <2>10 DEF Rename, FreshName
  <2>11. ASSUME NEW n \in Names, NEW q \in Defs[n], CreateView(n, q)
         PROVE  LeavesNoTrace' /\ Unshadowed' /\ UNCHANGED answer
    BY <2>3, <2>4, <2>11 DEF CreateView
  <2>12. ASSUME NEW n \in Names, DropView(n) PROVE LeavesNoTrace' /\ Unshadowed' /\ UNCHANGED answer
    BY <2>3, <2>4, <2>12 DEF DropView
  <2>13. ASSUME NEW s \in Questions, Select(s)
         PROVE  LeavesNoTrace' /\ Unshadowed' /\ answer'.ok /\ answer'.rows = answer'.meant
    <3>1. Safe(s)
      BY <2>13 DEF Select
    <3>2. ExecCte(s).ok /\ ExecCte(s).tables = tables /\ ExecCte(s).rows = StatementMeaning(s)
      BY <2>1, <3>1, SafeSelect
    <3>3. tables' = tables /\ UNCHANGED <<views, real>>
      BY <2>13, <3>2 DEF Select
    <3>4. answer'.ok /\ answer'.rows = answer'.meant
      BY <2>13, <3>2 DEF Select
    <3> QED
      BY <2>3, <3>3, <3>4
  <2>14. CASE UNCHANGED vars
    BY <2>1, <2>2, <2>14 DEF vars, IInv
  <2>15. CASE Next
    <3>1. LeavesNoTrace' /\ Unshadowed' /\ (UNCHANGED answer \/ (answer'.ok /\ answer'.rows = answer'.meant))
      BY <2>7, <2>8, <2>9, <2>10, <2>11, <2>12, <2>13, <2>15 DEF Next
    <3> QED
      BY <2>1, <2>2, <3>1 DEF IInv
  <2> QED
    BY <2>14, <2>15
<1> QED
  BY <1>1, <1>2, PTL DEF Spec

(* After every SELECT of careful clients the Database is as it was: each   *)
(* table that exec_select_rows, the joins and exec_cte_query put there     *)
(* for views, derived tables and CTEs is dropped again, and no other is.   *)
THEOREM SelectLeavesNoTrace ==
    ASSUME Careful
    PROVE  Spec => []LeavesNoTrace
<1>1. IInv => LeavesNoTrace
  BY DEF IInv
<1> QED
  BY <1>1, Invariant, PTL

(* And its answer is what its text means on the tables of that moment,     *)
(* views in views and CTEs in CTEs included: no view is read from a table  *)
(* an earlier reference left behind (materialize_view runs at each         *)
(* reference, create.rs:177).                                              *)
THEOREM ViewsAreFresh ==
    ASSUME Careful
    PROVE  Spec => []AnswersFresh
<1>1. IInv => AnswersFresh
  BY DEF IInv, AnswersFresh
<1> QED
  BY <1>1, Invariant, PTL

-----------------------------------------------------------------------------
(* Loops over the rows of an answer. *)

(* The first values of such a sequence. *)
Bounded(f, n, S, x0, step) ==
    f \in [0 .. n -> S] /\ f[0] = x0 /\ \A i \in 1 .. n : f[i] = step[<<i - 1, f[i - 1]>>]

(* They exist. *)
LEMMA BoundedRecursion ==
    ASSUME NEW n \in Nat, NEW S, NEW x0 \in S, NEW step \in Steps(S)
    PROVE  \E f : Bounded(f, n, S, x0, step)
<1>1. PICK f : Iterates(f, S, x0, step)
  BY Recursion
<1> DEFINE g == [i \in 0 .. n |-> f[i]]
<1>2. g \in [0 .. n -> S] /\ g[0] = x0
  BY <1>1 DEF Iterates
<1>3. ASSUME NEW i \in 1 .. n PROVE g[i] = step[<<i - 1, g[i - 1]>>]
  <2>1. i - 1 \in Nat /\ (i - 1) + 1 = i /\ i \in 0 .. n /\ i - 1 \in 0 .. n
    OBVIOUS
  <2>2. f[(i - 1) + 1] = step[<<i - 1, f[i - 1]>>]
    BY <1>1, <2>1 DEF Iterates
  <2>3. g[i] = f[i] /\ g[i - 1] = f[i - 1]
    BY <2>1
  <2> HIDE DEF g
  <2> QED
    BY <2>1, <2>2, <2>3
<1> HIDE DEF g
<1> QED
  BY <1>2, <1>3 DEF Bounded

(* Induction up to n. *)
LEMMA Climb ==
    ASSUME NEW n \in Nat, NEW P, 0 \in P, \A i \in 1 .. n : i - 1 \in P => i \in P
    PROVE  0 .. n \subseteq P
<1> DEFINE T == {i \in Nat : i \in 0 .. n => i \in P}
<1>1. 0 \in T
  OBVIOUS
<1>2. ASSUME NEW i \in Nat, i \in T PROVE i + 1 \in T
  <2> SUFFICES ASSUME i + 1 \in 0 .. n PROVE i + 1 \in P
    OBVIOUS
  <2>1. i \in 0 .. n /\ i + 1 \in 1 .. n /\ (i + 1) - 1 = i
    OBVIOUS
  <2> QED
    BY <1>2, <2>1
<1>3. Nat \subseteq T
  <2> HIDE DEF T
  <2> QED
    BY <1>1, <1>2, NatSetInduction
<1> QED
  BY <1>3

(* A value that no step leads out of S stays in S. *)
LEMMA Stays ==
    ASSUME NEW n \in Nat, NEW S, NEW r, r[0] \in S, \A i \in 1 .. n : r[i - 1] \in S => r[i] \in S
    PROVE  \A i \in 0 .. n : r[i] \in S
<1> DEFINE P == {i \in 0 .. n : r[i] \in S}
<1>1. 0 \in P
  OBVIOUS
<1>2. \A i \in 1 .. n : i - 1 \in P => i \in P
  OBVIOUS
<1>3. 0 .. n \subseteq P
  <2> HIDE DEF P
  <2> QED
    BY <1>1, <1>2, Climb
<1> QED
  BY <1>3

-----------------------------------------------------------------------------
(* How often a row is in an answer. *)

(* The places of x up to the i-th, and how many there are. *)
Places(x, seq, i) == {j \in 1 .. i : seq[j] = x}
CountTo(x, seq, i) == Cardinality(Places(x, seq, i))

(* One row more counts when it is x. *)
OneMore(x, seq, i) ==
    CountTo(x, seq, i + 1) = CountTo(x, seq, i) + (IF seq[i + 1] = x THEN 1 ELSE 0)

(* Rows are counted one by one. *)
LEMMA CountToNext ==
    ASSUME NEW x, NEW seq, NEW i \in Nat
    PROVE  /\ CountTo(x, seq, i) \in Nat
           /\ OneMore(x, seq, i)
           /\ CountTo(x, seq, i) = 0 <=> \A j \in 1 .. i : seq[j] # x
<1>1. IsFiniteSet(1 .. i)
  BY FS_Interval
<1>2. Places(x, seq, i) \subseteq 1 .. i
  BY DEF Places
<1>3. IsFiniteSet(Places(x, seq, i))
  BY <1>1, <1>2, FS_Subset
<1>4. CountTo(x, seq, i) \in Nat /\ (CountTo(x, seq, i) = 0 <=> Places(x, seq, i) = {})
  BY <1>3, FS_CardinalityType, FS_EmptySet DEF CountTo
<1>5. i + 1 \notin Places(x, seq, i)
  BY DEF Places
<1>6. CASE seq[i + 1] = x
  <2>1. Places(x, seq, i + 1) = Places(x, seq, i) \cup {i + 1}
    BY <1>6 DEF Places
  <2>2. Cardinality(Places(x, seq, i) \cup {i + 1}) = Cardinality(Places(x, seq, i)) + 1
    BY <1>3, <1>5, FS_AddElement
  <2> QED
    BY <1>4, <1>6, <2>1, <2>2 DEF CountTo, Places, OneMore
<1>7. CASE seq[i + 1] # x
  <2>1. Places(x, seq, i + 1) = Places(x, seq, i)
    BY <1>7 DEF Places
  <2> QED
    BY <1>4, <1>7, <2>1 DEF CountTo, Places, OneMore
<1> QED
  BY <1>6, <1>7

(* Before the first row nothing is counted. *)
LEMMA CountFirst ==
    ASSUME NEW x, NEW seq
    PROVE  CountTo(x, seq, 0) = 0
BY FS_EmptySet DEF CountTo, Places

(* Rows that are the same count the same. *)
LEMMA CountSame ==
    ASSUME NEW x, NEW seq, NEW other, NEW i \in Nat, \A j \in 1 .. i : seq[j] = other[j]
    PROVE  CountTo(x, seq, i) = CountTo(x, other, i)
<1>1. Places(x, seq, i) = Places(x, other, i)
  BY DEF Places
<1> QED
  BY <1>1 DEF CountTo

(* All rows are counted in the end; x is there when it counts. *)
LEMMA CountWhole ==
    ASSUME NEW S, NEW seq \in Seq(S), NEW x
    PROVE  /\ Count(x, seq) = CountTo(x, seq, Len(seq))
           /\ Count(x, seq) \in Nat
           /\ Count(x, seq) > 0 <=> Contains(seq, x)
           /\ Contains(seq, x) <=> x \in ToSet(seq)
<1>1. Len(seq) \in Nat /\ DOMAIN seq = 1 .. Len(seq)
  OBVIOUS
<1>2. Count(x, seq) = CountTo(x, seq, Len(seq))
  BY <1>1 DEF Count, CountTo, Places
<1>3. CountTo(x, seq, Len(seq)) \in Nat
  BY <1>1, CountToNext
<1>4. CountTo(x, seq, Len(seq)) = 0 <=> \A j \in 1 .. Len(seq) : seq[j] # x
  BY <1>1, CountToNext
<1> QED
  BY <1>1, <1>2, <1>3, <1>4 DEF Contains, ToSet

(* How often a row is there after one more was appended, ... *)
LEMMA CountAppend ==
    ASSUME NEW S, NEW seq \in Seq(S), NEW y \in S, NEW x
    PROVE  Count(x, Append(seq, y)) = Count(x, seq) + (IF x = y THEN 1 ELSE 0)
<1>1. Append(seq, y) \in Seq(S) /\ Len(Append(seq, y)) = Len(seq) + 1 /\ Len(seq) \in Nat
  OBVIOUS
<1>2. \A j \in 1 .. Len(seq) : Append(seq, y)[j] = seq[j]
  OBVIOUS
<1>3. Append(seq, y)[Len(seq) + 1] = y
  OBVIOUS
<1>4. CountTo(x, Append(seq, y), Len(seq) + 1)
        = CountTo(x, Append(seq, y), Len(seq)) + (IF x = y THEN 1 ELSE 0)
  <2> DEFINE longer == Append(seq, y)
             n == Len(seq)
  <2>1. n \in Nat /\ longer[n + 1] = y
    BY <1>1, <1>3
  <2> HIDE DEF longer, n
  <2>2. CountTo(x, longer, n + 1) = CountTo(x, longer, n) + (IF longer[n + 1] = x THEN 1 ELSE 0)
    BY <2>1, CountToNext DEF OneMore
  <2>3. CountTo(x, longer, n + 1) = CountTo(x, longer, n) + (IF x = y THEN 1 ELSE 0)
    BY <2>1, <2>2
  <2> QED
    BY <2>3 DEF longer, n
<1>5. CountTo(x, Append(seq, y), Len(seq)) = CountTo(x, seq, Len(seq))
  BY <1>1, <1>2, CountSame
<1>6. Count(x, Append(seq, y)) = CountTo(x, Append(seq, y), Len(Append(seq, y)))
  BY <1>1, CountWhole
<1>7. Count(x, seq) = CountTo(x, seq, Len(seq))
  BY CountWhole
<1> QED
  BY <1>1, <1>4, <1>5, <1>6, <1>7

(* ... in no rows, ... *)
LEMMA CountEmpty ==
    ASSUME NEW x
    PROVE  Count(x, <<>>) = 0
<1>1. <<>> \in Seq({})
  OBVIOUS
<1>2. Count(x, <<>>) = CountTo(x, <<>>, Len(<<>>))
  BY <1>1, CountWhole
<1>3. Len(<<>>) = 0
  OBVIOUS
<1> QED
  BY <1>2, <1>3, CountFirst

(* all is l with r after it. *)
Concatenated(S, l, r, all) ==
    /\ all \in Seq(S) /\ Len(all) = Len(l) + Len(r)
    /\ \A j \in 1 .. Len(l) : all[j] = l[j]
    /\ \A j \in 1 .. Len(r) : all[Len(l) + j] = r[j]

(* Concatenation, place by place. *)
LEMMA ConcatForm ==
    ASSUME NEW S, NEW l \in Seq(S), NEW r \in Seq(S), NEW all, all = l \o r
    PROVE  Concatenated(S, l, r, all)
<1>1. l \o r \in Seq(S) /\ Len(l \o r) = Len(l) + Len(r)
  OBVIOUS
<1>2. \A j \in 1 .. Len(l) : (l \o r)[j] = l[j]
  OBVIOUS
<1>3. \A j \in 1 .. Len(r) : (l \o r)[Len(l) + j] = r[j]
  OBVIOUS
<1> QED
  BY <1>1, <1>2, <1>3 DEF Concatenated

(* ... in two answers one after the other, ... *)
LEMMA CountConcat ==
    ASSUME NEW S, NEW l \in Seq(S), NEW r \in Seq(S), NEW x
    PROVE  Count(x, l \o r) = Count(x, l) + Count(x, r)
<1> DEFINE m == Len(l)
           n == Len(r)
           both == l \o r
           P == {i \in Nat : i <= n => CountTo(x, both, m + i) = Count(x, l) + CountTo(x, r, i)}
<1>1. m \in Nat /\ n \in Nat /\ both \in Seq(S) /\ Len(both) = m + n
  OBVIOUS
<1>2. \A j \in 1 .. m : both[j] = l[j]
  OBVIOUS
<1>3. \A j \in 1 .. n : both[m + j] = r[j]
  OBVIOUS
<1>4. Count(x, l) = CountTo(x, l, m) /\ Count(x, r) = CountTo(x, r, n) /\ Count(x, l) \in Nat
  BY CountWhole
<1>5. Count(x, both) = CountTo(x, both, m + n)
  <2> HIDE DEF both, m, n
  <2> QED
    BY <1>1, CountWhole
<1> HIDE DEF m, n, both
<1>6. 0 \in P
  <2>1. CountTo(x, both, m) = CountTo(x, l, m)
    BY <1>1, <1>2, CountSame
  <2>2. m + 0 = m
    BY <1>1
  <2> QED
    BY <1>4, <2>1, <2>2, CountFirst
<1>7. ASSUME NEW i \in Nat, i \in P PROVE i + 1 \in P
  <2> SUFFICES ASSUME i + 1 <= n PROVE CountTo(x, both, m + (i + 1))
                = Count(x, l) + CountTo(x, r, i + 1)
    OBVIOUS
  <2>1. m + (i + 1) = (m + i) + 1 /\ m + i \in Nat /\ i + 1 \in 1 .. n
    BY <1>1
  <2>2. CountTo(x, both, (m + i) + 1) = CountTo(x, both, m + i) + (IF both[(m + i) + 1] = x
                THEN 1 ELSE 0)
    <3> DEFINE k == m + i
    <3>1. k \in Nat
      BY <2>1
    <3> HIDE DEF k
    <3>2. OneMore(x, both, k)
      BY <3>1, CountToNext
    <3> QED
      BY <3>2 DEF k, OneMore
  <2>3. CountTo(x, r, i + 1) = CountTo(x, r, i) + (IF r[i + 1] = x THEN 1 ELSE 0)
    BY CountToNext DEF OneMore
  <2>4. both[(m + i) + 1] = r[i + 1]
    BY <1>3, <2>1
  <2>5. CountTo(x, both, m + i) = Count(x, l) + CountTo(x, r, i)
    BY <1>1, <1>7
  <2>6. CountTo(x, r, i) \in Nat
    BY CountToNext
  <2> QED
    BY <1>4, <2>1, <2>2, <2>3, <2>4, <2>5, <2>6
<1>8. Nat \subseteq P
  <2> HIDE DEF P
  <2> QED
    BY <1>6, <1>7, NatSetInduction
<1>9. CountTo(x, both, m + n) = Count(x, l) + CountTo(x, r, n)
  BY <1>1, <1>8
<1> QED
  BY <1>4, <1>5, <1>9 DEF both

(* ... in one row k times ... *)
LEMMA CountRepeated ==
    ASSUME NEW y, NEW k \in Nat, NEW x
    PROVE  Count(x, [n \in 1 .. k |-> y]) = IF x = y THEN k ELSE 0
<1> DEFINE all == [n \in 1 .. k |-> y]
<1>1. Count(x, all) = Cardinality({i \in 1 .. k : y = x})
  BY DEF Count
<1>2. CASE x = y
  <2>1. {i \in 1 .. k : y = x} = 1 .. k
    BY <1>2
  <2>2. Cardinality(1 .. k) = k
    BY FS_Interval
  <2> QED
    BY <1>1, <1>2, <2>1, <2>2
<1>3. CASE x # y
  <2>1. {i \in 1 .. k : y = x} = {}
    BY <1>3
  <2> QED
    BY <1>1, <1>3, <2>1, FS_EmptySet
<1> QED
  BY <1>2, <1>3

(* ... and after one was taken out. *)
LEMMA CountRemoved ==
    ASSUME NEW S, NEW seq \in Seq(S), NEW i \in DOMAIN seq, NEW x
    PROVE  /\ RemoveAt(seq, i) \in Seq(S)
           /\ Count(x, RemoveAt(seq, i)) = Count(x, seq) - (IF x = seq[i] THEN 1 ELSE 0)
<1> DEFINE n == Len(seq)
           front == SubSeq(seq, 1, i - 1)
           back == SubSeq(seq, i + 1, n)
           upto == Append(front, seq[i])
<1>1. n \in Nat /\ i \in 1 .. n /\ seq[i] \in S
  OBVIOUS
<1>2. front \in Seq(S) /\ back \in Seq(S) /\ Len(front) = i - 1 /\ Len(back) = n - i
  BY <1>1
<1>3. (\A j \in 1 .. i - 1 : front[j] = seq[j]) /\ \A j \in 1 .. n - i : back[j] = seq[i + j]
  BY <1>1
<1>4. upto \in Seq(S) /\ Len(upto) = i /\ upto[i] = seq[i] /\ \A j \in 1 .. i - 1 : upto[j] = front[j]
  <2> HIDE DEF front
  <2> QED
    BY <1>1, <1>2
<1> HIDE DEF n, front, back, upto
<1>5. upto \o back = seq
  <2> DEFINE all == upto \o back
  <2>1. /\ all \in Seq(S) /\ Len(all) = Len(upto) + Len(back)
        /\ \A j \in 1 .. Len(upto) : all[j] = upto[j]
        /\ \A j \in 1 .. Len(back) : all[Len(upto) + j] = back[j]
    <3>1. upto \in Seq(S) /\ back \in Seq(S) /\ all = upto \o back
      BY <1>2, <1>4
    <3> HIDE DEF all
    <3>2. Concatenated(S, upto, back, all)
      BY <3>1, ConcatForm
    <3> QED
      BY <3>2 DEF Concatenated
  <2> HIDE DEF all
  <2>2. Len(all) = n
    BY <1>1, <1>2, <1>4, <2>1
  <2>3. ASSUME NEW j \in 1 .. n PROVE all[j] = seq[j]
    <3>1. CASE j < i
      <4>1. j \in 1 .. i /\ j \in 1 .. i - 1
        BY <1>1, <3>1
      <4> QED
        BY <4>1, <1>3, <1>4, <2>1
    <3>2. CASE j = i
      BY <3>2, <1>1, <1>4, <2>1
    <3>3. CASE j > i
      <4>1. j - i \in 1 .. n - i /\ i + (j - i) = j
        BY <1>1, <3>3
      <4>2. all[Len(upto) + (j - i)] = back[j - i]
        BY <1>2, <2>1, <4>1
      <4>3. back[j - i] = seq[i + (j - i)]
        BY <1>3, <4>1
      <4> QED
        BY <1>4, <4>1, <4>2, <4>3
    <3> QED
      BY <3>1, <3>2, <3>3, <1>1
  <2>4. all = seq
    BY <1>1, <2>1, <2>2, <2>3 DEF n
  <2> QED
    BY <2>4 DEF all
<1>6. RemoveAt(seq, i) = front \o back
  BY DEF RemoveAt, front, back, n
<1>7. /\ Count(x, upto \o back) = Count(x, upto) + Count(x, back)
      /\ Count(x, front \o back) = Count(x, front) + Count(x, back)
  BY <1>2, <1>4, CountConcat
<1>8. Count(x, upto) = Count(x, front) + (IF x = seq[i] THEN 1 ELSE 0)
  BY <1>1, <1>2, CountAppend DEF upto
<1>9. Count(x, front) \in Nat /\ Count(x, back) \in Nat
  BY <1>2, CountWhole
<1> QED
  BY <1>2, <1>5, <1>6, <1>7, <1>8, <1>9

-----------------------------------------------------------------------------
(* UNION, EXCEPT and INTERSECT, row by row. *)

(* A row that is there has a first place. *)
LEMMA FirstPlace ==
    ASSUME NEW S, NEW rows \in Seq(S), NEW x, Contains(rows, x)
    PROVE  Earliest(x, rows) \in DOMAIN rows /\ rows[Earliest(x, rows)] = x
<1> DEFINE T == {i \in DOMAIN rows : rows[i] = x}
<1>1. DOMAIN rows = 1 .. Len(rows) /\ Len(rows) \in Nat
  OBVIOUS
<1>2. T # {} /\ T \in SUBSET Nat
  BY <1>1 DEF Contains
<1>3. PICK i \in T : \A j \in T : i <= j
  <2> HIDE DEF T
  <2> QED
    BY <1>2, Least
<1>4. i \in DOMAIN rows /\ rows[i] = x /\ \A j \in 1 .. i - 1 : rows[j] # x
  <2>1. ASSUME NEW j \in 1 .. i - 1 PROVE rows[j] # x
    <3>1. j \in DOMAIN rows /\ ~(i <= j)
      BY <1>1, <1>3
    <3> QED
      BY <1>3, <3>1
  <2> QED
    BY <1>3, <2>1
<1> QED
  BY <1>4 DEF Earliest

(* The loop of UNION: acc are its rows after each row of r. *)
AddsNew(acc, S, l, r) ==
    /\ acc \in [0 .. Len(r) -> Seq(S)] /\ acc[0] = l /\ acc[Len(r)] = WithNew(l, r)
    /\ \A i \in 1 .. Len(r) : acc[i] = IF Contains(acc[i - 1], r[i]) THEN acc[i - 1]
                  ELSE Append(acc[i - 1], r[i])

(* There is such a loop. *)
LEMMA WithNewLoop ==
    ASSUME NEW S, NEW l \in Seq(S), NEW r \in Seq(S)
    PROVE  \E acc : AddsNew(acc, S, l, r)
<1> DEFINE len == Len(r)
           Body(i, a) == IF Contains(a, r[i]) THEN a ELSE Append(a, r[i])
           step == [p \in Nat \X Seq(S) |-> IF p[1] + 1 \in 1 .. len
                         THEN Body(p[1] + 1, p[2]) ELSE p[2]]
           rule(acc) == [i \in 0 .. len |-> IF i = 0 THEN l ELSE Body(i, acc[i - 1])]
           found == CHOOSE acc : acc = rule(acc)
<1>1. len \in Nat /\ l \in Seq(S)
  OBVIOUS
<1>2. ASSUME NEW i \in 1 .. len, NEW a \in Seq(S) PROVE Body(i, a) \in Seq(S)
  OBVIOUS
<1>3. found[len] = WithNew(l, r)
  BY DEF WithNew
<1> HIDE DEF len, Body
<1>4. step \in Steps(Seq(S))
  BY <1>2 DEF Steps
<1>5. PICK g : Bounded(g, len, Seq(S), l, step)
  <2> HIDE DEF step
  <2> QED
    BY <1>1, <1>4, BoundedRecursion
<1>6. ASSUME NEW i \in 1 .. len PROVE g[i] = Body(i, g[i - 1])
  <2>1. i - 1 \in Nat /\ (i - 1) + 1 = i /\ i - 1 \in 0 .. len
    BY <1>1
  <2>2. g[i] = step[<<i - 1, g[i - 1]>>] /\ g[i - 1] \in Seq(S)
    <3> HIDE DEF step
    <3> QED
      BY <1>5, <2>1 DEF Bounded
  <2> QED
    BY <2>1, <2>2
<1>7. g = rule(g)
  <2>1. g = [i \in 0 .. len |-> g[i]] /\ g[0] = l
    BY <1>5 DEF Bounded
  <2>2. \A i \in 0 .. len : i # 0 => i \in 1 .. len
    BY <1>1
  <2> QED
    BY <1>6, <2>1, <2>2
<1>8. found = rule(found)
  <2> HIDE DEF rule
  <2> QED
    BY <1>7
<1> HIDE DEF found
<1>9. found[0] = l /\ \A i \in 1 .. len : found[i] = Body(i, found[i - 1])
  <2>1. 0 \in 0 .. len /\ \A i \in 1 .. len : i \in 0 .. len /\ i # 0
    BY <1>1
  <2> QED
    BY <1>8, <2>1
<1>10. \A i \in 0 .. len : found[i] \in Seq(S)
  <2>1. \A i \in 1 .. len : found[i - 1] \in Seq(S) => found[i] \in Seq(S)
    BY <1>2, <1>9
  <2> QED
    BY <1>1, <1>9, <2>1, Stays
<1>11. found \in [0 .. len -> Seq(S)]
  BY <1>8, <1>10
<1> QED
  BY <1>3, <1>9, <1>11 DEF AddsNew, len, Body

(* The loop of EXCEPT ALL: the rows left after each row of r. *)
TakesAway(acc, S, l, r) ==
    /\ acc \in [0 .. Len(r) -> Seq(S)] /\ acc[0] = l /\ acc[Len(r)] = ExceptAll(l, r)
    /\ \A i \in 1 .. Len(r) : acc[i] = IF Contains(acc[i - 1], r[i])
                  THEN RemoveAt(acc[i - 1], Earliest(r[i], acc[i - 1])) ELSE acc[i - 1]

(* There is such a loop. *)
LEMMA ExceptAllLoop ==
    ASSUME NEW S, NEW l \in Seq(S), NEW r \in Seq(S)
    PROVE  \E acc : TakesAway(acc, S, l, r)
<1> DEFINE len == Len(r)
           Body(i, a) == IF Contains(a, r[i]) THEN RemoveAt(a, Earliest(r[i], a)) ELSE a
           step == [p \in Nat \X Seq(S) |-> IF p[1] + 1 \in 1 .. len
                         THEN Body(p[1] + 1, p[2]) ELSE p[2]]
           rule(acc) == [i \in 0 .. len |-> IF i = 0 THEN l ELSE Body(i, acc[i - 1])]
           found == CHOOSE acc : acc = rule(acc)
<1>1. len \in Nat /\ l \in Seq(S)
  OBVIOUS
<1>2. ASSUME NEW i \in 1 .. len, NEW a \in Seq(S) PROVE Body(i, a) \in Seq(S)
  <2>1. ASSUME Contains(a, r[i]) PROVE RemoveAt(a, Earliest(r[i], a)) \in Seq(S)
    BY <2>1, FirstPlace, CountRemoved
  <2> QED
    BY <2>1
<1>3. found[len] = ExceptAll(l, r)
  BY DEF ExceptAll
<1> HIDE DEF len, Body
<1>4. step \in Steps(Seq(S))
  BY <1>2 DEF Steps
<1>5. PICK g : Bounded(g, len, Seq(S), l, step)
  <2> HIDE DEF step
  <2> QED
    BY <1>1, <1>4, BoundedRecursion
<1>6. ASSUME NEW i \in 1 .. len PROVE g[i] = Body(i, g[i - 1])
  <2>1. i - 1 \in Nat /\ (i - 1) + 1 = i /\ i - 1 \in 0 .. len
    BY <1>1
  <2>2. g[i] = step[<<i - 1, g[i - 1]>>] /\ g[i - 1] \in Seq(S)
    <3> HIDE DEF step
    <3> QED
      BY <1>5, <2>1 DEF Bounded
  <2> QED
    BY <2>1, <2>2
<1>7. g = rule(g)
  <2>1. g = [i \in 0 .. len |-> g[i]] /\ g[0] = l
    BY <1>5 DEF Bounded
  <2>2. \A i \in 0 .. len : i # 0 => i \in 1 .. len
    BY <1>1
  <2> QED
    BY <1>6, <2>1, <2>2
<1>8. found = rule(found)
  <2> HIDE DEF rule
  <2> QED
    BY <1>7
<1> HIDE DEF found
<1>9. found[0] = l /\ \A i \in 1 .. len : found[i] = Body(i, found[i - 1])
  <2>1. 0 \in 0 .. len /\ \A i \in 1 .. len : i \in 0 .. len /\ i # 0
    BY <1>1
  <2> QED
    BY <1>8, <2>1
<1>10. \A i \in 0 .. len : found[i] \in Seq(S)
  <2>1. \A i \in 1 .. len : found[i - 1] \in Seq(S) => found[i] \in Seq(S)
    BY <1>2, <1>9
  <2> QED
    BY <1>1, <1>9, <2>1, Stays
<1>11. found \in [0 .. len -> Seq(S)]
  BY <1>8, <1>10
<1> QED
  BY <1>3, <1>9, <1>11 DEF TakesAway, len, Body

(* The loop of EXCEPT: the rows kept after each row of l. *)
Passes(acc, S, l, r) ==
    /\ acc \in [0 .. Len(l) -> Seq(S)] /\ acc[0] = <<>> /\ acc[Len(l)] = Except(l, r)
    /\ \A i \in 1 .. Len(l) : acc[i] = IF Contains(r, l[i]) THEN acc[i - 1]
                  ELSE Append(acc[i - 1], l[i])

(* There is such a loop. *)
LEMMA ExceptLoop ==
    ASSUME NEW S, NEW l \in Seq(S), NEW r \in Seq(S)
    PROVE  \E acc : Passes(acc, S, l, r)
<1> DEFINE len == Len(l)
           Body(i, a) == IF Contains(r, l[i]) THEN a ELSE Append(a, l[i])
           step == [p \in Nat \X Seq(S) |-> IF p[1] + 1 \in 1 .. len
                         THEN Body(p[1] + 1, p[2]) ELSE p[2]]
           rule(acc) == [i \in 0 .. len |-> IF i = 0 THEN <<>> ELSE Body(i, acc[i - 1])]
           found == CHOOSE acc : acc = rule(acc)
<1>1. len \in Nat /\ <<>> \in Seq(S)
  OBVIOUS
<1>2. ASSUME NEW i \in 1 .. len, NEW a \in Seq(S) PROVE Body(i, a) \in Seq(S)
  OBVIOUS
<1>3. found[len] = Except(l, r)
  BY DEF Except
<1> HIDE DEF len, Body
<1>4. step \in Steps(Seq(S))
  BY <1>2 DEF Steps
<1>5. PICK g : Bounded(g, len, Seq(S), <<>>, step)
  <2> HIDE DEF step
  <2> QED
    BY <1>1, <1>4, BoundedRecursion
<1>6. ASSUME NEW i \in 1 .. len PROVE g[i] = Body(i, g[i - 1])
  <2>1. i - 1 \in Nat /\ (i - 1) + 1 = i /\ i - 1 \in 0 .. len
    BY <1>1
  <2>2. g[i] = step[<<i - 1, g[i - 1]>>] /\ g[i - 1] \in Seq(S)
    <3> HIDE DEF step
    <3> QED
      BY <1>5, <2>1 DEF Bounded
  <2> QED
    BY <2>1, <2>2
<1>7. g = rule(g)
  <2>1. g = [i \in 0 .. len |-> g[i]] /\ g[0] = <<>>
    BY <1>5 DEF Bounded
  <2>2. \A i \in 0 .. len : i # 0 => i \in 1 .. len
    BY <1>1
  <2> QED
    BY <1>6, <2>1, <2>2
<1>8. found = rule(found)
  <2> HIDE DEF rule
  <2> QED
    BY <1>7
<1> HIDE DEF found
<1>9. found[0] = <<>> /\ \A i \in 1 .. len : found[i] = Body(i, found[i - 1])
  <2>1. 0 \in 0 .. len /\ \A i \in 1 .. len : i \in 0 .. len /\ i # 0
    BY <1>1
  <2> QED
    BY <1>8, <2>1
<1>10. \A i \in 0 .. len : found[i] \in Seq(S)
  <2>1. \A i \in 1 .. len : found[i - 1] \in Seq(S) => found[i] \in Seq(S)
    BY <1>2, <1>9
  <2> QED
    BY <1>1, <1>9, <2>1, Stays
<1>11. found \in [0 .. len -> Seq(S)]
  BY <1>8, <1>10
<1> QED
  BY <1>3, <1>9, <1>11 DEF Passes, len, Body

(* The loop of INTERSECT: the rows kept after each row of l. *)
Shares(acc, S, l, r) ==
    /\ acc \in [0 .. Len(l) -> Seq(S)] /\ acc[0] = <<>> /\ acc[Len(l)] = Intersect(l, r)
    /\ \A i \in 1 .. Len(l) : acc[i] = IF Contains(r, l[i]) /\ ~Contains(acc[i - 1], l[i])
                  THEN Append(acc[i - 1], l[i]) ELSE acc[i - 1]

(* There is such a loop. *)
LEMMA IntersectLoop ==
    ASSUME NEW S, NEW l \in Seq(S), NEW r \in Seq(S)
    PROVE  \E acc : Shares(acc, S, l, r)
<1> DEFINE len == Len(l)
           Body(i, a) == IF Contains(r, l[i]) /\ ~Contains(a, l[i]) THEN Append(a, l[i]) ELSE a
           step == [p \in Nat \X Seq(S) |-> IF p[1] + 1 \in 1 .. len
                         THEN Body(p[1] + 1, p[2]) ELSE p[2]]
           rule(acc) == [i \in 0 .. len |-> IF i = 0 THEN <<>> ELSE Body(i, acc[i - 1])]
           found == CHOOSE acc : acc = rule(acc)
<1>1. len \in Nat /\ <<>> \in Seq(S)
  OBVIOUS
<1>2. ASSUME NEW i \in 1 .. len, NEW a \in Seq(S) PROVE Body(i, a) \in Seq(S)
  OBVIOUS
<1>3. found[len] = Intersect(l, r)
  BY DEF Intersect
<1> HIDE DEF len, Body
<1>4. step \in Steps(Seq(S))
  BY <1>2 DEF Steps
<1>5. PICK g : Bounded(g, len, Seq(S), <<>>, step)
  <2> HIDE DEF step
  <2> QED
    BY <1>1, <1>4, BoundedRecursion
<1>6. ASSUME NEW i \in 1 .. len PROVE g[i] = Body(i, g[i - 1])
  <2>1. i - 1 \in Nat /\ (i - 1) + 1 = i /\ i - 1 \in 0 .. len
    BY <1>1
  <2>2. g[i] = step[<<i - 1, g[i - 1]>>] /\ g[i - 1] \in Seq(S)
    <3> HIDE DEF step
    <3> QED
      BY <1>5, <2>1 DEF Bounded
  <2> QED
    BY <2>1, <2>2
<1>7. g = rule(g)
  <2>1. g = [i \in 0 .. len |-> g[i]] /\ g[0] = <<>>
    BY <1>5 DEF Bounded
  <2>2. \A i \in 0 .. len : i # 0 => i \in 1 .. len
    BY <1>1
  <2> QED
    BY <1>6, <2>1, <2>2
<1>8. found = rule(found)
  <2> HIDE DEF rule
  <2> QED
    BY <1>7
<1> HIDE DEF found
<1>9. found[0] = <<>> /\ \A i \in 1 .. len : found[i] = Body(i, found[i - 1])
  <2>1. 0 \in 0 .. len /\ \A i \in 1 .. len : i \in 0 .. len /\ i # 0
    BY <1>1
  <2> QED
    BY <1>8, <2>1
<1>10. \A i \in 0 .. len : found[i] \in Seq(S)
  <2>1. \A i \in 1 .. len : found[i - 1] \in Seq(S) => found[i] \in Seq(S)
    BY <1>2, <1>9
  <2> QED
    BY <1>1, <1>9, <2>1, Stays
<1>11. found \in [0 .. len -> Seq(S)]
  BY <1>8, <1>10
<1> QED
  BY <1>3, <1>9, <1>11 DEF Shares, len, Body

(* The nested loop of the step, for one row of the CTE: what it has found  *)
(* after each edge.                                                        *)
FindsEdges(acc, S, edges, x) ==
    /\ acc \in [0 .. Len(edges) -> Seq(S)] /\ acc[0] = <<>> /\ acc[Len(edges)] = Onward(edges, x)
    /\ \A i \in 1 .. Len(edges) : acc[i] = IF edges[i][1] = x
                  THEN Append(acc[i - 1], edges[i][2]) ELSE acc[i - 1]

(* There is such a loop. *)
LEMMA OnwardLoop ==
    ASSUME NEW D, NEW S, NEW edges \in Seq(D \X S), NEW x
    PROVE  \E acc : FindsEdges(acc, S, edges, x)
<1> DEFINE len == Len(edges)
           Body(i, a) == IF edges[i][1] = x THEN Append(a, edges[i][2]) ELSE a
           step == [p \in Nat \X Seq(S) |-> IF p[1] + 1 \in 1 .. len
                         THEN Body(p[1] + 1, p[2]) ELSE p[2]]
           rule(acc) == [i \in 0 .. len |-> IF i = 0 THEN <<>> ELSE Body(i, acc[i - 1])]
           found == CHOOSE acc : acc = rule(acc)
<1>1. len \in Nat /\ <<>> \in Seq(S)
  OBVIOUS
<1>2. ASSUME NEW i \in 1 .. len, NEW a \in Seq(S) PROVE Body(i, a) \in Seq(S)
  <2>1. edges[i] \in D \X S
    OBVIOUS
  <2>2. edges[i][2] \in S
    BY <2>1
  <2> QED
    BY <2>2
<1>3. found[len] = Onward(edges, x)
  BY DEF Onward
<1> HIDE DEF len, Body
<1>4. step \in Steps(Seq(S))
  BY <1>2 DEF Steps
<1>5. PICK g : Bounded(g, len, Seq(S), <<>>, step)
  <2> HIDE DEF step
  <2> QED
    BY <1>1, <1>4, BoundedRecursion
<1>6. ASSUME NEW i \in 1 .. len PROVE g[i] = Body(i, g[i - 1])
  <2>1. i - 1 \in Nat /\ (i - 1) + 1 = i /\ i - 1 \in 0 .. len
    BY <1>1
  <2>2. g[i] = step[<<i - 1, g[i - 1]>>] /\ g[i - 1] \in Seq(S)
    <3> HIDE DEF step
    <3> QED
      BY <1>5, <2>1 DEF Bounded
  <2> QED
    BY <2>1, <2>2
<1>7. g = rule(g)
  <2>1. g = [i \in 0 .. len |-> g[i]] /\ g[0] = <<>>
    BY <1>5 DEF Bounded
  <2>2. \A i \in 0 .. len : i # 0 => i \in 1 .. len
    BY <1>1
  <2> QED
    BY <1>6, <2>1, <2>2
<1>8. found = rule(found)
  <2> HIDE DEF rule
  <2> QED
    BY <1>7
<1> HIDE DEF found
<1>9. found[0] = <<>> /\ \A i \in 1 .. len : found[i] = Body(i, found[i - 1])
  <2>1. 0 \in 0 .. len /\ \A i \in 1 .. len : i \in 0 .. len /\ i # 0
    BY <1>1
  <2> QED
    BY <1>8, <2>1
<1>10. \A i \in 0 .. len : found[i] \in Seq(S)
  <2>1. \A i \in 1 .. len : found[i - 1] \in Seq(S) => found[i] \in Seq(S)
    BY <1>2, <1>9
  <2> QED
    BY <1>1, <1>9, <2>1, Stays
<1>11. found \in [0 .. len -> Seq(S)]
  BY <1>8, <1>10
<1> QED
  BY <1>3, <1>9, <1>11 DEF FindsEdges, len, Body

(* CountToNext, seen from the row that is counted. *)
LEMMA CountToHere ==
    ASSUME NEW x, NEW seq, NEW i \in Nat, i - 1 \in Nat
    PROVE  /\ CountTo(x, seq, i - 1) \in Nat
           /\ CountTo(x, seq, i) = CountTo(x, seq, i - 1) + (IF seq[i] = x THEN 1 ELSE 0)
<1> DEFINE k == i - 1
<1>1. k \in Nat /\ i = k + 1
  OBVIOUS
<1> HIDE DEF k
<1>2. CountTo(x, seq, k) \in Nat /\ CountTo(x, seq, k + 1)
              = CountTo(x, seq, k) + (IF seq[k + 1] = x THEN 1 ELSE 0)
  BY <1>1, CountToNext DEF OneMore
<1>3. CountTo(x, seq, k) \in Nat /\ CountTo(x, seq, i) = CountTo(x, seq, k) + (IF seq[i] = x
              THEN 1 ELSE 0)
  BY <1>1, <1>2
<1> QED
  BY <1>3 DEF k

(* UNION's loop leaves what was there as it was and adds the rest once. *)
LEMMA WithNewRight ==
    ASSUME NEW S, NEW l \in Seq(S), NEW r \in Seq(S)
    PROVE  /\ WithNew(l, r) \in Seq(S)
           /\ \A x : Count(x, WithNew(l, r)) =
                       IF Count(x, l) > 0 THEN Count(x, l) ELSE IF Count(x, r) > 0 THEN 1 ELSE 0
<1>1. PICK acc : AddsNew(acc, S, l, r)
  BY WithNewLoop
<1> DEFINE n == Len(r)
<1>2. n \in Nat
  OBVIOUS
<1> HIDE DEF n
<1>3. /\ acc \in [0 .. n -> Seq(S)] /\ acc[0] = l /\ acc[n] = WithNew(l, r)
      /\ \A i \in 1 .. n : acc[i] = IF Contains(acc[i - 1], r[i]) THEN acc[i - 1]
                    ELSE Append(acc[i - 1], r[i])
  BY <1>1 DEF AddsNew, n
<1>4. ASSUME NEW x
      PROVE  Count(x, acc[n]) = IF Count(x, l) > 0 THEN Count(x, l) ELSE IF Count(x, r) > 0
                    THEN 1 ELSE 0
  <2> DEFINE P == {i \in 0 .. n : Count(x, acc[i]) =
                     IF Count(x, l) > 0 THEN Count(x, l) ELSE IF CountTo(x, r, i) > 0 THEN 1 ELSE 0}
  <2>1. Count(x, l) \in Nat
    BY CountWhole
  <2>2. 0 \in P
    BY <1>2, <1>3, <2>1, CountFirst
  <2>3. ASSUME NEW i \in 1 .. n, i - 1 \in P PROVE i \in P
    <3>1. acc[i - 1] \in Seq(S) /\ r[i] \in S /\ i - 1 \in Nat /\ i \in 0 .. n
      <4>1. i \in 1 .. Len(r)
        BY DEF n
      <4> QED
        BY <1>2, <1>3, <4>1
    <3> DEFINE a == acc[i - 1]
               c == CountTo(x, r, i - 1)
    <3>2. c \in Nat /\ CountTo(x, r, i) = c + (IF r[i] = x THEN 1 ELSE 0)
      BY <3>1, CountToHere
    <3>3. Count(x, a) = IF Count(x, l) > 0 THEN Count(x, l) ELSE IF c > 0 THEN 1 ELSE 0
      BY <2>3
    <3>4. acc[i] = IF Contains(a, r[i]) THEN a ELSE Append(a, r[i])
      BY <1>3
    <3>5. Count(x, a) \in Nat /\ (Count(x, a) > 0 <=> Contains(a, x))
      BY <3>1, CountWhole
    <3>6. Count(x, Append(a, r[i])) = Count(x, a) + (IF x = r[i] THEN 1 ELSE 0)
      BY <3>1, CountAppend
    <3> HIDE DEF a, c
    <3>7. Count(x, acc[i]) = IF Count(x, l) > 0 THEN Count(x, l)
                  ELSE IF CountTo(x, r, i) > 0 THEN 1 ELSE 0
      <4>1. CASE x # r[i]
        <5>1. Count(x, acc[i]) = Count(x, a)
          BY <3>4, <3>5, <3>6, <4>1
        <5>2. CountTo(x, r, i) = c
          BY <3>2, <4>1
        <5> QED
          BY <3>3, <5>1, <5>2
      <4>2. CASE x = r[i]
        <5>1. CountTo(x, r, i) = c + 1 /\ c \in Nat
          BY <3>2, <4>2
        <5>2. Count(x, acc[i]) = IF Count(x, a) > 0 THEN Count(x, a) ELSE Count(x, a) + 1
          BY <3>4, <3>5, <3>6, <4>2
        <5> QED
          BY <2>1, <3>3, <3>5, <5>1, <5>2
      <4> QED
        BY <4>1, <4>2
    <3> QED
      BY <3>1, <3>7
  <2>4. n \in P
    <3> HIDE DEF P
    <3>1. 0 .. n \subseteq P
      BY <1>2, <2>2, <2>3, Climb
    <3> QED
      BY <1>2, <3>1
  <2>5. CountTo(x, r, n) = Count(x, r)
    BY CountWhole DEF n
  <2> QED
    BY <2>4, <2>5
<1> QED
  BY <1>2, <1>3, <1>4

(* EXCEPT keeps each row of the left side, as often as it is there,        *)
(* unless the right side has it.                                           *)
LEMMA ExceptRight ==
    ASSUME NEW S, NEW l \in Seq(S), NEW r \in Seq(S)
    PROVE  /\ Except(l, r) \in Seq(S)
           /\ \A x : Count(x, Except(l, r)) = IF Count(x, r) > 0 THEN 0 ELSE Count(x, l)
<1>1. PICK acc : Passes(acc, S, l, r)
  BY ExceptLoop
<1> DEFINE n == Len(l)
<1>2. n \in Nat
  OBVIOUS
<1> HIDE DEF n
<1>3. /\ acc \in [0 .. n -> Seq(S)] /\ acc[0] = <<>> /\ acc[n] = Except(l, r)
      /\ \A i \in 1 .. n : acc[i] = IF Contains(r, l[i]) THEN acc[i - 1] ELSE Append(acc[i - 1], l[i])
  BY <1>1 DEF Passes, n
<1>4. ASSUME NEW x
      PROVE  Count(x, acc[n]) = IF Count(x, r) > 0 THEN 0 ELSE Count(x, l)
  <2> DEFINE P == {i \in 0 .. n : Count(x, acc[i]) = IF Count(x, r) > 0 THEN 0 ELSE CountTo(x, l, i)}
  <2>1. Count(x, l) \in Nat /\ Count(x, r) \in Nat /\ (Count(x, r) > 0 <=> Contains(r, x))
    BY CountWhole
  <2>2. 0 \in P
    BY <1>2, <1>3, <2>1, CountFirst, CountEmpty
  <2>3. ASSUME NEW i \in 1 .. n, i - 1 \in P PROVE i \in P
    <3>1. acc[i - 1] \in Seq(S) /\ l[i] \in S /\ i - 1 \in Nat /\ i \in 0 .. n
      <4>1. i \in 1 .. Len(l)
        BY DEF n
      <4> QED
        BY <1>2, <1>3, <4>1
    <3> DEFINE a == acc[i - 1]
               c == CountTo(x, l, i - 1)
    <3>2. c \in Nat /\ CountTo(x, l, i) = c + (IF l[i] = x THEN 1 ELSE 0)
      BY <3>1, CountToHere
    <3>3. Count(x, a) = IF Count(x, r) > 0 THEN 0 ELSE c
      BY <2>3
    <3>4. acc[i] = IF Contains(r, l[i]) THEN a ELSE Append(a, l[i])
      BY <1>3
    <3>5. Count(x, a) \in Nat /\ (Count(x, a) > 0 <=> Contains(a, x))
      BY <3>1, CountWhole
    <3>6. Count(x, Append(a, l[i])) = Count(x, a) + (IF x = l[i] THEN 1 ELSE 0)
      BY <3>1, CountAppend
    <3> HIDE DEF a, c
    <3>7. Count(x, acc[i]) = IF Count(x, r) > 0 THEN 0 ELSE CountTo(x, l, i)
      <4>1. CASE x # l[i]
        <5>1. Count(x, acc[i]) = Count(x, a)
          BY <3>4, <3>5, <3>6, <4>1
        <5>2. CountTo(x, l, i) = c
          BY <3>2, <4>1
        <5> QED
          BY <3>3, <5>1, <5>2
      <4>2. CASE x = l[i]
        <5>1. CountTo(x, l, i) = c + 1 /\ c \in Nat
          BY <3>2, <4>2
        <5>2. Count(x, acc[i]) = IF Count(x, r) > 0 THEN Count(x, a) ELSE Count(x, a) + 1
          BY <2>1, <3>4, <3>5, <3>6, <4>2
        <5> QED
          BY <2>1, <3>3, <3>5, <5>1, <5>2
      <4> QED
        BY <4>1, <4>2
    <3> QED
      BY <3>1, <3>7
  <2>4. n \in P
    <3> HIDE DEF P
    <3>1. 0 .. n \subseteq P
      BY <1>2, <2>2, <2>3, Climb
    <3> QED
      BY <1>2, <3>1
  <2>5. CountTo(x, l, n) = Count(x, l)
    BY CountWhole DEF n
  <2> QED
    BY <2>4, <2>5
<1> QED
  BY <1>2, <1>3, <1>4

(* INTERSECT keeps each row both sides have, once. *)
LEMMA IntersectRight ==
    ASSUME NEW S, NEW l \in Seq(S), NEW r \in Seq(S)
    PROVE  /\ Intersect(l, r) \in Seq(S)
           /\ \A x : Count(x, Intersect(l, r)) = IF Count(x, r) > 0 /\ Count(x, l) > 0 THEN 1 ELSE 0
<1>1. PICK acc : Shares(acc, S, l, r)
  BY IntersectLoop
<1> DEFINE n == Len(l)
<1>2. n \in Nat
  OBVIOUS
<1> HIDE DEF n
<1>3. /\ acc \in [0 .. n -> Seq(S)] /\ acc[0] = <<>> /\ acc[n] = Intersect(l, r)
      /\ \A i \in 1 .. n : acc[i] = IF Contains(r, l[i]) /\ ~Contains(acc[i - 1], l[i])
                    THEN Append(acc[i - 1], l[i]) ELSE acc[i - 1]
  BY <1>1 DEF Shares, n
<1>4. ASSUME NEW x
      PROVE  Count(x, acc[n]) = IF Count(x, r) > 0 /\ Count(x, l) > 0 THEN 1 ELSE 0
  <2> DEFINE P == {i \in 0 .. n : Count(x, acc[i])
                = IF Count(x, r) > 0 /\ CountTo(x, l, i) > 0 THEN 1 ELSE 0}
  <2>1. Count(x, l) \in Nat /\ Count(x, r) \in Nat /\ (Count(x, r) > 0 <=> Contains(r, x))
    BY CountWhole
  <2>2. 0 \in P
    BY <1>2, <1>3, <2>1, CountFirst, CountEmpty
  <2>3. ASSUME NEW i \in 1 .. n, i - 1 \in P PROVE i \in P
    <3>1. acc[i - 1] \in Seq(S) /\ l[i] \in S /\ i - 1 \in Nat /\ i \in 0 .. n
      <4>1. i \in 1 .. Len(l)
        BY DEF n
      <4> QED
        BY <1>2, <1>3, <4>1
    <3> DEFINE a == acc[i - 1]
               c == CountTo(x, l, i - 1)
    <3>2. c \in Nat /\ CountTo(x, l, i) = c + (IF l[i] = x THEN 1 ELSE 0)
      BY <3>1, CountToHere
    <3>3. Count(x, a) = IF Count(x, r) > 0 /\ c > 0 THEN 1 ELSE 0
      BY <2>3
    <3>4. acc[i] = IF Contains(r, l[i]) /\ ~Contains(a, l[i]) THEN Append(a, l[i]) ELSE a
      BY <1>3
    <3>5. Count(x, a) \in Nat /\ (Count(x, a) > 0 <=> Contains(a, x))
      BY <3>1, CountWhole
    <3>6. Count(x, Append(a, l[i])) = Count(x, a) + (IF x = l[i] THEN 1 ELSE 0)
      BY <3>1, CountAppend
    <3> HIDE DEF a, c
    <3>7. Count(x, acc[i]) = IF Count(x, r) > 0 /\ CountTo(x, l, i) > 0 THEN 1 ELSE 0
      <4>1. CASE x # l[i]
        <5>1. Count(x, acc[i]) = Count(x, a)
          BY <3>4, <3>5, <3>6, <4>1
        <5>2. CountTo(x, l, i) = c
          BY <3>2, <4>1
        <5> QED
          BY <3>3, <5>1, <5>2
      <4>2. CASE x = l[i]
        <5>1. CountTo(x, l, i) = c + 1 /\ c \in Nat
          BY <3>2, <4>2
        <5>2. Count(x, acc[i]) = IF Count(x, r) > 0 /\ Count(x, a) = 0 THEN Count(x, a) + 1
                      ELSE Count(x, a)
          BY <2>1, <3>4, <3>5, <3>6, <4>2
        <5> QED
          BY <2>1, <3>3, <3>5, <5>1, <5>2
      <4> QED
        BY <4>1, <4>2
    <3> QED
      BY <3>1, <3>7
  <2>4. n \in P
    <3> HIDE DEF P
    <3>1. 0 .. n \subseteq P
      BY <1>2, <2>2, <2>3, Climb
    <3> QED
      BY <1>2, <3>1
  <2>5. CountTo(x, l, n) = Count(x, l)
    BY CountWhole DEF n
  <2> QED
    BY <2>4, <2>5
<1> QED
  BY <1>2, <1>3, <1>4

(* EXCEPT ALL takes a row away as often as the right side has it. *)
LEMMA ExceptAllRight ==
    ASSUME NEW S, NEW l \in Seq(S), NEW r \in Seq(S)
    PROVE  /\ ExceptAll(l, r) \in Seq(S)
           /\ \A x : Count(x, ExceptAll(l, r)) = IF Count(x, l) > Count(x, r)
                         THEN Count(x, l) - Count(x, r) ELSE 0
<1>1. PICK acc : TakesAway(acc, S, l, r)
  BY ExceptAllLoop
<1> DEFINE n == Len(r)
<1>2. n \in Nat
  OBVIOUS
<1> HIDE DEF n
<1>3. /\ acc \in [0 .. n -> Seq(S)] /\ acc[0] = l /\ acc[n] = ExceptAll(l, r)
      /\ \A i \in 1 .. n : acc[i] = IF Contains(acc[i - 1], r[i])
                    THEN RemoveAt(acc[i - 1], Earliest(r[i], acc[i - 1])) ELSE acc[i - 1]
  BY <1>1 DEF TakesAway, n
<1>4. ASSUME NEW x
      PROVE  Count(x, acc[n]) = IF Count(x, l) > Count(x, r) THEN Count(x, l) - Count(x, r) ELSE 0
  <2> DEFINE P == {i \in 0 .. n : Count(x, acc[i]) = IF Count(x, l) > CountTo(x, r, i)
                THEN Count(x, l) - CountTo(x, r, i) ELSE 0}
  <2>1. Count(x, l) \in Nat /\ Count(x, r) \in Nat /\ (Count(x, r) > 0 <=> Contains(r, x))
    BY CountWhole
  <2>2. 0 \in P
    BY <1>2, <1>3, <2>1, CountFirst, CountEmpty
  <2>3. ASSUME NEW i \in 1 .. n, i - 1 \in P PROVE i \in P
    <3>1. acc[i - 1] \in Seq(S) /\ r[i] \in S /\ i - 1 \in Nat /\ i \in 0 .. n
      <4>1. i \in 1 .. Len(r)
        BY DEF n
      <4> QED
        BY <1>2, <1>3, <4>1
    <3> DEFINE a == acc[i - 1]
               c == CountTo(x, r, i - 1)
    <3>2. c \in Nat /\ CountTo(x, r, i) = c + (IF r[i] = x THEN 1 ELSE 0)
      BY <3>1, CountToHere
    <3>3. Count(x, a) = IF Count(x, l) > c THEN Count(x, l) - c ELSE 0
      BY <2>3
    <3>4. acc[i] = IF Contains(a, r[i]) THEN RemoveAt(a, Earliest(r[i], a)) ELSE a
      BY <1>3
    <3>5. Count(x, a) \in Nat /\ (Count(x, a) > 0 <=> Contains(a, x))
      BY <3>1, CountWhole
    <3>6. Contains(a, r[i]) => Count(x, RemoveAt(a, Earliest(r[i], a)))
                  = Count(x, a) - (IF x = r[i] THEN 1 ELSE 0)
      <4> SUFFICES ASSUME Contains(a, r[i])
                   PROVE  Count(x, RemoveAt(a, Earliest(r[i], a)))
                                 = Count(x, a) - (IF x = r[i] THEN 1 ELSE 0)
        OBVIOUS
      <4>1. a \in Seq(S)
        BY <3>1
      <4> HIDE DEF a
      <4>2. Earliest(r[i], a) \in DOMAIN a /\ a[Earliest(r[i], a)] = r[i]
        BY <4>1, FirstPlace
      <4> QED
        BY <4>1, <4>2, CountRemoved
    <3> HIDE DEF a, c
    <3>7. Count(x, acc[i]) = IF Count(x, l) > CountTo(x, r, i)
                  THEN Count(x, l) - CountTo(x, r, i) ELSE 0
      <4>1. CASE x # r[i]
        <5>1. Count(x, acc[i]) = Count(x, a)
          BY <3>4, <3>5, <3>6, <4>1
        <5>2. CountTo(x, r, i) = c
          BY <3>2, <4>1
        <5> QED
          BY <3>3, <5>1, <5>2
      <4>2. CASE x = r[i]
        <5>1. CountTo(x, r, i) = c + 1 /\ c \in Nat
          BY <3>2, <4>2
        <5>2. Count(x, acc[i]) = IF Count(x, a) > 0 THEN Count(x, a) - 1 ELSE 0
          BY <2>1, <3>4, <3>5, <3>6, <4>2
        <5> QED
          BY <2>1, <3>3, <3>5, <5>1, <5>2
      <4> QED
        BY <4>1, <4>2
    <3> QED
      BY <3>1, <3>7
  <2>4. n \in P
    <3> HIDE DEF P
    <3>1. 0 .. n \subseteq P
      BY <1>2, <2>2, <2>3, Climb
    <3> QED
      BY <1>2, <3>1
  <2>5. CountTo(x, r, n) = Count(x, r)
    BY CountWhole DEF n
  <2> QED
    BY <2>4, <2>5
<1> QED
  BY <1>2, <1>3, <1>4

(* What is there after one more row was appended ... *)
LEMMA ContainsAppend ==
    ASSUME NEW S, NEW seq \in Seq(S), NEW y \in S, NEW x
    PROVE  Contains(Append(seq, y), x) <=> Contains(seq, x) \/ y = x
<1>1. Append(seq, y) \in Seq(S)
  OBVIOUS
<1>2. Count(x, Append(seq, y)) = Count(x, seq) + (IF x = y THEN 1 ELSE 0)
  BY CountAppend
<1>3. /\ Count(x, seq) \in Nat /\ (Count(x, seq) > 0 <=> Contains(seq, x))
      /\ (Count(x, Append(seq, y)) > 0 <=> Contains(Append(seq, y), x))
  BY <1>1, CountWhole
<1> QED
  BY <1>2, <1>3

(* ... and in two answers one after the other. *)
LEMMA ContainsConcat ==
    ASSUME NEW S, NEW l \in Seq(S), NEW r \in Seq(S), NEW x
    PROVE  Contains(l \o r, x) <=> Contains(l, x) \/ Contains(r, x)
<1>1. l \o r \in Seq(S)
  OBVIOUS
<1>2. Count(x, l \o r) = Count(x, l) + Count(x, r)
  BY CountConcat
<1>3. /\ Count(x, l) \in Nat /\ Count(x, r) \in Nat
      /\ (Count(x, l) > 0 <=> Contains(l, x)) /\ (Count(x, r) > 0 <=> Contains(r, x))
      /\ (Count(x, l \o r) > 0 <=> Contains(l \o r, x))
  BY <1>1, CountWhole
<1> QED
  BY <1>2, <1>3

(* found is where the edges from x lead. *)
LeadsTo(edges, x, found) ==
    \A y : Contains(found, y) <=> \E i \in 1 .. Len(edges) : edges[i][1] = x /\ edges[i][2] = y

(* The step finds all of them, for one row ... *)
LEMMA OnwardRight ==
    ASSUME NEW D, NEW S, NEW edges \in Seq(D \X S), NEW x
    PROVE  /\ Onward(edges, x) \in Seq(S)
           /\ LeadsTo(edges, x, Onward(edges, x))
<1>1. PICK acc : FindsEdges(acc, S, edges, x)
  BY OnwardLoop
<1> DEFINE n == Len(edges)
<1>2. n \in Nat /\ \A i \in 1 .. n : edges[i][2] \in S
  <2>1. \A i \in 1 .. n : edges[i] \in D \X S
    OBVIOUS
  <2> QED
    BY <2>1
<1> HIDE DEF n
<1>3. /\ acc \in [0 .. n -> Seq(S)] /\ acc[0] = <<>> /\ acc[n] = Onward(edges, x)
      /\ \A i \in 1 .. n : acc[i] = IF edges[i][1] = x THEN Append(acc[i - 1], edges[i][2])
                    ELSE acc[i - 1]
  BY <1>1 DEF FindsEdges, n
<1>4. ASSUME NEW y
      PROVE  Contains(acc[n], y) <=> \E i \in 1 .. n : edges[i][1] = x /\ edges[i][2] = y
  <2> DEFINE P == {i \in 0 .. n : Contains(acc[i], y)
                                    <=> \E j \in 1 .. i : edges[j][1] = x /\ edges[j][2] = y}
  <2>1. 0 \in P
    BY <1>2, <1>3 DEF Contains
  <2>2. ASSUME NEW i \in 1 .. n, i - 1 \in P PROVE i \in P
    <3>1. i - 1 \in 0 .. n /\ i \in 0 .. n /\ acc[i - 1] \in Seq(S) /\ edges[i][2] \in S
      BY <1>2, <1>3
    <3>2. \A j \in 1 .. i : j \in 1 .. i - 1 \/ j = i
      BY <1>2
    <3>3. 1 .. i - 1 \subseteq 1 .. i /\ i \in 1 .. i
      BY <1>2
    <3>4. Contains(acc[i - 1], y) <=> \E j \in 1 .. i - 1 : edges[j][1] = x /\ edges[j][2] = y
      BY <2>2
    <3> DEFINE a == acc[i - 1]
               e == edges[i]
    <3>5. acc[i] = IF e[1] = x THEN Append(a, e[2]) ELSE a
      BY <1>3
    <3>6. Contains(Append(a, e[2]), y) <=> Contains(a, y) \/ e[2] = y
      BY <3>1, ContainsAppend
    <3> HIDE DEF a
    <3>7. Contains(acc[i], y) <=> Contains(a, y) \/ (e[1] = x /\ e[2] = y)
      BY <3>5, <3>6
    <3>8. Contains(acc[i], y) <=> \E j \in 1 .. i : edges[j][1] = x /\ edges[j][2] = y
      BY <3>2, <3>3, <3>4, <3>7 DEF a
    <3> QED
      BY <3>1, <3>8
  <2>3. n \in P
    <3> HIDE DEF P
    <3>1. 0 .. n \subseteq P
      BY <1>2, <2>1, <2>2, Climb
    <3> QED
      BY <1>2, <3>1
  <2> QED
    BY <2>3
<1> QED
  BY <1>2, <1>3, <1>4 DEF n, LeadsTo

(* The loop of INTERSECT ALL, over the distinct rows of l. *)
Repeats(acc, S, once, l, r) ==
    /\ acc \in [0 .. Len(once) -> Seq(S)] /\ acc[0] = <<>> /\ acc[Len(once)] = IntersectAll(l, r)
    /\ \A i \in 1 .. Len(once) : acc[i] = acc[i - 1] \o [n \in 1 .. Fewer(once[i], l, r) |-> once[i]]

(* There is such a loop. *)
LEMMA IntersectAllLoop ==
    ASSUME NEW S, NEW l \in Seq(S), NEW r \in Seq(S), NEW once \in Seq(S), once = WithNew(<<>>, l)
    PROVE  \E acc : Repeats(acc, S, once, l, r)
<1> DEFINE len == Len(once)
           Body(i, a) == a \o [n \in 1 .. Fewer(once[i], l, r) |-> once[i]]
           step == [p \in Nat \X Seq(S) |-> IF p[1] + 1 \in 1 .. len
                         THEN Body(p[1] + 1, p[2]) ELSE p[2]]
           rule(acc) == [i \in 0 .. len |-> IF i = 0 THEN <<>> ELSE Body(i, acc[i - 1])]
           found == CHOOSE acc : acc = rule(acc)
<1>1. len \in Nat /\ <<>> \in Seq(S)
  OBVIOUS
<1>2. ASSUME NEW i \in 1 .. len, NEW a \in Seq(S) PROVE Body(i, a) \in Seq(S)
  <2>1. Fewer(once[i], l, r) \in Nat /\ once[i] \in S
    BY CountWhole DEF Fewer
  <2>2. [n \in 1 .. Fewer(once[i], l, r) |-> once[i]] \in Seq(S)
    <3> DEFINE k == Fewer(once[i], l, r)
    <3>1. k \in Nat
      BY <2>1
    <3> HIDE DEF k
    <3>2. [n \in 1 .. k |-> once[i]] \in Seq(S)
      BY <2>1, <3>1
    <3> QED
      BY <3>2 DEF k
  <2> QED
    BY <2>2
<1>3. found[len] = IntersectAll(l, r)
  BY DEF IntersectAll
<1> HIDE DEF len, Body
<1>4. step \in Steps(Seq(S))
  BY <1>2 DEF Steps
<1>5. PICK g : Bounded(g, len, Seq(S), <<>>, step)
  <2> HIDE DEF step
  <2> QED
    BY <1>1, <1>4, BoundedRecursion
<1>6. ASSUME NEW i \in 1 .. len PROVE g[i] = Body(i, g[i - 1])
  <2>1. i - 1 \in Nat /\ (i - 1) + 1 = i /\ i - 1 \in 0 .. len
    BY <1>1
  <2>2. g[i] = step[<<i - 1, g[i - 1]>>] /\ g[i - 1] \in Seq(S)
    <3> HIDE DEF step
    <3> QED
      BY <1>5, <2>1 DEF Bounded
  <2> QED
    BY <2>1, <2>2
<1>7. g = rule(g)
  <2>1. g = [i \in 0 .. len |-> g[i]] /\ g[0] = <<>>
    BY <1>5 DEF Bounded
  <2>2. \A i \in 0 .. len : i # 0 => i \in 1 .. len
    BY <1>1
  <2> QED
    BY <1>6, <2>1, <2>2
<1>8. found = rule(found)
  <2> HIDE DEF rule
  <2> QED
    BY <1>7
<1> HIDE DEF found
<1>9. found[0] = <<>> /\ \A i \in 1 .. len : found[i] = Body(i, found[i - 1])
  <2>1. 0 \in 0 .. len /\ \A i \in 1 .. len : i \in 0 .. len /\ i # 0
    BY <1>1
  <2> QED
    BY <1>8, <2>1
<1>10. \A i \in 0 .. len : found[i] \in Seq(S)
  <2>1. \A i \in 1 .. len : found[i - 1] \in Seq(S) => found[i] \in Seq(S)
    BY <1>2, <1>9
  <2> QED
    BY <1>1, <1>9, <2>1, Stays
<1>11. found \in [0 .. len -> Seq(S)]
  BY <1>8, <1>10
<1> QED
  BY <1>3, <1>9, <1>11 DEF Repeats, len, Body

(* The nested loop of the step: what it has found after each row of the    *)
(* CTE.                                                                    *)
Follows(acc, S, edges, cte) ==
    /\ acc \in [0 .. Len(cte) -> Seq(S)] /\ acc[0] = <<>> /\ acc[Len(cte)] = Step(edges, cte)
    /\ \A i \in 1 .. Len(cte) : acc[i] = acc[i - 1] \o Onward(edges, cte[i])

(* There is such a loop. *)
LEMMA StepLoop ==
    ASSUME NEW D, NEW S, NEW edges \in Seq(D \X S), NEW C, NEW cte \in Seq(C)
    PROVE  \E acc : Follows(acc, S, edges, cte)
<1> DEFINE len == Len(cte)
           Body(i, a) == a \o Onward(edges, cte[i])
           step == [p \in Nat \X Seq(S) |-> IF p[1] + 1 \in 1 .. len
                         THEN Body(p[1] + 1, p[2]) ELSE p[2]]
           rule(acc) == [i \in 0 .. len |-> IF i = 0 THEN <<>> ELSE Body(i, acc[i - 1])]
           found == CHOOSE acc : acc = rule(acc)
<1>1. len \in Nat /\ <<>> \in Seq(S)
  OBVIOUS
<1>2. ASSUME NEW i \in 1 .. len, NEW a \in Seq(S) PROVE Body(i, a) \in Seq(S)
  <2>1. Onward(edges, cte[i]) \in Seq(S)
    BY OnwardRight
  <2> QED
    BY <2>1
<1>3. found[len] = Step(edges, cte)
  BY DEF Step
<1> HIDE DEF len, Body
<1>4. step \in Steps(Seq(S))
  BY <1>2 DEF Steps
<1>5. PICK g : Bounded(g, len, Seq(S), <<>>, step)
  <2> HIDE DEF step
  <2> QED
    BY <1>1, <1>4, BoundedRecursion
<1>6. ASSUME NEW i \in 1 .. len PROVE g[i] = Body(i, g[i - 1])
  <2>1. i - 1 \in Nat /\ (i - 1) + 1 = i /\ i - 1 \in 0 .. len
    BY <1>1
  <2>2. g[i] = step[<<i - 1, g[i - 1]>>] /\ g[i - 1] \in Seq(S)
    <3> HIDE DEF step
    <3> QED
      BY <1>5, <2>1 DEF Bounded
  <2> QED
    BY <2>1, <2>2
<1>7. g = rule(g)
  <2>1. g = [i \in 0 .. len |-> g[i]] /\ g[0] = <<>>
    BY <1>5 DEF Bounded
  <2>2. \A i \in 0 .. len : i # 0 => i \in 1 .. len
    BY <1>1
  <2> QED
    BY <1>6, <2>1, <2>2
<1>8. found = rule(found)
  <2> HIDE DEF rule
  <2> QED
    BY <1>7
<1> HIDE DEF found
<1>9. found[0] = <<>> /\ \A i \in 1 .. len : found[i] = Body(i, found[i - 1])
  <2>1. 0 \in 0 .. len /\ \A i \in 1 .. len : i \in 0 .. len /\ i # 0
    BY <1>1
  <2> QED
    BY <1>8, <2>1
<1>10. \A i \in 0 .. len : found[i] \in Seq(S)
  <2>1. \A i \in 1 .. len : found[i - 1] \in Seq(S) => found[i] \in Seq(S)
    BY <1>2, <1>9
  <2> QED
    BY <1>1, <1>9, <2>1, Stays
<1>11. found \in [0 .. len -> Seq(S)]
  BY <1>8, <1>10
<1> QED
  BY <1>3, <1>9, <1>11 DEF Follows, len, Body

(* found is where the edges lead that start in the CTE. *)
LeadsFrom(edges, cte, found) ==
    \A y : Contains(found, y) <=> \E i \in 1 .. Len(edges) : Contains(cte, edges[i][1]) /\ edges[i][2] = y

(* ... and for the whole CTE. *)
LEMMA StepRight ==
    ASSUME NEW D, NEW S, NEW edges \in Seq(D \X S), NEW C, NEW cte \in Seq(C)
    PROVE  /\ Step(edges, cte) \in Seq(S)
           /\ LeadsFrom(edges, cte, Step(edges, cte))
<1>1. PICK acc : Follows(acc, S, edges, cte)
  BY StepLoop
<1> DEFINE n == Len(cte)
           m == Len(edges)
           Leads(y, k) == \E i \in 1 .. m : (\E j \in 1 .. k : cte[j] = edges[i][1]) /\ edges[i][2] = y
<1>2. n \in Nat
  OBVIOUS
<1> HIDE DEF n, m
<1>3. /\ acc \in [0 .. n -> Seq(S)] /\ acc[0] = <<>> /\ acc[n] = Step(edges, cte)
      /\ \A i \in 1 .. n : acc[i] = acc[i - 1] \o Onward(edges, cte[i])
  BY <1>1 DEF Follows, n
<1>4. ASSUME NEW y
      PROVE  Contains(acc[n], y) <=> Leads(y, n)
  <2> DEFINE P == {i \in 0 .. n : Contains(acc[i], y) <=> Leads(y, i)}
  <2>1. 0 \in P
    BY <1>2, <1>3 DEF Contains
  <2>2. ASSUME NEW i \in 1 .. n, i - 1 \in P PROVE i \in P
    <3>1. i - 1 \in 0 .. n /\ i \in 0 .. n /\ acc[i - 1] \in Seq(S)
      BY <1>2, <1>3
    <3>2. \A j \in 1 .. i : j \in 1 .. i - 1 \/ j = i
      BY <1>2
    <3>3. 1 .. i - 1 \subseteq 1 .. i /\ i \in 1 .. i
      BY <1>2
    <3>4. Contains(acc[i - 1], y) <=> Leads(y, i - 1)
      BY <2>2
    <3> DEFINE more == Onward(edges, cte[i])
               before == acc[i - 1]
    <3>5. more \in Seq(S) /\ (Contains(more, y)
                  <=> \E j \in 1 .. m : edges[j][1] = cte[i] /\ edges[j][2] = y)
      <4> DEFINE x == cte[i]
      <4> HIDE DEF x
      <4>1. Onward(edges, x) \in Seq(S) /\ LeadsTo(edges, x, Onward(edges, x))
        BY OnwardRight
      <4>2. \A z : Contains(Onward(edges, x), z)
                    <=> \E j \in 1 .. Len(edges) : edges[j][1] = x /\ edges[j][2] = z
        BY <4>1 DEF LeadsTo
      <4>3. Contains(Onward(edges, x), y)
                    <=> \E j \in 1 .. Len(edges) : edges[j][1] = x /\ edges[j][2] = y
        BY <4>2
      <4> QED
        BY <4>1, <4>3 DEF x, m
    <3>6. Contains(acc[i], y) <=> Contains(acc[i - 1], y) \/ Contains(more, y)
      <4>1. acc[i] = before \o more
        BY <1>3
      <4>2. before \in Seq(S) /\ more \in Seq(S)
        BY <3>1, <3>5
      <4> HIDE DEF more, before
      <4>3. Contains(before \o more, y) <=> Contains(before, y) \/ Contains(more, y)
        BY <4>2, ContainsConcat
      <4> QED
        BY <4>1, <4>3 DEF before
    <3> HIDE DEF more, before
    <3>7. Leads(y, i) <=> Leads(y, i - 1) \/ \E j \in 1 .. m : edges[j][1] = cte[i] /\ edges[j][2] = y
      BY <3>2, <3>3, Zenon
    <3> QED
      BY <3>1, <3>4, <3>5, <3>6, <3>7
  <2>3. n \in P
    <3> HIDE DEF P
    <3>1. 0 .. n \subseteq P
      BY <1>2, <2>1, <2>2, Climb
    <3> QED
      BY <1>2, <3>1
  <2> QED
    BY <2>3
<1>5. \A y : Leads(y, n) <=> \E i \in 1 .. m : Contains(cte, edges[i][1]) /\ edges[i][2] = y
  BY DEF Contains, n
<1>6. Step(edges, cte) \in Seq(S)
  BY <1>2, <1>3
<1>7. \A y : Contains(Step(edges, cte), y)
              <=> \E i \in 1 .. m : Contains(cte, edges[i][1]) /\ edges[i][2] = y
  <2> HIDE DEF Leads
  <2> QED
    BY <1>3, <1>4, <1>5
<1> QED
  BY <1>6, <1>7, Zenon DEF m, LeadsFrom

(* Rows are distinct when none is there twice. *)
LEMMA CountInjective ==
    ASSUME NEW S, NEW seq \in Seq(S)
    PROVE  IsInjective(seq) <=> \A x : Count(x, seq) <= 1
<1>1. DOMAIN seq = 1 .. Len(seq) /\ Len(seq) \in Nat /\ IsFiniteSet(1 .. Len(seq))
  BY FS_Interval
<1> DEFINE T(x) == {i \in DOMAIN seq : seq[i] = x}
<1>2. \A x : IsFiniteSet(T(x)) /\ Count(x, seq) = Cardinality(T(x)) /\ Cardinality(T(x)) \in Nat
  <2> TAKE x
  <2>1. T(x) \subseteq 1 .. Len(seq)
    BY <1>1
  <2>2. IsFiniteSet(T(x))
    <3> HIDE DEF T
    <3> QED
      BY <1>1, <2>1, FS_Subset
  <2> QED
    BY <2>2, FS_CardinalityType DEF Count
<1>3. ASSUME IsInjective(seq), NEW x PROVE Count(x, seq) <= 1
  <2>1. CASE T(x) = {}
    BY <1>2, <2>1, FS_EmptySet
  <2>2. CASE T(x) # {}
    <3>1. PICK i : i \in T(x)
      BY <2>2
    <3>2. T(x) = {i}
      BY <1>3, <3>1 DEF IsInjective
    <3>3. Cardinality({i}) = 1
      BY FS_Singleton
    <3> QED
      BY <1>2, <3>2, <3>3
  <2> QED
    BY <2>1, <2>2
<1>4. ASSUME \A x : Count(x, seq) <= 1 PROVE IsInjective(seq)
  <2> SUFFICES ASSUME NEW i \in DOMAIN seq, NEW j \in DOMAIN seq, seq[i] = seq[j], i # j PROVE FALSE
    BY DEF IsInjective
  <2> DEFINE x == seq[i]
  <2>1. {i, j} \subseteq T(x)
    OBVIOUS
  <2>2. Cardinality({i} \cup {j}) = Cardinality({i}) + 1
    <3> DEFINE A == {i}
    <3>1. IsFiniteSet(A) /\ j \notin A
      BY FS_Singleton
    <3> HIDE DEF A
    <3>2. Cardinality(A \cup {j}) = Cardinality(A) + 1
      BY <3>1, FS_AddElement
    <3> QED
      BY <3>2 DEF A
  <2>3. Cardinality({i, j}) = 2
    <3>1. {i, j} = {i} \cup {j} /\ Cardinality({i}) = 1
      BY FS_Singleton
    <3> QED
      BY <2>2, <3>1
  <2>4. Cardinality({i, j}) <= Cardinality(T(x))
    <3> HIDE DEF T, x
    <3> QED
      BY <1>2, <2>1, FS_Subset
  <2>5. Count(x, seq) = Cardinality(T(x)) /\ Cardinality(T(x)) \in Nat /\ Count(x, seq) <= 1
    BY <1>2, <1>4
  <2> HIDE DEF T, x
  <2> QED
    BY <2>3, <2>4, <2>5
<1> QED
  BY <1>3, <1>4

(* More rows do not count less. *)
LEMMA CountToGrows ==
    ASSUME NEW x, NEW seq, NEW n \in Nat, NEW i \in 0 .. n
    PROVE  CountTo(x, seq, i) <= CountTo(x, seq, n)
<1>1. IsFiniteSet(1 .. n)
  BY FS_Interval
<1>2. Places(x, seq, n) \subseteq 1 .. n /\ Places(x, seq, i) \subseteq Places(x, seq, n)
  BY DEF Places
<1>3. IsFiniteSet(Places(x, seq, n))
  BY <1>1, <1>2, FS_Subset
<1> QED
  BY <1>2, <1>3, FS_Subset DEF CountTo

(* INTERSECT ALL keeps a row as often as the side that has it less often. *)
LEMMA IntersectAllRight ==
    ASSUME NEW S, NEW l \in Seq(S), NEW r \in Seq(S)
    PROVE  /\ IntersectAll(l, r) \in Seq(S)
           /\ \A x : Count(x, IntersectAll(l, r)) = Fewer(x, l, r)
<1> DEFINE once == WithNew(<<>>, l)
           n == Len(once)
<1>1. once \in Seq(S) /\ \A x : Count(x, once) = IF Count(x, l) > 0 THEN 1 ELSE 0
  <2>1. <<>> \in Seq(S)
    OBVIOUS
  <2>2. /\ WithNew(<<>>, l) \in Seq(S)
        /\ \A x : Count(x, WithNew(<<>>, l)) =
                    IF Count(x, <<>>) > 0 THEN Count(x, <<>>) ELSE IF Count(x, l) > 0 THEN 1 ELSE 0
    BY <2>1, WithNewRight
  <2> QED
    BY <2>2, CountEmpty
<1>2. PICK acc : Repeats(acc, S, once, l, r)
  BY <1>1, IntersectAllLoop
<1> HIDE DEF once
<1>3. n \in Nat /\ \A i \in 1 .. n : once[i] \in S
  BY <1>1
<1>4. /\ acc \in [0 .. n -> Seq(S)] /\ acc[0] = <<>> /\ acc[n] = IntersectAll(l, r)
      /\ \A i \in 1 .. n : acc[i] = acc[i - 1] \o [k \in 1 .. Fewer(once[i], l, r) |-> once[i]]
  BY <1>2 DEF Repeats
<1>5. ASSUME NEW x
      PROVE  Count(x, acc[n]) = Fewer(x, l, r)
  <2> DEFINE w == Fewer(x, l, r)
             P == {i \in 0 .. n : Count(x, acc[i]) = IF CountTo(x, once, i) > 0 THEN w ELSE 0}
  <2>0. Count(x, l) \in Nat /\ Count(x, r) \in Nat
    BY CountWhole
  <2>1. w \in Nat
    BY <2>0 DEF Fewer
  <2>2. CountTo(x, once, n) = Count(x, once)
    BY <1>1, CountWhole
  <2> HIDE DEF n
  <2>3. 0 \in P
    BY <1>3, <1>4, CountFirst, CountEmpty
  <2>4. ASSUME NEW i \in 1 .. n, i - 1 \in P PROVE i \in P
    <3> DEFINE a == acc[i - 1]
               c == CountTo(x, once, i - 1)
               y == once[i]
               k == Fewer(y, l, r)
               more == [j \in 1 .. k |-> y]
    <3>1. a \in Seq(S) /\ y \in S /\ i - 1 \in Nat /\ i \in 0 .. n
      BY <1>3, <1>4
    <3>2. c \in Nat /\ CountTo(x, once, i) = c + (IF y = x THEN 1 ELSE 0)
      BY <3>1, CountToHere
    <3>3. CountTo(x, once, i) <= 1
      <4>1. Count(x, once) <= 1
        BY <1>1
      <4>2. CountTo(x, once, i) <= CountTo(x, once, n)
        BY <1>3, <3>1, CountToGrows
      <4>3. CountTo(x, once, n) \in Nat /\ CountTo(x, once, i) \in Nat
        BY <1>3, <3>1, CountToNext
      <4> QED
        BY <2>2, <4>1, <4>2, <4>3
    <3>4. Count(x, a) = IF c > 0 THEN w ELSE 0
      BY <2>4
    <3>5. acc[i] = a \o more
      BY <1>4
    <3>6. k \in Nat
      BY <3>1, CountWhole DEF Fewer
    <3> HIDE DEF a, c, k, y
    <3>7. more \in Seq(S)
      BY <3>1, <3>6
    <3>8. Count(x, more) = IF x = y THEN k ELSE 0
      BY <3>6, CountRepeated
    <3> HIDE DEF more
    <3>9. Count(x, a \o more) = Count(x, a) + Count(x, more)
      BY <3>1, <3>7, CountConcat
    <3>10. Count(x, acc[i]) = IF CountTo(x, once, i) > 0 THEN w ELSE 0
      <4> HIDE DEF w
      <4>1. CASE x # y
        BY <2>1, <3>2, <3>4, <3>5, <3>8, <3>9, <4>1
      <4>2. CASE x = y
        <5>1. c = 0
          BY <3>2, <3>3, <4>2
        <5>2. k = w
          BY <4>2 DEF k, w
        <5> QED
          BY <2>1, <3>2, <3>4, <3>5, <3>8, <3>9, <4>2, <5>1, <5>2
      <4> QED
        BY <4>1, <4>2
    <3> QED
      BY <3>1, <3>10
  <2>5. n \in P
    <3> HIDE DEF P
    <3>1. 0 .. n \subseteq P
      BY <1>3, <2>3, <2>4, Climb
    <3> QED
      BY <1>3, <3>1
  <2>6. Count(x, acc[n]) = IF Count(x, once) > 0 THEN w ELSE 0
    BY <2>2, <2>5
  <2>7. Count(x, once) = IF Count(x, l) > 0 THEN 1 ELSE 0
    BY <1>1
  <2>8. Count(x, l) = 0 => w = 0
    BY <2>0 DEF Fewer
  <2> QED
    BY <2>0, <2>6, <2>7, <2>8
<1> QED
  BY <1>3, <1>4, <1>5

(* The set operations of the parser. *)
Operations == {"union", "union all", "except", "except all", "intersect", "intersect all"}

(* Every set operation answers each row as often as SQL says, for any two  *)
(* answers, where EXCEPT is given a left side of distinct rows:            *)
(* exec_union's loops over lists of rows, with their positions and         *)
(* removals, are the operations on bags (union.rs:48-141).                 *)
THEOREM SetOperationsCorrect ==
    ASSUME NEW S, NEW l \in Seq(S), NEW r \in Seq(S), NEW op \in Operations,
           op = "except" => IsInjective(l)
    PROVE  Combine(op, l, r) \in Seq(S) /\ CombineRight(op, l, r)
<1>1. \A x : Count(x, l) \in Nat /\ Count(x, r) \in Nat
  BY CountWhole
<1>2. ASSUME op = "union all"
      PROVE  l \o r \in Seq(S) /\ \A x : Count(x, l \o r) = Count(x, l) + Count(x, r)
  BY CountConcat
<1>3. ASSUME op = "union"
      PROVE  /\ WithNew(WithNew(<<>>, l), r) \in Seq(S)
             /\ \A x : Count(x, WithNew(WithNew(<<>>, l), r))
                           = IF Count(x, l) + Count(x, r) > 0 THEN 1 ELSE 0
  <2> DEFINE once == WithNew(<<>>, l)
  <2>1. <<>> \in Seq(S)
    OBVIOUS
  <2>2. /\ once \in Seq(S)
        /\ \A x : Count(x, once) = IF Count(x, <<>>) > 0 THEN Count(x, <<>>)
                      ELSE IF Count(x, l) > 0 THEN 1 ELSE 0
    BY <2>1, WithNewRight
  <2> HIDE DEF once
  <2>3. /\ WithNew(once, r) \in Seq(S)
        /\ \A x : Count(x, WithNew(once, r)) = IF Count(x, once) > 0 THEN Count(x, once)
                      ELSE IF Count(x, r) > 0 THEN 1 ELSE 0
    BY <2>2, WithNewRight
  <2>4. \A x : Count(x, WithNew(once, r)) = IF Count(x, l) + Count(x, r) > 0 THEN 1 ELSE 0
    BY <1>1, <2>2, <2>3, CountEmpty
  <2> QED
    BY <2>3, <2>4 DEF once
<1>4. ASSUME op = "except"
      PROVE  /\ Except(l, r) \in Seq(S)
             /\ \A x : Count(x, Except(l, r)) = IF Count(x, l) > 0 /\ Count(x, r) = 0 THEN 1 ELSE 0
  <2>1. \A x : Count(x, l) <= 1
    BY <1>4, CountInjective
  <2> QED
    BY <1>1, <2>1, ExceptRight
<1> HIDE DEF Operations
<1> DEFINE result == Combine(op, l, r)
<1>5. result \in Seq(S) /\ \A x : Count(x, result) = Expected(op, Count(x, l), Count(x, r))
  <2>1. CASE op = "union all"
    BY <1>2, <2>1 DEF Combine, Expected
  <2>2. CASE op = "union"
    BY <1>3, <2>2 DEF Combine, Expected
  <2>3. CASE op = "except"
    BY <1>4, <2>3 DEF Combine, Expected
  <2>4. CASE op = "except all"
    BY <2>4, ExceptAllRight DEF Combine, Expected
  <2>5. CASE op = "intersect"
    <3>1. /\ Intersect(l, r) \in Seq(S)
          /\ \A x : Count(x, Intersect(l, r)) = IF Count(x, r) > 0 /\ Count(x, l) > 0 THEN 1 ELSE 0
      BY IntersectRight
    <3> QED
      BY <2>5, <3>1 DEF Combine, Expected
  <2>6. CASE op = "intersect all"
    <3>1. /\ IntersectAll(l, r) \in Seq(S)
          /\ \A x : Count(x, IntersectAll(l, r)) = IF Count(x, l) < Count(x, r)
                        THEN Count(x, l) ELSE Count(x, r)
      BY IntersectAllRight DEF Fewer
    <3> QED
      BY <2>6, <3>1 DEF Combine, Expected
  <2> QED
    BY <2>1, <2>2, <2>3, <2>4, <2>5, <2>6 DEF Operations
<1> QED
  BY <1>5 DEF CombineRight

-----------------------------------------------------------------------------
(* Recursive CTEs. *)

(* Distinct rows are as many as their set has members. *)
LEMMA DistinctLength ==
    ASSUME NEW S, NEW seq \in Seq(S), IsInjective(seq)
    PROVE  IsFiniteSet(ToSet(seq)) /\ Cardinality(ToSet(seq)) = Len(seq)
<1> DEFINE n == Len(seq)
           upto(i) == {seq[j] : j \in 1 .. i}
           P == {i \in 0 .. n : IsFiniteSet(upto(i)) /\ Cardinality(upto(i)) = i}
<1>1. n \in Nat /\ DOMAIN seq = 1 .. n
  OBVIOUS
<1>2. \A i, j \in 1 .. n : seq[i] = seq[j] => i = j
  BY <1>1 DEF IsInjective
<1> HIDE DEF n
<1>3. 0 \in P
  <2>1. upto(0) = {}
    OBVIOUS
  <2>2. IsFiniteSet({}) /\ Cardinality({}) = 0
    BY FS_EmptySet
  <2>3. 0 \in 0 .. n
    BY <1>1
  <2> HIDE DEF upto
  <2> QED
    BY <2>1, <2>2, <2>3
<1>4. ASSUME NEW i \in 1 .. n, i - 1 \in P PROVE i \in P
  <2>1. upto(i) = upto(i - 1) \cup {seq[i]}
    <3>1. \A j \in 1 .. i : j \in 1 .. i - 1 \/ j = i
      BY <1>1
    <3>2. i \in 1 .. i /\ 1 .. i - 1 \subseteq 1 .. i
      BY <1>1
    <3> QED
      BY <3>1, <3>2
  <2>2. seq[i] \notin upto(i - 1)
    <3> SUFFICES ASSUME NEW j \in 1 .. i - 1, seq[j] = seq[i] PROVE FALSE
      OBVIOUS
    <3>1. j \in 1 .. n /\ j # i
      BY <1>1
    <3> QED
      BY <1>2, <3>1
  <2>3. IsFiniteSet(upto(i - 1)) /\ Cardinality(upto(i - 1)) = i - 1
    BY <1>4
  <2> HIDE DEF upto
  <2>4. IsFiniteSet(upto(i)) /\ Cardinality(upto(i)) = (i - 1) + 1
    <3> DEFINE T == upto(i - 1)
               x == seq[i]
    <3>1. IsFiniteSet(T) /\ x \notin T /\ upto(i) = T \cup {x} /\ Cardinality(T) = i - 1
      BY <2>1, <2>2, <2>3
    <3> HIDE DEF T, x
    <3>2. IsFiniteSet(T \cup {x}) /\ Cardinality(T \cup {x}) = Cardinality(T) + 1
      BY <3>1, FS_AddElement
    <3> QED
      BY <3>1, <3>2
  <2>5. i \in 0 .. n /\ (i - 1) + 1 = i
    BY <1>1
  <2> QED
    BY <2>4, <2>5
<1>5. n \in P
  <2> HIDE DEF P
  <2>1. 0 .. n \subseteq P
    BY <1>1, <1>3, <1>4, Climb
  <2> QED
    BY <1>1, <2>1
<1>6. upto(n) = ToSet(seq)
  BY <1>1 DEF ToSet
<1> QED
  BY <1>5, <1>6 DEF n

(* What a recursive CTE is between two turns. *)
Loops(S) == [cte : Seq(S), done : BOOLEAN]

(* now is the anchor's rows and those the step answers, each once. *)
IsNow(S, anchor, edges, cte, now) ==
    now \in Seq(S) /\ IsInjective(now) /\ ToSet(now) = ToSet(anchor) \cup ToSet(Step(edges, cte))

(* That is what a turn evaluates. *)
LEMMA NowRight ==
    ASSUME NEW D, NEW S, NEW anchor \in Seq(S), NEW edges \in Seq(D \X S), NEW cte \in Seq(S)
    PROVE  IsNow(S, anchor, edges, cte, Combine("union", anchor, Step(edges, cte)))
<1> DEFINE next == Step(edges, cte)
           now == Combine("union", anchor, next)
           op == "union"
<1>1. next \in Seq(S)
  BY StepRight
<1>2. op \in Operations /\ op # "except"
  BY DEF Operations
<1> HIDE DEF next
<1>3. Combine(op, anchor, next) \in Seq(S) /\ CombineRight(op, anchor, next)
  <2> HIDE DEF op
  <2> QED
    BY <1>1, <1>2, SetOperationsCorrect
<1>4. now \in Seq(S)
  BY <1>3
<1>5. \A x \in ToSet(anchor) \cup ToSet(next) \cup ToSet(now) :
        Count(x, now) = IF Count(x, anchor) + Count(x, next) > 0 THEN 1 ELSE 0
  BY <1>3 DEF CombineRight, Expected
<1> HIDE DEF now
<1>6. \A x : /\ Count(x, anchor) \in Nat /\ (Count(x, anchor) > 0 <=> x \in ToSet(anchor))
             /\ Count(x, next) \in Nat /\ (Count(x, next) > 0 <=> x \in ToSet(next))
             /\ Count(x, now) \in Nat /\ (Count(x, now) > 0 <=> x \in ToSet(now))
  BY <1>1, <1>4, CountWhole
<1>7. \A x : Count(x, now) <= 1
  BY <1>5, <1>6
<1>8. \A x : x \in ToSet(now) <=> x \in ToSet(anchor) \cup ToSet(next)
  BY <1>5, <1>6
<1> QED
  BY <1>4, <1>7, <1>8, CountInjective DEF now, next, IsNow

(* What the CTE has after a turn that found more. *)
LEMMA MoreRight ==
    ASSUME NEW S, NEW cte \in Seq(S), NEW now \in Seq(S), IsInjective(cte)
    PROVE  /\ WithNew(cte, now) \in Seq(S) /\ IsInjective(WithNew(cte, now))
           /\ ToSet(WithNew(cte, now)) = ToSet(cte) \cup ToSet(now)
<1> DEFINE more == WithNew(cte, now)
<1>1. /\ more \in Seq(S)
      /\ \A x : Count(x, more) = IF Count(x, cte) > 0 THEN Count(x, cte)
                    ELSE IF Count(x, now) > 0 THEN 1 ELSE 0
  BY WithNewRight
<1> HIDE DEF more
<1>2. \A x : /\ Count(x, cte) \in Nat /\ (Count(x, cte) > 0 <=> x \in ToSet(cte))
             /\ Count(x, now) \in Nat /\ (Count(x, now) > 0 <=> x \in ToSet(now))
             /\ Count(x, more) \in Nat /\ (Count(x, more) > 0 <=> x \in ToSet(more))
  BY <1>1, CountWhole
<1>3. \A x : Count(x, cte) <= 1
  BY CountInjective
<1>4. \A x : Count(x, more) <= 1
  BY <1>1, <1>2, <1>3
<1>5. \A x : x \in ToSet(more) <=> x \in ToSet(cte) \cup ToSet(now)
  BY <1>1, <1>2
<1> QED
  BY <1>1, <1>4, <1>5, CountInjective DEF more

(* A turn leaves a CTE. *)
LEMMA TurnTyped ==
    ASSUME NEW D, NEW S, NEW anchor \in Seq(S), NEW edges \in Seq(D \X S), NEW loop \in Loops(S)
    PROVE  Turn("union", anchor, edges, loop) \in Loops(S)
<1> DEFINE now == Combine("union", anchor, Step(edges, loop.cte))
<1>1. loop.cte \in Seq(S) /\ loop.done \in BOOLEAN
  BY DEF Loops
<1>2. now \in Seq(S)
  BY <1>1, NowRight DEF IsNow
<1>3. WithNew(loop.cte, now) \in Seq(S)
  <2> HIDE DEF now
  <2> QED
    BY <1>1, <1>2, WithNewRight
<1> QED
  BY <1>1, <1>3 DEF Turn, Loops

(* The loop of WITH RECURSIVE, turn by turn. *)
Turns(acc, S, anchor, edges) ==
    /\ acc \in [0 .. MaxIters -> Loops(S)] /\ acc[0] = [cte |-> anchor, done |-> FALSE] /\ acc[MaxIters] = Recursive("union", anchor, edges)
    /\ \A i \in 1 .. MaxIters : acc[i] = Turn("union", anchor, edges, acc[i - 1])

(* There is such a loop. *)
LEMMA RecursiveLoop ==
    ASSUME NEW D, NEW S, NEW anchor \in Seq(S), NEW edges \in Seq(D \X S)
    PROVE  \E acc : Turns(acc, S, anchor, edges)
<1> DEFINE len == MaxIters
           Body(i, a) == Turn("union", anchor, edges, a)
           step == [p \in Nat \X Loops(S) |-> IF p[1] + 1 \in 1 .. len
                         THEN Body(p[1] + 1, p[2]) ELSE p[2]]
           rule(acc) == [i \in 0 .. len |-> IF i = 0 THEN [cte |-> anchor, done |-> FALSE]
                         ELSE Body(i, acc[i - 1])]
           found == CHOOSE acc : acc = rule(acc)
<1>1. len \in Nat /\ [cte |-> anchor, done |-> FALSE] \in Loops(S)
  BY SetOperationsAssumption DEF Loops
<1>2. ASSUME NEW i \in 1 .. len, NEW a \in Loops(S) PROVE Body(i, a) \in Loops(S)
  BY TurnTyped
<1>3. found[len] = Recursive("union", anchor, edges)
  BY DEF Recursive
<1> HIDE DEF len, Body
<1>4. step \in Steps(Loops(S))
  BY <1>2 DEF Steps
<1>5. PICK g : Bounded(g, len, Loops(S), [cte |-> anchor, done |-> FALSE], step)
  <2> HIDE DEF step
  <2> QED
    BY <1>1, <1>4, BoundedRecursion
<1>6. ASSUME NEW i \in 1 .. len PROVE g[i] = Body(i, g[i - 1])
  <2>1. i - 1 \in Nat /\ (i - 1) + 1 = i /\ i - 1 \in 0 .. len
    BY <1>1
  <2>2. g[i] = step[<<i - 1, g[i - 1]>>] /\ g[i - 1] \in Loops(S)
    <3> HIDE DEF step
    <3> QED
      BY <1>5, <2>1 DEF Bounded
  <2> QED
    BY <2>1, <2>2
<1>7. g = rule(g)
  <2>1. g = [i \in 0 .. len |-> g[i]] /\ g[0] = [cte |-> anchor, done |-> FALSE]
    BY <1>5 DEF Bounded
  <2>2. \A i \in 0 .. len : i # 0 => i \in 1 .. len
    BY <1>1
  <2> QED
    BY <1>6, <2>1, <2>2
<1>8. found = rule(found)
  <2> HIDE DEF rule
  <2> QED
    BY <1>7
<1> HIDE DEF found
<1>9. found[0] = [cte |-> anchor, done |-> FALSE] /\ \A i \in 1 .. len : found[i] = Body(i, found[i - 1])
  <2>1. 0 \in 0 .. len /\ \A i \in 1 .. len : i \in 0 .. len /\ i # 0
    BY <1>1
  <2> QED
    BY <1>8, <2>1
<1>10. \A i \in 0 .. len : found[i] \in Loops(S)
  <2>1. \A i \in 1 .. len : found[i - 1] \in Loops(S) => found[i] \in Loops(S)
    BY <1>2, <1>9
  <2> QED
    BY <1>1, <1>9, <2>1, Stays
<1>11. found \in [0 .. len -> Loops(S)]
  BY <1>8, <1>10
<1> QED
  BY <1>3, <1>9, <1>11 DEF Turns, len, Body

(* The loop after i turns: the CTE has the anchor, nothing that is not     *)
(* reachable, nothing that the next turn would not find again, and one     *)
(* row more for each turn; when the loop is over it is closed.             *)
Reached(V, anchor, edges, loop, i) ==
    /\ loop \in Loops(V) /\ IsInjective(loop.cte)
    /\ ToSet(anchor) \subseteq ToSet(loop.cte)
    /\ ToSet(loop.cte) \subseteq ToSet(anchor) \cup ToSet(Step(edges, loop.cte))
    /\ \A s \in ClosedSets(anchor, edges, V) : ToSet(loop.cte) \subseteq s
    /\ ~loop.done => Len(loop.cte) >= Len(anchor) + i
    /\ loop.done => ToSet(Step(edges, loop.cte)) \subseteq ToSet(loop.cte)

(* rows is where the edges lead from the CTE. *)
HasNext(edges, cte, rows) ==
    \A y : y \in rows <=> \E e \in ToSet(edges) : e[1] \in ToSet(cte) /\ e[2] = y

(* The step answers exactly that. *)
LEMMA StepMembers ==
    ASSUME NEW D, NEW S, NEW edges \in Seq(D \X S), NEW C, NEW cte \in Seq(C)
    PROVE  HasNext(edges, cte, ToSet(Step(edges, cte)))
<1> SUFFICES ASSUME NEW y
             PROVE  y \in ToSet(Step(edges, cte))
                           <=> \E e \in ToSet(edges) : e[1] \in ToSet(cte) /\ e[2] = y
  BY DEF HasNext
<1>0. Step(edges, cte) \in Seq(S) /\ LeadsFrom(edges, cte, Step(edges, cte))
  BY StepRight
<1>1. /\ Step(edges, cte) \in Seq(S)
      /\ Contains(Step(edges, cte), y)
           <=> \E i \in 1 .. Len(edges) : Contains(cte, edges[i][1]) /\ edges[i][2] = y
  BY <1>0 DEF LeadsFrom
<1>2. Contains(Step(edges, cte), y) <=> y \in ToSet(Step(edges, cte))
  BY <1>1, CountWhole
<1>3. \A x : Contains(cte, x) <=> x \in ToSet(cte)
  BY CountWhole
<1>4. DOMAIN edges = 1 .. Len(edges)
  OBVIOUS
<1>5. ToSet(edges) = {edges[i] : i \in 1 .. Len(edges)}
  BY <1>4 DEF ToSet
<1> QED
  BY <1>1, <1>2, <1>3, <1>5

(* The loop starts so. *)
LEMMA ReachedFirst ==
    ASSUME NEW V, NEW D, NEW anchor \in Seq(V), NEW edges \in Seq(D \X V), IsInjective(anchor)
    PROVE  Reached(V, anchor, edges, [cte |-> anchor, done |-> FALSE], 0)
<1>1. Len(anchor) \in Nat
  OBVIOUS
<1> QED
  BY <1>1 DEF Reached, Loops, ClosedSets

(* A turn keeps it so.  A turn that finds no more rows than the CTE has    *)
(* finds the CTE, since it finds all of that again: so comparing the       *)
(* numbers of rows is enough.                                              *)
LEMMA ReachedNext ==
    ASSUME NEW V, NEW D, NEW anchor \in Seq(V), NEW edges \in Seq(D \X V),
           NEW i \in Nat, NEW loop, Reached(V, anchor, edges, loop, i)
    PROVE  Reached(V, anchor, edges, Turn("union", anchor, edges, loop), i + 1)
<1> DEFINE cte == loop.cte
           next == Step(edges, cte)
           now == Combine("union", anchor, next)
           more == WithNew(cte, now)
           then == Turn("union", anchor, edges, loop)
<1>1. loop \in Loops(V) /\ cte \in Seq(V) /\ loop.done \in BOOLEAN /\ IsInjective(cte)
  BY DEF Reached, Loops
<1>2. now \in Seq(V) /\ IsInjective(now) /\ ToSet(now) = ToSet(anchor) \cup ToSet(next)
  <2>1. IsNow(V, anchor, edges, cte, now)
    <3> HIDE DEF cte
    <3> QED
      BY <1>1, NowRight
  <2> QED
    BY <2>1 DEF IsNow
<1>3. /\ ToSet(anchor) \subseteq ToSet(cte) /\ ToSet(cte) \subseteq ToSet(anchor) \cup ToSet(next)
      /\ \A s \in ClosedSets(anchor, edges, V) : ToSet(cte) \subseteq s
  BY DEF Reached
<1>4. then \in Loops(V)
  BY <1>1, TurnTyped
<1>5. Len(cte) \in Nat /\ Len(now) \in Nat /\ Len(anchor) \in Nat
  BY <1>1, <1>2
<1>6. /\ IsFiniteSet(ToSet(cte)) /\ Cardinality(ToSet(cte)) = Len(cte)
      /\ IsFiniteSet(ToSet(now)) /\ Cardinality(ToSet(now)) = Len(now)
  <2> HIDE DEF now, cte
  <2> QED
    BY <1>1, <1>2, DistinctLength
<1>7. then = IF loop.done THEN loop
             ELSE IF Len(now) <= Len(cte) THEN [loop EXCEPT !.done = TRUE]
             ELSE [loop EXCEPT !.cte = more]
  BY DEF Turn
<1> SUFFICES Reached(V, anchor, edges, then, i + 1)
  OBVIOUS
<1> HIDE DEF now, then, more
<1>8. CASE loop.done
  BY <1>7, <1>8 DEF Reached
<1>9. CASE ~loop.done /\ Len(now) <= Len(cte)
  <2>1. then.cte = cte /\ then.done = TRUE
    BY <1>1, <1>7, <1>9 DEF Loops
  <2>2. ToSet(cte) \subseteq ToSet(now)
    BY <1>2, <1>3
  <2>3. ToSet(cte) = ToSet(now)
    <3> DEFINE A == ToSet(cte)
               B == ToSet(now)
    <3>1. IsFiniteSet(B) /\ A \in SUBSET B /\ Cardinality(B) <= Cardinality(A)
          /\ Cardinality(A) \in Nat /\ Cardinality(B) \in Nat
      BY <1>5, <1>6, <1>9, <2>2
    <3> HIDE DEF A, B
    <3>2. Cardinality(A) <= Cardinality(B) /\ (Cardinality(B) = Cardinality(A) => B = A)
      BY <3>1, FS_Subset
    <3>3. A = B
      BY <3>1, <3>2
    <3> QED
      BY <3>3 DEF A, B
  <2>4. ToSet(next) \subseteq ToSet(cte)
    BY <1>2, <2>3
  <2> QED
    BY <1>1, <1>3, <1>4, <2>1, <2>4 DEF Reached
<1>10. CASE ~loop.done /\ ~(Len(now) <= Len(cte))
  <2>1. then.cte = more /\ then.done = FALSE
    BY <1>1, <1>7, <1>10 DEF Loops
  <2>2. more \in Seq(V) /\ IsInjective(more) /\ ToSet(more) = ToSet(cte) \cup ToSet(now)
    <3> HIDE DEF cte
    <3> QED
      BY <1>1, <1>2, MoreRight DEF more
  <2>3. ToSet(next) \subseteq ToSet(Step(edges, more))
    <3>1. HasNext(edges, cte, ToSet(next))
      BY <1>1, StepMembers
    <3>2. HasNext(edges, more, ToSet(Step(edges, more)))
      BY <2>2, StepMembers
    <3> HIDE DEF next, cte
    <3> QED
      BY <2>2, <3>1, <3>2 DEF HasNext
  <2>4. ToSet(more) \subseteq ToSet(anchor) \cup ToSet(Step(edges, more))
    BY <1>2, <1>3, <2>2, <2>3
  <2>5. ASSUME NEW s \in ClosedSets(anchor, edges, V) PROVE ToSet(more) \subseteq s
    <3>1. ToSet(cte) \subseteq s /\ ToSet(anchor) \subseteq s /\ \A e \in ToSet(edges) : e[1] \in s => e[2] \in s
      BY <1>3 DEF ClosedSets
    <3>2. HasNext(edges, cte, ToSet(next))
      BY <1>1, StepMembers
    <3> HIDE DEF next, cte
    <3>3. ToSet(next) \subseteq s
      BY <3>1, <3>2 DEF HasNext
    <3> QED
      BY <1>2, <2>2, <3>1, <3>3
  <2>6. Len(more) >= Len(anchor) + (i + 1)
    <3>1. Len(more) \in Nat /\ IsFiniteSet(ToSet(more)) /\ Cardinality(ToSet(more)) = Len(more)
      <4>1. more \in Seq(V) /\ IsInjective(more)
        BY <2>2
      <4>2. Len(more) \in Nat
        BY <4>1
      <4> QED
        BY <4>1, <4>2, DistinctLength
    <3>2. Cardinality(ToSet(now)) <= Cardinality(ToSet(more))
      <4>1. ToSet(now) \in SUBSET ToSet(more)
        BY <2>2
      <4> QED
        BY <3>1, <4>1, FS_Subset
    <3>3. Len(cte) >= Len(anchor) + i
      BY <1>10 DEF Reached
    <3> HIDE DEF cte
    <3> QED
      BY <1>5, <1>6, <1>10, <3>1, <3>2, <3>3
  <2>7. \A s \in ClosedSets(anchor, edges, V) : ToSet(more) \subseteq s
    BY <2>5
  <2> QED
    BY <1>3, <1>4, <2>1, <2>2, <2>4, <2>6, <2>7 DEF Reached
<1> QED
  BY <1>1, <1>8, <1>9, <1>10

(* WITH RECURSIVE ends within MAX_ITERS turns with exactly the rows that   *)
(* can be reached from its anchor, each once, over any table of edges, if  *)
(* there are at most MAX_ITERS values: the loop stops by the number of     *)
(* rows alone (cte.rs:112).                                                *)
THEOREM RecursiveCteCorrect ==
    ASSUME NEW V, IsFiniteSet(V), Cardinality(V) <= MaxIters,
           NEW D, NEW anchor \in Seq(V), NEW edges \in Seq(D \X V)
    PROVE  RecursiveRight(anchor, edges, V)
<1> DEFINE loop == Recursive("union", anchor, edges)
           closed == ClosedSets(anchor, edges, V)
           reachable == {x \in V : \A s \in closed : x \in s}
<1> SUFFICES ASSUME IsInjective(anchor), ~StepPanics("union", anchor, edges)
             PROVE  loop.done /\ ToSet(loop.cte) = reachable /\ IsInjective(loop.cte)
  BY DEF RecursiveRight
<1>1. MaxIters \in Nat /\ Len(anchor) \in Nat /\ Cardinality(V) \in Nat
  BY SetOperationsAssumption, FS_CardinalityType
<1>2. Len(anchor) > 0
  <2> SUFFICES ASSUME Len(anchor) = 0 PROVE FALSE
    BY <1>1
  <2>1. \A x : ~Contains(anchor, x)
    BY DEF Contains
  <2>2. Step(edges, anchor) \in Seq(V) /\ \A y : ~Contains(Step(edges, anchor), y)
    <3>1. Step(edges, anchor) \in Seq(V) /\ LeadsFrom(edges, anchor, Step(edges, anchor))
      BY StepRight
    <3> QED
      BY <2>1, <3>1 DEF LeadsFrom
  <2>3. Len(Step(edges, anchor)) \in Nat /\ ~(1 <= Len(Step(edges, anchor)))
    <3> DEFINE next == Step(edges, anchor)
    <3>1. next \in Seq(V)
      BY <2>2
    <3>2. 1 <= Len(next) => Contains(next, next[1])
      BY <3>1 DEF Contains
    <3> QED
      BY <2>2, <3>1, <3>2
  <2>4. Step(edges, anchor) = <<>>
    <3> DEFINE next == Step(edges, anchor)
    <3>1. next \in Seq(V) /\ Len(next) = 0
      BY <2>2, <2>3
    <3> HIDE DEF next
    <3>2. next = <<>>
      BY <3>1
    <3> QED
      BY <3>2 DEF next
  <2> QED
    BY <2>4 DEF StepPanics
<1>3. Reached(V, anchor, edges, loop, MaxIters)
  <2>1. PICK acc : Turns(acc, V, anchor, edges)
    BY RecursiveLoop
  <2> DEFINE P == {i \in 0 .. MaxIters : Reached(V, anchor, edges, acc[i], i)}
  <2>2. 0 \in P
    <3>1. Reached(V, anchor, edges, [cte |-> anchor, done |-> FALSE], 0)
      BY ReachedFirst
    <3>2. acc[0] = [cte |-> anchor, done |-> FALSE] /\ 0 \in 0 .. MaxIters
      BY <1>1, <2>1 DEF Turns
    <3> QED
      BY <3>1, <3>2
  <2>3. ASSUME NEW i \in 1 .. MaxIters, i - 1 \in P PROVE i \in P
    <3> DEFINE k == i - 1
    <3>1. k \in Nat /\ k + 1 = i /\ i \in 0 .. MaxIters /\ acc[i] = Turn("union", anchor, edges, acc[k])
      BY <1>1, <2>1 DEF Turns
    <3>2. Reached(V, anchor, edges, acc[k], k)
      BY <2>3
    <3> HIDE DEF k
    <3>3. Reached(V, anchor, edges, Turn("union", anchor, edges, acc[k]), k + 1)
      BY <3>1, <3>2, ReachedNext
    <3> QED
      BY <3>1, <3>3
  <2>4. MaxIters \in P
    <3> HIDE DEF P
    <3>1. 0 .. MaxIters \subseteq P
      BY <1>1, <2>2, <2>3, Climb
    <3> QED
      BY <1>1, <3>1
  <2>5. acc[MaxIters] = loop
    BY <2>1 DEF Turns
  <2> QED
    BY <2>4, <2>5
<1> HIDE DEF loop
<1>4. loop.cte \in Seq(V) /\ loop.done \in BOOLEAN /\ IsInjective(loop.cte)
  BY <1>3 DEF Reached, Loops
<1>5. ToSet(loop.cte) \subseteq V
  BY <1>4 DEF ToSet
<1>6. loop.done
  <2> SUFFICES ASSUME ~loop.done PROVE FALSE
    OBVIOUS
  <2>1. Len(loop.cte) >= Len(anchor) + MaxIters
    BY <1>3 DEF Reached
  <2>2. Cardinality(ToSet(loop.cte)) = Len(loop.cte) /\ Len(loop.cte) \in Nat
    BY <1>4, DistinctLength
  <2>3. Cardinality(ToSet(loop.cte)) <= Cardinality(V)
    BY <1>5, FS_Subset
  <2> QED
    BY <1>1, <1>2, <2>1, <2>2, <2>3
<1>7. ToSet(loop.cte) \in closed
  <2>1. \A e \in ToSet(edges) : e[1] \in ToSet(loop.cte) => e[2] \in ToSet(loop.cte)
    <3>1. HasNext(edges, loop.cte, ToSet(Step(edges, loop.cte)))
      BY <1>4, StepMembers
    <3> QED
      BY <1>3, <1>6, <3>1 DEF Reached, HasNext
  <2> QED
    BY <1>3, <1>5, <2>1 DEF Reached, ClosedSets
<1>8. \A s \in closed : ToSet(loop.cte) \subseteq s
  BY <1>3 DEF Reached
<1> HIDE DEF closed
<1> QED
  BY <1>4, <1>5, <1>6, <1>7, <1>8

-----------------------------------------------------------------------------
(* Lists of rows without repetition, and loops that start with the first   *)
(* element.                                                                *)

(* rows lists each member of set once. *)
Once(rows, S, set) == rows \in Seq(S) /\ IsInjective(rows) /\ ToSet(rows) = set

(* One row more. *)
LEMMA OnceAppend ==
    ASSUME NEW S, NEW set, NEW rows, Once(rows, S, set), NEW y \in S, y \notin set
    PROVE  Once(Append(rows, y), S, set \cup {y})
<1> DEFINE n == Len(rows)
           all == Append(rows, y)
<1>1. rows \in Seq(S) /\ n \in Nat /\ DOMAIN rows = 1 .. n
  BY DEF Once
<1>2. all \in Seq(S) /\ DOMAIN all = 1 .. n + 1 /\ all[n + 1] = y /\ \A i \in 1 .. n : all[i] = rows[i]
  BY <1>1
<1>3. (\A i \in 1 .. n : rows[i] \in set) /\ (\A x \in set : \E i \in 1 .. n : rows[i] = x)
  BY <1>1 DEF Once, ToSet
<1>4. \A i, j \in 1 .. n : rows[i] = rows[j] => i = j
  BY <1>1 DEF Once, IsInjective
<1> HIDE DEF n, all
<1>5. 1 .. n + 1 = (1 .. n) \cup {n + 1}
  BY <1>1
<1>6. IsInjective(all)
  <2>1. ASSUME NEW i \in 1 .. n + 1, NEW j \in 1 .. n + 1, all[i] = all[j] PROVE i = j
    BY <1>2, <1>3, <1>4, <1>5, <2>1
  <2> QED
    BY <1>2, <2>1 DEF IsInjective
<1>7. ToSet(all) = set \cup {y}
  <2>1. \A x : x \in ToSet(all) <=> \E i \in 1 .. n + 1 : all[i] = x
    BY <1>2 DEF ToSet
  <2> QED
    BY <1>2, <1>3, <1>5, <2>1
<1> QED
  BY <1>2, <1>6, <1>7 DEF Once, all

(* One list after the other. *)
LEMMA OnceConcat ==
    ASSUME NEW S, NEW A, NEW B, NEW l, NEW r, Once(l, S, A), Once(r, S, B),
           \A x \in A : x \notin B
    PROVE  Once(l \o r, S, A \cup B)
<1> DEFINE n == Len(l)
           m == Len(r)
           all == l \o r
<1>1. /\ l \in Seq(S) /\ n \in Nat /\ DOMAIN l = 1 .. n
      /\ r \in Seq(S) /\ m \in Nat /\ DOMAIN r = 1 .. m
  BY DEF Once
<1>2. /\ all \in Seq(S) /\ DOMAIN all = 1 .. n + m
      /\ \A i \in 1 .. n : all[i] = l[i]
      /\ \A j \in 1 .. m : all[n + j] = r[j]
  <2>1. Concatenated(S, l, r, all)
    BY <1>1, ConcatForm
  <2>2. all \in Seq(S) /\ DOMAIN all = 1 .. Len(all)
    BY <1>1
  <2> QED
    BY <2>1, <2>2 DEF Concatenated
<1>3. /\ \A i \in 1 .. n : l[i] \in A
      /\ \A x \in A : \E i \in 1 .. n : l[i] = x
      /\ \A j \in 1 .. m : r[j] \in B
      /\ \A x \in B : \E j \in 1 .. m : r[j] = x
  BY <1>1 DEF Once, ToSet
<1>4. /\ \A i, j \in 1 .. n : l[i] = l[j] => i = j
      /\ \A i, j \in 1 .. m : r[i] = r[j] => i = j
  BY <1>1 DEF Once, IsInjective
<1> HIDE DEF n, m, all
<1>5. \A i \in 1 .. n + m : i \in 1 .. n \/ \E j \in 1 .. m : i = n + j
  <2>1. \A i \in 1 .. n + m : i > n => i - n \in 1 .. m /\ i = n + (i - n)
    BY <1>1
  <2> QED
    BY <1>1, <2>1
<1>6. (\A i \in 1 .. n : i \in 1 .. n + m) /\ (\A j \in 1 .. m : n + j \in 1 .. n + m)
  BY <1>1
<1>7. IsInjective(all)
  <2>1. ASSUME NEW i \in 1 .. n + m, NEW j \in 1 .. n + m, all[i] = all[j] PROVE i = j
    <3>1. CASE i \in 1 .. n
      BY <1>2, <1>3, <1>4, <1>5, <2>1, <3>1
    <3>2. ASSUME NEW p \in 1 .. m, i = n + p PROVE i = j
      <4>1. all[i] = r[p] /\ r[p] \in B
        BY <1>2, <1>3, <3>2
      <4>2. CASE j \in 1 .. n
        BY <1>2, <1>3, <2>1, <4>1, <4>2
      <4>3. ASSUME NEW q \in 1 .. m, j = n + q PROVE i = j
        BY <1>2, <1>4, <2>1, <3>2, <4>1, <4>3
      <4> QED
        BY <1>5, <4>2, <4>3
    <3> QED
      BY <1>5, <3>1, <3>2
  <2> QED
    BY <1>2, <2>1 DEF IsInjective
<1>8. ToSet(all) = A \cup B
  <2>1. \A x : x \in ToSet(all) <=> \E i \in 1 .. n + m : all[i] = x
    BY <1>2 DEF ToSet
  <2>2. ASSUME NEW x \in A \cup B PROVE x \in ToSet(all)
    BY <1>2, <1>3, <1>6, <2>1, <2>2
  <2>3. ASSUME NEW x \in ToSet(all) PROVE x \in A \cup B
    BY <1>2, <1>3, <1>5, <2>1, <2>3
  <2> QED
    BY <2>2, <2>3
<1> QED
  BY <1>2, <1>7, <1>8 DEF Once, all

(* Stays, for values that start with the first. *)
LEMMA StaysFromOne ==
    ASSUME NEW n \in Nat, n >= 1, NEW S, NEW r, r[1] \in S,
           \A i \in 2 .. n : r[i - 1] \in S => r[i] \in S
    PROVE  \A i \in 1 .. n : r[i] \in S
<1> DEFINE P == {i \in 0 .. n : i # 0 => r[i] \in S}
<1>1. 0 \in P
  OBVIOUS
<1>2. ASSUME NEW i \in 1 .. n, i - 1 \in P PROVE i \in P
  <2>1. CASE i = 1
    BY <2>1
  <2>2. CASE i # 1
    <3>1. i \in 2 .. n /\ i - 1 # 0
      BY <2>2
    <3> QED
      BY <1>2, <3>1
  <2> QED
    BY <2>1, <2>2
<1>3. 0 .. n \subseteq P
  <2> HIDE DEF P
  <2> QED
    BY <1>1, <1>2, Climb
<1>4. \A i \in 1 .. n : i \in 0 .. n /\ i # 0
  OBVIOUS
<1> QED
  BY <1>3, <1>4

(* acc is the loop of Ascending. *)
Ascends(acc, n, set) ==
    /\ acc \in [0 .. n -> Seq(Nat)] /\ acc[0] = <<>> /\ acc[n] = Ascending(n, set)
    /\ \A i \in 1 .. n : acc[i] = IF i \in set THEN Append(acc[i - 1], i) ELSE acc[i - 1]

(* There is such a loop. *)
LEMMA AscendingLoop ==
    ASSUME NEW n \in Nat, NEW set
    PROVE  \E acc : Ascends(acc, n, set)
<1> DEFINE len == n
           Type == Seq(Nat)
           Body(i, a) == IF i \in set THEN Append(a, i) ELSE a
           step == [p \in Nat \X Type |-> IF p[1] + 1 \in 1 .. len THEN Body(p[1] + 1, p[2]) ELSE p[2]]
           Start(i) == <<>>
           rule(acc) == [i \in 0 .. len |-> IF i = 0 THEN Start(i) ELSE Body(i, acc[i - 1])]
           first == Start(0)
           found == CHOOSE acc : acc = rule(acc)
<1>1. len \in Nat /\ len >= 0 /\ first \in Type
  OBVIOUS
<1>2. ASSUME NEW i \in 1 .. len, NEW a \in Type PROVE Body(i, a) \in Type
  BY <1>1, <1>2
<1>3. found[len] = Ascending(n, set)
  BY DEF Ascending
<1> HIDE DEF len, Body, Type
<1>0. first = Start(0)
  OBVIOUS
<1> HIDE DEF first, Start
<1>4. step \in Steps(Type)
  BY <1>2 DEF Steps
<1>5. PICK g : Bounded(g, len, Type, first, step)
  <2> HIDE DEF step
  <2> QED
    BY <1>1, <1>4, BoundedRecursion
<1> DEFINE h == [i \in 0 .. len |-> g[i]]
<1>6. h[0] = first /\ \A i \in 1 .. len : h[i] = Body(i, h[i - 1])
  <2>1. 0 \in 0 .. len
    BY <1>1
  <2>2. ASSUME NEW i \in 1 .. len PROVE h[i] = Body(i, h[i - 1])
    <3>1. /\ i - 1 \in Nat /\ (i - 1) + 1 = i /\ i \in 1 .. len
          /\ i \in 0 .. len /\ i - 1 \in 0 .. len
      BY <1>1
    <3>2. g[i] = step[<<i - 1, g[i - 1]>>] /\ g[i - 1] \in Type
      <4> HIDE DEF step
      <4> QED
        BY <1>5, <3>1 DEF Bounded
    <3>3. h[i] = g[i] /\ h[i - 1] = g[i - 1]
      BY <3>1
    <3> HIDE DEF h
    <3> QED
      BY <3>1, <3>2, <3>3
  <2>3. h[0] = first
    BY <1>5, <2>1 DEF Bounded
  <2> HIDE DEF h
  <2> QED
    BY <2>2, <2>3
<1>7. h = rule(h)
  <2>1. h = [i \in 0 .. len |-> h[i]]
    OBVIOUS
  <2>2. \A i \in 0 .. len : i # 0 => i \in 1 .. len
    BY <1>1
  <2> HIDE DEF h
  <2> QED
    BY <1>6, <1>0, <2>1, <2>2
<1>8. found = rule(found)
  <2> HIDE DEF rule, h
  <2> QED
    BY <1>7
<1> HIDE DEF found, h
<1>9. found[0] = first /\ \A i \in 1 .. len : found[i] = Body(i, found[i - 1])
  <2>1. 0 \in 0 .. len /\ \A i \in 1 .. len : i \in 0 .. len /\ i # 0
    BY <1>1
  <2> QED
    BY <1>8, <1>0, <2>1
<1>10. \A i \in 0 .. len : found[i] \in Type
  <2>1. \A i \in 1 .. len : found[i - 1] \in Type => found[i] \in Type
    BY <1>2, <1>9
  <2>2. found[0] \in Type
    BY <1>1, <1>9
  <2> QED
    BY <1>1, <2>1, <2>2, Stays
<1>11. found \in [0 .. len -> Type]
  BY <1>8, <1>10
<1> QED
  BY <1>3, <1>9, <1>11 DEF Ascends, len, Body, Type, first, Start

(* The members up to the i-th number. *)
UpTo(set, i) == {s \in set : s <= i}

(* It lists the members of the set. *)
LEMMA AscendingOnce ==
    ASSUME NEW n \in Nat, NEW set \in SUBSET (1 .. n)
    PROVE  Once(Ascending(n, set), Nat, set)
<1>1. PICK acc : Ascends(acc, n, set)
  BY AscendingLoop
<1>2. \A s \in set : s \in Nat /\ 1 <= s /\ s <= n
  OBVIOUS
<1> DEFINE P == {i \in 0 .. n : Once(acc[i], Nat, UpTo(set, i))}
<1>3. 0 \in P
  <2>1. Once(<<>>, Nat, {})
    BY DEF Once, IsInjective, ToSet
  <2>2. UpTo(set, 0) = {}
    <3>1. \A s \in set : ~(s <= 0)
      BY <1>2
    <3> QED
      BY <3>1, Zenon DEF UpTo
  <2>3. acc[0] = <<>> /\ 0 \in 0 .. n
    BY <1>1 DEF Ascends
  <2>4. Once(acc[0], Nat, UpTo(set, 0))
    BY <2>1, <2>2, <2>3, Zenon
  <2> QED
    BY <2>3, <2>4, Zenon
<1>4. ASSUME NEW i \in 1 .. n, i - 1 \in P PROVE i \in P
  <2>1. Once(acc[i - 1], Nat, UpTo(set, i - 1)) /\ i \in Nat /\ i \notin UpTo(set, i - 1)
    BY <1>4 DEF UpTo
  <2>2. CASE i \in set
    <3>1. UpTo(set, i) = UpTo(set, i - 1) \cup {i}
      <4>1. \A s \in set : s <= i <=> s <= i - 1 \/ s = i
        BY <1>2, <2>1
      <4> QED
        BY <2>2, <4>1, Zenon DEF UpTo
    <3>2. acc[i] = Append(acc[i - 1], i)
      BY <1>1, <2>2 DEF Ascends
    <3>3. Once(acc[i], Nat, UpTo(set, i))
      BY <2>1, <3>1, <3>2, OnceAppend
    <3> QED
      BY <3>3
  <2>3. CASE i \notin set
    <3>1. UpTo(set, i) = UpTo(set, i - 1)
      <4>1. \A s \in set : s <= i <=> s <= i - 1
        BY <1>2, <2>1, <2>3
      <4> QED
        BY <4>1 DEF UpTo
    <3>2. acc[i] = acc[i - 1]
      BY <1>1, <2>3 DEF Ascends
    <3> QED
      BY <2>1, <3>1, <3>2
  <2> QED
    BY <2>2, <2>3
<1>5. n \in P
  <2> HIDE DEF P
  <2>1. 0 .. n \subseteq P
    BY <1>3, <1>4, Climb
  <2> QED
    BY <2>1
<1>6. UpTo(set, n) = set
  BY <1>2 DEF UpTo
<1> QED
  BY <1>1, <1>5, <1>6 DEF Ascends

(* acc is the loop of FlattenSeq. *)
Flattens(acc, ss, S) ==
    /\ acc \in [1 .. Len(ss) -> Seq(S)] /\ acc[1] = ss[1] /\ acc[Len(ss)] = FlattenSeq(ss)
    /\ \A i \in 2 .. Len(ss) : acc[i] = acc[i - 1] \o ss[i]

(* There is such a loop. *)
LEMMA FlattenLoop ==
    ASSUME NEW S, NEW ss \in Seq(Seq(S)), ss # <<>>
    PROVE  \E acc : Flattens(acc, ss, S)
<1> DEFINE len == Len(ss)
           Type == Seq(S)
           Body(i, a) == a \o ss[i]
           step == [p \in Nat \X Type |-> IF p[1] + 2 \in 2 .. len THEN Body(p[1] + 2, p[2]) ELSE p[2]]
           Start(i) == ss[i]
           rule(acc) == [i \in 1 .. len |-> IF i = 1 THEN Start(i) ELSE Body(i, acc[i - 1])]
           first == Start(1)
           found == CHOOSE acc : acc = rule(acc)
<1>1. len \in Nat /\ len >= 1 /\ first \in Type
  <2>1. Len(ss) \in Nat /\ Len(ss) # 0 /\ DOMAIN ss = 1 .. Len(ss)
    OBVIOUS
  <2>2. 1 \in DOMAIN ss /\ ss \in [DOMAIN ss -> Seq(S)]
    BY <2>1
  <2> QED
    BY <2>1, <2>2
<1>2. ASSUME NEW i \in 2 .. len, NEW a \in Type PROVE Body(i, a) \in Type
  <2>1. ss[i] \in Seq(S)
    BY <1>1
  <2> QED
    BY <1>2, <2>1
<1>3. found[len] = FlattenSeq(ss)
  <2>1. Len(ss) # 0
    OBVIOUS
  <2> QED
    BY <2>1 DEF FlattenSeq
<1> HIDE DEF len, Body, Type
<1>0. first = Start(1)
  OBVIOUS
<1> HIDE DEF first, Start
<1>4. step \in Steps(Type)
  BY <1>2 DEF Steps
<1>5. PICK g : Bounded(g, len - 1, Type, first, step)
  <2>1. len - 1 \in Nat
    BY <1>1
  <2> HIDE DEF step
  <2> QED
    BY <1>1, <1>4, <2>1, BoundedRecursion
<1> DEFINE h == [i \in 1 .. len |-> g[i - 1]]
<1>6. h[1] = first /\ \A i \in 2 .. len : h[i] = Body(i, h[i - 1])
  <2>1. 1 \in 1 .. len /\ 1 - 1 = 0
    BY <1>1
  <2>2. ASSUME NEW i \in 2 .. len PROVE h[i] = Body(i, h[i - 1])
    <3>1. /\ i - 2 \in Nat /\ (i - 2) + 2 = i /\ i - 1 \in 1 .. len - 1 /\ (i - 1) - 1 = i - 2
          /\ i \in 1 .. len /\ i - 1 \in 1 .. len /\ (i - 1) - 1 = i - 2 /\ i - 2 \in 0 .. len - 1
      BY <1>1
    <3>2. g[i - 1] = step[<<i - 2, g[i - 2]>>] /\ g[i - 2] \in Type
      <4> HIDE DEF step
      <4> QED
        BY <1>5, <3>1 DEF Bounded
    <3>3. h[i] = g[i - 1] /\ h[i - 1] = g[i - 2]
      BY <3>1
    <3> HIDE DEF h
    <3> QED
      BY <3>1, <3>2, <3>3
  <2>3. h[1] = first
    BY <1>5, <2>1 DEF Bounded
  <2> HIDE DEF h
  <2> QED
    BY <2>2, <2>3
<1>7. h = rule(h)
  <2>1. h = [i \in 1 .. len |-> h[i]]
    OBVIOUS
  <2>2. \A i \in 1 .. len : i # 1 => i \in 2 .. len
    BY <1>1
  <2> HIDE DEF h
  <2> QED
    BY <1>6, <1>0, <2>1, <2>2
<1>8. found = rule(found)
  <2> HIDE DEF rule, h
  <2> QED
    BY <1>7
<1> HIDE DEF found, h
<1>9. found[1] = first /\ \A i \in 2 .. len : found[i] = Body(i, found[i - 1])
  <2>1. 1 \in 1 .. len /\ \A i \in 2 .. len : i \in 1 .. len /\ i # 1
    BY <1>1
  <2> QED
    BY <1>8, <1>0, <2>1
<1>10. \A i \in 1 .. len : found[i] \in Type
  <2>1. \A i \in 2 .. len : found[i - 1] \in Type => found[i] \in Type
    BY <1>2, <1>9
  <2>2. found[1] \in Type
    BY <1>1, <1>9
  <2> QED
    BY <1>1, <2>1, <2>2, StaysFromOne
<1>11. found \in [1 .. len -> Type]
  BY <1>8, <1>10
<1> QED
  BY <1>3, <1>9, <1>11 DEF Flattens, len, Body, Type, first, Start

(* The first n sets have nothing in common; what is in any of them.        *)
Apart(sets, n) == \A i, j \in 1 .. n : i # j => \A x \in sets[i] : x \notin sets[j]
AllOf(sets, n) == UNION {sets[i] : i \in 1 .. n}

(* Lists one after the other: none has what another has. *)
LEMMA FlattenOnce ==
    ASSUME NEW S, NEW ss \in Seq(Seq(S)), NEW sets,
           \A i \in 1 .. Len(ss) : Once(ss[i], S, sets[i]),
           Apart(sets, Len(ss))
    PROVE  Once(FlattenSeq(ss), S, AllOf(sets, Len(ss)))
<1> USE DEF Apart, AllOf
<1> DEFINE n == Len(ss)
           So(i) == UNION {sets[j] : j \in 1 .. i}
<1>1. n \in Nat
  OBVIOUS
<1>2. CASE ss = <<>>
  <2>1. FlattenSeq(ss) = <<>> /\ n = 0
    BY <1>2 DEF FlattenSeq
  <2>2. Once(<<>>, S, {})
    BY DEF Once, IsInjective, ToSet
  <2>3. So(n) = {}
    BY <2>1
  <2> QED
    BY <2>1, <2>2, <2>3
<1>3. CASE ss # <<>>
  <2>1. PICK acc : Flattens(acc, ss, S)
    BY <1>3, FlattenLoop
  <2>2. n >= 1
    BY <1>3
  <2> DEFINE P == {i \in 1 .. n : Once(acc[i], S, So(i))}
             r == [i \in 1 .. n |-> i]
  <2>3. r[1] \in P
    <3>1. So(1) = sets[1]
      OBVIOUS
    <3>2. 1 \in 1 .. n /\ acc[1] = ss[1]
      BY <2>1, <2>2 DEF Flattens
    <3> HIDE DEF So
    <3>3. Once(acc[1], S, So(1))
      BY <3>1, <3>2
    <3> QED
      BY <3>2, <3>3
  <2>4. ASSUME NEW i \in 2 .. n, r[i - 1] \in P PROVE r[i] \in P
    <3>1. i \in 1 .. n /\ i - 1 \in 1 .. n /\ r[i] = i /\ r[i - 1] = i - 1
      OBVIOUS
    <3>2. Once(acc[i - 1], S, So(i - 1)) /\ Once(ss[i], S, sets[i])
      BY <2>4, <3>1
    <3>3. acc[i] = acc[i - 1] \o ss[i]
      BY <2>1 DEF Flattens
    <3>4. So(i) = So(i - 1) \cup sets[i]
      <4>1. 1 .. i = (1 .. i - 1) \cup {i}
        OBVIOUS
      <4> QED
        BY <4>1, Zenon
    <3>5. \A x \in So(i - 1) : x \notin sets[i]
      <4>1. \A j \in 1 .. i - 1 : j \in 1 .. n /\ j # i
        OBVIOUS
      <4> QED
        BY <3>1, <4>1
    <3> HIDE DEF So
    <3>6. Once(acc[i], S, So(i))
      <4>1. Once(acc[i - 1] \o ss[i], S, So(i - 1) \cup sets[i])
        BY <3>2, <3>5, OnceConcat
      <4> QED
        BY <3>3, <3>4, <4>1
    <3> QED
      BY <3>1, <3>6
  <2>5. n \in P
    <3> HIDE DEF P, r
    <3>1. \A i \in 1 .. n : r[i] \in P
      BY <1>1, <2>2, <2>3, <2>4, StaysFromOne
    <3>2. n \in 1 .. n /\ r[n] = n
      BY <1>1, <2>2 DEF r
    <3> QED
      BY <3>1, <3>2
  <2> QED
    BY <2>1, <2>5 DEF Flattens
<1> QED
  BY <1>2, <1>3

-----------------------------------------------------------------------------
(* Joins, one source. *)

(* What was appended can be told from the end. *)
LEMMA AppendSame ==
    ASSUME NEW x \in Seq(Nat), NEW y \in Seq(Nat), NEW r \in Nat, NEW s \in Nat, Append(x, r) = Append(y, s)
    PROVE  x = y /\ r = s
<1>1. Len(Append(x, r)) = Len(x) + 1 /\ Len(Append(y, s)) = Len(y) + 1
  OBVIOUS
<1>2. Len(x) = Len(y) /\ Len(x) \in Nat
  BY <1>1
<1>3. Append(x, r)[Len(x) + 1] = r /\ Append(y, s)[Len(y) + 1] = s
  OBVIOUS
<1>4. \A i \in 1 .. Len(x) : Append(x, r)[i] = x[i] /\ Append(y, s)[i] = y[i]
  <2>1. \A i \in 1 .. Len(x) : Append(x, r)[i] = x[i]
    OBVIOUS
  <2>2. \A i \in 1 .. Len(y) : Append(y, s)[i] = y[i]
    OBVIOUS
  <2> QED
    BY <1>2, <2>1, <2>2
<1>5. x = y
  <2>1. \A i \in 1 .. Len(x) : x[i] = y[i]
    BY <1>4
  <2> QED
    BY <1>2, <2>1
<1> QED
  BY <1>2, <1>3, <1>5

(* One number appended to a row, for each of a list of numbers. *)
LEMMA LengthenedOnce ==
    ASSUME NEW x \in Seq(Nat), NEW rs, NEW set, Once(rs, Nat, set)
    PROVE  Once(Lengthened(x, rs), Seq(Nat), {Append(x, r) : r \in set})
<1> DEFINE n == Len(rs)
           all == Lengthened(x, rs)
<1>1. rs \in Seq(Nat) /\ n \in Nat /\ DOMAIN rs = 1 .. n /\ \A i \in 1 .. n : rs[i] \in Nat
  BY DEF Once
<1>2. (\A i \in 1 .. n : rs[i] \in set) /\ (\A r \in set : \E i \in 1 .. n : rs[i] = r)
  BY <1>1 DEF Once, ToSet
<1>3. \A i, j \in 1 .. n : rs[i] = rs[j] => i = j
  BY <1>1 DEF Once, IsInjective
<1>4. DOMAIN all = 1 .. n /\ \A i \in 1 .. n : all[i] = Append(x, rs[i])
  BY <1>1 DEF Lengthened
<1>5. \A i \in 1 .. n : all[i] \in Seq(Nat)
  <2>1. \A r \in Nat : Append(x, r) \in Seq(Nat)
    OBVIOUS
  <2> HIDE DEF all, n
  <2> QED
    BY <1>1, <1>4, <2>1
<1>6. all \in Seq(Seq(Nat))
  <2>1. all = [i \in 1 .. n |-> Append(x, rs[i])]
    BY <1>1 DEF Lengthened
  <2>2. \A i \in 1 .. n : Append(x, rs[i]) \in Seq(Nat)
    BY <1>4, <1>5
  <2> HIDE DEF n, all
  <2> QED
    BY <1>1, <2>1, <2>2
<1> HIDE DEF n, all
<1>7. IsInjective(all)
  <2>1. ASSUME NEW i \in 1 .. n, NEW j \in 1 .. n, all[i] = all[j] PROVE i = j
    <3>1. Append(x, rs[i]) = Append(x, rs[j]) /\ rs[i] \in Nat /\ rs[j] \in Nat
      BY <1>1, <1>4, <2>1
    <3>2. rs[i] = rs[j]
      BY <3>1, AppendSame
    <3> QED
      BY <1>3, <3>2
  <2> QED
    BY <1>4, <2>1 DEF IsInjective
<1>8. ToSet(all) = {Append(x, r) : r \in set}
  <2>1. \A y : y \in ToSet(all) <=> \E i \in 1 .. n : all[i] = y
    BY <1>4 DEF ToSet
  <2>2. ASSUME NEW r \in set PROVE Append(x, r) \in ToSet(all)
    BY <1>2, <1>4, <2>1
  <2>3. ASSUME NEW y \in ToSet(all) PROVE y \in {Append(x, r) : r \in set}
    <3>1. PICK i \in 1 .. n : all[i] = y
      BY <2>1
    <3> QED
      BY <1>2, <1>4, <3>1
  <2> QED
    BY <2>2, <2>3
<1> QED
  BY <1>6, <1>7, <1>8 DEF Once, all

(* The rows of source k that match x, and what becomes of x. *)
Met(sources, k, con, x) == {r \in DOMAIN sources[k].rows : Matches(sources, k, con, Append(x, r))}
Becomes(sources, k, join, x) ==
    IF Met(sources, k, join.con, x) = {} /\ KeepsLeft(join) THEN {Append(x, 0)}
    ELSE {Append(x, r) : r \in Met(sources, k, join.con, x)}
Unmet(sources, k, join, lefts) ==
    IF KeepsRight(join) THEN {r \in DOMAIN sources[k].rows : \A x \in lefts : r \notin Met(sources, k, join.con, x)}
    ELSE {}

(* The inner loop. *)
LEMMA WithOnce ==
    ASSUME NEW sources, NEW k, NEW join, NEW R, sources[k].rows \in Seq(R), NEW x \in Seq(Nat)
    PROVE  Once(With(sources, k, join, x), Seq(Nat), Becomes(sources, k, join, x))
<1> DEFINE n == Len(sources[k].rows)
           met == Met(sources, k, join.con, x)
           rs == Hits(sources, k, join.con, x)
<1>1. n \in Nat /\ DOMAIN sources[k].rows = 1 .. n
  OBVIOUS
<1>2. Once(rs, Nat, met)
  <2>1. met \in SUBSET (1 .. n)
    BY <1>1 DEF Met
  <2>2. rs = Ascending(n, met)
    BY DEF Hits, Met
  <2> HIDE DEF n, met, rs
  <2> QED
    BY <1>1, <2>1, <2>2, AscendingOnce
<1>3. rs = <<>> <=> met = {}
  <2> HIDE DEF n, met, rs
  <2>1. rs \in Seq(Nat) /\ met = {rs[i] : i \in DOMAIN rs}
    BY <1>2 DEF Once, ToSet
  <2>2. rs = <<>> <=> DOMAIN rs = {}
    BY <2>1
  <2> QED
    BY <2>1, <2>2
<1>4. With(sources, k, join, x) = IF rs = <<>> /\ KeepsLeft(join) THEN <<Append(x, 0)>> ELSE Lengthened(x, rs)
  BY DEF With
<1>5. Becomes(sources, k, join, x) =
        IF met = {} /\ KeepsLeft(join) THEN {Append(x, 0)} ELSE {Append(x, r) : r \in met}
  BY DEF Becomes
<1>6. Once(<<Append(x, 0)>>, Seq(Nat), {Append(x, 0)})
  <2>1. Append(x, 0) \in Seq(Nat)
    OBVIOUS
  <2> DEFINE y == Append(x, 0)
  <2> HIDE DEF y
  <2>2. <<y>> \in Seq(Seq(Nat)) /\ DOMAIN <<y>> = {1} /\ <<y>>[1] = y
    BY <2>1 DEF y
  <2>3. Once(<<y>>, Seq(Nat), {y})
    BY <2>2 DEF Once, IsInjective, ToSet
  <2> QED
    BY <2>3 DEF y
<1>7. Once(Lengthened(x, rs), Seq(Nat), {Append(x, r) : r \in met})
  <2> HIDE DEF met, rs
  <2> QED
    BY <1>2, LengthenedOnce
<1> HIDE DEF n, met, rs
<1> QED
  BY <1>3, <1>4, <1>5, <1>6, <1>7

(* Rows of k sources, not NULLs all of them. *)
RowsOf(k) == {x \in Seq(Nat) : Len(x) = k /\ \E i \in 1 .. k : x[i] # 0}

(* A turn of the loop types its rows, ... *)
LEMMA JoinNextTyped ==
    ASSUME NEW sources, NEW k \in Nat, k >= 1, NEW join, NEW R, sources[k].rows \in Seq(R),
           NEW rows \in Seq(Seq(Nat))
    PROVE  /\ [i \in DOMAIN rows |-> With(sources, k, join, rows[i])] \in Seq(Seq(Seq(Nat)))
           /\ Nulls(k - 1) \in Seq(Nat) /\ Len(Nulls(k - 1)) = k - 1
           /\ JoinNext(sources, k, join, rows) \in Seq(Seq(Nat))
<1> DEFINE n == Len(rows)
           ss == [i \in DOMAIN rows |-> With(sources, k, join, rows[i])]
           alone == Alone(sources, k, join, rows)
           m == Len(sources[k].rows)
           free == {r \in DOMAIN sources[k].rows :
                      \A i \in DOMAIN rows : ~Matches(sources, k, join.con, Append(rows[i], r))}
<1>1. n \in Nat /\ DOMAIN rows = 1 .. n
  OBVIOUS
<1>2. ss \in Seq(Seq(Seq(Nat)))
  <2>1. ASSUME NEW i \in 1 .. n PROVE With(sources, k, join, rows[i]) \in Seq(Seq(Nat))
    <3>1. rows[i] \in Seq(Nat)
      BY <1>1
    <3>2. Once(With(sources, k, join, rows[i]), Seq(Nat), Becomes(sources, k, join, rows[i]))
      BY <3>1, WithOnce
    <3> QED
      BY <3>2 DEF Once
  <2>2. ss = [i \in 1 .. n |-> With(sources, k, join, rows[i])]
    BY <1>1
  <2> HIDE DEF ss, n
  <2> QED
    BY <1>1, <2>1, <2>2
<1>3. Nulls(k - 1) \in Seq(Nat) /\ Len(Nulls(k - 1)) = k - 1
  BY DEF Nulls
<1>4. alone \in Seq(Nat)
  <2>1. m \in Nat /\ free \in SUBSET (1 .. m)
    OBVIOUS
  <2>2. alone = IF KeepsRight(join) THEN Ascending(m, free) ELSE <<>>
    BY DEF Alone
  <2>3. Once(Ascending(m, free), Nat, free)
    <3> HIDE DEF m, free
    <3> QED
      BY <2>1, AscendingOnce
  <2> HIDE DEF m, free, alone
  <2> QED
    BY <2>2, <2>3 DEF Once
<1>5. Lengthened(Nulls(k - 1), alone) \in Seq(Seq(Nat))
  <2> DEFINE len == Len(alone)
             nulls == Nulls(k - 1)
  <2> HIDE DEF alone, nulls
  <2>1. len \in Nat /\ DOMAIN alone = 1 .. len
    BY <1>4
  <2>2. nulls \in Seq(Nat)
    BY <1>3 DEF nulls
  <2>3. \A i \in 1 .. len : Append(nulls, alone[i]) \in Seq(Nat)
    BY <1>4, <2>2
  <2>4. Lengthened(nulls, alone) = [i \in 1 .. len |-> Append(nulls, alone[i])]
    BY <2>1 DEF Lengthened
  <2> HIDE DEF len
  <2>5. Lengthened(nulls, alone) \in Seq(Seq(Nat))
    BY <2>1, <2>3, <2>4
  <2> QED
    BY <2>5 DEF nulls
<1>6. FlattenSeq(ss) \in Seq(Seq(Nat))
  <2> HIDE DEF ss
  <2>1. CASE ss = <<>>
    BY <2>1 DEF FlattenSeq
  <2>2. CASE ss # <<>>
    <3>1. PICK acc : Flattens(acc, ss, Seq(Nat))
      BY <1>2, <2>2, FlattenLoop
    <3>2. Len(ss) \in 1 .. Len(ss)
      BY <1>2, <2>2
    <3> QED
      BY <3>1, <3>2 DEF Flattens
  <2> QED
    BY <2>1, <2>2
<1>7. JoinNext(sources, k, join, rows) = FlattenSeq(ss) \o Lengthened(Nulls(k - 1), alone)
  BY DEF JoinNext
<1>8. JoinNext(sources, k, join, rows) \in Seq(Seq(Nat))
  <2> HIDE DEF ss, alone
  <2> QED
    BY <1>5, <1>6, <1>7
<1> QED
  BY <1>2, <1>3, <1>8

(* y is x and one number more. *)
Extends(y, x) == \E r \in Nat : y = Append(x, r)

(* Every row comes from one on the left. *)
LEMMA BecomesFrom ==
    ASSUME NEW sources, NEW k, NEW join, NEW R, sources[k].rows \in Seq(R), NEW x \in Seq(Nat),
           NEW y \in Becomes(sources, k, join, x)
    PROVE  Extends(y, x)
<1>1. DOMAIN sources[k].rows \subseteq Nat
  OBVIOUS
<1>2. Met(sources, k, join.con, x) \subseteq Nat
  BY <1>1 DEF Met
<1>3. y = Append(x, 0) \/ \E r \in Met(sources, k, join.con, x) : y = Append(x, r)
  BY DEF Becomes
<1> QED
  BY <1>2, <1>3 DEF Extends

(* What becomes of the rows on the left, and what an outer join adds. *)
Grown(sources, k, join, lefts) ==
    (UNION {Becomes(sources, k, join, x) : x \in lefts})
      \cup {Append(Nulls(k - 1), r) : r \in Unmet(sources, k, join, lefts)}

(* ... and lists what becomes of the rows on the left, and the rows on the *)
(* right that none of them matches, each once.                             *)
LEMMA JoinNextOnce ==
    ASSUME NEW sources, NEW k \in Nat, k >= 1, NEW join, NEW R, sources[k].rows \in Seq(R),
           NEW rows, NEW lefts, Once(rows, Seq(Nat), lefts), Nulls(k - 1) \notin lefts
    PROVE  Once(JoinNext(sources, k, join, rows), Seq(Nat), Grown(sources, k, join, lefts))
<1> DEFINE n == Len(rows)
           ss == [i \in DOMAIN rows |-> With(sources, k, join, rows[i])]
           sets == [i \in 1 .. n |-> Becomes(sources, k, join, rows[i])]
           became == UNION {Becomes(sources, k, join, x) : x \in lefts}
           alone == Alone(sources, k, join, rows)
           unmet == Unmet(sources, k, join, lefts)
           nulls == Nulls(k - 1)
           padded == {Append(nulls, r) : r \in unmet}
           right == DOMAIN sources[k].rows
<1>0. sources[k].rows \in Seq(R)
  OBVIOUS
<1>1. /\ rows \in Seq(Seq(Nat)) /\ n \in Nat /\ DOMAIN rows = 1 .. n
      /\ \A i \in 1 .. n : rows[i] \in lefts /\ rows[i] \in Seq(Nat)
      /\ \A x \in lefts : x \in Seq(Nat) /\ \E i \in 1 .. n : rows[i] = x
      /\ \A i, j \in 1 .. n : rows[i] = rows[j] => i = j
  <2>1. rows \in Seq(Seq(Nat)) /\ n \in Nat /\ DOMAIN rows = 1 .. n
    BY DEF Once
  <2>2. \A i \in 1 .. n : rows[i] \in Seq(Nat)
    BY <2>1
  <2>3. \A i \in 1 .. n : rows[i] \in lefts
    BY <2>1 DEF Once, ToSet
  <2>4. \A x \in lefts : \E i \in 1 .. n : rows[i] = x
    BY <2>1 DEF Once, ToSet
  <2>5. \A i, j \in 1 .. n : rows[i] = rows[j] => i = j
    BY <2>1 DEF Once, IsInjective
  <2> HIDE DEF n
  <2> QED
    BY <2>1, <2>2, <2>3, <2>4, <2>5
<1>2. ss \in Seq(Seq(Seq(Nat))) /\ nulls \in Seq(Nat)
  <2>1. rows \in Seq(Seq(Nat))
    BY <1>1
  <2>2. ss \in Seq(Seq(Seq(Nat))) /\ Nulls(k - 1) \in Seq(Nat)
    BY <1>0, <2>1, JoinNextTyped
  <2> QED
    BY <2>2
<1>3. Len(ss) = n /\ \A i \in 1 .. n : Once(ss[i], Seq(Nat), sets[i])
  <2>1. \A i \in 1 .. n : ss[i] = With(sources, k, join, rows[i]) /\ sets[i] = Becomes(sources, k, join, rows[i])
    BY <1>1
  <2>2. Len(ss) = n
    BY <1>1
  <2>3. \A i \in 1 .. n : Once(With(sources, k, join, rows[i]), Seq(Nat), Becomes(sources, k, join, rows[i]))
    BY <1>1, WithOnce
  <2> HIDE DEF ss, sets, n
  <2> QED
    BY <2>1, <2>2, <2>3
<1>4. \A i, j \in 1 .. n : i # j => \A y \in sets[i] : y \notin sets[j]
  <2> SUFFICES ASSUME NEW i \in 1 .. n, NEW j \in 1 .. n, NEW y, y \in sets[i], y \in sets[j] PROVE i = j
    OBVIOUS
  <2>1. y \in Becomes(sources, k, join, rows[i]) /\ y \in Becomes(sources, k, join, rows[j])
    OBVIOUS
  <2>2. rows[i] \in Seq(Nat) /\ rows[j] \in Seq(Nat)
    BY <1>1
  <2> HIDE DEF n, sets
  <2>3. PICK r \in Nat : y = Append(rows[i], r)
    <3>1. Extends(y, rows[i])
      BY <1>0, <2>1, <2>2, BecomesFrom
    <3> QED
      BY <3>1 DEF Extends
  <2>4. PICK s \in Nat : y = Append(rows[j], s)
    <3>1. Extends(y, rows[j])
      BY <1>0, <2>1, <2>2, BecomesFrom
    <3> QED
      BY <3>1 DEF Extends
  <2>5. Append(rows[i], r) = Append(rows[j], s)
    BY <2>3, <2>4
  <2>6. rows[i] = rows[j]
    BY <2>2, <2>5, AppendSame
  <2> QED
    BY <1>1, <2>6 DEF n
<1>5. UNION {sets[i] : i \in 1 .. n} = became
  <2>1. \A i \in 1 .. n : sets[i] = Becomes(sources, k, join, rows[i])
    OBVIOUS
  <2>2. ASSUME NEW y \in became PROVE y \in UNION {sets[i] : i \in 1 .. n}
    <3>1. PICK x \in lefts : y \in Becomes(sources, k, join, x)
      OBVIOUS
    <3>2. PICK i \in 1 .. n : rows[i] = x
      BY <1>1
    <3>3. y \in sets[i]
      BY <2>1, <3>1, <3>2
    <3> HIDE DEF sets
    <3> QED
      BY <3>3
  <2>3. ASSUME NEW y \in UNION {sets[i] : i \in 1 .. n} PROVE y \in became
    <3>1. PICK i \in 1 .. n : y \in sets[i]
      BY <2>3
    <3>2. y \in Becomes(sources, k, join, rows[i]) /\ rows[i] \in lefts
      BY <1>1, <2>1, <3>1
    <3> QED
      BY <3>2
  <2> HIDE DEF sets, became
  <2> QED
    BY <2>2, <2>3
<1>6. Once(FlattenSeq(ss), Seq(Nat), became)
  <2> HIDE DEF ss, sets, became, n
  <2>1. \A i \in 1 .. Len(ss) : Once(ss[i], Seq(Nat), sets[i])
    BY <1>3
  <2>2. Apart(sets, Len(ss))
    BY <1>3, <1>4 DEF Apart
  <2>3. Once(FlattenSeq(ss), Seq(Nat), AllOf(sets, Len(ss)))
    BY <1>2, <2>1, <2>2, FlattenOnce
  <2>4. AllOf(sets, n) = became
    BY <1>5 DEF AllOf
  <2> QED
    BY <1>3, <2>3, <2>4
<1>7. Once(alone, Nat, unmet)
  <2> DEFINE m == Len(sources[k].rows)
             free == {r \in right : \A i \in DOMAIN rows : ~Matches(sources, k, join.con, Append(rows[i], r))}
  <2>1. m \in Nat /\ right = 1 .. m /\ free \in SUBSET (1 .. m)
    OBVIOUS
  <2>2. alone = IF KeepsRight(join) THEN Ascending(m, free) ELSE <<>>
    BY DEF Alone
  <2>3. unmet = IF KeepsRight(join) THEN free ELSE {}
    <3>1. ASSUME NEW r \in right
          PROVE  (\A x \in lefts : r \notin Met(sources, k, join.con, x))
                   <=> \A i \in DOMAIN rows : ~Matches(sources, k, join.con, Append(rows[i], r))
      BY <1>1 DEF Met
    <3>2. {r \in right : \A x \in lefts : r \notin Met(sources, k, join.con, x)} = free
      BY <3>1
    <3> HIDE DEF free, right
    <3> QED
      BY <3>2 DEF Unmet, right
  <2>4. Once(Ascending(m, free), Nat, free)
    <3> HIDE DEF m, free
    <3> QED
      BY <2>1, AscendingOnce
  <2>5. Once(<<>>, Nat, {})
    BY DEF Once, IsInjective, ToSet
  <2> HIDE DEF m, free, alone, unmet
  <2> QED
    BY <2>2, <2>3, <2>4, <2>5
<1>8. Once(Lengthened(nulls, alone), Seq(Nat), padded)
  <2> HIDE DEF nulls, alone, unmet
  <2> QED
    BY <1>2, <1>7, LengthenedOnce
<1>9. \A y \in became : y \notin padded
  <2> SUFFICES ASSUME NEW x \in lefts, NEW y \in Becomes(sources, k, join, x), NEW r \in unmet, y = Append(nulls, r)
               PROVE  FALSE
    OBVIOUS
  <2>1. x \in Seq(Nat) /\ r \in Nat
    <3>1. unmet \subseteq right /\ right \subseteq Nat
      BY DEF Unmet
    <3> QED
      BY <1>1, <3>1
  <2>2. PICK s \in Nat : y = Append(x, s)
    <3>1. y \in Becomes(sources, k, join, x)
      OBVIOUS
    <3>2. Extends(y, x)
      BY <1>0, <2>1, <3>1, BecomesFrom
    <3> QED
      BY <3>2 DEF Extends
  <2>3. x = nulls
    <3> HIDE DEF nulls
    <3> QED
      BY <1>2, <2>1, <2>2, AppendSame
  <2> QED
    BY <2>3
<1>10. JoinNext(sources, k, join, rows) = FlattenSeq(ss) \o Lengthened(nulls, alone)
  BY DEF JoinNext
<1>11. Once(FlattenSeq(ss) \o Lengthened(nulls, alone), Seq(Nat), became \cup padded)
  <2> HIDE DEF ss, nulls, alone, became, padded
  <2> QED
    BY <1>6, <1>8, <1>9, OnceConcat
<1>12. Grown(sources, k, join, lefts) = became \cup padded
  BY DEF Grown
<1> QED
  BY <1>10, <1>11, <1>12

(* A row that ends with source k matches when its parts should.            *)
ConKinds == {"none", "on", "using", "natural"}
LEMMA MeetsMatches ==
    ASSUME NEW sources, NEW k \in Nat, k >= 1, NEW con, con.kind \in ConKinds, NEW x, Len(x) = k
    PROVE  Meets(sources, con, x) <=> Matches(sources, k, con, x)
<1> DEFINE cells == Cells(sources, x)
           value(ref) == cells[PlaceOfRef(sources, ref)][ref.col]
           right == ToSet(sources[k].cols)
           cols == IF con.kind = "using" THEN con.cols ELSE right
           owners(c) == {i \in 1 .. k - 1 : c \in ToSet(sources[i].cols)}
           common == CommonPairs(sources, k, cols)
           Asked(i, c) == /\ Owns(sources, i, c) /\ \A j \in 1 .. i - 1 : ~Owns(sources, j, c)
                          /\ con.kind = "natural" \/ c \in con.cols
<1>1. CASE con.kind = "none"
  BY <1>1 DEF Meets, Matches
<1>2. CASE con.kind = "on"
  BY <1>2 DEF Meets, Matches
<1>3. CASE con.kind \in {"using", "natural"}
  <2>1. Meets(sources, con, x) <=>
          \A i \in 1 .. k - 1, c \in right : Asked(i, c) => Compares(cells[i][c], "=", cells[k][c])
    BY <1>3 DEF Meets
  <2>2. Matches(sources, k, con, x) <=> \A p \in common : Equal(cells[p[2]][p[1]], cells[k][p[1]])
    BY <1>3 DEF Matches
  <2>3. ASSUME NEW a, NEW b PROVE Compares(a, "=", b) <=> Equal(a, b)
    <3>1. Equal(a, b) \in BOOLEAN
      BY DEF Equal
    <3> QED
      BY <3>1 DEF Compares
  <2>4. common = {<<c, Min(owners(c))>> : c \in {c \in cols : owners(c) # {} /\ c \in right}}
    BY DEF CommonPairs
  <2>5. ASSUME NEW c \in right PROVE c \in cols <=> con.kind = "natural" \/ c \in con.cols
    BY <1>3
  <2>6. ASSUME NEW c, NEW i \in 1 .. k - 1
        PROVE  (Owns(sources, i, c) /\ \A j \in 1 .. i - 1 : ~Owns(sources, j, c))
                 <=> owners(c) # {} /\ i = Min(owners(c))
    <3>1. owners(c) \subseteq Nat /\ \A j \in 1 .. k - 1 : j \in owners(c) <=> Owns(sources, j, c)
      BY DEF Owns
    <3>2. \A j : j \in owners(c) => j \in 1 .. k - 1
      OBVIOUS
    <3> HIDE DEF owners
    <3>3. ASSUME owners(c) # {}
          PROVE  Min(owners(c)) \in owners(c) /\ \A j \in owners(c) : Min(owners(c)) <= j
      <4>1. \E m \in owners(c) : \A j \in owners(c) : m <= j
        BY <3>1, <3>3, Least
      <4> QED
        BY <4>1 DEF Min
    <3>4. ASSUME Owns(sources, i, c), \A j \in 1 .. i - 1 : ~Owns(sources, j, c)
          PROVE  owners(c) # {} /\ i = Min(owners(c))
      <4>1. i \in owners(c)
        BY <3>1, <3>4
      <4> DEFINE m == Min(owners(c))
      <4>2. m \in owners(c) /\ m <= i
        BY <3>3, <4>1
      <4>3. m \in 1 .. k - 1 /\ Owns(sources, m, c)
        BY <3>1, <3>2, <4>2
      <4> HIDE DEF m
      <4>4. ~(m < i)
        <5>1. m < i => m \in 1 .. i - 1
          BY <4>3
        <5> QED
          BY <3>4, <4>3, <5>1
      <4>5. i = m
        BY <4>2, <4>3, <4>4
      <4> QED
        BY <4>1, <4>5 DEF m
    <3>5. ASSUME owners(c) # {}, i = Min(owners(c))
          PROVE  Owns(sources, i, c) /\ \A j \in 1 .. i - 1 : ~Owns(sources, j, c)
      <4>1. i \in owners(c) /\ \A j \in owners(c) : i <= j
        BY <3>3, <3>5
      <4>2. \A j \in 1 .. i - 1 : j \in 1 .. k - 1 /\ ~(i <= j)
        OBVIOUS
      <4> QED
        BY <3>1, <4>1, <4>2
    <3> QED
      BY <3>4, <3>5
  <2>7. ASSUME NEW c PROVE Min(owners(c)) \in 1 .. k - 1 \/ owners(c) = {}
    <3>1. owners(c) \subseteq Nat /\ owners(c) \subseteq 1 .. k - 1
      OBVIOUS
    <3> HIDE DEF owners
    <3>2. owners(c) # {} => \E m \in owners(c) : \A j \in owners(c) : m <= j
      BY <3>1, Least
    <3> QED
      BY <3>1, <3>2 DEF Min
  <2> DEFINE Same(i, c) == Equal(cells[i][c], cells[k][c])
  <2>8. (\A i \in 1 .. k - 1, c \in right : Asked(i, c) => Same(i, c)) <=> \A p \in common : Same(p[2], p[1])
    <3> HIDE DEF Same
    <3>1. ASSUME NEW i \in 1 .. k - 1, NEW c \in right
          PROVE  Asked(i, c) <=> c \in cols /\ owners(c) # {} /\ i = Min(owners(c))
      BY <2>5, <2>6
    <3> HIDE DEF Asked, owners, common, right, cols
    <3>2. ASSUME \A i \in 1 .. k - 1, c \in right : Asked(i, c) => Same(i, c), NEW p \in common
          PROVE  Same(p[2], p[1])
      <4>1. PICK c \in cols : owners(c) # {} /\ c \in right /\ p = <<c, Min(owners(c))>>
        BY <2>4, <3>2
      <4>2. Min(owners(c)) \in 1 .. k - 1
        BY <2>7, <4>1
      <4>3. Same(Min(owners(c)), c)
        BY <3>1, <3>2, <4>1, <4>2
      <4> QED
        BY <4>1, <4>3
    <3>3. ASSUME \A p \in common : Same(p[2], p[1]), NEW i \in 1 .. k - 1, NEW c \in right, Asked(i, c)
          PROVE  Same(i, c)
      <4>1. c \in cols /\ owners(c) # {} /\ i = Min(owners(c))
        BY <3>1, <3>3
      <4>2. <<c, i>> \in common
        BY <2>4, <4>1
      <4>3. Same(<<c, i>>[2], <<c, i>>[1])
        BY <3>3, <4>2
      <4> QED
        BY <4>3
    <3> QED
      BY <3>2, <3>3
  <2> HIDE DEF cells, right, common, Asked
  <2> QED
    BY <2>1, <2>2, <2>3, <2>8
<1> QED
  BY <1>1, <1>2, <1>3 DEF ConKinds

(* What a turn of the loop answers is what belongs, and joins go on from it. *)
LEMMA BelongingSame ==
    ASSUME NEW sources, NEW k \in Nat, k >= 2, NEW join, join.con.kind \in ConKinds, NEW R, sources[k].rows \in Seq(R),
           NEW lefts \in SUBSET RowsOf(k - 1)
    PROVE  /\ Belonging(sources, k, join, lefts) = Grown(sources, k, join, lefts)
           /\ Belonging(sources, k, join, lefts) \subseteq RowsOf(k)
           /\ Nulls(k - 1) \notin lefts
<1> DEFINE right == DOMAIN sources[k].rows
           pairs == Pairs(sources, k, join.con, lefts)
           met(x) == Met(sources, k, join.con, x)
           nulls == Nulls(k - 1)
           matched == {Append(p[1], p[2]) : p \in pairs}
           keptleft == IF KeepsLeft(join) THEN {Append(x, 0) : x \in {x \in lefts : \A p \in pairs : p[1] # x}} ELSE {}
           keptright == IF KeepsRight(join)
                        THEN {Append(nulls, r) : r \in {r \in right : \A p \in pairs : p[2] # r}} ELSE {}
           became == UNION {Becomes(sources, k, join, x) : x \in lefts}
           padded == {Append(nulls, r) : r \in Unmet(sources, k, join, lefts)}
<1>1. /\ right \subseteq Nat \ {0}
      /\ \A x \in lefts : x \in Seq(Nat) /\ Len(x) = k - 1
      /\ \A x \in lefts : \E i \in 1 .. k - 1 : x[i] # 0
  BY DEF RowsOf
<1>2. nulls \in Seq(Nat) /\ Len(nulls) = k - 1 /\ \A i \in 1 .. k - 1 : nulls[i] = 0
  BY DEF Nulls
<1>3. nulls \notin lefts
  BY <1>1, <1>2
<1>4. ASSUME NEW x \in lefts, NEW r \in right PROVE <<x, r>> \in pairs <=> r \in met(x)
  <2>1. k >= 1 /\ x \in Seq(Nat) /\ r \in Nat /\ Len(Append(x, r)) = k
    BY <1>1
  <2>2. Meets(sources, join.con, Append(x, r)) <=> Matches(sources, k, join.con, Append(x, r))
    BY <2>1, MeetsMatches, Zenon
  <2> QED
    BY <2>2 DEF Pairs, Met
<1>5. pairs \subseteq lefts \X right
  BY DEF Pairs
<1>6. \A x \in lefts : met(x) \subseteq right
  BY DEF Met
<1>7. ASSUME NEW x \in lefts PROVE met(x) = {} <=> \A p \in pairs : p[1] # x
  <2> HIDE DEF pairs, met, right
  <2>1. ASSUME met(x) = {}, NEW p \in pairs PROVE p[1] # x
    <3>1. p = <<p[1], p[2]>> /\ p[1] \in lefts /\ p[2] \in right
      BY <1>5, <2>1
    <3> QED
      BY <1>4, <2>1, <3>1
  <2>2. ASSUME \A p \in pairs : p[1] # x PROVE met(x) = {}
    <3> SUFFICES ASSUME NEW r \in met(x) PROVE FALSE
      OBVIOUS
    <3>1. <<x, r>> \in pairs
      BY <1>4, <1>6
    <3> QED
      BY <2>2, <3>1
  <2> QED
    BY <2>1, <2>2
<1>8. ASSUME NEW r \in right PROVE (\A x \in lefts : r \notin met(x)) <=> \A p \in pairs : p[2] # r
  <2> HIDE DEF pairs, met, right
  <2>1. ASSUME \A x \in lefts : r \notin met(x), NEW p \in pairs PROVE p[2] # r
    <3>1. p = <<p[1], p[2]>> /\ p[1] \in lefts /\ p[2] \in right
      BY <1>5, <2>1
    <3> QED
      BY <1>4, <2>1, <3>1
  <2>2. ASSUME \A p \in pairs : p[2] # r, NEW x \in lefts PROVE r \notin met(x)
    BY <1>4, <2>2
  <2> QED
    BY <2>1, <2>2
<1>9. Belonging(sources, k, join, lefts) = matched \cup keptleft \cup keptright
  BY DEF Belonging
<1>10. keptright = padded
  <2>1. {r \in right : \A p \in pairs : p[2] # r} = {r \in right : \A x \in lefts : r \notin met(x)}
    BY <1>8
  <2> HIDE DEF nulls, pairs
  <2> QED
    BY <2>1 DEF Unmet
<1>11. matched \cup keptleft = became
  <2>1. ASSUME NEW x \in lefts
        PROVE  Becomes(sources, k, join, x) =
                 IF met(x) = {} /\ KeepsLeft(join) THEN {Append(x, 0)} ELSE {Append(x, r) : r \in met(x)}
    BY DEF Becomes
  <2> HIDE DEF pairs, met, right
  <2>2. ASSUME NEW y \in matched PROVE y \in became
    <3>1. PICK p \in pairs : y = Append(p[1], p[2])
      OBVIOUS
    <3>2. p = <<p[1], p[2]>> /\ p[1] \in lefts /\ p[2] \in right
      BY <1>5, <3>1
    <3>3. p[2] \in met(p[1])
      BY <1>4, <3>1, <3>2
    <3>4. y \in Becomes(sources, k, join, p[1])
      BY <2>1, <3>1, <3>2, <3>3
    <3> QED
      BY <3>2, <3>4
  <2>3. ASSUME NEW y \in keptleft PROVE y \in became
    <3>1. PICK x \in lefts : KeepsLeft(join) /\ y = Append(x, 0) /\ \A p \in pairs : p[1] # x
      OBVIOUS
    <3>2. y \in Becomes(sources, k, join, x)
      BY <1>7, <2>1, <3>1
    <3> QED
      BY <3>2
  <2>4. ASSUME NEW y \in became PROVE y \in matched \cup keptleft
    <3>1. PICK x \in lefts : y \in Becomes(sources, k, join, x)
      OBVIOUS
    <3>2. CASE met(x) = {} /\ KeepsLeft(join)
      <4>1. y = Append(x, 0) /\ \A p \in pairs : p[1] # x
        BY <1>7, <2>1, <3>1, <3>2
      <4> QED
        BY <3>2, <4>1
    <3>3. CASE ~(met(x) = {} /\ KeepsLeft(join))
      <4>1. PICK r \in met(x) : y = Append(x, r)
        BY <2>1, <3>1, <3>3
      <4>2. <<x, r>> \in pairs
        BY <1>4, <1>6
      <4>3. y = Append(<<x, r>>[1], <<x, r>>[2])
        BY <4>1
      <4>4. y \in matched
        BY <4>2, <4>3
      <4> QED
        BY <4>4
    <3> QED
      BY <3>2, <3>3
  <2> HIDE DEF matched, keptleft, became
  <2> QED
    BY <2>2, <2>3, <2>4
<1>12. became \cup padded \subseteq RowsOf(k)
  <2>1. ASSUME NEW x \in lefts, NEW r \in Nat PROVE Append(x, r) \in RowsOf(k)
    <3>1. x \in Seq(Nat) /\ Len(x) = k - 1
      BY <1>1
    <3>2. PICK i \in 1 .. k - 1 : x[i] # 0
      BY <1>1
    <3>3. Append(x, r) \in Seq(Nat) /\ Len(Append(x, r)) = k /\ Append(x, r)[i] = x[i] /\ i \in 1 .. k
      BY <3>1
    <3> QED
      BY <3>2, <3>3 DEF RowsOf
  <2>2. ASSUME NEW r \in right PROVE Append(nulls, r) \in RowsOf(k)
    <3>1. r \in Nat /\ r # 0
      BY <1>1
    <3> HIDE DEF nulls, right
    <3>2. Append(nulls, r) \in Seq(Nat) /\ Len(Append(nulls, r)) = k /\ Append(nulls, r)[k] = r /\ k \in 1 .. k
      BY <1>2, <3>1
    <3> QED
      BY <3>1, <3>2 DEF RowsOf
  <2>3. \A x \in lefts : Becomes(sources, k, join, x) \subseteq {Append(x, r) : r \in Nat}
    <3>1. \A x \in lefts : met(x) \subseteq Nat
      BY <1>1, <1>6
    <3> QED
      BY <3>1 DEF Becomes
  <2>4. Unmet(sources, k, join, lefts) \subseteq right
    BY DEF Unmet
  <2>5. became \subseteq RowsOf(k)
    <3>1. ASSUME NEW x \in lefts, NEW y \in Becomes(sources, k, join, x) PROVE y \in RowsOf(k)
      <4>1. PICK r \in Nat : y = Append(x, r)
        BY <2>3
      <4> QED
        BY <2>1, <4>1
    <3> QED
      BY <3>1
  <2>6. padded \subseteq RowsOf(k)
    <3> HIDE DEF nulls, right
    <3> QED
      BY <2>2, <2>4
  <2> HIDE DEF became, padded
  <2> QED
    BY <2>5, <2>6
<1>13. matched \cup keptleft \cup keptright = became \cup padded
  <2> HIDE DEF matched, keptleft, keptright, became, padded
  <2> QED
    BY <1>10, <1>11
<1>14. Grown(sources, k, join, lefts) = became \cup padded
  BY DEF Grown
<1> HIDE DEF matched, keptleft, keptright
<1> QED
  BY <1>3, <1>9, <1>12, <1>13, <1>14

(* What belongs are rows. *)
LEMMA BelongingTyped ==
    ASSUME NEW sources, NEW k \in Nat, k >= 1, NEW join, NEW R, sources[k].rows \in Seq(R),
           NEW lefts \in SUBSET Seq(Nat)
    PROVE  Belonging(sources, k, join, lefts) \in SUBSET Seq(Nat)
<1> DEFINE right == DOMAIN sources[k].rows
           pairs == Pairs(sources, k, join.con, lefts)
           nulls == Nulls(k - 1)
<1>1. right \subseteq Nat /\ nulls \in Seq(Nat)
  BY DEF Nulls
<1>2. \A p \in pairs : p[1] \in Seq(Nat) /\ p[2] \in Nat
  BY <1>1 DEF Pairs
<1> HIDE DEF nulls, pairs, right
<1>3. \A x \in Seq(Nat), r \in Nat : Append(x, r) \in Seq(Nat)
  OBVIOUS
<1>4. \A p \in pairs : Append(p[1], p[2]) \in Seq(Nat)
  BY <1>2, <1>3
<1>5. \A x \in lefts : Append(x, 0) \in Seq(Nat)
  BY <1>3
<1>6. \A r \in right : Append(nulls, r) \in Seq(Nat)
  BY <1>1, <1>3
<1>7. ASSUME NEW y \in Belonging(sources, k, join, lefts)
      PROVE  \/ \E p \in pairs : y = Append(p[1], p[2])
             \/ \E x \in lefts : y = Append(x, 0)
             \/ \E r \in right : y = Append(nulls, r)
  BY <1>7, Zenon DEF Belonging, pairs, nulls, right
<1>8. ASSUME NEW y \in Belonging(sources, k, join, lefts) PROVE y \in Seq(Nat)
  BY <1>4, <1>5, <1>6, <1>7
<1> QED
  BY <1>8

(* The sources of a join, and how they are joined. *)
Joinable(sources, joins, R, C) ==
    /\ sources \in Seq([name : STRING, rows : Seq(R), cols : Seq(C)])
    /\ sources # <<>>
    /\ \A k \in 2 .. Len(sources) : joins[k - 1].con.kind \in ConKinds

(* acc is the loop of Joined. *)
JoinedBy(acc, sources, joins) ==
    /\ acc \in [1 .. Len(sources) -> Seq(Seq(Nat))]
    /\ acc[1] = Lengthened(<<>>, [r \in DOMAIN sources[1].rows |-> r])
    /\ acc[Len(sources)] = Joined(sources, joins)
    /\ \A k \in 2 .. Len(sources) : acc[k] = JoinNext(sources, k, joins[k - 1], acc[k - 1])

(* acc is that of Wanted. *)
WantedBy(acc, sources, joins) ==
    /\ acc \in [1 .. Len(sources) -> SUBSET Seq(Nat)]
    /\ acc[1] = {<<r>> : r \in DOMAIN sources[1].rows}
    /\ acc[Len(sources)] = Wanted(sources, joins)
    /\ \A k \in 2 .. Len(sources) : acc[k] = Belonging(sources, k, joins[k - 1], acc[k - 1])

(* Their shapes. *)
LEMMA SourcesForm ==
    ASSUME NEW sources, NEW joins, NEW R, NEW C, Joinable(sources, joins, R, C)
    PROVE  /\ Len(sources) \in Nat /\ Len(sources) >= 1 /\ DOMAIN sources = 1 .. Len(sources)
           /\ \A k \in 1 .. Len(sources) : /\ sources[k].rows \in Seq(R) /\ sources[k].cols \in Seq(C)
                                            /\ DOMAIN sources[k].rows \subseteq Nat \ {0}
<1>1. Len(sources) \in Nat /\ Len(sources) >= 1 /\ DOMAIN sources = 1 .. Len(sources)
  BY DEF Joinable
<1> DEFINE T == [name : STRING, rows : Seq(R), cols : Seq(C)]
<1>2. \A k \in 1 .. Len(sources) : sources[k] \in T
  <2>1. sources \in Seq(T)
    BY DEF Joinable
  <2> HIDE DEF T
  <2> QED
    BY <2>1
<1>3. ASSUME NEW k \in 1 .. Len(sources)
      PROVE  sources[k].rows \in Seq(R) /\ sources[k].cols \in Seq(C) /\ DOMAIN sources[k].rows \subseteq Nat \ {0}
  <2>1. sources[k].rows \in Seq(R) /\ sources[k].cols \in Seq(C)
    BY <1>2
  <2> QED
    BY <2>1
<1> QED
  BY <1>1, <1>3

(* The rows of the first source. *)
LEMMA FirstOnce ==
    ASSUME NEW R, NEW rows \in Seq(R)
    PROVE  Once(Lengthened(<<>>, [r \in DOMAIN rows |-> r]), Seq(Nat), {<<r>> : r \in DOMAIN rows})
<1> DEFINE n == Len(rows)
           all == [r \in DOMAIN rows |-> r]
<1>1. n \in Nat /\ DOMAIN rows = 1 .. n /\ all = [r \in 1 .. n |-> r]
  OBVIOUS
<1> HIDE DEF n, all
<1>2. all \in Seq(Nat) /\ DOMAIN all = 1 .. n /\ \A r \in 1 .. n : all[r] = r
  BY <1>1
<1>3. Once(all, Nat, DOMAIN rows)
  <2>1. \A x : x \in ToSet(all) <=> \E i \in 1 .. n : all[i] = x
    BY <1>2 DEF ToSet
  <2>2. ToSet(all) = 1 .. n
    <3>1. \A x \in 1 .. n : x \in ToSet(all)
      BY <1>2, <2>1
    <3>2. \A x \in ToSet(all) : x \in 1 .. n
      BY <1>2, <2>1
    <3> QED
      BY <3>1, <3>2
  <2>3. IsInjective(all)
    BY <1>2 DEF IsInjective
  <2> QED
    BY <1>1, <1>2, <2>2, <2>3 DEF Once
<1>4. Once(Lengthened(<<>>, all), Seq(Nat), {Append(<<>>, r) : r \in DOMAIN rows})
  <2>1. <<>> \in Seq(Nat)
    OBVIOUS
  <2> QED
    BY <1>3, <2>1, LengthenedOnce
<1>5. \A r \in DOMAIN rows : Append(<<>>, r) = <<r>>
  OBVIOUS
<1>6. {Append(<<>>, r) : r \in DOMAIN rows} = {<<r>> : r \in DOMAIN rows}
  BY <1>5
<1> QED
  BY <1>4, <1>6 DEF all

(* There is a loop of Joined, ... *)
LEMMA JoinedLoop ==
    ASSUME NEW sources, NEW joins, NEW R, NEW C, Joinable(sources, joins, R, C)
    PROVE  \E acc : JoinedBy(acc, sources, joins)
<1> DEFINE len == Len(sources)
           Type == Seq(Seq(Nat))
           Body(i, a) == JoinNext(sources, i, joins[i - 1], a)
           step == [p \in Nat \X Type |-> IF p[1] + 2 \in 2 .. len THEN Body(p[1] + 2, p[2]) ELSE p[2]]
           Start(i) == Lengthened(<<>>, [r \in DOMAIN sources[i].rows |-> r])
           rule(acc) == [i \in 1 .. len |-> IF i = 1 THEN Start(i) ELSE Body(i, acc[i - 1])]
           first == Start(1)
           found == CHOOSE acc : acc = rule(acc)
<1>1. len \in Nat /\ len >= 1 /\ first \in Type
  <2>1. Len(sources) \in Nat /\ Len(sources) >= 1 /\ sources[1].rows \in Seq(R)
    BY SourcesForm
  <2>2. Once(Lengthened(<<>>, [r \in DOMAIN sources[1].rows |-> r]), Seq(Nat), {<<r>> : r \in DOMAIN sources[1].rows})
    BY <2>1, FirstOnce
  <2> QED
    BY <2>1, <2>2 DEF Once
<1>2. ASSUME NEW i \in 2 .. len, NEW a \in Type PROVE Body(i, a) \in Type
  <2>1. i \in Nat /\ i >= 1 /\ i \in 1 .. Len(sources)
    BY <1>2
  <2>2. sources[i].rows \in Seq(R)
    BY <2>1, SourcesForm
  <2> QED
    BY <1>2, <2>1, <2>2, JoinNextTyped
<1>3. found[len] = Joined(sources, joins)
  BY DEF Joined
<1> HIDE DEF len, Body, Type
<1>0. first = Start(1)
  OBVIOUS
<1> HIDE DEF first, Start
<1>4. step \in Steps(Type)
  BY <1>2 DEF Steps
<1>5. PICK g : Bounded(g, len - 1, Type, first, step)
  <2>1. len - 1 \in Nat
    BY <1>1
  <2> HIDE DEF step
  <2> QED
    BY <1>1, <1>4, <2>1, BoundedRecursion
<1> DEFINE h == [i \in 1 .. len |-> g[i - 1]]
<1>6. h[1] = first /\ \A i \in 2 .. len : h[i] = Body(i, h[i - 1])
  <2>1. 1 \in 1 .. len /\ 1 - 1 = 0
    BY <1>1
  <2>2. ASSUME NEW i \in 2 .. len PROVE h[i] = Body(i, h[i - 1])
    <3>1. /\ i - 2 \in Nat /\ (i - 2) + 2 = i /\ i - 1 \in 1 .. len - 1 /\ (i - 1) - 1 = i - 2
          /\ i \in 1 .. len /\ i - 1 \in 1 .. len /\ (i - 1) - 1 = i - 2 /\ i - 2 \in 0 .. len - 1
      BY <1>1
    <3>2. g[i - 1] = step[<<i - 2, g[i - 2]>>] /\ g[i - 2] \in Type
      <4> HIDE DEF step
      <4> QED
        BY <1>5, <3>1 DEF Bounded
    <3>3. h[i] = g[i - 1] /\ h[i - 1] = g[i - 2]
      BY <3>1
    <3> HIDE DEF h
    <3> QED
      BY <3>1, <3>2, <3>3
  <2>3. h[1] = first
    BY <1>5, <2>1 DEF Bounded
  <2> HIDE DEF h
  <2> QED
    BY <2>2, <2>3
<1>7. h = rule(h)
  <2>1. h = [i \in 1 .. len |-> h[i]]
    OBVIOUS
  <2>2. \A i \in 1 .. len : i # 1 => i \in 2 .. len
    BY <1>1
  <2> HIDE DEF h
  <2> QED
    BY <1>6, <1>0, <2>1, <2>2
<1>8. found = rule(found)
  <2> HIDE DEF rule, h
  <2> QED
    BY <1>7
<1> HIDE DEF found, h
<1>9. found[1] = first /\ \A i \in 2 .. len : found[i] = Body(i, found[i - 1])
  <2>1. 1 \in 1 .. len /\ \A i \in 2 .. len : i \in 1 .. len /\ i # 1
    BY <1>1
  <2> QED
    BY <1>8, <1>0, <2>1
<1>10. \A i \in 1 .. len : found[i] \in Type
  <2>1. \A i \in 2 .. len : found[i - 1] \in Type => found[i] \in Type
    BY <1>2, <1>9
  <2>2. found[1] \in Type
    BY <1>1, <1>9
  <2> QED
    BY <1>1, <2>1, <2>2, StaysFromOne
<1>11. found \in [1 .. len -> Type]
  BY <1>8, <1>10
<1> QED
  BY <1>3, <1>9, <1>11 DEF JoinedBy, len, Body, Type, first, Start

(* ... and one of Wanted. *)
LEMMA WantedLoop ==
    ASSUME NEW sources, NEW joins, NEW R, NEW C, Joinable(sources, joins, R, C)
    PROVE  \E acc : WantedBy(acc, sources, joins)
<1> DEFINE len == Len(sources)
           Type == SUBSET Seq(Nat)
           Body(i, a) == Belonging(sources, i, joins[i - 1], a)
           step == [p \in Nat \X Type |-> IF p[1] + 2 \in 2 .. len THEN Body(p[1] + 2, p[2]) ELSE p[2]]
           Start(i) == {<<r>> : r \in DOMAIN sources[i].rows}
           rule(acc) == [i \in 1 .. len |-> IF i = 1 THEN Start(i) ELSE Body(i, acc[i - 1])]
           first == Start(1)
           found == CHOOSE acc : acc = rule(acc)
<1>1. len \in Nat /\ len >= 1 /\ first \in Type
  <2>1. Len(sources) \in Nat /\ Len(sources) >= 1 /\ DOMAIN sources[1].rows \subseteq Nat
    BY SourcesForm
  <2>2. \A r \in Nat : <<r>> \in Seq(Nat)
    OBVIOUS
  <2> QED
    BY <2>1, <2>2
<1>2. ASSUME NEW i \in 2 .. len, NEW a \in Type PROVE Body(i, a) \in Type
  <2>1. i \in Nat /\ i >= 1 /\ i \in 1 .. Len(sources)
    BY <1>2
  <2>2. sources[i].rows \in Seq(R)
    BY <2>1, SourcesForm
  <2> QED
    BY <1>2, <2>1, <2>2, BelongingTyped
<1>3. found[len] = Wanted(sources, joins)
  BY DEF Wanted
<1> HIDE DEF len, Body, Type
<1>0. first = Start(1)
  OBVIOUS
<1> HIDE DEF first, Start
<1>4. step \in Steps(Type)
  BY <1>2 DEF Steps
<1>5. PICK g : Bounded(g, len - 1, Type, first, step)
  <2>1. len - 1 \in Nat
    BY <1>1
  <2> HIDE DEF step
  <2> QED
    BY <1>1, <1>4, <2>1, BoundedRecursion
<1> DEFINE h == [i \in 1 .. len |-> g[i - 1]]
<1>6. h[1] = first /\ \A i \in 2 .. len : h[i] = Body(i, h[i - 1])
  <2>1. 1 \in 1 .. len /\ 1 - 1 = 0
    BY <1>1
  <2>2. ASSUME NEW i \in 2 .. len PROVE h[i] = Body(i, h[i - 1])
    <3>1. /\ i - 2 \in Nat /\ (i - 2) + 2 = i /\ i - 1 \in 1 .. len - 1 /\ (i - 1) - 1 = i - 2
          /\ i \in 1 .. len /\ i - 1 \in 1 .. len /\ (i - 1) - 1 = i - 2 /\ i - 2 \in 0 .. len - 1
      BY <1>1
    <3>2. g[i - 1] = step[<<i - 2, g[i - 2]>>] /\ g[i - 2] \in Type
      <4> HIDE DEF step
      <4> QED
        BY <1>5, <3>1 DEF Bounded
    <3>3. h[i] = g[i - 1] /\ h[i - 1] = g[i - 2]
      BY <3>1
    <3> HIDE DEF h
    <3> QED
      BY <3>1, <3>2, <3>3
  <2>3. h[1] = first
    BY <1>5, <2>1 DEF Bounded
  <2> HIDE DEF h
  <2> QED
    BY <2>2, <2>3
<1>7. h = rule(h)
  <2>1. h = [i \in 1 .. len |-> h[i]]
    OBVIOUS
  <2>2. \A i \in 1 .. len : i # 1 => i \in 2 .. len
    BY <1>1
  <2> HIDE DEF h
  <2> QED
    BY <1>6, <1>0, <2>1, <2>2
<1>8. found = rule(found)
  <2> HIDE DEF rule, h
  <2> QED
    BY <1>7
<1> HIDE DEF found, h
<1>9. found[1] = first /\ \A i \in 2 .. len : found[i] = Body(i, found[i - 1])
  <2>1. 1 \in 1 .. len /\ \A i \in 2 .. len : i \in 1 .. len /\ i # 1
    BY <1>1
  <2> QED
    BY <1>8, <1>0, <2>1
<1>10. \A i \in 1 .. len : found[i] \in Type
  <2>1. \A i \in 2 .. len : found[i - 1] \in Type => found[i] \in Type
    BY <1>2, <1>9
  <2>2. found[1] \in Type
    BY <1>1, <1>9
  <2> QED
    BY <1>1, <2>1, <2>2, StaysFromOne
<1>11. found \in [1 .. len -> Type]
  BY <1>8, <1>10
<1> QED
  BY <1>3, <1>9, <1>11 DEF WantedBy, len, Body, Type, first, Start

(* The rows that belong, each once. *)
LEMMA JoinedOnce ==
    ASSUME NEW sources, NEW joins, NEW R, NEW C, Joinable(sources, joins, R, C)
    PROVE  Once(Joined(sources, joins), Seq(Nat), Wanted(sources, joins)) /\ Wanted(sources, joins) \subseteq RowsOf(Len(sources))
<1>1. PICK got : JoinedBy(got, sources, joins)
  BY JoinedLoop
<1>2. PICK want : WantedBy(want, sources, joins)
  BY WantedLoop
<1> DEFINE n == Len(sources)
           P == {k \in 1 .. n : Once(got[k], Seq(Nat), want[k]) /\ want[k] \subseteq RowsOf(k)}
           r == [k \in 1 .. n |-> k]
<1>3. n \in Nat /\ n >= 1 /\ 1 \in 1 .. n /\ n \in 1 .. n
  BY SourcesForm
<1>4. r[1] \in P
  <2>1. sources[1].rows \in Seq(R) /\ DOMAIN sources[1].rows \subseteq Nat \ {0}
    BY <1>3, SourcesForm
  <2>2. Once(got[1], Seq(Nat), want[1])
    BY <1>1, <1>2, <2>1, FirstOnce DEF JoinedBy, WantedBy
  <2>3. ASSUME NEW m \in Nat \ {0} PROVE <<m>> \in RowsOf(1)
    BY DEF RowsOf
  <2>4. want[1] \subseteq RowsOf(1)
    BY <1>2, <2>1, <2>3 DEF WantedBy
  <2> QED
    BY <1>3, <2>2, <2>4
<1>5. ASSUME NEW k \in 2 .. n, r[k - 1] \in P PROVE r[k] \in P
  <2>1. k \in Nat /\ k >= 1 /\ k >= 2 /\ k \in 1 .. n /\ k - 1 \in 1 .. n /\ r[k] = k /\ r[k - 1] = k - 1
    BY <1>3
  <2>2. Once(got[k - 1], Seq(Nat), want[k - 1]) /\ want[k - 1] \in SUBSET RowsOf(k - 1)
    BY <1>5, <2>1
  <2>3. sources[k].rows \in Seq(R)
    BY <2>1, SourcesForm
  <2>4. joins[k - 1].con.kind \in ConKinds
    BY DEF Joinable
  <2> DEFINE join == joins[k - 1]
             became == Grown(sources, k, join, want[k - 1])
             belonging == Belonging(sources, k, join, want[k - 1])
  <2>5. belonging = became /\ belonging \subseteq RowsOf(k) /\ Nulls(k - 1) \notin want[k - 1]
    BY <2>1, <2>2, <2>3, <2>4, BelongingSame
  <2>6. Once(JoinNext(sources, k, join, got[k - 1]), Seq(Nat), became)
    BY <2>1, <2>2, <2>3, <2>5, JoinNextOnce, Zenon
  <2>7. got[k] = JoinNext(sources, k, join, got[k - 1]) /\ want[k] = belonging
    BY <1>1, <1>2 DEF JoinedBy, WantedBy
  <2> HIDE DEF became, belonging, join
  <2>8. Once(got[k], Seq(Nat), want[k]) /\ want[k] \subseteq RowsOf(k)
    BY <2>5, <2>6, <2>7
  <2> QED
    BY <2>1, <2>8
<1>6. n \in P
  <2>1. \A k \in 1 .. n : r[k] \in P
    <3> HIDE DEF P, r
    <3> QED
      BY <1>3, <1>4, <1>5, StaysFromOne
  <2> QED
    BY <1>3, <2>1
<1> QED
  BY <1>1, <1>2, <1>6 DEF JoinedBy, WantedBy

(* One number more. *)
LEMMA AppendForm ==
    ASSUME NEW x \in Seq(Nat), NEW r \in Nat
    PROVE  /\ Append(x, r) \in Seq(Nat) /\ Len(Append(x, r)) = Len(x) + 1 /\ Append(x, r)[Len(x) + 1] = r
           /\ \A i \in 1 .. Len(x) : Append(x, r)[i] = x[i]
<1>1. Append(x, r) \in Seq(Nat)
  OBVIOUS
<1>2. Len(Append(x, r)) = Len(x) + 1
  OBVIOUS
<1>3. Append(x, r)[Len(x) + 1] = r
  OBVIOUS
<1>4. \A i \in 1 .. Len(x) : Append(x, r)[i] = x[i]
  OBVIOUS
<1> QED
  BY <1>1, <1>2, <1>3, <1>4

(* Joins of two sources. *)

(* Two sources the other way round, ... *)
LEMMA TurnedSources ==
    ASSUME NEW sources, NEW joins, NEW R, NEW C, Joinable(sources, joins, R, C), Len(sources) = 2
    PROVE  /\ Len(Reverse(sources)) = 2 /\ DOMAIN Reverse(sources) = 1 .. 2
           /\ Reverse(sources)[1] = sources[2] /\ Reverse(sources)[2] = sources[1]
           /\ Joinable(Reverse(sources), <<Join(Mirrored(joins[1].kind), joins[1].con)>>, R, C)
<1> DEFINE T == [name : STRING, rows : Seq(R), cols : Seq(C)]
           turned == Reverse(sources)
           mirrored == <<Join(Mirrored(joins[1].kind), joins[1].con)>>
<1>1. sources \in Seq(T) /\ joins[1].con.kind \in ConKinds
  BY DEF Joinable
<1> HIDE DEF T
<1>2. turned = [i \in 1 .. 2 |-> sources[(2 - i) + 1]]
  BY DEF Reverse
<1>3. sources[1] \in T /\ sources[2] \in T
  <2>1. 1 \in 1 .. Len(sources) /\ 2 \in 1 .. Len(sources)
    OBVIOUS
  <2>2. \A i \in 1 .. Len(sources) : sources[i] \in T
    BY <1>1
  <2> QED
    BY <2>1, <2>2
<1>4. turned \in Seq(T) /\ Len(turned) = 2 /\ turned[1] = sources[2] /\ turned[2] = sources[1]
  BY <1>2, <1>3
<1>5. mirrored[1].con.kind \in ConKinds
  BY <1>1 DEF Join
<1> HIDE DEF turned, mirrored
<1>6. \A k \in 2 .. Len(turned) : k - 1 = 1
  BY <1>4
<1>7. Joinable(turned, mirrored, R, C)
  <2>1. turned # <<>> /\ turned \in Seq([name : STRING, rows : Seq(R), cols : Seq(C)])
    BY <1>4 DEF T
  <2> QED
    BY <1>5, <1>6, <2>1 DEF Joinable
<1> QED
  BY <1>4, <1>7 DEF turned, mirrored

(* A reference that means one column of one source. *)
Unambiguous(sources, ref) ==
    LET having == {i \in DOMAIN sources : ref.col \in ToSet(sources[i].cols)}
        named == {i \in having : sources[i].name = ref.name}
    IN  \E i : (IF named # {} THEN named ELSE having) = {i}

(* ... in which a reference means the same, ... *)
LEMMA TurnedRef ==
    ASSUME NEW s, NEW t, DOMAIN s = 1 .. 2, DOMAIN t = 1 .. 2, t[1] = s[2], t[2] = s[1],
           NEW ref, Unambiguous(s, ref)
    PROVE  \/ PlaceOfRef(s, ref) = 1 /\ PlaceOfRef(t, ref) = 2
           \/ PlaceOfRef(s, ref) = 2 /\ PlaceOfRef(t, ref) = 1
<1> DEFINE having(u) == {i \in DOMAIN u : ref.col \in ToSet(u[i].cols)}
           named(u) == {i \in having(u) : u[i].name = ref.name}
           meant(u) == IF named(u) # {} THEN named(u) ELSE having(u)
           Has(i) == ref.col \in ToSet(s[i].cols)
           Called(i) == Has(i) /\ s[i].name = ref.name
<1>0. 1 .. 2 = {1, 2}
  OBVIOUS
<1>1. /\ \A i \in {1, 2} : i \in having(s) <=> Has(i)
      /\ \A i \in {1, 2} : i \in named(s) <=> Called(i)
      /\ 1 \in having(t) <=> Has(2)
      /\ 2 \in having(t) <=> Has(1)
      /\ 1 \in named(t) <=> Called(2)
      /\ 2 \in named(t) <=> Called(1)
  BY <1>0
<1>2. /\ having(s) \subseteq {1, 2} /\ named(s) \subseteq {1, 2}
      /\ having(t) \subseteq {1, 2} /\ named(t) \subseteq {1, 2}
  BY <1>0
<1>3. ASSUME NEW u, named(u) \subseteq {1, 2}, having(u) \subseteq {1, 2}, NEW i, meant(u) = {i}
      PROVE  PlaceOfRef(u, ref) = i
  <2>1. PlaceOfRef(u, ref) = Max(meant(u))
    BY DEF PlaceOfRef
  <2>2. i \in {1, 2}
    BY <1>3
  <2> HIDE DEF meant
  <2>3. Max({i}) = i
    BY <2>2 DEF Max
  <2> QED
    BY <1>3, <2>1, <2>3
<1>4. PICK i : meant(s) = {i}
  BY DEF Unambiguous
<1>5. i \in {1, 2}
  BY <1>2, <1>4
<1> HIDE DEF having, named, Has, Called
<1>6. CASE i = 1
  <2>1. meant(t) = {2}
    BY <1>1, <1>2, <1>4, <1>6
  <2> QED
    BY <1>2, <1>3, <1>4, <1>6, <2>1
<1>7. CASE i = 2
  <2>1. meant(t) = {1}
    BY <1>1, <1>2, <1>4, <1>7
  <2> QED
    BY <1>2, <1>3, <1>4, <1>7, <2>1
<1> QED
  BY <1>5, <1>6, <1>7

(* The references of an ON of two sources mean one column each. *)
ClearRefs(sources, con) == con.kind = "on" => Unambiguous(sources, con.left) /\ Unambiguous(sources, con.right)

(* ... and the same rows match. *)
LEMMA TurnedMeets ==
    ASSUME NEW s, NEW t, DOMAIN s = 1 .. 2, DOMAIN t = 1 .. 2, t[1] = s[2], t[2] = s[1],
           NEW con, con.kind \in ConKinds, ClearRefs(s, con), NEW a \in Nat, NEW b \in Nat
    PROVE  Meets(s, con, <<a, b>>) <=> Meets(t, con, <<b, a>>)
<1> DEFINE x == <<a, b>>
           y == <<b, a>>
           cx == Cells(s, x)
           cy == Cells(t, y)
<1>1. Len(x) = 2 /\ Len(y) = 2 /\ DOMAIN x = {1, 2} /\ DOMAIN y = {1, 2} /\ x[1] = a /\ x[2] = b /\ y[1] = b /\ y[2] = a
  OBVIOUS
<1>2. cy[1] = cx[2] /\ cy[2] = cx[1]
  <2> HIDE DEF x, y
  <2> QED
    BY <1>1 DEF Cells
<1>3. CASE con.kind = "none"
  BY <1>3 DEF Meets
<1>4. CASE con.kind = "on"
  <2>1. /\ cx[PlaceOfRef(s, con.left)] = cy[PlaceOfRef(t, con.left)]
        /\ cx[PlaceOfRef(s, con.right)] = cy[PlaceOfRef(t, con.right)]
    <3>1. ASSUME NEW ref, Unambiguous(s, ref) PROVE cx[PlaceOfRef(s, ref)] = cy[PlaceOfRef(t, ref)]
      <4>1. \/ PlaceOfRef(s, ref) = 1 /\ PlaceOfRef(t, ref) = 2
            \/ PlaceOfRef(s, ref) = 2 /\ PlaceOfRef(t, ref) = 1
        BY <3>1, TurnedRef
      <4> HIDE DEF cx, cy
      <4> QED
        BY <1>2, <4>1
    <3> HIDE DEF cx, cy
    <3> QED
      BY <1>4, <3>1 DEF ClearRefs
  <2>2. Meets(s, con, x) <=> Compares(cx[PlaceOfRef(s, con.left)][con.left.col], con.op, cx[PlaceOfRef(s, con.right)][con.right.col])
    BY <1>4 DEF Meets
  <2>3. Meets(t, con, y) <=> Compares(cy[PlaceOfRef(t, con.left)][con.left.col], con.op, cy[PlaceOfRef(t, con.right)][con.right.col])
    BY <1>4 DEF Meets
  <2> HIDE DEF cx, cy
  <2> QED
    BY <2>1, <2>2, <2>3
<1>5. CASE con.kind \in {"using", "natural"}
  <2> DEFINE Asked(c) == con.kind = "natural" \/ c \in con.cols
  <2>1. ASSUME NEW u, NEW z, Len(z) = 2
        PROVE  Meets(u, con, z) <=>
                 \A c : c \in ToSet(u[1].cols) /\ c \in ToSet(u[2].cols) /\ Asked(c)
                          => Compares(Cells(u, z)[1][c], "=", Cells(u, z)[2][c])
    <3>1. Meets(u, con, z) <=>
            \A i \in 1 .. 1, c \in ToSet(u[2].cols) :
              /\ Owns(u, i, c) /\ \A j \in 1 .. (i - 1) : ~Owns(u, j, c)
              /\ Asked(c)
              => Compares(Cells(u, z)[i][c], "=", Cells(u, z)[2][c])
      BY <1>5, <2>1 DEF Meets
    <3>2. \A i : i \in 1 .. 1 <=> i = 1
      OBVIOUS
    <3>3. \A j : j \notin 1 .. (1 - 1)
      OBVIOUS
    <3> HIDE DEF Asked
    <3> QED
      BY <3>1, <3>2, <3>3 DEF Owns
  <2>2. ASSUME NEW p, NEW q PROVE Compares(p, "=", q) <=> Compares(q, "=", p)
    <3>1. (Equal(p, q) <=> Equal(q, p)) /\ Equal(p, q) \in BOOLEAN /\ Equal(q, p) \in BOOLEAN
      BY DEF Equal
    <3> QED
      BY <3>1 DEF Compares
  <2>3. /\ Meets(s, con, x) <=>
             \A c : c \in ToSet(s[1].cols) /\ c \in ToSet(s[2].cols) /\ Asked(c) => Compares(cx[1][c], "=", cx[2][c])
        /\ Meets(t, con, y) <=>
             \A c : c \in ToSet(t[1].cols) /\ c \in ToSet(t[2].cols) /\ Asked(c) => Compares(cy[1][c], "=", cy[2][c])
    <3> HIDE DEF x, y, Asked
    <3> QED
      BY <1>1, <2>1
  <2> HIDE DEF x, y, cx, cy, Asked
  <2> QED
    BY <1>2, <2>2, <2>3 DEF x, y
<1> QED
  BY <1>3, <1>4, <1>5 DEF ConKinds

(* a and b, 0 standing for no row, are together in a join of two sources. *)
Together(s, join, a, b) ==
    \/ a # 0 /\ b # 0 /\ Meets(s, join.con, <<a, b>>)
    \/ KeepsLeft(join) /\ a # 0 /\ b = 0 /\ \A r \in DOMAIN s[2].rows : ~Meets(s, join.con, <<a, r>>)
    \/ KeepsRight(join) /\ a = 0 /\ b # 0 /\ \A r \in DOMAIN s[1].rows : ~Meets(s, join.con, <<r, b>>)
RowsOrNone(source) == DOMAIN source.rows \cup {0}

(* These are the rows that belong. *)
LEMMA WantedOfTwo ==
    ASSUME NEW sources, NEW joins, NEW R, NEW C, Joinable(sources, joins, R, C), Len(sources) = 2
    PROVE  Wanted(sources, joins) =
             {<<p[1], p[2]>> : p \in {p \in RowsOrNone(sources[1]) \X RowsOrNone(sources[2]) :
                                        Together(sources, joins[1], p[1], p[2])}}
<1> DEFINE left == DOMAIN sources[1].rows
           right == DOMAIN sources[2].rows
           join == joins[1]
           lefts == {<<r>> : r \in left}
           pairs == Pairs(sources, 2, join.con, lefts)
           matched == {Append(p[1], p[2]) : p \in pairs}
           lonely == {x \in lefts : \A p \in pairs : p[1] # x}
           free == {r \in right : \A p \in pairs : p[2] # r}
           Meet(a, b) == Meets(sources, join.con, <<a, b>>)
<1>1. left \subseteq Nat \ {0} /\ right \subseteq Nat \ {0}
  <2>1. 1 \in 1 .. Len(sources) /\ 2 \in 1 .. Len(sources)
    OBVIOUS
  <2> QED
    BY <2>1, SourcesForm
<1>2. PICK acc : WantedBy(acc, sources, joins)
  BY WantedLoop
<1>3. Wanted(sources, joins) = Belonging(sources, 2, join, lefts)
  <2>1. 2 \in 2 .. Len(sources) /\ 2 - 1 = 1
    OBVIOUS
  <2>2. acc[2] = Belonging(sources, 2, joins[2 - 1], acc[2 - 1])
    BY <1>2, <2>1 DEF WantedBy
  <2>3. acc[1] = lefts /\ acc[2] = Wanted(sources, joins)
    BY <1>2 DEF WantedBy
  <2> QED
    BY <2>1, <2>2, <2>3
<1>4. ASSUME NEW a \in Nat, NEW b \in Nat PROVE Append(<<a>>, b) = <<a, b>>
  <2> DEFINE x == <<a>>
             y == <<a, b>>
  <2>1. x \in Seq(Nat) /\ Len(x) = 1 /\ x[1] = a
    OBVIOUS
  <2>2. y \in Seq(Nat) /\ Len(y) = 2 /\ y[1] = a /\ y[2] = b
    OBVIOUS
  <2> HIDE DEF x, y
  <2>3. Append(x, b) \in Seq(Nat) /\ Len(Append(x, b)) = 2 /\ Append(x, b)[1] = a /\ Append(x, b)[2] = b
    <3>1. Append(x, b) \in Seq(Nat) /\ Len(Append(x, b)) = Len(x) + 1 /\ Append(x, b)[Len(x) + 1] = b
      BY <2>1, AppendForm
    <3>2. \A i \in 1 .. Len(x) : Append(x, b)[i] = x[i]
      BY <2>1, AppendForm
    <3>3. 1 \in 1 .. Len(x)
      BY <2>1
    <3> QED
      BY <2>1, <3>1, <3>2, <3>3
  <2>4. \A i \in 1 .. 2 : Append(x, b)[i] = y[i]
    BY <2>2, <2>3
  <2>5. Append(x, b) = y
    BY <2>2, <2>3, <2>4
  <2> QED
    BY <2>5 DEF x, y
<1>5. Nulls(2 - 1) = <<0>>
  BY DEF Nulls
<1>6. ASSUME NEW y
      PROVE  y \in Belonging(sources, 2, join, lefts) <=>
               \/ y \in matched
               \/ KeepsLeft(join) /\ \E x \in lonely : y = Append(x, 0)
               \/ KeepsRight(join) /\ \E r \in free : y = Append(<<0>>, r)
  <2> HIDE DEF lefts, right
  <2> QED
    BY <1>5 DEF Belonging, right
<1>7. ASSUME NEW a \in left, NEW b \in right PROVE <<(<<a>>), b>> \in pairs <=> Meet(a, b)
  <2>1. <<a>> \in lefts /\ Append(<<a>>, b) = <<a, b>>
    BY <1>1, <1>4
  <2> HIDE DEF lefts
  <2> QED
    BY <2>1 DEF Pairs
<1>8. ASSUME NEW p \in pairs PROVE \E a \in left, b \in right : p = <<(<<a>>), b>> /\ Meet(a, b)
  <2>1. p \in lefts \X right
    BY DEF Pairs
  <2>2. PICK a \in left : p[1] = <<a>>
    BY <2>1
  <2>3. p = <<(<<a>>), p[2]>> /\ p[2] \in right
    BY <2>1, <2>2
  <2> HIDE DEF pairs, Meet
  <2> QED
    BY <1>7, <2>3
<1>9. ASSUME NEW y PROVE y \in matched <=> \E a \in left, b \in right : y = <<a, b>> /\ Meet(a, b)
  <2> HIDE DEF pairs, Meet, left, right
  <2>1. ASSUME y \in matched PROVE \E a \in left, b \in right : y = <<a, b>> /\ Meet(a, b)
    <3>1. PICK p \in pairs : y = Append(p[1], p[2])
      BY <2>1
    <3>2. PICK a \in left, b \in right : p = <<(<<a>>), b>> /\ Meet(a, b)
      BY <1>8
    <3>3. y = Append(<<a>>, b)
      BY <3>1, <3>2
    <3>4. y = <<a, b>>
      BY <1>1, <1>4, <3>3
    <3> QED
      BY <3>2, <3>4
  <2>2. ASSUME NEW a \in left, NEW b \in right, y = <<a, b>>, Meet(a, b) PROVE y \in matched
    <3> DEFINE p == <<(<<a>>), b>>
    <3>1. p \in pairs
      BY <1>7, <2>2
    <3>2. Append(p[1], p[2]) = y
      BY <1>1, <1>4, <2>2
    <3> HIDE DEF p
    <3> QED
      BY <3>1, <3>2
  <2> QED
    BY <2>1, <2>2
<1>10. ASSUME NEW a \in left PROVE <<a>> \in lonely <=> \A b \in right : ~Meet(a, b)
  <2> HIDE DEF pairs, Meet, left, right
  <2>1. ASSUME <<a>> \in lonely, NEW b \in right PROVE ~Meet(a, b)
    <3>1. \A p \in pairs : p[1] # <<a>>
      BY <2>1
    <3>2. <<(<<a>>), b>>[1] = <<a>>
      OBVIOUS
    <3> QED
      BY <1>7, <3>1, <3>2
  <2>2. ASSUME \A b \in right : ~Meet(a, b) PROVE <<a>> \in lonely
    <3> SUFFICES ASSUME NEW p \in pairs, p[1] = <<a>> PROVE FALSE
      OBVIOUS
    <3>1. PICK c \in left, b \in right : p = <<(<<c>>), b>> /\ Meet(c, b)
      BY <1>8
    <3>2. <<c>> = <<a>>
      BY <3>1
    <3>3. c = a
      BY <3>2
    <3> QED
      BY <2>2, <3>1, <3>3
  <2> QED
    BY <2>1, <2>2
<1>11. ASSUME NEW b \in right PROVE b \in free <=> \A a \in left : ~Meet(a, b)
  <2> HIDE DEF pairs, Meet, left, right
  <2>1. ASSUME b \in free, NEW a \in left PROVE ~Meet(a, b)
    <3>1. <<(<<a>>), b>>[2] = b
      OBVIOUS
    <3> QED
      BY <1>7, <2>1, <3>1
  <2>2. ASSUME \A a \in left : ~Meet(a, b) PROVE b \in free
    <3> SUFFICES ASSUME NEW p \in pairs, p[2] = b PROVE FALSE
      OBVIOUS
    <3>1. PICK a \in left, c \in right : p = <<(<<a>>), c>> /\ Meet(a, c)
      BY <1>8
    <3>2. c = b
      BY <3>1
    <3> QED
      BY <2>2, <3>1, <3>2
  <2> QED
    BY <2>1, <2>2
<1>12. ASSUME NEW y
       PROVE  (\E x \in lonely : y = Append(x, 0)) <=> \E a \in left : y = <<a, 0>> /\ \A b \in right : ~Meet(a, b)
  <2>1. \A x \in lonely : \E a \in left : x = <<a>>
    OBVIOUS
  <2>2. \A a \in left : Append(<<a>>, 0) = <<a, 0>>
    BY <1>1, <1>4
  <2> HIDE DEF lonely, Meet, left, right
  <2>3. ASSUME NEW x \in lonely, y = Append(x, 0)
        PROVE  \E a \in left : y = <<a, 0>> /\ \A b \in right : ~Meet(a, b)
    <3>1. PICK a \in left : x = <<a>>
      BY <2>1
    <3>2. y = <<a, 0>>
      BY <2>2, <2>3, <3>1
    <3>3. \A b \in right : ~Meet(a, b)
      BY <1>10, <3>1
    <3> QED
      BY <3>2, <3>3
  <2>4. ASSUME NEW a \in left, y = <<a, 0>>, \A b \in right : ~Meet(a, b)
        PROVE  \E x \in lonely : y = Append(x, 0)
    <3>1. <<a>> \in lonely /\ y = Append(<<a>>, 0)
      BY <1>10, <2>2, <2>4
    <3> QED
      BY <3>1
  <2> QED
    BY <2>3, <2>4
<1>13. ASSUME NEW y
       PROVE  (\E r \in free : y = Append(<<0>>, r)) <=> \E b \in right : y = <<0, b>> /\ \A a \in left : ~Meet(a, b)
  <2>1. free \subseteq right
    OBVIOUS
  <2>2. \A b \in right : Append(<<0>>, b) = <<0, b>>
    BY <1>1, <1>4
  <2> HIDE DEF free, Meet, left, right
  <2> QED
    BY <1>11, <2>1, <2>2
<1> DEFINE Belongs(y) ==
              \/ \E a \in left, b \in right : y = <<a, b>> /\ Meet(a, b)
              \/ KeepsLeft(join) /\ \E a \in left : y = <<a, 0>> /\ \A b \in right : ~Meet(a, b)
              \/ KeepsRight(join) /\ \E b \in right : y = <<0, b>> /\ \A a \in left : ~Meet(a, b)
           two == {p \in RowsOrNone(sources[1]) \X RowsOrNone(sources[2]) : Together(sources, join, p[1], p[2])}
<1>14. ASSUME NEW y PROVE y \in Wanted(sources, joins) <=> Belongs(y)
  <2> HIDE DEF matched, lonely, free, lefts, left, right, Meet, join
  <2> QED
    BY <1>3, <1>6, <1>9, <1>12, <1>13
<1>15. ASSUME NEW a \in left \cup {0}, NEW b \in right \cup {0}
       PROVE  Together(sources, join, a, b) <=> Belongs(<<a, b>>)
  <2>1. \A c, d : <<a, b>> = <<c, d>> <=> a = c /\ b = d
    OBVIOUS
  <2>2. (a \in left <=> a # 0) /\ (b \in right <=> b # 0)
    BY <1>1
  <2>3. Together(sources, join, a, b) <=>
          \/ a # 0 /\ b # 0 /\ Meet(a, b)
          \/ KeepsLeft(join) /\ a # 0 /\ b = 0 /\ \A r \in right : ~Meet(a, r)
          \/ KeepsRight(join) /\ a = 0 /\ b # 0 /\ \A r \in left : ~Meet(r, b)
    BY DEF Together
  <2> HIDE DEF left, right, Meet, join
  <2> QED
    BY <2>1, <2>2, <2>3, Zenon
<1>16. ASSUME NEW y, Belongs(y) PROVE \E a \in left \cup {0}, b \in right \cup {0} : y = <<a, b>>
  <2> HIDE DEF left, right, Meet, join
  <2> QED
    BY <1>16
<1>17. \A p \in two : p = <<p[1], p[2]>> /\ p[1] \in left \cup {0} /\ p[2] \in right \cup {0}
  BY DEF RowsOrNone
<1>18. ASSUME NEW y, y \in Wanted(sources, joins) PROVE \E p \in two : y = <<p[1], p[2]>>
  <2>1. Belongs(y)
    BY <1>14, <1>18
  <2>2. PICK a \in left \cup {0}, b \in right \cup {0} : y = <<a, b>>
    BY <1>16, <2>1
  <2>3. Together(sources, join, a, b)
    BY <1>15, <2>1, <2>2
  <2> DEFINE p == <<a, b>>
  <2>4. p[1] = a /\ p[2] = b /\ p \in RowsOrNone(sources[1]) \X RowsOrNone(sources[2])
    BY DEF RowsOrNone
  <2> HIDE DEF p, Belongs, join
  <2>5. p \in two
    BY <2>3, <2>4
  <2> QED
    BY <2>2, <2>4, <2>5
<1>19. ASSUME NEW p \in two PROVE <<p[1], p[2]>> \in Wanted(sources, joins)
  <2>1. p[1] \in left \cup {0} /\ p[2] \in right \cup {0}
    BY <1>17
  <2>2. Together(sources, join, p[1], p[2])
    OBVIOUS
  <2> HIDE DEF Belongs, left, right, join, two
  <2> QED
    BY <1>14, <1>15, <2>1, <2>2
<1> HIDE DEF two, Belongs
<1>20. Wanted(sources, joins) = {<<p[1], p[2]>> : p \in two}
  BY <1>18, <1>19
<1> QED
  BY <1>20 DEF two

(* The join the other way round answers the same rows, turned round.       *)
LEMMA TurnedSame ==
    ASSUME NEW sources, NEW joins, NEW R, NEW C, Joinable(sources, joins, R, C), Len(sources) = 2,
           ClearRefs(sources, joins[1].con)
    PROVE  Wanted(sources, joins) = {Reverse(x) : x \in ToSet(TurnedRound(sources, joins))}
<1> DEFINE s == sources
           t == Reverse(sources)
           join == joins[1]
           mirrored == <<Join(Mirrored(join.kind), join.con)>>
           back == mirrored[1]
           two(u, j) == {p \in RowsOrNone(u[1]) \X RowsOrNone(u[2]) : Together(u, j, p[1], p[2])}
           rows(u, j) == {<<p[1], p[2]>> : p \in two(u, j)}
<1>1. /\ Len(t) = 2 /\ DOMAIN t = 1 .. 2 /\ DOMAIN s = 1 .. 2 /\ t[1] = s[2] /\ t[2] = s[1]
      /\ Joinable(t, mirrored, R, C)
  <2>1. DOMAIN s = 1 .. 2
    BY SourcesForm
  <2> QED
    BY <2>1, TurnedSources
<1>2. Wanted(s, joins) = rows(s, join)
  BY WantedOfTwo
<1>3. Wanted(t, mirrored) = rows(t, back)
  <2> HIDE DEF t, mirrored
  <2> QED
    BY <1>1, WantedOfTwo
<1>4. ToSet(TurnedRound(sources, joins)) = rows(t, back)
  <2>1. Once(Joined(t, mirrored), Seq(Nat), Wanted(t, mirrored))
    <3> HIDE DEF t, mirrored
    <3> QED
      BY <1>1, JoinedOnce
  <2>2. TurnedRound(sources, joins) = Joined(t, mirrored)
    BY DEF TurnedRound
  <2> HIDE DEF t, mirrored, rows
  <2> QED
    BY <1>3, <2>1, <2>2 DEF Once
<1>5. back.con = join.con /\ (KeepsLeft(back) <=> KeepsRight(join)) /\ (KeepsRight(back) <=> KeepsLeft(join))
  <2>1. back = Join(Mirrored(join.kind), join.con)
    OBVIOUS
  <2>2. /\ Mirrored(join.kind) \in {"left", "full"} <=> join.kind \in {"right", "full"}
        /\ Mirrored(join.kind) \in {"right", "full"} <=> join.kind \in {"left", "full"}
    BY DEF Mirrored
  <2> HIDE DEF mirrored
  <2> QED
    BY <2>1, <2>2 DEF Join, KeepsLeft, KeepsRight
<1>6. join.con.kind \in ConKinds
  BY DEF Joinable
<1>7. RowsOrNone(s[1]) \subseteq Nat /\ RowsOrNone(s[2]) \subseteq Nat
  <2>1. DOMAIN s[1].rows \subseteq Nat /\ DOMAIN s[2].rows \subseteq Nat
    <3>1. 1 \in 1 .. Len(s) /\ 2 \in 1 .. Len(s)
      OBVIOUS
    <3>2. DOMAIN s[1].rows \subseteq Nat \ {0} /\ DOMAIN s[2].rows \subseteq Nat \ {0}
      BY <3>1, SourcesForm
    <3> QED
      BY <3>2
  <2> QED
    BY <2>1 DEF RowsOrNone
<1>8. ASSUME NEW a \in Nat, NEW b \in Nat PROVE Meets(s, join.con, <<a, b>>) <=> Meets(t, join.con, <<b, a>>)
  <2> HIDE DEF t
  <2> QED
    BY <1>1, <1>6, TurnedMeets
<1>9. ASSUME NEW a \in RowsOrNone(s[1]), NEW b \in RowsOrNone(s[2])
      PROVE  Together(s, join, a, b) <=> Together(t, back, b, a)
  <2>1. DOMAIN s[1].rows \subseteq Nat /\ DOMAIN s[2].rows \subseteq Nat /\ a \in Nat /\ b \in Nat
    BY <1>7 DEF RowsOrNone
  <2> HIDE DEF s, t, join, back
  <2> QED
    BY <1>1, <1>5, <1>8, <2>1 DEF Together
<1>10. ASSUME NEW a \in Nat, NEW b \in Nat PROVE Reverse(<<a, b>>) = <<b, a>>
  BY DEF Reverse
<1>11. ASSUME NEW p \in two(s, join) PROVE \E q \in two(t, back) : <<p[1], p[2]>> = Reverse(<<q[1], q[2]>>)
  <2>1. p[1] \in RowsOrNone(s[1]) /\ p[2] \in RowsOrNone(s[2]) /\ Together(s, join, p[1], p[2])
    OBVIOUS
  <2> DEFINE q == <<p[2], p[1]>>
  <2>2. q[1] = p[2] /\ q[2] = p[1]
    OBVIOUS
  <2>3. q \in RowsOrNone(t[1]) \X RowsOrNone(t[2])
    BY <1>1, <2>1
  <2>4. q[1] \in Nat /\ q[2] \in Nat
    BY <1>7, <2>1
  <2> HIDE DEF q, s, t, join, back
  <2>5. Together(t, back, q[1], q[2])
    BY <1>9, <2>1, <2>2
  <2>6. q \in two(t, back)
    BY <2>3, <2>5
  <2>7. Reverse(<<q[1], q[2]>>) = <<q[2], q[1]>>
    BY <1>10, <2>4
  <2>8. <<p[1], p[2]>> = Reverse(<<q[1], q[2]>>)
    BY <2>2, <2>7
  <2> HIDE DEF two
  <2> QED
    BY <2>6, <2>8
<1>12. ASSUME NEW q \in two(t, back) PROVE \E p \in two(s, join) : <<p[1], p[2]>> = Reverse(<<q[1], q[2]>>)
  <2>1. q[2] \in RowsOrNone(s[1]) /\ q[1] \in RowsOrNone(s[2]) /\ Together(t, back, q[1], q[2])
    <3> HIDE DEF t, s, back
    <3> QED
      BY <1>1
  <2> DEFINE p == <<q[2], q[1]>>
  <2>2. p[1] = q[2] /\ p[2] = q[1]
    OBVIOUS
  <2>3. p \in RowsOrNone(s[1]) \X RowsOrNone(s[2]) /\ q[1] \in Nat /\ q[2] \in Nat
    BY <1>7, <2>1
  <2> HIDE DEF p, s, t, join, back
  <2>4. Together(s, join, p[1], p[2])
    BY <1>9, <2>1, <2>2
  <2>5. p \in two(s, join)
    BY <2>3, <2>4
  <2>6. Reverse(<<q[1], q[2]>>) = <<q[2], q[1]>>
    BY <1>10, <2>3
  <2>7. <<p[1], p[2]>> = Reverse(<<q[1], q[2]>>)
    BY <2>2, <2>6
  <2> HIDE DEF two
  <2> QED
    BY <2>5, <2>7
<1>13. rows(s, join) = {Reverse(x) : x \in rows(t, back)}
  <2> HIDE DEF s, t, join, back, two
  <2>1. ASSUME NEW y \in rows(s, join) PROVE \E x \in rows(t, back) : y = Reverse(x)
    BY <1>11
  <2>2. ASSUME NEW x \in rows(t, back) PROVE Reverse(x) \in rows(s, join)
    <3>1. PICK q \in two(t, back) : x = <<q[1], q[2]>>
      OBVIOUS
    <3>2. PICK p \in two(s, join) : <<p[1], p[2]>> = Reverse(<<q[1], q[2]>>)
      BY <1>12
    <3> QED
      BY <3>1, <3>2
  <2> HIDE DEF rows
  <2> QED
    BY <2>1, <2>2
<1> HIDE DEF rows, t, mirrored
<1> QED
  BY <1>2, <1>4, <1>13

(* A join answers exactly the combinations of rows that match, and those   *)
(* an outer join keeps alone, each once, whatever the tables, the kinds of *)
(* the joins and their conditions; a join of two tables, the references of *)
(* the ON of which are not ambiguous, answers the same either way round.   *)
(* (exec_join's nested loops)                                              *)
THEOREM JoinsCorrect ==
    ASSUME NEW sources, NEW joins, NEW R, NEW C, Joinable(sources, joins, R, C),
           Len(sources) = 2 => ClearRefs(sources, joins[1].con)
    PROVE  RowsRight(sources, joins, Joined(sources, joins)) /\ JoinRight(sources, joins)
<1>1. Once(Joined(sources, joins), Seq(Nat), Wanted(sources, joins))
  BY JoinedOnce
<1>2. Len(sources) = 2 => Wanted(sources, joins) = {Reverse(x) : x \in ToSet(TurnedRound(sources, joins))}
  BY TurnedSame
<1>3. RowsRight(sources, joins, Joined(sources, joins))
  BY <1>1, <1>2, Zenon DEF RowsRight, Once
<1> QED
  BY <1>3 DEF JoinRight
=============================================================================
