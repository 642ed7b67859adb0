------------------------------- MODULE Views -------------------------------
(***************************************************************************)
(* Views, derived tables and CTEs: a SELECT that meets one runs its query  *)
(* and puts the result into the Database as a table of its own, where the  *)
(* rest of the statement finds it by name; what it put there it drops on   *)
(* its way out, if it gets there.                                          *)
(*                                                                         *)
(* A table has one column and is the set of its values; a join is on that  *)
(* column.  Not program state: real, the tables as the statements that     *)
(* create, drop, rename and write tables left them, and answer.meant, what *)
(* the last SELECT should have answered.                                   *)
(***************************************************************************)
EXTENDS Naturals, FiniteSets, Sequences, SequencesExt

CONSTANTS Names,      \* of tables, views and CTEs
          Bases,      \* those CREATE TABLE and RENAME are given
          Temps,      \* sequence: the names derived tables get, in order
          Values,
          None,
          Queries,    \* SELECTs, those inside others and of views included
          Defs,       \* name -> queries CREATE VIEW may give it
          Questions,  \* the statements
          MaxNesting, \* SELECTs inside each other that the stack has room for
          Careful     \* do clients avoid what is known to go wrong?

(* A query joins its sources: names, or derived tables.  Some fail after   *)
(* their sources were resolved (GROUP BY an unknown column, ORDER BY ALL). *)
Named(n) == [kind |-> "name", name |-> n]
Derived(q) == [kind |-> "derived", query |-> q]
Query(from) == [from |-> from, fails |-> FALSE]
Failing(q) == [q EXCEPT !.fails = TRUE]
Statement(ctes, q) == [ctes |-> ctes, main |-> q]
Cte(alias, q) == [alias |-> alias, query |-> q]

Source == {Named(n) : n \in Names} \cup {Derived(q) : q \in Queries}
IsDerived(q, i) == q.from[i].kind = "derived"

(* The name of a source: a derived table gets one of its own, numbered in  *)
(* the order of the FROM clause.                                           *)
NameOf(q, i) ==
    IF IsDerived(q, i) THEN Temps[Cardinality({j \in 1 .. i : IsDerived(q, j)})] ELSE q.from[i].name

AllNames == Names \cup ToSet(Temps)
Content == {None} \cup SUBSET Values
Databases == [AllNames -> Content]

ASSUME ViewsAssumption ==
    /\ Temps \in Seq(STRING) /\ ToSet(Temps) \cap Names = {}
    /\ \A q \in Queries : q # None
    /\ \A set \in SUBSET Values : set # None
    /\ Bases \subseteq Names
    /\ \A q \in Queries : /\ q.from \in Seq(Source) \ {<<>>} /\ q.fails \in BOOLEAN
                         /\ \A i \in DOMAIN q.from : IsDerived(q, i) => NameOf(q, i) \in ToSet(Temps)
    /\ \A n \in Names : Defs[n] \subseteq Queries
    /\ \A s \in Questions : /\ s.ctes \in Seq([alias : Names, query : Queries])
                           /\ s.main \in Queries
    /\ MaxNesting \in Nat
    /\ Careful \in BOOLEAN

VARIABLES tables,     \* name -> values or None
          views,      \* name -> query or None
          real,
          answer      \* of the last SELECT

vars == <<tables, views, real, answer>>

TypeOK ==
    /\ tables \in Databases
    /\ DOMAIN views = Names
    /\ \A n \in Names : views[n] \in Defs[n] \cup {None}
    /\ real \in [Names -> Content]
    /\ answer.ok \in BOOLEAN /\ answer.rows \in SUBSET Values

Init ==
    /\ tables = [n \in AllNames |-> None]
    /\ views = [n \in Names |-> None]
    /\ real = [n \in Names |-> None]
    /\ answer = [ok |-> TRUE, rows |-> {}, meant |-> {}]

-----------------------------------------------------------------------------
(* Execution.  A result carries the tables as execution leaves them; bare  *)
(* is a join's result without rows, whose text nothing else can read.  run *)
(* executes a SELECT inside this one.                                      *)
Fail(ts) == [ok |-> FALSE, tables |-> ts, rows |-> {}, bare |-> FALSE]
Done(ts, rows, bare) == [ok |-> TRUE, tables |-> ts, rows |-> rows, bare |-> bare]
Without(ts, gone) == [n \in AllNames |-> IF n \in gone THEN None ELSE ts[n]]

(* Mutant: a view's table is found under its name only from the next       *)
(* reference on.                                                           *)
MaterializeLate(run, q, n, ts) ==
    LET r == run[q][ts]
    IN  IF ~r.ok \/ r.bare THEN Fail(r.tables)
        ELSE Done([r.tables EXCEPT ![n] = {}], r.rows, FALSE)

(* The answer of q becomes the table n. *)
Materialize(run, q, n, ts) ==
    LET r == run[q][ts]
    IN  IF ~r.ok \/ r.bare THEN Fail(r.tables)
        ELSE Done([r.tables EXCEPT ![n] = r.rows], r.rows, FALSE)

IsView(n) == n \in Names /\ views[n] # None
NeedsView(n, ts) == ts[n] = None /\ IsView(n)

(* resolve_any_factor: the rows of the i-th source. *)
Reading(m, n) ==
    IF ~m.ok \/ m.tables[n] = None THEN Fail(m.tables) ELSE Done(m.tables, m.tables[n], FALSE)
ReadSource(run, q, i, ts) ==
    LET n == NameOf(q, i)
        m == IF IsDerived(q, i) THEN Materialize(run, q.from[i].query, n, ts)
             ELSE IF NeedsView(n, ts) THEN Materialize(run, views[n], n, ts)
             ELSE Done(ts, {}, FALSE)
    IN  Reading(m, n)

(* One named source: the view is dropped if it was materialised here.      *)
ExecSingle(run, q, ts) ==
    LET n == NameOf(q, 1)
        r == ReadSource(run, q, 1, ts)
    IN  IF ~r.ok \/ q.fails THEN Fail(r.tables)
        ELSE Done(Without(r.tables, IF NeedsView(n, ts) THEN {n} ELSE {}), r.rows, FALSE)

(* The sources of a join one after the other, with the rows they have in   *)
(* common.                                                                 *)
InCommon(acc, r) == IF r.ok THEN Done(r.tables, acc.rows \cap r.rows, FALSE) ELSE r
Resolve(run, q, i, acc) ==
    IF ~acc.ok THEN acc ELSE InCommon(acc, ReadSource(run, q, i, acc.tables))
Resolved(run, q, ts) ==
    LET acc[i \in 0 .. Len(q.from)] ==
          IF i = 0 THEN Done(ts, Values, FALSE) ELSE Resolve(run, q, i, acc[i - 1])
    IN  acc

(* The columns are looked up again once every source is resolved; in the   *)
(* end every source that is a view by name, and every derived table, goes. *)
Used(q) == {NameOf(q, i) : i \in DOMAIN q.from}
Dropped(q) == {n \in Used(q) : IsView(n) \/ n \in ToSet(Temps)}
ExecJoin(run, q, ts) ==
    LET r == Resolved(run, q, ts)[Len(q.from)]
    IN  IF ~r.ok \/ q.fails \/ \E n \in Used(q) : r.tables[n] = None THEN Fail(r.tables)
        ELSE Done(Without(r.tables, Dropped(q)), r.rows, r.rows = {})

(* A SELECT with others inside it to the given depth; there is no room for *)
(* one more on the stack.                                                  *)
IsJoin(q) == Len(q.from) > 1 \/ IsDerived(q, 1)
Exec[depth \in Nat] ==
    [q \in Queries |-> [ts \in Databases |->
       IF depth = 0 THEN Fail(ts)
       ELSE IF IsJoin(q) THEN ExecJoin(Exec[depth - 1], q, ts)
       ELSE ExecSingle(Exec[depth - 1], q, ts)]]
ExecSelect(q, ts) == Exec[MaxNesting][q][ts]

(* WITH: a CTE without rows gets no table; a failing one ends the          *)
(* statement with the tables of those before it still there.               *)
WithCte(cte, acc) ==
    IF ~acc.ok THEN acc
    ELSE LET r == ExecSelect(cte.query, acc.tables)
         IN  IF ~r.ok THEN Fail(r.tables)
             ELSE IF r.rows = {} THEN Done(r.tables, {}, FALSE)
             ELSE Done([r.tables EXCEPT ![cte.alias] = r.rows], {}, FALSE)
WithCtes(s) ==
    LET acc[i \in 0 .. Len(s.ctes)] ==
          IF i = 0 THEN Done(tables, {}, FALSE) ELSE WithCte(s.ctes[i], acc[i - 1])
    IN  acc

(* Mutant: the tables of the CTEs stay after the statement. *)
ExecCteKeeps(s) ==
    LET ctes == WithCtes(s)[Len(s.ctes)]
    IN  IF ctes.ok THEN ExecSelect(s.main, ctes.tables) ELSE Fail(ctes.tables)

(* exec_cte_query: the tables of the CTEs go whatever became of the main   *)
(* query.                                                                  *)
Given(s) == {s.ctes[i].alias : i \in {j \in DOMAIN s.ctes :
               ExecSelect(s.ctes[j].query, WithCtes(s)[j - 1].tables).rows # {}}}
ExecCte(s) ==
    LET ctes == WithCtes(s)[Len(s.ctes)]
        r == ExecSelect(s.main, ctes.tables)
    IN  IF ctes.ok THEN [r EXCEPT !.tables = Without(@, Given(s))] ELSE Fail(ctes.tables)

-----------------------------------------------------------------------------
(* What a SELECT means: views, derived tables and CTEs read as their       *)
(* definitions, on the tables that were created.  inside is the meaning of *)
(* a SELECT inside this one.                                               *)
Scopes == [Names -> Content]
SourceMeaning(inside, q, i, env) ==
    IF IsDerived(q, i) THEN inside[q.from[i].query][env]
    ELSE LET n == q.from[i].name
         IN  IF env[n] # None THEN env[n]
             ELSE IF views[n] # None THEN inside[views[n]][real]
             ELSE None
Meant(inside, q, env) ==
    LET of(i) == SourceMeaning(inside, q, i, env)
    IN  IF q.fails \/ \E i \in DOMAIN q.from : of(i) = None THEN None
        ELSE {v \in Values : \A i \in DOMAIN q.from : v \in of(i)}
Meaning[depth \in Nat] ==
    [q \in Queries |-> [env \in Scopes |->
       IF depth = 0 THEN None ELSE Meant(Meaning[depth - 1], q, env)]]
Means(q, env) == Meaning[MaxNesting][q][env]

(* The tables there are, to the first i CTEs. *)
Scope(s) ==
    LET env[i \in 0 .. Len(s.ctes)] ==
          IF i = 0 THEN real
          ELSE [env[i - 1] EXCEPT ![s.ctes[i].alias] = Means(s.ctes[i].query, env[i - 1])]
    IN  env
StatementMeaning(s) == Means(s.main, Scope(s)[Len(s.ctes)])

(* The SELECTs inside one: derived tables and the queries of views.        *)
HasInner(q, i) == IsDerived(q, i) \/ IsView(q.from[i].name)
InnerOf(q, i) == IF IsDerived(q, i) THEN q.from[i].query ELSE views[q.from[i].name]
Direct(q) == {InnerOf(q, i) : i \in {j \in DOMAIN q.from : HasInner(q, j)}}
Inner[depth \in Nat] ==
    [q \in Queries |->
       IF depth = 0 THEN {} ELSE Direct(q) \cup UNION {Inner[depth - 1][p] : p \in Direct(q)}]

(* What is dropped while q is executed; a join must still find what it     *)
(* put there for its earlier sources when it has read the later ones.      *)
DroppedWithin(q) == UNION {Dropped(p) : p \in {p \in {q} \cup Inner[MaxNesting][q] : IsJoin(p)}}
Undisturbed(q) ==
    \A i, j \in DOMAIN q.from : i < j /\ HasInner(q, j) => NameOf(q, i) \notin DroppedWithin(InnerOf(q, j))

(* Clients that avoid what is known to go wrong: names are used for one    *)
(* thing, no SELECT fails, nothing inside a SELECT is without rows, and    *)
(* none drops what another one around it still needs.                      *)
FreshName(n) == tables[n] = None /\ views[n] = None
SafeQuery(q, env) ==
    /\ Means(q, env) # None
    /\ \A p \in Inner[MaxNesting][q] : Means(p, env) # {}
    /\ \A p \in {q} \cup Inner[MaxNesting][q] : Undisturbed(p)
Safe(s) ==
    /\ \A i \in DOMAIN s.ctes :
         /\ FreshName(s.ctes[i].alias)
         /\ SafeQuery(s.ctes[i].query, Scope(s)[i - 1]) /\ Scope(s)[i][s.ctes[i].alias] # {}
    /\ SafeQuery(s.main, Scope(s)[Len(s.ctes)])

-----------------------------------------------------------------------------
CreateTable(n) ==
    /\ tables[n] = None /\ (Careful => views[n] = None)
    /\ tables' = [tables EXCEPT ![n] = {}]
    /\ real' = [real EXCEPT ![n] = {}]
    /\ UNCHANGED <<views, answer>>

DropTable(n) ==
    /\ tables[n] # None
    /\ tables' = [tables EXCEPT ![n] = None]
    /\ real' = [real EXCEPT ![n] = None]
    /\ UNCHANGED <<views, answer>>

Insert(n, v) ==
    /\ tables[n] # None
    /\ tables' = [tables EXCEPT ![n] = @ \cup {v}]
    /\ real' = [real EXCEPT ![n] = IF @ = None THEN None ELSE @ \cup {v}]
    /\ UNCHANGED <<views, answer>>

(* ALTER TABLE ... RENAME and RENAME TABLE replace what has the new name.  *)
Rename(n, m) ==
    /\ n # m /\ tables[n] # None /\ (Careful => FreshName(m))
    /\ tables' = [tables EXCEPT ![n] = None, ![m] = tables[n]]
    /\ real' = [real EXCEPT ![n] = None, ![m] = real[n]]
    /\ UNCHANGED <<views, answer>>

CreateView(n, q) ==
    /\ tables[n] = None /\ views[n] = None
    /\ views' = [views EXCEPT ![n] = q]
    /\ UNCHANGED <<tables, real, answer>>

DropView(n) ==
    /\ views[n] # None
    /\ views' = [views EXCEPT ![n] = None]
    /\ UNCHANGED <<tables, real, answer>>

Select(s) ==
    /\ Careful => Safe(s)
    /\ \E r \in {ExecCte(s)} :
         /\ tables' = r.tables
         /\ answer' = [ok |-> r.ok, rows |-> r.rows, meant |-> StatementMeaning(s)]
    /\ UNCHANGED <<views, real>>

Next ==
    \/ \E n \in Names :
         \/ DropTable(n) \/ DropView(n)
         \/ \E v \in Values : Insert(n, v)
         \/ \E m \in Bases : Rename(n, m)
         \/ \E q \in Defs[n] : CreateView(n, q)
    \/ \E n \in Bases : CreateTable(n)
    \/ \E s \in Questions : Select(s)

Spec == Init /\ [][Next]_vars

-----------------------------------------------------------------------------
(* A SELECT answers what its text means on the tables of that moment: a    *)
(* view is "re-executed each reference" (create.rs:177).                   *)
AnswersFresh ==
    IF Careful THEN answer.ok /\ answer.rows = answer.meant
    ELSE answer.ok /\ answer.meant # None => answer.rows = answer.meant

(* A SELECT leaves the Database as it was: nothing it materialised stays,  *)
(* and no table is gone (exec_select_rows, exec_cte_query).                *)
LeavesNoTrace ==
    /\ \A n \in Names : tables[n] = real[n]
    /\ \A n \in ToSet(Temps) : tables[n] = None
=============================================================================
