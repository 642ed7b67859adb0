---------------------------- MODULE ForeignKeys ----------------------------
(***************************************************************************)
(* INSERT, UPDATE and DELETE on tables joined by foreign keys and carrying *)
(* triggers: engine/stmts/insert.rs, update.rs and delete.rs with          *)
(* engine/trigger.rs.  A statement validates and cascades, fires its       *)
(* BEFORE triggers, changes its own table and fires its AFTER triggers; a  *)
(* trigger's body is a statement of its own, run on the same stack with    *)
(* the same thread-local depth counter.                                    *)
(*                                                                         *)
(* A row has a key id and one column ref that references the parent's id.  *)
(* Keys stand for the lower-case texts the foreign-key code compares.      *)
(***************************************************************************)
EXTENDS Naturals, Sequences, SequencesExt, FiniteSets, FiniteSetsExt

CONSTANTS
    TableOrder,    \* the tables as Database::table_names lists them, sorted
    Parent,        \* [table -> the table its ref references, or None]
    OnDelete,      \* [table -> "CASCADE", "SET NULL" or "RESTRICT"]
    OnUpdate,      \* [table -> "CASCADE" or "RESTRICT"]
    Indexed,       \* the tables with a B-tree index on ref
    Bodies,        \* [table, timing, event -> the trigger bodies, in order]
    ClientStmts,   \* the statements a client may send
    MaxDepth,      \* MAX_DEPTH of trigger.rs, 16 in the code
    None,          \* no table, and SQL's NULL
    New, NewPlus1  \* NEW.id and NEW.id + 1 in a trigger's body

Tables == Range(TableOrder)
Events == {"INSERT", "UPDATE", "DELETE"}

Timings == {"BEFORE", "AFTER"}
Refs == Nat \cup {None}
Row == [id : Nat, ref : Refs]

\* The statements of clients and of triggers' bodies, with keys from K; RAISE
\* stands for SELECT RAISE(ABORT, ...).
Statement(K) ==
    [op : {"INSERT"}, table : Tables, id : K, ref : Refs, mode : {"plain", "ignore", "replace"}, returning : BOOLEAN]
    \cup [op : {"INSERT"}, table : Tables, id : K, ref : Refs, mode : {"upsert"}, set : Refs, returning : BOOLEAN]
    \cup [op : {"UPDATE"}, table : Tables, id : K, col : {"id"}, val : Nat, returning : BOOLEAN]
    \cup [op : {"UPDATE"}, table : Tables, id : K, col : {"ref"}, val : Refs, returning : BOOLEAN]
    \cup [op : {"DELETE"}, table : Tables, ids : SUBSET Nat, returning : BOOLEAN]
    \cup [op : {"RAISE"}, table : {None}]

\* The key of a body's INSERT or UPDATE may be written with NEW.
Names == Nat \cup {New, NewPlus1}

ASSUME ForeignKeysAssumption ==
    /\ MaxDepth \in Nat
    /\ None \notin Tables
    /\ New # NewPlus1 /\ {New, NewPlus1} \cap Nat = {}
    /\ Parent \in [Tables -> Tables \cup {None}]
    /\ Indexed \subseteq Tables
    /\ ClientStmts \subseteq Statement(Nat)
    /\ \A t \in Tables, timing \in Timings, event \in Events :
         Bodies[<<t, timing, event>>] \in Seq(Statement(Names))

VARIABLES
    rows,      \* [table -> the rows in order]
    index,     \* [table -> the entries of the index on ref]
    stack,     \* running statements, outermost first
    depth,     \* TRIGGER_DEPTH of the thread
    raised,    \* RAISE_ABORTED of the thread
    returned,  \* how the statement that has just ended ended, until it is read
    before     \* rows when the outermost statement began, kept for the properties

vars == <<rows, index, stack, depth, raised, returned, before>>

Ids(t) == {rows[t][i].id : i \in DOMAIN rows[t]}
Positions(t, k) == {i \in DOMAIN rows[t] : rows[t][i].id = k}
Children(t) == {c \in Tables : c # t /\ Parent[c] = t}

\* The entries a rebuilt or a maintained index holds.
Entries(t, rs) ==
    IF t \in Indexed THEN {[val |-> rs[i].ref, pos |-> i] : i \in DOMAIN rs} ELSE {}

\* The rows that stay when those with the given keys go, in their order.
Nth(P, k) == CHOOSE i \in P : Cardinality({j \in P : j <= i}) = k
Without(rs, ids) ==
    LET kept == {i \in DOMAIN rs : rs[i].id \notin ids}
    IN  [k \in 1 .. Cardinality(kept) |-> rs[Nth(kept, k)]]

Init ==
    /\ rows = [t \in Tables |-> <<>>]
    /\ index = [t \in Tables |-> {}]
    /\ stack = <<>>
    /\ depth = 0
    /\ raised = FALSE
    /\ returned = "none"
    /\ before = rows

-----------------------------------------------------------------------------
(* Frames.  found holds what a statement reads before its BEFORE triggers  *)
(* run and uses afterwards: the parent's keys of an INSERT, the positions  *)
(* an UPDATE will write.  new is the key of the row its triggers are given *)
(* as NEW, or None.                                                        *)

Frame(s) == [stmt |-> s, phase |-> "begin", found |-> {}, prev |-> 0, todo |-> <<>>, new |-> None]

Top == Last(stack)
InPhase(p) == /\ stack # <<>>
              /\ returned = "none"
              /\ Top.phase = p
Is(op) == Top.stmt.op = op
SetTop(f) == stack' = Front(stack) \o <<f>>

\* The statement on top ends, and whoever called it reads how.
Return(how) ==
    /\ stack' = Front(stack)
    /\ returned' = how

\* Mutant: a trigger level is entered without a limit.
EnterUnlimited(f, timing) ==
    /\ depth' = depth + 1
    /\ SetTop([f EXCEPT !.phase = timing, !.prev = depth, !.todo = Bodies[<<f.stmt.table, timing, f.stmt.op>>]])

\* Mutant: the limit is taken one level early.
EnterEarly(f, timing) ==
    /\ depth' = Min({depth + 1, MaxDepth})
    /\ SetTop([f EXCEPT !.phase = timing, !.prev = depth,
                        !.todo = IF depth + 1 < MaxDepth THEN Bodies[<<f.stmt.table, timing, f.stmt.op>>] ELSE <<>>])

\* fire_triggers and fire_triggers_before on entry: count one level, or skip
\* all bodies at the limit.  prev is the level put back on leaving.
Enter(f, timing) ==
    /\ depth' = Min({depth + 1, MaxDepth})
    /\ SetTop([f EXCEPT !.phase = timing, !.prev = depth,
                        !.todo = IF depth < MaxDepth THEN Bodies[<<f.stmt.table, timing, f.stmt.op>>] ELSE <<>>])

\* NEW.id becomes the new row's key in the body's text, if the triggers are
\* given one.  Else only the prefix goes: New then stands for the column id,
\* NewPlus1 for id + 1, of the statement's own table or of none.
Substituted(body, new) ==
    IF "id" \notin DOMAIN body \/ new = None THEN body
    ELSE [body EXCEPT !.id = CASE @ = New -> new
                               [] @ = NewPlus1 -> new + 1
                               [] OTHER -> @]

-----------------------------------------------------------------------------
(* Clients, and the statement RAISE(ABORT, ...).                           *)

\* UPDATE does not look for duplicate keys (module Table): clients are taken
\* to assign only keys that are free.
AssignsFreeKey(s) == s.op = "UPDATE" /\ s.col = "id" => s.val \notin Ids(s.table)

\* A client's statement: the database mutex admits one at a time.
Call(s) ==
    /\ stack = <<>>
    /\ AssignsFreeKey(s)
    /\ stack' = <<Frame(s)>>
    /\ returned' = "none"
    /\ UNCHANGED <<rows, index, depth, raised>>

\* SELECT RAISE(ABORT, ...): the flag survives the error.
Raise ==
    /\ InPhase("begin")
    /\ Is("RAISE")
    /\ raised' = TRUE
    /\ Return("error")
    /\ UNCHANGED <<rows, index, depth>>

-----------------------------------------------------------------------------
(* What each statement does before its BEFORE triggers.                    *)

BeginInsert ==
    /\ InPhase("begin")
    /\ Is("INSERT")
    /\ LET p == Parent[Top.stmt.table]
       IN  Enter([Top EXCEPT !.found = IF p = None THEN {} ELSE Ids(p)], "BEFORE")
    /\ UNCHANGED <<rows, index, raised, returned>>

\* The rows of child c whose reference is in keys.
Orphans(c, keys) == {i \in DOMAIN rows[c] : rows[c][i].ref \in keys}
OrphanIds(c, keys) == {rows[c][i].id : i \in Orphans(c, keys)}

\* Mutant: the cascade removes rows without a rebuild.
CascadeKeepsIndex(c, gone) == [rows |-> Without(rows[c], OrphanIds(c, gone)), index |-> index[c]]

\* Table::delete, by the child's own key, of every row that references a
\* deleted key; the index is rebuilt.
CascadeDelete(c, gone) ==
    LET kept == Without(rows[c], OrphanIds(c, gone))
    IN  [rows |-> kept, index |-> Entries(c, kept)]

\* Mutant: every child row is written.
WriteAllRefs(c, old, new) ==
    [rows |-> [i \in DOMAIN rows[c] |-> [rows[c][i] EXCEPT !.ref = new]], index |-> index[c]]

\* ON DELETE SET NULL and ON UPDATE CASCADE write the child's rows in place
\* and leave its index as it is.
WriteRefs(c, old, new) ==
    [rows  |-> [i \in DOMAIN rows[c] |-> IF i \in Orphans(c, old) THEN [rows[c][i] EXCEPT !.ref = new] ELSE rows[c][i]],
     index |-> index[c]]

\* Mutant: the statement's own rows go before its children are asked.
CascadedLate(t, gone) ==
    [rows   |-> [rows EXCEPT ![t] = Without(@, gone)],
     index  |-> index,
     failed |-> \E c \in Children(t) : Orphans(c, gone) # {}]

\* The child tables are visited in order, and the first RESTRICT child that
\* references a deleted key ends the statement with what the earlier ones
\* have become.
Refuses(c, gone) == OnDelete[c] \notin {"CASCADE", "SET NULL"} /\ Orphans(c, gone) # {}
Reached(t, gone) ==
    {c \in Children(t) : \A i, j \in DOMAIN TableOrder :
        TableOrder[j] = c /\ i <= j /\ TableOrder[i] \in Children(t) => ~Refuses(TableOrder[i], gone)}
Cascade(c, gone) ==
    CASE OnDelete[c] = "CASCADE" /\ Orphans(c, gone) # {} -> CascadeDelete(c, gone)
      [] OnDelete[c] = "SET NULL"                          -> WriteRefs(c, gone, None)
      [] OTHER                                             -> [rows |-> rows[c], index |-> index[c]]
Cascaded(t, gone) ==
    LET reached == Reached(t, gone)
    IN  [rows   |-> [c \in Tables |-> IF c \in reached THEN Cascade(c, gone).rows ELSE rows[c]],
         index  |-> [c \in Tables |-> IF c \in reached THEN Cascade(c, gone).index ELSE index[c]],
         failed |-> \E c \in Children(t) : Refuses(c, gone)]

BeginDelete ==
    /\ InPhase("begin")
    /\ Is("DELETE")
    /\ LET t    == Top.stmt.table
           gone == Ids(t) \cap Top.stmt.ids
           db   == Cascaded(t, gone)
       IN  /\ rows' = db.rows
           /\ index' = db.index
           /\ IF db.failed THEN Return("error") /\ UNCHANGED depth
                           ELSE Enter(Top, "BEFORE") /\ UNCHANGED returned
    /\ UNCHANGED raised

\* WHERE id = id finds every row, WHERE id = id + 1 none.
Hits(s) == IF s.id = New THEN DOMAIN rows[s.table] ELSE Positions(s.table, s.id)
OldKeys(s) == {rows[s.table][i].id : i \in Hits(s)}

\* The children that an UPDATE of some keys would leave behind.
Referencing(t, keys) == {c \in Children(t) : Orphans(c, keys) # {}}

\* Mutant: the new reference is not looked up.
UpdateUnchecked(s) ==
    s.col = "id" => \A c \in Referencing(s.table, OldKeys(s)) : OnUpdate[c] = "CASCADE"

\* A new reference must exist; a referenced key may change only if every
\* child that has it cascades.
UpdateAllowed(s) ==
    /\ s.col = "ref" => \/ Parent[s.table] = None
                        \/ s.val \in {None} \cup Ids(Parent[s.table])
    /\ s.col = "id" => \A c \in Referencing(s.table, OldKeys(s)) : OnUpdate[c] = "CASCADE"

\* The queue of cascades, applied before the BEFORE triggers.
Requeued(s) ==
    [c \in Tables |-> IF c \in Referencing(s.table, OldKeys(s)) THEN WriteRefs(c, OldKeys(s), s.val).rows ELSE rows[c]]

BeginUpdate ==
    /\ InPhase("begin")
    /\ Is("UPDATE")
    /\ LET s == Top.stmt
       IN  IF Hits(s) = {} \/ UpdateAllowed(s)
           THEN /\ rows' = IF s.col = "id" /\ Hits(s) # {} THEN Requeued(s) ELSE rows
                /\ Enter([Top EXCEPT !.found = Hits(s)], "BEFORE")
                /\ UNCHANGED <<index, returned>>
           ELSE Return("error") /\ UNCHANGED <<rows, index, depth>>
    /\ UNCHANGED raised

-----------------------------------------------------------------------------
(* Trigger bodies.                                                         *)

InTrigger == InPhase("BEFORE") \/ InPhase("AFTER")

\* parse_and_exec of the next body; a BEFORE trigger clears the RAISE flag first.
RunBody ==
    /\ InTrigger
    /\ Top.todo # <<>>
    /\ stack' = Front(stack) \o <<[Top EXCEPT !.todo = Tail(@)], Frame(Substituted(Head(Top.todo), Top.new))>>
    /\ raised' = IF Top.phase = "BEFORE" THEN FALSE ELSE raised
    /\ UNCHANGED <<rows, index, depth, returned>>

BodyEnded == stack # <<>> /\ returned # "none"

\* Mutant: the early return leaves the depth counter up.
RefusedKeepsDepth ==
    /\ BodyEnded
    /\ Top.phase = "BEFORE"
    /\ returned = "error" \/ raised
    /\ raised' = (raised /\ returned = "error")
    /\ Return("error")
    /\ UNCHANGED <<rows, index, depth>>

\* A BEFORE trigger whose body failed or raised refuses the statement.
Refused ==
    /\ BodyEnded
    /\ Top.phase = "BEFORE"
    /\ returned = "error" \/ raised
    /\ raised' = (raised /\ returned = "error")
    /\ depth' = Top.prev
    /\ Return("error")
    /\ UNCHANGED <<rows, index>>

\* The error of an AFTER trigger's body is printed and forgotten.
BodyDone ==
    /\ BodyEnded
    /\ Top.phase = "AFTER" \/ ~(returned = "error" \/ raised)
    /\ returned' = "none"
    /\ UNCHANGED <<rows, index, stack, depth, raised>>

LeaveBefore ==
    /\ InPhase("BEFORE")
    /\ Top.todo = <<>>
    /\ depth' = Top.prev
    /\ SetTop([Top EXCEPT !.phase = "apply"])
    /\ UNCHANGED <<rows, index, raised, returned>>

LeaveAfter ==
    /\ InPhase("AFTER")
    /\ Top.todo = <<>>
    /\ depth' = Top.prev
    /\ Return("ok")
    /\ UNCHANGED <<rows, index, raised>>

-----------------------------------------------------------------------------
(* What each statement does to its own table.                              *)

\* Index entries for ref = v at some positions; update_cell takes out the old
\* value's entry, whatever else the index holds.
Added(t, at, v) == IF t \in Indexed THEN {[val |-> v, pos |-> i] : i \in at} ELSE {}
Moved(t, at, v) == (index[t] \ {[val |-> rows[t][i].ref, pos |-> i] : i \in at}) \cup Added(t, at, v)

\* A statement with RETURNING is over once it is applied: no AFTER triggers.
\* new is the row they are given: BEFORE triggers and those of an UPDATE or a
\* DELETE get none.
Applied(rs, ix, new) ==
    LET t == Top.stmt.table
    IN  /\ rows' = [rows EXCEPT ![t] = rs]
        /\ index' = [index EXCEPT ![t] = ix]
        /\ IF Top.stmt.returning THEN Return("ok") /\ UNCHANGED depth
                                 ELSE Enter([Top EXCEPT !.new = new], "AFTER") /\ UNCHANGED returned

\* Mutant: a row is stored without a look at the types of its values.
StoredAsGiven(s) == FALSE

\* NEW.id without its prefix is a text to VALUES, and the subquery of
\* NEW.id + 1 has no row to read and yields NULL: neither is a key, and no
\* conflict clause forgives it.
WrongType(s) == s.id \notin Nat

\* The row is checked against the parent's keys as they were collected; then
\* it is new, or the conflict clause decides.
ApplyInsert ==
    /\ InPhase("apply")
    /\ Is("INSERT")
    /\ LET s   == Top.stmt
           rs  == rows[s.table]
           row == [id |-> s.id, ref |-> s.ref]
           at  == Positions(s.table, s.id)
           dangling == Parent[s.table] # None /\ s.ref \notin {None} \cup Top.found
       IN  IF WrongType(s) \/ dangling \/ (at # {} /\ s.mode = "plain")
           THEN Return("error") /\ UNCHANGED <<rows, index, depth>>
           ELSE \/ /\ at = {}
                   /\ Applied(Append(rs, row), index[s.table] \cup Added(s.table, {Len(rs) + 1}, s.ref), s.id)
                \/ /\ at # {} /\ s.mode = "ignore"
                   /\ Applied(rs, index[s.table], None)
                \/ /\ at # {} /\ s.mode = "replace"
                   /\ Applied([rs EXCEPT ![Max(at)] = row], index[s.table], s.id)
                \/ /\ at # {} /\ s.mode = "upsert"
                   /\ Applied([rs EXCEPT ![Max(at)].ref = s.set], Moved(s.table, {Max(at)}, s.set), None)
    /\ UNCHANGED raised

ApplyDelete ==
    /\ InPhase("apply")
    /\ Is("DELETE")
    /\ LET t    == Top.stmt.table
           kept == Without(rows[t], Top.stmt.ids)
       IN  Applied(kept, Entries(t, kept), None)
    /\ UNCHANGED raised

\* update_cell at the positions found before the BEFORE triggers ran.
ApplyUpdate ==
    /\ InPhase("apply")
    /\ Is("UPDATE")
    /\ LET s  == Top.stmt
           rs == [i \in DOMAIN rows[s.table] |->
                    IF i \in Top.found THEN [rows[s.table][i] EXCEPT ![s.col] = s.val] ELSE rows[s.table][i]]
       IN  /\ Top.found \subseteq DOMAIN rows[s.table]
           /\ Applied(rs, IF s.col = "ref" THEN Moved(s.table, Top.found, s.val) ELSE index[s.table], None)
    /\ UNCHANGED raised

\* A trigger has deleted rows and a position is past the end: the panic
\* unwinds every frame to the session's barrier, and the thread's depth
\* counter is not put back.
UpdatePanics ==
    /\ InPhase("apply")
    /\ Is("UPDATE")
    /\ ~(Top.found \subseteq DOMAIN rows[Top.stmt.table])
    /\ stack' = <<>>
    /\ returned' = "error"
    /\ UNCHANGED <<rows, index, depth, raised>>

-----------------------------------------------------------------------------
Step ==
    \/ Raise
    \/ BeginInsert \/ BeginDelete \/ BeginUpdate
    \/ RunBody \/ Refused \/ BodyDone \/ LeaveBefore \/ LeaveAfter
    \/ ApplyInsert \/ ApplyDelete \/ ApplyUpdate \/ UpdatePanics

Next ==
    /\ Step \/ \E s \in ClientStmts : Call(s)
    /\ before' = IF stack' = <<>> THEN rows' ELSE before

Spec == Init /\ [][Next]_vars

-----------------------------------------------------------------------------
(* Properties.                                                             *)

AtRest == stack = <<>>

Phases == {"begin", "apply"} \cup Timings

\* Every structure has its type; only keys are stored, whatever NEW.id became
\* in the text of a body.
TypeOK ==
    /\ rows \in [Tables -> Seq(Row)]
    /\ index \in [Tables -> SUBSET [val : Refs, pos : Nat]]
    /\ depth \in 0 .. MaxDepth
    /\ raised \in BOOLEAN
    /\ returned \in {"none", "ok", "error"}
    /\ \A i \in DOMAIN stack :
         /\ stack[i].stmt \in Statement(Names)
         /\ stack[i].phase \in Phases
         /\ stack[i].found \subseteq Nat
         /\ stack[i].prev \in 0 .. MaxDepth
         /\ stack[i].todo \in Seq(Statement(Names))
         /\ stack[i].new \in Nat \cup {None}

\* FOREIGN KEY ... REFERENCES: between statements every reference names a row
\* of the parent, whatever order cascades, refusals and triggers came in.
ReferencesExist ==
    AtRest => \A c \in Tables : Parent[c] # None =>
                 \A r \in Range(rows[c]) : r.ref \in {None} \cup Ids(Parent[c])

\* The thread's depth counter is back at zero between statements: errors,
\* refusals and the depth limit leave nothing behind.
DepthReturns == AtRest => depth = 0

\* However triggers call each other, a thread never holds more frames than
\* the depth limit allows.
StackBounded == Len(stack) <= MaxDepth + 1

\* The index on a referencing column lists each row under its present value
\* and position, also after the parent's cascades have removed rows.
IndexAgrees == \A t \in Indexed : index[t] = Entries(t, rows[t])

\* A statement that is refused before it comes to its own table, a DELETE or
\* an UPDATE of a key by a child's RESTRICT, an UPDATE of a reference that
\* names no row, any by a BEFORE trigger, leaves that table as it was, whatever
\* its cascades have already done to others.
RefusedKeepsTarget ==
    [][Len(stack) = 1 /\ returned' = "error" /\ Top.phase # "apply" => rows'[Top.stmt.table] = before[Top.stmt.table]]_vars

\* A DELETE takes along, or sets to NULL, only rows that referenced what it
\* deleted: every other row of a child table is there afterwards, unchanged.
OnlyOrphansGo ==
    [][Len(stack) = 1 /\ Is("DELETE") /\ returned' = "ok" =>
         \A c \in Children(Top.stmt.table) :
            \A r \in Range(before[c]) : r.ref \notin Top.stmt.ids => r \in Range(rows'[c])]_vars

\* A BEFORE INSERT trigger that always raises keeps its table empty, except
\* for rows that triggers insert at the depth limit, where BEFORE triggers are
\* skipped without a word.
Guarded(t) ==
    LET bodies == Bodies[<<t, "BEFORE", "INSERT">>]
    IN  DOMAIN bodies = {1} /\ bodies[1].op = "RAISE"
GuardHolds ==
    [][\A t \in Tables : Guarded(t) /\ Len(rows'[t]) > Len(rows[t]) => depth = MaxDepth]_vars

-----------------------------------------------------------------------------
(* Premises.  The code promises the properties above only for schemas and  *)
(* bodies that keep out of certain ways; these state which.                *)

BodyTexts == UNION {Range(Bodies[<<t, timing, event>>]) : t \in Tables, timing \in Timings, event \in Events}

\* INSERT OR REPLACE writes a row without its index entry.
NoReplace(s) == ~(s.op = "INSERT" /\ s.table \in Indexed /\ s.mode = "replace")

(* SET NULL, ON UPDATE CASCADE and INSERT OR REPLACE write a row without   *)
(* its index entry: a column they write is taken not to be indexed.        *)
WritesAreIndexed ==
    /\ \A c \in Indexed : Parent[c] \in Tables => OnDelete[c] # "SET NULL" /\ OnUpdate[c] # "CASCADE"
    /\ \A s \in ClientStmts \cup BodyTexts : NoReplace(s)

HasParent(t) == Parent[t] # None

\* A body that can neither bring a reference nor take one's row away.
Harmless(s) ==
    /\ s.op = "INSERT" => ~HasParent(s.table)
    /\ s.op = "UPDATE" => IF s.col = "ref" THEN ~HasParent(s.table) ELSE Children(s.table) = {}
    /\ s.op = "DELETE" => Children(s.table) = {}

(* What the code leaves to the schema: cascades reach one level, ON UPDATE *)
(* CASCADE is applied before the BEFORE triggers may still refuse the new  *)
(* key, DO UPDATE looks no value up, and trigger bodies run between a      *)
(* check and its use.                                                      *)
ReferencesGuarded ==
    /\ \A t \in Tables : Parent[t] # t
    /\ \A t \in Tables : HasParent(t) /\ OnDelete[t] = "CASCADE" => Children(t) = {}
    /\ \A t \in Tables : HasParent(t) /\ OnUpdate[t] = "CASCADE" => Bodies[<<Parent[t], "BEFORE", "UPDATE">>] = <<>>
    /\ \A s \in ClientStmts : s.op = "INSERT" /\ HasParent(s.table) /\ s.mode = "upsert" => s.set \in {s.ref, None}
    /\ \A body \in BodyTexts : Harmless(body)

\* A body that touches no referencing table, not by a cascade either.
Distant(s) ==
    s.op # "RAISE" => /\ ~HasParent(s.table)
                      /\ s.op = "DELETE" \/ (s.op = "UPDATE" /\ s.col = "id") => Children(s.table) = {}

(* Trigger bodies stay away from the tables that reference others.         *)
BodiesApart == \A body \in BodyTexts : Distant(body)

\* The bodies S and all they set off are in S, and none of them writes t.
Closed(S) == \A body \in S, timing \in Timings :
    body.op # "RAISE" => Range(Bodies[<<body.table, timing, body.op>>]) \subseteq S
Spares(s, t) == s.table # t /\ (s.op \in {"UPDATE", "DELETE"} => t \notin Children(s.table))

\* A body that cannot fail, nor set off one that raises.
Sure(s) == /\ s.op = "DELETE" /\ Children(s.table) = {}
           /\ \A timing \in Timings : Bodies[<<s.table, timing, "DELETE">>] = <<>>

(* A BEFORE trigger either does not write the table it is on, by its own   *)
(* bodies or by those they set off, or it does not refuse: nothing takes   *)
(* back what a body has written before a later one raises.                 *)
RefusalsApart ==
    \A t \in Tables, event \in Events :
        LET bodies == Range(Bodies[<<t, "BEFORE", event>>])
        IN  \/ \E S \in SUBSET BodyTexts : bodies \subseteq S /\ Closed(S) /\ \A body \in S : Spares(body, t)
            \/ \A body \in bodies : Sure(body)
=============================================================================
