--------------------------- MODULE Transactions ---------------------------
(***************************************************************************)
(* BEGIN, COMMIT, ROLLBACK, SAVEPOINT, ROLLBACK TO and RELEASE on the one  *)
(* Database that all clients of a process share.                           *)
(*                                                                         *)
(* The engine keeps a single stack of snapshots of the whole content.      *)
(* BEGIN and SAVEPOINT push one, COMMIT pops one, ROLLBACK pops one and    *)
(* restores it; ROLLBACK TO is executed as ROLLBACK, its name unread.      *)
(* Nothing ties a snapshot to the client that asked for it.                *)
(*                                                                         *)
(* The content is the set of items (rows, tables, views) present.  The     *)
(* last three variables are what a client believes, not program state.     *)
(***************************************************************************)
EXTENDS Naturals, Sequences

CONSTANTS Clients,
          Items,
          Names,        \* savepoint names
          NoName,       \* the name of a snapshot taken by BEGIN
          MaxDepth,     \* bound: snapshots on the stack, BEGINs of a client
          Exclusive     \* do clients keep transactions apart and nested?

ASSUME TransactionsAssumption ==
    /\ NoName \notin Names
    /\ MaxDepth \in Nat
    /\ Exclusive \in BOOLEAN

VARIABLES db,           \* the items present
          savepoints,   \* the stack of snapshots
          open,         \* client -> how many transactions it has open (they nest)
          pending,      \* client -> what it inserted since then
          safe          \* inserts that were acknowledged for good

vars == <<db, savepoints, open, pending, safe>>

Snapshot == [name : Names \cup {NoName}, saved : SUBSET Items]

TypeOK ==
    /\ db \subseteq Items
    /\ savepoints \in Seq(Snapshot)
    /\ open \in [Clients -> Nat]
    /\ pending \in [Clients -> SUBSET Items]
    /\ safe \subseteq Items

Init ==
    /\ db = {} /\ savepoints = <<>>
    /\ open = [c \in Clients |-> 0]
    /\ pending = [c \in Clients |-> {}]
    /\ safe = {}

-----------------------------------------------------------------------------
Depth == Len(savepoints)
Top == savepoints[Depth]

(* The stack without its i-th snapshot (Vec::remove, Vec::pop). *)
Without(i) ==
    [j \in 1 .. Depth - 1 |-> IF j < i THEN savepoints[j] ELSE savepoints[j + 1]]

(* How careful clients use transactions: nobody else sends a statement     *)
(* while one is open, and the innermost snapshot is ended first.           *)
Alone(c) == Exclusive => \A d \in Clients \ {c} : open[d] = 0
NameOfTop == IF Depth = 0 THEN NoName ELSE Top.name
Ends(n) == Exclusive => NameOfTop = n

(* Mutant: the snapshot is pushed without its name. *)
PushUnnamed(n) ==
    /\ Depth < MaxDepth
    /\ savepoints' = Append(savepoints, [saved |-> db])
    /\ UNCHANGED db

Push(n) ==
    /\ Depth < MaxDepth
    /\ savepoints' = Append(savepoints, [name |-> n, saved |-> db])
    /\ UNCHANGED db

(* Mutant: the outermost snapshot is restored, not the innermost. *)
RestoreOldest ==
    IF Depth = 0
    THEN UNCHANGED <<db, savepoints>>
    ELSE db' = savepoints[1].saved /\ savepoints' = Without(Depth)

(* Database::rollback: a no-op on an empty stack. *)
PopAndRestore ==
    IF Depth = 0
    THEN UNCHANGED <<db, savepoints>>
    ELSE db' = Top.saved /\ savepoints' = Without(Depth)

(* The innermost transaction of c is over, as far as c is concerned; of    *)
(* what it did, kept is still to be decided by an outer one.               *)
Finished(c, kept) ==
    /\ open' = [open EXCEPT ![c] = IF @ = 0 THEN 0 ELSE @ - 1]
    /\ pending' = [pending EXCEPT ![c] = IF open[c] <= 1 THEN {} ELSE kept]

-----------------------------------------------------------------------------
(* A statement that adds an item, inside or outside a transaction. *)
Insert(c, w) ==
    /\ Alone(c) /\ w \notin db
    /\ db' = db \cup {w}
    /\ IF open[c] > 0
       THEN pending' = [pending EXCEPT ![c] = @ \cup {w}] /\ UNCHANGED safe
       ELSE safe' = safe \cup {w} /\ UNCHANGED pending
    /\ UNCHANGED <<savepoints, open>>

(* A statement that removes one: from here on nobody counts on it. *)
Delete(c, w) ==
    /\ Alone(c) /\ w \in db
    /\ db' = db \ {w}
    /\ safe' = safe \ {w}
    /\ pending' = [d \in Clients |-> pending[d] \ {w}]
    /\ UNCHANGED <<savepoints, open>>

Begin(c) ==
    /\ Alone(c) /\ (Exclusive => open[c] = 0)
    /\ open[c] < MaxDepth /\ Push(NoName)
    /\ open' = [open EXCEPT ![c] = @ + 1]
    /\ UNCHANGED <<pending, safe>>

Savepoint(c, n) ==
    /\ Alone(c) /\ (Exclusive => open[c] > 0)
    /\ Push(n)
    /\ open' = [open EXCEPT ![c] = IF @ = 0 THEN 1 ELSE @]
    /\ UNCHANGED <<pending, safe>>

(* Mutants: COMMIT leaves the snapshot on the stack; COMMIT restores it.   *)
CommitKeeps(c) ==
    /\ Alone(c) /\ Ends(NoName)
    /\ safe' = IF Depth # 0 /\ open[c] = 1 THEN safe \cup pending[c] ELSE safe
    /\ Finished(c, pending[c])
    /\ UNCHANGED <<db, savepoints>>
CommitRestores(c) ==
    /\ Alone(c) /\ Ends(NoName)
    /\ IF Depth = 0
       THEN UNCHANGED <<db, savepoints, safe>>
       ELSE /\ db' = Top.saved /\ savepoints' = Without(Depth)
            /\ safe' = IF open[c] = 1 THEN safe \cup pending[c] ELSE safe
    /\ Finished(c, pending[c])

(* COMMIT pops whatever is on top.  With an empty stack it is an error. *)
Commit(c) ==
    /\ Alone(c) /\ Ends(NoName)
    /\ IF Depth = 0
       THEN UNCHANGED <<savepoints, safe>>
       ELSE /\ savepoints' = Without(Depth)
            /\ safe' = IF open[c] = 1 THEN safe \cup pending[c] ELSE safe
    /\ Finished(c, pending[c])
    /\ UNCHANGED db

Rollback(c) ==
    /\ Alone(c) /\ Ends(NoName)
    /\ PopAndRestore
    /\ Finished(c, pending[c] \cap db')
    /\ UNCHANGED safe

(* INSERT OR ROLLBACK of a key that is taken: the statement fails and the  *)
(* engine rolls back.                                                      *)
InsertOrRollback(c, w) == w \in db /\ Rollback(c)

(* ROLLBACK TO n: the executor matches Rollback { .. } and drops the name. *)
RollbackTo(c, n) ==
    /\ Alone(c) /\ Ends(n)
    /\ PopAndRestore
    /\ pending' = [pending EXCEPT ![c] = @ \cap db']
    /\ UNCHANGED <<open, safe>>

(* RELEASE n: the last snapshot of that name goes, wherever it is. *)
Release(c, n) ==
    /\ Alone(c) /\ Ends(n)
    /\ \E i \in 1 .. Depth :
        /\ savepoints[i].name = n
        /\ \A j \in i + 1 .. Depth : savepoints[j].name # n
        /\ savepoints' = Without(i)
    /\ UNCHANGED <<db, open, pending, safe>>

(* RESET empties tables and views and leaves the stack alone. *)
Reset(c) ==
    /\ Alone(c) /\ (Exclusive => Depth = 0)
    /\ db' = {} /\ safe' = {}
    /\ pending' = [d \in Clients |-> {}]
    /\ UNCHANGED <<savepoints, open>>

(* LOAD puts a whole new Database in place, with an empty stack. *)
Load(c) ==
    /\ Alone(c) /\ (Exclusive => Depth = 0)
    /\ db' \in SUBSET Items /\ savepoints' = <<>>
    /\ safe' = {}
    /\ pending' = [d \in Clients |-> {}]
    /\ UNCHANGED open

Next ==
    \E c \in Clients :
        \/ \E w \in Items :
            Insert(c, w) \/ Delete(c, w) \/ InsertOrRollback(c, w)
        \/ Begin(c) \/ Commit(c) \/ Rollback(c)
        \/ \E n \in Names : Savepoint(c, n) \/ RollbackTo(c, n) \/ Release(c, n)
        \/ Reset(c) \/ Load(c)

Spec == Init /\ [][Next]_vars

-----------------------------------------------------------------------------
(* An insert that was acknowledged outside a transaction, or whose COMMIT  *)
(* was, stays until a statement deletes it: "no lost writes, no            *)
(* cross-client corruption" (tests/tcp_stress.rs).                         *)
NoLostWrites == safe \subseteq db

(* "ROLLBACK with no open transaction is a no-op" (SQL-Dialect.qmd): it    *)
(* undoes nothing for a client that has none open.                         *)
IdleRollbackIsNoop ==
    [][\A c \in Clients : open[c] = 0 /\ Rollback(c) => UNCHANGED db]_vars

(* What the content was below all snapshots, and what changed between each *)
(* snapshot and the next.                                                  *)
Above(i) == IF i = Depth THEN db ELSE savepoints[i + 1].saved
BaseContent == IF Depth = 0 THEN db ELSE savepoints[1].saved
Changes == [i \in 1 .. Depth |->
              (savepoints[i].saved \ Above(i)) \cup (Above(i) \ savepoints[i].saved)]
Layers == INSTANCE LayeredStore WITH base <- BaseContent, layers <- Changes

(* Whole-content snapshots amount to layers of changes, for any number of  *)
(* clients and any order of statements: COMMIT and RELEASE keep exactly    *)
(* the work of the level they end, also from the middle of the stack, and  *)
(* ROLLBACK undoes exactly that work.                                      *)
ImplementsLayers == Layers!LayeredSpec
=============================================================================
