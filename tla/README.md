# A TLA+ verification project for A3SQL

A3SQL is a SQL database that lives inside an Arma 3 server process as an
extension (`RVExtension`, `RVExtensionArgs`), and is also built as a standalone
TCP server (`a3sql-server`). Everything is in memory; the database reaches the
disk through `SAVE`, the 5-second autosave of `--db`, and the save at shutdown.

This directory holds TLA+ models of it, TLC runs that check them on small
instances, and TLAPS proofs of the central results for all instances.
`PROJECT.json` maps every definition to the lines it models.

    tlc -workers 2 -config MCTableKeys.cfg MCTable      # one run
    tlapm TransactionsProofs.tla                        # the proofs of one module

## 1. Inventory

All paths are below `src/extension/src/`.

| Part | State | Operations | Correct when | Module |
|---|---|---|---|---|
| **Persistence** (`dispatch/commands/io.rs`, `server.rs`, `bin/a3sql-server.rs`, `engine/serialize/binary.rs`) | the `Database` behind the `DB` mutex; `<file>`, `<file>.bak`, `<file>.tmp` | SAVE, LOAD, autosave, shutdown save, load at start | no acknowledged save is lost, whatever fails; changes reach the disk; a load is all or nothing | `Persistence` |
| **Table storage** (`engine/table*.rs`, `engine/index.rs`, `engine/stmts/{insert,update,delete}.rs`) | rows and four redundant structures: `pk_set`, `pk_row_index`, `unique_set`, indices; `next_auto_inc` | INSERT in five conflict modes, UPDATE, DELETE, TRUNCATE, VACUUM, CREATE / DROP INDEX | the redundant structures describe the rows, no two rows share a key | `Table` |
| **Foreign keys and triggers** (`engine/stmts/*`, `engine/trigger.rs`) | the tables; `TRIGGER_DEPTH`, `RAISE_ABORTED` of the thread; statements that run inside each other | checks on write, CASCADE, SET NULL, RESTRICT; BEFORE and AFTER bodies, RAISE | no dangling reference, a refused statement leaves its table alone, nesting ends and the counter comes back | `ForeignKeys` |
| **Transactions** (`engine/database.rs`, `engine/execute.rs`) | one stack of snapshots of tables and views, shared by all clients | BEGIN, COMMIT, ROLLBACK, SAVEPOINT, ROLLBACK TO, RELEASE, INSERT OR ROLLBACK; RESET, LOAD | COMMIT keeps and ROLLBACK undoes exactly one level; no client undoes another's work | `Transactions` |
| **Sessions**: batches, cursors, prepared statements, the parse cache (`dispatch.rs`, `dispatch/sql.rs`, `dispatch/commands.rs`, `engine/database/{cursor,prepared,sql_cache}.rs`) | the mutex and who holds it, what is left of a batch, name → query and offset, name → template, texts in the cache, `REENTRANT_DEPTH` per thread | batch, create / fetch / drop, prepare / execute, RESET, LOAD, autosave, restart | pages are neither skipped nor repeated, a batch's large answer is refused whatever calls failed before, nobody sees half of a batch | `Sessions` |
| **Server** (`server.rs`, `dispatch/commands.rs`, `ffi/dir.rs`) | `LISTENER`, `CREDENTIALS`, accept threads, one session per connection | LISTEN, STOP, SET_CREDENTIALS, accept, LOGIN, QUIT | nobody is served without the credentials in force | `Server` |
| **Forwarding** (`dispatch.rs`) | `REMOTE` stream; request and answer lines under way | forward, answer | every request gets its own answer, and gets it | `Forwarding` |
| **Views, derived tables, CTEs** (`engine/stmts/select/{cte,derived,joins}.rs`, `engine/execute/select.rs`, `engine/database/views.rs`) | tables put into the `Database` for the time of a SELECT | CREATE / DROP / RENAME of tables and views, INSERT, SELECT | answers are what the text means now; nothing stays behind | `Views` |
| **The SELECT pipeline** (`engine/execute/select.rs`, `engine/stmts/select/*`, `engine/functions/{builtin,aggregate}.rs`) | – (functions of the tables) | access paths, groups, windows, joins, sets, recursion | agrees with a reference definition | `Paths`, `Groups`, `Windows`, `Joins`, `SetOperations` over `Values` |
| **Texts** (`dispatch/sql.rs`, `parser/preprocessor.rs`) | – (functions of a text) | splitting, arguments, comments, numbers, `%%`, MATCH, trigger bodies | literals and statements come through as written | `Texts` |
| SQF evaluator, parser, formats, optimizer, configuration | see section 6 | | | |

How the parts interact: every entry (game thread, TCP session, REPL) takes the
one `DB` mutex and calls `dispatch_inner`, which handles commands (SAVE, LOAD,
LISTEN, cursors, prepared statements, ...), forwards to `REMOTE` if one is
connected, or splits the text and executes the batch. A page of a cursor and a
prepared statement call `dispatch_inner` again, one level deeper. The autosave
thread and the shutdown take the same mutex. Within a statement nothing else
runs, except what the statement itself starts: a trigger's body is a statement
on the same stack and the same tables, a view's query a SELECT inside a SELECT.
Between two requests of a client anything may happen. A forwarded statement
keeps the mutex while it waits for the network.

What is hard here: a crash between two renames; an error in the middle of a
multi-row statement; structures derived from the rows that some path forgets;
values read before a trigger runs and used after it; one snapshot stack for all
clients; an offset that moves on before its page is delivered; tables that
exist only while a SELECT runs; a mutex held across a network round trip; six
functions that each have their own idea of where a literal ends. The full list,
with lines and the properties that cover each, is `hazards` in `PROJECT.json`.

## 2. Modules

| Module | What it is |
|---|---|
| `DurableStore` | what persistence promises: one memory image, one durable image, saves and loads in one step |
| `Persistence` | the save protocol in its four file-system steps, with failing calls and crashes; implements `DurableStore` |
| `KeyedTable` | what a table promises: a set of rows, no two with one key, changed one row at a time |
| `Table` | the rows and the four structures, statements as sequences of row or cell steps; implements `KeyedTable` for disciplined clients |
| `LayeredStore` | nested transactions as layers of changes on a base |
| `Transactions` | the stack of whole-content snapshots and what clients believe about it; implements `LayeredStore` |
| `ForeignKeys` | several tables, a stack of running statements, trigger bodies |
| `Sessions` | requests of several clients against one content, with the autosave and restarts between them |
| `Server` | listener handle, accept threads, credentials, login |
| `Forwarding` | forwarded statements, their streams, and the mutexes held around them |
| `Views` | what a SELECT materialises and drops, beside what its text means |
| `Values` | the values of the engine: comparison, equality, coercion, LIKE, the encodings of keys |
| `Paths`, `Groups`, `Windows`, `Joins`, `SetOperations` | the stages of a SELECT, each with a reference definition |
| `Texts` | what happens to a request's text before the parser sees it, with a reference lexer |
| `MC*` | instances for TLC |
| `*Proofs` | theorems and TLAPS proofs |

Modules with state are specifications; `Values` to `Texts` are operators, and
`MCQueries` is the behaviour that enumerates their inputs. Each module defines,
next to an operator of the code, a few *mutants* of it (`Mutant: ...` in the
comment): the same operator with a plausible bug. They are not part of the
specification; they serve to show that each property can fail.

### Persistence

`mem` is the database behind the mutex; `main`, `bak`, `tmp` are the three
files; `pc` is the step of the save that holds the mutex. `BeginSave` is
`export_binary` and the open that truncates the temporary file, `FillTmp` the
`write_all`, `Rotate` and `Install` the two renames, `Report` the return to the
caller; each has a failing variant. `Halt` is a crash at any point, and the
return from `main` that kills threads. SAVE and autosave are taken to use one
file, the case in which they meet. A database is abstracted to its contents,
whether it has a view (the binary format has none) and whether a table holds
two rows with one key (the import refuses those). `acked` and `since` record
what callers were told. The model follows POSIX renames and does not reorder
writes after a power failure: the code never calls `fsync`, and only process
crashes are claimed for.

### Table

One table with an AUTO_INCREMENT key `id`, a nullable UNIQUE and indexed column
`u`, and a CHECK over both. `exec_insert` and `exec_update` collect their work
and apply it row by row or cell by cell; `inserts` and `updates` hold what is
left, so that invariants are checked between any two rows of a statement. The
constants `Disciplined`, `Replaces` and `Truncates` say what clients do: many
properties only hold for clients that never assign a key another row holds;
section 3 says what happens for the others. The panic of a stale
row position is modelled as the caught panic it is.

### ForeignKeys

Several tables, each with a key and one column that may reference the key of
another. `stack` holds the statements that run, a client's at the bottom and
trigger bodies above it; a frame's `phase` is how far it got, `found` what it
read before its BEFORE triggers ran and uses after them (an INSERT the parent's
keys, an UPDATE the positions of its rows), `prev` the trigger level it puts
back. `BeginDelete` applies the cascades child table by child table, `Enter` is
the entry into `fire_triggers` with the depth limit, `RunBody`, `Refused` and
`BodyDone` what becomes of a body, `ApplyInsert`, `ApplyDelete`, `ApplyUpdate`
the change of the statement's own table, `UpdatePanics` the write to a position
that a BEFORE trigger has deleted. `new` is the row that `fire_triggers` is
given as NEW: the last one an INSERT has inserted, none for an ignored or
upserted one and none anywhere else (`insert.rs:97`, `update.rs:275`,
`update.rs:297`). Without a row only the prefix of `NEW.id` goes: what is left
names the column of the row an UPDATE looks at, and is a text or NULL in VALUES,
which an INT column refuses (`Substituted`, `Hits`, `WrongType`). NEW stands in
the keys of INSERT and UPDATE bodies; DELETE bodies have plain keys, and OLD is
not modelled. The model has one-column keys and takes it
that every table has one, that UPDATE assigns free keys (module `Table` is
about the others), and that bodies do not write the tables a running INSERT
references; section 3 says what happens otherwise. The last section of the
module, *Premises*, names what the code leaves to the schema and its trigger
bodies: the theorems assume it, and `MCForeignKeys` asserts it (`MCPremises`),
so that the checked instance is one the theorems speak of.

### Transactions

`db` is the set of items present and `savepoints` the stack. The code does not
know which client opened what: `open`, `pending` and `safe` are what clients
believe. `Exclusive` restricts the clients to disciplined use: nobody else
sends a statement while a transaction is open, and the innermost level is ended
first. LOAD replaces everything and drops the stack; RESET empties the content
and keeps the stack.

### Sessions

The content is one table, the sequence of its rows; a statement is what it
does, a text the statement itself, and an answer's size its number of rows.
`holder` has the mutex, `todo` is what is left of its batch and `result` what
the batch has answered; `Execute`, `StatementFails`, `StatementPanics` and
`BatchDone` are the loop of `exec_sql_statements`. Every call of
`dispatch_inner` raises `depth`, the `REENTRANT_DEPTH` of its thread, and has a
guard that lowers it by one when the call is left, by an answer, an error or a
panic (`Drop`, `Return`). `calls` counts the calls on the stack: `Fetch` moves
the offset and then sends the page's text through an inner call, as
`ExecutePrepared` does; `back` is what the inner call has answered, and
`CommandReturns` the outer one passing it on. A panic leaves one call after the
other, and neither runs another statement. `Guarded` is the 30 KB guard that
only a call at depth 1 passes, `Delivered` the buffer of the game as
`write_response` fills it; `RVExtensionArgs` with the function `sql` answers
through the arma-rs library instead (`dir.rs:334-353`), which is not modelled. `page`, `got` and `calm` are for the
properties: which cursor's page is under way, what its pages delivered, and
whether something disturbed them. `Autosave` and `Crash` see the content
between two requests. `PairedBatches` is the premise about the clients' batches
that `PairsTogether` is proved from; `MCSessions` asserts it of its own.

### Server and Forwarding

`Server` has the listener's handle and the set of ports with a live accept
thread as separate state, because dropping the handle does not end the thread.
Every connection copies the credentials when accepted; `issued` remembers every
pair an operator ever set. `Forwarding` has one mutex and at most
one onward stream per process; a text is the sequence of its lines, an answer
is abstracted to the request it belongs to. The `BufReader` that lives for one
answer may read ahead and lose lines: every amount is possible.

### Views

A SELECT that names a view or contains a derived table or a CTE puts the
result of the inner query into the `Database` as a table, under the view's
name, a generated name, or the alias, and drops it on its way out.
`ExecSingle` and `ExecJoin` are the two ways `exec_select` goes and `ExecCte`
the WITH clause; they return the tables they leave. A table has one column and
is a set of values, a join is on that column. SELECTs call each other inside
out: `Exec` is the function that says, for each depth of nesting, what a SELECT
does to the tables, and `MaxNesting` is the depth the stack has room for
(beyond it a SELECT fails; in the program a view in a cycle overflows the
stack). `Meaning` evaluates the same text without putting anything anywhere;
`real` holds the tables that statements created. `Careful` restricts the
clients to what works (`Safe`): among others a SELECT may not drop what a join
around it put there for an earlier source and still needs (`Undisturbed`).

### The query modules

`MCQueries` lets two tables grow row by row, or a text symbol by symbol, and in
every state asks every question of its lists. `Values` has integers, floats (in
halves), texts (code points), NULL, and the code's notions of order and
equality, which differ from each other. `Paths` has `try_pk_index`,
`try_btree_index` and `try_trigram_index` and compares what they propose, after
the WHERE clause, with a scan. `Groups` has everything from GROUP BY to LIMIT,
compared with a definition by sets. `Windows` has frames, ranks and
neighbours, compared row by row with their definition by counting. `Joins` has
the nested loop with its outer sides and ON, USING and NATURAL, compared with
the set of combinations. `SetOperations` compares counts of rows, and the
iteration of WITH RECURSIVE with reachability. `Texts` has the six rewriting
steps, compared with a reference lexer on the texts the steps can agree about
(`Agreed`). No module declares a `RECURSIVE` operator: recursion is a recursive
function, which the proofs unfold.

## 3. Runs

Passing runs:

| Run | Instance | Shows |
|---|---|---|
| `persistence` | 3 contents, 2 failing calls, any number of crashes (2.2 M states); files are not damaged from outside | `NoAckedSaveLost`, `KeepsAGoodSave`, `ImplementsStore`: three contents tell the last, the previous and the next save apart, two failures cover a failed rotation followed by a failed install |
| `persistence_live` | 2 contents, 1 failing call, 1 damaged file | `ChangesReachDisk` |
| `table_keys` | 3 keys, 2 values and NULL, 3 rows, batches of 2 | `PkAgrees`, `UniqueAgrees`, `NoDuplicates`, `ImplementsKeyed` for disciplined clients: three rows are the least in which a row shifts past another that stays |
| `table_index` | 2 keys, 2 values and NULL, 2 rows, any keys | `IndexAgrees` for all clients that do not REPLACE |
| `transactions` | 2 disciplined clients, 3 items, 2 names, depth 4 | `NoLostWrites`, `IdleRollbackIsNoop`, `ImplementsLayers`: depth 4 has two savepoints of one name inside a transaction |
| `server` | 2 ports, 3 connections, 2 credential pairs, `listener_require_auth` either way | `FailClosed`: two pairs to change between accept and LOGIN, and to none |
| `forwarding` | game → relay → base, a caller at each; requests of one line, QUIT, and three lines | `AnswersMatch`, `AnsweredEventually` |
| `foreign_keys` | a parent with a child of each kind (CASCADE and indexed, SET NULL and ON UPDATE CASCADE, RESTRICT), a log that fires itself, a guarded table; bodies with NEW.id after INSERT, with and without a row, after UPDATE and before INSERT; limit 2 for 16 (142 k states) | `ReferencesExist`, `IndexAgrees`, `RefusedKeepsTarget`, `OnlyOrphansGo`, `GuardHolds`, `StackBounded`, `DepthReturns`: limit 2 is the least at which a body fires a body that is still run and one that is not |
| `sessions` | the game and a TCP client, two rows, a cursor with two spellings of its name, pages of 1 and 2, cache of 2, buffer of 1 row (2.8 M states); a prepared statement that panics | `CacheAgrees`, `PagesMissNothing`, `LargeBatchesRefused`, `PairsTogether`: two page sizes overlap and pass the end, a page or a batch of two rows does not fit, three texts evict one from the cache, and a batch comes after an error and a panic in a nested call |
| `views` | 2 tables, views over tables and over views, 2 CTEs, 11 questions, nesting up to 4 | `AnswersFresh`, `LeavesNoTrace`: views two deep, met twice in one join, inside CTEs that use earlier CTEs, and inside derived tables, one of them nested in another |
| `queries` | tables of up to 3 rows out of 7, a second table of 2, texts of 5 symbols in 4 alphabets (30 k states) | `PathsAgree`, `GroupsAgree`, `WindowsAgree`, `JoinsAgree`, `SetsAgree`, `TextsAgree`: the rows have ties, NULLs in the key and in every column type, and texts that are prefixes of each other |

Violation run, a disagreement between the code and what the repository says of
it (quoted in `findings`):

| Run | Shows |
|---|---|
| `trigger_parts` | a statement of a trigger's body, from the second on, is also run when the trigger is created |

### Known disagreements

The models reproduce further behaviour that contradicts a document, a comment or
a test, or that a client would not expect. The runs above exclude each by the
constant or the list named here; set it as told and TLC, or reading the
definition, shows it.

Persistence and tables:

* A save after a damage rotates the damaged file over the only good backup
  (`io.rs:411`): `MaxFailures = 0`, `MaxFaults = 1` violates `KeepsAGoodSave`.
* `DupKeys = BOOLEAN`: a database with a duplicate key saves with success and
  can never be loaded (`import_binary` re-inserts through `Table::insert`).
* `Image` drops views: a view does not survive SAVE and LOAD, against
  "View should still work after reload" (`tests/gaps.rs:445`).
* `Disciplined = FALSE`: UPDATE and ON CONFLICT DO UPDATE give two rows one key
  (`update_cell` does not ask whether the new key is free), against "duplicates
  are rejected" (`SQL-Dialect.qmd:202`); `UPDATE t SET id = id + 1` leaves keys
  unregistered and violates `PkAgrees` in `table_keys`.
* `Truncates = TRUE`: TRUNCATE leaves `pk_row_index` and `unique_set` behind;
  the old UNIQUE values stay taken and an UPDATE by an old key panics.
* `Replaces = TRUE` in `table_index`: INSERT OR REPLACE does not tell the index.
* The CHECK is tested one assignment at a time against the old row, and by an
  upsert on the proposed row only, so a row that fails it can be stored.
* AUTO_INCREMENT does not skip a key that was inserted explicitly.

Foreign keys and triggers (against `SQL-Dialect.qmd:208`):

* Cascades go one level down: grandchildren, a table that references itself,
  and children without a key are not cascaded (`Cascaded`, `Children`).
* What cascades did to other tables stays when a later RESTRICT child or a
  BEFORE trigger refuses the DELETE, or a BEFORE trigger the UPDATE.
* ON DELETE SET NULL and ON UPDATE CASCADE write past the child's index:
  `Indexed` has only the child that cascades deletes.
* An upsert's SET is not checked against the parent; TRUNCATE, DROP and RENAME
  of a parent ask no child; keys are compared without regard to case.
* An INSERT's lookups precede its BEFORE triggers: a body that deletes the
  parent row leaves a dangling reference. A key shift of the parent
  (`SET id = id + 1`) cascades one child twice.
* At the depth limit BEFORE triggers are skipped silently, guards among them
  (`GuardHolds` speaks of statements below the limit). A panic inside a body
  leaves `TRIGGER_DEPTH` raised. RETURNING skips AFTER triggers.
* `NEW.id` is the row's key only in the AFTER trigger of a row that was
  inserted; elsewhere an INSERT that uses it fails, and an UPDATE reads its own
  table's column (`Substituted`, `WrongType`, `Hits`).

Transactions, sessions and the server:

* `Exclusive = FALSE` violates `NoLostWrites`: one client's ROLLBACK undoes
  another's acknowledged insert (`database.rs:82`, against
  `tests/tcp_stress.rs:8`).
* ROLLBACK TO restores the innermost snapshot whatever name it is given, and
  COMMIT of a transaction with an open savepoint leaves a snapshot that a later
  idle ROLLBACK restores (`Ends` excludes both under `Exclusive`).
* A batch that fails after its BEGIN leaves the snapshot; the autosave writes
  the uncommitted rows of a transaction left open between two requests
  (`PairsTogether` speaks of rows one batch writes together).
* A page that fails, or does not fit the game's buffer, is skipped for good:
  the offset has moved on (`commands.rs:150`); `calm` excludes it. A cursor
  over an aggregate query never ends, one over a query with its own LIMIT gets
  two. `FETCH` looks names up as given, all others in lower case; PREPARE puts
  the template in lower case, literals included.
* "A single response is capped at 30 KB" (`TCP-Connector.qmd:99`), "on every
  path" (`Production-Readiness.qmd:108`): the guard stands on plain SQL only;
  the game is protected by its buffer, but not in the function `sql` of
  `RVExtensionArgs`; TCP clients get pages and prepared answers of any size
  (`Guarded`, `Delivered`).
* STOP drops a clone of the listener's socket and the accept thread goes on
  (`commands.rs:226`). `set_credentials u p` as one line of text clears the
  credentials and answers "Credentials set" (`SetCredentialsText`).
* `Remote <- MCLoop` with callers `{player, console}`, `Requests <- MCOneLine`
  and `MaxBacklog = 2`: a process connected to itself waits for its own mutex
  for ever, against `TCP-Connector.qmd:151-152`. With two statements on
  two lines in `Requests` the stream is one answer ahead from then on.

SELECT:

* `Questions <- MCFailing` with `Careful = FALSE` violates `AnswersFresh`: a
  SELECT that fails leaves its views' tables, and later answers are stale,
  against "re-executed each reference" (`create.rs:177`). `Careful` also
  excludes: a table created under a view's name, which a join drops; an alias
  that is a table, which the CTE overwrites and drops; inner queries without
  rows, which get no table. A view joined with one whose body joins over it,
  and nested derived tables with one generated name, fail; views in a cycle
  overflow the stack.
* Paths: `v = '5'` and `v = 5.0` on an indexed INT column find nothing, against
  `tests/proptest_paths.rs:1-8`; texts that look like numbers in ranges over
  an indexed TEXT column; NULL rows under `LIKE 'NU%'` and BETWEEN.
* Groups: `SELECT DISTINCT a AS x` and `DISTINCT *` answer one row; LIMIT,
  OFFSET and DISTINCT are ignored in aggregate queries; SUM is NULL if the
  first row is, FLOAT SUM ignores FILTER, COUNT(DISTINCT) counts NULL; HAVING
  drops the empty group of an aggregate over no rows.
* Windows: a window aggregate with ORDER BY and no frame takes the rows up to
  this one and gives rows that tie different values, against "RANGE UNBOUNDED
  PRECEDING .. CURRENT ROW" (`window.rs:581-583`). TLC finds
  `RunningHasPeers` violated as an invariant of `MCQueries`; `WindowsAgree`
  asks for such aggregates only where no rows tie (`Running`, `Tied`). A RANGE
  offset excludes the rows exactly that far away; MIN and MAX take NULL.
* Joins: an ON that names a column of a later table panics; `FROM a, b JOIN c
  ON ...` ignores the ON; ORDER BY compares texts; USING with an unknown
  column is a cross join; HAVING on a join looks at its first row.
* Sets: an empty join on the right panics, on the left loses the right's rows;
  EXCEPT keeps duplicates of the left; ORDER BY and LIMIT of a UNION are
  ignored; a recursive CTE whose anchor has duplicates stops early.
* Texts (what `Agreed` excludes): `'a\'` is split in the literal, since the
  splitter escapes with a backslash and everything else with `''`; quotes and
  semicolons in comments; `1e2` inside a literal is expanded; `''` or a
  backslash in the operand of `%%` or MATCH; an argument that touches a
  literal. A word that ends in "end" ends a trigger's body, a CASE too.

**Fairness.** `Persistence!FairSpec` is weak fairness of the autosave loop and
of a save that has begun: the loop has no exit and sleeps between rounds, and a
save waits for nobody. Failing calls are not fair, and bounded. A fair mutex is
implied: weak fairness of `BeginSave("autosave")` lets saves of others come
first, but not for ever. `Forwarding!FairSpec` is weak fairness of reading an
answer that is there, and strong fairness of a session's step, which may wait
for a mutex that is taken and released again and again. The other modules state
safety only: their actions are requests nobody has to send.

**Deadlock** is checked everywhere but in `queries` and `trigger_parts`, where
the tables and texts stop growing at the bound.

## 4. Proofs

TLAPS proves, for all values of the constants:

* `PersistenceProofs`: `TypeCorrect`; and under `Healthy` (no table holds
  duplicate keys, no file is damaged from outside) `Durability`
  (`[]NoAckedSaveLost`), `GoodSaveKept` and `Refinement`
  (`Spec => ImplementsStore`). The inductive invariant adds to the property
  what each file holds at each step of a save: from `written` on, the temporary
  file is the image of memory; after the rotation the backup is loadable if
  anything was; a loadable main file is never older than the backup.
* `TransactionsProofs`: `TypeCorrect`; `LayersRefinement` without any
  discipline (TLC checks it for disciplined clients only); and for `Exclusive`
  clients `WritesKept` and `IdleRollback`. The
  refinement rests on lemmas about what removing one snapshot does to the
  differences between neighbours. `WritesKept` needs to know what each
  snapshot still contains: every safe write is in the content and in all
  snapshots, and the stack is empty when no client has a transaction open.
* `TableProofs`: `TypeCorrect` for all clients; `IndexCorrect` (`[]IndexAgrees`)
  for clients that do not REPLACE; and for clients that assign only free keys
  and do not TRUNCATE `KeysCorrect` (`NoDuplicates`, and the other two in one
  invariant), its corollaries `PkCorrect` and `UniqueCorrect`, and
  `TableImplementsKeyed` (`Spec => ImplementsKeyed`). A
  statement is many steps, so the invariant must say what is still to come: the
  rows and cells that are left are free of conflicts with the table as it has
  become (`StillFresh`), and the cells of an UPDATE name rows that are there
  (`CellsFit`). A rebuild is correct because among the positions of a key there
  is a last one (`LastPosition`), a DELETE because the rows it keeps are an
  injective image of their positions (`KeptRows`).
* `ForeignKeysProofs`: `NestingBounded` (`[]StackBounded`) for any tables, keys
  and bodies, from an invariant that counts the levels of the stack; and
  `CounterReturns` (`[]DepthReturns`) under `QuietBodies`: trigger bodies
  update no keys and no table with a BEFORE UPDATE trigger. Without that
  premise an UPDATE inside a body may panic and the counter stays up. The
  instance of `foreign_keys` satisfies it.
  Its second part proves the other properties of `ForeignKeys`, for any number
  of tables, rows and keys and any trigger bodies within the premise named:

  | Theorem | Shows | Premise | Inductive invariant |
  |---|---|---|---|
  | `TypeCorrect` | `[]TypeOK` | none | `Typed`: below the top every frame waits in a phase that runs bodies, and whatever NEW.id became in a body, `WrongType` keeps all but keys out of the rows |
  | `GuardsHold` | `GuardHolds` | none | `GuardKept`: an INSERT into a guarded table is entering its triggers, has its guard on top of it, or has the guard's error; only at `MaxDepth` does it reach `apply` |
  | `IndexCorrect` | `[]IndexAgrees` | `WritesAreIndexed` | `IndexKept`: holds in the middle of cascades and bodies too |
  | `ReferencesCorrect` | `[]ReferencesExist` | `ReferencesGuarded` | `ReferencesKept`: what the outermost statement found before its BEFORE triggers still fits the rows when it uses it |
  | `OrphansCorrect` | `OnlyOrphansGo` | `BodiesApart` | `OrphansKept`: keys of referencing tables are unique (the cascade deletes by the child's key), and every child's row that is no orphan is still there |
  | `RefusalsCorrect` | `RefusedKeepsTarget` | `RefusalsApart` | `TargetKept`: while BEFORE triggers run, the target is as it was, or none of them can refuse |

  Each premise is a disagreement of section 3 read the other way:
  `WritesAreIndexed` excludes the three writes that go past the
  index (SET NULL, ON UPDATE CASCADE, INSERT OR REPLACE); `ReferencesGuarded`
  the second level of a cascade, a BEFORE UPDATE trigger on a parent whose
  children have already been moved, an upsert's unchecked value, and bodies that
  bring references or take their rows away; `BodiesApart` bodies that write
  referencing tables while a DELETE is under way; `RefusalsApart` a BEFORE
  trigger that writes the very table it is on and then raises, since nothing
  takes that write back. Cascades are functions of all tables at once, so the
  proofs need no induction over the tables, only lemmas about positions,
  removals and renumberings in a sequence of rows.
* `SessionsProofs`: `TypeCorrect`, `CacheCorrect` (`[]CacheAgrees`),
  `LargeAnswersRefused` (`LargeBatchesRefused`) and
  `PagesCorrect` (`[]PagesMissNothing`), for any clients, batches, names, page
  sizes and capacities. `LargeAnswersRefused` rests on `Levels`: a thread's
  depth is the number of its calls that are on the stack, two of them in the
  inner call of a command and none for a client that does not hold the mutex,
  so that the guard of a batch always finds depth 1. `PagesCorrect` needs
  `PageInv`: while a page is under way,
  its cursor's offset is already past it, and what was delivered before is the
  rows up to its start; `PageAppended` says that those and the page are the
  rows up to the next. `PairsCorrect` (`[]PairsTogether`) is under
  `PairedBatches`: a statement that writes a paired row stands in an unbroken
  run of such statements, one for each row of the pair, all inserting or all
  deleting. A batch is no transaction, so a failing statement between two
  halves would leave one of them. Its invariant `PairInv` says where a batch
  is: between runs, with the pair whole, or inside one, with exactly the rows
  of the run's first statements written, so that none of the rest can fail;
  and that the file and every snapshot have the pair whole, since LOAD, a
  restart and a ROLLBACK bring them back.
* `ForwardingProofs`: `TypeCorrect`; and under `OneStatement` (no request has
  two statements) `AnswersReachCallers` (`[]AnswersMatch`). A request travels
  along a chain of processes. The invariant names for every stream at work the
  caller it works for and the sessions behind it, each of which holds the mutex
  of the process it forwarded from; a stream has at most one statement, and a
  dead one has none on its way.
* `ServerProofs`: `TypeCorrect` and `Authentication` (`[]FailClosed`).
* `SelectProofs`: `TypeCorrect` of `Views` for all clients; and for `Careful`
  ones `SelectLeavesNoTrace` (`[]LeavesNoTrace`) and `ViewsAreFresh`
  (`[]AnswersFresh`), for any queries, views and names and any depth of
  nesting. The invariant `IInv` adds that no table has the name of a view
  (`Unshadowed`), without which a join would drop the table. That a SELECT
  keeps it is shown in three layers: a query, by induction over the depth
  (`Exec` against `Meaning`: a query leaves the tables of its scope as they
  were and answers what it means, if nothing inside it is without rows); its
  sources one after the other, where each leaves what the earlier ones put
  there (`Undisturbed`); and the CTEs of a statement, whose scope grows one
  alias at a time. A view is materialised with less room on the stack, and
  inside a larger scope, than its definition is read with, so the meaning is
  shown not to change with either. The library's induction theorems take a
  predicate as a parameter; `NatSetInduction` takes the set of the numbers for
  which the fact holds in its place, from the least number of a set (`Least`),
  and `Recursion` unfolds recursive functions from it.

  `SetOperationsCorrect` is `CombineRight` for any two answers: each loop of
  `exec_union` is followed row by row with the number of copies of a fixed row,
  EXCEPT ALL through the removal at a position. It holds of EXCEPT only for a
  left side of distinct rows (section 3). `RecursiveCteCorrect` is
  `RecursiveRight`: a turn finds everything in the CTE again, so an answer with
  no more rows than the CTE has no new ones; every other turn adds a row, so
  the turns suffice if there are at most `MaxIters` values (`Reached`). TLC
  checks both on small tables (`SetsAgree`), of at most as many values as turns.

  `JoinsCorrect` is `RowsRight`, and with it `JoinRight`, for any number of
  tables of any rows, every kind of join and ON, USING, NATURAL or no condition
  (`Joinable`). `Once` says that a list has the members of a set, each once; it
  is carried through the loops: the matches of one row (`AscendingOnce`,
  `WithOnce`), the rows of all of them (`FlattenOnce`), one table more
  (`JoinNextOnce`, `BelongingSame`) and the tables in turn (`JoinedOnce`). That
  no row consists of NULLs only (`RowsOf`) is what keeps the rows a RIGHT join
  adds apart from those that match. A join of two tables, the references of the
  ON of which mean one column each (`ClearRefs`), answers the same either way
  round (`TurnedSame`): a name that is ambiguous means the last source that has
  it, which is another one when they are turned. TLC checks it on small tables
  (`JoinsAgree`).

The premises of the theorems are constants of the modules or conditions on
them; the assumptions on constants are the named `ASSUME`s, which TLC evaluates
in every run whose module extends theirs.

Only model-checked, and why:

* `ChangesReachDisk` and `AnsweredEventually` are liveness properties: fairness
  and ENABLED are outside the prover's reach.
* `PathsAgree`, `GroupsAgree`, `WindowsAgree` and `TextsAgree` compare
  functions of whole tables or texts, written with folds over sequences and
  sets that take an operator (`FoldLeft`, `StableSort`, `SelectSeq`). The
  provers cannot instantiate the induction theorems of these.
* `JoinsAgree` and `SetsAgree` themselves are invariants of `MCQueries`, which
  asks their questions of two small tables; what they ask is proved for every
  table by `JoinsCorrect`, `SetOperationsCorrect` and `RecursiveCteCorrect`.

## 5. What could come next

1. CONNECT and DISCONNECT in `Forwarding` while requests are under way.
2. ALTER's columns against the structures of `Table`: `drop_column` leaves
   `col_index` and the indices as they were, `rename_column` an index's column
   name (`schema.rs:121-135`).
3. MERGE and COPY as sequences of the row steps of `Table`.
4. The caches of subqueries inside one statement, and correlated subqueries.
5. `Transactions` composed with `Sessions`: more than one level per batch.
6. Partitions, sorting and access paths (`Values`, `Groups`, `Paths`) with
   recursive functions in place of folds, as in `Joins` and `SetOperations`, so
   that they can be proved right by the same induction.

## 6. Not modelled

The components with status `not_modelled` in `PROJECT.json` give the reason
each: the SQF evaluator and the literal parser are functions of one text
without state between two calls; the grammar is a library's; the formats other
than the binary one convert a whole table at once; the optimizer is a
placeholder no statement goes through; configuration is read once. `fuzz.rs`
is a test harness.

Of the modelled parts the following is left out: path sandboxing of SAVE and
LOAD (pure string checks before the first step), composite keys and defaults in
`Table`, OLD in triggers and the SELECTs of their bodies, the function `sql` of
`RVExtensionArgs`, arithmetic, date and
JSON functions (each a function of its arguments that unit tests reach), the
fuzzy-match path, SELECT INTO, the replacing of type names in texts, poisoned
locks other than the database's, thread creation failures, and partial lines on
a stream.
