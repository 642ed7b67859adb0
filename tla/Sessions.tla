------------------------------ MODULE Sessions ------------------------------
(***************************************************************************)
(* What dispatch_inner does with the requests of the game and of TCP       *)
(* clients: batches run statement by statement under the database mutex,   *)
(* the parse cache, cursors and prepared statements (both call             *)
(* dispatch_inner again), the 30 KB limits on answers, panics, RESET, and  *)
(* the autosave and restart that see the database between requests.        *)
(*                                                                         *)
(* The content is one table with a key, as the sequence of its rows.  A    *)
(* statement is abstracted to what it does; its text is the statement      *)
(* itself.  The size of an answer is its number of rows.                   *)
(***************************************************************************)
EXTENDS Naturals, Sequences, SequencesExt, FiniteSets

CONSTANTS Game,         \* callers through RVExtension: a fixed output buffer
          Tcp,          \* callers through serve_client
          Rows,
          Names,        \* of cursors and prepared statements
          Lower,        \* name -> its lower-case spelling
          None,
          Pair,         \* rows only ever inserted and deleted together
          Templates,    \* ops of the prepared statements
          Params,       \* and their arguments
          Batches,      \* texts of the clients: sequences of statements
          Limits,       \* page sizes asked for
          Capacity,     \* of the parse cache
          OutputBuf,    \* rows an answer of OUTPUT_BUF_SIZE bytes has
          MaxDepth,     \* bound: snapshots on the stack
          MaxOffset     \* bound: a cursor's offset

Clients == Game \cup Tcp
Free == "free"

(* The statements: op names what one does, arg its row or its page.        *)
Stmt(op, arg) == [op |-> op, arg |-> arg]
Select == Stmt("select", <<>>)
Bad == Stmt("bad", <<>>)                  \* a text the parser refuses
Page(of, n, from) == Stmt(of.op, <<n, from>>)
Plain == {Stmt(op, r) : op \in {"insert", "delete"}, r \in Rows}
         \cup {Stmt(op, <<>>) : op \in {"select", "bad", "panic", "begin",
                                        "commit", "rollback", "create", "drop"}}
Statement == Plain \cup {Page(q, n, from) : q \in {Select, Bad}, n \in Limits,
                                            from \in 0 .. MaxOffset}

Status == {"none", "ok", "error", "too_large", "panic"}

ASSUME SessionsAssumption ==
    /\ Game \cap Tcp = {} /\ Free \notin Clients
    /\ None \notin Clients \cup Names \cup Seq(Rows)
    /\ None \notin [sql : {Select, Bad}, offset : Nat] \cup [status : Status, rows : Seq(Rows)]
    /\ Lower \in [Names -> Names] /\ Pair \subseteq Rows
    /\ <<>> \notin Rows
    /\ Templates \subseteq {"insert", "delete", "select", "panic"}
    /\ Params \subseteq (Rows \ Pair) \cup {<<>>}
    /\ \A op \in Templates, r \in Params : Stmt(op, r) \in Plain
    /\ Batches \subseteq Seq(Plain)
    /\ Capacity \in Nat \ {0} /\ OutputBuf \in Nat \ {0} /\ MaxDepth \in Nat
    /\ Limits \subseteq Nat /\ MaxOffset \in Nat

VARIABLES table,      \* the rows in the order they came, or None: no such table
          savepoints, \* the stack of snapshots
          cache,      \* [entries, order] of the parse cache
          cursors,    \* name -> [sql, offset] or None
          prepared,   \* name -> the template's op or None
          holder,     \* who holds the mutex
          todo,       \* what is left of the batch that runs
          result,     \* the rows it has answered so far
          depth,      \* client -> REENTRANT_DEPTH of its thread
          calls,      \* calls of dispatch_inner, each with its guard, on the holder's stack
          back,       \* what the inner of two calls has returned to the outer, or None
          answer,     \* how the last request was answered, and to whom
          disk,       \* the table on disk
          page,       \* the cursor whose page is being fetched, or None
          got,        \* name -> the rows its pages delivered
          calm        \* name -> has nothing disturbed its pages

vars == <<table, savepoints, cache, cursors, prepared, holder, todo, result,
          depth, calls, back, answer, disk, page, got, calm>>
store == <<table, savepoints>>
thread == <<depth, calls, back>>
ghosts == <<page, got, calm>>

Content == Seq(Rows) \cup {None}
TypeOK ==
    /\ table \in Content /\ disk \in Content
    /\ savepoints \in Seq(Content)
    /\ cache.entries \subseteq Statement /\ cache.order \in Seq(Statement)
    /\ cursors \in [Names -> {None} \cup [sql : {Select, Bad}, offset : Nat]]
    /\ prepared \in [Names -> Templates \cup {None}]
    /\ holder \in Clients \cup {Free}
    /\ todo \in Seq(Statement) /\ result \in Seq(Rows)
    /\ depth \in [Clients -> Nat] /\ calls \in Nat
    /\ back \in [status : Status, rows : Seq(Rows)] \cup {None}
    /\ answer \in [to : Clients \cup {None}, status : Status, rows : Seq(Rows)]
    /\ page \in Names \cup {None}
    /\ got \in [Names -> Seq(Rows)] /\ calm \in [Names -> BOOLEAN]

NoCache == [entries |-> {}, order |-> <<>>]

NoAnswer == [to |-> None, status |-> "none", rows |-> <<>>]
NoneNamed == [n \in Names |-> None]

Init ==
    /\ table = <<>> /\ disk = <<>> /\ savepoints = <<>>
    /\ cache = NoCache /\ cursors = NoneNamed /\ prepared = NoneNamed
    /\ holder = Free /\ todo = <<>> /\ result = <<>>
    /\ depth = [c \in Clients |-> 0] /\ calls = 0 /\ back = None /\ answer = NoAnswer
    /\ page = None
    /\ got = [n \in Names |-> <<>>] /\ calm = [n \in Names |-> FALSE]

-----------------------------------------------------------------------------
(* The parse cache: first in, first out, exact texts, no failures.         *)
Parses(s) == s.op # "bad"

(* Mutant: a text that is already there is queued again. *)
CachedTwice(s) ==
    [entries |-> cache.entries \cup {s}, order |-> Append(cache.order, s)]

Cached(s) ==
    IF s \in cache.entries \/ ~Parses(s) THEN cache
    ELSE IF Cardinality(cache.entries) < Capacity
    THEN [entries |-> cache.entries \cup {s}, order |-> Append(cache.order, s)]
    ELSE [entries |-> (cache.entries \ {Head(cache.order)}) \cup {s},
          order |-> Append(Tail(cache.order), s)]

(* LIMIT and OFFSET of a page's text. *)
Rest(from) == SubSeq(table, from + 1, Len(table))
Slice(n, from) == SubSeq(Rest(from), 1, IF n < Len(Rest(from)) THEN n ELSE Len(Rest(from)))

-----------------------------------------------------------------------------
(* Answers: records of a status and rows.                                  *)
Ok(rows) == [status |-> "ok", rows |-> rows]
Failed == [status |-> "error", rows |-> <<>>]
Panicked == [status |-> "panic", rows |-> <<>>]
TooLarge == [status |-> "too_large", rows |-> <<>>]
Fits(a) == Len(a.rows) < OutputBuf

(* dispatch_inner's own guard: plain SQL only, whoever called.             *)
Guarded(c, a) == IF depth[c] = 1 /\ ~Fits(a) THEN TooLarge ELSE a

(* serve_client writes any answer; RVExtension, and RVExtensionArgs with   *)
(* any function but "sql", put write_response between, which replaces one  *)
(* that does not fit the buffer.  The function "sql" answers through the   *)
(* arma-rs library and is not modelled.                                    *)
Delivered(c, a) == IF c \in Game /\ ~Fits(a) THEN TooLarge ELSE a

(* The request of c is over.  A page that was not delivered whole disturbs *)
(* its cursor.                                                             *)
Reply(c, a) ==
    LET d == Delivered(c, a) IN
    /\ holder' = Free /\ page' = None
    /\ answer' = [to |-> c, status |-> d.status, rows |-> d.rows]
    /\ IF page = None THEN UNCHANGED <<got, calm>>
       ELSE /\ got' = [got EXCEPT ![page] = @ \o d.rows]
            /\ calm' = [calm EXCEPT ![page] = @ /\ d.status = "ok"]

(* Mutant: the depth is counted down at the end, not by a drop guard. *)
DropUnlessPanic(c, a) == [depth EXCEPT ![c] = IF a.status = "panic" THEN @ ELSE @ - 1]

(* Mutant: the error path counts down, and so does the guard. *)
DropTwice(c, a) == [depth EXCEPT ![c] = IF a.status = "error" THEN @ - 2 ELSE @ - 1]

(* DepthGuard is dropped on every way out, a panic's unwinding included.   *)
Drop(c, a) == [depth EXCEPT ![c] = @ - 1]

(* One call of dispatch_inner is left, and its guard with it: the outer    *)
(* one hears the answer first, if there is one.                            *)
Return(c, a) ==
    /\ depth' = Drop(c, a)
    /\ calls' = calls - 1
    /\ todo' = <<>> /\ result' = <<>>
    /\ IF calls = 1 THEN back' = None /\ Reply(c, a)
                    ELSE back' = a /\ UNCHANGED <<holder, answer, page, got, calm>>

-----------------------------------------------------------------------------
(* Statements.                                                             *)
Missing(s) == table = None /\ s.op \in {"insert", "delete", "select", "drop"}
Duplicate(s) == s.op = "insert" /\ table # None /\ s.arg \in ToSet(table)
Refuses(s) ==
    \/ ~Parses(s) \/ Missing(s) \/ Duplicate(s)
    \/ s.op = "create" /\ table # None
    \/ s.op = "commit" /\ savepoints = <<>>

(* The table has a key: at most one row is deleted. *)
Deleted(r) ==
    IF r \in ToSet(table)
    THEN RemoveAt(table, CHOOSE i \in DOMAIN table : table[i] = r) ELSE table

Written(s) ==
    CASE s.op = "insert" -> Append(table, s.arg)
      [] s.op = "delete" -> Deleted(s.arg)
      [] s.op = "create" -> <<>>
      [] s.op = "drop"   -> None
      [] s.op = "rollback" /\ savepoints # <<>> -> Last(savepoints)
      [] OTHER -> table

Stacked(s) ==
    CASE s.op = "begin" -> Append(savepoints, table)
      [] s.op \in {"commit", "rollback"} /\ savepoints # <<>> -> Front(savepoints)
      [] OTHER -> savepoints

Selected(s) ==
    IF s.op # "select" THEN <<>>
    ELSE IF s.arg = <<>> THEN table ELSE Slice(s.arg[1], s.arg[2])

Disturbed == [n \in Names |-> calm[n] /\ table' = table]

Runs(c) == holder = c /\ back = None

(* One statement of the batch, parsed through the cache.                   *)
Execute(c) ==
    /\ Runs(c) /\ todo # <<>> /\ ~Refuses(Head(todo)) /\ Head(todo).op # "panic"
    /\ Len(Stacked(Head(todo))) <= MaxDepth
    /\ cache' = Cached(Head(todo))
    /\ table' = Written(Head(todo)) /\ savepoints' = Stacked(Head(todo))
    /\ result' = result \o Selected(Head(todo))
    /\ todo' = Tail(todo)
    /\ calm' = Disturbed
    /\ UNCHANGED <<cursors, prepared, holder, thread, answer, disk, page, got>>

(* The first error ends the batch; what came before it stays.              *)
StatementFails(c) ==
    /\ Runs(c) /\ todo # <<>> /\ Refuses(Head(todo))
    /\ cache' = Cached(Head(todo))
    /\ Return(c, Failed)
    /\ UNCHANGED <<store, cursors, prepared, disk>>

(* The unwinding drops one guard after the other and releases the mutex;   *)
(* the next caller ignores the poison.                                     *)
StatementPanics(c) ==
    /\ Runs(c) /\ todo # <<>> /\ Head(todo).op = "panic"
    /\ cache' = Cached(Head(todo))
    /\ Return(c, Panicked)
    /\ UNCHANGED <<store, cursors, prepared, disk>>

BatchDone(c) ==
    /\ Runs(c) /\ todo = <<>>
    /\ Return(c, Guarded(c, Ok(result)))
    /\ UNCHANGED <<store, cache, cursors, prepared, disk>>

(* The outer call passes on what the inner one has answered.               *)
CommandReturns(c) ==
    /\ holder = c /\ back # None
    /\ Return(c, back)
    /\ UNCHANGED <<store, cache, cursors, prepared, disk>>

-----------------------------------------------------------------------------
(* Requests.  Take is the mutex and n calls of dispatch_inner, one in the  *)
(* other; each counts its level.                                           *)
Take(c, batch, n) ==
    /\ holder = Free
    /\ holder' = c /\ depth' = [depth EXCEPT ![c] = @ + n] /\ calls' = n
    /\ todo' = batch /\ result' = <<>>
    /\ UNCHANGED back

(* A command is one only for a call that finds itself the outermost; else  *)
(* its text goes to the SQL parser.                                        *)
Outermost(c) == depth[c] = 0

(* A command that runs no statement enters, answers and leaves.            *)
AnswerAtOnce(c, a) ==
    /\ holder = Free /\ Outermost(c)
    /\ answer' = [to |-> c, status |-> a.status, rows |-> a.rows]
    /\ UNCHANGED <<holder, thread, todo, result, page>>

Send(c, batch) ==
    /\ Take(c, batch, 1)
    /\ UNCHANGED <<store, cache, cursors, prepared, answer, disk, ghosts>>

(* Names are stored in lower case; FETCH alone looks them up as given.     *)
CreateCursor(c, n, q) ==
    /\ AnswerAtOnce(c, Ok(<<>>))
    /\ cursors' = [cursors EXCEPT ![Lower[n]] = [sql |-> q, offset |-> 0]]
    /\ got' = [got EXCEPT ![Lower[n]] = <<>>]
    /\ calm' = [calm EXCEPT ![Lower[n]] = TRUE]
    /\ UNCHANGED <<store, cache, prepared, disk>>

(* Mutant: the cursor moves on by its page size, whatever limit was given. *)
MovedByPageSize(n, limit) == [cursors EXCEPT ![n].offset = @ + 1]

(* The offset has moved on before the page's query runs.                   *)
MovedOn(n, limit) == [cursors EXCEPT ![n].offset = @ + limit]

Fetch(c, n, limit) ==
    /\ cursors[n] # None /\ cursors[n].offset + limit <= MaxOffset
    /\ Outermost(c)
    /\ Take(c, <<Page(cursors[n].sql, limit, cursors[n].offset)>>, 2)
    /\ cursors' = MovedOn(n, limit)
    /\ page' = n
    /\ UNCHANGED <<store, cache, prepared, answer, disk, got, calm>>

FetchUnknown(c, n) ==
    /\ cursors[n] = None
    /\ AnswerAtOnce(c, Failed)
    /\ UNCHANGED <<store, cache, cursors, prepared, disk, got, calm>>

DropCursor(c, n) ==
    /\ AnswerAtOnce(c, IF cursors[Lower[n]] = None THEN Failed ELSE Ok(<<>>))
    /\ cursors' = [cursors EXCEPT ![Lower[n]] = None]
    /\ UNCHANGED <<store, cache, prepared, disk, got, calm>>

Prepare(c, n, op) ==
    /\ AnswerAtOnce(c, Ok(<<>>))
    /\ prepared' = [prepared EXCEPT ![Lower[n]] = op]
    /\ UNCHANGED <<store, cache, cursors, disk, got, calm>>

ExecutePrepared(c, n, r) ==
    /\ prepared[Lower[n]] # None
    /\ Outermost(c)
    /\ Take(c, <<Stmt(prepared[Lower[n]], r)>>, 2)
    /\ UNCHANGED <<store, cache, cursors, prepared, answer, disk, ghosts>>

ExecuteUnknown(c, n) ==
    /\ prepared[Lower[n]] = None
    /\ AnswerAtOnce(c, Failed)
    /\ UNCHANGED <<store, cache, cursors, prepared, disk, got, calm>>

(* What a Database forgets when it is cleared or replaced.                 *)
Forget ==
    /\ cache' = NoCache /\ cursors' = NoneNamed /\ prepared' = NoneNamed
    /\ calm' = [n \in Names |-> FALSE] /\ got' = [n \in Names |-> <<>>]

(* Database::clear: the snapshots stay.                                    *)
Reset(c) ==
    /\ AnswerAtOnce(c, Ok(<<>>)) /\ Forget
    /\ table' = None
    /\ UNCHANGED <<savepoints, disk>>

(* LOAD puts a fresh Database in the place of the old one.                 *)
Load(c) ==
    /\ AnswerAtOnce(c, Ok(<<>>)) /\ Forget
    /\ table' = disk /\ savepoints' = <<>>
    /\ UNCHANGED disk

Request(c) ==
    \/ \E batch \in Batches : Send(c, batch)
    \/ \E n \in Names, q \in {Select, Bad} : CreateCursor(c, n, q)
    \/ \E n \in Names, limit \in Limits : Fetch(c, n, limit)
    \/ \E n \in Names : FetchUnknown(c, n) \/ DropCursor(c, n) \/ ExecuteUnknown(c, n)
    \/ \E n \in Names, op \in Templates : Prepare(c, n, op)
    \/ \E n \in Names, r \in Params : ExecutePrepared(c, n, r)
    \/ Reset(c) \/ Load(c)

Run(c) == Execute(c) \/ StatementFails(c) \/ StatementPanics(c) \/ BatchDone(c) \/ CommandReturns(c)

-----------------------------------------------------------------------------
(* Mutant: the autosave does not wait for the mutex. *)
AnyTime == TRUE

(* The autosave thread takes the mutex like everybody else.                *)
Unlocked == holder = Free

Autosave ==
    /\ Unlocked
    /\ disk' = table
    /\ UNCHANGED <<store, cache, cursors, prepared, holder, todo, result, thread,
                   answer, ghosts>>

(* The process dies, and the next one starts on what the disk has.         *)
Crash ==
    /\ Forget
    /\ table' = disk /\ savepoints' = <<>>
    /\ holder' = Free /\ todo' = <<>> /\ result' = <<>> /\ page' = None
    /\ depth' = [c \in Clients |-> 0] /\ calls' = 0 /\ back' = None /\ answer' = NoAnswer
    /\ UNCHANGED disk

Next ==
    \/ \E c \in Clients : Request(c) \/ Run(c)
    \/ Autosave \/ Crash

Spec == Init /\ [][Next]_vars

-----------------------------------------------------------------------------
(* The parse cache's map and its queue hold the same texts, each once, no  *)
(* more than its capacity, and none that does not parse (sql_cache.rs).    *)
CacheAgrees ==
    /\ ToSet(cache.order) = cache.entries /\ IsInjective(cache.order)
    /\ Cardinality(cache.entries) <= Capacity
    /\ \A s \in cache.entries : Parses(s)

(* While nobody writes and every page is delivered, the pages of a cursor, *)
(* whoever fetches them with whatever limits, are the result from its      *)
(* start, each row once (handle_cursor_fetch).                             *)
PagesMissNothing ==
    \A n \in Names : cursors[n] # None /\ calm[n] /\ page # n =>
        LET t == IF table = None THEN <<>> ELSE table
        IN  got[n] = IF cursors[n].offset < Len(t)
                     THEN SubSeq(t, 1, cursors[n].offset) ELSE t

(* An answer to a batch that is too large for the game is refused, also to *)
(* a TCP client: this guard looks at answers of outermost calls only, and  *)
(* errors and panics of the thread's earlier requests, in two nested calls *)
(* too, may not make a batch look like a nested call (DepthGuard).         *)
LargeBatchesRefused ==
    [][holder # Free /\ holder' = Free /\ back = None /\ answer'.status = "ok"
         => Len(answer'.rows) < OutputBuf]_vars

(* Rows that every batch inserts or deletes together are together for      *)
(* everybody else: on disk, after a restart, in the snapshots, and in      *)
(* memory whenever the mutex is free (exec_sql_statements, autosave).      *)
Together(t) == t = None \/ Pair \subseteq ToSet(t) \/ Pair \cap ToSet(t) = {}
PairsTogether ==
    /\ Together(disk) /\ \A i \in DOMAIN savepoints : Together(savepoints[i])
    /\ holder = Free => Together(table)

-----------------------------------------------------------------------------
(* Premise.  Nothing but the clients' own batches keeps rows together: a   *)
(* batch is no transaction, and its first error leaves what came before.   *)
(* A statement that writes a paired row must stand in a run of them, one   *)
(* for each row of Pair, all inserting or all deleting.                    *)
Paired(s) == s.op \in {"insert", "delete"} /\ s.arg \in Pair
IsRun(t, n) ==
    /\ \A i \in 1 .. n : Paired(t[i]) /\ t[i].op = t[1].op
    /\ {t[i].arg : i \in 1 .. n} = Pair
    /\ \A i, j \in 1 .. n : t[i].arg = t[j].arg => i = j

Leftovers == UNION {Suffixes(batch) : batch \in Batches}
PairedBatches ==
    \E W \in SUBSET Leftovers :
        /\ Batches \subseteq W
        /\ \A t \in W : \/ t = <<>>
                        \/ ~Paired(Head(t)) /\ Tail(t) \in W
                        \/ \E n \in 1 .. Len(t) : IsRun(t, n) /\ SubSeq(t, n + 1, Len(t)) \in W
=============================================================================
