--------------------------- MODULE SessionsProofs ---------------------------
(***************************************************************************)
(* Requests and their answers for any clients, batches, names, limits and  *)
(* sizes: types, the parse cache, answers that are too large, the pages of *)
(* cursors, and rows kept in pairs.                                        *)
(***************************************************************************)
EXTENDS Sessions, FiniteSetTheorems, TLAPS

LEMMA PlainStatements ==
    /\ Plain \subseteq Statement
    /\ \A r \in Rows : Stmt("insert", r) \in Plain /\ Stmt("delete", r) \in Plain
    /\ Select \in Plain /\ Bad \in Plain
BY DEF Plain, Statement, Select, Bad

LEMMA StatementArgs ==
    ASSUME NEW s \in Statement
    PROVE  /\ s.op \in {"insert", "delete"} => s.arg \in Rows
           /\ s.op = "select" => \/ s.arg = <<>>
                                 \/ \E n \in Limits, from \in 0 .. MaxOffset : s.arg = <<n, from>>
<1>1. CASE s \in Plain
  BY <1>1 DEF Plain, Stmt
<1>2. CASE \E q \in {Select, Bad}, n \in Limits, from \in 0 .. MaxOffset : s = Page(q, n, from)
  BY <1>2 DEF Page, Stmt, Select, Bad
<1> QED
  BY <1>1, <1>2 DEF Statement

\* A page is a part of the table.
LEMMA SliceTyped ==
    ASSUME table \in Seq(Rows), NEW n \in Nat, NEW from \in Nat
    PROVE  Slice(n, from) \in Seq(Rows)
<1>1. Rest(from) \in Seq(Rows)
  BY DEF Rest
<1> DEFINE k == IF n < Len(Rest(from)) THEN n ELSE Len(Rest(from))
<1>2. k \in 0 .. Len(Rest(from)) /\ Len(Rest(from)) \in Nat
  BY <1>1
<1> HIDE DEF k
<1>3. SubSeq(Rest(from), 1, k) \in Seq(Rows)
  BY <1>1, <1>2
<1> QED
  BY <1>3 DEF Slice, k

LEMMA StatementEffects ==
    ASSUME TypeOK, NEW s \in Statement, ~Refuses(s)
    PROVE  /\ Written(s) \in Content
           /\ Stacked(s) \in Seq(Content)
           /\ Selected(s) \in Seq(Rows)
<1>1. table \in Content /\ savepoints \in Seq(Content)
  BY DEF TypeOK
<1>2. s.op \in {"insert", "delete", "select", "drop"} => table \in Seq(Rows)
  BY <1>1 DEF Refuses, Missing, Content
<1>3. Written(s) \in Content
  <2>1. CASE s.op = "insert"
    <3>1. Append(table, s.arg) \in Seq(Rows)
      BY <1>2, <2>1, StatementArgs
    <3> QED
      BY <2>1, <3>1 DEF Written, Content
  <2>2. CASE s.op = "delete"
    <3>1. Deleted(s.arg) \in Seq(Rows)
      <4>1. CASE s.arg \in ToSet(table)
        <5> DEFINE i == CHOOSE i \in DOMAIN table : table[i] = s.arg
        <5>1. i \in 1 .. Len(table) /\ Len(table) \in Nat
          BY <1>2, <2>2, <4>1 DEF ToSet
        <5> HIDE DEF i
        <5>2. SubSeq(table, 1, i - 1) \in Seq(Rows) /\ SubSeq(table, i + 1, Len(table)) \in Seq(Rows)
          BY <1>2, <2>2, <5>1
        <5>3. RemoveAt(table, i) \in Seq(Rows)
          BY <5>2 DEF RemoveAt
        <5> QED
          BY <4>1, <5>3 DEF Deleted, i
      <4>2. CASE s.arg \notin ToSet(table)
        BY <1>2, <2>2, <4>2 DEF Deleted
      <4> QED
        BY <4>1, <4>2
    <3> QED
      BY <2>2, <3>1 DEF Written, Content
  <2>3. CASE s.op = "rollback" /\ savepoints # <<>>
    <3>1. savepoints[Len(savepoints)] \in Content
      BY <1>1, <2>3
    <3> QED
      BY <2>3, <3>1 DEF Written, Last
  <2>4. CASE s.op = "create"
    <3>1. <<>> \in Seq(Rows)
      OBVIOUS
    <3> QED
      BY <2>4, <3>1 DEF Written, Content
  <2>5. CASE s.op \notin {"insert", "delete", "create"} /\ ~(s.op = "rollback" /\ savepoints # <<>>)
    BY <1>1, <2>5 DEF Written, Content
  <2> QED
    BY <2>1, <2>2, <2>3, <2>4, <2>5
<1>4. Stacked(s) \in Seq(Content)
  <2>1. Append(savepoints, table) \in Seq(Content)
    BY <1>1
  <2>2. savepoints # <<>> => Front(savepoints) \in Seq(Content)
    BY <1>1 DEF Front
  <2> QED
    BY <1>1, <2>1, <2>2 DEF Stacked
<1>5. Selected(s) \in Seq(Rows)
  <2>1. CASE s.op = "select" /\ s.arg # <<>>
    <3>1. PICK n \in Limits, from \in 0 .. MaxOffset : s.arg = <<n, from>>
      BY <2>1, StatementArgs
    <3>2. n \in Nat /\ from \in Nat
      BY SessionsAssumption
    <3>3. Slice(n, from) \in Seq(Rows)
      BY <1>2, <2>1, <3>2, SliceTyped
    <3> QED
      BY <2>1, <3>1, <3>3 DEF Selected
  <2>2. CASE ~(s.op = "select" /\ s.arg # <<>>)
    BY <1>2, <2>2 DEF Selected
  <2> QED
    BY <2>1, <2>2
<1> QED
  BY <1>3, <1>4, <1>5

-----------------------------------------------------------------------------
(* The parse cache.                                                        *)
CacheOk ==
    /\ cache.entries \subseteq Statement /\ cache.order \in Seq(Statement)
    /\ IsFiniteSet(cache.entries) /\ CacheAgrees

LEMMA AppendedSet ==
    ASSUME NEW X, NEW o \in Seq(X), NEW x \in X
    PROVE  ToSet(Append(o, x)) = ToSet(o) \cup {x}
<1>1. /\ Len(o) \in Nat /\ DOMAIN o = 1 .. Len(o) /\ DOMAIN Append(o, x) = 1 .. Len(o) + 1
      /\ \A i \in 1 .. Len(o) : Append(o, x)[i] = o[i]
      /\ Append(o, x)[Len(o) + 1] = x
  OBVIOUS
<1>2. \A i \in 1 .. Len(o) + 1 : i \in 1 .. Len(o) \/ i = Len(o) + 1
  BY <1>1
<1>3. \A i \in 1 .. Len(o) : i \in 1 .. Len(o) + 1
  BY <1>1
<1>4. Len(o) + 1 \in 1 .. Len(o) + 1
  BY <1>1
<1> QED
  BY <1>1, <1>2, <1>3, <1>4 DEF ToSet

LEMMA CacheKept ==
    ASSUME CacheOk, NEW s \in Statement, cache' = Cached(s)
    PROVE  CacheOk'
<1> DEFINE e == cache.entries
           o == cache.order
<1>1. /\ e \subseteq Statement /\ o \in Seq(Statement) /\ IsFiniteSet(e)
      /\ ToSet(o) = e /\ IsInjective(o) /\ Cardinality(e) <= Capacity
      /\ (\A x \in e : Parses(x)) /\ Cardinality(e) \in Nat /\ Capacity \in Nat \ {0}
  BY FS_CardinalityType, SessionsAssumption DEF CacheOk, CacheAgrees
<1>2. CASE s \in e \/ ~Parses(s)
  <2>1. cache' = cache
    BY <1>2 DEF Cached
  <2> QED
    BY <2>1 DEF CacheOk, CacheAgrees
<1>3. CASE s \notin e /\ Parses(s) /\ Cardinality(e) < Capacity
  <2>1. cache'.entries = e \cup {s} /\ cache'.order = Append(o, s)
    BY <1>3 DEF Cached
  <2>2. ToSet(Append(o, s)) = e \cup {s}
    BY <1>1, AppendedSet
  <2>3. IsInjective(Append(o, s))
    BY <1>1, <1>3 DEF ToSet, IsInjective
  <2>4. IsFiniteSet(e \cup {s}) /\ Cardinality(e \cup {s}) <= Capacity
    <3>1. IsFiniteSet(e \cup {s}) /\ Cardinality(e \cup {s}) = Cardinality(e) + 1
      BY <1>1, <1>3, FS_AddElement
    <3> QED
      BY <1>1, <1>3, <3>1
  <2> QED
    BY <1>1, <1>3, <2>1, <2>2, <2>3, <2>4 DEF CacheOk, CacheAgrees
<1>4. CASE s \notin e /\ Parses(s) /\ ~(Cardinality(e) < Capacity)
  <2> DEFINE h == Head(o)
             d == (e \ {h}) \cup {s}
  <2>1. cache'.entries = d /\ cache'.order = Append(Tail(o), s)
    BY <1>4 DEF Cached
  <2>2. o # <<>>
    <3>1. ASSUME o = <<>> PROVE FALSE
      <4>1. e = {}
        BY <1>1, <3>1 DEF ToSet
      <4> QED
        BY <1>1, <1>4, <4>1, FS_EmptySet
    <3> QED
      BY <3>1
  <2>3. /\ h = o[1] /\ Len(o) \in Nat \ {0} /\ Len(Tail(o)) = Len(o) - 1 /\ Tail(o) \in Seq(Statement)
        /\ \A i \in 1 .. Len(o) - 1 : Tail(o)[i] = o[i + 1]
    BY <1>1, <2>2
  <2>4. h \in e
    BY <1>1, <2>3 DEF ToSet
  <2>5. ToSet(Tail(o)) = e \ {h} /\ IsInjective(Tail(o))
    <3>1. DOMAIN Tail(o) = 1 .. Len(o) - 1
      BY <2>3
    <3>2. \A x \in ToSet(Tail(o)) : x \in e \ {h}
      <4> SUFFICES ASSUME NEW i \in 1 .. Len(o) - 1 PROVE Tail(o)[i] \in e \ {h}
        BY <3>1 DEF ToSet
      <4>1. i + 1 \in DOMAIN o /\ i + 1 # 1 /\ 1 \in DOMAIN o
        BY <1>1, <2>3
      <4> QED
        BY <1>1, <2>3, <4>1 DEF ToSet, IsInjective
    <3>3. \A x \in e \ {h} : x \in ToSet(Tail(o))
      <4> SUFFICES ASSUME NEW x \in e \ {h} PROVE \E i \in 1 .. Len(o) - 1 : Tail(o)[i] = x
        BY <3>1 DEF ToSet
      <4>1. PICK j \in 1 .. Len(o) : o[j] = x
        BY <1>1 DEF ToSet
      <4>2. j # 1
        BY <2>3, <4>1
      <4>3. j - 1 \in 1 .. Len(o) - 1 /\ (j - 1) + 1 = j
        BY <2>3, <4>2
      <4> QED
        BY <2>3, <4>1, <4>3
    <3>4. \A i, j \in 1 .. Len(o) - 1 : Tail(o)[i] = Tail(o)[j] => i = j
      <4> SUFFICES ASSUME NEW i \in 1 .. Len(o) - 1, NEW j \in 1 .. Len(o) - 1, Tail(o)[i] = Tail(o)[j]
                   PROVE  i = j
        OBVIOUS
      <4>1. o[i + 1] = o[j + 1] /\ i + 1 \in DOMAIN o /\ j + 1 \in DOMAIN o
        BY <1>1, <2>3
      <4>2. i + 1 = j + 1
        BY <1>1, <4>1 DEF IsInjective
      <4> QED
        BY <4>2
    <3> QED
      BY <3>1, <3>2, <3>3, <3>4 DEF IsInjective
  <2>6. ToSet(Append(Tail(o), s)) = d
    <3>1. ToSet(Append(Tail(o), s)) = ToSet(Tail(o)) \cup {s}
      <4> DEFINE t == Tail(o)
      <4>1. t \in Seq(Statement)
        BY <2>3
      <4> HIDE DEF t
      <4>2. ToSet(Append(t, s)) = ToSet(t) \cup {s}
        BY <4>1, AppendedSet
      <4> QED
        BY <4>2 DEF t
    <3> QED
      BY <2>5, <3>1
  <2>7. IsInjective(Append(Tail(o), s))
    BY <1>4, <2>3, <2>5 DEF ToSet, IsInjective
  <2>8. IsFiniteSet(d) /\ Cardinality(d) <= Capacity
    <3>1. IsFiniteSet(e \ {h}) /\ Cardinality(e \ {h}) = Cardinality(e) - 1
      BY <1>1, <2>4, FS_RemoveElement
    <3>2. IsFiniteSet(d) /\ Cardinality(d) = Cardinality(e)
      <4>1. s \notin e \ {h}
        BY <1>4
      <4>2. IsFiniteSet(d) /\ Cardinality(d) = Cardinality(e \ {h}) + 1
        BY <3>1, <4>1, FS_AddElement
      <4> QED
        BY <1>1, <3>1, <4>2
    <3> QED
      BY <1>1, <3>2
  <2> QED
    BY <1>1, <1>4, <2>1, <2>3, <2>6, <2>7, <2>8 DEF CacheOk, CacheAgrees
<1> QED
  BY <1>2, <1>3, <1>4

-----------------------------------------------------------------------------
(* Types.                                                                  *)
Answers == [status : Status, rows : Seq(Rows)]

LEMMA AnswersTyped ==
    /\ Failed \in Answers /\ Panicked \in Answers /\ TooLarge \in Answers
    /\ \A rs \in Seq(Rows) : Ok(rs) \in Answers
    /\ Len(Failed.rows) = 0 /\ Len(TooLarge.rows) = 0 /\ Len(Ok(<<>>).rows) = 0
    /\ <<>> \in Seq(Rows)
    /\ \A c \in Clients : \A a \in Answers : Delivered(c, a) \in Answers /\ Guarded(c, a) \in Answers
<1>1. <<>> \in Seq(Rows) /\ Len(<<>>) = 0
  OBVIOUS
<1>2. /\ Failed \in Answers /\ Panicked \in Answers /\ TooLarge \in Answers
      /\ \A rs \in Seq(Rows) : Ok(rs) \in Answers
  BY <1>1 DEF Failed, Panicked, TooLarge, Ok, Answers, Status
<1>3. Len(Failed.rows) = 0 /\ Len(TooLarge.rows) = 0 /\ Len(Ok(<<>>).rows) = 0
  BY <1>1 DEF Failed, TooLarge, Ok
<1> QED
  BY <1>1, <1>2, <1>3 DEF Delivered, Guarded

LEMMA ReplyTyped ==
    ASSUME TypeOK, NEW c \in Clients, NEW a \in Answers, Reply(c, a)
    PROVE  /\ holder' \in Clients \cup {Free} /\ page' \in Names \cup {None}
           /\ answer' \in [to : Clients \cup {None}, status : Status, rows : Seq(Rows)]
           /\ got' \in [Names -> Seq(Rows)] /\ calm' \in [Names -> BOOLEAN]
<1> DEFINE d == Delivered(c, a)
<1>1. d.status \in Status /\ d.rows \in Seq(Rows)
  BY AnswersTyped DEF Answers
<1> HIDE DEF d
<1>2. /\ holder' = Free /\ page' = None
      /\ answer' = [to |-> c, status |-> d.status, rows |-> d.rows]
      /\ IF page = None THEN UNCHANGED <<got, calm>>
         ELSE /\ got' = [got EXCEPT ![page] = @ \o d.rows]
              /\ calm' = [calm EXCEPT ![page] = @ /\ d.status = "ok"]
  BY DEF Reply, d
<1>3. got' \in [Names -> Seq(Rows)] /\ calm' \in [Names -> BOOLEAN]
  <2>1. CASE page = None
    BY <1>2, <2>1 DEF TypeOK
  <2>2. CASE page # None
    <3>1. page \in Names /\ got[page] \o d.rows \in Seq(Rows)
      BY <1>1, <2>2 DEF TypeOK
    <3>2. got' \in [Names -> Seq(Rows)]
      BY <1>2, <2>2, <3>1 DEF TypeOK
    <3>3. calm' \in [Names -> BOOLEAN]
      BY <1>2, <2>2, <3>1 DEF TypeOK
    <3> QED
      BY <3>2, <3>3
  <2> QED
    BY <2>1, <2>2
<1> QED
  BY <1>1, <1>2, <1>3 DEF TypeOK

\* A thread's depth is the number of its calls of dispatch_inner that are not
\* over, and 0 when there is none.
DepthReturns ==
    \A c \in Clients : depth[c] = IF holder = c THEN calls ELSE 0

\* The calls of dispatch_inner on the stack of the mutex's holder, and what
\* the inner one left for the outer one.
Levels ==
    /\ DepthReturns
    /\ IF holder = Free THEN back = None ELSE calls \in {1, 2}
    /\ back # None => todo = <<>>

\* A guard is dropped.
LEMMA ReturnTyped ==
    ASSUME TypeOK, Levels, NEW c \in Clients, NEW a \in Answers, holder = c, Return(c, a)
    PROVE  /\ holder' \in Clients \cup {Free} /\ page' \in Names \cup {None}
           /\ todo' \in Seq(Statement) /\ result' \in Seq(Rows)
           /\ depth' \in [Clients -> Nat] /\ calls' \in Nat /\ back' \in Answers \cup {None}
           /\ answer' \in [to : Clients \cup {None}, status : Status, rows : Seq(Rows)]
           /\ got' \in [Names -> Seq(Rows)] /\ calm' \in [Names -> BOOLEAN]
<1>1. c # Free /\ <<>> \in Seq(Rows) /\ <<>> \in Seq(Statement)
  BY SessionsAssumption
<1>2. /\ depth' = [depth EXCEPT ![c] = @ - 1] /\ calls' = calls - 1
      /\ todo' = <<>> /\ result' = <<>>
      /\ IF calls = 1 THEN back' = None /\ Reply(c, a)
                      ELSE back' = a /\ UNCHANGED <<holder, page, answer, got, calm>>
  BY DEF Return, Drop
<1>3. calls \in {1, 2} /\ depth[c] = calls /\ depth \in [Clients -> Nat]
  BY <1>1 DEF Levels, DepthReturns, TypeOK
<1>4. depth' \in [Clients -> Nat] /\ calls' \in Nat
  BY <1>2, <1>3
<1>5. CASE calls = 1
  BY <1>1, <1>2, <1>4, <1>5, ReplyTyped
<1>6. CASE calls # 1
  BY <1>1, <1>2, <1>4, <1>6 DEF TypeOK
<1> QED
  BY <1>5, <1>6

\* A batch, a page or a prepared statement takes the mutex.
LEMMA TakeTyped ==
    ASSUME TypeOK, NEW c \in Clients, NEW batch \in Seq(Statement), NEW n \in {1, 2}, Take(c, batch, n)
    PROVE  /\ holder' \in Clients \cup {Free} /\ todo' \in Seq(Statement) /\ result' \in Seq(Rows)
           /\ depth' \in [Clients -> Nat] /\ calls' \in Nat /\ back' = back
<1>1. n \in Nat /\ <<>> \in Seq(Rows)
  OBVIOUS
<1>2. depth' \in [Clients -> Nat]
  BY <1>1 DEF Take, TypeOK
<1> QED
  BY <1>1, <1>2 DEF Take

LEMMA OneTyped == ASSUME NEW X, NEW x \in X PROVE <<x>> \in Seq(X)
OBVIOUS

LEMMA AtOnceTyped ==
    ASSUME TypeOK, NEW c \in Clients, NEW a \in Answers, AnswerAtOnce(c, a)
    PROVE  /\ holder' \in Clients \cup {Free} /\ todo' \in Seq(Statement) /\ result' \in Seq(Rows)
           /\ UNCHANGED <<depth, calls, back>> /\ page' \in Names \cup {None}
           /\ answer' \in [to : Clients \cup {None}, status : Status, rows : Seq(Rows)]
BY DEF AnswerAtOnce, TypeOK, Answers, thread

LEMMA ForgetTyped ==
    ASSUME Forget
    PROVE  /\ cursors' \in [Names -> {None} \cup [sql : {Select, Bad}, offset : Nat]]
           /\ prepared' \in [Names -> Templates \cup {None}]
           /\ got' \in [Names -> Seq(Rows)] /\ calm' \in [Names -> BOOLEAN]
           /\ CacheOk'
<1>1. cache' = NoCache
  BY DEF Forget
<1>2. CacheOk'
  <2>1. /\ ToSet(<<>>) = {} /\ IsInjective(<<>>) /\ Cardinality({}) = 0 /\ IsFiniteSet({})
        /\ <<>> \in Seq(Statement)
    BY FS_EmptySet DEF ToSet, IsInjective
  <2> QED
    BY <1>1, <2>1, SessionsAssumption DEF NoCache, CacheOk, CacheAgrees
<1>3. <<>> \in Seq(Rows)
  OBVIOUS
<1> QED
  BY <1>2, <1>3 DEF Forget, NoneNamed

\* What the types and the cache amount to, part by part.
LEMMA Typing == TypeOK /\ CacheOk <=>
    /\ table \in Content /\ disk \in Content /\ savepoints \in Seq(Content)
    /\ CacheOk
    /\ cursors \in [Names -> {None} \cup [sql : {Select, Bad}, offset : Nat]]
    /\ prepared \in [Names -> Templates \cup {None}]
    /\ holder \in Clients \cup {Free} /\ todo \in Seq(Statement) /\ result \in Seq(Rows)
    /\ depth \in [Clients -> Nat] /\ calls \in Nat /\ back \in Answers \cup {None}
    /\ answer \in [to : Clients \cup {None}, status : Status, rows : Seq(Rows)]
    /\ page \in Names \cup {None}
    /\ got \in [Names -> Seq(Rows)] /\ calm \in [Names -> BOOLEAN]
BY DEF TypeOK, CacheOk, Answers

LEMMA TypeStep == TypeOK /\ CacheOk /\ Levels /\ [Next]_vars => (TypeOK /\ CacheOk)'
<1> SUFFICES ASSUME TypeOK, CacheOk, Levels, [Next]_vars PROVE (TypeOK /\ CacheOk)'
  OBVIOUS
<1> USE DEF store, thread, ghosts
<1>1. ASSUME NEW c \in Clients, NEW batch \in Batches, Send(c, batch) PROVE (TypeOK /\ CacheOk)'
  <2>1. batch \in Seq(Plain)
    BY SessionsAssumption
  <2>2. batch \in Seq(Statement) /\ 1 \in {1, 2}
    BY <2>1, PlainStatements
  <2>3. Take(c, batch, 1)
    BY <1>1 DEF Send
  <2>4. UNCHANGED <<table, savepoints, cache, cursors, prepared, answer, disk, page, got, calm>>
    BY <1>1 DEF Send
  <2> QED
    BY <2>2, <2>3, <2>4, TakeTyped DEF TypeOK, CacheOk, CacheAgrees
<1>2. ASSUME NEW c \in Clients, NEW n \in Names, NEW q \in {Select, Bad}, CreateCursor(c, n, q)
      PROVE  (TypeOK /\ CacheOk)'
  <2>1. AnswerAtOnce(c, Ok(<<>>)) /\ Ok(<<>>) \in Answers
    BY <1>2, AnswersTyped DEF CreateCursor
  <2>2. Lower[n] \in Names /\ 0 \in Nat /\ <<>> \in Seq(Rows)
    BY SessionsAssumption
  <2>3. /\ cursors' \in [Names -> {None} \cup [sql : {Select, Bad}, offset : Nat]]
        /\ got' \in [Names -> Seq(Rows)] /\ calm' \in [Names -> BOOLEAN]
    BY <1>2, <2>2, Typing DEF CreateCursor
  <2>4. UNCHANGED <<table, savepoints, cache, prepared, disk>>
    BY <1>2 DEF CreateCursor
  <2> QED
    BY <2>1, <2>3, <2>4, AtOnceTyped DEF TypeOK, CacheOk, CacheAgrees
<1>3. ASSUME NEW c \in Clients, NEW n \in Names, NEW limit \in Limits, Fetch(c, n, limit)
      PROVE  (TypeOK /\ CacheOk)'
  <2>1. cursors[n] \in [sql : {Select, Bad}, offset : Nat]
    BY <1>3, Typing DEF Fetch
  <2>2. limit \in Nat /\ cursors[n].offset \in 0 .. MaxOffset /\ cursors[n].offset + limit \in Nat
    BY <1>3, <2>1, SessionsAssumption DEF Fetch
  <2>3. Page(cursors[n].sql, limit, cursors[n].offset) \in Statement
    BY <2>1, <2>2 DEF Statement
  <2>4. <<Page(cursors[n].sql, limit, cursors[n].offset)>> \in Seq(Statement) /\ 2 \in {1, 2}
    BY <2>3, OneTyped
  <2>5. Take(c, <<Page(cursors[n].sql, limit, cursors[n].offset)>>, 2)
    BY <1>3 DEF Fetch
  <2>6. cursors' \in [Names -> {None} \cup [sql : {Select, Bad}, offset : Nat]]
    <3>1. cursors' = [cursors EXCEPT ![n].offset = @ + limit]
      BY <1>3 DEF Fetch, MovedOn
    <3>2. [cursors[n] EXCEPT !.offset = @ + limit] \in [sql : {Select, Bad}, offset : Nat]
      BY <2>1, <2>2
    <3> QED
      BY <3>1, <3>2, Typing
  <2>7. page' \in Names \cup {None} /\ UNCHANGED <<table, savepoints, cache, prepared, answer, disk, got, calm>>
    BY <1>3 DEF Fetch
  <2> QED
    BY <2>4, <2>5, <2>6, <2>7, TakeTyped DEF TypeOK, CacheOk, CacheAgrees
<1>4. ASSUME NEW c \in Clients, NEW n \in Names, FetchUnknown(c, n) \/ ExecuteUnknown(c, n)
      PROVE  (TypeOK /\ CacheOk)'
  <2>1. /\ AnswerAtOnce(c, Failed) /\ Failed \in Answers
        /\ UNCHANGED <<table, savepoints, cache, cursors, prepared, disk, got, calm>>
    BY <1>4, AnswersTyped DEF FetchUnknown, ExecuteUnknown
  <2> QED
    BY <2>1, AtOnceTyped DEF TypeOK, CacheOk, CacheAgrees
<1>5. ASSUME NEW c \in Clients, NEW n \in Names, DropCursor(c, n) PROVE (TypeOK /\ CacheOk)'
  <2>1. PICK a \in Answers : AnswerAtOnce(c, a)
    BY <1>5, AnswersTyped DEF DropCursor
  <2>2. cursors' \in [Names -> {None} \cup [sql : {Select, Bad}, offset : Nat]]
    BY <1>5, Typing, SessionsAssumption DEF DropCursor
  <2>3. UNCHANGED <<table, savepoints, cache, prepared, disk, got, calm>>
    BY <1>5 DEF DropCursor
  <2> QED
    BY <2>1, <2>2, <2>3, AtOnceTyped DEF TypeOK, CacheOk, CacheAgrees
<1>6. ASSUME NEW c \in Clients, NEW n \in Names, NEW op \in Templates, Prepare(c, n, op)
      PROVE  (TypeOK /\ CacheOk)'
  <2>1. AnswerAtOnce(c, Ok(<<>>)) /\ Ok(<<>>) \in Answers
    BY <1>6, AnswersTyped DEF Prepare
  <2>2. prepared' \in [Names -> Templates \cup {None}]
    BY <1>6, Typing, SessionsAssumption DEF Prepare
  <2>3. UNCHANGED <<table, savepoints, cache, cursors, disk, got, calm>>
    BY <1>6 DEF Prepare
  <2> QED
    BY <2>1, <2>2, <2>3, AtOnceTyped DEF TypeOK, CacheOk, CacheAgrees
<1>7. ASSUME NEW c \in Clients, NEW n \in Names, NEW r \in Params, ExecutePrepared(c, n, r)
      PROVE  (TypeOK /\ CacheOk)'
  <2> DEFINE s == Stmt(prepared[Lower[n]], r)
  <2>1. prepared[Lower[n]] \in Templates
    BY <1>7, Typing, SessionsAssumption DEF ExecutePrepared
  <2>2. s \in Statement
    BY <2>1, SessionsAssumption, PlainStatements
  <2>3. <<s>> \in Seq(Statement) /\ 2 \in {1, 2}
    BY <2>2, OneTyped
  <2>4. Take(c, <<s>>, 2)
    BY <1>7 DEF ExecutePrepared
  <2>5. UNCHANGED <<table, savepoints, cache, cursors, prepared, answer, disk, page, got, calm>>
    BY <1>7 DEF ExecutePrepared
  <2> QED
    BY <2>3, <2>4, <2>5, TakeTyped DEF TypeOK, CacheOk, CacheAgrees
<1>8. ASSUME NEW c \in Clients, Reset(c) \/ Load(c) PROVE (TypeOK /\ CacheOk)'
  <2>1. AnswerAtOnce(c, Ok(<<>>)) /\ Ok(<<>>) \in Answers /\ Forget
    BY <1>8, AnswersTyped DEF Reset, Load
  <2>2. table' \in Content /\ savepoints' \in Seq(Content) /\ disk' = disk
    <3>1. <<>> \in Seq(Content)
      OBVIOUS
    <3> QED
      BY <1>8, <3>1, Typing DEF Reset, Load, Content
  <2> QED
    BY <2>1, <2>2, AtOnceTyped, ForgetTyped DEF TypeOK, CacheOk
<1>9. ASSUME NEW c \in Clients, Execute(c) PROVE (TypeOK /\ CacheOk)'
  <2> DEFINE s == Head(todo)
  <2>1. /\ s \in Statement /\ Tail(todo) \in Seq(Statement) /\ ~Refuses(s)
        /\ cache' = Cached(s) /\ table' = Written(s) /\ savepoints' = Stacked(s)
        /\ result' = result \o Selected(s) /\ todo' = Tail(todo) /\ calm' = Disturbed
        /\ UNCHANGED <<cursors, prepared, holder, depth, calls, back, answer, disk, page, got>>
    BY <1>9, Typing DEF Execute
  <2> HIDE DEF s
  <2>2. CacheOk'
    BY <2>1, CacheKept
  <2>3. table' \in Content /\ savepoints' \in Seq(Content) /\ result' \in Seq(Rows)
    BY <2>1, StatementEffects, Typing
  <2>4. calm' \in [Names -> BOOLEAN]
    BY <2>1, Typing DEF Disturbed
  <2> QED
    BY <2>1, <2>2, <2>3, <2>4 DEF TypeOK, CacheOk
<1>10. ASSUME NEW c \in Clients, StatementFails(c) \/ StatementPanics(c) PROVE (TypeOK /\ CacheOk)'
  <2>1. PICK a \in Answers : holder = c /\ Return(c, a)
    BY <1>10, AnswersTyped DEF StatementFails, StatementPanics, Runs
  <2>2. /\ Head(todo) \in Statement /\ cache' = Cached(Head(todo))
        /\ UNCHANGED <<table, savepoints, cursors, prepared, disk>>
    BY <1>10, Typing DEF StatementFails, StatementPanics
  <2>3. CacheOk'
    BY <2>2, CacheKept
  <2> QED
    BY <2>1, <2>2, <2>3, ReturnTyped DEF TypeOK, CacheOk, Answers
<1>11. ASSUME NEW c \in Clients, BatchDone(c) \/ CommandReturns(c) PROVE (TypeOK /\ CacheOk)'
  <2>1. PICK a \in Answers : holder = c /\ Return(c, a)
    BY <1>11, AnswersTyped, Typing DEF BatchDone, CommandReturns, Runs
  <2>2. UNCHANGED <<table, savepoints, cache, cursors, prepared, disk>>
    BY <1>11 DEF BatchDone, CommandReturns
  <2> QED
    BY <2>1, <2>2, ReturnTyped DEF TypeOK, CacheOk, CacheAgrees, Answers
<1>12. CASE Autosave
  BY <1>12 DEF Autosave, TypeOK, CacheOk, CacheAgrees
<1>13. CASE Crash
  <2>1. /\ Forget /\ table' = disk /\ savepoints' = <<>> /\ disk' = disk
        /\ holder' = Free /\ todo' = <<>> /\ result' = <<>> /\ page' = None
        /\ depth' = [c \in Clients |-> 0] /\ calls' = 0 /\ back' = None /\ answer' = NoAnswer
    BY <1>13 DEF Crash
  <2>2. <<>> \in Seq(Content) /\ <<>> \in Seq(Statement) /\ <<>> \in Seq(Rows)
    OBVIOUS
  <2>3. answer' \in [to : Clients \cup {None}, status : Status, rows : Seq(Rows)]
    BY <2>1, <2>2 DEF NoAnswer, Status
  <2> QED
    BY <2>1, <2>2, <2>3, ForgetTyped DEF TypeOK, CacheOk
<1>14. CASE UNCHANGED vars
  BY <1>14 DEF vars, TypeOK, CacheOk, CacheAgrees
<1> QED
  BY <1>1, <1>2, <1>3, <1>4, <1>5, <1>6, <1>7, <1>8, <1>9, <1>10, <1>11, <1>12, <1>13, <1>14
     DEF Next, Request, Run

LEMMA InitTyped == Init => TypeOK /\ CacheOk
<1> SUFFICES ASSUME Init PROVE TypeOK /\ CacheOk
  OBVIOUS
<1>1. <<>> \in Seq(Content) /\ <<>> \in Seq(Statement) /\ <<>> \in Seq(Rows)
  OBVIOUS
<1>2. CacheOk
  <2>1. /\ ToSet(<<>>) = {} /\ IsInjective(<<>>) /\ Cardinality({}) = 0 /\ IsFiniteSet({})
    BY FS_EmptySet DEF ToSet, IsInjective
  <2> QED
    BY <1>1, <2>1, SessionsAssumption DEF Init, NoCache, CacheOk, CacheAgrees
<1>3. answer \in [to : Clients \cup {None}, status : Status, rows : Seq(Rows)]
  BY <1>1 DEF Init, NoAnswer, Status
<1> QED
  BY <1>1, <1>2, <1>3, Typing DEF Init, NoneNamed, Content

-----------------------------------------------------------------------------
(* The depth counters.                                                     *)

\* What the ways into and out of dispatch_inner do to the levels.
LEMMA LevelMoves ==
    ASSUME TypeOK, Levels, NEW c \in Clients,
           \/ \E a \in Answers : holder = c /\ Return(c, a)
           \/ \E a \in Answers : AnswerAtOnce(c, a)
           \/ \E b \in Seq(Statement), n \in {1, 2} : Take(c, b, n)
    PROVE  Levels'
<1>1. depth \in [Clients -> Nat] /\ Free \notin Clients /\ c # Free
  BY SessionsAssumption DEF TypeOK
<1>2. CASE \E a \in Answers : holder = c /\ Return(c, a)
  <2>1. PICK a \in Answers : holder = c /\ Return(c, a)
    BY <1>2
  <2>2. /\ depth' = [depth EXCEPT ![c] = @ - 1] /\ calls' = calls - 1 /\ todo' = <<>>
        /\ IF calls = 1 THEN back' = None /\ holder' = Free ELSE holder' = holder
    BY <2>1 DEF Return, Drop, Reply
  <2>3. calls \in {1, 2} /\ \A d \in Clients : depth[d] = IF d = c THEN calls ELSE 0
    BY <1>1, <2>1 DEF Levels, DepthReturns
  <2>4. \A d \in Clients : depth'[d] = IF d = c THEN calls - 1 ELSE 0
    BY <1>1, <2>2, <2>3
  <2>5. DepthReturns'
    BY <1>1, <2>1, <2>2, <2>3, <2>4 DEF DepthReturns
  <2> QED
    BY <1>1, <2>1, <2>2, <2>3, <2>5 DEF Levels
<1>3. CASE \E b \in Seq(Statement), n \in {1, 2} : Take(c, b, n)
  <2>1. PICK n \in {1, 2} : /\ holder = Free /\ holder' = c /\ calls' = n /\ back' = back
                            /\ depth' = [depth EXCEPT ![c] = @ + n]
    BY <1>3 DEF Take
  <2>2. \A d \in Clients : depth[d] = 0
    BY <1>1, <2>1 DEF Levels, DepthReturns
  <2>3. \A d \in Clients : depth'[d] = IF d = c THEN n ELSE 0
    BY <1>1, <2>1, <2>2
  <2> QED
    BY <1>1, <2>1, <2>3 DEF Levels, DepthReturns
<1>4. CASE \E a \in Answers : AnswerAtOnce(c, a)
  BY <1>4 DEF AnswerAtOnce, thread, Levels, DepthReturns
<1> QED
  BY <1>2, <1>3, <1>4

LEMMA LevelStep == TypeOK /\ Levels /\ [Next]_vars => Levels'
<1> SUFFICES ASSUME TypeOK, Levels, [Next]_vars PROVE Levels'
  OBVIOUS
<1>1. ASSUME NEW c \in Clients, Request(c) PROVE Levels'
  <2>1. ASSUME NEW batch \in Batches, Send(c, batch) PROVE Levels'
    <3>1. batch \in Seq(Statement)
      BY SessionsAssumption, PlainStatements
    <3> QED
      BY <2>1, <3>1, LevelMoves DEF Send
  <2>2. ASSUME NEW n \in Names, NEW limit \in Limits, Fetch(c, n, limit) PROVE Levels'
    <3>1. cursors[n] \in [sql : {Select, Bad}, offset : Nat]
      BY <2>2 DEF Fetch, TypeOK
    <3>2. limit \in Nat /\ cursors[n].offset \in 0 .. MaxOffset
      BY <2>2, <3>1, SessionsAssumption DEF Fetch
    <3>3. Page(cursors[n].sql, limit, cursors[n].offset) \in Statement
      BY <3>1, <3>2 DEF Statement
    <3>4. <<Page(cursors[n].sql, limit, cursors[n].offset)>> \in Seq(Statement)
      BY <3>3, OneTyped
    <3> QED
      BY <2>2, <3>4, LevelMoves DEF Fetch
  <2>3. ASSUME NEW n \in Names, NEW r \in Params, ExecutePrepared(c, n, r) PROVE Levels'
    <3> DEFINE s == Stmt(prepared[Lower[n]], r)
    <3>1. prepared[Lower[n]] \in Templates
      BY <2>3, SessionsAssumption DEF ExecutePrepared, TypeOK
    <3>2. <<s>> \in Seq(Statement)
      BY <3>1, SessionsAssumption, PlainStatements, OneTyped
    <3> QED
      BY <2>3, <3>2, LevelMoves DEF ExecutePrepared
  <2>4. ASSUME \/ \E n \in Names, q \in {Select, Bad} : CreateCursor(c, n, q)
               \/ \E n \in Names : FetchUnknown(c, n) \/ DropCursor(c, n) \/ ExecuteUnknown(c, n)
               \/ \E n \in Names, op \in Templates : Prepare(c, n, op)
               \/ Reset(c) \/ Load(c)
        PROVE  Levels'
    <3>1. \/ AnswerAtOnce(c, Ok(<<>>)) \/ AnswerAtOnce(c, Failed)
      BY <2>4 DEF CreateCursor, FetchUnknown, DropCursor, ExecuteUnknown, Prepare, Reset, Load
    <3> QED
      BY <3>1, AnswersTyped, LevelMoves
  <2> QED
    BY <1>1, <2>1, <2>2, <2>3, <2>4 DEF Request
<1>2. ASSUME NEW c \in Clients, Run(c) PROVE Levels'
  <2>1. CASE Execute(c)
    <3>1. back = None /\ UNCHANGED <<holder, depth, calls, back>>
      BY <2>1 DEF Execute, Runs, thread
    <3> QED
      BY <3>1 DEF Levels, DepthReturns
  <2>2. CASE StatementFails(c) \/ StatementPanics(c) \/ BatchDone(c) \/ CommandReturns(c)
    <3>1. Guarded(c, Ok(result)) \in Answers /\ (back # None => back \in Answers)
      BY AnswersTyped DEF TypeOK, Answers
    <3>2. \E a \in Answers : holder = c /\ Return(c, a)
      BY <2>2, <3>1, AnswersTyped DEF StatementFails, StatementPanics, BatchDone, CommandReturns, Runs
    <3> QED
      BY <3>2, LevelMoves
  <2> QED
    BY <1>2, <2>1, <2>2 DEF Run
<1>3. CASE Autosave \/ UNCHANGED vars
  <2>1. UNCHANGED <<holder, depth, calls, back, todo>>
    BY <1>3 DEF Autosave, vars, thread
  <2> QED
    BY <2>1 DEF Levels, DepthReturns
<1>4. CASE Crash
  BY <1>4, SessionsAssumption DEF Crash, Levels, DepthReturns
<1> QED
  BY <1>1, <1>2, <1>3, <1>4 DEF Next

\* Neither of the two is inductive without the other: a guard may be dropped
\* because its level was counted.
Sound == TypeOK /\ CacheOk /\ Levels

LEMMA SoundInit == Init => Sound
<1>1. Init => Levels
  BY SessionsAssumption DEF Init, Levels, DepthReturns
<1> QED
  BY <1>1, InitTyped DEF Sound

LEMMA SoundAlways == Spec => []Sound
<1>1. Sound /\ [Next]_vars => Sound'
  BY TypeStep, LevelStep DEF Sound
<1> QED
  BY <1>1, SoundInit, PTL DEF Spec

\* Every variable keeps its type (TypeOK): what any request, statement,
\* autosave or restart leaves is again rows, snapshots, cursors and answers,
\* and no thread's depth is ever counted below zero.
THEOREM TypeCorrect == Spec => []TypeOK
BY SoundAlways, PTL DEF Sound

\* The parse cache's map and queue agree and stay within the capacity,
\* whatever texts come in whatever order (SqlCache::get_or_parse).
THEOREM CacheCorrect == Spec => []CacheAgrees
<1>1. Sound => CacheAgrees
  BY DEF Sound, CacheOk
<1> QED
  BY <1>1, SoundAlways, PTL

\* The last call on the stack is left with an answer.
LEMMA LastReturn ==
    ASSUME NEW c \in Clients, NEW a, holder = c, Return(c, a), holder' = Free
    PROVE  /\ calls = 1
           /\ answer'.status = Delivered(c, a).status /\ answer'.rows = Delivered(c, a).rows
<1>1. c # Free
  BY SessionsAssumption
<1>2. calls = 1
  BY <1>1 DEF Return
<1>3. answer' = [to |-> c, status |-> Delivered(c, a).status, rows |-> Delivered(c, a).rows]
  BY <1>2 DEF Return, Reply
<1> QED
  BY <1>2, <1>3

\* No batch's large answer gets past the size guard, whatever errors, nested
\* calls and panics the thread has had before: each call of dispatch_inner
\* counts one level and each guard that is dropped, by an unwinding panic too,
\* takes one off, so that a batch is known to be an outermost call.
THEOREM LargeAnswersRefused == Spec => LargeBatchesRefused
<1> DEFINE Refused == holder # Free /\ holder' = Free /\ back = None /\ answer'.status = "ok"
                        => Len(answer'.rows) < OutputBuf
<1>1. ASSUME Sound, Next, holder # Free, holder' = Free, back = None, answer'.status = "ok"
      PROVE  Len(answer'.rows) < OutputBuf
  <2>1. ~ Autosave /\ ~ Crash
    BY <1>1 DEF Autosave, Unlocked, Crash, NoAnswer
  <2>2. \A c \in Clients : ~ Request(c)
    BY <1>1 DEF Request, Send, CreateCursor, Fetch, FetchUnknown, DropCursor, Prepare, ExecutePrepared,
       ExecuteUnknown, Reset, Load, Take, AnswerAtOnce
  <2>3. PICK c \in Clients : Run(c)
    BY <1>1, <2>1, <2>2 DEF Next
  <2>4. ~ Execute(c) /\ ~ CommandReturns(c)
    BY <1>1 DEF Execute, CommandReturns
  <2>5. \A a : \/ Delivered(c, a).status = a.status /\ Delivered(c, a).rows = a.rows
             \/ Delivered(c, a).status = "too_large"
    BY DEF Delivered, TooLarge
  <2>6. ~ StatementFails(c)
    <3> SUFFICES ASSUME StatementFails(c) PROVE FALSE
      OBVIOUS
    <3>1. answer'.status = Delivered(c, Failed).status
      BY <1>1, LastReturn DEF StatementFails, Runs
    <3> QED
      BY <1>1, <2>5, <3>1 DEF Failed
  <2>7. ~ StatementPanics(c)
    <3> SUFFICES ASSUME StatementPanics(c) PROVE FALSE
      OBVIOUS
    <3>1. answer'.status = Delivered(c, Panicked).status
      BY <1>1, LastReturn DEF StatementPanics, Runs
    <3> QED
      BY <1>1, <2>5, <3>1 DEF Panicked
  <2>8. BatchDone(c) /\ holder = c
    BY <2>3, <2>4, <2>6, <2>7 DEF Run, BatchDone, Runs
  <2> DEFINE g == Guarded(c, Ok(result))
  <2>9. calls = 1 /\ answer'.status = Delivered(c, g).status /\ answer'.rows = Delivered(c, g).rows
    BY <1>1, <2>8, LastReturn DEF BatchDone
  <2>10. depth[c] = 1
    BY <1>1, <2>8, <2>9 DEF Sound, Levels, DepthReturns
  <2>11. g.status = "too_large" \/ Len(g.rows) < OutputBuf
    BY <2>10 DEF Guarded, TooLarge, Fits
  <2> HIDE DEF g
  <2> QED
    BY <1>1, <2>5, <2>9, <2>11
<1>2. Sound /\ [Next]_vars => [Refused]_vars
  BY <1>1
<1> QED
  BY <1>2, SoundAlways, PTL DEF Spec, LargeBatchesRefused

-----------------------------------------------------------------------------
(* The pages of a cursor.                                                  *)
Content0 == IF table = None THEN <<>> ELSE table
Upto(t, k) == IF k < Len(t) THEN SubSeq(t, 1, k) ELSE t
From(t, k) == SubSeq(t, k + 1, Len(t))

LEMMA UptoPart ==
    ASSUME NEW t \in Seq(Rows), NEW k \in Nat
    PROVE  /\ Upto(t, k) \in Seq(Rows)
           /\ Len(Upto(t, k)) = (IF k < Len(t) THEN k ELSE Len(t))
           /\ \A i \in 1 .. Len(Upto(t, k)) : Upto(t, k)[i] = t[i]
BY DEF Upto

LEMMA FromPart ==
    ASSUME NEW t \in Seq(Rows), NEW k \in Nat
    PROVE  /\ From(t, k) \in Seq(Rows)
           /\ Len(From(t, k)) = (IF k < Len(t) THEN Len(t) - k ELSE 0)
           /\ \A i \in 1 .. Len(From(t, k)) : From(t, k)[i] = t[k + i]
BY DEF From

LEMMA SeqSame ==
    ASSUME NEW X, NEW u \in Seq(X), NEW v \in Seq(X), Len(u) = Len(v),
           \A i \in 1 .. Len(v) : u[i] = v[i]
    PROVE  u = v
OBVIOUS

LEMMA SecondPart ==
    ASSUME NEW X, NEW u \in Seq(X), NEW v \in Seq(X), NEW i \in 1 .. Len(v)
    PROVE  (u \o v)[Len(u) + i] = v[i]
<1>1. Len(u) \in Nat /\ Len(v) \in Nat /\ Len(u) + i \in 1 .. Len(u) + Len(v) /\ ~(Len(u) + i <= Len(u))
  OBVIOUS
<1> QED
  BY <1>1

LEMMA Appended ==
    ASSUME NEW X, NEW u \in Seq(X), NEW v \in Seq(X)
    PROVE  u \o v \in Seq(X) /\ Len(u \o v) = Len(u) + Len(v)
OBVIOUS

\* The rows before a page, and the page, are the rows before the next one.
LEMMA PageAppended ==
    ASSUME NEW t \in Seq(Rows), NEW l \in Nat, NEW k \in Nat
    PROVE  Upto(t, k) \o Upto(From(t, k), l) = Upto(t, k + l)
<1> DEFINE a == Upto(t, k)
           f == From(t, k)
           b == Upto(f, l)
           z == Upto(t, k + l)
<1>1. /\ a \in Seq(Rows) /\ Len(a) = (IF k < Len(t) THEN k ELSE Len(t))
      /\ \A i \in 1 .. Len(a) : a[i] = t[i]
  BY UptoPart
<1>2. /\ f \in Seq(Rows) /\ Len(f) = (IF k < Len(t) THEN Len(t) - k ELSE 0)
      /\ \A i \in 1 .. Len(f) : f[i] = t[k + i]
  BY FromPart
<1> HIDE DEF f
<1>3. /\ b \in Seq(Rows) /\ Len(b) = (IF l < Len(f) THEN l ELSE Len(f))
      /\ \A i \in 1 .. Len(b) : b[i] = f[i]
  BY <1>2, UptoPart
<1>4. /\ z \in Seq(Rows) /\ Len(z) = (IF k + l < Len(t) THEN k + l ELSE Len(t))
      /\ \A i \in 1 .. Len(z) : z[i] = t[i]
  BY UptoPart
<1> HIDE DEF a, b, z
<1>5. Len(t) \in Nat /\ Len(a) \in Nat /\ Len(b) \in Nat /\ Len(z) \in Nat /\ Len(f) \in Nat
  BY <1>1, <1>2, <1>3, <1>4
<1>6. Len(a) + Len(b) = Len(z)
  <2> DEFINE n == Len(t)
             lf == Len(f)
             la == Len(a)
             lb == Len(b)
             lz == Len(z)
  <2>1. /\ n \in Nat /\ lf \in Nat /\ la \in Nat /\ lb \in Nat /\ lz \in Nat
        /\ lf = (IF k < n THEN n - k ELSE 0) /\ la = (IF k < n THEN k ELSE n)
        /\ lb = (IF l < lf THEN l ELSE lf) /\ lz = (IF k + l < n THEN k + l ELSE n)
    BY <1>1, <1>2, <1>3, <1>4, <1>5
  <2> HIDE DEF n, lf, la, lb, lz
  <2>2. la + lb = lz
    BY <2>1
  <2> QED
    BY <2>2 DEF la, lb, lz
<1>7. ASSUME NEW i \in 1 .. Len(a) PROVE (a \o b)[i] = z[i]
  <2>1. (a \o b)[i] = a[i]
    BY <1>1, <1>3
  <2> QED
    BY <1>1, <1>4, <1>5, <1>6, <2>1
<1>8. ASSUME NEW i \in 1 .. Len(b) PROVE (a \o b)[Len(a) + i] = z[Len(a) + i]
  <2>1. (a \o b)[Len(a) + i] = b[i]
    <3>1. a \in Seq(Rows) /\ b \in Seq(Rows)
      BY <1>1, <1>3
    <3> QED
      BY <3>1, SecondPart
  <2>2. i \in 1 .. Len(f)
    BY <1>3, <1>5
  <2>3. b[i] = t[k + i]
    BY <1>2, <1>3, <2>2
  <2>4. Len(a) = k
    BY <1>1, <1>2, <1>5, <2>2
  <2>5. k + i \in 1 .. Len(z)
    BY <1>5, <1>6, <2>4
  <2> QED
    BY <1>4, <2>1, <2>3, <2>4, <2>5
<1>9. \A i \in 1 .. Len(z) : (a \o b)[i] = z[i]
  <2> SUFFICES ASSUME NEW i \in 1 .. Len(z) PROVE (a \o b)[i] = z[i]
    OBVIOUS
  <2>1. CASE i \in 1 .. Len(a)
    BY <1>7, <2>1
  <2>2. CASE i \notin 1 .. Len(a)
    <3>1. i - Len(a) \in 1 .. Len(b) /\ Len(a) + (i - Len(a)) = i
      BY <1>5, <1>6, <2>2
    <3> QED
      BY <1>8, <3>1
  <2> QED
    BY <2>1, <2>2
<1>10. a \o b \in Seq(Rows) /\ Len(a \o b) = Len(z)
  <2>1. a \o b \in Seq(Rows) /\ Len(a \o b) = Len(a) + Len(b)
    BY <1>1, <1>3, Appended
  <2> QED
    BY <1>6, <2>1
<1>11. a \o b = z
  <2> DEFINE y == a \o b
  <2>1. y \in Seq(Rows) /\ Len(y) = Len(z) /\ \A i \in 1 .. Len(z) : y[i] = z[i]
    BY <1>9, <1>10
  <2> HIDE DEF y
  <2>2. y = z
    BY <1>4, <2>1, SeqSame
  <2> QED
    BY <2>2 DEF y
<1> QED
  BY <1>11 DEF a, b, z, f

\* Between its fetch and its answer a page is still to run, or it has run on
\* the table its cursor's earlier pages were taken from, or the inner call
\* has answered it.
PageInv ==
    /\ holder = Free => page = None
    /\ \A n \in Names : cursors[n] # None /\ calm[n] /\ page # n
                        => got[n] = Upto(Content0, cursors[n].offset)
    /\ page # None =>
         /\ cursors[page] # None
         /\ \E l \in Nat, k \in Nat :
              /\ k + l = cursors[page].offset
              /\ calm[page] => got[page] = Upto(Content0, k)
              /\ \/ back = None /\ todo = <<Page(cursors[page].sql, l, k)>> /\ result = <<>>
                 \/ back = None /\ todo = <<>> /\ (calm[page] => result = Upto(From(Content0, k), l))
                 \/ /\ back # None
                    /\ calm[page] /\ back.status = "ok" => back.rows = Upto(From(Content0, k), l)

LEMMA PageMissesNothing == PageInv => PagesMissNothing
BY DEF PageInv, PagesMissNothing, Content0, Upto

LEMMA NoPage ==
    ASSUME page' = None,
           \A n \in Names : cursors'[n] # None /\ calm'[n]
                            => got'[n] = Upto(Content0', cursors'[n].offset)
    PROVE  PageInv'
BY DEF PageInv

\* What a page answers.
LEMMA PageSelected ==
    ASSUME TypeOK, NEW q \in {Select, Bad}, NEW l \in Nat, NEW k \in Nat, ~Refuses(Page(q, l, k))
    PROVE  /\ Written(Page(q, l, k)) = table
           /\ Selected(Page(q, l, k)) = Upto(From(Content0, k), l)
<1> DEFINE s == Page(q, l, k)
<1>1. s.op = "select" /\ s.arg = <<l, k>> /\ table \in Seq(Rows)
  BY DEF Refuses, Missing, Parses, Page, Stmt, Select, Bad, TypeOK, Content
<1>2. None \notin Seq(Rows)
  BY SessionsAssumption
<1>3. Content0 = table
  BY <1>1, <1>2 DEF Content0
<1>4. Selected(s) = Slice(l, k)
  <2>1. <<l, k>> # <<>>
    OBVIOUS
  <2> QED
    BY <1>1, <2>1 DEF Selected
<1>5. Slice(l, k) = Upto(From(table, k), l)
  <2> DEFINE f == From(table, k)
             m == IF l < Len(f) THEN l ELSE Len(f)
  <2>1. f \in Seq(Rows)
    BY <1>1, FromPart
  <2>2. Slice(l, k) = SubSeq(f, 1, m)
    BY DEF Slice, Rest, From
  <2> SUFFICES Slice(l, k) = Upto(f, l)
    OBVIOUS
  <2> HIDE DEF f
  <2>3. CASE l < Len(f)
    BY <2>2, <2>3 DEF Upto
  <2>4. CASE ~(l < Len(f))
    <3>1. SubSeq(f, 1, Len(f)) = f
      <4> DEFINE g == SubSeq(f, 1, Len(f))
      <4>1. g \in Seq(Rows) /\ Len(g) = Len(f) /\ \A i \in 1 .. Len(f) : g[i] = f[i]
        BY <2>1
      <4> HIDE DEF g
      <4>2. g = f
        BY <2>1, <4>1, SeqSame
      <4> QED
        BY <4>2 DEF g
    <3> QED
      BY <2>2, <2>4, <3>1 DEF Upto
  <2> QED
    BY <2>3, <2>4
<1>6. Written(s) = table
  BY <1>1 DEF Written
<1> QED
  BY <1>3, <1>4, <1>5, <1>6

\* What is answered with status ok: what the inner call returned, or the rows
\* of the batch that is through.
Passed(a) == a.status = "ok" => IF back # None THEN a = back ELSE todo = <<>> /\ a.rows = result

LEMMA PassedRows ==
    ASSUME NEW a, a.status = "ok", Passed(a), NEW p, NEW rs,
           \/ back = None /\ todo = <<p>> /\ result = <<>>
           \/ back = None /\ todo = <<>> /\ result = rs
           \/ back # None /\ (back.status = "ok" => back.rows = rs)
    PROVE  a.rows = rs
<1>1. <<p>> # <<>>
  OBVIOUS
<1> QED
  BY <1>1 DEF Passed

\* A page delivered with status ok is all of its rows; anything else
\* disturbs its cursor.
LEMMA PageAnswered ==
    ASSUME TypeOK, PageInv, NEW c \in Clients, NEW a \in Answers, Reply(c, a),
           UNCHANGED <<table, cursors>>, Passed(a)
    PROVE  PageInv'
<1> DEFINE d == Delivered(c, a)
<1>1. d.status = "ok" => d.rows = a.rows /\ a.status = "ok"
  BY DEF Delivered, TooLarge
<1>2. /\ page' = None
      /\ IF page = None THEN UNCHANGED <<got, calm>>
         ELSE /\ got' = [got EXCEPT ![page] = @ \o d.rows]
              /\ calm' = [calm EXCEPT ![page] = @ /\ d.status = "ok"]
  BY DEF Reply
<1> HIDE DEF d
<1>3. Content0' = Content0 /\ Content0 \in Seq(Rows)
  BY DEF Content0, TypeOK, Content
<1>4. ASSUME NEW n \in Names, cursors'[n] # None, calm'[n]
      PROVE  got'[n] = Upto(Content0', cursors'[n].offset)
  <2>1. CASE page # n
    <3>1. got'[n] = got[n] /\ calm'[n] = calm[n]
      BY <1>2, <2>1 DEF TypeOK
    <3> QED
      BY <1>3, <1>4, <2>1, <3>1 DEF PageInv
  <2>2. CASE page = n
    <3>1. page # None
      BY <2>2, SessionsAssumption
    <3>2. calm[n] /\ d.status = "ok" /\ got'[n] = got[n] \o d.rows
      BY <1>2, <1>4, <2>2, <3>1 DEF TypeOK
    <3>3. PICK l \in Nat, k \in Nat :
              /\ k + l = cursors[n].offset /\ got[n] = Upto(Content0, k)
              /\ \/ back = None /\ todo = <<Page(cursors[n].sql, l, k)>> /\ result = <<>>
                 \/ back = None /\ todo = <<>> /\ result = Upto(From(Content0, k), l)
                 \/ back # None /\ (back.status = "ok" => back.rows = Upto(From(Content0, k), l))
      BY <2>2, <3>1, <3>2 DEF PageInv
    <3>4. d.rows = Upto(From(Content0, k), l)
      BY <1>1, <3>2, <3>3, PassedRows
    <3>5. got'[n] = Upto(Content0, k + l)
      BY <1>3, <3>2, <3>3, <3>4, PageAppended
    <3> QED
      BY <1>3, <3>3, <3>5
  <2> QED
    BY <2>1, <2>2
<1> QED
  BY <1>2, <1>4, NoPage

\* The inner call returns, or the outermost one.
LEMMA PageReturned ==
    ASSUME TypeOK, PageInv, NEW c \in Clients, NEW a \in Answers, Return(c, a), holder = c,
           UNCHANGED <<table, cursors>>, Passed(a)
    PROVE  PageInv'
<1>1. CASE calls = 1
  BY <1>1, PageAnswered DEF Return
<1>2. CASE calls # 1
  <2>1. back' = a /\ UNCHANGED <<holder, page, got, calm>> /\ a # None
    BY <1>2, SessionsAssumption DEF Return, Answers
  <2>2. Content0' = Content0 /\ holder # Free
    BY SessionsAssumption DEF Content0
  <2>3. CASE page = None
    BY <2>1, <2>2, <2>3, NoPage DEF PageInv
  <2>4. CASE page # None
    <3>1. PICK l \in Nat, k \in Nat :
              /\ k + l = cursors[page].offset /\ (calm[page] => got[page] = Upto(Content0, k))
              /\ \/ back = None /\ todo = <<Page(cursors[page].sql, l, k)>> /\ result = <<>>
                 \/ back = None /\ todo = <<>> /\ (calm[page] => result = Upto(From(Content0, k), l))
                 \/ back # None /\ (calm[page] /\ back.status = "ok" => back.rows = Upto(From(Content0, k), l))
      BY <2>4 DEF PageInv
    <3>2. ASSUME calm[page], a.status = "ok" PROVE a.rows = Upto(From(Content0, k), l)
      BY <3>1, <3>2, PassedRows
    <3>3. /\ k + l = cursors'[page'].offset /\ (calm'[page'] => got'[page'] = Upto(Content0', k))
          /\ back' # None /\ (calm'[page'] /\ back'.status = "ok" => back'.rows = Upto(From(Content0', k), l))
      BY <2>1, <2>2, <3>1, <3>2
    <3>4. cursors'[page'] # None
      BY <2>1, <2>4 DEF PageInv
    <3>5. \A n \in Names : cursors'[n] # None /\ calm'[n] /\ page' # n
                          => got'[n] = Upto(Content0', cursors'[n].offset)
      BY <2>1, <2>2 DEF PageInv
    <3> QED
      BY <2>1, <2>2, <3>3, <3>4, <3>5 DEF PageInv
  <2> QED
    BY <2>3, <2>4
<1> QED
  BY <1>1, <1>2

LEMMA PageStep == TypeOK /\ Levels /\ PageInv /\ [Next]_vars => PageInv'
<1> SUFFICES ASSUME TypeOK, Levels, PageInv, [Next]_vars PROVE PageInv'
  OBVIOUS
<1> USE DEF ghosts
<1>1. ASSUME UNCHANGED <<table, cursors, got, calm, page>>, page = None PROVE PageInv'
  <2>1. Content0' = Content0
    BY <1>1 DEF Content0
  <2> QED
    BY <1>1, <2>1, NoPage DEF PageInv
<1>2. ASSUME page' = None, cursors' = NoneNamed PROVE PageInv'
  BY <1>2, NoPage DEF NoneNamed
<1>3. ASSUME NEW c \in Clients, Request(c) PROVE PageInv'
  <2>1. ASSUME \/ \E batch \in Batches : Send(c, batch)
               \/ \E n \in Names : FetchUnknown(c, n) \/ ExecuteUnknown(c, n)
               \/ \E n \in Names, op \in Templates : Prepare(c, n, op)
               \/ \E n \in Names, r \in Params : ExecutePrepared(c, n, r)
        PROVE  PageInv'
    <3>1. holder = Free /\ UNCHANGED <<table, cursors, got, calm, page>>
      BY <2>1 DEF Send, FetchUnknown, ExecuteUnknown, Prepare, ExecutePrepared, AnswerAtOnce, Take, store
    <3> QED
      BY <1>1, <3>1 DEF PageInv
  <2>2. ASSUME NEW n \in Names, NEW q \in {Select, Bad}, CreateCursor(c, n, q) PROVE PageInv'
    <3> DEFINE m == Lower[n]
    <3>1. m \in Names
      BY SessionsAssumption
    <3> HIDE DEF m
    <3>2. /\ holder = Free /\ page' = page /\ table' = table
          /\ cursors' = [cursors EXCEPT ![m] = [sql |-> q, offset |-> 0]]
          /\ got' = [got EXCEPT ![m] = <<>>] /\ calm' = [calm EXCEPT ![m] = TRUE]
      BY <2>2 DEF CreateCursor, AnswerAtOnce, store, m
    <3>3. Content0' = Content0 /\ Content0 \in Seq(Rows) /\ page = None
      BY <3>2 DEF Content0, TypeOK, Content, PageInv
    <3>4. Upto(Content0, 0) = <<>>
      BY <3>3 DEF Upto
    <3>5. ASSUME NEW x \in Names, cursors'[x] # None, calm'[x]
          PROVE  got'[x] = Upto(Content0', cursors'[x].offset)
      <4>1. CASE x = m
        BY <3>1, <3>2, <3>3, <3>4, <4>1 DEF TypeOK
      <4>2. CASE x # m
        <5>1. got'[x] = got[x] /\ calm'[x] = calm[x] /\ cursors'[x] = cursors[x]
          BY <3>2, <4>2 DEF TypeOK
        <5>2. page # x
          BY <3>3, SessionsAssumption
        <5> QED
          BY <3>3, <3>5, <5>1, <5>2 DEF PageInv
      <4> QED
        BY <4>1, <4>2
    <3> QED
      BY <3>2, <3>3, <3>5, NoPage
  <2>3. ASSUME NEW n \in Names, NEW limit \in Limits, Fetch(c, n, limit) PROVE PageInv'
    <3>1. cursors[n] \in [sql : {Select, Bad}, offset : Nat] /\ cursors[n] # None
      BY <2>3 DEF Fetch, TypeOK
    <3>2. limit \in Nat /\ n # None /\ c # Free
      BY SessionsAssumption
    <3>3. /\ holder = Free /\ holder' = c /\ page' = n /\ result' = <<>> /\ back' = None
          /\ todo' = <<Page(cursors[n].sql, limit, cursors[n].offset)>>
          /\ cursors' = [cursors EXCEPT ![n].offset = @ + limit]
          /\ UNCHANGED <<table, got, calm>>
      BY <2>3 DEF Fetch, Take, MovedOn, store, Levels
    <3>4. Content0' = Content0 /\ page = None
      BY <3>3 DEF Content0, PageInv
    <3>5. /\ cursors'[n] = [cursors[n] EXCEPT !.offset = @ + limit]
          /\ \A x \in Names : x # n => cursors'[x] = cursors[x]
      BY <3>3 DEF TypeOK
    <3>6. cursors'[n].sql = cursors[n].sql /\ cursors'[n].offset = cursors[n].offset + limit
      BY <3>1, <3>5
    <3>7. cursors'[n] # None
      <4>1. cursors'[n] \in [sql : {Select, Bad}, offset : Nat]
        BY <3>1, <3>2, <3>5
      <4> QED
        BY <4>1, SessionsAssumption
    <3>8. \A x \in Names : cursors[x] # None /\ calm[x] => got[x] = Upto(Content0, cursors[x].offset)
      BY <3>4, SessionsAssumption DEF PageInv
    <3>9. \A x \in Names : cursors'[x] # None /\ calm'[x] /\ page' # x
                          => got'[x] = Upto(Content0', cursors'[x].offset)
      BY <3>3, <3>4, <3>5, <3>8
    <3>10. /\ cursors[n].offset + limit = cursors'[page'].offset /\ cursors[n].offset \in Nat
           /\ calm'[page'] => got'[page'] = Upto(Content0', cursors[n].offset)
           /\ todo' = <<Page(cursors'[page'].sql, limit, cursors[n].offset)>> /\ result' = <<>> /\ back' = None
      BY <3>1, <3>3, <3>4, <3>6, <3>8
    <3>11. \E l \in Nat, k \in Nat :
              /\ k + l = cursors'[page'].offset
              /\ calm'[page'] => got'[page'] = Upto(Content0', k)
              /\ back' = None /\ todo' = <<Page(cursors'[page'].sql, l, k)>> /\ result' = <<>>
      BY <3>2, <3>10
    <3> QED
      BY <3>2, <3>3, <3>7, <3>9, <3>11 DEF PageInv
  <2>4. ASSUME NEW n \in Names, DropCursor(c, n) PROVE PageInv'
    <3>1. /\ holder = Free /\ UNCHANGED <<table, got, calm, page>>
          /\ cursors' = [cursors EXCEPT ![Lower[n]] = None]
      BY <2>4 DEF DropCursor, AnswerAtOnce, store
    <3>2. Content0' = Content0 /\ page = None
      BY <3>1 DEF Content0, PageInv
    <3>3. \A x \in Names : cursors'[x] # None => cursors'[x] = cursors[x]
      BY <3>1, SessionsAssumption DEF TypeOK
    <3>4. \A x \in Names : x # None
      BY SessionsAssumption
    <3> QED
      BY <3>1, <3>2, <3>3, <3>4, NoPage DEF PageInv
  <2>5. ASSUME Reset(c) \/ Load(c) PROVE PageInv'
    <3>1. holder = Free /\ page' = page /\ cursors' = NoneNamed
      BY <2>5 DEF Reset, Load, AnswerAtOnce, Forget
    <3> QED
      BY <1>2, <3>1 DEF PageInv
  <2> QED
    BY <1>3, <2>1, <2>2, <2>3, <2>4, <2>5 DEF Request
<1>4. ASSUME NEW c \in Clients, Execute(c) PROVE PageInv'
  <2> DEFINE s == Head(todo)
  <2>1. /\ holder = c /\ todo # <<>> /\ ~Refuses(s) /\ table' = Written(s)
        /\ result' = result \o Selected(s) /\ todo' = Tail(todo)
        /\ calm' = Disturbed /\ back = None /\ UNCHANGED <<cursors, holder, page, got, back>>
    BY <1>4 DEF Execute, Runs, thread
  <2>2. \A n \in Names : calm'[n] => calm[n] /\ table' = table
    BY <2>1 DEF Disturbed
  <2>3. table' = table => Content0' = Content0
    BY DEF Content0
  <2>4. c # Free
    BY SessionsAssumption
  <2>5. CASE page = None
    BY <2>1, <2>2, <2>3, <2>5, NoPage DEF PageInv
  <2>6. CASE page # None
    <3>1. page \in Names /\ cursors[page] # None /\ cursors[page] \in [sql : {Select, Bad}, offset : Nat]
      BY <2>6 DEF TypeOK, PageInv
    <3>2. PICK l \in Nat, k \in Nat :
              /\ k + l = cursors[page].offset
              /\ calm[page] => got[page] = Upto(Content0, k)
              /\ todo = <<Page(cursors[page].sql, l, k)>> /\ result = <<>>
      BY <2>1, <2>6 DEF PageInv
    <3>3. s = Page(cursors[page].sql, l, k) /\ Tail(todo) = <<>>
      BY <3>2
    <3> HIDE DEF s
    <3>4. table' = table /\ Selected(s) = Upto(From(Content0, k), l)
      BY <2>1, <3>1, <3>3, PageSelected
    <3>5. Selected(s) \in Seq(Rows)
      <4>1. s \in Statement
        BY <2>1 DEF TypeOK, s
      <4> QED
        BY <2>1, <4>1, StatementEffects
    <3>6. result' = Upto(From(Content0, k), l)
      BY <2>1, <3>2, <3>4, <3>5
    <3>7. /\ k + l = cursors'[page'].offset /\ (calm'[page'] => got'[page'] = Upto(Content0', k))
          /\ back' = None /\ todo' = <<>> /\ (calm'[page'] => result' = Upto(From(Content0', k), l))
      BY <2>1, <2>2, <2>3, <3>1, <3>2, <3>3, <3>4, <3>6
    <3>8. \A n \in Names : cursors'[n] # None /\ calm'[n] /\ page' # n
                          => got'[n] = Upto(Content0', cursors'[n].offset)
      BY <2>1, <2>2, <2>3 DEF PageInv
    <3> QED
      BY <2>1, <2>4, <3>1, <3>7, <3>8 DEF PageInv
  <2> QED
    BY <2>5, <2>6
<1>5. ASSUME NEW c \in Clients, StatementFails(c) \/ StatementPanics(c) PROVE PageInv'
  <2>1. holder = c /\ (Return(c, Failed) \/ Return(c, Panicked)) /\ UNCHANGED <<table, cursors>>
    BY <1>5 DEF StatementFails, StatementPanics, Runs, store
  <2>2. Passed(Failed) /\ Passed(Panicked)
    BY DEF Failed, Panicked, Passed
  <2> QED
    BY <2>1, <2>2, AnswersTyped, PageReturned
<1>6. ASSUME NEW c \in Clients, BatchDone(c) PROVE PageInv'
  <2> DEFINE a == Guarded(c, Ok(result))
  <2>1. a \in Answers /\ (a.status = "ok" => a.rows = result)
    BY AnswersTyped DEF TypeOK, Guarded, Ok, TooLarge
  <2>2. holder = c /\ back = None /\ todo = <<>> /\ Return(c, a) /\ UNCHANGED <<table, cursors>>
    BY <1>6 DEF BatchDone, Runs, store
  <2> HIDE DEF a
  <2>3. Passed(a)
    BY <2>1, <2>2 DEF Passed
  <2> QED
    BY <2>1, <2>2, <2>3, PageReturned
<1>9. ASSUME NEW c \in Clients, CommandReturns(c) PROVE PageInv'
  <2>1. back \in Answers /\ holder = c /\ back # None /\ Return(c, back) /\ UNCHANGED <<table, cursors>>
    BY <1>9 DEF CommandReturns, store, TypeOK, Answers
  <2>2. Passed(back)
    BY <2>1 DEF Passed
  <2> QED
    BY <2>1, <2>2, PageReturned
<1>7. CASE Autosave \/ UNCHANGED vars
  <2>1. UNCHANGED <<table, cursors, got, calm, page, holder, todo, result, back>>
    BY <1>7 DEF Autosave, vars, store, thread
  <2>2. Content0' = Content0
    BY <2>1 DEF Content0
  <2> QED
    BY <2>1, <2>2 DEF PageInv
<1>8. CASE Crash
  BY <1>2, <1>8 DEF Crash, Forget
<1> QED
  BY <1>3, <1>4, <1>5, <1>6, <1>7, <1>8, <1>9 DEF Next, Run

\* While nobody writes and every page is delivered, the pages of a cursor
\* are the result from its start, each row once, whoever fetches them in
\* whatever order and with whatever limits (handle_cursor_fetch).
THEOREM PagesCorrect == Spec => []PagesMissNothing
<1>1. Init => PageInv
  <2>1. ASSUME Init PROVE PageInv
    BY <2>1 DEF Init, NoneNamed, PageInv
  <2> QED
    BY <2>1
<1>2. Sound /\ PageInv /\ [Next]_vars => PageInv'
  BY PageStep DEF Sound
<1> QED
  BY <1>1, <1>2, SoundAlways, PageMissesNothing, PTL DEF Spec

-----------------------------------------------------------------------------
(* Paired rows.                                                            *)

LEMMA RowInserted ==
    ASSUME NEW t \in Seq(Rows), NEW r \in Rows, r \notin ToSet(t), IsInjective(t)
    PROVE  IsInjective(Append(t, r)) /\ ToSet(Append(t, r)) = ToSet(t) \cup {r}
<1>1. ToSet(Append(t, r)) = ToSet(t) \cup {r}
  BY AppendedSet
<1>2. IsInjective(Append(t, r))
  BY DEF IsInjective, ToSet
<1> QED
  BY <1>1, <1>2

LEMMA RowRemoved ==
    ASSUME NEW t \in Seq(Rows), IsInjective(t), NEW m \in 1 .. Len(t)
    PROVE  RemoveAt(t, m) \in Seq(Rows) /\ IsInjective(RemoveAt(t, m)) /\ ToSet(RemoveAt(t, m)) = ToSet(t) \ {t[m]}
<1> DEFINE u == SubSeq(t, 1, m - 1)
           v == SubSeq(t, m + 1, Len(t))
           w == u \o v
<1>1. u \in Seq(Rows) /\ Len(u) = m - 1 /\ \A i \in 1 .. m - 1 : u[i] = t[i]
  OBVIOUS
<1>2. v \in Seq(Rows) /\ Len(v) = Len(t) - m /\ \A i \in 1 .. Len(t) - m : v[i] = t[m + i]
  OBVIOUS
<1> HIDE DEF u, v
<1>3. /\ w \in Seq(Rows) /\ Len(w) = Len(t) - 1 /\ DOMAIN w = 1 .. Len(t) - 1
      /\ \A i \in 1 .. Len(t) - 1 : w[i] = IF i < m THEN t[i] ELSE t[i + 1]
  <2>1. w \in Seq(Rows) /\ Len(w) = Len(u) + Len(v)
    BY <1>1, <1>2, Appended
  <2>2. \A i \in 1 .. Len(u) + Len(v) : w[i] = IF i <= Len(u) THEN u[i] ELSE v[i - Len(u)]
    BY <1>1, <1>2
  <2> HIDE DEF w
  <2>3. Len(w) = Len(t) - 1 /\ DOMAIN w = 1 .. Len(t) - 1
    BY <1>1, <1>2, <2>1
  <2>4. ASSUME NEW i \in 1 .. Len(t) - 1 PROVE w[i] = IF i < m THEN t[i] ELSE t[i + 1]
    <3>1. CASE i < m
      <4>1. i \in 1 .. m - 1 /\ i <= Len(u) /\ i \in 1 .. Len(u) + Len(v)
        BY <1>1, <1>2, <3>1
      <4> QED
        BY <1>1, <2>2, <3>1, <4>1
    <3>2. CASE ~(i < m)
      <4>1. ~(i <= Len(u)) /\ i \in 1 .. Len(u) + Len(v) /\ i - Len(u) \in 1 .. Len(t) - m /\ m + (i - Len(u)) = i + 1
        BY <1>1, <1>2, <3>2
      <4> QED
        BY <1>2, <2>2, <3>2, <4>1
    <3> QED
      BY <3>1, <3>2
  <2> QED
    BY <2>1, <2>3, <2>4
<1>4. RemoveAt(t, m) = w
  BY DEF RemoveAt, u, v
<1> HIDE DEF w
<1>5. IsInjective(w)
  <2> SUFFICES ASSUME NEW i \in 1 .. Len(t) - 1, NEW j \in 1 .. Len(t) - 1, w[i] = w[j] PROVE i = j
    BY <1>3 DEF IsInjective
  <2>1. DOMAIN t = 1 .. Len(t) /\ i \in 1 .. Len(t) /\ j \in 1 .. Len(t) /\ i + 1 \in 1 .. Len(t) /\ j + 1 \in 1 .. Len(t)
    OBVIOUS
  <2>2. (IF i < m THEN i ELSE i + 1) = (IF j < m THEN j ELSE j + 1)
    BY <1>3, <2>1 DEF IsInjective
  <2> QED
    BY <2>2
<1>6. \A x \in ToSet(w) : x \in ToSet(t) \ {t[m]}
  <2> SUFFICES ASSUME NEW i \in 1 .. Len(t) - 1 PROVE w[i] \in ToSet(t) \ {t[m]}
    BY <1>3 DEF ToSet
  <2>1. DOMAIN t = 1 .. Len(t) /\ i \in 1 .. Len(t) /\ i + 1 \in 1 .. Len(t) /\ (i < m => i # m) /\ (~(i < m) => i + 1 # m)
    OBVIOUS
  <2> QED
    BY <1>3, <2>1 DEF ToSet, IsInjective
<1>7. ASSUME NEW x \in ToSet(t) \ {t[m]} PROVE x \in ToSet(w)
  <2>1. DOMAIN t = 1 .. Len(t)
    OBVIOUS
  <2>2. PICK i \in 1 .. Len(t) : t[i] = x /\ i # m
    BY <2>1 DEF ToSet
  <2>3. \E j \in 1 .. Len(t) - 1 : w[j] = t[i]
    <3>1. CASE i < m
      BY <1>3, <3>1
    <3>2. CASE ~(i < m)
      <4>1. i - 1 \in 1 .. Len(t) - 1 /\ ~(i - 1 < m) /\ (i - 1) + 1 = i
        BY <2>2, <3>2
      <4> QED
        BY <1>3, <4>1
    <3> QED
      BY <3>1, <3>2
  <2> QED
    BY <1>3, <2>2, <2>3 DEF ToSet
<1> QED
  BY <1>3, <1>4, <1>5, <1>6, <1>7

Unrepeated(t) == t = None \/ IsInjective(t)
Held(t) == IF t = None THEN {} ELSE Pair \cap ToSet(t)

\* What a statement does to the paired rows.
LEMMA PairedWritten ==
    ASSUME TypeOK, Unrepeated(table), NEW s \in Statement, ~Refuses(s), s.op \in {"insert", "delete"}
    PROVE  /\ table # None /\ Written(s) # None /\ Unrepeated(Written(s)) /\ s.arg \in Rows
           /\ s.op = "insert" => s.arg \notin ToSet(table) /\ Held(Written(s)) = Held(table) \cup ({s.arg} \cap Pair)
           /\ s.op = "delete" => Held(Written(s)) = Held(table) \ {s.arg}
<1>1. s.arg \in Rows
  BY StatementArgs
<1>2. table # None /\ table \in Seq(Rows) /\ IsInjective(table)
  BY DEF TypeOK, Content, Refuses, Missing, Unrepeated
<1>3. None \notin Seq(Rows)
  BY SessionsAssumption
<1>4. CASE s.op = "insert"
  <2>1. s.arg \notin ToSet(table)
    BY <1>2, <1>4 DEF Refuses, Duplicate
  <2>2. Written(s) = Append(table, s.arg) /\ Append(table, s.arg) \in Seq(Rows)
    BY <1>1, <1>2, <1>4 DEF Written
  <2>3. IsInjective(Append(table, s.arg)) /\ ToSet(Append(table, s.arg)) = ToSet(table) \cup {s.arg}
    BY <1>1, <1>2, <2>1, RowInserted
  <2> QED
    BY <1>1, <1>2, <1>3, <1>4, <2>1, <2>2, <2>3 DEF Held, Unrepeated
<1>5. CASE s.op = "delete"
  <2> DEFINE w == Deleted(s.arg)
  <2>1. Written(s) = w
    BY <1>5 DEF Written
  <2>2. w \in Seq(Rows) /\ IsInjective(w) /\ ToSet(w) = ToSet(table) \ {s.arg}
    <3>1. CASE s.arg \in ToSet(table)
      <4> DEFINE m == CHOOSE i \in DOMAIN table : table[i] = s.arg
      <4>1. m \in 1 .. Len(table) /\ table[m] = s.arg
        BY <1>2, <3>1 DEF ToSet
      <4>2. w = RemoveAt(table, m)
        BY <3>1 DEF Deleted
      <4> HIDE DEF m, w
      <4> QED
        BY <1>2, <4>1, <4>2, RowRemoved
    <3>2. CASE s.arg \notin ToSet(table)
      BY <1>2, <3>2 DEF Deleted
    <3> QED
      BY <3>1, <3>2
  <2> HIDE DEF w
  <2> QED
    BY <1>1, <1>2, <1>3, <1>5, <2>1, <2>2 DEF Held, Unrepeated
<1> QED
  BY <1>4, <1>5

LEMMA TogetherHeld == ASSUME NEW t PROVE Together(t) <=> t = None \/ Held(t) \in {{}, Pair}
BY DEF Together, Held

Whole(t) == Unrepeated(t) /\ Together(t)

\* A statement that touches no paired row.
LEMMA OtherWritten ==
    ASSUME TypeOK, \A i \in DOMAIN savepoints : Whole(savepoints[i]), NEW s \in Statement, ~Refuses(s), ~Paired(s), Whole(table)
    PROVE  Whole(Written(s))
<1>1. CASE s.op \in {"insert", "delete"}
  <2>1. /\ table # None /\ Written(s) # None /\ Unrepeated(Written(s))
        /\ Held(Written(s)) = Held(table)
    <3>1. s.arg \notin Pair
      BY <1>1 DEF Paired
    <3>2. Held(table) \ {s.arg} = Held(table) /\ {s.arg} \cap Pair = {}
      BY <3>1 DEF Held
    <3> QED
      BY <1>1, <3>2, PairedWritten DEF Whole
  <2> QED
    BY <2>1, TogetherHeld DEF Whole
<1>2. CASE s.op = "create"
  <2>1. Written(s) = <<>>
    BY <1>2 DEF Written
  <2> QED
    BY <2>1 DEF Whole, Unrepeated, Together, IsInjective, ToSet
<1>3. CASE s.op = "drop"
  BY <1>3 DEF Written, Whole, Unrepeated, Together
<1>4. CASE s.op = "rollback" /\ savepoints # <<>>
  <2>1. Written(s) = savepoints[Len(savepoints)]
    BY <1>4 DEF Written, Last
  <2>2. Len(savepoints) \in DOMAIN savepoints
    BY <1>4 DEF TypeOK
  <2> QED
    BY <2>1, <2>2
<1>5. CASE s.op \notin {"insert", "delete", "create", "drop"} /\ ~(s.op = "rollback" /\ savepoints # <<>>)
  BY <1>5 DEF Written
<1> QED
  BY <1>1, <1>2, <1>3, <1>4, <1>5

LEMMA StackedWhole ==
    ASSUME TypeOK, \A i \in DOMAIN savepoints : Whole(savepoints[i]), Whole(table), NEW s \in Statement
    PROVE  \A i \in DOMAIN Stacked(s) : Whole(Stacked(s)[i])
<1>1. savepoints \in Seq(Content) /\ table \in Content
  BY DEF TypeOK
<1>2. CASE s.op = "begin"
  <2>1. Stacked(s) = Append(savepoints, table)
    BY <1>2 DEF Stacked
  <2>2. /\ DOMAIN Append(savepoints, table) = 1 .. Len(savepoints) + 1 /\ DOMAIN savepoints = 1 .. Len(savepoints)
        /\ \A i \in 1 .. Len(savepoints) + 1 :
              Append(savepoints, table)[i] = IF i = Len(savepoints) + 1 THEN table ELSE savepoints[i]
    BY <1>1
  <2>3. \A i \in 1 .. Len(savepoints) + 1 : i # Len(savepoints) + 1 => i \in 1 .. Len(savepoints)
    BY <1>1
  <2> QED
    BY <2>1, <2>2, <2>3
<1>3. CASE s.op \in {"commit", "rollback"} /\ savepoints # <<>>
  <2>1. Stacked(s) = Front(savepoints)
    BY <1>3 DEF Stacked
  <2>2. /\ DOMAIN Front(savepoints) = 1 .. Len(savepoints) - 1 /\ DOMAIN savepoints = 1 .. Len(savepoints)
        /\ \A i \in 1 .. Len(savepoints) - 1 : i \in 1 .. Len(savepoints) /\ Front(savepoints)[i] = savepoints[i]
    BY <1>1, <1>3 DEF Front
  <2> QED
    BY <2>1, <2>2
<1>4. CASE s.op # "begin" /\ ~(s.op \in {"commit", "rollback"} /\ savepoints # <<>>)
  BY <1>4 DEF Stacked
<1> QED
  BY <1>2, <1>3, <1>4

LEMMA LeftoversTyped == Leftovers \subseteq Seq(Plain)
<1> SUFFICES ASSUME NEW batch \in Batches PROVE Suffixes(batch) \subseteq Seq(Plain)
  BY DEF Leftovers
<1>1. batch \in Seq(Plain)
  BY SessionsAssumption
<1>2. /\ \A l \in 1 .. Len(batch) : SubSeq(batch, l, Len(batch)) \in Seq(Plain)
      /\ <<>> \in Seq(Plain)
  BY <1>1
<1> QED
  BY <1>2 DEF Suffixes

LEMMA LeftOf ==
    ASSUME NEW X, NEW t \in Seq(X)
    PROVE  /\ \A k \in 0 .. Len(t) - 1 :
                 LET u == SubSeq(t, k + 1, Len(t))
                 IN  u # <<>> /\ Head(u) = t[k + 1] /\ Tail(u) = SubSeq(t, (k + 1) + 1, Len(t))
           /\ t # <<>> => /\ 1 \in 1 .. Len(t) /\ Head(t) = t[1] /\ Tail(t) = SubSeq(t, 2, Len(t))
                          /\ \A i \in DOMAIN Tail(t) : i + 1 \in DOMAIN t /\ Tail(t)[i] = t[i + 1]
<1>1. ASSUME NEW k \in 0 .. Len(t) - 1
      PROVE  LET u == SubSeq(t, k + 1, Len(t))
             IN  u # <<>> /\ Head(u) = t[k + 1] /\ Tail(u) = SubSeq(t, (k + 1) + 1, Len(t))
  <2> DEFINE u == SubSeq(t, k + 1, Len(t))
             v == SubSeq(t, (k + 1) + 1, Len(t))
  <2>1. u \in Seq(X) /\ Len(u) = Len(t) - k /\ \A i \in 1 .. Len(t) - k : u[i] = t[k + i]
    OBVIOUS
  <2>2. v \in Seq(X) /\ Len(v) = Len(t) - k - 1 /\ \A i \in 1 .. Len(t) - k - 1 : v[i] = t[k + 1 + i]
    OBVIOUS
  <2> HIDE DEF u, v
  <2>3. Len(u) # 0 /\ 1 \in 1 .. Len(t) - k
    BY <2>1
  <2>4. u # <<>> /\ Head(u) = t[k + 1]
    BY <2>1, <2>3
  <2>5. Tail(u) \in Seq(X) /\ Len(Tail(u)) = Len(u) - 1 /\ \A i \in 1 .. Len(u) - 1 : Tail(u)[i] = u[i + 1]
    BY <2>1, <2>4
  <2>6. \A i \in 1 .. Len(v) : Tail(u)[i] = v[i]
    <3> SUFFICES ASSUME NEW i \in 1 .. Len(v) PROVE Tail(u)[i] = v[i]
      OBVIOUS
    <3>1. i \in 1 .. Len(u) - 1 /\ i + 1 \in 1 .. Len(t) - k /\ i \in 1 .. Len(t) - k - 1 /\ k + (i + 1) = k + 1 + i
      BY <2>1, <2>2
    <3> QED
      BY <2>1, <2>2, <2>5, <3>1
  <2>7. Tail(u) = v
    <3>1. Len(Tail(u)) = Len(v)
      BY <2>1, <2>2, <2>5
    <3> DEFINE w == Tail(u)
    <3> HIDE DEF w
    <3>2. w \in Seq(X) /\ Len(w) = Len(v) /\ \A i \in 1 .. Len(v) : w[i] = v[i]
      BY <2>5, <2>6, <3>1 DEF w
    <3>3. w = v
      BY <2>2, <3>2, SeqSame
    <3> QED
      BY <3>3 DEF w
  <2> QED
    BY <2>4, <2>7 DEF u, v
<1>2. t # <<>> => /\ 1 \in 1 .. Len(t) /\ Head(t) = t[1] /\ Tail(t) = SubSeq(t, 2, Len(t))
                  /\ \A i \in DOMAIN Tail(t) : i + 1 \in DOMAIN t /\ Tail(t)[i] = t[i + 1]
  OBVIOUS
<1> QED
  BY <1>1, <1>2

-----------------------------------------------------------------------------
(* A run of paired statements, after k of them.                            *)

Done(t, k) == {t[i].arg : i \in 1 .. k}
Reached(t, k) == IF t[1].op = "insert" THEN Held(table) = Done(t, k) ELSE Held(table) \in {{}, Pair \ Done(t, k)}

LEMMA RunDone ==
    ASSUME NEW t, NEW n \in Nat \ {0}, IsRun(t, n)
    PROVE  /\ t[1].op \in {"insert", "delete"} /\ Done(t, 0) = {} /\ Done(t, n) = Pair
           /\ \A k \in 0 .. n - 1 :
                /\ Paired(t[k + 1]) /\ t[k + 1].op = t[1].op /\ Done(t, k) \subseteq Pair
                /\ t[k + 1].arg \in Pair \ Done(t, k) /\ Done(t, k + 1) = Done(t, k) \cup {t[k + 1].arg}
<1>1. 1 \in 1 .. n
  OBVIOUS
<1>2. t[1].op \in {"insert", "delete"}
  BY <1>1 DEF IsRun, Paired
<1>3. Done(t, 0) = {} /\ Done(t, n) = Pair
  BY DEF Done, IsRun
<1>4. ASSUME NEW k \in 0 .. n - 1
      PROVE  /\ Paired(t[k + 1]) /\ t[k + 1].op = t[1].op /\ Done(t, k) \subseteq Pair
             /\ t[k + 1].arg \in Pair \ Done(t, k) /\ Done(t, k + 1) = Done(t, k) \cup {t[k + 1].arg}
  <2>1. /\ k + 1 \in 1 .. n /\ \A i \in 1 .. k : i \in 1 .. n /\ i # k + 1 /\ i \in 1 .. k + 1
        /\ \A i \in 1 .. k + 1 : i \in 1 .. k \/ i = k + 1
        /\ k + 1 \in 1 .. k + 1
    OBVIOUS
  <2>2. Paired(t[k + 1]) /\ t[k + 1].op = t[1].op /\ Done(t, k) \subseteq Pair /\ t[k + 1].arg \in Pair
    BY <2>1 DEF IsRun, Paired, Done
  <2>3. t[k + 1].arg \notin Done(t, k)
    BY <2>1 DEF IsRun, Done
  <2>4. Done(t, k + 1) = Done(t, k) \cup {t[k + 1].arg}
    BY <2>1 DEF Done
  <2> QED
    BY <2>2, <2>3, <2>4
<1> QED
  BY <1>2, <1>3, <1>4

LEMMA RunMoves ==
    ASSUME TypeOK, Unrepeated(table), NEW t, NEW n \in Nat \ {0}, IsRun(t, n), NEW k \in 0 .. n - 1, Reached(t, k),
           t[k + 1] \in Statement, ~Refuses(t[k + 1]), table' = Written(t[k + 1])
    PROVE  Reached(t, k + 1)' /\ Unrepeated(table') /\ table' # None
<1> DEFINE s == t[k + 1]
<1>1. /\ Paired(s) /\ s.op = t[1].op /\ t[1].op \in {"insert", "delete"} /\ Done(t, k) \subseteq Pair
      /\ s.arg \in Pair /\ s.arg \notin Done(t, k) /\ Done(t, k + 1) = Done(t, k) \cup {s.arg}
  BY RunDone
<1> HIDE DEF s
<1>2. /\ table' # None /\ Unrepeated(table')
      /\ s.op = "insert" => Held(table') = Held(table) \cup ({s.arg} \cap Pair)
      /\ s.op = "delete" => Held(table') = Held(table) \ {s.arg}
  BY <1>1, PairedWritten DEF s
<1>3. CASE s.op = "insert"
  <2>1. Held(table') = Done(t, k + 1)
    BY <1>1, <1>2, <1>3 DEF Reached
  <2> QED
    BY <1>1, <1>2, <1>3, <2>1 DEF Reached
<1>4. CASE s.op = "delete"
  <2>1. Held(table') \in {{}, Pair \ Done(t, k + 1)}
    BY <1>1, <1>2, <1>4 DEF Reached
  <2> QED
    BY <1>1, <1>2, <1>4, <2>1 DEF Reached
<1> QED
  BY <1>1, <1>3, <1>4

-----------------------------------------------------------------------------
(* The batch that runs stands between two runs of paired statements or     *)
(* inside of one.  W holds what is left of the clients' batches at the     *)
(* former places.                                                          *)

Closed(W) ==
    /\ W \subseteq Seq(Plain) /\ Batches \subseteq W
    /\ \A t \in W : \/ t = <<>>
                    \/ ~Paired(Head(t)) /\ Tail(t) \in W
                    \/ \E n \in 1 .. Len(t) : IsRun(t, n) /\ SubSeq(t, n + 1, Len(t)) \in W

Untouched(t) == \A i \in DOMAIN t : ~Paired(t[i])
Between(W) == Whole(table) /\ (todo \in W \/ Untouched(todo))
Inside(W) ==
    /\ Unrepeated(table) /\ table # None
    /\ \E t \in W : \E n \in 1 .. Len(t), k \in Nat \ {0} :
          k < n /\ IsRun(t, n) /\ SubSeq(t, n + 1, Len(t)) \in W /\ todo = SubSeq(t, k + 1, Len(t)) /\ Reached(t, k)

PairInv(W) ==
    /\ Whole(disk) /\ \A i \in DOMAIN savepoints : Whole(savepoints[i])
    /\ IF holder = Free THEN Whole(table) ELSE Between(W) \/ Inside(W)

LEMMA RunExecuted ==
    ASSUME TypeOK, Unrepeated(table), NEW W, Closed(W), NEW t \in W, NEW n \in 1 .. Len(t), IsRun(t, n),
           SubSeq(t, n + 1, Len(t)) \in W, NEW k \in 0 .. n - 1, todo = SubSeq(t, k + 1, Len(t)), Reached(t, k),
           ~Refuses(Head(todo)), table' = Written(Head(todo)), todo' = Tail(todo)
    PROVE  Between(W)' \/ Inside(W)'
<1>1. t \in Seq(Plain) /\ Len(t) \in Nat /\ n \in Nat \ {0} /\ k \in 0 .. Len(t) - 1 /\ k + 1 \in 1 .. Len(t)
  BY DEF Closed
<1>2. Head(todo) = t[k + 1] /\ Tail(todo) = SubSeq(t, (k + 1) + 1, Len(t))
  BY <1>1, LeftOf
<1>3. t[k + 1] \in Statement
  BY <1>1, PlainStatements
<1>4. Reached(t, k + 1)' /\ Unrepeated(table') /\ table' # None
  BY <1>1, <1>2, <1>3, RunMoves
<1>5. CASE k + 1 < n
  <2>1. k + 1 \in Nat \ {0}
    BY <1>1
  <2> QED
    BY <1>2, <1>4, <1>5, <2>1 DEF Inside
<1>6. CASE ~(k + 1 < n)
  <2>1. k + 1 = n
    BY <1>1, <1>6
  <2>2. todo' \in W
    BY <1>2, <2>1
  <2>3. Held(table') \in {{}, Pair}
    <3>1. Done(t, n) = Pair
      BY <1>1, RunDone
    <3> QED
      BY <1>4, <2>1, <3>1 DEF Reached
  <2>4. Whole(table')
    BY <1>4, <2>3, TogetherHeld DEF Whole
  <2> QED
    BY <2>2, <2>4 DEF Between
<1> QED
  BY <1>5, <1>6

\* One statement of the batch.
LEMMA PairExecuted ==
    ASSUME TypeOK, NEW W, Closed(W), PairInv(W), NEW c \in Clients, Execute(c)
    PROVE  PairInv(W)'
<1> DEFINE s == Head(todo)
<1>1. /\ holder # Free /\ holder' = holder /\ todo # <<>> /\ ~Refuses(s) /\ table' = Written(s) /\ savepoints' = Stacked(s)
      /\ todo' = Tail(todo) /\ disk' = disk
  BY SessionsAssumption DEF Execute, Runs
<1>2. todo \in Seq(Statement) /\ s \in Statement /\ s = todo[1]
  BY <1>1 DEF TypeOK
<1>3. Whole(disk) /\ (\A i \in DOMAIN savepoints : Whole(savepoints[i])) /\ (Between(W) \/ Inside(W))
  BY <1>1 DEF PairInv
<1> SUFFICES (\A i \in DOMAIN savepoints' : Whole(savepoints'[i])) /\ (Between(W)' \/ Inside(W)')
  BY <1>1, <1>3 DEF PairInv, Whole, Unrepeated, Together
<1>4. CASE Inside(W)
  <2>1. PICK t \in W : \E n \in 1 .. Len(t), k \in Nat \ {0} :
             k < n /\ IsRun(t, n) /\ SubSeq(t, n + 1, Len(t)) \in W /\ todo = SubSeq(t, k + 1, Len(t)) /\ Reached(t, k)
    BY <1>4 DEF Inside
  <2>2. PICK n \in 1 .. Len(t), k \in Nat \ {0} :
             k < n /\ IsRun(t, n) /\ SubSeq(t, n + 1, Len(t)) \in W /\ todo = SubSeq(t, k + 1, Len(t)) /\ Reached(t, k)
    BY <2>1
  <2>3. t \in Seq(Plain) /\ Len(t) \in Nat /\ n \in Nat \ {0} /\ k \in 0 .. n - 1 /\ k \in 0 .. Len(t) - 1
    BY <2>2 DEF Closed
  <2>4. s = t[k + 1]
    BY <2>2, <2>3, LeftOf
  <2>5. s.op \in {"insert", "delete"}
    BY <2>2, <2>3, <2>4, RunDone
  <2>6. savepoints' = savepoints
    BY <1>1, <2>5 DEF Stacked
  <2>7. Between(W)' \/ Inside(W)'
    BY <1>1, <1>4, <2>2, <2>3, RunExecuted DEF Inside
  <2> QED
    BY <1>3, <2>6, <2>7
<1>5. CASE Between(W)
  <2>1. Whole(table)
    BY <1>5 DEF Between
  <2>2. \A i \in DOMAIN savepoints' : Whole(savepoints'[i])
    BY <1>1, <1>2, <1>3, <2>1, StackedWhole
  <2>3. ASSUME ~Paired(s), todo' \in W \/ Untouched(todo') PROVE Between(W)'
    <3>1. Whole(table')
      BY <1>1, <1>2, <1>3, <2>1, <2>3, OtherWritten
    <3> QED
      BY <2>3, <3>1 DEF Between
  <2>4. CASE Untouched(todo)
    <3>1. 1 \in DOMAIN todo /\ \A i \in DOMAIN Tail(todo) : i + 1 \in DOMAIN todo /\ Tail(todo)[i] = todo[i + 1]
      BY <1>1, <1>2, LeftOf
    <3>2. ~Paired(s) /\ Untouched(todo')
      BY <1>1, <1>2, <2>4, <3>1 DEF Untouched
    <3> QED
      BY <2>2, <2>3, <3>2
  <2>5. CASE todo \in W
    <3>1. CASE ~Paired(s) /\ Tail(todo) \in W
      BY <1>1, <2>2, <2>3, <3>1
    <3>2. ASSUME NEW n \in 1 .. Len(todo), IsRun(todo, n), SubSeq(todo, n + 1, Len(todo)) \in W
          PROVE  Between(W)' \/ Inside(W)'
      <4>1. n \in Nat \ {0} /\ 0 \in 0 .. n - 1 /\ 0 + 1 = 1
        BY <1>2
      <4>2. PICK t \in W : t = todo
        BY <2>5
      <4>3. todo = SubSeq(t, 0 + 1, Len(t))
        <5> DEFINE u == SubSeq(t, 1, Len(t))
        <5>1. u \in Seq(Statement) /\ Len(u) = Len(t) /\ \A i \in 1 .. Len(t) : u[i] = t[i]
          BY <1>2, <4>2
        <5> HIDE DEF u
        <5>2. u = t
          BY <1>2, <4>2, <5>1, SeqSame
        <5> QED
          BY <4>2, <5>2 DEF u
      <4>4. s.op \in {"insert", "delete"} /\ s.arg \in Pair
        BY <1>2, <3>2, <4>1 DEF IsRun, Paired
      <4>5. Reached(t, 0)
        <5>1. Done(t, 0) = {}
          BY DEF Done
        <5>2. table # None /\ (s.op = "insert" => s.arg \notin ToSet(table))
          BY <1>1, <1>2, <2>1, <4>4, PairedWritten DEF Whole
        <5>3. Held(table) \in {{}, Pair}
          BY <2>1, <5>2, TogetherHeld DEF Whole
        <5>4. s.op = "insert" => Held(table) = {}
          BY <4>4, <5>2, <5>3 DEF Held
        <5> QED
          BY <1>2, <4>2, <5>1, <5>3, <5>4 DEF Reached
      <4> QED
        BY <1>1, <2>1, <3>2, <4>1, <4>2, <4>3, <4>5, RunExecuted DEF Whole
    <3>3. \/ ~Paired(s) /\ Tail(todo) \in W
          \/ \E n \in 1 .. Len(todo) : IsRun(todo, n) /\ SubSeq(todo, n + 1, Len(todo)) \in W
      BY <1>1, <2>5 DEF Closed
    <3> QED
      BY <2>2, <3>1, <3>2, <3>3
  <2> QED
    BY <1>5, <2>4, <2>5 DEF Between
<1> QED
  BY <1>3, <1>4, <1>5

\* A return finds the batch between two runs: within one nothing fails.
LEMMA PairAnswered ==
    ASSUME TypeOK, Levels, NEW W, Closed(W), PairInv(W), NEW c \in Clients,
           StatementFails(c) \/ StatementPanics(c) \/ BatchDone(c) \/ CommandReturns(c)
    PROVE  PairInv(W)'
<1>1. /\ holder # Free /\ UNCHANGED <<table, savepoints, disk>> /\ todo' = <<>>
      /\ todo = <<>> \/ Refuses(Head(todo)) \/ Head(todo).op = "panic"
  BY SessionsAssumption DEF StatementFails, StatementPanics, BatchDone, CommandReturns, Runs, Return, Levels, store
<1>2. ASSUME Inside(W) PROVE FALSE
  <2>1. PICK t \in W : \E n \in 1 .. Len(t), k \in Nat \ {0} :
             k < n /\ IsRun(t, n) /\ todo = SubSeq(t, k + 1, Len(t)) /\ Reached(t, k)
    BY <1>2 DEF Inside
  <2>2. PICK n \in 1 .. Len(t), k \in Nat \ {0} :
             k < n /\ IsRun(t, n) /\ todo = SubSeq(t, k + 1, Len(t)) /\ Reached(t, k)
    BY <2>1
  <2>3. t \in Seq(Plain) /\ n \in Nat \ {0} /\ k \in 0 .. n - 1 /\ k \in 0 .. Len(t) - 1
    BY <2>2 DEF Closed
  <2> DEFINE s == Head(todo)
  <2>4. todo # <<>> /\ s = t[k + 1]
    BY <2>2, <2>3, LeftOf
  <2>5. s.op = t[1].op /\ s.op \in {"insert", "delete"} /\ s.arg \in Pair /\ s.arg \notin Done(t, k)
    BY <2>2, <2>3, <2>4, RunDone DEF Paired
  <2> HIDE DEF s
  <2>6. s.op = "insert" => s.arg \notin ToSet(table)
    BY <1>2, <2>2, <2>5 DEF Reached, Held, Inside
  <2>7. ~Refuses(s)
    BY <1>2, <2>5, <2>6 DEF Refuses, Parses, Missing, Duplicate, Inside
  <2> QED
    BY <1>1, <2>4, <2>5, <2>7 DEF s
<1>3. Whole(table)'
  BY <1>1, <1>2 DEF PairInv, Between, Whole, Unrepeated, Together
<1>4. Between(W)'
  BY <1>1, <1>3 DEF Between, Untouched
<1>5. Whole(disk)' /\ \A i \in DOMAIN savepoints' : Whole(savepoints'[i])
  BY <1>1 DEF PairInv, Whole, Unrepeated, Together
<1> QED
  BY <1>3, <1>4, <1>5 DEF PairInv

LEMMA PairStep ==
    ASSUME NEW W, Closed(W)
    PROVE  TypeOK /\ Levels /\ PairInv(W) /\ [Next]_vars => PairInv(W)'
<1> SUFFICES ASSUME TypeOK, Levels, PairInv(W), [Next]_vars PROVE PairInv(W)'
  OBVIOUS
<1>1. ASSUME NEW c \in Clients, NEW batch, NEW d, Take(c, batch, d), UNCHANGED <<table, savepoints, disk>>,
             batch \in W \/ Untouched(batch)
      PROVE  PairInv(W)'
  <2>1. holder = Free /\ holder' # Free /\ todo' = batch
    BY <1>1, SessionsAssumption DEF Take
  <2>2. Between(W)'
    BY <1>1, <2>1 DEF PairInv, Between
  <2> QED
    BY <1>1, <2>1, <2>2 DEF PairInv
<1>2. ASSUME holder = Free, holder' = Free, table' \in {table, disk, None}, disk' \in {table, disk},
             savepoints' = savepoints \/ savepoints' = <<>>
      PROVE  PairInv(W)'
  <2>1. Whole(None)
    BY DEF Whole, Unrepeated, Together
  <2>2. Whole(table) /\ Whole(disk) /\ \A i \in DOMAIN savepoints : Whole(savepoints[i])
    BY <1>2 DEF PairInv
  <2>3. Whole(table') /\ Whole(disk') /\ \A i \in DOMAIN savepoints' : Whole(savepoints'[i])
    BY <1>2, <2>1, <2>2
  <2> QED
    BY <1>2, <2>3 DEF PairInv
<1>3. ASSUME NEW c \in Clients, NEW a, AnswerAtOnce(c, a) PROVE holder = Free /\ holder' = Free
  BY <1>3 DEF AnswerAtOnce
<1>4. ASSUME NEW c \in Clients, Request(c) PROVE PairInv(W)'
  <2>1. ASSUME NEW batch \in Batches, Send(c, batch) PROVE PairInv(W)'
    <3>1. batch \in W
      BY DEF Closed
    <3> QED
      BY <1>1, <2>1, <3>1 DEF Send, store
  <2>2. ASSUME NEW n \in Names, NEW limit \in Limits, Fetch(c, n, limit) PROVE PairInv(W)'
    <3> DEFINE s == Page(cursors[n].sql, limit, cursors[n].offset)
    <3>1. cursors[n].sql \in {Select, Bad}
      BY <2>2 DEF Fetch, TypeOK
    <3>2. ~Paired(s)
      BY <3>1 DEF Page, Stmt, Select, Bad, Paired
    <3> HIDE DEF s
    <3>3. Untouched(<<s>>)
      BY <3>2 DEF Untouched
    <3>4. Take(c, <<s>>, 2) /\ UNCHANGED <<table, savepoints, disk>>
      BY <2>2 DEF Fetch, store, s
    <3> QED
      BY <1>1, <3>3, <3>4
  <2>3. ASSUME NEW n \in Names, NEW r \in Params, ExecutePrepared(c, n, r) PROVE PairInv(W)'
    <3> DEFINE s == Stmt(prepared[Lower[n]], r)
    <3>1. r \notin Pair
      BY SessionsAssumption
    <3>2. ~Paired(s)
      BY <3>1 DEF Stmt, Paired
    <3> HIDE DEF s
    <3>3. Untouched(<<s>>)
      BY <3>2 DEF Untouched
    <3>4. Take(c, <<s>>, 2) /\ UNCHANGED <<table, savepoints, disk>>
      BY <2>3 DEF ExecutePrepared, store, s
    <3> QED
      BY <1>1, <3>3, <3>4
  <2>4. ASSUME \/ \E n \in Names, q \in {Select, Bad} : CreateCursor(c, n, q)
               \/ \E n \in Names : FetchUnknown(c, n) \/ DropCursor(c, n) \/ ExecuteUnknown(c, n)
               \/ \E n \in Names, op \in Templates : Prepare(c, n, op)
               \/ Reset(c) \/ Load(c)
        PROVE  PairInv(W)'
    <3>1. /\ \E a : AnswerAtOnce(c, a)
          /\ table' \in {table, disk, None} /\ disk' = disk /\ (savepoints' = savepoints \/ savepoints' = <<>>)
      BY <2>4 DEF CreateCursor, FetchUnknown, DropCursor, ExecuteUnknown, Prepare, Reset, Load, store
    <3> QED
      BY <1>2, <1>3, <3>1
  <2> QED
    BY <1>4, <2>1, <2>2, <2>3, <2>4 DEF Request
<1>5. ASSUME NEW c \in Clients, Run(c) PROVE PairInv(W)'
  BY <1>5, PairExecuted, PairAnswered DEF Run
<1>6. CASE Autosave
  <2>1. holder = Free /\ holder' = Free /\ table' = table /\ disk' = table /\ savepoints' = savepoints
    BY <1>6 DEF Autosave, Unlocked, store
  <2> QED
    BY <1>2, <2>1
<1>7. CASE Crash
  <2>1. holder' = Free /\ table' = disk /\ disk' = disk /\ savepoints' = <<>>
    BY <1>7 DEF Crash
  <2>2. Whole(disk)
    BY DEF PairInv
  <2> QED
    BY <2>1, <2>2 DEF PairInv
<1>8. CASE UNCHANGED vars
  <2>1. UNCHANGED <<table, savepoints, disk, holder, todo>>
    BY <1>8 DEF vars
  <2> QED
    BY <2>1 DEF PairInv, Whole, Unrepeated, Together, Between, Inside, Reached, Held
<1> QED
  BY <1>4, <1>5, <1>6, <1>7, <1>8 DEF Next

(* Rows that the clients' batches insert and delete in unbroken runs are   *)
(* together for everybody else: the mutex is held from a batch's first     *)
(* statement to its answer, autosave waits for it, and inside a run no     *)
(* statement can fail or panic (exec_sql_statements, autosave).            *)
THEOREM PairsCorrect ==
    ASSUME PairedBatches
    PROVE  Spec => []PairsTogether
<1>1. PICK W : Closed(W)
  BY LeftoversTyped DEF PairedBatches, Closed
<1>2. Init => PairInv(W)
  <2> SUFFICES ASSUME Init PROVE PairInv(W)
    OBVIOUS
  <2>1. Whole(<<>>)
    BY DEF Whole, Unrepeated, Together, IsInjective, ToSet
  <2> QED
    BY <2>1 DEF Init, PairInv
<1>3. Sound /\ PairInv(W) /\ [Next]_vars => PairInv(W)'
  BY <1>1, PairStep DEF Sound
<1>4. PairInv(W) => PairsTogether
  BY DEF PairInv, Whole, PairsTogether
<1> QED
  BY <1>2, <1>3, <1>4, SoundAlways, PTL DEF Spec
=============================================================================
