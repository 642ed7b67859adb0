-------------------------- MODULE ForwardingProofs --------------------------
(***************************************************************************)
(* Answers of forwarded statements reach the callers that asked, for any   *)
(* number of processes connected in any way, loops included, as long as no *)
(* text holds two statements on two lines.                                 *)
(***************************************************************************)
EXTENDS Forwarding, TLAPS

HasSql(s) == \E i \in 1 .. Len(s) : s[i].kind = "sql"
OneSql(s) == \A i, j \in 1 .. Len(s) : s[i].kind = "sql" /\ s[j].kind = "sql" => i = j

(* Each text has one statement: the premise of the results below. *)
OneStatement == \A r \in Requests :
    \A i, j \in 1 .. Len(r) : r[i] = "sql" /\ r[j] = "sql" => i = j

(* What the steps do to the lines of a stream. *)
LEMMA LinesTail ==
    ASSUME NEW s \in Seq(Line), s # <<>>
    PROVE  /\ Head(s) \in Line /\ Tail(s) \in Seq(Line)
           /\ HasSql(Tail(s)) => HasSql(s)
           /\ OneSql(s) => OneSql(Tail(s))
           /\ OneSql(s) /\ Head(s).kind = "sql" => HasSql(s) /\ ~HasSql(Tail(s))
<1>1. Len(s) \in Nat \ {0} /\ Head(s) = s[1] /\ Len(Tail(s)) = Len(s) - 1
  OBVIOUS
<1>2. Head(s) \in Line /\ Tail(s) \in Seq(Line)
  OBVIOUS
<1>3. \A i \in 1 .. Len(Tail(s)) : Tail(s)[i] = s[i + 1] /\ i + 1 \in 1 .. Len(s)
  BY <1>1
<1>4. HasSql(Tail(s)) => HasSql(s)
  BY <1>1, <1>3 DEF HasSql
<1>5. OneSql(s) => OneSql(Tail(s))
  <2> SUFFICES ASSUME OneSql(s), NEW i \in 1 .. Len(Tail(s)), NEW j \in 1 .. Len(Tail(s)),
                      Tail(s)[i].kind = "sql", Tail(s)[j].kind = "sql"
               PROVE  i = j
    BY DEF OneSql
  <2>1. i + 1 = j + 1
    BY <1>3 DEF OneSql
  <2> QED
    BY <2>1, <1>1
<1>6. OneSql(s) /\ Head(s).kind = "sql" => HasSql(s) /\ ~HasSql(Tail(s))
  <2> SUFFICES ASSUME OneSql(s), Head(s).kind = "sql"
               PROVE  HasSql(s) /\ ~HasSql(Tail(s))
    OBVIOUS
  <2>1. 1 \in 1 .. Len(s) /\ s[1].kind = "sql"
    BY <1>1
  <2>2. ASSUME NEW i \in 1 .. Len(Tail(s)), Tail(s)[i].kind = "sql" PROVE FALSE
    <3>1. s[i + 1].kind = "sql" /\ i + 1 \in 1 .. Len(s) /\ i + 1 # 1
      BY <2>2, <1>3, <1>1
    <3> QED
      BY <3>1, <2>1 DEF OneSql
  <2> QED
    BY <2>1, <2>2 DEF HasSql
<1> QED
  BY <1>2, <1>4, <1>5, <1>6

(* What a caller writes: the lines of its text, all with its request's id. *)
Lines(r, c) == [n \in DOMAIN r |-> [kind |-> r[n], id |-> <<c, 1 - turn[c]>>]]

LEMMA LinesWritten ==
    ASSUME NEW r \in Requests, NEW c \in Callers, turn[c] \in {0, 1},
           NEW s \in Seq(Line), ~HasSql(s), OneStatement
    PROVE  /\ Lines(r, c) \in Seq(Line)
           /\ s \o Lines(r, c) \in Seq(Line)
           /\ OneSql(s \o Lines(r, c))
           /\ \A i \in 1 .. Len(s \o Lines(r, c)) :
                (s \o Lines(r, c))[i].kind = "sql" => (s \o Lines(r, c))[i].id = <<c, 1 - turn[c]>>
<1> DEFINE w == Lines(r, c)
<1>1. r \in Seq({"sql", "blank", "quit"}) /\ DOMAIN r = 1 .. Len(r) /\ Len(r) \in Nat
  BY ForwardingAssumption
<1>2. <<c, 1 - turn[c]>> \in Ids
  BY DEF Ids
<1>3. w \in [1 .. Len(r) -> Line]
  BY <1>1, <1>2 DEF Lines, Line
<1>4. w \in Seq(Line) /\ Len(w) = Len(r)
  BY <1>1, <1>3
<1>5. s \o w \in Seq(Line) /\ Len(s \o w) = Len(s) + Len(r) /\ Len(s) \in Nat
  BY <1>4
<1>6. \A i \in 1 .. Len(s \o w) :
        IF i <= Len(s) THEN i \in 1 .. Len(s) /\ (s \o w)[i] = s[i]
        ELSE i - Len(s) \in 1 .. Len(r) /\ (s \o w)[i] = w[i - Len(s)]
  BY <1>1, <1>4, <1>5
<1>7. \A i \in 1 .. Len(s \o w) : (s \o w)[i].kind = "sql" =>
        /\ i - Len(s) \in 1 .. Len(r) /\ r[i - Len(s)] = "sql"
        /\ (s \o w)[i].id = <<c, 1 - turn[c]>>
  <2> SUFFICES ASSUME NEW i \in 1 .. Len(s \o w), (s \o w)[i].kind = "sql"
               PROVE  /\ i - Len(s) \in 1 .. Len(r) /\ r[i - Len(s)] = "sql"
                      /\ (s \o w)[i].id = <<c, 1 - turn[c]>>
    OBVIOUS
  <2>1. ~(i <= Len(s))
    BY <1>6 DEF HasSql
  <2>2. i - Len(s) \in 1 .. Len(r) /\ (s \o w)[i] = w[i - Len(s)]
    BY <1>6, <2>1
  <2>3. w[i - Len(s)] = [kind |-> r[i - Len(s)], id |-> <<c, 1 - turn[c]>>]
    BY <2>2, <1>1 DEF Lines
  <2> QED
    BY <2>2, <2>3
<1>8. OneSql(s \o w)
  <2> SUFFICES ASSUME NEW i \in 1 .. Len(s \o w), NEW j \in 1 .. Len(s \o w),
                      (s \o w)[i].kind = "sql", (s \o w)[j].kind = "sql"
               PROVE  i = j
    BY DEF OneSql
  <2>1. i - Len(s) = j - Len(s)
    BY <1>7 DEF OneStatement
  <2> QED
    BY <2>1, <1>5
<1> QED
  BY <1>4, <1>5, <1>7, <1>8

LEMMA UnreadTyped ==
    ASSUME TypeOK, NEW p \in Procs, NEW rest \in Unread(p)
    PROVE  /\ rest \in Seq(Ids \cup {Closed}) /\ LineRead(p) \in Ids \cup {Closed}
           /\ Len(outbox[p]) <= 1 => rest = <<>>
<1> DEFINE o == outbox[p]
<1>1. o \in Seq(Ids \cup {Closed}) /\ Len(o) \in Nat
  BY DEF TypeOK
<1>2. LineRead(p) \in Ids \cup {Closed}
  BY <1>1 DEF LineRead
<1>3. CASE o = <<>>
  BY <1>2, <1>3 DEF Unread
<1>4. CASE o # <<>>
  <2>1. PICK n \in 1 .. Len(o) : rest = SubSeq(o, n + 1, Len(o))
    BY <1>4 DEF Unread
  <2>2. rest \in Seq(Ids \cup {Closed}) /\ Len(rest) = Len(o) - n
    BY <1>1, <2>1
  <2> QED
    BY <1>1, <1>2, <2>1, <2>2
<1> QED
  BY <1>3, <1>4

(* A session that has forwarded its line has an onward stream. *)
Typed == TypeOK /\ \A p \in Procs : serving[p] => Remote[p] \in Procs

LEMMA NextTurn == ASSUME TypeOK, NEW c \in Callers
                  PROVE  1 - turn[c] \in {0, 1} /\ <<c, 1 - turn[c]>> \in Ids
<1>1. turn[c] = 0 \/ turn[c] = 1
  BY DEF TypeOK
<1>2. 1 - turn[c] \in {0, 1}
  BY <1>1
<1> QED
  BY <1>2 DEF Ids

LEMMA LinesType == ASSUME TypeOK, NEW c \in Callers, NEW r \in Requests
                   PROVE  Lines(r, c) \in Seq(Line)
<1>1. r \in Seq({"sql", "blank", "quit"}) /\ DOMAIN r = 1 .. Len(r) /\ Len(r) \in Nat
  BY ForwardingAssumption
<1>2. <<c, 1 - turn[c]>> \in Ids
  BY NextTurn
<1>3. Lines(r, c) \in [1 .. Len(r) -> Line]
  BY <1>1, <1>2 DEF Lines, Line
<1> QED
  BY <1>1, <1>3

(* Type correctness of the streams, the mutexes and the answers. *)
LEMMA TypeStep == Typed /\ [Next]_vars => Typed'
<1> SUFFICES ASSUME Typed, [Next]_vars PROVE Typed'
  OBVIOUS
<1> USE ForwardingAssumption DEF Typed, TypeOK
<1>1. ASSUME NEW c \in Callers, RunLocally(c) \/ ForwardFails(c) PROVE Typed'
  <2>1. turn' \in [Callers -> {0, 1}]
    BY <1>1, NextTurn DEF RunLocally, ForwardFails
  <2>2. CASE RunLocally(c)
    <3>1. <<c, 1 - turn[c]>> \in Ids
      BY NextTurn
    <3>2. answer' \in [Callers -> Ids \cup {Closed}]
      BY <2>2, <3>1 DEF RunLocally
    <3> QED
      BY <2>1, <2>2, <3>2 DEF RunLocally
  <2>3. CASE ForwardFails(c)
    BY <2>1, <2>3 DEF ForwardFails
  <2> QED
    BY <1>1, <2>2, <2>3
<1>2. ASSUME NEW c \in Callers, NEW r \in Requests, Forward(c, r) PROVE Typed'
  <2> DEFINE w == Lines(r, c)
  <2>1. r \in Seq({"sql", "blank", "quit"}) /\ DOMAIN r = 1 .. Len(r) /\ Len(r) \in Nat
    OBVIOUS
  <2>2. w \in Seq(Line)
    BY LinesType
  <2>3. inbox' = [inbox EXCEPT ![Home[c]] = IF alive[Home[c]] THEN @ \o w ELSE @]
    BY <1>2 DEF Forward, Write, Lines
  <2>4. inbox' \in [Procs -> Seq(Line)]
    BY <2>2, <2>3
  <2>5. turn' \in [Callers -> {0, 1}]
    BY <1>2, NextTurn DEF Forward
  <2>6. holder' \in [Procs -> {Free} \cup Callers \cup Procs]
    BY <1>2 DEF Forward
  <2> QED
    BY <1>2, <2>4, <2>5, <2>6 DEF Forward
<1>3. ASSUME NEW c \in Callers, Receive(c) PROVE Typed'
  <2>1. PICK rest \in Unread(Home[c]) : outbox' = [outbox EXCEPT ![Home[c]] = rest]
    BY <1>3 DEF Receive
  <2>2. rest \in Seq(Ids \cup {Closed}) /\ LineRead(Home[c]) \in Ids \cup {Closed}
    BY UnreadTyped
  <2>3. answer' \in [Callers -> Ids \cup {Closed}] /\ outbox' \in [Procs -> Seq(Ids \cup {Closed})]
    BY <1>3, <2>1, <2>2 DEF Receive
  <2>4. holder' \in [Procs -> {Free} \cup Callers \cup Procs]
    BY <1>3 DEF Receive
  <2> QED
    BY <1>3, <2>3, <2>4 DEF Receive
<1>4. ASSUME NEW p \in Procs, SkipBlank(p) \/ CloseStream(p) PROVE Typed'
  <2>1. inbox[p] # <<>>
    BY <1>4 DEF SkipBlank, CloseStream, NextLine
  <2>2. Tail(inbox[p]) \in Seq(Line)
    BY <2>1, LinesTail
  <2>3. inbox' \in [Procs -> Seq(Line)]
    <3>1. CASE SkipBlank(p)
      BY <2>2, <3>1 DEF SkipBlank
    <3>2. CASE CloseStream(p)
      <4>1. <<>> \in Seq(Line)
        OBVIOUS
      <4> QED
        BY <3>2, <4>1 DEF CloseStream
    <3> QED
      BY <1>4, <3>1, <3>2
  <2>4. alive' \in [Procs -> BOOLEAN]
    BY <1>4 DEF SkipBlank, CloseStream
  <2> QED
    BY <1>4, <2>3, <2>4 DEF SkipBlank, CloseStream
<1>5. ASSUME NEW p \in Procs, Serve(p) PROVE Typed'
  <2>1. inbox[p] # <<>>
    BY <1>5 DEF Serve, NextLine
  <2>2. Tail(inbox[p]) \in Seq(Line) /\ Head(inbox[p]).id \in Ids
    BY <2>1, LinesTail DEF Line
  <2>3. Append(outbox[p], Head(inbox[p]).id) \in Seq(Ids \cup {Closed})
    BY <2>2
  <2> QED
    BY <1>5, <2>2, <2>3 DEF Serve
<1>6. ASSUME NEW p \in Procs, ServeByForwarding(p) PROVE Typed'
  <2> DEFINE q == Remote[p]
  <2>1. inbox[p] # <<>> /\ q \in Procs
    BY <1>6 DEF ServeByForwarding, NextLine
  <2>2. Tail(inbox[p]) \in Seq(Line) /\ Head(inbox[p]) \in Line
    BY <2>1, LinesTail
  <2> DEFINE read == [inbox EXCEPT ![p] = Tail(@)]
  <2>3. read \in [Procs -> Seq(Line)]
    BY <2>2
  <2>3a. Append(read[q], Head(inbox[p])) \in Seq(Line)
    BY <2>1, <2>2, <2>3
  <2>4. [read EXCEPT ![q] = Append(@, Head(inbox[p]))] \in [Procs -> Seq(Line)]
    BY <2>1, <2>3, <2>3a
  <2>5. inbox' \in [Procs -> Seq(Line)]
    BY <1>6, <2>3, <2>4 DEF ServeByForwarding
  <2> QED
    BY <1>6, <2>1, <2>5 DEF ServeByForwarding
<1>7. ASSUME NEW p \in Procs, PassBack(p) PROVE Typed'
  <2> DEFINE q == Remote[p]
  <2>0. q \in Procs
    BY <1>7 DEF PassBack
  <2>1. PICK rest \in Unread(q) :
           outbox' = [[outbox EXCEPT ![q] = rest] EXCEPT ![p] = Append(@, LineRead(q))]
    BY <1>7 DEF PassBack
  <2>2. rest \in Seq(Ids \cup {Closed}) /\ LineRead(q) \in Ids \cup {Closed}
    BY <2>0, UnreadTyped
  <2> HIDE DEF q
  <2> DEFINE mid == [outbox EXCEPT ![q] = rest]
  <2>3. mid \in [Procs -> Seq(Ids \cup {Closed})]
    BY <2>0, <2>2
  <2>4. Append(mid[p], LineRead(q)) \in Seq(Ids \cup {Closed})
    BY <2>2, <2>3
  <2>5. outbox' = [mid EXCEPT ![p] = Append(@, LineRead(q))]
    BY <2>1
  <2>6. outbox' \in [Procs -> Seq(Ids \cup {Closed})]
    BY <2>3, <2>4, <2>5
  <2>7. holder' \in [Procs -> {Free} \cup Callers \cup Procs]
    BY <1>7, <2>0 DEF PassBack, q
  <2>8. serving' = [serving EXCEPT ![p] = FALSE]
    BY <1>7 DEF PassBack
  <2>9. serving' \in [Procs -> BOOLEAN] /\ \A r \in Procs : serving'[r] => serving[r]
    BY <2>8
  <2>10. UNCHANGED <<turn, status, answer, inbox, alive>>
    BY <1>7 DEF PassBack
  <2> QED
    BY <2>6, <2>7, <2>9, <2>10
<1>8. CASE UNCHANGED vars
  BY <1>8 DEF vars
<1> QED
  BY <1>1, <1>2, <1>3, <1>4, <1>5, <1>6, <1>7, <1>8 DEF Next

THEOREM TypeCorrect == Spec => []TypeOK
<1>1. Init => Typed
  BY ForwardingAssumption DEF Init, Typed, TypeOK, Ids
<1>2. Typed => TypeOK
  BY DEF Typed
<1> QED
  BY <1>1, <1>2, TypeStep, PTL DEF Spec

-----------------------------------------------------------------------------
(* The statement a stream has at work is on its way to the other process,  *)
(* in its session's hands, or answered.                                    *)
AtWork(p) == serving[p] \/ outbox[p] # <<>> \/ HasSql(inbox[p])

(* A stream has one statement at most, and a dead stream none on its way.  *)
StreamOk(p) ==
    /\ OneSql(inbox[p])
    /\ HasSql(inbox[p]) => ~serving[p] /\ outbox[p] = <<>>
    /\ serving[p] => outbox[p] = <<>> /\ holder[Remote[p]] = p
    /\ Len(outbox[p]) <= 1
    /\ ~alive[p] => ~serving[p] /\ inbox[p] = <<>>

CallerOk(c) ==
    /\ status[c] = "sent" => holder[Home[c]] = c
    /\ status[c] = "idle" => answer[c] \in {<<c, turn[c]>>, Closed}

(* own names the caller for whom stream p works.  behind is the chain of   *)
(* sessions between the two: each has forwarded the statement to the next  *)
(* and holds the mutex of the process it was forwarded from.               *)
Works(p, own, behind) ==
    /\ status[own[p]] = "sent"
    /\ \A i \in 1 .. Len(inbox[p]) : inbox[p][i].kind = "sql" => inbox[p][i].id = <<own[p], turn[own[p]]>>
    /\ \A i \in 1 .. Len(outbox[p]) : outbox[p][i] \in {<<own[p], turn[own[p]]>>, Closed}
    /\ Home[own[p]] \in behind[p] \cup {p}
    /\ \A a \in behind[p] : serving[a] /\ Remote[a] \in behind[p] \cup {p} /\ own[a] = own[p]
    /\ \/ holder[p] = own[p] /\ Home[own[p]] = p
       \/ holder[p] \in behind[p]

Chained(own, behind) == \A p \in Procs : AtWork(p) => Works(p, own, behind)

AnswersInv ==
    /\ Typed
    /\ \A p \in Procs : StreamOk(p)
    /\ \A c \in Callers : CallerOk(c)
    /\ \E own \in [Procs -> Callers], behind \in [Procs -> SUBSET Procs] : Chained(own, behind)

(* What a step does to one stream or one chain of sessions concerns only   *)
(* what these are made of.                                                 *)
LEMMA StreamSame ==
    ASSUME NEW p \in Procs, StreamOk(p), inbox'[p] = inbox[p], outbox'[p] = outbox[p],
           serving'[p] = serving[p], alive'[p] = alive[p],
           serving[p] => holder'[Remote[p]] = p
    PROVE  StreamOk(p)'
BY DEF StreamOk

LEMMA WorksSame ==
    ASSUME NEW own, NEW behind, NEW own2, NEW behind2, NEW p \in Procs,
           behind[p] \in SUBSET Procs, own[p] \in Callers,
           Works(p, own, behind), own2[p] = own[p], behind2[p] = behind[p],
           status'[own[p]] = status[own[p]], turn'[own[p]] = turn[own[p]],
           inbox'[p] = inbox[p], outbox'[p] = outbox[p], holder'[p] = holder[p],
           \A a \in behind[p] : serving'[a] = serving[a] /\ own2[a] = own[a]
    PROVE  Works(p, own2, behind2)'
BY DEF Works

(* A request that stays with its caller's process, or a stream that is     *)
(* already closed.                                                         *)
LEMMA AnsweredAtOnce ==
    ASSUME AnswersInv, NEW c \in Callers, RunLocally(c) \/ ForwardFails(c), Typed'
    PROVE  AnswersInv'
<1> USE ForwardingAssumption
<1>1. /\ UNCHANGED <<holder, status, inbox, serving, outbox, alive>>
      /\ status[c] = "idle" /\ turn' = [turn EXCEPT ![c] = 1 - @]
      /\ \E x \in {<<c, 1 - turn[c]>>, Closed} : answer' = [answer EXCEPT ![c] = x]
  BY DEF RunLocally, ForwardFails
<1>2. \A p \in Procs : StreamOk(p)'
  BY <1>1 DEF AnswersInv, StreamOk
<1>3. \A d \in Callers : CallerOk(d)'
  BY <1>1 DEF AnswersInv, CallerOk, Typed, TypeOK
<1>4. PICK own \in [Procs -> Callers], behind \in [Procs -> SUBSET Procs] : Chained(own, behind)
  BY DEF AnswersInv
<1>5. Chained(own, behind)'
  <2> SUFFICES ASSUME NEW p \in Procs, AtWork(p)' PROVE Works(p, own, behind)'
    BY DEF Chained
  <2>1. AtWork(p)
    BY <1>1 DEF AtWork
  <2>2. Works(p, own, behind)
    BY <2>1, <1>4 DEF Chained
  <2>3. own[p] # c
    BY <1>1, <2>2 DEF Works
  <2>4. turn'[own[p]] = turn[own[p]]
    BY <1>1, <2>3 DEF AnswersInv, Typed, TypeOK
  <2> QED
    BY <1>1, <2>2, <2>4, WorksSame
<1> QED
  BY <1>2, <1>3, <1>4, <1>5 DEF AnswersInv

(* A request written to a free stream: the stream is at work for c, with   *)
(* no session in between.                                                  *)
LEMMA RequestForwarded ==
    ASSUME OneStatement, AnswersInv, NEW c \in Callers, NEW r \in Requests, Forward(c, r), Typed'
    PROVE  AnswersInv'
<1> DEFINE p == Home[c]
<1>1. /\ p \in Procs /\ holder[p] = Free /\ status[c] = "idle"
      /\ holder' = [holder EXCEPT ![p] = c]
      /\ status' = [status EXCEPT ![c] = "sent"]
      /\ turn' = [turn EXCEPT ![c] = 1 - @]
      /\ inbox' = [inbox EXCEPT ![p] = IF alive[p] THEN @ \o Lines(r, c) ELSE @]
      /\ UNCHANGED <<answer, serving, outbox, alive>>
  BY ForwardingAssumption DEF Forward, Write, Lines
<1>2. Typed /\ TypeOK
  BY DEF AnswersInv, Typed
<1>3. PICK own \in [Procs -> Callers], behind \in [Procs -> SUBSET Procs] : Chained(own, behind)
  BY DEF AnswersInv
<1>4. ~AtWork(p)
  <2>1. ASSUME AtWork(p) PROVE FALSE
    <3>1. Works(p, own, behind)
      BY <2>1, <1>1, <1>3 DEF Chained
    <3>2. holder[p] \in Callers \cup Procs
      BY <3>1, <1>1 DEF Works
    <3> QED
      BY <3>2, <1>1, ForwardingAssumption
  <2> QED
    BY <2>1
<1>5. turn[c] \in {0, 1} /\ turn'[c] = 1 - turn[c] /\ inbox[p] \in Seq(Line) /\ ~HasSql(inbox[p])
  BY <1>1, <1>2, <1>4 DEF TypeOK, AtWork
<1>6. /\ OneSql(inbox'[p])
      /\ \A i \in 1 .. Len(inbox'[p]) :
           inbox'[p][i].kind = "sql" => inbox'[p][i].id = <<c, 1 - turn[c]>>
  <2>1. CASE alive[p]
    <3>1. inbox'[p] = inbox[p] \o Lines(r, c)
      BY <1>1, <1>2, <2>1 DEF TypeOK
    <3>2. /\ OneSql(inbox[p] \o Lines(r, c))
          /\ \A i \in 1 .. Len(inbox[p] \o Lines(r, c)) :
               (inbox[p] \o Lines(r, c))[i].kind = "sql" =>
                 (inbox[p] \o Lines(r, c))[i].id = <<c, 1 - turn[c]>>
      BY <1>5, LinesWritten
    <3> QED
      BY <3>1, <3>2
  <2>2. CASE ~alive[p]
    <3>1. inbox'[p] = inbox[p]
      BY <1>1, <1>2, <2>2 DEF TypeOK
    <3> QED
      BY <3>1, <1>5 DEF HasSql, OneSql
  <2> QED
    BY <2>1, <2>2
<1> USE ForwardingAssumption
<1>7. \A q \in Procs : StreamOk(q)'
  <2> SUFFICES ASSUME NEW q \in Procs PROVE StreamOk(q)'
    OBVIOUS
  <2>0. StreamOk(q)
    BY DEF AnswersInv
  <2>1. serving[q] => Remote[q] # p /\ holder'[Remote[q]] = q
    BY <2>0, <1>1, <1>2 DEF StreamOk, Typed, TypeOK
  <2>2. CASE q # p
    BY <2>0, <2>1, <2>2, <1>1, <1>2, StreamSame DEF TypeOK
  <2>3. CASE q = p
    <3>1. ~alive[p] => inbox'[p] = <<>>
      BY <2>0, <2>3, <1>1, <1>2 DEF StreamOk, TypeOK
    <3>2. ~serving[p] /\ outbox[p] = <<>>
      BY <1>4 DEF AtWork
    <3> QED
      BY <2>3, <3>1, <3>2, <1>1, <1>6 DEF StreamOk
  <2> QED
    BY <2>2, <2>3
<1>8. \A d \in Callers : CallerOk(d)'
  <2> SUFFICES ASSUME NEW d \in Callers PROVE CallerOk(d)'
    OBVIOUS
  <2>1. CallerOk(d) /\ CallerOk(c)
    BY DEF AnswersInv
  <2>2. CASE d = c
    BY <2>2, <1>1, <1>2 DEF CallerOk, TypeOK
  <2>3. CASE d # c
    <3>1. status'[d] = status[d] /\ turn'[d] = turn[d] /\ answer'[d] = answer[d]
      BY <2>3, <1>1, <1>2 DEF TypeOK
    <3>2. status[d] = "sent" => Home[d] # p
      BY <2>1, <1>1 DEF CallerOk
    <3> QED
      BY <2>1, <3>1, <3>2, <1>1, <1>2 DEF CallerOk, TypeOK
  <2> QED
    BY <2>2, <2>3
<1> DEFINE own2 == [own EXCEPT ![p] = c]
           behind2 == [behind EXCEPT ![p] = {}]
<1>9. own2 \in [Procs -> Callers] /\ behind2 \in [Procs -> SUBSET Procs]
  BY <1>1
<1>10. Chained(own2, behind2)'
  <2> SUFFICES ASSUME NEW q \in Procs, AtWork(q)' PROVE Works(q, own2, behind2)'
    BY DEF Chained
  <2>1. CASE q = p
    <3>1. own2[p] = c /\ behind2[p] = {}
      BY <1>1
    <3>2. outbox'[p] = <<>> /\ status'[c] = "sent" /\ holder'[p] = c
      BY <1>1, <1>2, <1>4 DEF AtWork, TypeOK
    <3> HIDE DEF own2, behind2
    <3>3. Works(p, own2, behind2)'
      BY <3>1, <3>2, <1>5, <1>6 DEF Works
    <3> QED
      BY <2>1, <3>3
  <2>2. CASE q # p
    <3>1. inbox'[q] = inbox[q] /\ outbox'[q] = outbox[q] /\ serving'[q] = serving[q] /\ holder'[q] = holder[q]
      BY <2>2, <1>1, <1>2 DEF TypeOK
    <3>2. AtWork(q)
      BY <3>1 DEF AtWork
    <3>3. Works(q, own, behind)
      BY <3>2, <1>3 DEF Chained
    <3>4. own[q] # c /\ p \notin behind[q]
      BY <3>3, <1>1, <1>4 DEF Works, AtWork
    <3>5. status'[own[q]] = status[own[q]] /\ turn'[own[q]] = turn[own[q]]
      BY <3>4, <1>1, <1>2 DEF TypeOK
    <3>6. own2[q] = own[q] /\ behind2[q] = behind[q]
      BY <2>2
    <3>7. \A a \in behind[q] : serving'[a] = serving[a] /\ own2[a] = own[a]
      BY <3>4, <1>1
    <3> HIDE DEF own2, behind2
    <3> QED
      BY <3>1, <3>3, <3>5, <3>6, <3>7, WorksSame
  <2> QED
    BY <2>1, <2>2
<1> HIDE DEF own2, behind2
<1>11. \E o \in [Procs -> Callers], b \in [Procs -> SUBSET Procs] : Chained(o, b)'
  BY <1>9, <1>10
<1> QED
  BY <1>7, <1>8, <1>11 DEF AnswersInv

(* A stream with no more than one line has none left once it is read, and  *)
(* the line is for the caller the stream works for.                        *)
LEMMA LastLineRead ==
    ASSUME TypeOK, NEW p \in Procs, StreamOk(p), Readable(p), NEW rest \in Unread(p),
           NEW own, NEW behind, AtWork(p) => Works(p, own, behind)
    PROVE  /\ rest = <<>> /\ ~serving[p] /\ ~HasSql(inbox[p])
           /\ LineRead(p) \in {<<own[p], turn[own[p]]>>, Closed}
<1>1. outbox[p] \in Seq(Ids \cup {Closed}) /\ inbox[p] \in Seq(Line) /\ Len(outbox[p]) <= 1
  BY DEF TypeOK, StreamOk
<1>2. rest = <<>>
  BY <1>1, UnreadTyped
<1>3. ~serving[p] /\ ~HasSql(inbox[p])
  BY <1>1 DEF Readable, StreamOk, HasSql
<1>4. CASE outbox[p] = <<>>
  BY <1>2, <1>3, <1>4 DEF LineRead
<1>5. CASE outbox[p] # <<>>
  <2>1. 1 \in 1 .. Len(outbox[p]) /\ Head(outbox[p]) = outbox[p][1]
    BY <1>1, <1>5
  <2>2. Works(p, own, behind)
    BY <1>5 DEF AtWork
  <2>3. outbox[p][1] \in {<<own[p], turn[own[p]]>>, Closed}
    BY <2>1, <2>2 DEF Works
  <2> QED
    BY <1>2, <1>3, <1>5, <2>1, <2>3 DEF LineRead
<1> QED
  BY <1>4, <1>5

(* A caller reads its answer: no session can be at work for it then.       *)
LEMMA AnswerReceived ==
    ASSUME AnswersInv, NEW c \in Callers, Receive(c), Typed'
    PROVE  AnswersInv'
<1> USE ForwardingAssumption
<1> DEFINE p == Home[c]
<1>1. PICK rest \in Unread(p) : outbox' = [outbox EXCEPT ![p] = rest]
  BY DEF Receive
<1>2. /\ p \in Procs /\ status[c] = "sent" /\ Readable(p)
      /\ status' = [status EXCEPT ![c] = "idle"]
      /\ holder' = [holder EXCEPT ![p] = Free]
      /\ answer' = [answer EXCEPT ![c] = LineRead(p)]
      /\ UNCHANGED <<turn, inbox, serving, alive>>
  BY DEF Receive
<1>3. Typed /\ TypeOK
  BY DEF AnswersInv, Typed
<1>4. PICK own \in [Procs -> Callers], behind \in [Procs -> SUBSET Procs] : Chained(own, behind)
  BY DEF AnswersInv
<1>5. holder[p] = c
  BY <1>2 DEF AnswersInv, CallerOk
<1>6. AtWork(p) => own[p] = c
  <2>1. ASSUME AtWork(p) PROVE own[p] = c
    <3>1. Works(p, own, behind)
      BY <2>1, <1>2, <1>4 DEF Chained
    <3>2. holder[p] = own[p] \/ holder[p] \in Procs
      BY <3>1, <1>2 DEF Works
    <3> QED
      BY <3>2, <1>5
  <2> QED
    BY <2>1
<1>7. /\ rest = <<>> /\ ~serving[p] /\ ~HasSql(inbox[p])
      /\ LineRead(p) \in {<<own[p], turn[own[p]]>>, Closed}
  BY <1>1, <1>2, <1>3, <1>4, LastLineRead DEF AnswersInv, Chained
<1>8. LineRead(p) \in {<<c, turn[c]>>, Closed}
  <2>1. CASE outbox[p] = <<>>
    BY <2>1 DEF LineRead
  <2>2. CASE outbox[p] # <<>>
    BY <2>2, <1>6, <1>7 DEF AtWork
  <2> QED
    BY <2>1, <2>2
<1>9. outbox'[p] = <<>> /\ ~AtWork(p)'
  BY <1>1, <1>2, <1>3, <1>7 DEF AtWork, TypeOK
<1>10. \A q \in Procs : StreamOk(q)'
  <2> SUFFICES ASSUME NEW q \in Procs PROVE StreamOk(q)'
    OBVIOUS
  <2>0. StreamOk(q)
    BY DEF AnswersInv
  <2>1. serving[q] => holder'[Remote[q]] = q
    BY <2>0, <1>2, <1>3, <1>5 DEF StreamOk, Typed, TypeOK
  <2>2. CASE q # p
    BY <2>0, <2>1, <2>2, <1>1, <1>2, <1>3, StreamSame DEF TypeOK
  <2>3. CASE q = p
    BY <2>0, <2>3, <1>2, <1>7, <1>9 DEF StreamOk
  <2> QED
    BY <2>2, <2>3
<1>11. \A d \in Callers : CallerOk(d)'
  <2> SUFFICES ASSUME NEW d \in Callers PROVE CallerOk(d)'
    OBVIOUS
  <2>1. CallerOk(d)
    BY DEF AnswersInv
  <2>2. CASE d = c
    BY <2>2, <1>2, <1>3, <1>8 DEF CallerOk, TypeOK
  <2>3. CASE d # c
    <3>1. status'[d] = status[d] /\ turn'[d] = turn[d] /\ answer'[d] = answer[d]
      BY <2>3, <1>2, <1>3 DEF TypeOK
    <3>2. status[d] = "sent" => Home[d] # p
      BY <2>1, <2>3, <1>5 DEF CallerOk
    <3> QED
      BY <2>1, <3>1, <3>2, <1>2, <1>3 DEF CallerOk, TypeOK
  <2> QED
    BY <2>2, <2>3
<1>12. Chained(own, behind)'
  <2> SUFFICES ASSUME NEW q \in Procs, AtWork(q)' PROVE Works(q, own, behind)'
    BY DEF Chained
  <2>1. q # p
    BY <1>9
  <2>2. inbox'[q] = inbox[q] /\ outbox'[q] = outbox[q] /\ serving'[q] = serving[q] /\ holder'[q] = holder[q]
    BY <2>1, <1>1, <1>2, <1>3 DEF TypeOK
  <2>3. AtWork(q)
    BY <2>2 DEF AtWork
  <2>4. Works(q, own, behind)
    BY <2>3, <1>4 DEF Chained
  <2>5. own[q] # c
    BY <2>1, <2>4, <1>7 DEF Works
  <2>6. status'[own[q]] = status[own[q]] /\ turn'[own[q]] = turn[own[q]]
    BY <2>5, <1>2, <1>3 DEF TypeOK
  <2> QED
    BY <2>2, <2>4, <2>6, <1>2, WorksSame
<1> QED
  BY <1>4, <1>10, <1>11, <1>12 DEF AnswersInv

(* A session reads a line from stream p and neither the mutexes nor the    *)
(* callers change: what is left of the stream decides.                     *)
LEMMA SessionReads ==
    ASSUME AnswersInv, Typed', NEW p \in Procs, StreamOk(p)',
           UNCHANGED <<holder, turn, status, answer, serving>>,
           \A q \in Procs \ {p} : inbox'[q] = inbox[q] /\ outbox'[q] = outbox[q] /\ alive'[q] = alive[q],
           AtWork(p)' => AtWork(p),
           \A own, behind : Works(p, own, behind) => Works(p, own, behind)'
    PROVE  AnswersInv'
<1>1. \A q \in Procs : StreamOk(q)'
  BY StreamSame DEF AnswersInv, StreamOk
<1>2. \A d \in Callers : CallerOk(d)'
  BY DEF AnswersInv, CallerOk
<1>3. PICK own \in [Procs -> Callers], behind \in [Procs -> SUBSET Procs] : Chained(own, behind)
  BY DEF AnswersInv
<1>4. Chained(own, behind)'
  <2> SUFFICES ASSUME NEW q \in Procs, AtWork(q)' PROVE Works(q, own, behind)'
    BY DEF Chained
  <2>1. AtWork(q)
    BY DEF AtWork
  <2>2. Works(q, own, behind)
    BY <2>1, <1>3 DEF Chained
  <2>3. CASE q # p
    BY <2>2, <2>3, WorksSame
  <2> QED
    BY <2>2, <2>3
<1> QED
  BY <1>1, <1>2, <1>3, <1>4 DEF AnswersInv

(* What is left of the lines when the first is read: no statement that was *)
(* not there.                                                              *)
LEMMA IdsTail ==
    ASSUME NEW s \in Seq(Line), s # <<>>, NEW x,
           \A i \in 1 .. Len(s) : s[i].kind = "sql" => s[i].id = x
    PROVE  /\ \A i \in 1 .. Len(Tail(s)) : Tail(s)[i].kind = "sql" => Tail(s)[i].id = x
           /\ Head(s).kind = "sql" => Head(s).id = x
<1>1. Len(s) \in Nat \ {0} /\ Head(s) = s[1] /\ Len(Tail(s)) = Len(s) - 1
  OBVIOUS
<1>2. \A i \in 1 .. Len(Tail(s)) : Tail(s)[i] = s[i + 1] /\ i + 1 \in 1 .. Len(s)
  BY <1>1
<1> QED
  BY <1>1, <1>2

(* An empty line, and QUIT. *)
LEMMA LineSkipped ==
    ASSUME AnswersInv, NEW p \in Procs, SkipBlank(p) \/ CloseStream(p), Typed'
    PROVE  AnswersInv'
<1> USE ForwardingAssumption
<1>1. /\ UNCHANGED <<holder, turn, status, answer, serving, outbox>>
      /\ inbox[p] # <<>> /\ alive[p] /\ ~serving[p]
      /\ \/ inbox' = [inbox EXCEPT ![p] = Tail(@)] /\ alive' = alive
         \/ inbox' = [inbox EXCEPT ![p] = <<>>] /\ alive' = [alive EXCEPT ![p] = FALSE]
  BY DEF SkipBlank, CloseStream, NextLine
<1>2. TypeOK /\ inbox[p] \in Seq(Line)
  BY DEF AnswersInv, Typed, TypeOK
<1>3. StreamOk(p)
  BY DEF AnswersInv
<1>4. inbox'[p] \in {Tail(inbox[p]), <<>>} /\ (inbox'[p] = <<>> \/ alive'[p])
  BY <1>1, <1>2 DEF TypeOK
<1>5. OneSql(inbox'[p]) /\ (HasSql(inbox'[p]) => HasSql(inbox[p]))
  <2>1. OneSql(<<>>) /\ ~HasSql(<<>>)
    BY DEF OneSql, HasSql
  <2>2. OneSql(inbox[p]) /\ inbox[p] # <<>>
    BY <1>1, <1>3 DEF StreamOk
  <2>3. OneSql(Tail(inbox[p])) /\ (HasSql(Tail(inbox[p])) => HasSql(inbox[p]))
    BY ONLY <1>2, <2>2, LinesTail
  <2>4. CASE inbox'[p] = Tail(inbox[p])
    BY <2>3, <2>4
  <2>5. CASE inbox'[p] = <<>>
    BY <2>1, <2>5
  <2> QED
    BY <1>4, <2>4, <2>5
<1>6. StreamOk(p)'
  BY <1>1, <1>3, <1>4, <1>5 DEF StreamOk
<1>7. AtWork(p)' => AtWork(p)
  BY <1>1, <1>5 DEF AtWork
<1>8. \A q \in Procs \ {p} : inbox'[q] = inbox[q] /\ outbox'[q] = outbox[q] /\ alive'[q] = alive[q]
  BY <1>1, <1>2 DEF TypeOK
<1>9. ASSUME NEW own, NEW behind, Works(p, own, behind) PROVE Works(p, own, behind)'
  <2>1. \A i \in 1 .. Len(Tail(inbox[p])) :
           Tail(inbox[p])[i].kind = "sql" => Tail(inbox[p])[i].id = <<own[p], turn[own[p]]>>
    BY <1>1, <1>2, <1>9, IdsTail DEF Works
  <2>2. \A i \in 1 .. Len(inbox'[p]) :
           inbox'[p][i].kind = "sql" => inbox'[p][i].id = <<own[p], turn[own[p]]>>
    <3>1. CASE inbox'[p] = Tail(inbox[p])
      BY <2>1, <3>1
    <3>2. CASE inbox'[p] = <<>>
      BY <3>2
    <3> QED
      BY <3>1, <3>2, <1>4
  <2> QED
    BY <2>2, <1>1, <1>9 DEF Works
<1> QED
  BY <1>1, <1>6, <1>7, <1>8, <1>9, SessionReads

(* A statement is run and answered. *)
LEMMA StatementServed ==
    ASSUME AnswersInv, NEW p \in Procs, Serve(p), Typed'
    PROVE  AnswersInv'
<1> USE ForwardingAssumption
<1> DEFINE line == Head(inbox[p])
<1>1. /\ UNCHANGED <<holder, turn, status, answer, serving, alive>>
      /\ inbox[p] # <<>> /\ alive[p] /\ ~serving[p] /\ line.kind = "sql"
      /\ inbox' = [inbox EXCEPT ![p] = Tail(@)]
      /\ outbox' = [outbox EXCEPT ![p] = Append(@, line.id)]
  BY DEF Serve, NextLine
<1>2. TypeOK /\ inbox[p] \in Seq(Line)
  BY DEF AnswersInv, Typed, TypeOK
<1>3. StreamOk(p)
  BY DEF AnswersInv
<1>4. OneSql(Tail(inbox[p])) /\ HasSql(inbox[p]) /\ ~HasSql(Tail(inbox[p]))
  BY <1>1, <1>2, <1>3, LinesTail DEF StreamOk
<1>5. inbox'[p] = Tail(inbox[p]) /\ outbox'[p] = <<line.id>>
  BY <1>1, <1>2, <1>3, <1>4 DEF TypeOK, StreamOk
<1>6. StreamOk(p)'
  BY <1>1, <1>3, <1>4, <1>5 DEF StreamOk
<1>7. AtWork(p)
  BY <1>4 DEF AtWork
<1>8. \A q \in Procs \ {p} : inbox'[q] = inbox[q] /\ outbox'[q] = outbox[q] /\ alive'[q] = alive[q]
  BY <1>1, <1>2 DEF TypeOK
<1>9. ASSUME NEW own, NEW behind, Works(p, own, behind) PROVE Works(p, own, behind)'
  <2>1. line.id = <<own[p], turn[own[p]]>>
    BY <1>1, <1>2, <1>9, IdsTail DEF Works
  <2>2. \A i \in 1 .. Len(inbox'[p]) : inbox'[p][i].kind # "sql"
    BY <1>4, <1>5 DEF HasSql
  <2>3. \A i \in 1 .. Len(outbox'[p]) : outbox'[p][i] = <<own[p], turn[own[p]]>>
    <3>1. Len(outbox'[p]) = 1 /\ outbox'[p][1] = line.id
      BY <1>5
    <3> QED
      BY <2>1, <3>1
  <2> QED
    BY <2>2, <2>3, <1>1, <1>9 DEF Works
<1> QED
  BY <1>1, <1>6, <1>7, <1>8, <1>9, SessionReads

LEMMA LineAppended ==
    ASSUME NEW s \in Seq(Line), ~HasSql(s), NEW l \in Line
    PROVE  /\ OneSql(Append(s, l))
           /\ \A i \in 1 .. Len(Append(s, l)) : Append(s, l)[i].kind = "sql" => Append(s, l)[i].id = l.id
<1>1. Len(s) \in Nat /\ Len(Append(s, l)) = Len(s) + 1
  OBVIOUS
<1>2. \A i \in 1 .. Len(s) + 1 : Append(s, l)[i] = IF i = Len(s) + 1 THEN l ELSE s[i]
  OBVIOUS
<1>3. \A i \in 1 .. Len(s) + 1 : Append(s, l)[i].kind = "sql" => i = Len(s) + 1
  <2> SUFFICES ASSUME NEW i \in 1 .. Len(s) + 1, Append(s, l)[i].kind = "sql", i # Len(s) + 1 PROVE FALSE
    OBVIOUS
  <2>1. i \in 1 .. Len(s) /\ s[i].kind = "sql"
    BY <1>1, <1>2
  <2> QED
    BY <2>1 DEF HasSql
<1> QED
  BY <1>1, <1>2, <1>3 DEF OneSql

(* A statement is forwarded again: stream q works for the same caller, and *)
(* the session of p stands in between.                                     *)
LEMMA StatementPassedOn ==
    ASSUME AnswersInv, NEW p \in Procs, ServeByForwarding(p), Typed'
    PROVE  AnswersInv'
<1> DEFINE q == Remote[p]
           line == Head(inbox[p])
<1>1. /\ UNCHANGED <<turn, status, answer, outbox, alive>>
      /\ q \in Procs /\ holder[q] = Free
      /\ inbox[p] # <<>> /\ alive[p] /\ ~serving[p] /\ line.kind = "sql"
      /\ holder' = [holder EXCEPT ![q] = p]
      /\ serving' = [serving EXCEPT ![p] = TRUE]
      /\ inbox' = IF alive[q] THEN [[inbox EXCEPT ![p] = Tail(@)] EXCEPT ![q] = Append(@, line)]
                              ELSE [inbox EXCEPT ![p] = Tail(@)]
  BY ForwardingAssumption DEF ServeByForwarding, NextLine
<1>2. Typed /\ TypeOK
  BY DEF AnswersInv, Typed
<1>2a. inbox[p] \in Seq(Line) /\ inbox[q] \in Seq(Line) /\ inbox \in [Procs -> Seq(Line)]
  BY <1>1, <1>2 DEF TypeOK
<1>3. PICK own \in [Procs -> Callers], behind \in [Procs -> SUBSET Procs] : Chained(own, behind)
  BY DEF AnswersInv
<1>4. StreamOk(p) /\ StreamOk(q)
  BY <1>1 DEF AnswersInv
<1>5. line \in Line /\ OneSql(Tail(inbox[p])) /\ HasSql(inbox[p]) /\ ~HasSql(Tail(inbox[p]))
  BY <1>1, <1>2a, <1>4, LinesTail DEF StreamOk
<1>6. outbox[p] = <<>> /\ Works(p, own, behind) /\ holder[p] # Free
  <2>1. Works(p, own, behind)
    BY <1>3, <1>5 DEF Chained, AtWork
  <2>2. holder[p] \in Callers \cup Procs
    BY <2>1 DEF Works
  <2> QED
    BY <2>1, <2>2, <1>4, <1>5, ForwardingAssumption DEF StreamOk
<1>7. ~AtWork(q) /\ q # p
  <2>1. ASSUME AtWork(q) PROVE FALSE
    <3>1. Works(q, own, behind)
      BY <2>1, <1>1, <1>3 DEF Chained
    <3>2. holder[q] \in Callers \cup Procs
      BY <3>1, <1>1 DEF Works
    <3> QED
      BY <3>2, <1>1, ForwardingAssumption
  <2> QED
    BY <2>1, <1>1, <1>6
<1>8. /\ inbox'[p] = Tail(inbox[p])
      /\ inbox'[q] = IF alive[q] THEN Append(inbox[q], line) ELSE inbox[q]
      /\ \A r \in Procs \ {p, q} : inbox'[r] = inbox[r]
  BY <1>1, <1>2a, <1>7
<1>9. line.id = <<own[p], turn[own[p]]>>
  BY <1>1, <1>2a, <1>6, IdsTail DEF Works
<1>10. /\ OneSql(inbox'[q])
       /\ \A i \in 1 .. Len(inbox'[q]) :
            inbox'[q][i].kind = "sql" => inbox'[q][i].id = <<own[p], turn[own[p]]>>
  <2>1. ~HasSql(inbox[q])
    BY <1>7 DEF AtWork
  <2>2. CASE alive[q]
    <3>1. /\ OneSql(Append(inbox[q], line))
          /\ \A i \in 1 .. Len(Append(inbox[q], line)) :
               Append(inbox[q], line)[i].kind = "sql" => Append(inbox[q], line)[i].id = line.id
      BY <2>1, <1>2a, <1>5, LineAppended
    <3> QED
      BY <2>2, <3>1, <1>8, <1>9
  <2>3. CASE ~alive[q]
    BY <2>1, <2>3, <1>8 DEF HasSql, OneSql
  <2> QED
    BY <2>2, <2>3
<1> USE ForwardingAssumption
<1>11. /\ serving'[p] /\ \A r \in Procs \ {p} : serving'[r] = serving[r]
       /\ holder'[q] = p /\ \A r \in Procs \ {q} : holder'[r] = holder[r]
  BY <1>1, <1>2 DEF TypeOK
<1> HIDE DEF q, line
<1>12. \A r \in Procs : StreamOk(r)'
  <2> SUFFICES ASSUME NEW r \in Procs PROVE StreamOk(r)'
    OBVIOUS
  <2>0. StreamOk(r)
    BY DEF AnswersInv
  <2>1. serving[r] => Remote[r] # q /\ holder'[Remote[r]] = r
    BY <2>0, <1>1, <1>2, <1>11 DEF StreamOk, Typed, TypeOK
  <2>2. CASE r = p
    BY <2>2, <1>1, <1>4, <1>5, <1>6, <1>8, <1>11 DEF StreamOk, q
  <2>3. CASE r = q
    BY <2>3, <1>1, <1>4, <1>7, <1>8, <1>10, <1>11 DEF StreamOk, AtWork
  <2>4. CASE r # p /\ r # q
    BY <2>0, <2>1, <2>4, <1>1, <1>8, <1>11, StreamSame
  <2> QED
    BY <2>2, <2>3, <2>4
<1>13. \A d \in Callers : CallerOk(d)'
  <2> SUFFICES ASSUME NEW d \in Callers PROVE CallerOk(d)'
    OBVIOUS
  <2>1. CallerOk(d)
    BY DEF AnswersInv
  <2>2. status[d] = "sent" => Home[d] # q
    BY <2>1, <1>1 DEF CallerOk
  <2> QED
    BY <2>1, <2>2, <1>1, <1>11 DEF CallerOk
<1> DEFINE own2 == [own EXCEPT ![q] = own[p]]
           behind2 == [behind EXCEPT ![q] = behind[p] \cup {p}]
<1>14. /\ own2 \in [Procs -> Callers] /\ behind2 \in [Procs -> SUBSET Procs]
       /\ own2[q] = own[p] /\ behind2[q] = behind[p] \cup {p}
       /\ \A r \in Procs \ {q} : own2[r] = own[r] /\ behind2[r] = behind[r]
  BY <1>1
<1> HIDE DEF own2, behind2
<1>15. \A r \in Procs : Works(r, own, behind) =>
          \A a \in behind[r] : a # q /\ a # p /\ serving'[a] = serving[a] /\ own2[a] = own[a]
  <2> SUFFICES ASSUME NEW r \in Procs, Works(r, own, behind), NEW a \in behind[r]
               PROVE  a # q /\ a # p /\ serving'[a] = serving[a] /\ own2[a] = own[a]
    OBVIOUS
  <2>1. a \in Procs /\ serving[a]
    BY DEF Works
  <2>2. a # q /\ a # p
    BY <2>1, <1>1, <1>7 DEF AtWork
  <2> QED
    BY <2>1, <2>2, <1>11, <1>14
<1>16. Works(p, own2, behind2)'
  <2>1. \A i \in 1 .. Len(inbox'[p]) : inbox'[p][i].kind # "sql"
    BY <1>5, <1>8 DEF HasSql
  <2>2. own2[p] = own[p] /\ behind2[p] = behind[p] /\ holder'[p] = holder[p]
    BY <1>7, <1>11, <1>14
  <2>3. outbox'[p] = <<>> /\ status' = status /\ turn' = turn
    BY <1>1, <1>6
  <2>4. \A a \in behind[p] : serving'[a] /\ own2[a] = own[p] /\ Remote[a] \in behind[p] \cup {p}
    BY <1>6, <1>15 DEF Works
  <2> QED
    BY <2>1, <2>2, <2>3, <2>4, <1>6 DEF Works
<1>17. Works(q, own2, behind2)'
  <2>1. \A a \in behind2[q] : serving'[a] /\ own2[a] = own2[q] /\ Remote[a] \in behind2[q] \cup {q}
    <3>1. \A a \in behind[p] : serving'[a] /\ own2[a] = own[p] /\ Remote[a] \in behind[p] \cup {p}
      BY <1>6, <1>15 DEF Works
    <3>2. serving'[p] /\ own2[p] = own[p] /\ Remote[p] = q
      BY <1>7, <1>11, <1>14 DEF q
    <3> QED
      BY <3>1, <3>2, <1>14
  <2>2. outbox'[q] = <<>> /\ holder'[q] \in behind2[q] /\ status' = status /\ turn' = turn
    BY <1>1, <1>7, <1>11, <1>14 DEF AtWork
  <2>3. status[own2[q]] = "sent" /\ Home[own2[q]] \in behind2[q] \cup {q}
    BY <1>6, <1>14 DEF Works
  <2> QED
    BY <2>1, <2>2, <2>3, <1>10, <1>14 DEF Works
<1>18. Chained(own2, behind2)'
  <2> SUFFICES ASSUME NEW r \in Procs, AtWork(r)' PROVE Works(r, own2, behind2)'
    BY DEF Chained
  <2>1. CASE r # p /\ r # q
    <3>1. AtWork(r)
      BY <2>1, <1>1, <1>8, <1>11 DEF AtWork
    <3>2. Works(r, own, behind)
      BY <3>1, <1>3 DEF Chained
    <3>3. inbox'[r] = inbox[r] /\ outbox'[r] = outbox[r] /\ holder'[r] = holder[r]
      BY <2>1, <1>1, <1>8, <1>11
    <3>4. own2[r] = own[r] /\ behind2[r] = behind[r]
      BY <2>1, <1>14
    <3>5. \A a \in behind[r] : serving'[a] = serving[a] /\ own2[a] = own[a]
      BY <3>2, <1>15
    <3>6. behind[r] \in SUBSET Procs /\ own[r] \in Callers
      OBVIOUS
    <3>7. status'[own[r]] = status[own[r]] /\ turn'[own[r]] = turn[own[r]]
      BY <1>1
    <3> QED
      BY <3>2, <3>3, <3>4, <3>5, <3>6, <3>7, WorksSame
  <2> QED
    BY <2>1, <1>16, <1>17
<1>19. \E o \in [Procs -> Callers], b \in [Procs -> SUBSET Procs] : Chained(o, b)'
  BY <1>14, <1>18
<1> QED
  BY <1>12, <1>13, <1>19 DEF AnswersInv

(* An answer is passed back: the session of p is out of the chain, and     *)
(* stream p has the answer for the caller it works for.                    *)
LEMMA AnswerPassedBack ==
    ASSUME AnswersInv, NEW p \in Procs, PassBack(p), Typed'
    PROVE  AnswersInv'
<1> USE ForwardingAssumption
<1> DEFINE q == Remote[p]
<1>1. PICK rest \in Unread(q) :
         outbox' = [[outbox EXCEPT ![q] = rest] EXCEPT ![p] = Append(@, LineRead(q))]
  BY DEF PassBack
<1>2. /\ UNCHANGED <<turn, status, answer, inbox, alive>>
      /\ serving[p] /\ Readable(q)
      /\ serving' = [serving EXCEPT ![p] = FALSE]
      /\ holder' = [holder EXCEPT ![q] = Free]
  BY DEF PassBack
<1>3. Typed /\ TypeOK /\ q \in Procs
  BY <1>2 DEF AnswersInv, Typed
<1>4. PICK own \in [Procs -> Callers], behind \in [Procs -> SUBSET Procs] : Chained(own, behind)
  BY DEF AnswersInv
<1>5. StreamOk(p) /\ StreamOk(q)
  BY <1>3 DEF AnswersInv
<1>6. /\ outbox[p] = <<>> /\ holder[q] = p /\ alive[p] /\ ~HasSql(inbox[p])
      /\ Works(p, own, behind)
  BY <1>2, <1>4, <1>5 DEF StreamOk, Chained, AtWork
<1>7. q # p
  BY <1>2, <1>6 DEF Readable
<1>8. AtWork(q) => Works(q, own, behind)
  BY <1>3, <1>4 DEF Chained
<1>9. /\ rest = <<>> /\ ~serving[q] /\ ~HasSql(inbox[q])
      /\ LineRead(q) \in {<<own[q], turn[own[q]]>>, Closed}
  BY <1>1, <1>2, <1>3, <1>5, <1>8, LastLineRead
<1>10. AtWork(q) => own[q] = own[p]
  <2> SUFFICES ASSUME AtWork(q) PROVE own[q] = own[p]
    OBVIOUS
  <2>1. p \in behind[q]
    <3>1. Works(q, own, behind) /\ own[q] \in Callers
      BY <1>3, <1>8
    <3> QED
      BY <3>1, <1>6 DEF Works
  <2> QED
    BY <2>1, <1>8 DEF Works
<1>11. LineRead(q) \in {<<own[p], turn[own[p]]>>, Closed}
  <2>1. CASE outbox[q] = <<>>
    BY <2>1 DEF LineRead
  <2>2. CASE outbox[q] # <<>>
    BY <2>2, <1>9, <1>10 DEF AtWork
  <2> QED
    BY <2>1, <2>2
<1> HIDE DEF q
<1>12. /\ outbox'[q] = <<>> /\ outbox'[p] = <<LineRead(q)>>
       /\ \A r \in Procs \ {p, q} : outbox'[r] = outbox[r]
  <2> DEFINE mid == [outbox EXCEPT ![q] = rest]
  <2>1. mid[q] = <<>> /\ mid[p] = <<>> /\ \A r \in Procs \ {p, q} : mid[r] = outbox[r]
    BY <1>3, <1>6, <1>7, <1>9 DEF TypeOK
  <2>2. DOMAIN mid = Procs
    BY <1>3 DEF TypeOK
  <2>3. outbox' = [mid EXCEPT ![p] = Append(@, LineRead(q))]
    BY <1>1
  <2> HIDE DEF mid
  <2>4. /\ outbox'[p] = Append(<<>>, LineRead(q))
        /\ \A r \in Procs \ {p} : outbox'[r] = mid[r]
    BY <2>1, <2>2, <2>3
  <2> QED
    BY <2>1, <2>4, <1>3, <1>7
<1>13. /\ ~serving'[p] /\ \A r \in Procs \ {p} : serving'[r] = serving[r]
       /\ holder'[q] = Free /\ \A r \in Procs \ {q} : holder'[r] = holder[r]
  BY <1>2, <1>3 DEF TypeOK
<1>14. \A r \in Procs : StreamOk(r)'
  <2> SUFFICES ASSUME NEW r \in Procs PROVE StreamOk(r)'
    OBVIOUS
  <2>0. StreamOk(r)
    BY DEF AnswersInv
  <2>1. CASE r = p
    BY <2>1, <1>2, <1>5, <1>6, <1>12, <1>13 DEF StreamOk
  <2>2. CASE r = q
    BY <2>2, <1>2, <1>5, <1>7, <1>9, <1>12, <1>13 DEF StreamOk
  <2>3. CASE r # p /\ r # q
    <3>1. serving[r] => Remote[r] \in Procs /\ Remote[r] # q /\ holder'[Remote[r]] = r
      BY <2>0, <2>3, <1>3, <1>6, <1>13 DEF StreamOk, Typed
    <3> QED
      BY <2>0, <2>3, <3>1, <1>2, <1>12, <1>13, StreamSame
  <2> QED
    BY <2>1, <2>2, <2>3
<1>15. \A d \in Callers : CallerOk(d)'
  <2> SUFFICES ASSUME NEW d \in Callers PROVE CallerOk(d)'
    OBVIOUS
  <2>1. CallerOk(d) /\ d # p
    BY DEF AnswersInv
  <2>2. status[d] = "sent" => Home[d] # q
    BY <2>1, <1>6 DEF CallerOk
  <2> QED
    BY <2>1, <2>2, <1>2, <1>13 DEF CallerOk
<1>16. Works(p, own, behind)'
  <2>1. \A i \in 1 .. Len(outbox'[p]) : outbox'[p][i] \in {<<own[p], turn[own[p]]>>, Closed}
    BY <1>11, <1>12
  <2>2. \A a \in behind[p] : serving'[a]
    <3> SUFFICES ASSUME NEW a \in behind[p] PROVE serving'[a]
      OBVIOUS
    <3>1. a \in Procs /\ serving[a] /\ Remote[a] \in behind[p] \cup {p}
      BY <1>6 DEF Works
    <3>2. a # p
      <4>1. ASSUME a = p PROVE FALSE
        <5>1. q \in behind[p] \cup {p}
          BY <3>1, <4>1 DEF q
        <5>2. serving[q]
          BY <5>1, <1>2, <1>6 DEF Works
        <5> QED
          BY <5>2, <1>9
      <4> QED
        BY <4>1
    <3> QED
      BY <3>1, <3>2, <1>13
  <2>3. holder'[p] = holder[p] /\ inbox' = inbox /\ turn' = turn /\ status' = status
    BY <1>2, <1>7, <1>13
  <2> QED
    BY <2>1, <2>2, <2>3, <1>6 DEF Works
<1>17. Chained(own, behind)'
  <2> SUFFICES ASSUME NEW r \in Procs, AtWork(r)' PROVE Works(r, own, behind)'
    BY DEF Chained
  <2>1. r # q
    BY <1>2, <1>7, <1>9, <1>12, <1>13 DEF AtWork
  <2>2. CASE r # p
    <3>1. inbox'[r] = inbox[r] /\ outbox'[r] = outbox[r] /\ holder'[r] = holder[r] /\ serving'[r] = serving[r]
      BY <2>1, <2>2, <1>2, <1>12, <1>13
    <3>2. AtWork(r)
      BY <3>1 DEF AtWork
    <3>3. Works(r, own, behind)
      BY <3>2, <1>4 DEF Chained
    <3>4. p \notin behind[r]
      <4>1. ASSUME p \in behind[r] PROVE FALSE
        <5>1. q \in behind[r] \cup {r}
          BY <4>1, <3>3 DEF Works, q
        <5>2. serving[q]
          BY <5>1, <2>1, <3>3 DEF Works
        <5> QED
          BY <5>2, <1>9
      <4> QED
        BY <4>1
    <3>5. \A a \in behind[r] : serving'[a] = serving[a]
      BY <3>4, <1>13
    <3>6. status'[own[r]] = status[own[r]] /\ turn'[own[r]] = turn[own[r]]
      BY <1>2
    <3> QED
      BY <3>1, <3>3, <3>5, <3>6, WorksSame
  <2> QED
    BY <2>2, <1>16
<1> QED
  BY <1>4, <1>14, <1>15, <1>17 DEF AnswersInv

LEMMA AnswersStep ==
    ASSUME OneStatement, AnswersInv, [Next]_vars
    PROVE  AnswersInv'
<1>1. Typed'
  BY TypeStep DEF AnswersInv
<1>2. ASSUME NEW c \in Callers, RunLocally(c) \/ ForwardFails(c) PROVE AnswersInv'
  BY <1>1, <1>2, AnsweredAtOnce
<1>3. ASSUME NEW c \in Callers, NEW r \in Requests, Forward(c, r) PROVE AnswersInv'
  BY <1>1, <1>3, RequestForwarded
<1>4. ASSUME NEW c \in Callers, Receive(c) PROVE AnswersInv'
  BY <1>1, <1>4, AnswerReceived
<1>5. ASSUME NEW p \in Procs, SkipBlank(p) \/ CloseStream(p) PROVE AnswersInv'
  BY <1>1, <1>5, LineSkipped
<1>6. ASSUME NEW p \in Procs, Serve(p) PROVE AnswersInv'
  BY <1>1, <1>6, StatementServed
<1>7. ASSUME NEW p \in Procs, ServeByForwarding(p) PROVE AnswersInv'
  BY <1>1, <1>7, StatementPassedOn
<1>8. ASSUME NEW p \in Procs, PassBack(p) PROVE AnswersInv'
  BY <1>1, <1>8, AnswerPassedBack
<1>9. CASE UNCHANGED vars
  BY <1>1, <1>9 DEF vars, AnswersInv, StreamOk, CallerOk, Chained, AtWork, Works, HasSql, OneSql
<1> QED
  BY <1>2, <1>3, <1>4, <1>5, <1>6, <1>7, <1>8, <1>9 DEF Next

(* Whatever the processes, their connections (loops included), the callers *)
(* and the texts, as long as no text has two statements: a caller is never *)
(* handed the answer to an earlier request or to somebody else's.          *)
THEOREM AnswersReachCallers ==
    ASSUME OneStatement
    PROVE  Spec => []AnswersMatch
<1> DEFINE Inv == Callers = {} \/ AnswersInv
<1>1. Init => Inv
  <2> SUFFICES ASSUME Init, Callers # {} PROVE AnswersInv
    OBVIOUS
  <2>1. Typed
    BY ForwardingAssumption DEF Init, Typed, TypeOK, Ids
  <2>2. \A p \in Procs : ~serving[p] /\ outbox[p] = <<>> /\ inbox[p] = <<>> /\ alive[p]
    BY DEF Init
  <2>3. \A p \in Procs : ~HasSql(inbox[p]) /\ OneSql(inbox[p]) /\ Len(outbox[p]) <= 1
    <3>1. \A s : s = <<>> => ~HasSql(s) /\ OneSql(s) /\ Len(s) <= 1
      BY DEF HasSql, OneSql
    <3> QED
      BY <2>2, <3>1
  <2>4. \A p \in Procs : StreamOk(p)
    BY <2>2, <2>3 DEF StreamOk
  <2>5. \A c \in Callers : CallerOk(c)
    BY DEF Init, CallerOk
  <2>6. PICK c \in Callers : TRUE
    OBVIOUS
  <2>7. [p \in Procs |-> c] \in [Procs -> Callers] /\ [p \in Procs |-> {}] \in [Procs -> SUBSET Procs]
    OBVIOUS
  <2>8. Chained([p \in Procs |-> c], [p \in Procs |-> {}])
    BY <2>2, <2>3 DEF Chained, AtWork
  <2> QED
    BY <2>1, <2>4, <2>5, <2>7, <2>8 DEF AnswersInv
<1>2. Inv /\ [Next]_vars => Inv'
  BY AnswersStep
<1>3. Inv => AnswersMatch
  BY DEF AnswersInv, CallerOk, AnswersMatch
<1> QED
  BY <1>1, <1>2, <1>3, PTL DEF Spec
=============================================================================
