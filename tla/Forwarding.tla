---------------------------- MODULE Forwarding ----------------------------
(***************************************************************************)
(* Statements forwarded to a remote server after CONNECT: dispatch_inner   *)
(* writes the text to the REMOTE stream and reads one line back, all with  *)
(* the local database mutex held; on the other side serve_client turns     *)
(* every line into one statement under the other process's mutex, which    *)
(* may itself be forwarded.                                                *)
(*                                                                         *)
(* A request is the sequence of the lines its text has.  A response line   *)
(* is abstracted to the request it answers.  The connections are up and    *)
(* logged in; CONNECT and DISCONNECT are not steps of this module.         *)
(***************************************************************************)
EXTENDS Naturals, Sequences

CONSTANTS Procs,         \* processes, each with its database mutex
          Callers,       \* game threads and TCP clients
          Home,          \* caller -> the process it calls
          Remote,        \* process -> where its REMOTE stream leads, or NoProc
          NoProc,
          Requests,      \* texts: sequences over {"sql", "blank", "quit"}
          MaxBacklog     \* bound: unread response lines on a stream

Free == "free"

ASSUME ForwardingAssumption ==
    /\ Callers \cap Procs = {} /\ Free \notin Callers \cup Procs
    /\ Home \in [Callers -> Procs]
    /\ NoProc \notin Procs /\ Remote \in [Procs -> Procs \cup {NoProc}]
    /\ Requests \subseteq Seq({"sql", "blank", "quit"})
    /\ MaxBacklog \in Nat

Ids == Callers \X {0, 1}    \* a caller's requests, numbered modulo 2
Closed == <<>>              \* end of file instead of an answer

VARIABLES holder,    \* process -> who holds its mutex: Free, a caller, or the
                     \* process whose stream its session thread serves
          turn,      \* caller -> number of its current request
          status,    \* caller -> "idle" or "sent"
          answer,    \* caller -> the line its last request was answered with
          inbox,     \* process -> request lines on its stream, not yet read
          serving,   \* process -> has the session of its stream forwarded a line
          outbox,    \* process -> response lines on its stream
          alive      \* process -> is its stream still served

vars == <<holder, turn, status, answer, inbox, serving, outbox, alive>>

Line == [kind : {"sql", "blank", "quit"}, id : Ids]

TypeOK ==
    /\ holder \in [Procs -> {Free} \cup Callers \cup Procs]
    /\ turn \in [Callers -> {0, 1}]
    /\ status \in [Callers -> {"idle", "sent"}]
    /\ answer \in [Callers -> Ids \cup {Closed}]
    /\ inbox \in [Procs -> Seq(Line)]
    /\ serving \in [Procs -> BOOLEAN]
    /\ outbox \in [Procs -> Seq(Ids \cup {Closed})]
    /\ alive \in [Procs -> BOOLEAN]

Init ==
    /\ holder = [p \in Procs |-> Free]
    /\ turn = [c \in Callers |-> 0]
    /\ status = [c \in Callers |-> "idle"]
    /\ answer = [c \in Callers |-> <<c, 0>>]
    /\ inbox = [p \in Procs |-> <<>>]
    /\ serving = [p \in Procs |-> FALSE]
    /\ outbox = [p \in Procs |-> <<>>]
    /\ alive = [p \in Procs |-> TRUE]

-----------------------------------------------------------------------------
(* No REMOTE: the statement runs under the local mutex and is answered. *)
RunLocally(c) ==
    /\ Remote[Home[c]] = NoProc
    /\ status[c] = "idle" /\ holder[Home[c]] = Free
    /\ turn' = [turn EXCEPT ![c] = 1 - @]
    /\ answer' = [answer EXCEPT ![c] = <<c, 1 - turn[c]>>]
    /\ UNCHANGED <<holder, status, inbox, serving, outbox, alive>>

(* Writing lines to the stream of p; nobody reads them once it is closed.  *)
Write(p, lines) ==
    inbox' = [inbox EXCEPT ![p] = IF alive[p] THEN @ \o lines ELSE @]

(* The caller takes the mutex and writes its text to the stream. *)
Forward(c, r) ==
    LET p == Home[c] IN
    /\ Remote[p] # NoProc
    /\ status[c] = "idle" /\ holder[p] = Free
    /\ Len(inbox[p]) + Len(outbox[p]) + Len(r) <= MaxBacklog
    /\ holder' = [holder EXCEPT ![p] = c]
    /\ status' = [status EXCEPT ![c] = "sent"]
    /\ turn' = [turn EXCEPT ![c] = 1 - @]
    /\ Write(p, [n \in DOMAIN r |-> [kind |-> r[n], id |-> <<c, 1 - turn[c]>>]])
    /\ UNCHANGED <<answer, serving, outbox, alive>>

(* A write to a stream the peer has closed is noticed at the latest when   *)
(* it is repeated: "Remote connection lost".  REMOTE is not reset.         *)
ForwardFails(c) ==
    LET p == Home[c] IN
    /\ Remote[p] # NoProc /\ ~alive[p]
    /\ status[c] = "idle" /\ holder[p] = Free
    /\ turn' = [turn EXCEPT ![c] = 1 - @]
    /\ answer' = [answer EXCEPT ![c] = Closed]
    /\ UNCHANGED <<holder, status, inbox, serving, outbox, alive>>

(* read_line on the stream of p returns its first line, or nothing at the  *)
(* end of the stream.                                                      *)
Readable(p) == outbox[p] # <<>> \/ ~alive[p]
LineRead(p) == IF outbox[p] # <<>> THEN Head(outbox[p]) ELSE Closed

(* What may be left on the stream then.  The BufReader lives for one line: *)
(* lines already there behind it may have been read ahead, and are lost    *)
(* with it.                                                                *)
Unread(p) ==
    IF outbox[p] = <<>> THEN {<<>>}
    ELSE {SubSeq(outbox[p], n + 1, Len(outbox[p])) : n \in 1 .. Len(outbox[p])}

(* read_line returns: the caller has its answer and the mutex is released. *)
Receive(c) ==
    LET p == Home[c] IN
    /\ status[c] = "sent" /\ Readable(p)
    /\ status' = [status EXCEPT ![c] = "idle"]
    /\ holder' = [holder EXCEPT ![p] = Free]
    /\ answer' = [answer EXCEPT ![c] = LineRead(p)]
    /\ \E rest \in Unread(p) : outbox' = [outbox EXCEPT ![p] = rest]
    /\ UNCHANGED <<turn, inbox, serving, alive>>

-----------------------------------------------------------------------------
(* The session thread that serves the stream of p at Remote[p].            *)
NextLine(p) ==
    /\ Remote[p] # NoProc /\ alive[p] /\ ~serving[p]
    /\ inbox[p] # <<>>

(* Mutant: an empty line is answered too. *)
AnswerBlank(p) ==
    /\ NextLine(p) /\ Head(inbox[p]).kind = "blank"
    /\ inbox' = [inbox EXCEPT ![p] = Tail(@)]
    /\ outbox' = [outbox EXCEPT ![p] = Append(@, Head(inbox[p]).id)]
    /\ UNCHANGED <<holder, turn, status, answer, serving, alive>>

(* An empty line is skipped without a response. *)
SkipBlank(p) ==
    /\ NextLine(p) /\ Head(inbox[p]).kind = "blank"
    /\ inbox' = [inbox EXCEPT ![p] = Tail(@)]
    /\ UNCHANGED <<holder, turn, status, answer, serving, outbox, alive>>

(* Mutant: the session ends and its stream stays open. *)
LeaveStream(p) ==
    /\ NextLine(p) /\ Head(inbox[p]).kind = "quit"
    /\ inbox' = [inbox EXCEPT ![p] = <<>>]
    /\ UNCHANGED <<holder, turn, status, answer, serving, outbox, alive>>

(* QUIT and EXIT close the connection without a response. *)
CloseStream(p) ==
    /\ NextLine(p) /\ Head(inbox[p]).kind = "quit"
    /\ inbox' = [inbox EXCEPT ![p] = <<>>]
    /\ alive' = [alive EXCEPT ![p] = FALSE]
    /\ UNCHANGED <<holder, turn, status, answer, serving, outbox>>

(* A statement runs under the mutex of the process that serves it. *)
Serve(p) ==
    LET q == Remote[p] IN
    /\ NextLine(p) /\ Head(inbox[p]).kind = "sql"
    /\ Remote[q] = NoProc /\ holder[q] = Free
    /\ inbox' = [inbox EXCEPT ![p] = Tail(@)]
    /\ outbox' = [outbox EXCEPT ![p] = Append(@, Head(inbox[p]).id)]
    /\ UNCHANGED <<holder, turn, status, answer, serving, alive>>

(* ... or is forwarded again, with that mutex held. *)
ServeByForwarding(p) ==
    LET q == Remote[p]
        line == Head(inbox[p])
        read == [inbox EXCEPT ![p] = Tail(@)]
    IN
    /\ NextLine(p) /\ line.kind = "sql"
    /\ Remote[q] # NoProc /\ holder[q] = Free
    /\ holder' = [holder EXCEPT ![q] = p]
    /\ serving' = [serving EXCEPT ![p] = TRUE]
    /\ inbox' = IF alive[q] THEN [read EXCEPT ![q] = Append(@, line)] ELSE read
    /\ UNCHANGED <<turn, status, answer, outbox, alive>>

(* The answer, or the loss of the onward stream, is passed back. *)
PassBack(p) ==
    LET q == Remote[p] IN
    /\ serving[p] /\ Readable(q)
    /\ \E rest \in Unread(q) :
        outbox' = [[outbox EXCEPT ![q] = rest] EXCEPT ![p] = Append(@, LineRead(q))]
    /\ serving' = [serving EXCEPT ![p] = FALSE]
    /\ holder' = [holder EXCEPT ![q] = Free]
    /\ UNCHANGED <<turn, status, answer, inbox, alive>>

SessionStep(p) ==
    \/ SkipBlank(p) \/ CloseStream(p)
    \/ Serve(p) \/ ServeByForwarding(p) \/ PassBack(p)

Next ==
    \/ \E c \in Callers :
        \/ RunLocally(c)
        \/ \E r \in Requests : Forward(c, r)
        \/ ForwardFails(c) \/ Receive(c)
    \/ \E p \in Procs :
        \/ SkipBlank(p) \/ CloseStream(p)
        \/ Serve(p) \/ ServeByForwarding(p) \/ PassBack(p)

Spec == Init /\ [][Next]_vars

(* The operating system runs every thread that can run, and a mutex that   *)
(* is released again and again is in the end given to a thread waiting     *)
(* for it.                                                                 *)
FairSpec ==
    /\ Spec
    /\ \A c \in Callers : WF_vars(Receive(c))
    /\ \A p \in Procs : SF_vars(SessionStep(p))

-----------------------------------------------------------------------------
(* A caller gets the answer to its own request, never the answer to an     *)
(* earlier one: "Each query produces exactly one line" (TCP-Connector.qmd).*)
AnswersMatch ==
    \A c \in Callers :
        status[c] = "idle" => answer[c] \in {<<c, turn[c]>>, Closed}

(* Every forwarded request is answered and gives the mutex back: "a slow   *)
(* client does not block others" (TCP-Connector.qmd).                      *)
AnsweredEventually ==
    \A c \in Callers : status[c] = "sent" ~> status[c] = "idle"
=============================================================================
