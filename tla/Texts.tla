-------------------------------- MODULE Texts --------------------------------
(***************************************************************************)
(* What happens to the text of a request before the SQL parser sees it: it *)
(* is split into statements, arguments take the place of $1, comments are  *)
(* dropped, numbers and the operators %% and MATCH rewritten.  Each of     *)
(* these steps finds string literals on its own; the literals a client     *)
(* wrote, and its arguments, have to come through all of them.             *)
(*                                                                         *)
(* A text is a sequence of symbols: quotes, blanks, signs, a word, a       *)
(* number in scientific notation, keywords.  Types' names (DATE, ...) are  *)
(* not modelled.                                                           *)
(***************************************************************************)
EXTENDS Integers, FiniteSets, Sequences, SequencesExt

Blank == {" ", "\n"}
Trimmed(x) ==
    LET kept == {i \in DOMAIN x : x[i] \notin Blank}
    IN  IF kept = {} THEN <<>> ELSE SubSeq(x, Min(kept), Max(kept))
Words == {"a", "send", "1e2", "100", "NOT", "MATCH", "BEGIN", "END",
          "fuzzy_match", "match_search"}
Quotes(x, from, to) == Cardinality({i \in from..to : x[i] = "'"})

-----------------------------------------------------------------------------
(* split_sql: a quote after a backslash does not count. *)
Split(x) ==
    LET keep(stmts, stmt) == IF Trimmed(stmt) = <<>> THEN stmts ELSE Append(stmts, Trimmed(stmt))
        step(s, c) ==
          LET inside == IF c = "'" /\ s.prev # "\\" THEN ~s.inside ELSE s.inside
          IN  IF c = ";" /\ ~inside
              THEN [stmts |-> keep(s.stmts, s.current), current |-> <<>>,
                    inside |-> inside, prev |-> c]
              ELSE [s EXCEPT !.current = Append(@, c), !.inside = inside, !.prev = c]
        end == FoldLeft(step, [stmts |-> <<>>, current |-> <<>>, inside |-> FALSE, prev |-> " "], x)
    IN  keep(end.stmts, end.current)

(* substitute_params, of one argument: numbers, booleans and NULL stay as  *)
(* they are, anything else becomes a literal.                              *)
Literal(arg) ==
    IF arg \in {<<"NULL">>, <<"100">>, <<"true">>} THEN arg
    ELSE <<"'">> \o FlattenSeq([i \in DOMAIN arg |-> IF arg[i] = "'" THEN <<"'", "'">>
                                                     ELSE <<arg[i]>>]) \o <<"'">>
Substituted(x, arg) ==
    FlattenSeq([i \in DOMAIN x |-> IF x[i] = "$1" /\ Quotes(x, 1, i - 1) % 2 = 0 THEN Literal(arg)
                                   ELSE <<x[i]>>])

(* Mutant: a comment may begin within a literal. *)
StrippedAnywhere(x) ==
    LET step(s, c) ==
          CASE s.mode = "line" -> IF c = "\n" THEN [out |-> Append(s.out, c), mode |-> "text"] ELSE s
            [] s.mode = "block" -> IF c = "*/" THEN [s EXCEPT !.mode = "text"] ELSE s
            [] c = "--" -> [s EXCEPT !.mode = "line"]
            [] c = "/*" -> [s EXCEPT !.mode = "block"]
            [] OTHER -> [s EXCEPT !.out = Append(@, c)]
    IN  FoldLeft(step, [out |-> <<>>, mode |-> "text"], x).out

(* strip_sql_comments *)
Stripped(x) ==
    LET step(s, c) ==
          CASE s.mode = "line" -> IF c = "\n" THEN [out |-> Append(s.out, c), mode |-> "text"] ELSE s
            [] s.mode = "block" -> IF c = "*/" THEN [s EXCEPT !.mode = "text"] ELSE s
            [] s.mode = "text" /\ c = "--" -> [s EXCEPT !.mode = "line"]
            [] s.mode = "text" /\ c = "/*" -> [s EXCEPT !.mode = "block"]
            [] OTHER -> [out |-> Append(s.out, c),
                         mode |-> IF c # "'" THEN s.mode
                                  ELSE IF s.mode = "text" THEN "string" ELSE "text"]
    IN  FoldLeft(step, [out |-> <<>>, mode |-> "text"], x).out

(* fix_scientific_notation: 1e2 becomes 100 where it is not the end of a   *)
(* word, in literals too.                                                  *)
Expanded(x) ==
    [i \in DOMAIN x |-> IF x[i] = "1e2" /\ (i = 1 \/ x[i - 1] \notin Words \cup {"."}) THEN "100"
                        ELSE x[i]]

-----------------------------------------------------------------------------
(* The rewriting of `left op right`.  A position is a set of at most one.  *)
FirstOf(S) == {i \in S : \A j \in S : i <= j}
LastOf(S) == {i \in S : \A j \in S : j <= i}

(* find_unescaped_pct, find_match_keyword *)
FindOp(op, x, from) ==
    FirstOf({i \in from..Len(x) :
               /\ x[i] = op /\ Quotes(x, from, i - 1) % 2 = 0
               /\ op = "MATCH" => /\ i > 1 => x[i - 1] \notin Words
                                  /\ i < Len(x) => x[i + 1] \notin Words})

TrimmedEnd(x, end) == Max({0} \cup {i \in 1..end : x[i] \notin Blank})

(* find_left_operand_start: the parentheses that close on the way are      *)
(* walked through.                                                         *)
LeftStart(x, end) ==
    LET opened(i, p) == Cardinality({j \in i..end : x[j] = p})
        stops == {i \in 1..end : /\ opened(i + 1, ")") = opened(i + 1, "(")
                                 /\ x[i] \notin Words \cup {".", ")"}}
    IN  1 + Max({0} \cup stops)

(* The literal that ends at end, the left operand of MATCH only. *)
QuoteBefore(x, end) ==
    LastOf({i \in 1..(end - 1) : x[end] = "'" /\ x[i] = "'" /\ (i = 1 \/ x[i - 1] # "\\")})
LeftOperand(op, x, end) ==
    LET start == LeftStart(x, end)
    IN  IF start <= end THEN <<start, end>>
        ELSE IF op = "MATCH" /\ QuoteBefore(x, end) # {}
        THEN <<CHOOSE i \in QuoteBefore(x, end) : TRUE, end>>
        ELSE <<1, 0>>

(* The end of the literal or the word that begins at start: here a         *)
(* backslash escapes and a doubled quote ends the literal.                 *)
RightEnd(x, start) ==
    LET escaped(j) == \E b \in (start + 1)..(j - 1) :
                        /\ (j - b) % 2 = 1 /\ \A k \in b..(j - 1) : x[k] = "\\"
                        /\ (b = start + 1 \/ x[b - 1] # "\\")
        closing == FirstOf({j \in (start + 1)..Len(x) : x[j] = "'" /\ ~escaped(j)})
        beyond == FirstOf({j \in start..Len(x) : x[j] \notin Words \cup {"."}})
    IN  IF start > Len(x) THEN Len(x)
        ELSE IF x[start] = "'" THEN (IF closing = {} THEN Len(x) ELSE Max(closing))
        ELSE (IF beyond = {} THEN Len(x) ELSE Max(beyond) - 1)

(* One turn of the loop: the next operator that has both operands is       *)
(* replaced, one that has not is passed over; `left NOT MATCH right`       *)
(* becomes the negation.                                                   *)
RewriteAt(op, s, p) ==
    LET x == s.text
        near == LeftOperand(op, x, TrimmedEnd(x, p - 1))
        negated == op = "MATCH" /\ near[1] = near[2] /\ x[near[1]] = "NOT"
        real == LeftOperand(op, x, TrimmedEnd(x, near[1] - 1))
        left == IF negated /\ real[1] <= real[2] THEN real ELSE near
        start == Min({Len(x) + 1} \cup {i \in (p + 1)..Len(x) : x[i] \notin Blank})
        end == RightEnd(x, start)
        call == (IF negated THEN <<"NOT", " ">> ELSE <<>>)
                  \o <<IF op = "MATCH" THEN "match_search" ELSE "fuzzy_match", "(">>
                  \o SubSeq(x, left[1], left[2]) \o <<",">> \o SubSeq(x, start, end) \o <<")">>
    IN  IF left[1] > left[2] \/ end < start THEN [s EXCEPT !.from = p + 1]
        ELSE [text |-> SubSeq(x, 1, left[1] - 1) \o call \o SubSeq(x, end + 1, Len(x)),
              from |-> left[1] + Len(call)]
Rewritten(op, x) ==
    FoldLeft(LAMBDA s, i : IF FindOp(op, s.text, s.from) = {} THEN s
                           ELSE RewriteAt(op, s, Max(FindOp(op, s.text, s.from))),
             [text |-> x, from |-> 1], x).text

Preprocessed(x) == Rewritten("MATCH", Rewritten("%%", Expanded(Stripped(x))))

-----------------------------------------------------------------------------
(* exec_sql_statements on CREATE TRIGGER: its body was split as well, so   *)
(* the parts up to the one that ends with END are put together again.      *)
IsTrigger(stmt) == stmt[1] = "TRIGGER"
EndsBody(stmt) == Last(stmt) \in {"END", "send"}
Merged(stmts, k) ==
    LET at == Min({i \in DOMAIN stmts : stmts[i] = stmts[k]})
        ends == {i \in (at + 1)..Len(stmts) : EndsBody(stmts[i])}
    IN  IF EndsBody(stmts[k]) THEN <<>>
        ELSE [i \in 1..(Min({Len(stmts)} \cup ends) - at) |-> at + i]
Gathered(stmts, k) ==
    FoldLeft(LAMBDA acc, i : acc \o <<";">> \o stmts[i], stmts[k], Merged(stmts, k))

(* handle_create_trigger: from the first BEGIN to the END that closes it,  *)
(* {} when there is none; any word that ends with "end" is one.            *)
TriggerBody(x) ==
    LET begins == {i \in DOMAIN x : x[i] = "BEGIN"}
        from == Min(begins)
        depth(i) == Cardinality({j \in from..i : x[j] = "BEGIN"})
                      - Cardinality({j \in from..i : x[j] \in {"END", "send"}})
        closing == FirstOf({i \in from..Len(x) : depth(i) = 0})
        semis(s) == Max({0} \cup {i \in DOMAIN s : s[i] \notin Blank \cup {";"}})
        body(s) == SubSeq(s, 1, semis(s))
    IN  IF begins = {} THEN {} ELSE {body(Trimmed(SubSeq(x, from + 1, i - 1))) : i \in closing}

(* What the statements of a batch do, in order: a trigger is created with  *)
(* its body, or that fails and the batch ends; END alone is passed over;   *)
(* anything else is run, here without failing.                             *)
Effects(stmts) ==
    LET made(k) == TriggerBody(Gathered(stmts, k))
        effect(s, k) ==
          CASE s.failed \/ stmts[k] = <<"END">> -> s
            [] IsTrigger(stmts[k]) -> [s EXCEPT !.failed = made(k) = {},
                                                !.triggers = @ \cup made(k)]
            [] OTHER -> [s EXCEPT !.run = @ \cup {k}]
    IN  FoldLeft(effect, [failed |-> FALSE, triggers |-> {}, run |-> {}],
                 [k \in DOMAIN stmts |-> k])

-----------------------------------------------------------------------------
(* How the SQL parser reads a text: literals, in which a doubled quote is  *)
(* a quote, and other symbols; blanks and comments are nothing.            *)
Token(c) == [token |-> c]
Lit(text) == [literal |-> text]
Lexemes(x) ==
    LET plain(s, c) ==
          CASE c = "'" -> [s EXCEPT !.mode = "literal", !.lit = <<>>]
            [] c = "--" -> [s EXCEPT !.mode = "line"]
            [] c = "/*" -> [s EXCEPT !.mode = "block"]
            [] c \in Blank -> s
            [] OTHER -> [s EXCEPT !.out = Append(@, Token(c))]
        close(s) == [s EXCEPT !.mode = "text", !.out = Append(@, Lit(s.lit))]
        step(s, c) ==
          CASE s.mode = "text" -> plain(s, c)
            [] s.mode = "line" -> IF c = "\n" THEN [s EXCEPT !.mode = "text"] ELSE s
            [] s.mode = "block" -> IF c = "*/" THEN [s EXCEPT !.mode = "text"] ELSE s
            [] s.mode = "literal" -> IF c = "'" THEN [s EXCEPT !.mode = "quote"]
                                     ELSE [s EXCEPT !.lit = Append(@, c)]
            [] s.mode = "quote" -> IF c = "'" THEN [s EXCEPT !.mode = "literal", !.lit = Append(@, c)]
                                   ELSE plain(close(s), c)
        end == FoldLeft(step, [out |-> <<>>, lit |-> <<>>, mode |-> "text"], x)
    IN  IF end.mode = "quote" THEN close(end).out ELSE end.out
Literals(lexemes) == SelectSeq(lexemes, LAMBDA l : "literal" \in DOMAIN l)

(* What an argument is to the parser. *)
Argument(arg) == IF Len(Literal(arg)) = 1 THEN Token(arg[1]) ELSE Lit(arg)

(* The texts the steps agree about: every quote and every comment is       *)
(* closed, comments have no quote, no `;` and no argument, no backslash    *)
(* comes before a quote, an argument does not touch a literal, no literal  *)
(* has a number like 1e2, and with an operator no doubled quote.           *)
Agreed(x, arg) ==
    LET inLine(i) == \E j \in 1..(i - 1) : x[j] = "--" /\ \A k \in j..i : x[k] # "\n"
        inBlock(i) == \E j \in 1..(i - 1) : x[j] = "/*" /\ \A k \in j..i : x[k] # "*/"
        inside(i) == Quotes(x, 1, i - 1) % 2 = 1
        touches(c, d) == {c, d} \subseteq {"'", "$1"} /\ "$1" \in {c, d}
        operators == {"%%", "MATCH"} \cap ToSet(x)
    IN  /\ ~inside(Len(x) + 1)
        /\ \A i \in DOMAIN x :
             /\ x[i] \in {"'", ";", "$1"} /\ ~inside(i) => ~inLine(i) /\ ~inBlock(i)
             /\ x[i] = "1e2" => ~inside(i)
             /\ i < Len(x) =>
                  /\ ~touches(x[i], x[i + 1])
                  /\ <<x[i], x[i + 1]>> # <<"\\", "'">>
                  /\ operators # {} => ~(inside(i) /\ x[i] = "'" /\ x[i + 1] = "'")
        /\ operators # {} => ToSet(arg) \cap {"'", "\\"} = {}

(* The statements are what the semicolons the parser would see make them;  *)
(* and each statement's literals, the argument among them, come to the     *)
(* parser as they were written.                                            *)
Statements(x) ==
    LET lexemes == Lexemes(x)
        step(s, l) == IF l = Token(";") THEN Append(s, <<>>)
                      ELSE Append(Front(s), Append(Last(s), l))
    IN  SelectSeq(FoldLeft(step, << <<>> >>, lexemes), LAMBDA stmt : stmt # <<>>)
WithArgument(lexemes, arg) ==
    [i \in DOMAIN lexemes |-> IF lexemes[i] = Token("$1") THEN Argument(arg) ELSE lexemes[i]]

TextRight(x, arg) ==
    LET stmts == Split(x)
        read == SelectSeq([k \in DOMAIN stmts |-> Lexemes(stmts[k])], LAMBDA l : l # <<>>)
    IN  Agreed(x, arg) =>
          /\ read = Statements(x)
          /\ \A k \in DOMAIN stmts :
               LET given == Substituted(stmts[k], arg)
               IN  /\ Lexemes(given) = WithArgument(Lexemes(stmts[k]), arg)
                   /\ Literals(Lexemes(Preprocessed(given))) = Literals(Lexemes(given))

(* A trigger is created with all the statements of its body.               *)
TriggerRight(x) ==
    LET body == SubSeq(x, 3, Len(x) - 1)
    IN  x = <<"TRIGGER", "BEGIN">> \o body \o <<"END">> /\ ToSet(body) \subseteq {"a", ";", " "} =>
          \E made \in Effects(Split(x)).triggers : Split(made) = Split(body)

(* A statement between a trigger's BEGIN and END is not run when the       *)
(* trigger is made.                                                        *)
InBody(stmts, k) ==
    \E i \in DOMAIN stmts :
      /\ IsTrigger(stmts[i]) /\ k \in ToSet(Merged(stmts, i))
      /\ \A j \in i..k : "END" \notin ToSet(stmts[j])
BodyWaits(x) ==
    LET effects == Effects(Split(x))
    IN  ~effects.failed => \A k \in effects.run : ~InBody(Split(x), k)
=============================================================================
