------------------------- MODULE ForeignKeysProofs -------------------------
(***************************************************************************)
(* Foreign keys and triggers, for any tables, any keys between them, any   *)
(* trigger bodies and any depth limit.  First how far a statement can nest *)
(* and when the thread's depth counter is back at zero; then what they     *)
(* keep of the rows: the types, the guard of a BEFORE INSERT trigger, the  *)
(* index on a referencing column, and the references themselves.           *)
(***************************************************************************)
EXTENDS ForeignKeys, FiniteSetTheorems, FunctionTheorems, TLAPS

\* What every statement has, whatever its keys are.
IsStatement(s) ==
    /\ {"op", "table"} \subseteq DOMAIN s
    /\ s.op \in Events \cup {"RAISE"}
    /\ s.op # "RAISE" => s.table \in Tables
    /\ s.op = "UPDATE" => "col" \in DOMAIN s

\* The statements S that run are statements; F is whatever they found and
\* whatever row their triggers are given.
Frames(S, F) == [stmt : S, phase : Phases, found : F, prev : 0 .. MaxDepth, todo : Seq(BodyTexts), new : F]

StackTyped == \E S, F : /\ \A s \in S : IsStatement(s)
                        /\ stack \in Seq(Frames(S, F))

(* Every frame that waits for a body has counted its level; the frame on   *)
(* top has room for the body it runs next.                                 *)
LevelsCounted ==
    /\ depth \in 0 .. MaxDepth
    /\ StackTyped
    /\ \A i \in 1 .. Len(stack) - 1 : stack[i].phase \in Timings
    /\ \A i \in 1 .. Len(stack) : stack[i].phase \in Timings => stack[i].prev >= i - 1
    /\ stack # <<>> =>
         IF Top.phase \in Timings THEN Top.todo # <<>> => depth >= Len(stack)
         ELSE depth >= Len(stack) - 1

-----------------------------------------------------------------------------
LEMMA Shaped ==
    /\ \A K : \A s \in Statement(K) : IsStatement(s)
    /\ \A s \in ClientStmts : IsStatement(s)
    /\ \A body \in BodyTexts : IsStatement(body)
    /\ \A t \in Tables, timing \in Timings, event \in Events : Bodies[<<t, timing, event>>] \in Seq(BodyTexts)
<1>1. \A K : \A s \in Statement(K) : IsStatement(s)
  BY DEF Statement, IsStatement, Events
<1>2. \A s \in ClientStmts : IsStatement(s)
  BY <1>1, ForeignKeysAssumption
<1>3. ASSUME NEW t \in Tables, NEW timing \in Timings, NEW event \in Events
      PROVE  /\ Bodies[<<t, timing, event>>] \in Seq(BodyTexts)
             /\ \A body \in Range(Bodies[<<t, timing, event>>]) : IsStatement(body)
  <2> DEFINE bodies == Bodies[<<t, timing, event>>]
  <2>1. bodies \in Seq(Statement(Names))
    BY ForeignKeysAssumption
  <2>2. \A body \in Range(bodies) : body \in BodyTexts
    BY DEF BodyTexts
  <2> HIDE DEF bodies
  <2>3. \A i \in DOMAIN bodies : bodies[i] \in Range(bodies) /\ bodies[i] \in Statement(Names)
    BY <2>1 DEF Range
  <2>4. bodies \in Seq(BodyTexts)
    BY <2>1, <2>2, <2>3
  <2>5. \A body \in Range(bodies) : IsStatement(body)
    BY <1>1, <2>3 DEF Range
  <2> QED
    BY <2>4, <2>5 DEF bodies
<1>4. ASSUME NEW body \in BodyTexts PROVE IsStatement(body)
  <2>1. PICK t \in Tables, timing \in Timings, event \in Events :
           body \in Range(Bodies[<<t, timing, event>>])
    BY DEF BodyTexts
  <2> QED
    BY <2>1, <1>3
<1> QED
  BY <1>1, <1>2, <1>3, <1>4

LEMMA MinOfTwo ==
    ASSUME NEW a \in Int, NEW b \in Int
    PROVE  Min({a, b}) = IF a <= b THEN a ELSE b
<1> DEFINE m == IF a <= b THEN a ELSE b
           P(x) == x \in {a, b} /\ \A y \in {a, b} : x =< y
<1>1. P(m)
  OBVIOUS
<1>2. \A x : P(x) => x = m
  OBVIOUS
<1>3. Min({a, b}) = CHOOSE x \in {a, b} : \A y \in {a, b} : x =< y
  BY DEF Min
<1>4. P(CHOOSE x : P(x))
  BY <1>1
<1> QED
  BY <1>2, <1>3, <1>4

\* The stack without its top, with another top, and with one more frame.
LEMMA Popped ==
    ASSUME NEW X, NEW s \in Seq(X), s # <<>>
    PROVE  /\ Front(s) \in Seq(X) /\ Len(Front(s)) = Len(s) - 1 /\ Len(s) \in Nat \ {0}
           /\ \A i \in 1 .. Len(s) - 1 : Front(s)[i] = s[i]
           /\ Last(s) \in X /\ Last(s) = s[Len(s)]
           /\ Len(s) = 1 <=> Front(s) = <<>>
<1>1. Len(s) \in Nat \ {0}
  OBVIOUS
<1> DEFINE m == Len(s) - 1
<1>2. /\ SubSeq(s, 1, m) \in Seq(X) /\ Len(SubSeq(s, 1, m)) = m
      /\ \A i \in 1 .. m : SubSeq(s, 1, m)[i] = s[i]
  <2>1. m \in Nat /\ m <= Len(s) /\ \A i \in 1 .. m : s[i] \in X
    BY <1>1
  <2> HIDE DEF m
  <2>2. SubSeq(s, 1, m) \in Seq(X)
    BY <1>1, <2>1
  <2>3. Len(SubSeq(s, 1, m)) = m
    BY <1>1, <2>1
  <2>4. \A i \in 1 .. m : SubSeq(s, 1, m)[i] = s[i]
    BY <1>1, <2>1
  <2> QED
    BY <2>2, <2>3, <2>4
<1>3. Len(s) \in 1 .. Len(s)
  BY <1>1
<1>4. s[Len(s)] \in X
  BY <1>3
<1>5. \A t \in Seq(X) : Len(t) = 0 <=> t = <<>>
  OBVIOUS
<1>6. Front(s) = SubSeq(s, 1, m) /\ Last(s) = s[Len(s)]
  BY DEF Front, Last
<1>7. Len(s) = 1 <=> m = 0
  BY <1>1
<1> QED
  BY <1>1, <1>2, <1>4, <1>5, <1>6, <1>7

LEMMA TopReplaced ==
    ASSUME NEW X, NEW s \in Seq(X), s # <<>>, NEW f \in X
    PROVE  LET t == Front(s) \o <<f>>
           IN  /\ t \in Seq(X) /\ Len(t) = Len(s) /\ t # <<>> /\ Last(t) = f
               /\ t[Len(t)] = f /\ \A i \in 1 .. Len(s) - 1 : t[i] = s[i]
<1> DEFINE t == Front(s) \o <<f>>
<1>1. /\ Front(s) \in Seq(X) /\ Len(Front(s)) = Len(s) - 1 /\ Len(s) \in Nat \ {0}
      /\ \A i \in 1 .. Len(s) - 1 : Front(s)[i] = s[i]
  BY Popped
<1>2. <<f>> \in Seq(X) /\ Len(<<f>>) = 1 /\ <<f>>[1] = f
  OBVIOUS
<1>3. t \in Seq(X) /\ Len(t) = Len(s)
  BY <1>1, <1>2
<1>4. t[Len(t)] = f /\ \A i \in 1 .. Len(s) - 1 : t[i] = Front(s)[i]
  BY <1>1, <1>2, <1>3
<1> QED
  BY <1>1, <1>3, <1>4 DEF Last

LEMMA Pushed ==
    ASSUME NEW X, NEW s \in Seq(X), s # <<>>, NEW f \in X, NEW g \in X
    PROVE  LET t == Front(s) \o <<f, g>>
           IN  /\ t \in Seq(X) /\ Len(t) = Len(s) + 1 /\ t # <<>> /\ Last(t) = g
               /\ t[Len(t)] = g /\ t[Len(s)] = f /\ \A i \in 1 .. Len(s) - 1 : t[i] = s[i]
<1> DEFINE t == Front(s) \o <<f, g>>
<1>1. /\ Front(s) \in Seq(X) /\ Len(Front(s)) = Len(s) - 1 /\ Len(s) \in Nat \ {0}
      /\ \A i \in 1 .. Len(s) - 1 : Front(s)[i] = s[i]
  BY Popped
<1>2. <<f, g>> \in Seq(X) /\ Len(<<f, g>>) = 2 /\ <<f, g>>[1] = f /\ <<f, g>>[2] = g
  OBVIOUS
<1>3. t \in Seq(X) /\ Len(t) = Len(s) + 1
  BY <1>1, <1>2
<1>4. t[Len(s)] = f /\ \A i \in 1 .. Len(s) - 1 : t[i] = Front(s)[i]
  BY <1>1, <1>2, <1>3
<1>5. t[Len(t)] = g
  <2>1. Len(t) = Len(Front(s)) + 2 /\ Len(t) \in 1 .. Len(Front(s)) + Len(<<f, g>>)
    BY <1>1, <1>2, <1>3
  <2> QED
    BY <1>1, <1>2, <2>1
<1> QED
  BY <1>1, <1>3, <1>4, <1>5 DEF Last

-----------------------------------------------------------------------------
(* The four things a step does to the stack.                               *)

\* The frame on top, with what it found and the row its triggers are given.
TopWith(found, new) == [Top EXCEPT !.found = found, !.new = new]

LEMMA TopKept ==
    ASSUME NEW S, NEW F, Top \in Frames(S, F)
    PROVE  /\ Top = TopWith(Top.found, Top.new)
           /\ \A found : [Top EXCEPT !.found = found] = TopWith(found, Top.new)
           /\ \A new : [Top EXCEPT !.new = new] = TopWith(Top.found, new)
           /\ \A found, new : TopWith(found, new).stmt = Top.stmt
<1> HIDE DEF Top
<1>1. DOMAIN Top = {"stmt", "phase", "found", "prev", "todo", "new"} /\ Top = [x \in DOMAIN Top |-> Top[x]]
  BY DEF Frames
<1> QED
  BY <1>1 DEF TopWith

LEMMA LevelEntered ==
    ASSUME LevelsCounted, stack # <<>>, Top.phase \notin Timings,
           NEW found, NEW new, NEW timing \in Timings, Top.stmt.op # "RAISE",
           Enter(TopWith(found, new), timing)
    PROVE  LevelsCounted'
<1>1. PICK S, F : (\A s \in S : IsStatement(s)) /\ stack \in Seq(Frames(S, F))
  BY DEF LevelsCounted, StackTyped
<1>2. Top \in Frames(S, F) /\ Len(stack) \in Nat \ {0}
  BY <1>1, Popped DEF Top
<1> DEFINE G == F \cup {found, new}
           bodies == Bodies[<<Top.stmt.table, timing, Top.stmt.op>>]
           f == [TopWith(found, new) EXCEPT !.phase = timing, !.prev = depth,
                            !.todo = IF depth < MaxDepth THEN bodies ELSE <<>>]
<1>3. depth \in 0 .. MaxDepth /\ MaxDepth \in Nat /\ depth \in Int
  BY ForeignKeysAssumption DEF LevelsCounted
<1>4. bodies \in Seq(BodyTexts)
  <2>1. Top.stmt.table \in Tables /\ Top.stmt.op \in Events
    BY <1>1, <1>2 DEF Frames, IsStatement
  <2> QED
    BY <2>1, Shaped
<1>5. stack \in Seq(Frames(S, G)) /\ f \in Frames(S, G)
  <2>1. Frames(S, F) \in SUBSET Frames(S, G)
    BY DEF Frames
  <2>2. <<>> \in Seq(BodyTexts)
    OBVIOUS
  <2>3. (IF depth < MaxDepth THEN bodies ELSE <<>>) \in Seq(BodyTexts)
    BY <1>4, <2>2
  <2>4. f \in Frames(S, G)
    BY <1>2, <1>3, <2>3 DEF Frames, Phases, TopWith
  <2> HIDE DEF f, G
  <2>5. \A e \in Frames(S, F) : e \in Frames(S, G)
    BY <2>1
  <2>6. stack \in Seq(Frames(S, G))
    BY <1>1, <2>5
  <2> QED
    BY <2>4, <2>6
<1>6. f.phase = timing /\ f.prev = depth /\ f.todo = IF depth < MaxDepth THEN bodies ELSE <<>>
  BY <1>2 DEF Frames, TopWith
<1>7. stack' = Front(stack) \o <<f>> /\ depth' = Min({depth + 1, MaxDepth})
  <2>1. TopWith(found, new).stmt = Top.stmt
    BY <1>2, TopKept
  <2> QED
    BY <2>1 DEF Enter, SetTop
<1> HIDE DEF f, G
<1>8. /\ stack' \in Seq(Frames(S, G)) /\ Len(stack') = Len(stack) /\ stack' # <<>>
      /\ Last(stack') = f /\ stack'[Len(stack)] = f
      /\ \A i \in 1 .. Len(stack) - 1 : stack'[i] = stack[i]
  <2> DEFINE X == Frames(S, G)
  <2>1. stack \in Seq(X) /\ f \in X
    BY <1>5
  <2> HIDE DEF X
  <2>2. /\ stack' \in Seq(X) /\ Len(stack') = Len(stack) /\ stack' # <<>> /\ Last(stack') = f
        /\ stack'[Len(stack')] = f /\ \A i \in 1 .. Len(stack) - 1 : stack'[i] = stack[i]
    BY <2>1, <1>7, TopReplaced
  <2>3. stack' \in Seq(Frames(S, G))
    BY <2>2 DEF X
  <2> QED
    BY <2>2, <2>3
<1>9. depth' = IF depth < MaxDepth THEN depth + 1 ELSE MaxDepth
  <2>1. depth + 1 \in Int /\ MaxDepth \in Int
    BY <1>3
  <2>2. depth' = IF depth + 1 <= MaxDepth THEN depth + 1 ELSE MaxDepth
    BY <1>7, <2>1, MinOfTwo
  <2> QED
    BY <1>3, <2>2
<1>10. depth >= Len(stack) - 1
  BY DEF LevelsCounted
<1> QED
  <2>1. StackTyped'
    BY <1>1, <1>8 DEF StackTyped
  <2>2. depth' \in 0 .. MaxDepth
    BY <1>3, <1>9
  <2>3. \A i \in 1 .. Len(stack') - 1 : stack'[i].phase \in Timings
    BY <1>8 DEF LevelsCounted
  <2>4. \A i \in 1 .. Len(stack') : stack'[i].phase \in Timings => stack'[i].prev >= i - 1
    <3> SUFFICES ASSUME NEW i \in 1 .. Len(stack'), stack'[i].phase \in Timings
                 PROVE  stack'[i].prev >= i - 1
      OBVIOUS
    <3>1. CASE i = Len(stack)
      BY <3>1, <1>6, <1>8, <1>10
    <3>2. CASE i # Len(stack)
      <4>1. i \in 1 .. Len(stack) - 1 /\ i \in 1 .. Len(stack)
        BY <3>2, <1>2, <1>8
      <4> QED
        BY <4>1, <1>8 DEF LevelsCounted
    <3> QED
      BY <3>1, <3>2
  <2>5. f.todo # <<>> => depth' >= Len(stack')
    BY <1>2, <1>3, <1>6, <1>8, <1>9, <1>10
  <2>6. Top' = f
    BY <1>8 DEF Top
  <2> QED
    BY <1>6, <2>1, <2>2, <2>3, <2>4, <2>5, <2>6 DEF LevelsCounted

LEMMA FrameLeft ==
    ASSUME LevelsCounted, stack # <<>>, stack' = Front(stack),
           depth' \in 0 .. MaxDepth, depth' >= Len(stack) - 1
    PROVE  LevelsCounted'
<1>1. PICK S, F : (\A s \in S : IsStatement(s)) /\ stack \in Seq(Frames(S, F))
  BY DEF LevelsCounted, StackTyped
<1>2. /\ stack' \in Seq(Frames(S, F)) /\ Len(stack') = Len(stack) - 1 /\ Len(stack) \in Nat \ {0}
      /\ \A i \in 1 .. Len(stack) - 1 : stack'[i] = stack[i]
  BY <1>1, Popped
<1>3. stack' # <<>> => Last(stack') = stack[Len(stack) - 1] /\ Len(stack) - 1 \in 1 .. Len(stack) - 1
  <2> SUFFICES ASSUME stack' # <<>>
               PROVE  Last(stack') = stack[Len(stack) - 1] /\ Len(stack) - 1 \in 1 .. Len(stack) - 1
    OBVIOUS
  <2>1. Len(stack') \in Nat \ {0}
    BY <1>2
  <2> QED
    BY <2>1, <1>2 DEF Last
<1>4. StackTyped'
  BY <1>1, <1>2 DEF StackTyped
<1> QED
  BY <1>2, <1>3, <1>4 DEF LevelsCounted

\* A frame stays on top, with another phase or with fewer bodies to run, and
\* may start one of them.
LEMMA BodyStarted ==
    ASSUME LevelsCounted, RunBody
    PROVE  LevelsCounted'
<1>1. PICK S, F : (\A s \in S : IsStatement(s)) /\ stack \in Seq(Frames(S, F))
  BY DEF LevelsCounted, StackTyped
<1>2. Top \in Frames(S, F) /\ Len(stack) \in Nat \ {0} /\ Top = stack[Len(stack)] /\ stack # <<>>
  <2>1. stack # <<>>
    BY DEF RunBody, InTrigger, InPhase
  <2> QED
    BY <2>1, <1>1, Popped DEF Top
<1>3. /\ Top.phase \in Timings /\ Top.todo # <<>> /\ Top.todo \in Seq(BodyTexts)
      /\ Top.stmt \in S /\ depth' = depth /\ depth >= Len(stack)
  BY <1>2 DEF RunBody, InTrigger, InPhase, Frames, Timings, LevelsCounted
<1> DEFINE body == Head(Top.todo)
           sub == Substituted(body, Top.new)
           f == [Top EXCEPT !.todo = Tail(@)]
           g == Frame(sub)
           X == Frames(S \cup {sub}, F \cup {{}, None})
<1>4. body \in BodyTexts /\ Tail(Top.todo) \in Seq(BodyTexts)
  BY <1>3
<1>5. IsStatement(body)
  BY <1>4, Shaped
<1>6. IsStatement(sub)
  BY <1>5 DEF Substituted, IsStatement
<1>7. f \in X /\ f.phase = Top.phase /\ f.prev = Top.prev
  BY <1>2, <1>4 DEF Frames
<1>8. g \in X /\ g.phase = "begin"
  <2>1. <<>> \in Seq(BodyTexts) /\ 0 \in 0 .. MaxDepth
    BY ForeignKeysAssumption
  <2> QED
    BY <2>1 DEF Frame, Frames, Phases
<1>9. stack \in Seq(X)
  <2>1. \A e \in Frames(S, F) : e \in X
    BY DEF Frames
  <2> HIDE DEF X
  <2> QED
    BY <2>1, <1>1
<1>10. stack' = Front(stack) \o <<f, g>>
  BY DEF RunBody
<1> HIDE DEF f, g, X, sub
<1>11. /\ stack' \in Seq(X) /\ Len(stack') = Len(stack) + 1 /\ stack' # <<>> /\ Last(stack') = g
       /\ stack'[Len(stack')] = g /\ stack'[Len(stack)] = f
       /\ \A i \in 1 .. Len(stack) - 1 : stack'[i] = stack[i]
  <2>1. stack # <<>> /\ f \in X /\ g \in X
    BY <1>2, <1>7, <1>8
  <2> QED
    BY ONLY <1>9, <1>10, <2>1, Pushed
<1>12. StackTyped'
  <2>1. stack' \in Seq(Frames(S \cup {sub}, F \cup {{}, None}))
    BY <1>11 DEF X
  <2>2. \A s \in S \cup {sub} : IsStatement(s)
    BY <1>1, <1>6
  <2> QED
    BY <2>1, <2>2 DEF StackTyped
<1>13. \A i \in 1 .. Len(stack') - 1 : stack'[i].phase = stack[i].phase /\ stack'[i].prev = stack[i].prev
  <2> SUFFICES ASSUME NEW i \in 1 .. Len(stack') - 1
               PROVE  stack'[i].phase = stack[i].phase /\ stack'[i].prev = stack[i].prev
    OBVIOUS
  <2>1. CASE i = Len(stack)
    BY <2>1, <1>2, <1>7, <1>11
  <2>2. CASE i # Len(stack)
    <3>1. i \in 1 .. Len(stack) - 1
      BY <2>2, <1>2, <1>11
    <3> QED
      BY <3>1, <1>11
  <2> QED
    BY <2>1, <2>2
<1>14. \A i \in 1 .. Len(stack) : stack[i].phase \in Timings
  BY <1>2, <1>3 DEF LevelsCounted
<1>15. Top' = g /\ g.phase \notin Timings
  BY <1>8, <1>11 DEF Top, Timings
<1>16. \A i \in 1 .. Len(stack') : stack'[i].phase \in Timings => stack'[i].prev >= i - 1
  <2> SUFFICES ASSUME NEW i \in 1 .. Len(stack'), stack'[i].phase \in Timings
               PROVE  stack'[i].prev >= i - 1
    OBVIOUS
  <2>1. i # Len(stack')
    BY <1>11, <1>15
  <2>2. i \in 1 .. Len(stack') - 1 /\ i \in 1 .. Len(stack)
    BY <2>1, <1>2, <1>11
  <2> QED
    BY <2>2, <1>13 DEF LevelsCounted
<1>17. \A i \in 1 .. Len(stack') - 1 : stack'[i].phase \in Timings
  BY <1>2, <1>11, <1>13, <1>14
<1> QED
  BY <1>2, <1>3, <1>11, <1>12, <1>15, <1>16, <1>17 DEF LevelsCounted

\* A statement whose BEFORE triggers are done.
LEMMA GuardPassed ==
    ASSUME LevelsCounted, LeaveBefore
    PROVE  LevelsCounted'
<1>1. PICK S, F : (\A s \in S : IsStatement(s)) /\ stack \in Seq(Frames(S, F))
  BY DEF LevelsCounted, StackTyped
<1>2. stack # <<>> /\ Top.phase = "BEFORE" /\ depth' = Top.prev
  BY DEF LeaveBefore, InPhase
<1>3. Top \in Frames(S, F) /\ Len(stack) \in Nat \ {0} /\ Top = stack[Len(stack)]
  BY <1>1, <1>2, Popped DEF Top
<1> DEFINE f == [Top EXCEPT !.phase = "apply"]
<1>4. f \in Frames(S, F) /\ f.phase = "apply"
  BY <1>3 DEF Frames, Phases
<1>5. stack' = Front(stack) \o <<f>>
  BY DEF LeaveBefore, SetTop
<1> HIDE DEF f
<1>6. /\ stack' \in Seq(Frames(S, F)) /\ Len(stack') = Len(stack) /\ stack' # <<>> /\ Last(stack') = f
      /\ stack'[Len(stack')] = f /\ \A i \in 1 .. Len(stack) - 1 : stack'[i] = stack[i]
  BY <1>1, <1>2, <1>4, <1>5, TopReplaced
<1>7. StackTyped'
  BY <1>1, <1>6 DEF StackTyped
<1>8. Len(stack) \in 1 .. Len(stack) /\ Top.phase \in Timings
  BY <1>2, <1>3 DEF Timings
<1>9. depth' >= Len(stack) - 1 /\ depth' \in 0 .. MaxDepth
  BY <1>2, <1>3, <1>8 DEF LevelsCounted, Frames
<1>10. Top' = f /\ f.phase \notin Timings
  BY <1>4, <1>6 DEF Top, Timings
<1>11. \A i \in 1 .. Len(stack') - 1 : stack'[i].phase \in Timings
  BY <1>6 DEF LevelsCounted
<1>12. \A i \in 1 .. Len(stack') : stack'[i].phase \in Timings => stack'[i].prev >= i - 1
  <2> SUFFICES ASSUME NEW i \in 1 .. Len(stack'), stack'[i].phase \in Timings
               PROVE  stack'[i].prev >= i - 1
    OBVIOUS
  <2>1. i # Len(stack')
    BY <1>6, <1>10
  <2>2. i \in 1 .. Len(stack) - 1 /\ i \in 1 .. Len(stack)
    BY <2>1, <1>3, <1>6
  <2> QED
    BY <2>2, <1>6 DEF LevelsCounted
<1> QED
  BY <1>6, <1>7, <1>9, <1>10, <1>11, <1>12 DEF LevelsCounted

\* What the statements do once they have applied themselves, or failed.
LEMMA StatementApplied ==
    ASSUME LevelsCounted, stack # <<>>, Top.phase \notin Timings, Top.stmt.op # "RAISE",
           \/ Enter(Top, "BEFORE")
           \/ \E found : Enter([Top EXCEPT !.found = found], "BEFORE")
           \/ \E new : Enter([Top EXCEPT !.new = new], "AFTER")
           \/ stack' = Front(stack) /\ UNCHANGED depth
    PROVE  LevelsCounted'
<1>1. PICK S, F : (\A s \in S : IsStatement(s)) /\ stack \in Seq(Frames(S, F))
  BY DEF LevelsCounted, StackTyped
<1>2. Top \in Frames(S, F)
  BY <1>1, Popped DEF Top
<1>3. "BEFORE" \in Timings /\ "AFTER" \in Timings
  BY DEF Timings
<1>4. ASSUME NEW found, Enter([Top EXCEPT !.found = found], "BEFORE") PROVE LevelsCounted'
  <2>1. Enter(TopWith(found, Top.new), "BEFORE")
    BY <1>2, <1>4, TopKept
  <2> QED
    BY <2>1, <1>3, LevelEntered
<1>5. ASSUME NEW new, Enter([Top EXCEPT !.new = new], "AFTER") PROVE LevelsCounted'
  <2>1. Enter(TopWith(Top.found, new), "AFTER")
    BY <1>2, <1>5, TopKept
  <2> QED
    BY <2>1, <1>3, LevelEntered
<1>6. ASSUME stack' = Front(stack) /\ UNCHANGED depth PROVE LevelsCounted'
  <2>1. depth >= Len(stack) - 1 /\ depth \in 0 .. MaxDepth
    BY DEF LevelsCounted
  <2> QED
    BY <2>1, <1>6, FrameLeft
<1>7. ASSUME Enter(Top, "BEFORE") PROVE LevelsCounted'
  <2>1. Enter(TopWith(Top.found, Top.new), "BEFORE")
    BY <1>2, <1>7, TopKept
  <2> QED
    BY <2>1, <1>3, LevelEntered
<1> QED
  BY <1>4, <1>5, <1>6, <1>7

LEMMA LevelsStep == LevelsCounted /\ [Next]_vars => LevelsCounted'
<1> SUFFICES ASSUME LevelsCounted, [Next]_vars PROVE LevelsCounted'
  OBVIOUS
<1>1. ASSUME NEW s \in ClientStmts, Call(s) PROVE LevelsCounted'
  <2>1. stack' = <<Frame(s)>> /\ stack = <<>> /\ depth' = depth
    BY <1>1 DEF Call
  <2>2. Frame(s) \in Frames({s}, {{}, None}) /\ Frame(s).phase = "begin"
    <3>1. <<>> \in Seq(BodyTexts) /\ 0 \in 0 .. MaxDepth
      BY ForeignKeysAssumption
    <3> QED
      BY <3>1 DEF Frame, Frames, Phases
  <2>3. stack' \in Seq(Frames({s}, {{}, None})) /\ Len(stack') = 1 /\ stack'[1] = Frame(s) /\ stack' # <<>>
    BY <2>1, <2>2
  <2>4. StackTyped'
    BY <2>3, Shaped DEF StackTyped
  <2>5. Top'.phase \notin Timings
    BY <2>2, <2>3 DEF Top, Last, Timings
  <2> QED
    BY <2>1, <2>2, <2>3, <2>4, <2>5 DEF LevelsCounted, Timings
<1>2. CASE Raise
  <2>1. stack # <<>> /\ Top.phase = "begin" /\ stack' = Front(stack) /\ depth' = depth
    BY <1>2 DEF Raise, InPhase, Return
  <2>2. depth >= Len(stack) - 1 /\ depth \in 0 .. MaxDepth
    BY <2>1 DEF LevelsCounted, Timings
  <2> QED
    BY <2>1, <2>2, FrameLeft
<1>3. CASE BeginInsert \/ BeginDelete \/ BeginUpdate
  <2>1. /\ stack # <<>> /\ Top.phase \notin Timings /\ Top.stmt.op # "RAISE"
        /\ \/ Enter(Top, "BEFORE") \/ \E found : Enter([Top EXCEPT !.found = found], "BEFORE")
           \/ stack' = Front(stack) /\ UNCHANGED depth
    <3>1. CASE BeginInsert
      BY <3>1 DEF BeginInsert, InPhase, Is, Timings
    <3>2. CASE BeginDelete
      BY <3>2 DEF BeginDelete, InPhase, Is, Timings, Return
    <3>3. CASE BeginUpdate
      BY <3>3 DEF BeginUpdate, InPhase, Is, Timings, Return
    <3> QED
      BY <1>3, <3>1, <3>2, <3>3
  <2> QED
    BY <2>1, StatementApplied
<1>4. CASE RunBody
  BY <1>4, BodyStarted
<1>5. CASE Refused \/ LeaveAfter
  <2>1. stack # <<>> /\ Top.phase \in Timings /\ stack' = Front(stack) /\ depth' = Top.prev
    BY <1>5 DEF Refused, LeaveAfter, InPhase, BodyEnded, Return, Timings
  <2>2. PICK S, F : (\A s \in S : IsStatement(s)) /\ stack \in Seq(Frames(S, F))
    BY DEF LevelsCounted, StackTyped
  <2>3. Top \in Frames(S, F) /\ Len(stack) \in 1 .. Len(stack) /\ Top = stack[Len(stack)]
    BY <2>1, <2>2, Popped DEF Top
  <2>4. depth' \in 0 .. MaxDepth /\ depth' >= Len(stack) - 1
    BY <2>1, <2>3 DEF LevelsCounted, Frames
  <2> QED
    BY <2>1, <2>4, FrameLeft
<1>6. CASE BodyDone \/ UNCHANGED vars
  BY <1>6 DEF BodyDone, vars, LevelsCounted, StackTyped, Top
<1>7. CASE LeaveBefore
  BY <1>7, GuardPassed
<1>8. CASE ApplyInsert \/ ApplyDelete \/ ApplyUpdate
  <2>1. /\ stack # <<>> /\ Top.phase \notin Timings /\ Top.stmt.op # "RAISE"
        /\ \/ \E new : Enter([Top EXCEPT !.new = new], "AFTER")
           \/ stack' = Front(stack) /\ UNCHANGED depth
    <3>1. CASE ApplyInsert
      BY <3>1 DEF ApplyInsert, InPhase, Is, Timings, Applied, Return
    <3>2. CASE ApplyDelete
      BY <3>2 DEF ApplyDelete, InPhase, Is, Timings, Applied, Return
    <3>3. CASE ApplyUpdate
      BY <3>3 DEF ApplyUpdate, InPhase, Is, Timings, Applied, Return
    <3> QED
      BY <1>8, <3>1, <3>2, <3>3
  <2> QED
    BY <2>1, StatementApplied
<1>9. CASE UpdatePanics
  <2>1. stack' = <<>> /\ depth' = depth
    BY <1>9 DEF UpdatePanics
  <2>2. StackTyped'
    <3>1. stack' \in Seq(Frames({}, {}))
      BY <2>1
    <3> QED
      BY <3>1 DEF StackTyped
  <2> QED
    BY <2>1, <2>2 DEF LevelsCounted
<1> QED
  BY <1>1, <1>2, <1>3, <1>4, <1>5, <1>6, <1>7, <1>8, <1>9 DEF Next, Step

(* However triggers call each other, a thread never holds more statements  *)
(* than the limit allows: fire_triggers skips the bodies at MAX_DEPTH, and *)
(* no way out of a statement, a panic included, counts a level too few.    *)
THEOREM NestingBounded == Spec => []StackBounded
<1>1. Init => LevelsCounted
  <2> SUFFICES ASSUME Init PROVE LevelsCounted
    OBVIOUS
  <2>1. stack = <<>> /\ depth = 0 /\ MaxDepth \in Nat
    BY ForeignKeysAssumption DEF Init
  <2>2. stack \in Seq(Frames({}, {}))
    BY <2>1
  <2> QED
    BY <2>1, <2>2 DEF LevelsCounted, StackTyped
<1>2. LevelsCounted => StackBounded
  <2> SUFFICES ASSUME LevelsCounted PROVE Len(stack) <= MaxDepth + 1
    BY DEF StackBounded
  <2>1. PICK S, F : (\A s \in S : IsStatement(s)) /\ stack \in Seq(Frames(S, F))
    BY DEF LevelsCounted, StackTyped
  <2>2. CASE stack = <<>>
    BY <2>2, ForeignKeysAssumption
  <2>3. CASE stack # <<>>
    <3>1. Top \in Frames(S, F) /\ Len(stack) \in 1 .. Len(stack) /\ Top = stack[Len(stack)]
      BY <2>1, <2>3, Popped DEF Top
    <3>2. Top.prev \in 0 .. MaxDepth /\ depth \in 0 .. MaxDepth
      BY <3>1 DEF Frames, LevelsCounted
    <3>3. Top.prev >= Len(stack) - 1 \/ depth >= Len(stack) - 1
      BY <2>3, <3>1 DEF LevelsCounted
    <3> QED
      BY <3>1, <3>2, <3>3, ForeignKeysAssumption
  <2> QED
    BY <2>2, <2>3
<1> QED
  BY <1>1, <1>2, LevelsStep, PTL DEF Spec

-----------------------------------------------------------------------------
(* When the counter is back at zero.  The one way out that does not put it *)
(* back is the panic of an UPDATE whose rows a BEFORE trigger has deleted; *)
(* it is harmless where the counter is zero, outside of every trigger.     *)
Quiet(s) == s.op = "UPDATE" => /\ s.col # "id"
                               /\ Bodies[<<s.table, "BEFORE", "UPDATE">>] = <<>>

\* Trigger bodies update no keys, and no table with a BEFORE UPDATE trigger.
QuietBodies == \A body \in BodyTexts : Quiet(body)

InBody == Len(stack) >= 2

CounterKept ==
    /\ LevelsCounted
    /\ stack = <<>> => depth = 0
    /\ stack # <<>> => IF stack[1].phase \in Timings THEN stack[1].prev = 0 ELSE depth = 0
    /\ \A i \in 2 .. Len(stack) : Quiet(stack[i].stmt)
    /\ \A i \in 2 .. Len(stack) - 1 : stack[i].stmt.op = "UPDATE" => stack[i].phase # "BEFORE"
    /\ InBody /\ Is("UPDATE") =>
         /\ Top.phase = "BEFORE" => Top.todo = <<>>
         /\ Top.phase \in {"BEFORE", "apply"} => Top.found \subseteq DOMAIN rows[Top.stmt.table]

LEMMA TopTyped ==
    ASSUME LevelsCounted, stack # <<>>
    PROVE  /\ Len(stack) \in Nat \ {0} /\ Top = stack[Len(stack)]
           /\ IsStatement(Top.stmt) /\ Top.todo \in Seq(BodyTexts)
           /\ Top = TopWith(Top.found, Top.new)
           /\ \A found : [Top EXCEPT !.found = found] = TopWith(found, Top.new)
           /\ \A new : [Top EXCEPT !.new = new] = TopWith(Top.found, new)
           /\ \A found, new : TopWith(found, new).stmt = Top.stmt
           /\ \A x : [Top EXCEPT !.phase = x].stmt = Top.stmt /\ [Top EXCEPT !.phase = x].found = Top.found
           /\ \A x : [Top EXCEPT !.phase = x].phase = x
           /\ \A x : /\ [Top EXCEPT !.todo = x].stmt = Top.stmt
                     /\ [Top EXCEPT !.todo = x].phase = Top.phase
                     /\ [Top EXCEPT !.todo = x].prev = Top.prev
           /\ \A found, new, timing, prev, todo :
                LET f == [TopWith(found, new) EXCEPT !.phase = timing, !.prev = prev, !.todo = todo]
                IN  /\ f.stmt = Top.stmt /\ f.found = found /\ f.new = new /\ f.phase = timing
                    /\ f.prev = prev /\ f.todo = todo
<1>1. PICK S, F : (\A s \in S : IsStatement(s)) /\ stack \in Seq(Frames(S, F))
  BY DEF LevelsCounted, StackTyped
<1>2. Top \in Frames(S, F) /\ Len(stack) \in Nat \ {0} /\ Top = stack[Len(stack)]
  BY <1>1, Popped DEF Top
<1>3. IsStatement(Top.stmt) /\ Top.todo \in Seq(BodyTexts)
  BY <1>1, <1>2 DEF Frames
<1> HIDE DEF Top
<1>4. /\ DOMAIN Top = {"stmt", "phase", "found", "prev", "todo", "new"}
      /\ Top = [x \in DOMAIN Top |-> Top[x]]
  BY <1>2 DEF Frames
<1>5. /\ Top = TopWith(Top.found, Top.new)
      /\ \A found : [Top EXCEPT !.found = found] = TopWith(found, Top.new)
      /\ \A new : [Top EXCEPT !.new = new] = TopWith(Top.found, new)
      /\ \A found, new : TopWith(found, new).stmt = Top.stmt
  BY <1>2, TopKept
<1>6. \A x : /\ [Top EXCEPT !.phase = x].stmt = Top.stmt /\ [Top EXCEPT !.phase = x].found = Top.found
             /\ [Top EXCEPT !.phase = x].phase = x
  BY <1>4
<1>7. \A x : /\ [Top EXCEPT !.todo = x].stmt = Top.stmt
             /\ [Top EXCEPT !.todo = x].phase = Top.phase
             /\ [Top EXCEPT !.todo = x].prev = Top.prev
  BY <1>4
<1>8. ASSUME NEW found, NEW new, NEW timing, NEW prev, NEW todo
      PROVE  LET f == [TopWith(found, new) EXCEPT !.phase = timing, !.prev = prev, !.todo = todo]
             IN  /\ f.stmt = Top.stmt /\ f.found = found /\ f.new = new /\ f.phase = timing
                 /\ f.prev = prev /\ f.todo = todo
  BY <1>4 DEF TopWith
<1> QED
  BY <1>2, <1>3, <1>5, <1>6, <1>7, <1>8

LEMMA OthersBelow == ASSUME NEW n \in Nat \ {0}
                     PROVE  (n # 1 => 1 \in 1 .. n - 1) /\ (~(n >= 2) => n = 1)
OBVIOUS

\* A frame on top is replaced, whatever by.
LEMMA TopChanged ==
    ASSUME LevelsCounted, stack # <<>>, NEW f, stack' = Front(stack) \o <<f>>
    PROVE  /\ Len(stack') = Len(stack) /\ stack' # <<>> /\ Top' = f /\ stack'[Len(stack)] = f
           /\ \A i \in 1 .. Len(stack) - 1 : stack'[i] = stack[i]
<1>1. PICK S, F : (\A s \in S : IsStatement(s)) /\ stack \in Seq(Frames(S, F))
  BY DEF LevelsCounted, StackTyped
<1> DEFINE X == Frames(S, F) \cup {f}
<1>2. stack \in Seq(X) /\ f \in X
  <2>1. \A e \in Frames(S, F) : e \in X
    OBVIOUS
  <2> HIDE DEF X
  <2>2. stack \in Seq(X)
    BY <1>1, <2>1
  <2> QED
    BY <2>2 DEF X
<1> HIDE DEF X
<1>3. /\ Len(Front(stack) \o <<f>>) = Len(stack) /\ Front(stack) \o <<f>> # <<>>
      /\ Last(Front(stack) \o <<f>>) = f
      /\ (Front(stack) \o <<f>>)[Len(Front(stack) \o <<f>>)] = f
      /\ \A i \in 1 .. Len(stack) - 1 : (Front(stack) \o <<f>>)[i] = stack[i]
  BY <1>2, TopReplaced
<1> QED
  BY <1>3 DEF Top

\* The bottom frame, when another takes its place or other frames come and go.
LEMMA BottomKept ==
    ASSUME CounterKept, stack # <<>>, NEW f, stack' = Front(stack) \o <<f>>,
           Len(stack) = 1 => IF f.phase \in Timings THEN f.prev = 0 ELSE depth' = 0
    PROVE  IF stack'[1].phase \in Timings THEN stack'[1].prev = 0 ELSE depth' = 0
<1>1. /\ Len(stack) \in Nat \ {0} /\ stack'[Len(stack)] = f
      /\ \A i \in 1 .. Len(stack) - 1 : stack'[i] = stack[i]
  BY TopTyped, TopChanged DEF CounterKept
<1>2. CASE Len(stack) = 1
  BY <1>1, <1>2
<1>3. CASE Len(stack) # 1
  <2>1. 1 \in 1 .. Len(stack) - 1
    BY <1>1, <1>3, OthersBelow
  <2>2. stack'[1] = stack[1] /\ stack[1].phase \in Timings
    BY <1>1, <2>1 DEF CounterKept, LevelsCounted
  <2> QED
    BY <2>2 DEF CounterKept
<1> QED
  BY <1>2, <1>3

LEMMA CounterEntered ==
    ASSUME CounterKept, stack # <<>>, Top.phase \notin Timings, Top.stmt.op # "RAISE",
           NEW timing \in Timings, NEW found, NEW new,
           InBody /\ Is("UPDATE") /\ timing = "BEFORE" => found \subseteq DOMAIN rows'[Top.stmt.table],
           Enter(TopWith(found, new), timing)
    PROVE  CounterKept'
<1>1. LevelsCounted /\ LevelsCounted'
  BY LevelEntered DEF CounterKept
<1> DEFINE bodies == Bodies[<<Top.stmt.table, timing, Top.stmt.op>>]
           todo == IF depth < MaxDepth THEN bodies ELSE <<>>
           f == [TopWith(found, new) EXCEPT !.phase = timing, !.prev = depth, !.todo = todo]
<1>2. f.stmt = Top.stmt /\ f.found = found /\ f.phase = timing /\ f.prev = depth /\ f.todo = todo
  BY <1>1, TopTyped
<1>3. stack' = Front(stack) \o <<f>>
  <2>1. TopWith(found, new).stmt = Top.stmt
    BY <1>1, TopTyped
  <2> QED
    BY <2>1 DEF Enter, SetTop
<1> HIDE DEF f
<1>4. /\ Len(stack') = Len(stack) /\ stack' # <<>> /\ Top' = f /\ stack'[Len(stack)] = f
      /\ \A i \in 1 .. Len(stack) - 1 : stack'[i] = stack[i]
      /\ Len(stack) \in Nat \ {0} /\ Top = stack[Len(stack)]
  BY <1>1, <1>3, TopChanged, TopTyped
<1>5. IF stack'[1].phase \in Timings THEN stack'[1].prev = 0 ELSE depth' = 0
  <2>1. Len(stack) = 1 => depth = 0
    BY <1>4 DEF CounterKept
  <2> QED
    BY <2>1, <1>2, <1>3, BottomKept
<1>6. \A i \in 2 .. Len(stack') : Quiet(stack'[i].stmt)
  <2> SUFFICES ASSUME NEW i \in 2 .. Len(stack') PROVE Quiet(stack'[i].stmt)
    OBVIOUS
  <2>1. Quiet(stack[i].stmt)
    BY <1>4 DEF CounterKept
  <2>2. stack'[i].stmt = stack[i].stmt
    <3>1. CASE i = Len(stack)
      BY <3>1, <1>2, <1>4
    <3>2. CASE i # Len(stack)
      <4>1. i \in 1 .. Len(stack) - 1
        BY <3>2, <1>4
      <4> QED
        BY <4>1, <1>4
    <3> QED
      BY <3>1, <3>2
  <2> QED
    BY <2>1, <2>2
<1>7. \A i \in 2 .. Len(stack') - 1 : stack'[i].stmt.op = "UPDATE" => stack'[i].phase # "BEFORE"
  BY <1>4 DEF CounterKept
<1>8. InBody /\ Is("UPDATE") /\ timing = "BEFORE" => todo = <<>>
  <2> SUFFICES ASSUME InBody, Is("UPDATE"), timing = "BEFORE" PROVE bodies = <<>>
    OBVIOUS
  <2>1. Len(stack) \in 2 .. Len(stack)
    BY <1>4 DEF InBody
  <2>2. Quiet(Top.stmt)
    BY <2>1, <1>4 DEF CounterKept
  <2> QED
    BY <2>2 DEF Quiet, Is
<1>9. (InBody /\ Is("UPDATE"))' => InBody /\ Is("UPDATE")
  BY <1>2, <1>4 DEF InBody, Is
<1> HIDE DEF todo
<1>10. Top'.phase = timing /\ Top'.todo = todo /\ Top'.found = found /\ Top'.stmt = Top.stmt
  BY <1>2, <1>4
<1>11. timing \notin {"BEFORE"} => timing \notin {"BEFORE", "apply"}
  BY DEF Timings
<1> QED
  BY <1>1, <1>4, <1>5, <1>6, <1>7, <1>8, <1>9, <1>10, <1>11 DEF CounterKept

LEMMA CounterLeft ==
    ASSUME CounterKept, stack # <<>>, stack' = Front(stack), LevelsCounted',
           depth' = IF Top.phase \in Timings THEN Top.prev ELSE depth
    PROVE  CounterKept'
<1>1. LevelsCounted /\ Len(stack) \in Nat \ {0} /\ Top = stack[Len(stack)]
  BY TopTyped DEF CounterKept
<1>2. PICK S, F : (\A s \in S : IsStatement(s)) /\ stack \in Seq(Frames(S, F))
  BY <1>1 DEF LevelsCounted, StackTyped
<1>3. /\ Len(stack') = Len(stack) - 1 /\ stack' \in Seq(Frames(S, F))
      /\ \A i \in 1 .. Len(stack) - 1 : stack'[i] = stack[i]
      /\ Len(stack) = 1 <=> stack' = <<>>
  BY <1>2, Popped
<1>4. stack' = <<>> => depth' = 0
  BY <1>1, <1>3 DEF CounterKept
<1>5. stack' # <<>> => IF stack'[1].phase \in Timings THEN stack'[1].prev = 0 ELSE depth' = 0
  <2> SUFFICES ASSUME stack' # <<>>
               PROVE  IF stack'[1].phase \in Timings THEN stack'[1].prev = 0 ELSE depth' = 0
    OBVIOUS
  <2>1. 1 \in 1 .. Len(stack) - 1
    <3>1. Len(stack) # 1
      BY <1>3
    <3> QED
      BY <1>1, <3>1, OthersBelow
  <2>2. stack'[1] = stack[1] /\ stack[1].phase \in Timings
    BY <1>1, <1>3, <2>1 DEF LevelsCounted
  <2> QED
    BY <2>2 DEF CounterKept
<1>6. \A i \in 2 .. Len(stack') : Quiet(stack'[i].stmt)
  BY <1>1, <1>3 DEF CounterKept
<1>7. \A i \in 2 .. Len(stack') : stack'[i].stmt.op = "UPDATE" => stack'[i].phase \notin {"BEFORE", "apply"}
  <2> SUFFICES ASSUME NEW i \in 2 .. Len(stack'), stack'[i].stmt.op = "UPDATE"
               PROVE  stack'[i].phase \notin {"BEFORE", "apply"}
    OBVIOUS
  <2>1. i \in 2 .. Len(stack) - 1 /\ i \in 1 .. Len(stack) - 1
    BY <1>1, <1>3
  <2>2. stack'[i] = stack[i] /\ stack[i].phase \in Timings /\ stack[i].phase # "BEFORE"
    BY <1>1, <1>3, <2>1 DEF CounterKept, LevelsCounted
  <2> QED
    BY <2>2 DEF Timings
<1>8. (InBody /\ Is("UPDATE"))' => Top'.phase \notin {"BEFORE", "apply"}
  <2> SUFFICES ASSUME InBody', Is("UPDATE")' PROVE Top'.phase \notin {"BEFORE", "apply"}
    OBVIOUS
  <2>1. Top' = stack'[Len(stack')] /\ Len(stack') \in 2 .. Len(stack')
    BY <1>1, <1>3 DEF InBody, Top, Last
  <2> QED
    BY <2>1, <1>7 DEF Is
<1>9. \A i \in 2 .. Len(stack') - 1 : stack'[i].stmt.op = "UPDATE" => stack'[i].phase # "BEFORE"
  BY <1>1, <1>3, <1>7
<1> QED
  BY <1>4, <1>5, <1>6, <1>8, <1>9 DEF CounterKept

LEMMA CounterBodyStarted ==
    ASSUME QuietBodies, CounterKept, RunBody, UNCHANGED rows
    PROVE  CounterKept'
<1>1. LevelsCounted /\ LevelsCounted' /\ stack # <<>>
  BY BodyStarted DEF CounterKept, RunBody, InTrigger, InPhase
<1>2. Top.todo # <<>> /\ depth' = depth /\ Top.phase \in Timings
  BY DEF RunBody, InTrigger, InPhase, Timings
<1> DEFINE body == Head(Top.todo)
           sub == Substituted(body, Top.new)
           f == [Top EXCEPT !.todo = Tail(@)]
           g == Frame(sub)
<1>3. body \in BodyTexts
  BY <1>1, <1>2, TopTyped
<1>4. IsStatement(body) /\ Quiet(body)
  BY <1>3, Shaped DEF QuietBodies
<1>5. Quiet(sub)
  BY <1>4 DEF Substituted, IsStatement, Quiet
<1>6. /\ Len(stack) \in Nat \ {0} /\ Top = stack[Len(stack)]
      /\ f.stmt = Top.stmt /\ f.phase = Top.phase /\ f.prev = Top.prev
      /\ g.stmt = sub /\ g.phase = "begin"
  BY <1>1, TopTyped DEF Frame
<1>7. stack' = Front(stack) \o <<f, g>>
  BY DEF RunBody
<1> HIDE DEF f, g, sub
<1>8. /\ Len(stack') = Len(stack) + 1 /\ stack' # <<>> /\ Top' = g
      /\ stack'[Len(stack')] = g /\ stack'[Len(stack)] = f
      /\ \A i \in 1 .. Len(stack) - 1 : stack'[i] = stack[i]
  <2>1. PICK S, F : (\A s \in S : IsStatement(s)) /\ stack \in Seq(Frames(S, F))
    BY <1>1 DEF LevelsCounted, StackTyped
  <2> DEFINE X == Frames(S, F) \cup {f, g}
  <2>2. stack \in Seq(X) /\ f \in X /\ g \in X
    <3>1. \A e \in Frames(S, F) : e \in X
      OBVIOUS
    <3> HIDE DEF X
    <3>2. stack \in Seq(X)
      BY <2>1, <3>1
    <3> QED
      BY <3>2 DEF X
  <2> HIDE DEF X
  <2> QED
    BY <1>1, <1>7, <2>2, Pushed DEF Top
<1>9. \A i \in 1 .. Len(stack) : /\ stack'[i].phase = stack[i].phase /\ stack'[i].prev = stack[i].prev
                                 /\ stack'[i].stmt = stack[i].stmt
  <2> SUFFICES ASSUME NEW i \in 1 .. Len(stack)
               PROVE  /\ stack'[i].phase = stack[i].phase /\ stack'[i].prev = stack[i].prev
                      /\ stack'[i].stmt = stack[i].stmt
    OBVIOUS
  <2>1. CASE i = Len(stack)
    BY <2>1, <1>6, <1>8
  <2>2. CASE i # Len(stack)
    <3>1. i \in 1 .. Len(stack) - 1
      BY <2>2, <1>6
    <3> QED
      BY <3>1, <1>8
  <2> QED
    BY <2>1, <2>2
<1>10. \A i \in 1 .. Len(stack) : stack[i].phase \in Timings
  BY <1>2, <1>6, <1>1 DEF LevelsCounted
<1>11. IF stack'[1].phase \in Timings THEN stack'[1].prev = 0 ELSE depth' = 0
  <2>1. 1 \in 1 .. Len(stack)
    BY <1>6
  <2> QED
    BY <2>1, <1>1, <1>9, <1>10 DEF CounterKept
<1>12. \A i \in 2 .. Len(stack') : Quiet(stack'[i].stmt)
  <2> SUFFICES ASSUME NEW i \in 2 .. Len(stack') PROVE Quiet(stack'[i].stmt)
    OBVIOUS
  <2>1. CASE i = Len(stack')
    BY <2>1, <1>5, <1>6, <1>8
  <2>2. CASE i # Len(stack')
    <3>1. i \in 2 .. Len(stack) /\ i \in 1 .. Len(stack)
      BY <2>2, <1>6, <1>8
    <3>2. Quiet(stack[i].stmt) /\ stack'[i].stmt = stack[i].stmt
      BY <3>1, <1>9 DEF CounterKept
    <3> QED
      BY <3>2
  <2> QED
    BY <2>1, <2>2
<1>13. \A i \in 2 .. Len(stack') - 1 : stack'[i].stmt.op = "UPDATE" => stack'[i].phase # "BEFORE"
  <2> SUFFICES ASSUME NEW i \in 2 .. Len(stack') - 1, stack'[i].stmt.op = "UPDATE"
               PROVE  stack'[i].phase # "BEFORE"
    OBVIOUS
  <2>1. i \in 1 .. Len(stack) /\ stack'[i].phase = stack[i].phase /\ stack'[i].stmt = stack[i].stmt
    BY <1>6, <1>8, <1>9
  <2>2. CASE i = Len(stack)
    <3>1. InBody /\ Is("UPDATE")
      BY <2>1, <2>2, <1>6 DEF InBody, Is
    <3>2. Top.phase # "BEFORE"
      BY <3>1, <1>2 DEF CounterKept
    <3> QED
      BY <3>2, <2>1, <2>2, <1>6
  <2>3. CASE i # Len(stack)
    <3>1. i \in 2 .. Len(stack) - 1
      BY <2>1, <2>3, <1>6
    <3> QED
      BY <3>1, <2>1 DEF CounterKept
  <2> QED
    BY <2>2, <2>3
<1>14. Top'.phase \notin {"BEFORE", "apply"}
  BY <1>6, <1>8
<1> QED
  BY <1>1, <1>8, <1>11, <1>12, <1>13, <1>14 DEF CounterKept

LEMMA CounterGuardPassed ==
    ASSUME CounterKept, LeaveBefore
    PROVE  CounterKept'
<1>1. /\ LevelsCounted /\ LevelsCounted' /\ stack # <<>>
      /\ Top.phase = "BEFORE" /\ depth' = Top.prev /\ rows' = rows
  BY GuardPassed DEF CounterKept, LeaveBefore, InPhase
<1> DEFINE f == [Top EXCEPT !.phase = "apply"]
<1>2. /\ Len(stack) \in Nat \ {0} /\ Top = stack[Len(stack)]
      /\ f.stmt = Top.stmt /\ f.found = Top.found /\ f.phase = "apply"
  BY <1>1, TopTyped
<1>3. stack' = Front(stack) \o <<f>>
  BY DEF LeaveBefore, SetTop
<1> HIDE DEF f
<1>4. /\ Len(stack') = Len(stack) /\ stack' # <<>> /\ Top' = f /\ stack'[Len(stack)] = f
      /\ \A i \in 1 .. Len(stack) - 1 : stack'[i] = stack[i]
  BY <1>1, <1>3, TopChanged
<1>5. IF stack'[1].phase \in Timings THEN stack'[1].prev = 0 ELSE depth' = 0
  <2>1. Len(stack) = 1 => Top.prev = 0
    BY <1>1, <1>2 DEF CounterKept, Timings
  <2> QED
    BY <2>1, <1>1, <1>2, <1>3, BottomKept DEF Timings
<1>6. \A i \in 2 .. Len(stack') : Quiet(stack'[i].stmt)
  <2> SUFFICES ASSUME NEW i \in 2 .. Len(stack') PROVE Quiet(stack'[i].stmt)
    OBVIOUS
  <2>1. Quiet(stack[i].stmt)
    BY <1>4 DEF CounterKept
  <2>2. CASE i = Len(stack)
    BY <2>1, <2>2, <1>2, <1>4
  <2>3. CASE i # Len(stack)
    <3>1. i \in 1 .. Len(stack) - 1
      BY <2>3, <1>2, <1>4
    <3> QED
      BY <3>1, <2>1, <1>4
  <2> QED
    BY <2>2, <2>3
<1>7. \A i \in 2 .. Len(stack') - 1 : stack'[i].stmt.op = "UPDATE" => stack'[i].phase # "BEFORE"
  BY <1>2, <1>4 DEF CounterKept
<1>8. (InBody /\ Is("UPDATE"))' => InBody /\ Is("UPDATE")
  BY <1>2, <1>4 DEF InBody, Is
<1>9. Top'.phase = "apply" /\ Top'.found = Top.found /\ Top'.stmt = Top.stmt
  BY <1>2, <1>4
<1>10. (InBody /\ Is("UPDATE"))' => Top'.found \subseteq DOMAIN rows'[Top'.stmt.table]
  BY <1>1, <1>8, <1>9 DEF CounterKept
<1> QED
  BY <1>1, <1>4, <1>5, <1>6, <1>7, <1>9, <1>10 DEF CounterKept

\* An UPDATE in a trigger's body has found its rows, and nothing comes
\* between that and its own change.
LEMMA CounterBegun ==
    ASSUME CounterKept, BeginInsert \/ BeginDelete \/ BeginUpdate
    PROVE  CounterKept'
<1>1. stack # <<>> /\ Top.phase = "begin" /\ Top.phase \notin Timings /\ Top.stmt.op # "RAISE"
  BY DEF BeginInsert, BeginDelete, BeginUpdate, InPhase, Is, Timings
<1>2. /\ LevelsCounted /\ Top = TopWith(Top.found, Top.new) /\ "BEFORE" \in Timings
      /\ \A found : [Top EXCEPT !.found = found] = TopWith(found, Top.new)
  BY <1>1, TopTyped DEF CounterKept, Timings
<1>3. ASSUME stack' = Front(stack), depth' = depth PROVE CounterKept'
  <2>1. LevelsCounted'
    BY <1>1, <1>2, <1>3, StatementApplied
  <2> QED
    BY <1>1, <1>3, <2>1, CounterLeft
<1>4. CASE BeginInsert
  <2>1. PICK found : Top.stmt.op # "UPDATE" /\ Enter([Top EXCEPT !.found = found], "BEFORE")
    BY <1>4 DEF BeginInsert, Is
  <2>2. Enter(TopWith(found, Top.new), "BEFORE")
    BY <1>2, <2>1
  <2> QED
    BY <2>1, <2>2, <1>1, <1>2, CounterEntered DEF Is
<1>5. CASE BeginDelete
  <2>1. /\ Top.stmt.op # "UPDATE"
        /\ \/ Enter(Top, "BEFORE")
           \/ stack' = Front(stack) /\ depth' = depth
    BY <1>5 DEF BeginDelete, Is, Return
  <2>2. CASE Enter(Top, "BEFORE")
    <3>1. Enter(TopWith(Top.found, Top.new), "BEFORE")
      BY <1>2, <2>2
    <3> QED
      BY <2>1, <3>1, <1>1, <1>2, CounterEntered DEF Is
  <2> QED
    BY <2>1, <2>2, <1>3
<1>6. CASE BeginUpdate
  <2> DEFINE t == Top.stmt.table
             hits == Hits(Top.stmt)
  <2>1. \/ stack' = Front(stack) /\ depth' = depth
        \/ /\ Enter([Top EXCEPT !.found = hits], "BEFORE")
           /\ Top.stmt.col # "id" => rows' = rows
    BY <1>6 DEF BeginUpdate, Return
  <2>2. InBody => Top.stmt.col # "id"
    <3> SUFFICES ASSUME InBody PROVE Top.stmt.col # "id"
      OBVIOUS
    <3>1. Len(stack) \in 2 .. Len(stack) /\ Top = stack[Len(stack)]
      BY <1>1, <1>2, TopTyped DEF InBody
    <3>2. Quiet(Top.stmt)
      BY <3>1 DEF CounterKept
    <3> QED
      BY <3>2, <1>6 DEF Quiet, BeginUpdate, Is
  <2>3. hits \subseteq DOMAIN rows[t]
    BY DEF Hits, Positions
  <2>4. CASE Enter([Top EXCEPT !.found = hits], "BEFORE") /\ (Top.stmt.col # "id" => rows' = rows)
    <3>1. Enter(TopWith(hits, Top.new), "BEFORE")
      BY <1>2, <2>4
    <3> QED
      BY <2>2, <2>3, <2>4, <3>1, <1>1, <1>2, CounterEntered
  <2> QED
    BY <2>1, <2>4, <1>3
<1> QED
  BY <1>4, <1>5, <1>6

LEMMA CounterApplied ==
    ASSUME CounterKept, ApplyInsert \/ ApplyDelete \/ ApplyUpdate
    PROVE  CounterKept'
<1>1. /\ stack # <<>> /\ Top.phase \notin Timings /\ Top.stmt.op # "RAISE"
      /\ \/ \E new : Enter([Top EXCEPT !.new = new], "AFTER")
         \/ stack' = Front(stack) /\ UNCHANGED depth
  <2>1. CASE ApplyInsert
    BY <2>1 DEF ApplyInsert, InPhase, Is, Timings, Applied, Return
  <2>2. CASE ApplyDelete
    BY <2>2 DEF ApplyDelete, InPhase, Is, Timings, Applied, Return
  <2>3. CASE ApplyUpdate
    BY <2>3 DEF ApplyUpdate, InPhase, Is, Timings, Applied, Return
  <2> QED
    BY <2>1, <2>2, <2>3
<1>2. /\ LevelsCounted /\ "AFTER" \in Timings
      /\ \A new : [Top EXCEPT !.new = new] = TopWith(Top.found, new)
  BY <1>1, TopTyped DEF CounterKept, Timings
<1>3. ASSUME NEW new, Enter([Top EXCEPT !.new = new], "AFTER") PROVE CounterKept'
  <2>1. Enter(TopWith(Top.found, new), "AFTER")
    BY <1>2, <1>3
  <2> QED
    BY <2>1, <1>1, <1>2, CounterEntered
<1>4. CASE stack' = Front(stack) /\ UNCHANGED depth
  <2>1. LevelsCounted'
    BY <1>1, <1>2, <1>4, StatementApplied
  <2> QED
    BY <1>1, <1>4, <2>1, CounterLeft
<1> QED
  BY <1>1, <1>3, <1>4

LEMMA CounterStep == QuietBodies /\ CounterKept /\ [Next]_vars => CounterKept'
<1> SUFFICES ASSUME QuietBodies, CounterKept, [Next]_vars PROVE CounterKept'
  OBVIOUS
<1>0. LevelsCounted /\ LevelsCounted'
  BY LevelsStep DEF CounterKept
<1>1. ASSUME NEW s \in ClientStmts, Call(s) PROVE CounterKept'
  <2>1. stack' = <<Frame(s)>> /\ stack = <<>> /\ depth' = depth /\ depth = 0
    BY <1>1 DEF Call, CounterKept
  <2>2. Len(stack') = 1 /\ stack'[1].phase = "begin"
    BY <2>1 DEF Frame
  <2> QED
    BY <1>0, <2>1, <2>2 DEF CounterKept, InBody, Timings
<1>2. CASE Raise \/ Refused \/ LeaveAfter
  <2>1. /\ stack # <<>> /\ stack' = Front(stack)
        /\ depth' = IF Top.phase \in Timings THEN Top.prev ELSE depth
    BY <1>2 DEF Raise, Refused, LeaveAfter, InPhase, BodyEnded, Return, Timings
  <2> QED
    BY <1>0, <2>1, CounterLeft
<1>3. CASE BeginInsert \/ BeginDelete \/ BeginUpdate
  BY <1>3, CounterBegun
<1>4. CASE RunBody
  BY <1>4, CounterBodyStarted DEF RunBody
<1>5. CASE BodyDone \/ UNCHANGED vars
  <2>1. UNCHANGED <<rows, stack, depth>>
    BY <1>5 DEF BodyDone, vars
  <2> QED
    BY <1>0, <2>1 DEF CounterKept, InBody, Is, Top
<1>6. CASE LeaveBefore
  BY <1>6, CounterGuardPassed
<1>7. CASE ApplyInsert \/ ApplyDelete \/ ApplyUpdate
  BY <1>7, CounterApplied
<1>8. CASE UpdatePanics
  <2>1. /\ stack' = <<>> /\ depth' = depth /\ stack # <<>> /\ Top.phase = "apply" /\ Is("UPDATE")
        /\ ~(Top.found \subseteq DOMAIN rows[Top.stmt.table])
    BY <1>8 DEF UpdatePanics, InPhase
  <2>2. ~InBody
    BY <2>1 DEF CounterKept
  <2>3. Len(stack) = 1 /\ Top = stack[1]
    <3>1. Len(stack) \in Nat \ {0} /\ Top = stack[Len(stack)]
      BY <1>0, <2>1, TopTyped
    <3>2. Len(stack) = 1
      BY <2>2, <3>1, OthersBelow DEF InBody
    <3> QED
      BY <3>1, <3>2
  <2>4. depth = 0
    BY <2>1, <2>3 DEF CounterKept, Timings
  <2>5. Len(stack') = 0
    BY <2>1
  <2> QED
    BY <1>0, <2>1, <2>4, <2>5 DEF CounterKept, InBody
<1> QED
  BY <1>1, <1>2, <1>3, <1>4, <1>5, <1>6, <1>7, <1>8 DEF Next, Step

(* Between statements the thread's depth counter is back at zero, whatever *)
(* errors, refusals and limits there were on the way, as long as trigger   *)
(* bodies update no keys and no table with a BEFORE UPDATE trigger: else   *)
(* an UPDATE may panic inside of a trigger, and the counter stays up.      *)
THEOREM CounterReturns ==
    ASSUME QuietBodies
    PROVE  Spec => []DepthReturns
<1>1. Init => CounterKept
  <2> SUFFICES ASSUME Init PROVE CounterKept
    OBVIOUS
  <2>1. stack = <<>> /\ depth = 0 /\ MaxDepth \in Nat
    BY ForeignKeysAssumption DEF Init
  <2>2. stack \in Seq(Frames({}, {})) /\ Len(stack) = 0
    BY <2>1
  <2>3. StackTyped
    BY <2>2 DEF StackTyped
  <2>4. LevelsCounted
    BY <2>1, <2>2, <2>3 DEF LevelsCounted
  <2> QED
    BY <2>1, <2>2, <2>4 DEF CounterKept, InBody
<1>2. CounterKept /\ [Next]_vars => CounterKept'
  BY CounterStep
<1>3. CounterKept => DepthReturns
  BY DEF CounterKept, DepthReturns, AtRest
<1> QED
  BY <1>1, <1>2, <1>3, PTL DEF Spec

-----------------------------------------------------------------------------
(* The rows.                                                               *)

(* The k-th of the positions that are kept.                                *)
LEMMA Ranked ==
    ASSUME NEW n \in Nat, NEW P \in SUBSET (1 .. n)
    PROVE  /\ Cardinality(P) \in Nat /\ Cardinality(P) <= n
           /\ \A k \in 1 .. Cardinality(P) : Nth(P, k) \in P
           /\ \A i \in P : \E k \in 1 .. Cardinality(P) : Nth(P, k) = i
           /\ \A k, l \in 1 .. Cardinality(P) : Nth(P, k) = Nth(P, l) => k = l
           /\ P # {} => \E m \in P : \A j \in P : j <= m
<1> DEFINE Upto(i) == {j \in P : j <= i}
           rank == [i \in P |-> Cardinality(Upto(i))]
           N == Cardinality(P)
<1>1. IsFiniteSet(1 .. n) /\ Cardinality(1 .. n) = n
  BY FS_Interval
<1>2. IsFiniteSet(P) /\ N \in Nat /\ N <= n
  BY <1>1, FS_Subset, FS_CardinalityType
<1>3. ASSUME NEW i \in P PROVE IsFiniteSet(Upto(i)) /\ rank[i] \in 1 .. N
  <2>1. IsFiniteSet(Upto(i)) /\ Cardinality(Upto(i)) \in Nat /\ Cardinality(Upto(i)) <= N
    BY <1>2, FS_Subset, FS_CardinalityType
  <2>2. i \in Upto(i)
    OBVIOUS
  <2>3. Cardinality(Upto(i)) # 0
    BY <2>1, <2>2, FS_EmptySet
  <2> QED
    BY <2>1, <2>3, <1>2
<1>4. ASSUME NEW i \in P, NEW j \in P, i < j PROVE rank[i] # rank[j]
  <2>0. \A k \in P : k \in Int
    OBVIOUS
  <2>1. ASSUME NEW k \in Upto(i) PROVE k \in Upto(j)
    <3>1. k \in Int /\ i \in Int /\ j \in Int /\ k <= i
      BY <2>0
    <3> QED
      BY <3>1, <1>4
  <2>2. i \in Int /\ j \in Int
    BY <2>0
  <2>3. j \in Upto(j) /\ j \notin Upto(i)
    BY <1>4, <2>2
  <2> QED
    BY <1>3, <2>1, <2>3, FS_Subset
<1>5. \A i, j \in P : rank[i] = rank[j] => i = j
  BY <1>4
<1> HIDE DEF rank, N
<1>6. rank \in [P -> 1 .. N]
  BY <1>3 DEF rank
<1>7. rank \in Injection(P, 1 .. N)
  BY <1>5, <1>6, Fun_IsInj
<1>8. IsFiniteSet(1 .. N) /\ Cardinality(1 .. N) = N
  BY <1>2, FS_Interval
<1>9. rank \in Surjection(P, 1 .. N)
  BY <1>2, <1>7, <1>8, FS_Injection DEF N
<1>10. \A k \in 1 .. N : \E i \in P : rank[i] = k
  BY <1>9, Fun_SurjectionProperties
<1>11. ASSUME NEW k \in 1 .. N PROVE Nth(P, k) \in P /\ rank[Nth(P, k)] = k
  <2>1. \E i \in P : Cardinality({j \in P : j <= i}) = k
    BY <1>10 DEF rank
  <2>2. Nth(P, k) \in P /\ Cardinality({j \in P : j <= Nth(P, k)}) = k
    BY <2>1 DEF Nth
  <2> QED
    BY <2>2 DEF rank
<1>12. \A i \in P : Nth(P, rank[i]) = i /\ rank[i] \in 1 .. N
  BY <1>5, <1>6, <1>11
<1>13. ASSUME P # {} PROVE \E m \in P : \A j \in P : j <= m
  <2>1. N # 0
    BY <1>2, <1>13, FS_EmptySet DEF N
  <2>2. N \in 1 .. N
    BY <1>2, <2>1
  <2>3. PICK m \in P : rank[m] = N
    BY <1>10, <2>2
  <2>4. Cardinality(Upto(m)) = Cardinality(P) /\ Upto(m) \in SUBSET P
    BY <2>3 DEF rank, N
  <2>5. Upto(m) = P
    BY <1>2, <2>4, FS_Subset
  <2> QED
    BY <2>5
<1> QED
  BY <1>2, <1>11, <1>12, <1>13 DEF N

LEMMA MaxAmong ==
    ASSUME NEW n \in Nat, NEW P \in SUBSET (1 .. n), P # {}
    PROVE  Max(P) \in P
<1>1. \E m \in P : \A j \in P : j <= m
  BY Ranked
<1>2. \A j, m \in P : j <= m => m >= j
  OBVIOUS
<1>3. \E m \in P : \A j \in P : m >= j
  BY <1>1, <1>2
<1> QED
  BY <1>3 DEF Max

(* The rows that stay are rows that were there, each at most once.         *)
LEMMA Stayed ==
    ASSUME NEW rs \in Seq(Row), NEW ids
    PROVE  LET kept == Without(rs, ids)
           IN  /\ kept \in Seq(Row) /\ Len(kept) <= Len(rs)
               /\ DOMAIN kept = 1 .. Len(kept)
               /\ \A k \in DOMAIN kept : \E i \in DOMAIN rs : rs[i] = kept[k] /\ rs[i].id \notin ids
               /\ \A i \in DOMAIN rs : rs[i].id \notin ids => \E k \in DOMAIN kept : kept[k] = rs[i]
               /\ (\A i, j \in DOMAIN rs : rs[i].id = rs[j].id => i = j)
                    => \A k, l \in DOMAIN kept : kept[k].id = kept[l].id => k = l
<1> DEFINE P == {i \in DOMAIN rs : rs[i].id \notin ids}
           N == Cardinality(P)
           kept == [k \in 1 .. N |-> rs[Nth(P, k)]]
<1>1. Len(rs) \in Nat /\ DOMAIN rs = 1 .. Len(rs) /\ P \in SUBSET (1 .. Len(rs))
  OBVIOUS
<1>2. /\ N \in Nat /\ N <= Len(rs)
      /\ \A k \in 1 .. N : Nth(P, k) \in P
      /\ \A i \in P : \E k \in 1 .. N : Nth(P, k) = i
      /\ \A k, l \in 1 .. N : Nth(P, k) = Nth(P, l) => k = l
  BY <1>1, Ranked
<1>3. \A i \in P : i \in DOMAIN rs /\ rs[i] \in Row /\ rs[i].id \notin ids
  BY <1>1
<1>4. \A i \in DOMAIN rs : rs[i].id \notin ids => i \in P
  OBVIOUS
<1>5. Without(rs, ids) = kept
  BY DEF Without
<1> HIDE DEF P, N
<1>6. kept \in [1 .. N -> Row]
  BY <1>2, <1>3
<1>7. kept \in Seq(Row) /\ Len(kept) = N /\ DOMAIN kept = 1 .. N
  BY <1>2, <1>6
<1>8. \A k \in 1 .. N : kept[k] = rs[Nth(P, k)]
  OBVIOUS
<1> HIDE DEF kept
<1> QED
  BY <1>2, <1>3, <1>4, <1>5, <1>7, <1>8

-----------------------------------------------------------------------------
(* The stack after a step, frame by frame.                                 *)

LEMMA LastOrBefore ==
    ASSUME NEW n \in Nat \ {0}
    PROVE  /\ \A i \in 1 .. n : i = n \/ i \in 1 .. n - 1
           /\ \A i \in 1 .. n + 1 : i = n + 1 \/ i = n \/ i \in 1 .. n - 1
           /\ n + 1 # n /\ n \notin 1 .. n - 1 /\ n + 1 \notin 1 .. n - 1 /\ n \in 1 .. n
OBVIOUS

LEMMA TopPopped ==
    ASSUME LevelsCounted, stack # <<>>, stack' = Front(stack)
    PROVE  /\ Len(stack) \in Nat \ {0} /\ Len(stack') = Len(stack) - 1 /\ DOMAIN stack' = 1 .. Len(stack')
           /\ DOMAIN stack = 1 .. Len(stack) /\ Len(stack) \in DOMAIN stack
           /\ \A i \in DOMAIN stack' : i \in DOMAIN stack /\ i # Len(stack) /\ stack'[i] = stack[i]
<1>1. PICK S, F : (\A s \in S : IsStatement(s)) /\ stack \in Seq(Frames(S, F))
  BY DEF LevelsCounted, StackTyped
<1>2. /\ stack' \in Seq(Frames(S, F)) /\ Len(stack') = Len(stack) - 1 /\ Len(stack) \in Nat \ {0}
      /\ \A i \in 1 .. Len(stack) - 1 : stack'[i] = stack[i]
  BY <1>1, Popped
<1>3. DOMAIN stack' = 1 .. Len(stack') /\ DOMAIN stack = 1 .. Len(stack)
  BY <1>1, <1>2
<1> QED
  BY <1>2, <1>3

LEMMA TopSet ==
    ASSUME LevelsCounted, stack # <<>>, NEW f, stack' = Front(stack) \o <<f>>
    PROVE  /\ Len(stack) \in Nat \ {0} /\ Len(stack') = Len(stack) /\ stack' # <<>> /\ Top' = f
           /\ DOMAIN stack = 1 .. Len(stack) /\ DOMAIN stack' = DOMAIN stack /\ Len(stack) \in DOMAIN stack
           /\ Top = stack[Len(stack)]
           /\ \A i \in DOMAIN stack : stack'[i] = IF i = Len(stack) THEN f ELSE stack[i]
<1>1. PICK S, F : (\A s \in S : IsStatement(s)) /\ stack \in Seq(Frames(S, F))
  BY DEF LevelsCounted, StackTyped
<1>2. /\ Len(stack') = Len(stack) /\ stack' # <<>> /\ Top' = f /\ stack'[Len(stack)] = f
      /\ \A i \in 1 .. Len(stack) - 1 : stack'[i] = stack[i]
  BY TopChanged
<1>3. Len(stack) \in Nat \ {0} /\ DOMAIN stack = 1 .. Len(stack) /\ Top = stack[Len(stack)]
  BY <1>1, TopTyped
<1>4. DOMAIN stack' = 1 .. Len(stack')
  <2>1. Front(stack) \in Seq(Frames(S, F)) /\ <<f>> \in Seq({f})
    BY <1>1, Popped
  <2> QED
    BY <2>1
<1>5. \A i \in 1 .. Len(stack) : i = Len(stack) \/ i \in 1 .. Len(stack) - 1
  BY <1>3, LastOrBefore
<1> QED
  BY <1>2, <1>3, <1>4, <1>5

LEMMA TopPushed ==
    ASSUME LevelsCounted, stack # <<>>, NEW f, NEW g, stack' = Front(stack) \o <<f, g>>
    PROVE  /\ Len(stack) \in Nat \ {0} /\ Len(stack') = Len(stack) + 1 /\ stack' # <<>> /\ Top' = g
           /\ DOMAIN stack = 1 .. Len(stack) /\ DOMAIN stack' = 1 .. Len(stack) + 1 /\ Len(stack) \in DOMAIN stack
           /\ Top = stack[Len(stack)]
           /\ \A i \in DOMAIN stack' : stack'[i] = IF i = Len(stack) + 1 THEN g ELSE IF i = Len(stack) THEN f ELSE stack[i]
<1>1. PICK S, F : (\A s \in S : IsStatement(s)) /\ stack \in Seq(Frames(S, F))
  BY DEF LevelsCounted, StackTyped
<1> DEFINE X == Frames(S, F) \cup {f, g}
<1>2. stack \in Seq(X) /\ f \in X /\ g \in X
  <2>1. \A e \in Frames(S, F) : e \in X
    OBVIOUS
  <2> HIDE DEF X
  <2>2. stack \in Seq(X)
    BY <1>1, <2>1
  <2> QED
    BY <2>2 DEF X
<1> HIDE DEF X
<1>3. /\ stack' \in Seq(X) /\ Len(stack') = Len(stack) + 1 /\ stack' # <<>> /\ Last(stack') = g
      /\ stack'[Len(stack')] = g /\ stack'[Len(stack)] = f
      /\ \A i \in 1 .. Len(stack) - 1 : stack'[i] = stack[i]
  BY <1>2, Pushed
<1>4. Len(stack) \in Nat \ {0} /\ DOMAIN stack = 1 .. Len(stack) /\ Top = stack[Len(stack)]
  BY <1>1, TopTyped
<1>5. DOMAIN stack' = 1 .. Len(stack) + 1
  BY <1>3
<1>6. \A i \in DOMAIN stack' : stack'[i] = IF i = Len(stack) + 1 THEN g ELSE IF i = Len(stack) THEN f ELSE stack[i]
  <2> SUFFICES ASSUME NEW i \in 1 .. Len(stack) + 1
               PROVE  stack'[i] = IF i = Len(stack) + 1 THEN g ELSE IF i = Len(stack) THEN f ELSE stack[i]
    BY <1>5
  <2>1. \/ i = Len(stack) + 1 /\ i # Len(stack)
        \/ i = Len(stack) /\ i # Len(stack) + 1
        \/ i \in 1 .. Len(stack) - 1 /\ i # Len(stack) /\ i # Len(stack) + 1
    BY <1>4, LastOrBefore
  <2> QED
    BY <2>1, <1>3
<1>7. Len(stack) \in DOMAIN stack
  BY <1>4, LastOrBefore
<1> QED
  BY <1>3, <1>4, <1>5, <1>6, <1>7 DEF Top

-----------------------------------------------------------------------------
(* Types.                                                                  *)

StoreTyped == /\ rows \in [Tables -> Seq(Row)]
              /\ index \in [Tables -> SUBSET [val : Refs, pos : Nat]]
FrameTyped(f) == /\ f.stmt \in Statement(Names)
                 /\ f.found \subseteq Nat
                 /\ f.todo \in Seq(Statement(Names))
                 /\ f.new \in Nat \cup {None}
FramesTyped == \A i \in DOMAIN stack : FrameTyped(stack[i])
Typed == /\ LevelsCounted
         /\ StoreTyped
         /\ FramesTyped
         /\ raised \in BOOLEAN
         /\ returned \in {"none", "ok", "error"}

\* What a statement's operation says of its other fields.
LEMMA Fields ==
    ASSUME NEW K, NEW s \in Statement(K)
    PROVE  /\ s.op \in Events \cup {"RAISE"}
           /\ s.op # "RAISE" => s.table \in Tables
           /\ "id" \in DOMAIN s => s.id \in K
           /\ s.op = "INSERT" => /\ "id" \in DOMAIN s /\ s.id \in K /\ s.ref \in Refs
                                 /\ s.mode = "upsert" => s.set \in Refs
           /\ s.op = "UPDATE" => /\ "id" \in DOMAIN s /\ s.id \in K /\ s.col \in {"id", "ref"}
                                 /\ s.col = "id" => s.val \in Nat
                                 /\ s.col = "ref" => s.val \in Refs
           /\ s.op = "DELETE" => s.ids \subseteq Nat /\ "id" \notin DOMAIN s
BY DEF Statement, Events

LEMMA TypedTop ==
    ASSUME Typed, stack # <<>>
    PROVE  FrameTyped(Top) /\ Len(stack) \in DOMAIN stack /\ Top = stack[Len(stack)]
<1>1. Len(stack) \in Nat \ {0} /\ Top = stack[Len(stack)]
  BY TopTyped DEF Typed
<1>2. PICK S, F : stack \in Seq(Frames(S, F))
  BY DEF Typed, LevelsCounted, StackTyped
<1>3. Len(stack) \in DOMAIN stack
  BY <1>1, <1>2
<1> QED
  BY <1>1, <1>3 DEF Typed, FramesTyped

LEMMA KeysTyped ==
    ASSUME StoreTyped, NEW t \in Tables
    PROVE  /\ rows[t] \in Seq(Row) /\ index[t] \subseteq [val : Refs, pos : Nat]
           /\ Len(rows[t]) \in Nat /\ DOMAIN rows[t] = 1 .. Len(rows[t])
           /\ \A i \in DOMAIN rows[t] : i \in Nat \ {0} /\ rows[t][i] \in Row /\ rows[t][i].id \in Nat /\ rows[t][i].ref \in Refs
           /\ Ids(t) \subseteq Nat
           /\ \A k : Positions(t, k) \subseteq Nat
           /\ \A s : s.table = t => Hits(s) \subseteq Nat /\ Hits(s) \subseteq DOMAIN rows[t]
<1>1. rows[t] \in Seq(Row) /\ index[t] \subseteq [val : Refs, pos : Nat]
  BY DEF StoreTyped
<1>2. /\ Len(rows[t]) \in Nat /\ DOMAIN rows[t] = 1 .. Len(rows[t])
      /\ \A i \in DOMAIN rows[t] : i \in Nat \ {0} /\ rows[t][i] \in Row
  BY <1>1
<1>3. \A r \in Row : r.id \in Nat /\ r.ref \in Refs
  BY DEF Row
<1> QED
  BY <1>1, <1>2, <1>3 DEF Ids, Positions, Hits

LEMMA EntriesTyped ==
    ASSUME NEW t \in Tables, NEW rs \in Seq(Row)
    PROVE  Entries(t, rs) \subseteq [val : Refs, pos : Nat]
<1>1. \A i \in DOMAIN rs : i \in Nat /\ rs[i] \in Row
  OBVIOUS
<1>2. \A i \in DOMAIN rs : i \in Nat /\ rs[i].ref \in Refs
  BY <1>1 DEF Row
<1> QED
  BY <1>2 DEF Entries

LEMMA Written ==
    ASSUME StoreTyped, NEW c \in Tables, NEW old, NEW new \in Refs
    PROVE  LET w == WriteRefs(c, old, new)
           IN  /\ w.rows \in Seq(Row) /\ Len(w.rows) = Len(rows[c]) /\ DOMAIN w.rows = DOMAIN rows[c]
               /\ w.index = index[c]
               /\ \A i \in DOMAIN rows[c] : /\ w.rows[i].id = rows[c][i].id
                                            /\ w.rows[i].ref = IF rows[c][i].ref \in old THEN new ELSE rows[c][i].ref
<1> DEFINE w == [i \in DOMAIN rows[c] |-> IF i \in Orphans(c, old) THEN [rows[c][i] EXCEPT !.ref = new] ELSE rows[c][i]]
<1>1. WriteRefs(c, old, new).rows = w /\ WriteRefs(c, old, new).index = index[c]
  BY DEF WriteRefs
<1>2. Len(rows[c]) \in Nat /\ DOMAIN rows[c] = 1 .. Len(rows[c]) /\ \A i \in DOMAIN rows[c] : rows[c][i] \in Row
  BY KeysTyped
<1>3. ASSUME NEW i \in DOMAIN rows[c]
      PROVE  /\ w[i] \in Row /\ w[i].id = rows[c][i].id
             /\ w[i].ref = IF rows[c][i].ref \in old THEN new ELSE rows[c][i].ref
  BY <1>2 DEF Orphans, Row
<1> HIDE DEF w
<1>4. w \in [1 .. Len(rows[c]) -> Row]
  BY <1>2, <1>3 DEF w
<1>5. w \in Seq(Row) /\ Len(w) = Len(rows[c]) /\ DOMAIN w = DOMAIN rows[c]
  BY <1>2, <1>4
<1> QED
  BY <1>1, <1>3, <1>5

LEMMA CascadeTyped ==
    ASSUME StoreTyped, NEW c \in Tables, NEW gone
    PROVE  Cascade(c, gone).rows \in Seq(Row) /\ Cascade(c, gone).index \subseteq [val : Refs, pos : Nat]
<1>1. rows[c] \in Seq(Row) /\ index[c] \subseteq [val : Refs, pos : Nat]
  BY KeysTyped
<1>2. CASE OnDelete[c] = "CASCADE" /\ Orphans(c, gone) # {}
  <2> DEFINE kept == Without(rows[c], OrphanIds(c, gone))
  <2>1. kept \in Seq(Row)
    BY <1>1, Stayed
  <2>2. Cascade(c, gone).rows = kept /\ Cascade(c, gone).index = Entries(c, kept)
    BY <1>2 DEF Cascade, CascadeDelete
  <2> QED
    BY <2>1, <2>2, EntriesTyped
<1>3. CASE OnDelete[c] = "SET NULL"
  <2>1. None \in Refs
    BY DEF Refs
  <2>2. Cascade(c, gone) = WriteRefs(c, gone, None)
    BY <1>3 DEF Cascade
  <2> QED
    BY <1>1, <2>1, <2>2, Written
<1>4. CASE OnDelete[c] # "SET NULL" /\ ~(OnDelete[c] = "CASCADE" /\ Orphans(c, gone) # {})
  BY <1>1, <1>4 DEF Cascade
<1> QED
  BY <1>2, <1>3, <1>4

\* A statement enters its triggers, or ends.
LEMMA FramesEntered ==
    ASSUME Typed, stack # <<>>, Top.stmt.op # "RAISE", NEW timing \in Timings, NEW found \in SUBSET Nat,
           NEW new \in Nat \cup {None}, Enter(TopWith(found, new), timing)
    PROVE  FramesTyped'
<1>1. FrameTyped(Top) /\ LevelsCounted
  BY TypedTop DEF Typed
<1> DEFINE bodies == Bodies[<<Top.stmt.table, timing, Top.stmt.op>>]
           todo == IF depth < MaxDepth THEN bodies ELSE <<>>
           f == [TopWith(found, new) EXCEPT !.phase = timing, !.prev = depth, !.todo = todo]
<1>2. f.stmt = Top.stmt /\ f.found = found /\ f.todo = todo /\ f.new = new
  BY <1>1, TopTyped
<1>3. stack' = Front(stack) \o <<f>>
  <2>1. TopWith(found, new).stmt = Top.stmt
    BY <1>1, TopTyped
  <2> QED
    BY <2>1 DEF Enter, SetTop
<1>4. todo \in Seq(Statement(Names))
  <2>1. Top.stmt.table \in Tables /\ Top.stmt.op \in Events
    BY <1>1, Fields DEF FrameTyped
  <2>2. bodies \in Seq(Statement(Names))
    BY <2>1, ForeignKeysAssumption
  <2>3. <<>> \in Seq(Statement(Names))
    OBVIOUS
  <2> HIDE DEF bodies
  <2> QED
    BY <2>2, <2>3
<1> HIDE DEF f, todo
<1>5. FrameTyped(f)
  BY <1>1, <1>2, <1>4 DEF FrameTyped
<1>6. /\ DOMAIN stack' = DOMAIN stack
      /\ \A i \in DOMAIN stack : stack'[i] = IF i = Len(stack) THEN f ELSE stack[i]
  BY <1>1, <1>3, TopSet
<1> QED
  BY <1>5, <1>6 DEF Typed, FramesTyped

LEMMA FramesLeft ==
    ASSUME Typed, stack # <<>>,
           \/ stack' = Front(stack)
           \/ stack' = <<>>
           \/ /\ Top.stmt.op # "RAISE"
              /\ \/ Enter(Top, "BEFORE")
                 \/ \E found \in SUBSET Nat : Enter([Top EXCEPT !.found = found], "BEFORE")
                 \/ \E new \in Nat \cup {None} : Enter([Top EXCEPT !.new = new], "AFTER")
    PROVE  FramesTyped'
<1>1. LevelsCounted
  BY DEF Typed
<1>2. CASE stack' = Front(stack)
  BY <1>1, <1>2, TopPopped DEF Typed, FramesTyped
<1>3. CASE stack' = <<>>
  BY <1>3 DEF FramesTyped
<1>4. ASSUME stack # <<>>
      PROVE  /\ Top = TopWith(Top.found, Top.new)
             /\ \A found : [Top EXCEPT !.found = found] = TopWith(found, Top.new)
             /\ \A new : [Top EXCEPT !.new = new] = TopWith(Top.found, new)
             /\ Top.found \in SUBSET Nat /\ Top.new \in Nat \cup {None}
             /\ "BEFORE" \in Timings /\ "AFTER" \in Timings
  BY <1>1, <1>4, TopTyped, TypedTop DEF FrameTyped, Timings
<1> HIDE DEF FramesTyped
<1>5. ASSUME Enter(Top, "BEFORE"), Top.stmt.op # "RAISE" PROVE FramesTyped'
  <2>1. Enter(TopWith(Top.found, Top.new), "BEFORE")
    BY <1>4, <1>5
  <2> QED
    BY <2>1, <1>4, <1>5, FramesEntered
<1>6. ASSUME NEW found \in SUBSET Nat, Enter([Top EXCEPT !.found = found], "BEFORE"), Top.stmt.op # "RAISE"
      PROVE  FramesTyped'
  <2>1. Enter(TopWith(found, Top.new), "BEFORE")
    BY <1>4, <1>6
  <2> QED
    BY <2>1, <1>4, <1>6, FramesEntered
<1>7. ASSUME NEW new \in Nat \cup {None}, Enter([Top EXCEPT !.new = new], "AFTER"), Top.stmt.op # "RAISE"
      PROVE  FramesTyped'
  <2>1. Enter(TopWith(Top.found, new), "AFTER")
    BY <1>4, <1>7
  <2> QED
    BY <2>1, <1>4, <1>7, FramesEntered
<1> QED
  BY <1>2, <1>3, <1>5, <1>6, <1>7

\* The four ways a statement begins, and the four it is applied.
LEMMA CascadedTyped ==
    ASSUME StoreTyped, NEW t, NEW gone
    PROVE  LET db == Cascaded(t, gone)
           IN  /\ db.rows \in [Tables -> Seq(Row)]
               /\ db.index \in [Tables -> SUBSET [val : Refs, pos : Nat]]
<1> DEFINE reached == Reached(t, gone)
           rs == [c \in Tables |-> IF c \in reached THEN Cascade(c, gone).rows ELSE rows[c]]
           ix == [c \in Tables |-> IF c \in reached THEN Cascade(c, gone).index ELSE index[c]]
<1>1. Cascaded(t, gone).rows = rs /\ Cascaded(t, gone).index = ix
  BY DEF Cascaded
<1> HIDE DEF reached
<1>2. \A c \in Tables : rs[c] \in Seq(Row) /\ ix[c] \in SUBSET [val : Refs, pos : Nat]
  BY CascadeTyped DEF StoreTyped
<1> QED
  BY <1>1, <1>2

LEMMA BeginTyped ==
    ASSUME Typed, BeginInsert \/ BeginDelete \/ BeginUpdate
    PROVE  StoreTyped' /\ FramesTyped'
<1>1. stack # <<>> /\ StoreTyped
  BY DEF BeginInsert, BeginDelete, BeginUpdate, InPhase, Typed
<1>2. FrameTyped(Top) /\ "BEFORE" \in Timings
  BY <1>1, TypedTop DEF Timings
<1>3. CASE BeginInsert
  <2> DEFINE p == Parent[Top.stmt.table]
             found == IF p = None THEN {} ELSE Ids(p)
  <2>1. Top.stmt.op = "INSERT" /\ Top.stmt.table \in Tables
    BY <1>2, <1>3, Fields DEF BeginInsert, Is, FrameTyped
  <2>2. found \in SUBSET Nat
    BY <1>1, <2>1, ForeignKeysAssumption, KeysTyped
  <2>3. Enter([Top EXCEPT !.found = found], "BEFORE") /\ UNCHANGED <<rows, index>>
    BY <1>3 DEF BeginInsert
  <2> HIDE DEF found
  <2> QED
    BY <1>1, <1>2, <2>1, <2>2, <2>3, FramesLeft DEF StoreTyped
<1>4. CASE BeginDelete
  <2> DEFINE gone == Ids(Top.stmt.table) \cap Top.stmt.ids
  <2>1. /\ rows' = Cascaded(Top.stmt.table, gone).rows
        /\ index' = Cascaded(Top.stmt.table, gone).index
        /\ Top.stmt.op = "DELETE"
        /\ stack' = Front(stack) \/ Enter(Top, "BEFORE")
    BY <1>4 DEF BeginDelete, Is, Return
  <2>2. StoreTyped'
    BY <1>1, <2>1, CascadedTyped DEF StoreTyped
  <2>3. FramesTyped'
    BY <1>1, <1>2, <2>1, FramesLeft
  <2> QED
    BY <2>2, <2>3
<1>5. CASE BeginUpdate
  <2> DEFINE s == Top.stmt
             hits == Hits(s)
  <2>1. s.op = "UPDATE" /\ s.table \in Tables /\ (s.col = "id" => s.val \in Refs)
    BY <1>2, <1>5, Fields DEF BeginUpdate, Is, FrameTyped, Refs
  <2>2. hits \in SUBSET Nat
    BY <1>1, <2>1, KeysTyped
  <2>3. \/ stack' = Front(stack) /\ UNCHANGED <<rows, index>>
        \/ /\ Enter([Top EXCEPT !.found = hits], "BEFORE")
           /\ rows' = IF s.col = "id" /\ hits # {} THEN Requeued(s) ELSE rows
           /\ UNCHANGED index
    BY <1>5 DEF BeginUpdate, Return
  <2>4. s.col = "id" => Requeued(s) \in [Tables -> Seq(Row)]
    BY <1>1, <2>1, Written DEF Requeued, StoreTyped
  <2>5. StoreTyped'
    BY <1>1, <2>3, <2>4 DEF StoreTyped
  <2>6. FramesTyped'
    <3> HIDE DEF hits, FramesTyped
    <3> QED
      BY <1>1, <1>2, <2>1, <2>2, <2>3, FramesLeft
  <2> QED
    BY <2>5, <2>6
<1> QED
  BY <1>3, <1>4, <1>5

LEMMA IndexTyped ==
    ASSUME StoreTyped, NEW t \in Tables, NEW at \in SUBSET Nat, NEW v \in Refs
    PROVE  /\ Added(t, at, v) \subseteq [val : Refs, pos : Nat]
           /\ Moved(t, at, v) \subseteq [val : Refs, pos : Nat]
<1>1. Added(t, at, v) \subseteq [val : Refs, pos : Nat]
  BY DEF Added
<1> QED
  BY <1>1, KeysTyped DEF Moved

LEMMA RowPut ==
    ASSUME NEW rs \in Seq(Row), NEW r \in Row, NEW m
    PROVE  /\ Append(rs, r) \in Seq(Row) /\ Len(Append(rs, r)) = Len(rs) + 1
           /\ Append(rs, r)[Len(rs) + 1] = r
           /\ \A i \in DOMAIN rs : i # Len(rs) + 1 /\ Append(rs, r)[i] = rs[i]
           /\ DOMAIN Append(rs, r) = DOMAIN rs \cup {Len(rs) + 1}
           /\ [rs EXCEPT ![m] = r] \in Seq(Row) /\ DOMAIN [rs EXCEPT ![m] = r] = DOMAIN rs
           /\ Len([rs EXCEPT ![m] = r]) = Len(rs)
<1>1. Append(rs, r) \in Seq(Row) /\ Len(Append(rs, r)) = Len(rs) + 1 /\ Append(rs, r)[Len(rs) + 1] = r
  OBVIOUS
<1>2. \A i \in DOMAIN rs : i # Len(rs) + 1 /\ Append(rs, r)[i] = rs[i]
  OBVIOUS
<1>3. DOMAIN Append(rs, r) = DOMAIN rs \cup {Len(rs) + 1}
  OBVIOUS
<1>4. /\ [rs EXCEPT ![m] = r] \in Seq(Row) /\ DOMAIN [rs EXCEPT ![m] = r] = DOMAIN rs
      /\ Len([rs EXCEPT ![m] = r]) = Len(rs)
  <2>1. Len(rs) \in Nat /\ DOMAIN rs = 1 .. Len(rs) /\ \A i \in DOMAIN rs : rs[i] \in Row
    OBVIOUS
  <2> DEFINE w == [rs EXCEPT ![m] = r]
  <2>2. w \in [1 .. Len(rs) -> Row]
    BY <2>1
  <2> HIDE DEF w
  <2>3. w \in Seq(Row) /\ DOMAIN w = DOMAIN rs /\ Len(w) = Len(rs)
    BY <2>1, <2>2
  <2> QED
    BY <2>3 DEF w
<1> QED
  BY <1>1, <1>2, <1>3, <1>4

LEMMA LastAt ==
    ASSUME StoreTyped, NEW t \in Tables, NEW k, Positions(t, k) # {}
    PROVE  /\ Max(Positions(t, k)) \in DOMAIN rows[t] /\ Max(Positions(t, k)) \in Nat
           /\ rows[t][Max(Positions(t, k))].id = k
<1>1. Len(rows[t]) \in Nat /\ DOMAIN rows[t] = 1 .. Len(rows[t])
  BY KeysTyped
<1>2. Positions(t, k) \in SUBSET (1 .. Len(rows[t]))
  BY <1>1 DEF Positions
<1>3. Max(Positions(t, k)) \in Positions(t, k)
  BY <1>1, <1>2, MaxAmong
<1> QED
  BY <1>1, <1>2, <1>3 DEF Positions

LEMMA ApplyTyped ==
    ASSUME Typed, ApplyInsert \/ ApplyDelete \/ ApplyUpdate
    PROVE  StoreTyped' /\ FramesTyped'
<1>1. stack # <<>> /\ StoreTyped /\ Top.stmt.op \in Events
  BY DEF ApplyInsert, ApplyDelete, ApplyUpdate, InPhase, Is, Typed, Events
<1>2. FrameTyped(Top) /\ "AFTER" \in Timings /\ Top.stmt.op # "RAISE"
  BY <1>1, TypedTop DEF Timings, Events
<1> DEFINE s == Top.stmt
           t == s.table
<1>3. t \in Tables
  BY <1>1, <1>2, Fields DEF FrameTyped
<1>4. /\ rows[t] \in Seq(Row) /\ index[t] \subseteq [val : Refs, pos : Nat]
      /\ Len(rows[t]) \in Nat /\ DOMAIN rows[t] = 1 .. Len(rows[t])
      /\ \A i \in DOMAIN rows[t] : rows[t][i] \in Row
  BY <1>1, <1>3, KeysTyped
<1>5. ASSUME NEW rs \in Seq(Row), NEW ix \in SUBSET [val : Refs, pos : Nat],
             NEW new \in Nat \cup {None}, Applied(rs, ix, new)
      PROVE  StoreTyped' /\ FramesTyped'
  <2>1. rows' = [rows EXCEPT ![t] = rs] /\ index' = [index EXCEPT ![t] = ix]
    BY <1>5 DEF Applied
  <2>2. StoreTyped'
    BY <1>1, <1>3, <2>1 DEF StoreTyped
  <2>3. stack' = Front(stack) \/ Enter([Top EXCEPT !.new = new], "AFTER")
    BY <1>5 DEF Applied, Return
  <2> QED
    BY <1>1, <1>2, <2>2, <2>3, FramesLeft
<1>6. CASE ApplyInsert
  <2> DEFINE row == [id |-> s.id, ref |-> s.ref]
             at  == Positions(t, s.id)
  <2>1. s.op = "INSERT" /\ s.ref \in Refs /\ (s.mode = "upsert" => s.set \in Refs)
    BY <1>2, <1>6, Fields DEF ApplyInsert, Is, FrameTyped
  <2>2. ~WrongType(s) => row \in Row /\ s.id \in Nat
    BY <2>1 DEF Row, WrongType
  <2>3. at # {} => Max(at) \in DOMAIN rows[t] /\ Max(at) \in Nat
    BY <1>1, <1>3, LastAt
  <2>4. \/ stack' = Front(stack) /\ UNCHANGED <<rows, index>>
        \/ /\ ~WrongType(s)
           /\ \/ Applied(Append(rows[t], row), index[t] \cup Added(t, {Len(rows[t]) + 1}, s.ref), s.id)
              \/ Applied(rows[t], index[t], None)
              \/ at # {} /\ Applied([rows[t] EXCEPT ![Max(at)] = row], index[t], s.id)
              \/ /\ at # {} /\ s.mode = "upsert"
                 /\ Applied([rows[t] EXCEPT ![Max(at)].ref = s.set], Moved(t, {Max(at)}, s.set), None)
    BY <1>6 DEF ApplyInsert, Return
  <2> HIDE DEF row, at, s, t
  <2>5. ~WrongType(s) => Append(rows[t], row) \in Seq(Row) /\ [rows[t] EXCEPT ![Max(at)] = row] \in Seq(Row)
    BY <1>4, <2>2, RowPut
  <2>6. index[t] \cup Added(t, {Len(rows[t]) + 1}, s.ref) \in SUBSET [val : Refs, pos : Nat]
    <3>1. {Len(rows[t]) + 1} \in SUBSET Nat
      BY <1>4
    <3> QED
      BY <1>1, <1>3, <1>4, <2>1, <3>1, IndexTyped
  <2>7. ASSUME at # {}, s.mode = "upsert"
        PROVE  /\ [rows[t] EXCEPT ![Max(at)].ref = s.set] \in Seq(Row)
               /\ Moved(t, {Max(at)}, s.set) \in SUBSET [val : Refs, pos : Nat]
    <3>1. [rows[t][Max(at)] EXCEPT !.ref = s.set] \in Row
      BY <1>4, <2>1, <2>3, <2>7 DEF Row
    <3>2. [rows[t] EXCEPT ![Max(at)] = [rows[t][Max(at)] EXCEPT !.ref = s.set]] \in Seq(Row)
      BY <1>4, <3>1, RowPut
    <3>3. Moved(t, {Max(at)}, s.set) \in SUBSET [val : Refs, pos : Nat]
      BY <1>1, <1>3, <2>1, <2>3, <2>7, IndexTyped
    <3> QED
      BY <3>2, <3>3
  <2>8. CASE stack' = Front(stack) /\ UNCHANGED <<rows, index>>
    BY <1>1, <2>8, FramesLeft DEF StoreTyped
  <2>9. ASSUME ~WrongType(s), Applied(Append(rows[t], row), index[t] \cup Added(t, {Len(rows[t]) + 1}, s.ref), s.id)
        PROVE  StoreTyped' /\ FramesTyped'
    <3>1. s.id \in Nat \cup {None}
      BY <2>2, <2>9
    <3> QED
      BY <1>5, <2>5, <2>6, <2>9, <3>1
  <2>10. ASSUME Applied(rows[t], index[t], None) PROVE StoreTyped' /\ FramesTyped'
    BY <1>4, <1>5, <2>10
  <2>11. ASSUME ~WrongType(s), Applied([rows[t] EXCEPT ![Max(at)] = row], index[t], s.id) PROVE StoreTyped' /\ FramesTyped'
    <3>1. s.id \in Nat \cup {None}
      BY <2>2, <2>11
    <3>2. index[t] \in SUBSET [val : Refs, pos : Nat]
      BY <1>4
    <3> QED
      BY <1>5, <2>5, <2>11, <3>1, <3>2
  <2>12. ASSUME at # {}, s.mode = "upsert",
                Applied([rows[t] EXCEPT ![Max(at)].ref = s.set], Moved(t, {Max(at)}, s.set), None)
         PROVE  StoreTyped' /\ FramesTyped'
    BY <1>5, <2>7, <2>12
  <2> QED
    BY <2>4, <2>8, <2>9, <2>10, <2>11, <2>12
<1>7. CASE ApplyDelete
  <2> DEFINE kept == Without(rows[t], s.ids)
  <2>1. Applied(kept, Entries(t, kept), None)
    BY <1>7 DEF ApplyDelete
  <2>2. kept \in Seq(Row)
    BY <1>4, Stayed
  <2> HIDE DEF kept
  <2>3. Entries(t, kept) \in SUBSET [val : Refs, pos : Nat]
    BY <1>3, <2>2, EntriesTyped
  <2> QED
    BY <1>5, <2>1, <2>2, <2>3
<1>8. CASE ApplyUpdate
  <2> DEFINE rs == [i \in DOMAIN rows[t] |-> IF i \in Top.found THEN [rows[t][i] EXCEPT ![s.col] = s.val] ELSE rows[t][i]]
             ix == IF s.col = "ref" THEN Moved(t, Top.found, s.val) ELSE index[t]
  <2>1. /\ s.op = "UPDATE" /\ s.col \in {"id", "ref"} /\ Top.found \in SUBSET Nat
        /\ s.col = "id" => s.val \in Nat
        /\ s.col = "ref" => s.val \in Refs
    BY <1>2, <1>8, Fields DEF ApplyUpdate, Is, FrameTyped
  <2>2. Applied(rs, ix, None)
    BY <1>8 DEF ApplyUpdate
  <2>3. \A i \in DOMAIN rows[t] : [rows[t][i] EXCEPT ![s.col] = s.val] \in Row
    BY <1>4, <2>1 DEF Row
  <2>4. rs \in Seq(Row)
    <3>1. \A i \in DOMAIN rows[t] : rs[i] \in Row
      BY <1>4, <2>3
    <3> HIDE DEF rs
    <3>2. rs \in [1 .. Len(rows[t]) -> Row]
      BY <1>4, <3>1 DEF rs
    <3> QED
      BY <1>4, <3>2
  <2>5. ix \in SUBSET [val : Refs, pos : Nat]
    BY <1>1, <1>3, <1>4, <2>1, IndexTyped
  <2> HIDE DEF rs, ix
  <2> QED
    BY <1>5, <2>2, <2>4, <2>5
<1> QED
  BY <1>6, <1>7, <1>8

LEMMA BodyTyped ==
    ASSUME Typed, RunBody
    PROVE  FramesTyped'
<1>1. LevelsCounted /\ stack # <<>> /\ Top.todo # <<>>
  BY DEF RunBody, InTrigger, InPhase, Typed
<1>2. FrameTyped(Top)
  BY <1>1, TypedTop
<1> DEFINE body == Head(Top.todo)
           sub == Substituted(body, Top.new)
           f == [Top EXCEPT !.todo = Tail(@)]
           g == Frame(sub)
<1>3. body \in Statement(Names) /\ Tail(Top.todo) \in Seq(Statement(Names))
  <2>1. Top.todo \in Seq(Statement(Names))
    BY <1>2 DEF FrameTyped
  <2> QED
    BY <1>1, <2>1
<1>4. sub \in Statement(Names)
  <2>1. CASE "id" \notin DOMAIN body \/ Top.new = None
    BY <1>3, <2>1 DEF Substituted
  <2>2. ASSUME "id" \in DOMAIN body, NEW k \in Names, sub = [body EXCEPT !.id = k]
        PROVE  sub \in Statement(Names)
    BY <1>3, <2>2 DEF Statement
  <2>3. CASE "id" \in DOMAIN body /\ Top.new # None
    <3> DEFINE k == CASE body.id = New -> Top.new
                      [] body.id = NewPlus1 -> Top.new + 1
                      [] OTHER -> body.id
    <3>1. sub = [body EXCEPT !.id = k]
      BY <2>3 DEF Substituted
    <3>2. body.id \in Names /\ Top.new \in Nat
      BY <1>2, <1>3, <2>3, Fields DEF FrameTyped
    <3>3. k \in Names
      BY <3>2 DEF Names
    <3> QED
      BY <2>2, <2>3, <3>1, <3>3
  <2> QED
    BY <2>1, <2>3
<1>5. FrameTyped(g)
  BY <1>4 DEF FrameTyped, Frame
<1>6. FrameTyped(f)
  <2>1. PICK S, F : stack \in Seq(Frames(S, F))
    BY <1>1 DEF LevelsCounted, StackTyped
  <2>2. Top \in Frames(S, F)
    BY <1>1, <2>1, Popped DEF Top
  <2>3. f.stmt = Top.stmt /\ f.found = Top.found /\ f.todo = Tail(Top.todo) /\ f.new = Top.new
    BY <2>2 DEF Frames
  <2> QED
    BY <1>1, <1>2, <1>3, <2>3 DEF FrameTyped
<1>7. stack' = Front(stack) \o <<f, g>>
  BY DEF RunBody
<1> HIDE DEF f, g
<1>8. /\ DOMAIN stack' = 1 .. Len(stack) + 1 /\ DOMAIN stack = 1 .. Len(stack)
      /\ \A i \in DOMAIN stack' : stack'[i] = IF i = Len(stack) + 1 THEN g ELSE IF i = Len(stack) THEN f ELSE stack[i]
      /\ Len(stack) \in Nat
  BY <1>1, <1>7, TopPushed
<1> QED
  BY <1>5, <1>6, <1>8 DEF Typed, FramesTyped

LEMMA TypedStep == Typed /\ [Next]_vars => Typed'
<1> SUFFICES ASSUME Typed, [Next]_vars PROVE Typed'
  OBVIOUS
<1>0. LevelsCounted /\ LevelsCounted'
  BY LevelsStep DEF Typed
<1>1. StoreTyped /\ raised \in BOOLEAN /\ returned \in {"none", "ok", "error"}
  BY DEF Typed
<1> DEFINE Flags == raised \in BOOLEAN /\ returned \in {"none", "ok", "error"}
<1>2. ASSUME StoreTyped', FramesTyped', raised' \in BOOLEAN, returned' \in {"none", "ok", "error"} PROVE Typed'
  BY <1>0, <1>2 DEF Typed
<1>3. ASSUME NEW s \in ClientStmts, Call(s) PROVE Typed'
  <2>1. stack' = <<Frame(s)>> /\ returned' = "none" /\ UNCHANGED <<rows, index, raised>>
    BY <1>3 DEF Call
  <2>2. FrameTyped(Frame(s))
    <3>1. s \in Statement(Names)
      BY ForeignKeysAssumption DEF Statement, Names
    <3>2. <<>> \in Seq(Statement(Names))
      OBVIOUS
    <3> QED
      BY <3>1, <3>2 DEF FrameTyped, Frame
  <2>3. FramesTyped'
    BY <2>1, <2>2 DEF FramesTyped
  <2> QED
    BY <1>1, <1>2, <2>1, <2>3 DEF StoreTyped
<1>4. CASE Raise \/ Refused \/ LeaveAfter \/ UpdatePanics
  <2>1. /\ stack # <<>> /\ (stack' = Front(stack) \/ stack' = <<>>) /\ UNCHANGED <<rows, index>>
        /\ raised' \in BOOLEAN /\ returned' \in {"none", "ok", "error"}
    BY <1>1, <1>4 DEF Raise, Refused, LeaveAfter, UpdatePanics, InPhase, BodyEnded, Return
  <2>2. FramesTyped'
    BY <2>1, FramesLeft
  <2> QED
    BY <1>1, <1>2, <2>1, <2>2 DEF StoreTyped
<1>5. CASE BeginInsert \/ BeginDelete \/ BeginUpdate
  <2>1. raised' \in BOOLEAN /\ returned' \in {"none", "ok", "error"}
    BY <1>1, <1>5 DEF BeginInsert, BeginDelete, BeginUpdate, Return
  <2> QED
    BY <1>2, <1>5, <2>1, BeginTyped
<1>6. CASE RunBody
  <2>1. raised' \in BOOLEAN /\ UNCHANGED <<rows, index, returned>>
    BY <1>1, <1>6 DEF RunBody
  <2> QED
    BY <1>1, <1>2, <1>6, <2>1, BodyTyped DEF StoreTyped
<1>7. CASE BodyDone \/ UNCHANGED vars
  <2>1. UNCHANGED <<rows, index, stack, raised>> /\ returned' \in {"none", "ok", "error"}
    BY <1>1, <1>7 DEF BodyDone, vars
  <2> QED
    BY <1>0, <1>1, <2>1 DEF Typed, StoreTyped, FramesTyped
<1>8. CASE LeaveBefore
  <2> DEFINE f == [Top EXCEPT !.phase = "apply"]
  <2>1. stack # <<>> /\ stack' = Front(stack) \o <<f>> /\ UNCHANGED <<rows, index, raised, returned>>
    BY <1>8 DEF LeaveBefore, InPhase, SetTop
  <2>2. FrameTyped(f)
    <3>1. PICK S, F : stack \in Seq(Frames(S, F))
      BY <1>0 DEF LevelsCounted, StackTyped
    <3>2. Top \in Frames(S, F)
      BY <2>1, <3>1, Popped DEF Top
    <3>3. f.stmt = Top.stmt /\ f.found = Top.found /\ f.todo = Top.todo /\ f.new = Top.new
      BY <3>2 DEF Frames
    <3> QED
      BY <2>1, <3>3, TypedTop DEF FrameTyped
  <2> HIDE DEF f
  <2>3. /\ DOMAIN stack' = DOMAIN stack
        /\ \A i \in DOMAIN stack : stack'[i] = IF i = Len(stack) THEN f ELSE stack[i]
    BY <1>0, <2>1, TopSet
  <2>4. FramesTyped'
    BY <2>2, <2>3 DEF Typed, FramesTyped
  <2> QED
    BY <1>1, <1>2, <2>1, <2>4 DEF StoreTyped
<1>9. CASE ApplyInsert \/ ApplyDelete \/ ApplyUpdate
  <2>1. raised' \in BOOLEAN /\ returned' \in {"none", "ok", "error"}
    <3>1. CASE ApplyInsert
      BY <1>1, <3>1 DEF ApplyInsert, Applied, Return
    <3>2. CASE ApplyDelete
      BY <1>1, <3>2 DEF ApplyDelete, Applied, Return
    <3>3. CASE ApplyUpdate
      BY <1>1, <3>3 DEF ApplyUpdate, Applied, Return
    <3> QED
      BY <1>9, <3>1, <3>2, <3>3
  <2> QED
    BY <1>2, <1>9, <2>1, ApplyTyped
<1> QED
  BY <1>3, <1>4, <1>5, <1>6, <1>7, <1>8, <1>9 DEF Next, Step

LEMMA InitTyped == Init => Typed /\ DOMAIN stack = {}
<1> SUFFICES ASSUME Init PROVE Typed /\ DOMAIN stack = {}
  OBVIOUS
<1>1. stack = <<>> /\ depth = 0 /\ MaxDepth \in Nat /\ raised = FALSE /\ returned = "none"
  BY ForeignKeysAssumption DEF Init
<1>2. stack \in Seq(Frames({}, {})) /\ Len(stack) = 0 /\ DOMAIN stack = {}
  BY <1>1
<1>3. StackTyped
  BY <1>2 DEF StackTyped
<1>4. LevelsCounted
  BY <1>1, <1>2, <1>3 DEF LevelsCounted
<1>5. StoreTyped
  BY DEF Init, StoreTyped
<1> QED
  BY <1>1, <1>2, <1>4, <1>5 DEF Typed, FramesTyped

LEMMA TypedAlways == Spec => []Typed
BY InitTyped, TypedStep, PTL DEF Spec

(* Every row keeps its type, for any bodies, cascades and clauses: what a  *)
(* statement inserts is a key even where its body was given no NEW row and *)
(* runs with the prefix taken off, and what its triggers are given as NEW  *)
(* is a key that was stored, or none.                                      *)
THEOREM TypeCorrect == Spec => []TypeOK
<1>1. Typed => TypeOK
  <2> SUFFICES ASSUME Typed PROVE TypeOK
    OBVIOUS
  <2>1. PICK S, F : stack \in Seq(Frames(S, F))
    BY DEF Typed, LevelsCounted, StackTyped
  <2>2. \A i \in DOMAIN stack : stack[i].phase \in Phases /\ stack[i].prev \in 0 .. MaxDepth
    <3>1. \A i \in DOMAIN stack : stack[i] \in Frames(S, F)
      BY <2>1
    <3> QED
      BY <3>1 DEF Frames
  <2> QED
    BY <2>2 DEF Typed, TypeOK, LevelsCounted, StoreTyped, FramesTyped, FrameTyped
<1> QED
  BY <1>1, TypedAlways, PTL

-----------------------------------------------------------------------------
(* The guard of a table whose BEFORE INSERT trigger raises.                *)

Guarding(f) == f.stmt.op = "INSERT" /\ Guarded(f.stmt.table)
Guard(f) == Bodies[<<f.stmt.table, "BEFORE", "INSERT">>]

(* An INSERT that waits below the limit has its RAISE before it, running   *)
(* or just failed; one that got past its BEFORE triggers met the limit.    *)
GuardKept ==
    /\ Typed
    /\ \A i \in DOMAIN stack : Guarding(stack[i]) =>
         /\ stack[i].phase = "BEFORE" /\ stack[i].prev # MaxDepth =>
              \/ i = Len(stack) /\ returned = "none" /\ stack[i].todo = Guard(stack[i])
              \/ i = Len(stack) /\ returned = "error"
              \/ i = Len(stack) - 1 /\ returned = "none" /\ Top.stmt.op = "RAISE" /\ Top.phase = "begin"
         /\ stack[i].phase = "apply" => depth = MaxDepth

LEMMA GuardRaises ==
    ASSUME NEW t \in Tables, Guarded(t)
    PROVE  LET bodies == Bodies[<<t, "BEFORE", "INSERT">>]
           IN  bodies # <<>> /\ Head(bodies).op = "RAISE"
<1> DEFINE bodies == Bodies[<<t, "BEFORE", "INSERT">>]
<1>1. bodies \in Seq(Statement(Names))
  BY ForeignKeysAssumption DEF Timings, Events
<1>2. DOMAIN bodies = {1} /\ bodies[1].op = "RAISE"
  BY DEF Guarded
<1> HIDE DEF bodies
<1>3. Len(bodies) = 1
  BY <1>1, <1>2
<1> QED
  BY <1>1, <1>2, <1>3 DEF bodies

\* The frames below the top are as they were, and none of them waits.
LEMMA NoneWaits ==
    ASSUME GuardKept, stack # <<>>, Top.phase # "begin" \/ Top.stmt.op # "RAISE" \/ returned # "none",
           NEW i \in DOMAIN stack, i # Len(stack), Guarding(stack[i])
    PROVE  ~(stack[i].phase = "BEFORE" /\ stack[i].prev # MaxDepth) /\ stack[i].phase # "apply"
<1>1. LevelsCounted /\ Len(stack) \in Nat \ {0} /\ Top = stack[Len(stack)]
  BY TopTyped DEF GuardKept, Typed
<1>2. DOMAIN stack = 1 .. Len(stack)
  BY <1>1 DEF LevelsCounted, StackTyped
<1>3. i \in 1 .. Len(stack) - 1
  BY <1>1, <1>2, LastOrBefore
<1>4. stack[i].phase # "apply"
  BY <1>1, <1>3 DEF LevelsCounted, Timings
<1> QED
  BY <1>4 DEF GuardKept

LEMMA GuardTopSet ==
    ASSUME GuardKept, Typed', stack # <<>>, NEW f, stack' = Front(stack) \o <<f>>,
           Top.phase # "begin" \/ Top.stmt.op # "RAISE" \/ returned # "none",
           Guarding(f) => /\ f.phase = "BEFORE" /\ f.prev # MaxDepth => returned' = "none" /\ f.todo = Guard(f)
                          /\ f.phase = "apply" => depth' = MaxDepth
    PROVE  GuardKept'
<1>1. LevelsCounted
  BY DEF GuardKept, Typed
<1>2. /\ Len(stack') = Len(stack) /\ Top' = f /\ DOMAIN stack' = DOMAIN stack
      /\ \A i \in DOMAIN stack : stack'[i] = IF i = Len(stack) THEN f ELSE stack[i]
  BY <1>1, TopSet
<1>3. ASSUME NEW i \in DOMAIN stack', Guarding(stack'[i])
      PROVE  /\ stack'[i].phase = "BEFORE" /\ stack'[i].prev # MaxDepth =>
                  i = Len(stack') /\ returned' = "none" /\ stack'[i].todo = Guard(stack'[i])
             /\ stack'[i].phase = "apply" => depth' = MaxDepth
  <2>1. CASE i = Len(stack)
    BY <1>2, <1>3, <2>1
  <2>2. CASE i # Len(stack)
    <3>1. i \in DOMAIN stack /\ stack'[i] = stack[i] /\ Guarding(stack[i])
      BY <1>2, <1>3, <2>2
    <3> QED
      BY <2>2, <3>1, NoneWaits
  <2> QED
    BY <2>1, <2>2
<1> QED
  BY <1>3 DEF GuardKept, Guarding, Guard

LEMMA GuardLeft ==
    ASSUME GuardKept, Typed', stack # <<>>, stack' = Front(stack),
           Top.phase # "begin" \/ Top.stmt.op # "RAISE" \/ returned' = "error"
    PROVE  GuardKept'
<1>1. LevelsCounted
  BY DEF GuardKept, Typed
<1>2. /\ Len(stack) \in Nat \ {0} /\ Len(stack') = Len(stack) - 1
      /\ \A i \in DOMAIN stack' : i \in DOMAIN stack /\ i # Len(stack) /\ stack'[i] = stack[i]
  BY <1>1, TopPopped
<1>3. ASSUME NEW i \in DOMAIN stack', Guarding(stack'[i])
      PROVE  /\ stack'[i].phase = "BEFORE" /\ stack'[i].prev # MaxDepth => i = Len(stack') /\ returned' = "error"
             /\ stack'[i].phase # "apply"
  <2>1. i \in DOMAIN stack /\ i # Len(stack) /\ stack'[i] = stack[i] /\ Guarding(stack[i])
    BY <1>2, <1>3
  <2>2. CASE Top.phase # "begin" \/ Top.stmt.op # "RAISE" \/ returned # "none"
    BY <2>1, <2>2, NoneWaits
  <2>3. CASE Top.phase = "begin" /\ Top.stmt.op = "RAISE" /\ returned = "none"
    <3>1. stack[i].phase = "BEFORE" /\ stack[i].prev # MaxDepth => i = Len(stack) - 1
      BY <2>1 DEF GuardKept
    <3>2. stack[i].phase # "apply"
      <4>1. i \in 1 .. Len(stack) - 1
        BY <1>1, <1>2, <2>1, LastOrBefore DEF LevelsCounted, StackTyped
      <4> QED
        BY <1>1, <4>1 DEF LevelsCounted, Timings
    <3> QED
      BY <1>2, <2>1, <2>3, <3>1, <3>2
  <2> QED
    BY <2>2, <2>3
<1> QED
  BY <1>3 DEF GuardKept, Guarding, Guard

LEMMA GuardEntered ==
    ASSUME GuardKept, Typed', stack # <<>>, Top.stmt.op # "RAISE", returned' = "none",
           NEW timing \in Timings, NEW found, NEW new, Enter(TopWith(found, new), timing)
    PROVE  GuardKept'
<1>1. LevelsCounted /\ depth \in 0 .. MaxDepth /\ MaxDepth \in Nat
  BY ForeignKeysAssumption DEF GuardKept, Typed, LevelsCounted
<1> DEFINE bodies == Bodies[<<Top.stmt.table, timing, Top.stmt.op>>]
           todo == IF depth < MaxDepth THEN bodies ELSE <<>>
           f == [TopWith(found, new) EXCEPT !.phase = timing, !.prev = depth, !.todo = todo]
<1>2. f.stmt = Top.stmt /\ f.phase = timing /\ f.prev = depth /\ f.todo = todo
  BY <1>1, TopTyped
<1>3. stack' = Front(stack) \o <<f>>
  <2>1. TopWith(found, new).stmt = Top.stmt
    BY <1>1, TopTyped
  <2> QED
    BY <2>1 DEF Enter, SetTop
<1>4. Guarding(f) => /\ f.phase = "BEFORE" /\ f.prev # MaxDepth => returned' = "none" /\ f.todo = Guard(f)
                     /\ f.phase # "apply"
  <2>1. f.prev # MaxDepth => depth < MaxDepth
    BY <1>1, <1>2
  <2> HIDE DEF f
  <2> QED
    BY <1>2, <2>1 DEF Guarding, Guard, Timings
<1> HIDE DEF f
<1> QED
  BY <1>3, <1>4, GuardTopSet

LEMMA GuardEnteredHere ==
    ASSUME GuardKept, Typed', stack # <<>>, Top.stmt.op # "RAISE", returned' = "none",
           \/ Enter(Top, "BEFORE")
           \/ \E found : Enter([Top EXCEPT !.found = found], "BEFORE")
           \/ \E new : Enter([Top EXCEPT !.new = new], "AFTER")
    PROVE  GuardKept'
<1>1. /\ Top = TopWith(Top.found, Top.new) /\ "BEFORE" \in Timings /\ "AFTER" \in Timings
      /\ \A found : [Top EXCEPT !.found = found] = TopWith(found, Top.new)
      /\ \A new : [Top EXCEPT !.new = new] = TopWith(Top.found, new)
  BY TopTyped DEF GuardKept, Typed, Timings
<1>2. ASSUME NEW found, NEW new, NEW timing \in Timings, Enter(TopWith(found, new), timing) PROVE GuardKept'
  BY <1>2, GuardEntered
<1>3. CASE Enter(Top, "BEFORE")
  <2>1. Enter(TopWith(Top.found, Top.new), "BEFORE")
    BY <1>1, <1>3
  <2> QED
    BY <1>1, <1>2, <2>1
<1>4. ASSUME NEW found, Enter([Top EXCEPT !.found = found], "BEFORE") PROVE GuardKept'
  <2>1. Enter(TopWith(found, Top.new), "BEFORE")
    BY <1>1, <1>4
  <2> QED
    BY <1>1, <1>2, <2>1
<1>5. ASSUME NEW new, Enter([Top EXCEPT !.new = new], "AFTER") PROVE GuardKept'
  <2>1. Enter(TopWith(Top.found, new), "AFTER")
    BY <1>1, <1>5
  <2> QED
    BY <1>1, <1>2, <2>1
<1> QED
  BY <1>3, <1>4, <1>5

LEMMA GuardBody ==
    ASSUME GuardKept, Typed', RunBody
    PROVE  GuardKept'
<1>1. /\ LevelsCounted /\ stack # <<>> /\ Top.todo # <<>> /\ Top.phase \in Timings /\ returned = "none" /\ returned' = "none"
      /\ depth' = depth
  BY DEF RunBody, InTrigger, InPhase, GuardKept, Typed, Timings
<1>2. FrameTyped(Top) /\ Len(stack) \in DOMAIN stack /\ Top = stack[Len(stack)]
  BY <1>1, TypedTop DEF GuardKept
<1> DEFINE body == Head(Top.todo)
           sub == Substituted(body, Top.new)
           f == [Top EXCEPT !.todo = Tail(@)]
           g == Frame(sub)
<1>3. f.stmt = Top.stmt /\ f.phase = Top.phase /\ f.prev = Top.prev /\ g.stmt = sub /\ g.phase = "begin"
  BY <1>1, TopTyped DEF Frame
<1>4. Guarding(Top) /\ Top.phase = "BEFORE" /\ Top.prev # MaxDepth => sub.op = "RAISE"
  <2> SUFFICES ASSUME Guarding(Top), Top.phase = "BEFORE", Top.prev # MaxDepth PROVE sub.op = "RAISE"
    OBVIOUS
  <2>1. Top.todo = Guard(Top)
    BY <1>1, <1>2 DEF GuardKept
  <2>2. Top.stmt.table \in Tables
    BY <1>2, Fields DEF FrameTyped, Guarding
  <2>3. body.op = "RAISE"
    BY <2>1, <2>2, GuardRaises DEF Guarding, Guard
  <2> QED
    BY <2>3, <1>2 DEF Substituted
<1>5. stack' = Front(stack) \o <<f, g>>
  BY DEF RunBody
<1> HIDE DEF f, g, sub
<1>6. /\ Len(stack) \in Nat \ {0} /\ Len(stack') = Len(stack) + 1 /\ Top' = g
      /\ DOMAIN stack = 1 .. Len(stack) /\ DOMAIN stack' = 1 .. Len(stack) + 1
      /\ \A i \in DOMAIN stack' : stack'[i] = IF i = Len(stack) + 1 THEN g ELSE IF i = Len(stack) THEN f ELSE stack[i]
  BY <1>1, <1>5, TopPushed
<1>7. ASSUME NEW i \in DOMAIN stack', Guarding(stack'[i])
      PROVE  /\ stack'[i].phase = "BEFORE" /\ stack'[i].prev # MaxDepth =>
                  i = Len(stack') - 1 /\ Top'.stmt.op = "RAISE" /\ Top'.phase = "begin"
             /\ stack'[i].phase # "apply"
  <2>1. CASE i = Len(stack) + 1
    BY <1>3, <1>6, <2>1
  <2>2. CASE i = Len(stack)
    <3>1. stack'[i] = f /\ i = Len(stack') - 1
      BY <1>6, <2>2
    <3>2. Guarding(Top)
      BY <1>3, <1>7, <3>1 DEF Guarding
    <3> QED
      BY <1>1, <1>3, <1>4, <1>6, <3>1, <3>2 DEF Timings
  <2>3. CASE i # Len(stack) /\ i # Len(stack) + 1
    <3>1. i \in DOMAIN stack /\ stack'[i] = stack[i] /\ Guarding(stack[i])
      BY <1>6, <1>7, <2>3
    <3>2. Top.phase # "begin"
      BY <1>1 DEF Timings
    <3> QED
      BY <1>1, <2>3, <3>1, <3>2, NoneWaits
  <2> QED
    BY <2>1, <2>2, <2>3
<1> QED
  BY <1>1, <1>7 DEF GuardKept, Guarding, Guard

LEMMA GuardStep == GuardKept /\ [Next]_vars => GuardKept'
<1> SUFFICES ASSUME GuardKept, [Next]_vars PROVE GuardKept'
  OBVIOUS
<1>0. Typed /\ Typed' /\ LevelsCounted
  BY TypedStep DEF GuardKept, Typed
<1>1. ASSUME NEW s \in ClientStmts, Call(s) PROVE GuardKept'
  <2>1. stack' = <<Frame(s)>>
    BY <1>1 DEF Call
  <2>2. \A i \in DOMAIN stack' : stack'[i].phase = "begin"
    BY <2>1 DEF Frame
  <2> QED
    BY <1>0, <2>2 DEF GuardKept
<1>2. CASE Raise \/ Refused \/ LeaveAfter
  <2>1. /\ stack # <<>> /\ stack' = Front(stack)
        /\ Top.phase # "begin" \/ returned' = "error"
    BY <1>2 DEF Raise, Refused, LeaveAfter, InPhase, BodyEnded, Return
  <2> QED
    BY <1>0, <2>1, GuardLeft
<1>3. CASE BeginInsert \/ BeginDelete \/ BeginUpdate
  <2>1. /\ stack # <<>> /\ Top.stmt.op # "RAISE" /\ "BEFORE" \in Timings
        /\ \/ stack' = Front(stack)
           \/ returned' = "none" /\ Enter(Top, "BEFORE")
           \/ returned' = "none" /\ \E found : Enter([Top EXCEPT !.found = found], "BEFORE")
    <3>1. CASE BeginInsert
      BY <3>1 DEF BeginInsert, InPhase, Is, Timings
    <3>2. CASE BeginDelete
      BY <3>2 DEF BeginDelete, InPhase, Is, Timings, Return
    <3>3. CASE BeginUpdate
      BY <3>3 DEF BeginUpdate, InPhase, Is, Timings, Return
    <3> QED
      BY <1>3, <3>1, <3>2, <3>3
  <2> QED
    BY <1>0, <2>1, GuardLeft, GuardEnteredHere
<1>4. CASE RunBody
  BY <1>0, <1>4, GuardBody
<1>5. CASE BodyDone
  <2>1. /\ stack # <<>> /\ returned # "none" /\ UNCHANGED <<stack, depth>>
        /\ Top.phase = "BEFORE" => returned # "error"
    BY <1>5 DEF BodyDone, BodyEnded
  <2>2. Len(stack) \in DOMAIN stack /\ Top = stack[Len(stack)]
    BY <1>0, <2>1, TypedTop
  <2>3. ASSUME NEW i \in DOMAIN stack, Guarding(stack[i])
        PROVE  ~(stack[i].phase = "BEFORE" /\ stack[i].prev # MaxDepth)
    BY <2>1, <2>2, <2>3 DEF GuardKept
  <2> QED
    BY <1>0, <2>1, <2>3 DEF GuardKept, Guarding, Guard
<1>6. CASE LeaveBefore
  <2> DEFINE f == [Top EXCEPT !.phase = "apply"]
  <2>1. /\ stack # <<>> /\ stack' = Front(stack) \o <<f>> /\ Top.phase = "BEFORE" /\ Top.todo = <<>>
        /\ returned = "none" /\ depth' = Top.prev
    BY <1>6 DEF LeaveBefore, InPhase, SetTop
  <2>2. f.stmt = Top.stmt /\ f.phase = "apply"
    BY <1>0, <2>1, TopTyped
  <2>3. FrameTyped(Top) /\ Len(stack) \in DOMAIN stack /\ Top = stack[Len(stack)]
    BY <1>0, <2>1, TypedTop
  <2>4. Guarding(Top) => Top.prev = MaxDepth
    <3> SUFFICES ASSUME Guarding(Top), Top.prev # MaxDepth PROVE FALSE
      OBVIOUS
    <3>1. Top.todo = Guard(Top)
      BY <2>1, <2>3 DEF GuardKept
    <3>2. Top.stmt.table \in Tables
      BY <2>3, Fields DEF FrameTyped, Guarding
    <3> QED
      BY <2>1, <3>1, <3>2, GuardRaises DEF Guarding, Guard
  <2>5. Guarding(f) => depth' = MaxDepth
    BY <2>1, <2>2, <2>4 DEF Guarding
  <2> HIDE DEF f
  <2> QED
    BY <1>0, <2>1, <2>2, <2>5, GuardTopSet
<1>7. CASE ApplyInsert \/ ApplyDelete \/ ApplyUpdate
  <2>1. /\ stack # <<>> /\ Top.phase # "begin" /\ Top.stmt.op # "RAISE" /\ "AFTER" \in Timings
        /\ \/ stack' = Front(stack)
           \/ returned' = "none" /\ \E new : Enter([Top EXCEPT !.new = new], "AFTER")
    <3>1. CASE ApplyInsert
      BY <3>1 DEF ApplyInsert, InPhase, Is, Applied, Timings, Return
    <3>2. CASE ApplyDelete
      BY <3>2 DEF ApplyDelete, InPhase, Is, Applied, Timings, Return
    <3>3. CASE ApplyUpdate
      BY <3>3 DEF ApplyUpdate, InPhase, Is, Applied, Timings, Return
    <3> QED
      BY <1>7, <3>1, <3>2, <3>3
  <2> QED
    BY <1>0, <2>1, GuardLeft, GuardEnteredHere
<1>8. CASE UpdatePanics
  <2>1. stack' = <<>>
    BY <1>8 DEF UpdatePanics
  <2> QED
    BY <1>0, <2>1 DEF GuardKept
<1>9. CASE UNCHANGED vars
  BY <1>0, <1>9 DEF vars, GuardKept, Top, Guarding, Guard
<1> QED
  BY <1>1, <1>2, <1>3, <1>4, <1>5, <1>6, <1>7, <1>8, <1>9 DEF Next, Step

-----------------------------------------------------------------------------
(* Which steps lengthen a table.                                           *)
LEMMA OnlyInsertsLengthen ==
    ASSUME Typed, Next, NEW t \in Tables, Len(rows'[t]) > Len(rows[t])
    PROVE  ApplyInsert /\ t = Top.stmt.table
<1>1. StoreTyped /\ rows[t] \in Seq(Row) /\ Len(rows[t]) \in Nat
  BY KeysTyped DEF Typed
<1>2. ~(Len(rows[t]) > Len(rows[t]))
  BY <1>1
<1>3. ~ UNCHANGED rows
  BY <1>2
<1>4. ~ BeginDelete
  <2> SUFFICES ASSUME BeginDelete PROVE Len(rows'[t]) <= Len(rows[t]) /\ Len(rows'[t]) \in Nat
    BY <1>1
  <2> DEFINE gone == Ids(Top.stmt.table) \cap Top.stmt.ids
  <2>1. rows'[t] = IF t \in Reached(Top.stmt.table, gone) THEN Cascade(t, gone).rows ELSE rows[t]
    BY DEF BeginDelete, Cascaded
  <2> HIDE DEF gone
  <2>2. CASE OnDelete[t] = "CASCADE" /\ Orphans(t, gone) # {}
    <3>1. Cascade(t, gone).rows = Without(rows[t], OrphanIds(t, gone))
      BY <2>2 DEF Cascade, CascadeDelete
    <3>2. \A ids : Without(rows[t], ids) \in Seq(Row) /\ Len(Without(rows[t], ids)) <= Len(rows[t])
      BY <1>1, Stayed
    <3>3. \A ids : Len(Without(rows[t], ids)) \in Nat
      BY <3>2
    <3> QED
      BY <1>1, <2>1, <3>1, <3>2, <3>3
  <2>3. CASE OnDelete[t] = "SET NULL"
    <3>1. Cascade(t, gone) = WriteRefs(t, gone, None) /\ None \in Refs
      BY <2>3 DEF Cascade, Refs
    <3> QED
      BY <1>1, <2>1, <3>1, Written
  <2>4. CASE OnDelete[t] # "SET NULL" /\ ~(OnDelete[t] = "CASCADE" /\ Orphans(t, gone) # {})
    <3>1. Cascade(t, gone).rows = rows[t]
      BY <2>4 DEF Cascade
    <3>2. rows'[t] = rows[t]
      BY <2>1, <3>1
    <3> QED
      BY <1>1, <3>2
  <2> QED
    BY <2>2, <2>3, <2>4
<1>5. ~ BeginUpdate
  <2> SUFFICES ASSUME BeginUpdate PROVE Len(rows'[t]) = Len(rows[t])
    BY <1>1
  <2> DEFINE s == Top.stmt
  <2>1. stack # <<>> /\ s.op = "UPDATE"
    BY DEF BeginUpdate, InPhase, Is
  <2>2. s.col = "id" => s.val \in Refs
    BY <2>1, TypedTop, Fields DEF FrameTyped, Refs
  <2>3. \/ rows' = rows
        \/ s.col = "id" /\ rows' = Requeued(s)
    BY DEF BeginUpdate
  <2> QED
    BY <1>1, <2>2, <2>3, Written DEF Requeued
<1>6. ~ ApplyDelete
  <2> SUFFICES ASSUME ApplyDelete PROVE Len(rows'[t]) <= Len(rows[t]) /\ Len(rows'[t]) \in Nat
    BY <1>1
  <2>1. rows' = [rows EXCEPT ![Top.stmt.table] = Without(rows[Top.stmt.table], Top.stmt.ids)]
    BY DEF ApplyDelete, Applied
  <2>2. rows'[t] = rows[t] \/ rows'[t] = Without(rows[t], Top.stmt.ids)
    BY <1>1, <2>1 DEF StoreTyped
  <2>3. \A ids : Without(rows[t], ids) \in Seq(Row) /\ Len(Without(rows[t], ids)) <= Len(rows[t])
    BY <1>1, Stayed
  <2>4. \A ids : Len(Without(rows[t], ids)) \in Nat
    BY <2>3
  <2> QED
    BY <1>1, <2>2, <2>3, <2>4
<1>7. ~ ApplyUpdate
  <2> SUFFICES ASSUME ApplyUpdate PROVE Len(rows'[t]) = Len(rows[t])
    BY <1>1
  <2> DEFINE w == [i \in DOMAIN rows[t] |-> IF i \in Top.found THEN [rows[t][i] EXCEPT ![Top.stmt.col] = Top.stmt.val] ELSE rows[t][i]]
  <2>1. rows'[t] = rows[t] \/ rows'[t] = w
    BY <1>1 DEF ApplyUpdate, Applied, StoreTyped
  <2>2. DOMAIN w = 1 .. Len(rows[t])
    BY <1>1
  <2> HIDE DEF w
  <2>3. Len(w) = Len(rows[t])
    BY <1>1, <2>2
  <2> QED
    BY <2>1, <2>3
<1>8. ApplyInsert
  BY <1>3, <1>4, <1>5, <1>6, <1>7 DEF Next, Step, Call, Raise, BeginInsert, RunBody, Refused, BodyDone,
     LeaveBefore, LeaveAfter, UpdatePanics
<1>9. rows' = rows \/ \E rs : rows' = [rows EXCEPT ![Top.stmt.table] = rs]
  BY <1>8 DEF ApplyInsert, Applied
<1>10. t # Top.stmt.table => rows'[t] = rows[t]
  BY <1>1, <1>9 DEF StoreTyped
<1> QED
  BY <1>2, <1>8, <1>10

(* A BEFORE INSERT trigger that raises keeps rows out of its table, on     *)
(* every path: clients, bodies, conflict clauses, errors that are printed  *)
(* and forgotten.  Only at MAX_DEPTH, where fire_triggers_before returns   *)
(* without running a body, can a row come in.                              *)
THEOREM GuardsHold == Spec => GuardHolds
<1>1. Init => GuardKept
  BY InitTyped DEF GuardKept
<1>2. ASSUME GuardKept, Next, NEW t \in Tables, Guarded(t), Len(rows'[t]) > Len(rows[t]) PROVE depth = MaxDepth
  <2>1. ApplyInsert /\ t = Top.stmt.table
    BY <1>2, OnlyInsertsLengthen DEF GuardKept
  <2>2. stack # <<>> /\ Top.phase = "apply" /\ Guarding(Top)
    BY <1>2, <2>1 DEF ApplyInsert, InPhase, Is, Guarding
  <2>3. Len(stack) \in DOMAIN stack /\ Top = stack[Len(stack)]
    BY <2>2, <1>2, TypedTop DEF GuardKept
  <2> QED
    BY <2>2, <2>3, <1>2 DEF GuardKept
<1>3. GuardKept /\ [Next]_vars => [\A t \in Tables : Guarded(t) /\ Len(rows'[t]) > Len(rows[t]) => depth = MaxDepth]_vars
  BY <1>2
<1> QED
  BY <1>1, <1>3, GuardStep, PTL DEF Spec, GuardHolds

-----------------------------------------------------------------------------
(* Where statements come from: the outermost is a client's, the others are *)
(* bodies.                                                                 *)

FromBody(s) == \E body \in BodyTexts, new \in Nat \cup {None} : s = Substituted(body, new)
Ran == /\ Typed
       /\ \A i \in DOMAIN stack : IF i = 1 THEN stack[i].stmt \in ClientStmts ELSE FromBody(stack[i].stmt)

LEMMA StatementsStay ==
    ASSUME Typed, NEW f, stack # <<>>,
           \/ stack' = Front(stack)
           \/ stack' = <<>>
           \/ stack' = Front(stack) \o <<f>> /\ f.stmt = Top.stmt
    PROVE  \A i \in DOMAIN stack' : i \in DOMAIN stack /\ stack'[i].stmt = stack[i].stmt
<1>1. LevelsCounted
  BY DEF Typed
<1>2. CASE stack' = Front(stack)
  BY <1>1, <1>2, TopPopped
<1>3. CASE stack' = <<>>
  BY <1>3
<1>4. CASE stack' = Front(stack) \o <<f>> /\ f.stmt = Top.stmt
  BY <1>1, <1>4, TopSet
<1> QED
  BY <1>2, <1>3, <1>4

\* What Enter puts on top.
EntersWith(timing, found) ==
    \E f : /\ stack' = Front(stack) \o <<f>>
           /\ f.stmt = Top.stmt /\ f.found = found /\ f.phase = timing /\ f.prev = depth
           /\ f.todo = IF depth < MaxDepth THEN Bodies[<<Top.stmt.table, timing, Top.stmt.op>>] ELSE <<>>

LEMMA Entered ==
    ASSUME Typed, stack # <<>>, NEW timing
    PROVE  /\ \A found : Enter([Top EXCEPT !.found = found], timing) => EntersWith(timing, found)
           /\ Enter(Top, timing) => EntersWith(timing, Top.found)
           /\ \A new : Enter([Top EXCEPT !.new = new], timing) => EntersWith(timing, Top.found)
<1>1. LevelsCounted
  BY DEF Typed
<1>2. /\ Top = TopWith(Top.found, Top.new)
      /\ \A found : [Top EXCEPT !.found = found] = TopWith(found, Top.new)
      /\ \A new : [Top EXCEPT !.new = new] = TopWith(Top.found, new)
  BY <1>1, TopTyped
<1>3. ASSUME NEW found, NEW new, Enter(TopWith(found, new), timing) PROVE EntersWith(timing, found)
  <2> DEFINE todo == IF depth < MaxDepth THEN Bodies[<<Top.stmt.table, timing, Top.stmt.op>>] ELSE <<>>
             f == [TopWith(found, new) EXCEPT !.phase = timing, !.prev = depth, !.todo = todo]
  <2>1. f.stmt = Top.stmt /\ f.found = found /\ f.phase = timing /\ f.prev = depth /\ f.todo = todo
    BY <1>1, TopTyped
  <2>2. TopWith(found, new).stmt = Top.stmt
    BY <1>1, TopTyped
  <2>3. stack' = Front(stack) \o <<f>>
    BY <1>3, <2>2 DEF Enter, SetTop
  <2> HIDE DEF f
  <2> QED
    BY <2>1, <2>3 DEF EntersWith
<1>4. ASSUME NEW found, Enter([Top EXCEPT !.found = found], timing) PROVE EntersWith(timing, found)
  <2>1. Enter(TopWith(found, Top.new), timing)
    BY <1>2, <1>4
  <2> QED
    BY <1>3, <2>1
<1>5. ASSUME Enter(Top, timing) PROVE EntersWith(timing, Top.found)
  <2>1. Enter(TopWith(Top.found, Top.new), timing)
    BY <1>2, <1>5
  <2> QED
    BY <1>3, <2>1
<1>6. ASSUME NEW new, Enter([Top EXCEPT !.new = new], timing) PROVE EntersWith(timing, Top.found)
  <2>1. Enter(TopWith(Top.found, new), timing)
    BY <1>2, <1>6
  <2> QED
    BY <1>3, <2>1
<1> QED
  BY <1>4, <1>5, <1>6

\* What LeaveBefore puts on top.
LEMMA LeftBefore ==
    ASSUME Typed, LeaveBefore
    PROVE  \E f : /\ stack # <<>> /\ stack' = Front(stack) \o <<f>>
                  /\ f.stmt = Top.stmt /\ f.found = Top.found /\ f.phase = "apply" /\ f.todo = <<>>
<1> DEFINE f == [Top EXCEPT !.phase = "apply"]
<1>1. stack # <<>> /\ stack' = Front(stack) \o <<f>> /\ Top.todo = <<>>
  BY DEF LeaveBefore, InPhase, SetTop
<1>2. f.stmt = Top.stmt /\ f.found = Top.found /\ f.phase = "apply" /\ f.todo = <<>>
  <2>1. PICK S, F : stack \in Seq(Frames(S, F))
    BY DEF Typed, LevelsCounted, StackTyped
  <2>2. Top \in Frames(S, F)
    BY <1>1, <2>1, Popped DEF Top
  <2> QED
    BY <1>1, <2>2 DEF Frames
<1> HIDE DEF f
<1> QED
  BY <1>1, <1>2

\* What RunBody puts on top.
LEMMA BodyRun ==
    ASSUME Typed, RunBody
    PROVE  /\ stack # <<>> /\ Len(stack) \in Nat \ {0} /\ Len(stack') = Len(stack) + 1 /\ Top = stack[Len(stack)]
           /\ DOMAIN stack = 1 .. Len(stack) /\ DOMAIN stack' = 1 .. Len(stack) + 1
           /\ \A i \in DOMAIN stack : /\ stack'[i].stmt = stack[i].stmt /\ stack'[i].phase = stack[i].phase
                                      /\ stack'[i].found = stack[i].found
                                      /\ stack'[i].todo = IF i = Len(stack) THEN Tail(Top.todo) ELSE stack[i].todo
           /\ stack'[Len(stack) + 1].phase = "begin" /\ stack'[Len(stack) + 1].todo = <<>>
           /\ Top.todo # <<>> /\ Head(Top.todo) \in BodyTexts
           /\ stack'[Len(stack) + 1].stmt = Substituted(Head(Top.todo), Top.new)
           /\ \E body \in BodyTexts : stack'[Len(stack) + 1].stmt = Substituted(body, Top.new)
           /\ Top' = stack'[Len(stack) + 1]
<1>1. LevelsCounted /\ stack # <<>> /\ Top.todo # <<>>
  BY DEF RunBody, InTrigger, InPhase, Typed
<1>2. FrameTyped(Top)
  BY <1>1, TypedTop
<1> DEFINE body == Head(Top.todo)
           sub == Substituted(body, Top.new)
           f == [Top EXCEPT !.todo = Tail(@)]
           g == Frame(sub)
<1>3. /\ f.stmt = Top.stmt /\ f.phase = Top.phase /\ f.found = Top.found /\ f.todo = Tail(Top.todo)
      /\ g.stmt = sub /\ g.phase = "begin" /\ g.todo = <<>>
  <2>1. PICK S, F : stack \in Seq(Frames(S, F))
    BY <1>1 DEF LevelsCounted, StackTyped
  <2>2. Top \in Frames(S, F)
    BY <1>1, <2>1, Popped DEF Top
  <2> QED
    BY <2>2 DEF Frames, Frame
<1>4. body \in BodyTexts
  BY <1>1, TopTyped
<1>5. stack' = Front(stack) \o <<f, g>>
  BY DEF RunBody
<1> HIDE DEF f, g, sub
<1>6. /\ Len(stack) \in Nat \ {0} /\ Len(stack') = Len(stack) + 1 /\ Top' = g
      /\ DOMAIN stack = 1 .. Len(stack) /\ DOMAIN stack' = 1 .. Len(stack) + 1 /\ Top = stack[Len(stack)]
      /\ \A i \in DOMAIN stack' : stack'[i] = IF i = Len(stack) + 1 THEN g ELSE IF i = Len(stack) THEN f ELSE stack[i]
  BY <1>1, <1>5, TopPushed
<1>7. /\ \A i \in 1 .. Len(stack) : i \in 1 .. Len(stack) + 1 /\ i # Len(stack) + 1
      /\ Len(stack) + 1 \in 1 .. Len(stack) + 1
  BY <1>6
<1>8. stack'[Len(stack) + 1] = g
  BY <1>6, <1>7
<1>9. \A i \in DOMAIN stack : /\ stack'[i].stmt = stack[i].stmt /\ stack'[i].phase = stack[i].phase
                              /\ stack'[i].found = stack[i].found
                              /\ stack'[i].todo = IF i = Len(stack) THEN Tail(Top.todo) ELSE stack[i].todo
  BY <1>3, <1>6, <1>7
<1> QED
  BY <1>1, <1>3, <1>4, <1>6, <1>8, <1>9 DEF sub

\* What a step can do to the stack.
StackMoves ==
    \/ stack' \in {stack, <<>>, Front(stack)}
    \/ \E timing \in Timings : \E found : Top.stmt.op # "RAISE" /\ EntersWith(timing, found)
    \/ \E f : /\ stack' = Front(stack) \o <<f>>
              /\ f.stmt = Top.stmt /\ f.found = Top.found /\ f.phase = "apply" /\ f.todo = <<>>
    \/ RunBody

LEMMA StackMoved == Typed /\ Step => stack # <<>> /\ StackMoves
<1> SUFFICES ASSUME Typed, Step PROVE stack # <<>> /\ StackMoves
  OBVIOUS
<1>1. CASE Raise \/ Refused \/ LeaveAfter \/ UpdatePanics
  BY <1>1 DEF Raise, Refused, LeaveAfter, UpdatePanics, InPhase, BodyEnded, Return, StackMoves
<1>2. CASE BeginInsert \/ BeginDelete \/ BeginUpdate \/ ApplyInsert \/ ApplyDelete \/ ApplyUpdate
  <2>1. /\ stack # <<>> /\ Top.stmt.op # "RAISE"
        /\ \/ stack' = Front(stack)
           \/ Enter(Top, "BEFORE")
           \/ \E new : Enter([Top EXCEPT !.new = new], "AFTER")
           \/ \E found : Enter([Top EXCEPT !.found = found], "BEFORE")
    <3>1. CASE BeginInsert
      BY <3>1 DEF BeginInsert, InPhase, Is, Timings
    <3>2. CASE BeginDelete
      BY <3>2 DEF BeginDelete, InPhase, Return, Is, Timings
    <3>3. CASE BeginUpdate
      BY <3>3 DEF BeginUpdate, InPhase, Return, Is, Timings
    <3>4. CASE ApplyInsert
      BY <3>4 DEF ApplyInsert, InPhase, Applied, Return, Is, Timings
    <3>5. CASE ApplyDelete
      BY <3>5 DEF ApplyDelete, InPhase, Applied, Return, Is, Timings
    <3>6. CASE ApplyUpdate
      BY <3>6 DEF ApplyUpdate, InPhase, Applied, Return, Is, Timings
    <3> QED
      BY <1>2, <3>1, <3>2, <3>3, <3>4, <3>5, <3>6
  <2>2. stack' = Front(stack) \/ \E timing \in Timings : \E found : EntersWith(timing, found)
    BY <2>1, Entered DEF Timings
  <2> QED
    BY <2>1, <2>2 DEF StackMoves
<1>3. CASE RunBody
  BY <1>3 DEF RunBody, InTrigger, InPhase, StackMoves
<1>4. CASE BodyDone
  BY <1>4 DEF BodyDone, BodyEnded, StackMoves
<1>5. CASE LeaveBefore
  BY <1>5, LeftBefore DEF StackMoves
<1> QED
  BY <1>1, <1>2, <1>3, <1>4, <1>5 DEF Step

LEMMA RanStep == Ran /\ [Next]_vars => Ran'
<1> SUFFICES ASSUME Ran, [Next]_vars PROVE Ran'
  OBVIOUS
<1>0. Typed /\ Typed'
  BY TypedStep DEF Ran
<1>1. ASSUME NEW s \in ClientStmts, Call(s) PROVE Ran'
  <2>1. stack' = <<Frame(s)>>
    BY <1>1 DEF Call
  <2>2. DOMAIN stack' = {1} /\ stack'[1].stmt = s
    BY <2>1 DEF Frame
  <2> QED
    BY <1>0, <2>2 DEF Ran
<1>2. ASSUME \A i \in DOMAIN stack' : i \in DOMAIN stack /\ stack'[i].stmt = stack[i].stmt PROVE Ran'
  BY <1>0, <1>2 DEF Ran
<1>3. ASSUME Step, ~RunBody PROVE Ran'
  <2>1. stack # <<>> /\ StackMoves
    BY <1>0, <1>3, StackMoved
  <2>2. \/ stack' \in {stack, <<>>, Front(stack)}
        \/ \E f : stack' = Front(stack) \o <<f>> /\ f.stmt = Top.stmt
    BY <1>3, <2>1 DEF StackMoves, EntersWith
  <2>3. CASE stack' = stack
    BY <1>2, <2>3
  <2> QED
    BY <1>0, <1>2, <2>1, <2>2, <2>3, StatementsStay
<1>4. CASE RunBody
  <2>1. /\ DOMAIN stack = 1 .. Len(stack) /\ DOMAIN stack' = 1 .. Len(stack) + 1 /\ Len(stack) \in Nat \ {0}
        /\ \A i \in DOMAIN stack : stack'[i].stmt = stack[i].stmt
        /\ \E body \in BodyTexts : stack'[Len(stack) + 1].stmt = Substituted(body, Top.new)
        /\ stack # <<>>
    BY <1>0, <1>4, BodyRun
  <2>2. FromBody(stack'[Len(stack) + 1].stmt)
    BY <1>0, <2>1, TypedTop DEF FrameTyped, FromBody
  <2>3. ASSUME NEW i \in DOMAIN stack', i # 1 PROVE FromBody(stack'[i].stmt)
    <3>1. i \in DOMAIN stack \/ i = Len(stack) + 1
      BY <2>1
    <3> QED
      BY <2>1, <2>2, <2>3, <3>1 DEF Ran
  <2>4. 1 \in DOMAIN stack
    BY <2>1
  <2>5. stack'[1].stmt \in ClientStmts
    BY <2>1, <2>4 DEF Ran
  <2> QED
    BY <1>0, <2>3, <2>5 DEF Ran
<1>5. CASE UNCHANGED vars
  BY <1>2, <1>5 DEF vars
<1> QED
  BY <1>1, <1>3, <1>4, <1>5 DEF Next

-----------------------------------------------------------------------------
(* The index on a referencing column.                                      *)

IndexKept == Ran /\ IndexAgrees

LEMMA BodiesTyped == \A body \in BodyTexts : body \in Statement(Names)
<1> SUFFICES ASSUME NEW body \in BodyTexts PROVE body \in Statement(Names)
  OBVIOUS
<1>1. PICK t \in Tables, timing \in Timings, event \in Events : body \in Range(Bodies[<<t, timing, event>>])
  BY DEF BodyTexts
<1>2. Bodies[<<t, timing, event>>] \in Seq(Statement(Names))
  BY ForeignKeysAssumption
<1>3. body \in Statement(Names)
  BY <1>1, <1>2 DEF Range
<1> QED
  BY <1>3

LEMMA SubstitutedSame ==
    ASSUME NEW body \in BodyTexts, NEW of
    PROVE  LET s == Substituted(body, of)
           IN  /\ s.op = body.op
               /\ s.table = body.table
               /\ s.op = "INSERT" => s.mode = body.mode /\ s.ref = body.ref /\ (s.mode = "upsert" => s.set = body.set)
               /\ s.op = "UPDATE" => s.col = body.col /\ s.val = body.val
               /\ s.op = "DELETE" => s.ids = body.ids
<1>1. body \in Statement(Names)
  BY BodiesTyped
<1> QED
  BY <1>1 DEF Substituted, Statement

LEMMA RunsWithoutReplace ==
    ASSUME WritesAreIndexed, Ran, NEW i \in DOMAIN stack
    PROVE  NoReplace(stack[i].stmt)
<1>1. CASE i = 1
  BY <1>1 DEF Ran, WritesAreIndexed
<1>2. CASE i # 1
  <2>1. PICK body \in BodyTexts, of \in Nat \cup {None} : stack[i].stmt = Substituted(body, of)
    BY <1>2 DEF Ran, FromBody
  <2>2. LET s == Substituted(body, of)
        IN  s.op = body.op /\ s.table = body.table /\ (s.op = "INSERT" => s.mode = body.mode)
    BY SubstitutedSame
  <2>3. NoReplace(body)
    BY DEF WritesAreIndexed
  <2> QED
    BY <2>1, <2>2, <2>3 DEF NoReplace
<1> QED
  BY <1>1, <1>2

LEMMA EntriesMoved ==
    ASSUME StoreTyped, NEW t \in Tables, index[t] = Entries(t, rows[t]),
           NEW at \in SUBSET DOMAIN rows[t], NEW v, NEW rs, DOMAIN rs = DOMAIN rows[t],
           \A i \in DOMAIN rs : rs[i].ref = IF i \in at THEN v ELSE rows[t][i].ref
    PROVE  Moved(t, at, v) = Entries(t, rs)
<1>1. CASE t \notin Indexed
  BY <1>1 DEF Moved, Added, Entries
<1>2. CASE t \in Indexed
  <2> DEFINE Entry(i, x) == [val |-> x, pos |-> i]
  <2>1. \A i, j, x, y : Entry(i, x) = Entry(j, y) => i = j /\ x = y
    OBVIOUS
  <2>2. /\ index[t] = {Entry(i, rows[t][i].ref) : i \in DOMAIN rows[t]}
        /\ Entries(t, rs) = {Entry(i, rs[i].ref) : i \in DOMAIN rows[t]}
        /\ Moved(t, at, v) = (index[t] \ {Entry(i, rows[t][i].ref) : i \in at}) \cup {Entry(i, v) : i \in at}
    BY <1>2 DEF Moved, Added, Entries
  <2> HIDE DEF Entry
  <2> QED
    BY <2>1, <2>2
<1> QED
  BY <1>1, <1>2

LEMMA EntriesAppended ==
    ASSUME NEW t \in Tables, NEW rs \in Seq(Row), NEW r \in Row
    PROVE  Entries(t, Append(rs, r)) = Entries(t, rs) \cup Added(t, {Len(rs) + 1}, r.ref)
<1>1. /\ DOMAIN Append(rs, r) = DOMAIN rs \cup {Len(rs) + 1} /\ Append(rs, r)[Len(rs) + 1] = r
      /\ \A i \in DOMAIN rs : Append(rs, r)[i] = rs[i]
  BY RowPut
<1> DEFINE app == Append(rs, r)
           n == Len(rs) + 1
<1>2. DOMAIN app = DOMAIN rs \cup {n} /\ app[n] = r /\ \A i \in DOMAIN rs : app[i] = rs[i]
  BY <1>1
<1> HIDE DEF app, n
<1>3. Entries(t, app) = Entries(t, rs) \cup Added(t, {n}, r.ref)
  BY <1>2 DEF Entries, Added
<1> QED
  BY <1>3 DEF app, n

LEMMA IndexBegun ==
    ASSUME WritesAreIndexed, IndexKept, BeginInsert \/ BeginDelete \/ BeginUpdate
    PROVE  IndexAgrees'
<1>1. /\ stack # <<>> /\ StoreTyped /\ Typed /\ FrameTyped(Top)
      /\ \A t \in Indexed : t \in Tables /\ index[t] = Entries(t, rows[t])
  BY TypedTop, ForeignKeysAssumption
     DEF BeginInsert, BeginDelete, BeginUpdate, InPhase, IndexKept, Ran, Typed, IndexAgrees
<1>2. CASE BeginInsert
  BY <1>1, <1>2 DEF BeginInsert, IndexAgrees
<1>3. CASE BeginDelete
  <2> DEFINE t == Top.stmt.table
             gone == Ids(t) \cap Top.stmt.ids
  <2>1. rows' = Cascaded(t, gone).rows /\ index' = Cascaded(t, gone).index
    BY <1>3 DEF BeginDelete
  <2>2. t \in Tables
    BY <1>1, <1>3, Fields DEF BeginDelete, Is, FrameTyped
  <2> HIDE DEF gone, t
  <2>3. ASSUME NEW c \in Indexed PROVE index'[c] = Entries(c, rows'[c])
    <3>1. /\ rows'[c] = IF c \in Reached(t, gone) THEN Cascade(c, gone).rows ELSE rows[c]
          /\ index'[c] = IF c \in Reached(t, gone) THEN Cascade(c, gone).index ELSE index[c]
      BY <1>1, <2>1 DEF Cascaded
    <3>2. CASE c \in Reached(t, gone)
      <4>1. OnDelete[c] # "SET NULL"
        BY <2>2, <3>2 DEF Reached, Children, WritesAreIndexed
      <4>2. Cascade(c, gone).index = Entries(c, Cascade(c, gone).rows)
        BY <1>1, <4>1 DEF Cascade, CascadeDelete
      <4> QED
        BY <3>1, <3>2, <4>2
    <3> QED
      BY <1>1, <3>1, <3>2
  <2> QED
    BY <2>3 DEF IndexAgrees
<1>4. CASE BeginUpdate
  <2> DEFINE s == Top.stmt
  <2>1. /\ s.table \in Tables
        /\ index' = index
        /\ rows' # rows => UpdateAllowed(s) /\ s.col = "id" /\ rows' = Requeued(s)
    BY <1>1, <1>4, Fields DEF BeginUpdate, Is, FrameTyped
  <2>2. ASSUME NEW c \in Indexed PROVE rows'[c] = rows[c]
    <3> SUFFICES ASSUME UpdateAllowed(s), s.col = "id", rows' = Requeued(s) PROVE rows'[c] = rows[c]
      BY <2>1
    <3>1. c \notin Referencing(s.table, OldKeys(s))
      BY <2>1 DEF UpdateAllowed, Referencing, Children, WritesAreIndexed
    <3> QED
      BY <1>1, <3>1 DEF Requeued
  <2> QED
    BY <1>1, <2>1, <2>2 DEF IndexAgrees
<1> QED
  BY <1>2, <1>3, <1>4

LEMMA IndexApplied ==
    ASSUME WritesAreIndexed, IndexKept, ApplyInsert \/ ApplyDelete \/ ApplyUpdate
    PROVE  IndexAgrees'
<1>1. /\ stack # <<>> /\ StoreTyped /\ Ran /\ Typed /\ FrameTyped(Top) /\ Top = stack[Len(stack)] /\ Len(stack) \in DOMAIN stack
      /\ \A t \in Indexed : t \in Tables /\ index[t] = Entries(t, rows[t])
  BY TypedTop, ForeignKeysAssumption
     DEF ApplyInsert, ApplyDelete, ApplyUpdate, InPhase, IndexKept, Ran, Typed, IndexAgrees
<1> DEFINE s == Top.stmt
           t == s.table
<1>2. t \in Tables /\ NoReplace(s)
  <2>1. s.op # "RAISE"
    BY DEF ApplyInsert, ApplyDelete, ApplyUpdate, Is
  <2> QED
    BY <1>1, <2>1, Fields, RunsWithoutReplace DEF FrameTyped
<1>3. /\ rows[t] \in Seq(Row) /\ Len(rows[t]) \in Nat /\ DOMAIN rows[t] = 1 .. Len(rows[t])
      /\ \A i \in DOMAIN rows[t] : rows[t][i] \in Row
  BY <1>1, <1>2, KeysTyped
<1>4. ASSUME NEW rs, NEW ix, NEW new, Applied(rs, ix, new), t \in Indexed => ix = Entries(t, rs) PROVE IndexAgrees'
  <2>1. rows' = [rows EXCEPT ![t] = rs] /\ index' = [index EXCEPT ![t] = ix]
    BY <1>4 DEF Applied
  <2> HIDE DEF t
  <2>2. ASSUME NEW u \in Indexed PROVE index'[u] = Entries(u, rows'[u])
    BY <1>1, <1>2, <1>4, <2>1 DEF StoreTyped
  <2> QED
    BY <2>2 DEF IndexAgrees
<1>5. CASE ApplyInsert
  <2> DEFINE row == [id |-> s.id, ref |-> s.ref]
             at  == Positions(t, s.id)
             m   == Max(at)
  <2>1. s.op = "INSERT" /\ s.ref \in Refs /\ (s.mode = "upsert" => s.set \in Refs)
    BY <1>1, <1>5, Fields DEF ApplyInsert, Is, FrameTyped
  <2>2. (~WrongType(s) => row \in Row) /\ row.ref = s.ref
    BY <2>1 DEF Row, WrongType
  <2>3. \/ UNCHANGED <<rows, index>>
        \/ /\ ~WrongType(s)
           /\ Applied(Append(rows[t], row), index[t] \cup Added(t, {Len(rows[t]) + 1}, s.ref), s.id)
        \/ Applied(rows[t], index[t], None)
        \/ s.mode = "replace" /\ Applied([rows[t] EXCEPT ![m] = row], index[t], s.id)
        \/ /\ at # {} /\ s.mode = "upsert"
           /\ Applied([rows[t] EXCEPT ![m].ref = s.set], Moved(t, {m}, s.set), None)
    BY <1>5 DEF ApplyInsert
  <2>4. at # {} => m \in DOMAIN rows[t]
    BY <1>1, <1>2, LastAt
  <2> HIDE DEF row, at, m
  <2>5. CASE UNCHANGED <<rows, index>>
    BY <1>1, <2>5 DEF IndexAgrees
  <2>6. CASE /\ ~WrongType(s)
             /\ Applied(Append(rows[t], row), index[t] \cup Added(t, {Len(rows[t]) + 1}, s.ref), s.id)
    <3> DEFINE rs == rows[t]
    <3>0. rs \in Seq(Row) /\ t \in Tables /\ row \in Row
      BY <1>2, <1>3, <2>2, <2>6
    <3>1. Entries(t, Append(rows[t], row)) = Entries(t, rows[t]) \cup Added(t, {Len(rows[t]) + 1}, row.ref)
      <4> HIDE DEF rs, t
      <4>1. Entries(t, Append(rs, row)) = Entries(t, rs) \cup Added(t, {Len(rs) + 1}, row.ref)
        BY <3>0, EntriesAppended
      <4> QED
        BY <4>1 DEF rs
    <3>2. t \in Indexed => index[t] \cup Added(t, {Len(rows[t]) + 1}, s.ref) = Entries(t, Append(rows[t], row))
      BY <1>1, <2>2, <3>1
    <3> QED
      BY <1>4, <2>6, <3>2
  <2>7. CASE Applied(rows[t], index[t], None)
    BY <1>1, <1>4, <2>7
  <2>8. CASE s.mode = "replace" /\ Applied([rows[t] EXCEPT ![m] = row], index[t], s.id)
    <3>1. t \notin Indexed
      BY <1>2, <2>1, <2>8 DEF NoReplace
    <3> QED
      BY <1>4, <2>8, <3>1
  <2>9. CASE at # {} /\ Applied([rows[t] EXCEPT ![m].ref = s.set], Moved(t, {m}, s.set), None)
    <3> DEFINE rs == [rows[t] EXCEPT ![m].ref = s.set]
    <3>1. DOMAIN rs = DOMAIN rows[t]
      OBVIOUS
    <3>2. ASSUME NEW i \in DOMAIN rs PROVE rs[i].ref = IF i \in {m} THEN s.set ELSE rows[t][i].ref
      BY <1>3 DEF Row
    <3>3. {m} \in SUBSET DOMAIN rows[t]
      BY <2>4, <2>9
    <3>4. Applied(rs, Moved(t, {m}, s.set), None)
      BY <2>9
    <3> HIDE DEF rs
    <3>5. t \in Indexed => Moved(t, {m}, s.set) = Entries(t, rs)
      BY <1>1, <1>2, <3>1, <3>2, <3>3, EntriesMoved
    <3> QED
      BY <1>4, <3>4, <3>5
  <2> QED
    BY <2>3, <2>5, <2>6, <2>7, <2>8, <2>9
<1>6. CASE ApplyDelete
  <2>1. Applied(Without(rows[t], s.ids), Entries(t, Without(rows[t], s.ids)), None)
    BY <1>6 DEF ApplyDelete
  <2> QED
    BY <1>4, <2>1
<1>7. CASE ApplyUpdate
  <2> DEFINE rs == [i \in DOMAIN rows[t] |-> IF i \in Top.found THEN [rows[t][i] EXCEPT ![s.col] = s.val] ELSE rows[t][i]]
             ix == IF s.col = "ref" THEN Moved(t, Top.found, s.val) ELSE index[t]
  <2>1. Applied(rs, ix, None) /\ Top.found \in SUBSET DOMAIN rows[t]
    BY <1>7 DEF ApplyUpdate
  <2>2. s.col \in {"id", "ref"}
    BY <1>1, <1>7, Fields DEF ApplyUpdate, Is, FrameTyped
  <2>3. DOMAIN rs = DOMAIN rows[t]
    OBVIOUS
  <2>4. ASSUME NEW i \in DOMAIN rs
        PROVE  rs[i].ref = IF s.col = "ref" /\ i \in Top.found THEN s.val ELSE rows[t][i].ref
    BY <1>3, <2>2 DEF Row
  <2>5. t \in Indexed => ix = Entries(t, rs)
    <3>1. CASE s.col = "ref"
      <4> HIDE DEF rs
      <4>1. \A i \in DOMAIN rs : rs[i].ref = IF i \in Top.found THEN s.val ELSE rows[t][i].ref
        BY <2>4, <3>1
      <4> QED
        BY <1>1, <1>2, <2>1, <2>3, <3>1, <4>1, EntriesMoved
    <3>2. CASE s.col # "ref"
      <4> HIDE DEF rs
      <4>1. \A i \in DOMAIN rs : rs[i].ref = rows[t][i].ref
        BY <2>4, <3>2
      <4>2. Entries(t, rs) = Entries(t, rows[t])
        BY <2>3, <4>1 DEF Entries
      <4> QED
        BY <1>1, <3>2, <4>2
    <3> QED
      BY <3>1, <3>2
  <2> HIDE DEF rs, ix
  <2> QED
    BY <1>4, <2>1, <2>5
<1> QED
  BY <1>5, <1>6, <1>7

(* The index on a referencing column lists every row under its present     *)
(* value and position: Table::delete rebuilds it, update_cell and append   *)
(* maintain it, and where nothing else writes, it stays exact.             *)
THEOREM IndexCorrect ==
    ASSUME WritesAreIndexed
    PROVE  Spec => []IndexAgrees
<1>1. Init => IndexKept
  <2> SUFFICES ASSUME Init PROVE IndexKept
    OBVIOUS
  <2>1. \A t \in Indexed : index[t] = {} /\ rows[t] = <<>>
    BY ForeignKeysAssumption DEF Init
  <2>2. IndexAgrees
    BY <2>1 DEF IndexAgrees, Entries
  <2> QED
    BY <2>2, InitTyped DEF Ran, IndexKept
<1>2. IndexKept /\ [Next]_vars => IndexKept'
  <2> SUFFICES ASSUME IndexKept, [Next]_vars PROVE IndexAgrees'
    BY RanStep DEF IndexKept
  <2>1. CASE BeginInsert \/ BeginDelete \/ BeginUpdate
    BY <2>1, IndexBegun
  <2>2. CASE ApplyInsert \/ ApplyDelete \/ ApplyUpdate
    BY <2>2, IndexApplied
  <2>3. CASE UNCHANGED <<rows, index>>
    BY <2>3 DEF IndexKept, IndexAgrees
  <2> QED
    BY <2>1, <2>2, <2>3 DEF Next, Step, Call, Raise, RunBody, Refused, BodyDone, LeaveBefore, LeaveAfter, UpdatePanics, vars
<1> QED
  BY <1>1, <1>2, PTL DEF Spec, IndexKept

-----------------------------------------------------------------------------
(* The keys and references of a table's rows, and what each way of writing *)
(* rows makes of them.                                                     *)

KeysOf(rs) == {rs[i].id : i \in DOMAIN rs}
RefsOf(rs) == {rs[i].ref : i \in DOMAIN rs}
At(rs, k) == {i \in DOMAIN rs : rs[i].id = k}

\* Every key stays where it is; keys may be added behind.
KeysStay(rs, new) == /\ KeysOf(rs) \subseteq KeysOf(new)
                     /\ \A k : At(rs, k) # {} => At(new, k) = At(rs, k)

LEMMA KeysAppended ==
    ASSUME NEW rs \in Seq(Row), NEW r \in Row, At(rs, r.id) = {}
    PROVE  KeysStay(rs, Append(rs, r)) /\ RefsOf(Append(rs, r)) \subseteq RefsOf(rs) \cup {r.ref}
<1> DEFINE app == Append(rs, r)
           n == Len(rs) + 1
<1>1. DOMAIN app = DOMAIN rs \cup {n} /\ app[n] = r /\ \A i \in DOMAIN rs : app[i] = rs[i]
  BY RowPut
<1> HIDE DEF app, n
<1>2. KeysOf(rs) \subseteq KeysOf(app) /\ RefsOf(app) \subseteq RefsOf(rs) \cup {r.ref}
  BY <1>1 DEF KeysOf, RefsOf
<1>3. ASSUME NEW k, At(rs, k) # {} PROVE At(app, k) = At(rs, k)
  <2>1. k # r.id
    BY <1>3
  <2> QED
    BY <1>1, <2>1 DEF At
<1> QED
  BY <1>2, <1>3 DEF KeysStay, app

LEMMA KeysPut ==
    ASSUME NEW rs \in Seq(Row), NEW m \in DOMAIN rs, NEW r \in Row, r.id = rs[m].id
    PROVE  /\ KeysStay(rs, [rs EXCEPT ![m] = r])
           /\ RefsOf([rs EXCEPT ![m] = r]) \subseteq RefsOf(rs) \cup {r.ref}
<1> DEFINE new == [rs EXCEPT ![m] = r]
<1>1. DOMAIN new = DOMAIN rs /\ \A i \in DOMAIN rs : new[i].id = rs[i].id /\ new[i].ref \in {rs[i].ref, r.ref}
  OBVIOUS
<1> HIDE DEF new
<1>2. KeysStay(rs, new) /\ RefsOf(new) \subseteq RefsOf(rs) \cup {r.ref}
  BY <1>1 DEF KeysStay, KeysOf, RefsOf, At
<1> QED
  BY <1>2 DEF new

LEMMA KeysWithout ==
    ASSUME NEW rs \in Seq(Row), NEW ids
    PROVE  /\ KeysOf(rs) \ ids \subseteq KeysOf(Without(rs, ids))
           /\ RefsOf(Without(rs, ids)) \subseteq RefsOf(rs)
           /\ \A ref \in RefsOf(Without(rs, ids)) : \E i \in DOMAIN rs : rs[i].ref = ref /\ rs[i].id \notin ids
<1> DEFINE kept == Without(rs, ids)
<1>1. /\ \A k \in DOMAIN kept : \E i \in DOMAIN rs : rs[i] = kept[k] /\ rs[i].id \notin ids
      /\ \A i \in DOMAIN rs : rs[i].id \notin ids => \E k \in DOMAIN kept : kept[k] = rs[i]
  BY Stayed
<1> HIDE DEF kept
<1>2. /\ KeysOf(rs) \ ids \subseteq KeysOf(kept)
      /\ RefsOf(kept) \subseteq RefsOf(rs)
      /\ \A ref \in RefsOf(kept) : \E i \in DOMAIN rs : rs[i].ref = ref /\ rs[i].id \notin ids
  BY <1>1 DEF KeysOf, RefsOf
<1> QED
  BY <1>2 DEF kept

\* update_cell at the positions found.
Set(rs, found, col, v) == [i \in DOMAIN rs |-> IF i \in found THEN [rs[i] EXCEPT ![col] = v] ELSE rs[i]]

LEMMA RefsSet ==
    ASSUME NEW rs \in Seq(Row), NEW found, NEW v
    PROVE  /\ KeysStay(rs, Set(rs, found, "ref", v))
           /\ found = {} => RefsOf(Set(rs, found, "ref", v)) \subseteq RefsOf(rs)
           /\ RefsOf(Set(rs, found, "ref", v)) \subseteq RefsOf(rs) \cup {v}
<1> DEFINE new == Set(rs, found, "ref", v)
<1>0. \A i \in DOMAIN rs : rs[i] \in Row
  OBVIOUS
<1>1. DOMAIN new = DOMAIN rs
  BY DEF Set
<1>2. ASSUME NEW i \in DOMAIN rs
      PROVE  new[i].id = rs[i].id /\ new[i].ref = IF i \in found THEN v ELSE rs[i].ref
  BY <1>0 DEF Set, Row
<1> HIDE DEF new
<1>3. KeysStay(rs, new) /\ RefsOf(new) \subseteq RefsOf(rs) \cup {v} /\ (found = {} => RefsOf(new) \subseteq RefsOf(rs))
  BY <1>1, <1>2 DEF KeysStay, KeysOf, RefsOf, At
<1> QED
  BY <1>3 DEF new

LEMMA KeysSet ==
    ASSUME NEW rs \in Seq(Row), NEW found, NEW v
    PROVE  /\ RefsOf(Set(rs, found, "id", v)) = RefsOf(rs)
           /\ found \subseteq DOMAIN rs /\ found # {} => v \in KeysOf(Set(rs, found, "id", v))
           /\ found = {} => Set(rs, found, "id", v) = rs
           /\ \A k : found = At(rs, k) => KeysOf(rs) \ {k} \subseteq KeysOf(Set(rs, found, "id", v))
<1> DEFINE new == Set(rs, found, "id", v)
<1>0. \A i \in DOMAIN rs : rs[i] \in Row
  OBVIOUS
<1>1. DOMAIN new = DOMAIN rs
  BY DEF Set
<1>2. ASSUME NEW i \in DOMAIN rs
      PROVE  new[i].ref = rs[i].ref /\ new[i].id = IF i \in found THEN v ELSE rs[i].id
  BY <1>0 DEF Set, Row
<1>3. found = {} => new = rs
  BY DEF Set
<1> HIDE DEF new
<1>4. /\ RefsOf(new) = RefsOf(rs)
      /\ found \subseteq DOMAIN rs /\ found # {} => v \in KeysOf(new)
      /\ \A k : found = At(rs, k) => KeysOf(rs) \ {k} \subseteq KeysOf(new)
  BY <1>1, <1>2 DEF KeysOf, RefsOf, At
<1> QED
  BY <1>3, <1>4 DEF new

LEMMA RefsWritten ==
    ASSUME StoreTyped, NEW c \in Tables, NEW old, NEW new \in Refs
    PROVE  /\ KeysStay(rows[c], WriteRefs(c, old, new).rows)
           /\ RefsOf(WriteRefs(c, old, new).rows) \subseteq (RefsOf(rows[c]) \ old) \cup {new}
<1> DEFINE rs == rows[c]
           w == WriteRefs(c, old, new).rows
<1>1. DOMAIN w = DOMAIN rs /\ \A i \in DOMAIN rs : w[i].id = rs[i].id /\ w[i].ref = IF rs[i].ref \in old THEN new ELSE rs[i].ref
  BY Written
<1> HIDE DEF rs, w
<1>2. KeysStay(rs, w) /\ RefsOf(w) \subseteq (RefsOf(rs) \ old) \cup {new}
  BY <1>1 DEF KeysStay, KeysOf, RefsOf, At
<1> QED
  BY <1>2 DEF rs, w

-----------------------------------------------------------------------------
(* The references.                                                         *)

Outer == stack[1]
Pending == stack # <<>> /\ Outer.phase \in {"BEFORE", "apply"}

\* The key the outer UPDATE has given its children and not yet its own row.
Coming(t) ==
    IF /\ Pending /\ Outer.stmt.op = "UPDATE" /\ Outer.stmt.col = "id" /\ Outer.found # {}
       /\ Outer.stmt.table = Parent[t] /\ OnUpdate[t] = "CASCADE"
    THEN {Outer.stmt.val} ELSE {}

RefsHeld == \A t \in Tables : HasParent(t) => RefsOf(rows[t]) \subseteq {None} \cup KeysOf(rows[Parent[t]]) \cup Coming(t)

\* What statement s has found out, and still relies on with the rows rs.
Ready(s, found, rs) ==
    LET t == s.table
    IN  /\ s.op = "INSERT" /\ HasParent(t) => found \subseteq KeysOf(rs[Parent[t]])
        /\ s.op = "DELETE" => \A c \in Children(t) : RefsOf(rs[c]) \cap s.ids \subseteq {None}
        /\ s.op = "UPDATE" /\ s.col = "ref" /\ HasParent(t) /\ found # {} => s.val \in {None} \cup KeysOf(rs[Parent[t]])
        /\ s.op = "UPDATE" /\ s.col = "id" /\ found # {} =>
             \A c \in Children(t) : found = At(rs[t], s.id) /\ (s.id \in RefsOf(rs[c]) => s.val = s.id)

\* No body runs between an ON UPDATE CASCADE and the key it was for.
Alone ==
    /\ stack # <<>> /\ Outer.phase = "BEFORE" /\ Outer.stmt.op = "UPDATE"
    /\ Bodies[<<Outer.stmt.table, "BEFORE", "UPDATE">>] = <<>>
    => Len(stack) = 1 /\ Outer.todo = <<>> /\ returned = "none"

ReferencesKept ==
    /\ Ran
    /\ RefsHeld
    /\ Pending => Ready(Outer.stmt, Outer.found, rows)
    /\ Alone

\* The rows new in place of rs, for all that references can tell.
Kept(rs, new) ==
    \A t \in Tables : /\ HasParent(t) => RefsOf(new[t]) \subseteq RefsOf(rs[t])
                      /\ Children(t) # {} => KeysStay(rs[t], new[t])

LEMMA Related ==
    ASSUME ReferencesGuarded, NEW t \in Tables
    PROVE  /\ HasParent(t) => Parent[t] \in Tables /\ t \in Children(Parent[t]) /\ Children(Parent[t]) # {}
           /\ \A c \in Children(t) : c \in Tables /\ c # t /\ HasParent(c) /\ Parent[c] = t
BY ForeignKeysAssumption DEF ReferencesGuarded, HasParent, Children

\* An UPDATE that names its key hits the rows that have it.
LEMMA HitsNamed ==
    ASSUME NEW s, s.id \in Nat
    PROVE  /\ Hits(s) = Positions(s.table, s.id)
           /\ OldKeys(s) \subseteq {s.id}
           /\ Hits(s) # {} => OldKeys(s) = {s.id}
BY ForeignKeysAssumption DEF Hits, OldKeys, Positions

LEMMA ReadyStill ==
    ASSUME ReferencesGuarded, NEW s \in Statement(Nat), NEW found, NEW rs, NEW new, Kept(rs, new), Ready(s, found, rs)
    PROVE  Ready(s, found, new)
<1> DEFINE t == s.table
<1>1. s.op # "RAISE" => t \in Tables
  BY Fields
<1>2. ASSUME s.op = "INSERT", HasParent(t) PROVE found \subseteq KeysOf(new[Parent[t]])
  BY <1>1, <1>2, Related DEF Ready, Kept, KeysStay
<1>3. ASSUME s.op = "DELETE", NEW c \in Children(t) PROVE RefsOf(new[c]) \cap s.ids \subseteq {None}
  BY <1>1, <1>3, Related DEF Ready, Kept
<1>4. ASSUME s.op = "UPDATE", s.col = "ref", HasParent(t), found # {} PROVE s.val \in {None} \cup KeysOf(new[Parent[t]])
  BY <1>1, <1>4, Related DEF Ready, Kept, KeysStay
<1>5. ASSUME s.op = "UPDATE", s.col = "id", found # {}, NEW c \in Children(t)
      PROVE  found = At(new[t], s.id) /\ (s.id \in RefsOf(new[c]) => s.val = s.id)
  <2>1. found = At(rs[t], s.id) /\ (s.id \in RefsOf(rs[c]) => s.val = s.id)
    BY <1>5 DEF Ready
  <2>2. KeysStay(rs[t], new[t]) /\ RefsOf(new[c]) \subseteq RefsOf(rs[c])
    BY <1>1, <1>5, Related DEF Kept
  <2> QED
    BY <1>5, <2>1, <2>2 DEF KeysStay
<1> QED
  BY <1>2, <1>3, <1>4, <1>5 DEF Ready

LEMMA HeldStill ==
    ASSUME ReferencesGuarded, RefsHeld, Kept(rows, rows'), \A t \in Tables : HasParent(t) => Coming(t) \subseteq Coming(t)'
    PROVE  RefsHeld'
<1> SUFFICES ASSUME NEW t \in Tables, HasParent(t)
             PROVE  RefsOf(rows'[t]) \subseteq {None} \cup KeysOf(rows'[Parent[t]]) \cup Coming(t)'
  BY DEF RefsHeld
<1>1. RefsOf(rows'[t]) \subseteq RefsOf(rows[t]) /\ KeysOf(rows[Parent[t]]) \subseteq KeysOf(rows'[Parent[t]])
  BY Related DEF Kept, KeysStay
<1> QED
  BY <1>1 DEF RefsHeld

LEMMA KeptSame == ASSUME NEW rs, NEW new, \A t \in Tables : new[t] = rs[t] PROVE Kept(rs, new)
BY DEF Kept, KeysStay

\* What a cascade leaves of a child's keys and references.
LEMMA CascadeRefs ==
    ASSUME StoreTyped, NEW c \in Tables, NEW gone
    PROVE  /\ RefsOf(Cascade(c, gone).rows) \subseteq RefsOf(rows[c]) \cup {None}
           /\ OnDelete[c] # "CASCADE" => KeysStay(rows[c], Cascade(c, gone).rows)
           /\ ~Refuses(c, gone) => RefsOf(Cascade(c, gone).rows) \cap gone \subseteq {None}
<1>1. rows[c] \in Seq(Row) /\ None \in Refs
  BY KeysTyped DEF Refs
<1>2. CASE OnDelete[c] = "CASCADE" /\ Orphans(c, gone) # {}
  <2> DEFINE ids == OrphanIds(c, gone)
             kept == Without(rows[c], ids)
  <2>1. Cascade(c, gone).rows = kept
    BY <1>2 DEF Cascade, CascadeDelete
  <2>2. \A i \in DOMAIN rows[c] : rows[c][i].ref \in gone => rows[c][i].id \in ids
    BY DEF OrphanIds, Orphans
  <2> HIDE DEF ids
  <2>3. /\ RefsOf(kept) \subseteq RefsOf(rows[c])
        /\ \A ref \in RefsOf(kept) : \E i \in DOMAIN rows[c] : rows[c][i].ref = ref /\ rows[c][i].id \notin ids
    BY <1>1, KeysWithout
  <2> QED
    BY <1>2, <2>1, <2>2, <2>3
<1>3. CASE OnDelete[c] = "SET NULL"
  <2>1. Cascade(c, gone) = WriteRefs(c, gone, None)
    BY <1>3 DEF Cascade
  <2> QED
    BY <1>1, <2>1, RefsWritten
<1>4. CASE OnDelete[c] # "SET NULL" /\ ~(OnDelete[c] = "CASCADE" /\ Orphans(c, gone) # {})
  <2>1. Cascade(c, gone).rows = rows[c] /\ KeysStay(rows[c], rows[c])
    BY <1>4 DEF Cascade, KeysStay
  <2>2. ~Refuses(c, gone) => RefsOf(rows[c]) \cap gone = {}
    BY <1>4 DEF Refuses, Orphans, RefsOf
  <2> QED
    BY <2>1, <2>2
<1> QED
  BY <1>2, <1>3, <1>4

\* The statement being applied writes one table.
LEMMA OneWritten ==
    ASSUME Typed, ApplyInsert \/ ApplyDelete \/ ApplyUpdate
    PROVE  /\ stack # <<>> /\ FrameTyped(Top) /\ Top.stmt.table \in Tables
           /\ \A t \in Tables : t # Top.stmt.table => rows'[t] = rows[t]
<1>1. stack # <<>> /\ Top.stmt.op \in Events
  BY DEF ApplyInsert, ApplyDelete, ApplyUpdate, InPhase, Is, Events
<1>2. FrameTyped(Top)
  BY <1>1, TypedTop
<1>3. Top.stmt.table \in Tables
  BY <1>1, <1>2, Fields DEF FrameTyped, Events
<1>4. rows' = rows \/ \E rs : rows' = [rows EXCEPT ![Top.stmt.table] = rs]
  BY DEF ApplyInsert, ApplyDelete, ApplyUpdate, Applied
<1> QED
  BY <1>1, <1>2, <1>3, <1>4 DEF Typed, StoreTyped

LEMMA RefsInserted ==
    ASSUME Typed, ApplyInsert, NEW t \in Tables, t = Top.stmt.table
    PROVE  /\ KeysStay(rows[t], rows'[t])
           /\ HasParent(t) /\ (Top.stmt.mode = "upsert" => Top.stmt.set \in {Top.stmt.ref, None})
                => RefsOf(rows'[t]) \subseteq RefsOf(rows[t]) \cup {None} \cup Top.found
<1> DEFINE s == Top.stmt
           rs == rows[t]
           row == [id |-> s.id, ref |-> s.ref]
           at  == Positions(t, s.id)
           m   == Max(at)
           put == [rs[m] EXCEPT !.ref = s.set]
<1>1. stack # <<>> /\ StoreTyped /\ s.op = "INSERT" /\ FrameTyped(Top)
  BY OneWritten DEF ApplyInsert, Is, Typed
<1>2. s.ref \in Refs /\ (s.mode = "upsert" => s.set \in Refs)
  BY <1>1, Fields DEF FrameTyped
<1>3. rs \in Seq(Row) /\ \A i \in DOMAIN rs : rs[i] \in Row
  BY <1>1, KeysTyped
<1>4. (~WrongType(s) => row \in Row) /\ row.id = s.id /\ row.ref = s.ref
  BY <1>2 DEF Row, WrongType
<1>5. at # {} => m \in DOMAIN rs /\ rs[m].id = s.id
  BY <1>1, LastAt
<1>6. at # {} /\ s.mode = "upsert" => put \in Row /\ put.id = rs[m].id /\ put.ref = s.set
  BY <1>2, <1>3, <1>5 DEF Row
<1>7. \A new : rows' = [rows EXCEPT ![t] = new] => rows'[t] = new
  BY <1>1 DEF StoreTyped
<1>8. \/ rows'[t] = rs
      \/ /\ ~WrongType(s)
         /\ HasParent(t) => s.ref \in {None} \cup Top.found
         /\ \/ at = {} /\ rows'[t] = Append(rs, row)
            \/ at # {} /\ s.mode = "replace" /\ rows'[t] = [rs EXCEPT ![m] = row]
            \/ at # {} /\ s.mode = "upsert" /\ rows'[t] = [rs EXCEPT ![m] = put]
  BY <1>7 DEF ApplyInsert, Applied, HasParent
<1>9. At(rs, s.id) = at
  BY DEF At, Positions
<1> HIDE DEF row, at, m, put, rs
<1>10. KeysStay(rs, rs)
  BY DEF KeysStay
<1>11. CASE ~WrongType(s) /\ at = {} /\ rows'[t] = Append(rs, row)
  <2>1. KeysStay(rs, rows'[t]) /\ RefsOf(rows'[t]) \subseteq RefsOf(rs) \cup {s.ref}
    BY <1>3, <1>4, <1>9, <1>11, KeysAppended
  <2> QED
    BY <1>8, <1>10, <2>1 DEF rs
<1>12. ASSUME NEW r \in Row, at # {}, r.id = s.id, rows'[t] = [rs EXCEPT ![m] = r]
       PROVE  KeysStay(rs, rows'[t]) /\ RefsOf(rows'[t]) \subseteq RefsOf(rs) \cup {r.ref}
  <2>1. m \in DOMAIN rs /\ r.id = rs[m].id /\ rs \in Seq(Row)
    BY <1>3, <1>5, <1>12
  <2>2. KeysStay(rs, [rs EXCEPT ![m] = r]) /\ RefsOf([rs EXCEPT ![m] = r]) \subseteq RefsOf(rs) \cup {r.ref}
    BY <2>1, KeysPut
  <2> QED
    BY <1>12, <2>2
<1>13. CASE ~WrongType(s) /\ at # {} /\ s.mode = "replace" /\ rows'[t] = [rs EXCEPT ![m] = row]
  BY <1>4, <1>8, <1>10, <1>12, <1>13 DEF rs
<1>14. CASE at # {} /\ s.mode = "upsert" /\ rows'[t] = [rs EXCEPT ![m] = put]
  BY <1>5, <1>6, <1>8, <1>10, <1>12, <1>14 DEF rs
<1> QED
  BY <1>8, <1>10, <1>11, <1>13, <1>14 DEF rs

LEMMA RefsDeleted ==
    ASSUME Typed, ApplyDelete, NEW t \in Tables, t = Top.stmt.table
    PROVE  RefsOf(rows'[t]) \subseteq RefsOf(rows[t]) /\ KeysOf(rows[t]) \ Top.stmt.ids \subseteq KeysOf(rows'[t])
<1>1. rows'[t] = Without(rows[t], Top.stmt.ids) /\ rows[t] \in Seq(Row)
  BY KeysTyped DEF ApplyDelete, Applied, Typed, StoreTyped
<1> QED
  BY <1>1, KeysWithout

LEMMA RefsUpdated ==
    ASSUME Typed, ApplyUpdate, NEW t \in Tables, t = Top.stmt.table
    PROVE  /\ Top.stmt.op = "UPDATE" /\ Top.stmt.col \in {"id", "ref"} /\ Top.found \subseteq DOMAIN rows[t]
           /\ rows[t] \in Seq(Row) /\ rows'[t] = Set(rows[t], Top.found, Top.stmt.col, Top.stmt.val)
<1>1. stack # <<>> /\ FrameTyped(Top) /\ Top.stmt.op = "UPDATE"
  BY OneWritten DEF ApplyUpdate, Is
<1>2. Top.stmt.col \in {"id", "ref"} /\ Top.found \subseteq DOMAIN rows[t]
  BY <1>1, Fields DEF FrameTyped, ApplyUpdate
<1>3. rows'[t] = Set(rows[t], Top.found, Top.stmt.col, Top.stmt.val) /\ rows[t] \in Seq(Row)
  BY KeysTyped DEF ApplyUpdate, Applied, Set, Typed, StoreTyped
<1> QED
  BY <1>1, <1>2, <1>3

\* A harmless statement on top keeps what references rely on.
LEMMA HarmlessKeeps ==
    ASSUME ReferencesGuarded, Typed, Step, stack # <<>>, Harmless(Top.stmt)
    PROVE  Kept(rows, rows')
<1>1. StoreTyped /\ FrameTyped(Top)
  BY TypedTop DEF Typed
<1>2. CASE rows' = rows
  BY <1>2, KeptSame
<1>3. CASE BeginDelete
  <2> DEFINE t == Top.stmt.table
             gone == Ids(t) \cap Top.stmt.ids
  <2>1. Children(t) = {} /\ rows' = Cascaded(t, gone).rows
    BY <1>3 DEF BeginDelete, Is, Harmless
  <2> HIDE DEF gone, t
  <2>2. \A c \in Tables : rows'[c] = rows[c]
    BY <2>1 DEF Cascaded, Reached
  <2> QED
    BY <2>2, KeptSame
<1>4. CASE BeginUpdate
  <2> DEFINE s == Top.stmt
  <2>1. rows' = rows \/ (s.col = "id" /\ rows' = Requeued(s) /\ s.op = "UPDATE")
    BY <1>4 DEF BeginUpdate, Is
  <2>2. s.op = "UPDATE" /\ s.col = "id" => \A c \in Tables : Requeued(s)[c] = rows[c]
    BY DEF Harmless, Requeued, Referencing
  <2> HIDE DEF s
  <2>3. \A c \in Tables : rows'[c] = rows[c]
    BY <2>1, <2>2
  <2> QED
    BY <2>3, KeptSame
<1>5. CASE ApplyInsert \/ ApplyDelete \/ ApplyUpdate
  <2>1. Top.stmt.table \in Tables /\ \A u \in Tables : u # Top.stmt.table => rows'[u] = rows[u]
    BY <1>5, OneWritten
  <2>2. PICK t \in Tables : t = Top.stmt.table
    BY <2>1
  <2>3. ASSUME HasParent(t) => RefsOf(rows'[t]) \subseteq RefsOf(rows[t]),
               Children(t) # {} => KeysStay(rows[t], rows'[t])
        PROVE  Kept(rows, rows')
    BY <2>1, <2>2, <2>3 DEF Kept, KeysStay
  <2>4. CASE ApplyInsert
    <3>1. KeysStay(rows[t], rows'[t])
      BY <2>2, <2>4, RefsInserted
    <3>2. ~HasParent(t)
      BY <2>2, <2>4 DEF ApplyInsert, Is, Harmless
    <3> QED
      BY <2>3, <3>1, <3>2
  <2>5. CASE ApplyDelete
    <3>1. RefsOf(rows'[t]) \subseteq RefsOf(rows[t])
      BY <2>2, <2>5, RefsDeleted
    <3>2. Children(t) = {}
      BY <2>2, <2>5 DEF ApplyDelete, Is, Harmless
    <3> QED
      BY <2>3, <3>1, <3>2
  <2>6. CASE ApplyUpdate
    <3>1. /\ Top.stmt.op = "UPDATE" /\ Top.stmt.col \in {"id", "ref"} /\ rows[t] \in Seq(Row)
          /\ rows'[t] = Set(rows[t], Top.found, Top.stmt.col, Top.stmt.val)
      BY <2>2, <2>6, RefsUpdated
    <3>2. CASE Top.stmt.col = "ref"
      <4>1. KeysStay(rows[t], rows'[t]) /\ ~HasParent(t)
        BY <2>2, <3>1, <3>2, RefsSet DEF Harmless
      <4> QED
        BY <2>3, <4>1
    <3>3. CASE Top.stmt.col = "id"
      <4>1. RefsOf(rows'[t]) = RefsOf(rows[t]) /\ Children(t) = {}
        BY <2>2, <3>1, <3>3, KeysSet DEF Harmless
      <4> QED
        BY <2>3, <4>1
    <3> QED
      BY <3>1, <3>2, <3>3
  <2> QED
    BY <1>5, <2>4, <2>5, <2>6
<1> QED
  BY <1>2, <1>3, <1>4, <1>5
     DEF Step, Raise, BeginInsert, RunBody, Refused, BodyDone, LeaveBefore, LeaveAfter, UpdatePanics

\* Below the top nothing moves.
LEMMA OuterStays ==
    ASSUME Typed, Step, Len(stack) # 1
    PROVE  \/ stack' = <<>>
           \/ stack' # <<>> /\ Outer'.stmt = Outer.stmt /\ Outer'.found = Outer.found /\ Outer'.phase = Outer.phase
<1>0. LevelsCounted /\ stack # <<>> /\ StackMoves
  BY StackMoved DEF Typed
<1>1. Len(stack) \in Nat \ {0} /\ 1 \in 1 .. Len(stack) - 1
  BY <1>0, TopTyped, OthersBelow
<1>2. CASE stack' = Front(stack)
  <2>1. Len(stack') = Len(stack) - 1 /\ DOMAIN stack' = 1 .. Len(stack') /\ \A i \in DOMAIN stack' : stack'[i] = stack[i]
    BY <1>0, <1>2, TopPopped
  <2>2. 1 \in DOMAIN stack'
    BY <1>1, <2>1
  <2>3. stack' # <<>>
    BY <2>2
  <2> QED
    BY <2>1, <2>2, <2>3 DEF Outer
<1>3. ASSUME NEW f, stack' = Front(stack) \o <<f>> PROVE stack' # <<>> /\ stack'[1] = stack[1]
  BY <1>0, <1>1, <1>3, TopChanged
<1>4. CASE RunBody
  <2>1. /\ \A i \in DOMAIN stack : /\ stack'[i].stmt = stack[i].stmt /\ stack'[i].phase = stack[i].phase
                                   /\ stack'[i].found = stack[i].found
        /\ DOMAIN stack = 1 .. Len(stack) /\ DOMAIN stack' = 1 .. Len(stack) + 1
    BY <1>4, BodyRun
  <2>2. 1 \in DOMAIN stack /\ 1 \in DOMAIN stack'
    BY <1>1, <2>1
  <2>3. stack' # <<>>
    BY <2>2
  <2> QED
    BY <2>1, <2>2, <2>3 DEF Outer
<1> QED
  BY <1>0, <1>2, <1>3, <1>4 DEF StackMoves, EntersWith, Outer

LEMMA OuterTyped ==
    ASSUME Typed, stack # <<>>
    PROVE  /\ 1 \in DOMAIN stack /\ (Ran => Outer.stmt \in Statement(Nat))
           /\ Len(stack) = 1 => Outer = Top
           /\ stack' = Front(stack) /\ Len(stack) = 1 => stack' = <<>>
<1>1. PICK S, F : stack \in Seq(Frames(S, F))
  BY DEF Typed, LevelsCounted, StackTyped
<1>2. /\ Len(stack) \in Nat \ {0} /\ DOMAIN stack = 1 .. Len(stack) /\ Top = stack[Len(stack)]
      /\ Len(stack) = 1 <=> Front(stack) = <<>>
  BY <1>1, Popped DEF Top
<1>3. Ran => Outer.stmt \in Statement(Nat)
  BY <1>2, ForeignKeysAssumption DEF Ran, Outer
<1> QED
  BY <1>2, <1>3 DEF Outer

\* With more than one frame the outer statement's cascade is over.
LEMMA NothingComing ==
    ASSUME ReferencesGuarded, ReferencesKept, stack # <<>>,
           Len(stack) # 1 \/ returned # "none" \/ Outer.phase \notin {"BEFORE", "apply"},
           NEW t \in Tables, HasParent(t)
    PROVE  Coming(t) = {} \/ (Len(stack) = 1 /\ Outer.phase = "apply")
<1> SUFFICES ASSUME Coming(t) # {} PROVE Len(stack) = 1 /\ Outer.phase = "apply"
  OBVIOUS
<1>1. /\ Outer.phase \in {"BEFORE", "apply"} /\ Outer.stmt.op = "UPDATE"
      /\ Bodies[<<Outer.stmt.table, "BEFORE", "UPDATE">>] = <<>>
  BY DEF Coming, Pending, ReferencesGuarded
<1>2. Outer.phase # "BEFORE"
  BY <1>1 DEF ReferencesKept, Alone
<1>3. LevelsCounted
  BY DEF ReferencesKept, Ran, Typed
<1>4. Len(stack) \in Nat \ {0}
  BY <1>3, TopTyped
<1>5. CASE Len(stack) # 1
  <2>1. stack[1].phase \in Timings
    BY <1>3, <1>4, <1>5, OthersBelow DEF LevelsCounted
  <2> QED
    BY <1>1, <1>2, <2>1 DEF Outer, Timings
<1> QED
  BY <1>1, <1>2, <1>5

\* A statement below the outer one.
LEMMA InnerStep ==
    ASSUME ReferencesGuarded, ReferencesKept, Step, Len(stack) # 1
    PROVE  RefsHeld' /\ (Pending' => Ready(Outer'.stmt, Outer'.found, rows')) /\ Alone'
<1>1. Typed /\ Ran /\ LevelsCounted /\ stack # <<>> /\ RefsHeld
  BY StackMoved DEF ReferencesKept, Ran, Typed
<1>2. Len(stack) \in DOMAIN stack /\ Top = stack[Len(stack)] /\ Len(stack) \in Nat \ {0} /\ 1 \in 1 .. Len(stack) - 1
  BY <1>1, TypedTop, TopTyped, OthersBelow
<1>3. Harmless(Top.stmt)
  <2>1. PICK body \in BodyTexts, of \in Nat \cup {None} : Top.stmt = Substituted(body, of)
    BY <1>1, <1>2 DEF Ran, FromBody
  <2> DEFINE s == Substituted(body, of)
  <2>2. /\ s.op = body.op /\ s.table = body.table
        /\ s.op = "UPDATE" => s.col = body.col
    BY SubstitutedSame
  <2>3. Harmless(body)
    BY DEF ReferencesGuarded
  <2> HIDE DEF s
  <2>4. Harmless(s)
    BY <2>2, <2>3 DEF Harmless
  <2> QED
    BY <2>1, <2>4 DEF s
<1>4. Kept(rows, rows')
  BY <1>1, <1>3, HarmlessKeeps
<1>5. \A t \in Tables : HasParent(t) => Coming(t) = {}
  BY <1>1, NothingComing
<1>6. RefsHeld'
  BY <1>1, <1>4, <1>5, HeldStill
<1>7. CASE stack' = <<>>
  BY <1>6, <1>7 DEF Pending, Alone
<1>8. CASE stack' # <<>> /\ Outer'.stmt = Outer.stmt /\ Outer'.found = Outer.found /\ Outer'.phase = Outer.phase
  <2>1. Outer.stmt \in Statement(Nat)
    BY <1>1, OuterTyped
  <2>2. Pending' => Ready(Outer'.stmt, Outer'.found, rows')
    <3> SUFFICES ASSUME Pending' PROVE Ready(Outer.stmt, Outer.found, rows')
      BY <1>8
    <3>1. Ready(Outer.stmt, Outer.found, rows)
      BY <1>1, <1>8 DEF Pending, ReferencesKept
    <3> QED
      BY <1>4, <2>1, <3>1, ReadyStill
  <2>3. Alone'
    BY <1>1, <1>8 DEF Alone, ReferencesKept
  <2> QED
    BY <1>6, <2>2, <2>3
<1> QED
  BY <1>1, <1>7, <1>8, OuterStays

\* The outer statement enters its triggers, with what it found.
LEMMA OuterEnters ==
    ASSUME Typed, stack # <<>>, Len(stack) = 1, NEW timing, NEW found, EntersWith(timing, found)
    PROVE  /\ stack' # <<>> /\ Len(stack') = 1
           /\ Outer'.stmt = Outer.stmt /\ Outer'.found = found /\ Outer'.phase = timing
           /\ Outer'.todo \in {<<>>, Bodies[<<Outer.stmt.table, timing, Outer.stmt.op>>]}
<1>1. PICK f : /\ stack' = Front(stack) \o <<f>>
               /\ f.stmt = Top.stmt /\ f.found = found /\ f.phase = timing
               /\ f.todo \in {<<>>, Bodies[<<Top.stmt.table, timing, Top.stmt.op>>]}
  BY DEF EntersWith
<1>2. Len(stack') = Len(stack) /\ stack' # <<>> /\ stack'[Len(stack)] = f
  BY <1>1, TopChanged DEF Typed
<1>3. Outer = Top
  BY OuterTyped
<1> QED
  BY <1>1, <1>2, <1>3 DEF Outer

LEMMA OuterBegins ==
    ASSUME ReferencesGuarded, ReferencesKept, BeginInsert \/ BeginDelete \/ BeginUpdate, Len(stack) = 1
    PROVE  RefsHeld' /\ (Pending' => Ready(Outer'.stmt, Outer'.found, rows')) /\ Alone'
<1>0. Typed /\ StoreTyped /\ RefsHeld /\ Ran
  BY DEF ReferencesKept, Ran, Typed
<1>1. stack # <<>> /\ returned = "none" /\ Top.phase = "begin"
  BY DEF BeginInsert, BeginDelete, BeginUpdate, InPhase
<1>2. Outer = Top /\ Outer.stmt \in Statement(Nat)
  BY <1>0, <1>1, OuterTyped
<1> DEFINE s == Outer.stmt
           t == s.table
<1>3. t \in Tables
  BY <1>2, Fields DEF BeginInsert, BeginDelete, BeginUpdate, Is
<1>4. \A c \in Tables : HasParent(c) => RefsOf(rows[c]) \subseteq {None} \cup KeysOf(rows[Parent[c]])
  <2>1. ~Pending
    BY <1>1, <1>2 DEF Pending
  <2>2. \A c : Coming(c) = {}
    BY <2>1 DEF Coming
  <2> QED
    BY <1>0, <2>2 DEF RefsHeld
<1>5. ASSUME stack' = Front(stack) PROVE (Pending' => Ready(Outer'.stmt, Outer'.found, rows')) /\ Alone'
  BY <1>0, <1>1, <1>5, OuterTyped DEF Pending, Alone
<1>6. ASSUME UNCHANGED rows PROVE RefsHeld'
  BY <1>4, <1>6 DEF RefsHeld
<1>7. ASSUME NEW found, Enter([Top EXCEPT !.found = found], "BEFORE")
      PROVE  /\ stack' # <<>> /\ Len(stack') = 1
             /\ Outer'.stmt = s /\ Outer'.found = found /\ Outer'.phase = "BEFORE"
             /\ Outer'.todo \in {<<>>, Bodies[<<t, "BEFORE", s.op>>]}
  <2>1. EntersWith("BEFORE", found)
    BY <1>0, <1>1, <1>7, Entered
  <2> QED
    BY <1>0, <1>1, <2>1, OuterEnters
<1>8. ASSUME Enter(Top, "BEFORE")
      PROVE  stack' # <<>> /\ Outer'.stmt = s /\ Outer'.phase = "BEFORE"
  <2>1. EntersWith("BEFORE", Top.found)
    BY <1>0, <1>1, <1>8, Entered
  <2> QED
    BY <1>0, <1>1, <2>1, OuterEnters
<1>9. \A u \in Tables : \A k : Ids(u) = KeysOf(rows[u]) /\ Positions(u, k) = At(rows[u], k)
  BY DEF Ids, KeysOf, Positions, At
<1>10. CASE BeginInsert
  <2> DEFINE p == Parent[t]
             found == IF p = None THEN {} ELSE Ids(p)
  <2>1. UNCHANGED rows /\ s.op = "INSERT" /\ Enter([Top EXCEPT !.found = found], "BEFORE")
    BY <1>2, <1>10 DEF BeginInsert, Is
  <2>2. HasParent(t) => found = KeysOf(rows'[p])
    BY <1>3, <1>9, <2>1, Related DEF HasParent
  <2> HIDE DEF found
  <2>3. Outer'.stmt = s /\ Outer'.found = found
    BY <1>7, <2>1
  <2>4. Ready(Outer'.stmt, Outer'.found, rows')
    BY <2>1, <2>2, <2>3 DEF Ready
  <2>5. Alone'
    BY <2>1, <2>3 DEF Alone
  <2> QED
    BY <1>6, <2>1, <2>4, <2>5
<1>11. CASE BeginDelete
  <2> DEFINE gone == KeysOf(rows[t]) \cap s.ids
  <2>1. /\ s.op = "DELETE" /\ rows' = Cascaded(t, gone).rows
        /\ \/ stack' = Front(stack)
           \/ ~Cascaded(t, gone).failed /\ Enter(Top, "BEFORE")
    BY <1>2, <1>3, <1>9, <1>11 DEF BeginDelete, Is, Return
  <2>2. PICK u \in Tables : u = t
    BY <1>3
  <2> HIDE DEF t
  <2>3. ASSUME NEW c \in Tables
        PROVE  rows'[c] = IF c \in Reached(u, gone) THEN Cascade(c, gone).rows ELSE rows[c]
    BY <2>1, <2>2 DEF Cascaded
  <2>4. ASSUME NEW c \in Tables, HasParent(c)
        PROVE  /\ RefsOf(rows'[c]) \subseteq RefsOf(rows[c]) \cup {None}
               /\ KeysOf(rows[Parent[c]]) \subseteq KeysOf(rows'[Parent[c]])
    <3>1. RefsOf(rows'[c]) \subseteq RefsOf(rows[c]) \cup {None}
      BY <1>0, <2>3, CascadeRefs
    <3>2. Parent[c] \in Tables /\ Children(Parent[c]) # {}
      BY <2>4, Related
    <3>3. Parent[c] \in Reached(u, gone) => HasParent(Parent[c])
      BY Related DEF Reached
    <3>4. Parent[c] \in Reached(u, gone) => OnDelete[Parent[c]] # "CASCADE"
      BY <3>2, <3>3 DEF ReferencesGuarded
    <3>5. KeysStay(rows[Parent[c]], rows'[Parent[c]])
      <4>1. CASE Parent[c] \in Reached(u, gone)
        BY <1>0, <2>3, <3>2, <3>4, <4>1, CascadeRefs
      <4>2. CASE Parent[c] \notin Reached(u, gone)
        BY <2>3, <3>2, <4>2 DEF KeysStay
      <4> QED
        BY <4>1, <4>2
    <3> QED
      BY <3>1, <3>5 DEF KeysStay
  <2>5. RefsHeld'
    BY <1>4, <2>4 DEF RefsHeld
  <2>6. CASE stack' = Front(stack)
    BY <1>5, <2>5, <2>6
  <2>7. CASE ~Cascaded(t, gone).failed /\ Enter(Top, "BEFORE")
    <3>1. \A c \in Children(u) : ~Refuses(c, gone)
      BY <2>2, <2>7 DEF Cascaded
    <3>2. \A c \in Children(u) : c \in Reached(u, gone)
      BY <3>1 DEF Reached
    <3>3. ASSUME NEW c \in Children(u) PROVE RefsOf(rows'[c]) \cap s.ids \subseteq {None}
      <4>1. c \in Tables /\ HasParent(c) /\ Parent[c] = u
        BY Related
      <4>2. RefsOf(rows'[c]) \cap gone \subseteq {None}
        <5> HIDE DEF gone
        <5>1. rows'[c] = Cascade(c, gone).rows /\ ~Refuses(c, gone)
          BY <2>3, <3>1, <3>2, <4>1
        <5> QED
          BY <1>0, <4>1, <5>1, CascadeRefs
      <4>3. RefsOf(rows'[c]) \subseteq {None} \cup KeysOf(rows[u])
        BY <1>4, <2>4, <4>1
      <4> QED
        BY <2>2, <4>2, <4>3
    <3>4. Outer'.stmt = s
      BY <1>8, <2>7
    <3>5. Ready(Outer'.stmt, Outer'.found, rows')
      BY <2>1, <2>2, <3>3, <3>4 DEF Ready, t
    <3>6. Alone'
      BY <2>1, <3>4 DEF Alone
    <3> QED
      BY <2>5, <3>5, <3>6
  <2> QED
    BY <2>1, <2>6, <2>7
<1>12. CASE BeginUpdate
  <2> DEFINE hits == At(rows[t], s.id)
  <2>0. s.op = "UPDATE" /\ s.id \in Nat
    BY <1>2, <1>12, Fields DEF BeginUpdate, Is
  <2>14. Hits(s) = hits /\ (hits # {} => OldKeys(s) = {s.id})
    BY <1>3, <1>9, <2>0, HitsNamed
  <2>1. /\ s.op = "UPDATE"
        /\ \/ UNCHANGED rows /\ stack' = Front(stack)
           \/ /\ rows' = IF s.col = "id" /\ hits # {} THEN Requeued(s) ELSE rows
              /\ hits = {} \/ UpdateAllowed(s)
              /\ Enter([Top EXCEPT !.found = hits], "BEFORE") /\ UNCHANGED returned
    BY <1>2, <2>0, <2>14, <1>12 DEF BeginUpdate, Is, Return
  <2>2. CASE UNCHANGED rows /\ stack' = Front(stack)
    BY <1>5, <1>6, <2>2
  <2>3. ASSUME Enter([Top EXCEPT !.found = hits], "BEFORE"), UNCHANGED returned
        PROVE  Outer'.stmt = s /\ Outer'.found = hits /\ Outer'.phase = "BEFORE" /\ stack' # <<>> /\ Alone'
    <3> HIDE DEF hits
    <3>1. /\ stack' # <<>> /\ Len(stack') = 1
          /\ Outer'.stmt = s /\ Outer'.found = hits /\ Outer'.phase = "BEFORE"
          /\ Outer'.todo \in {<<>>, Bodies[<<t, "BEFORE", s.op>>]}
      BY <1>7, <2>3
    <3>2. returned' = "none"
      BY <1>1, <2>3
    <3> QED
      BY <2>1, <3>1, <3>2 DEF Alone
  <2>4. CASE /\ rows' = rows /\ ~(s.col = "id" /\ hits # {}) /\ (hits = {} \/ UpdateAllowed(s))
             /\ Enter([Top EXCEPT !.found = hits], "BEFORE") /\ UNCHANGED returned
    <3>1. HasParent(t) /\ hits # {} /\ s.col = "ref" => s.val \in {None} \cup KeysOf(rows'[Parent[t]])
      BY <1>3, <1>9, <2>4, Related DEF UpdateAllowed, HasParent
    <3>2. ~(s.col = "id" /\ hits # {})
      BY <2>4
    <3> HIDE DEF hits
    <3>3. Ready(s, hits, rows')
      BY <2>1, <3>1, <3>2 DEF Ready
    <3> QED
      BY <1>6, <2>3, <2>4, <3>3
  <2>5. CASE /\ s.col = "id" /\ hits # {} /\ rows' = Requeued(s) /\ UpdateAllowed(s)
             /\ Enter([Top EXCEPT !.found = hits], "BEFORE") /\ UNCHANGED returned
    <3>1. Outer'.stmt = s /\ Outer'.found = hits /\ Outer'.phase = "BEFORE" /\ stack' # <<>> /\ Alone'
      BY <2>3, <2>5
    <3>2. s.id \in Nat /\ s.val \in Refs
      BY <1>2, <2>1, <2>5, Fields DEF Refs
    <3>3. ASSUME NEW c \in Tables
          PROVE  /\ KeysStay(rows[c], rows'[c])
                 /\ c \in Referencing(t, {s.id}) =>
                      /\ RefsOf(rows'[c]) \subseteq (RefsOf(rows[c]) \ {s.id}) \cup {s.val}
                      /\ OnUpdate[c] = "CASCADE" /\ Parent[c] = t
                 /\ c \notin Referencing(t, {s.id}) => rows'[c] = rows[c]
      <4>1. rows'[c] = IF c \in Referencing(t, {s.id}) THEN WriteRefs(c, {s.id}, s.val).rows ELSE rows[c]
        BY <2>14, <2>5 DEF Requeued
      <4>2. c \in Referencing(t, {s.id}) => OnUpdate[c] = "CASCADE" /\ Parent[c] = t
        BY <2>14, <2>5 DEF UpdateAllowed, Referencing, Children
      <4>3. KeysStay(rows[c], rows[c])
        BY DEF KeysStay
      <4> HIDE DEF s, t
      <4> QED
        BY <1>0, <3>2, <4>1, <4>2, <4>3, RefsWritten
    <3>4. ASSUME NEW c \in Tables, HasParent(c)
          PROVE  RefsOf(rows'[c]) \subseteq {None} \cup KeysOf(rows'[Parent[c]]) \cup Coming(c)'
      <4>1. KeysOf(rows[Parent[c]]) \subseteq KeysOf(rows'[Parent[c]])
        BY <3>3, <3>4, Related DEF KeysStay
      <4>2. RefsOf(rows[c]) \subseteq {None} \cup KeysOf(rows[Parent[c]])
        BY <1>4, <3>4
      <4>3. CASE c \notin Referencing(t, {s.id})
        BY <3>3, <4>1, <4>2, <4>3
      <4>4. CASE c \in Referencing(t, {s.id})
        <5>1. Coming(c)' = {s.val}
          BY <2>1, <2>5, <3>1, <3>3, <4>4 DEF Coming, Pending
        <5>2. RefsOf(rows'[c]) \subseteq RefsOf(rows[c]) \cup {s.val}
          BY <3>3, <4>4
        <5> QED
          BY <4>1, <4>2, <5>1, <5>2
      <4> QED
        BY <4>3, <4>4
    <3>5. RefsHeld'
      BY <3>4 DEF RefsHeld
    <3>6. ASSUME NEW c \in Children(t)
          PROVE  hits = At(rows'[t], s.id) /\ (s.id \in RefsOf(rows'[c]) => s.val = s.id)
      <4>1. hits = At(rows'[t], s.id)
        BY <1>3, <2>5, <3>3 DEF KeysStay
      <4>2. c \in Tables
        BY DEF Children
      <4>3. c \notin Referencing(t, {s.id}) => s.id \notin RefsOf(rows[c])
        BY DEF Referencing, Orphans, RefsOf
      <4> QED
        BY <3>3, <4>1, <4>2, <4>3
    <3>7. Ready(s, hits, rows')
      BY <2>1, <2>5, <3>6 DEF Ready
    <3> QED
      BY <3>1, <3>5, <3>7
  <2> QED
    BY <2>1, <2>2, <2>4, <2>5
<1> QED
  BY <1>10, <1>11, <1>12

LEMMA OuterApplies ==
    ASSUME ReferencesGuarded, ReferencesKept, ApplyInsert \/ ApplyDelete \/ ApplyUpdate, Len(stack) = 1
    PROVE  RefsHeld' /\ ~Pending' /\ Alone'
<1>0. Typed /\ StoreTyped /\ RefsHeld /\ Ran
  BY DEF ReferencesKept, Ran, Typed
<1>1. stack # <<>> /\ Top.phase = "apply"
  BY DEF ApplyInsert, ApplyDelete, ApplyUpdate, InPhase
<1>2. Outer = Top /\ Outer.stmt \in Statement(Nat) /\ Outer.stmt \in ClientStmts
  BY <1>0, <1>1, OuterTyped DEF Ran, Outer
<1> DEFINE s == Outer.stmt
<1>3. Pending /\ Ready(s, Outer.found, rows)
  BY <1>1, <1>2 DEF Pending, ReferencesKept
<1>4. PICK t \in Tables : t = s.table /\ \A u \in Tables : u # t => rows'[u] = rows[u]
  BY <1>0, <1>2, OneWritten
<1>5. ~Pending' /\ Alone'
  <2>1. stack' = Front(stack) \/ \E new : Enter([Top EXCEPT !.new = new], "AFTER")
    <3>1. CASE ApplyInsert
      BY <3>1 DEF ApplyInsert, Applied, Return
    <3>2. CASE ApplyDelete
      BY <3>2 DEF ApplyDelete, Applied, Return
    <3>3. CASE ApplyUpdate
      BY <3>3 DEF ApplyUpdate, Applied, Return
    <3> QED
      BY <3>1, <3>2, <3>3
  <2>2. CASE stack' = Front(stack)
    BY <1>0, <1>1, <2>2, OuterTyped DEF Pending, Alone
  <2>3. CASE \E new : Enter([Top EXCEPT !.new = new], "AFTER")
    <3>1. EntersWith("AFTER", Top.found)
      BY <1>0, <1>1, <2>3, Entered
    <3>2. Outer'.phase = "AFTER"
      BY <1>0, <1>1, <3>1, OuterEnters
    <3> QED
      BY <3>2 DEF Pending, Alone
  <2> QED
    BY <2>1, <2>2, <2>3
<1>6. ASSUME \A c \in Tables : HasParent(c) => RefsOf(rows'[c]) \subseteq {None} \cup KeysOf(rows'[Parent[c]]) PROVE RefsHeld'
  BY <1>6 DEF RefsHeld
<1>7. ASSUME s.op # "UPDATE" \/ s.col # "id", NEW c \in Tables, HasParent(c)
      PROVE  RefsOf(rows[c]) \subseteq {None} \cup KeysOf(rows[Parent[c]])
  <2>1. Coming(c) = {}
    BY <1>7 DEF Coming
  <2> QED
    BY <1>0, <1>7, <2>1 DEF RefsHeld
<1>8. CASE ApplyInsert
  <2>1. s.op = "INSERT"
    BY <1>2, <1>8 DEF ApplyInsert, Is
  <2>2. KeysStay(rows[t], rows'[t])
    BY <1>0, <1>2, <1>4, <1>8, RefsInserted
  <2>3. \A u \in Tables : KeysOf(rows[u]) \subseteq KeysOf(rows'[u])
    BY <1>4, <2>2 DEF KeysStay
  <2>4. ASSUME NEW c \in Tables, HasParent(c) PROVE RefsOf(rows'[c]) \subseteq {None} \cup KeysOf(rows'[Parent[c]])
    <3>1. RefsOf(rows[c]) \subseteq {None} \cup KeysOf(rows[Parent[c]]) /\ KeysOf(rows[Parent[c]]) \subseteq KeysOf(rows'[Parent[c]])
      BY <1>7, <2>1, <2>3, <2>4, Related
    <3>2. CASE c # t
      BY <1>4, <3>1, <3>2
    <3>3. CASE c = t
      <4>1. s.mode = "upsert" => s.set \in {s.ref, None}
        BY <1>2, <1>4, <2>1, <2>4, <3>3 DEF ReferencesGuarded
      <4>2. RefsOf(rows'[t]) \subseteq RefsOf(rows[t]) \cup {None} \cup Outer.found
        BY <1>0, <1>2, <1>4, <1>8, <2>4, <3>3, <4>1, RefsInserted
      <4>3. Outer.found \subseteq KeysOf(rows[Parent[t]])
        BY <1>3, <1>4, <2>1, <2>4, <3>3 DEF Ready
      <4> QED
        BY <3>1, <3>3, <4>2, <4>3
    <3> QED
      BY <3>2, <3>3
  <2> QED
    BY <1>5, <1>6, <2>4
<1>9. CASE ApplyDelete
  <2>1. s.op = "DELETE"
    BY <1>2, <1>9 DEF ApplyDelete, Is
  <2>2. RefsOf(rows'[t]) \subseteq RefsOf(rows[t]) /\ KeysOf(rows[t]) \ s.ids \subseteq KeysOf(rows'[t])
    BY <1>0, <1>2, <1>4, <1>9, RefsDeleted
  <2>3. ASSUME NEW c \in Tables, HasParent(c) PROVE RefsOf(rows'[c]) \subseteq {None} \cup KeysOf(rows'[Parent[c]])
    <3>1. RefsOf(rows'[c]) \subseteq RefsOf(rows[c]) /\ RefsOf(rows[c]) \subseteq {None} \cup KeysOf(rows[Parent[c]])
      BY <1>4, <1>7, <2>1, <2>2, <2>3
    <3>2. Parent[c] \in Tables /\ Parent[c] # c /\ c \in Children(Parent[c])
      BY <2>3, Related DEF ReferencesGuarded
    <3>3. CASE Parent[c] # t
      BY <1>4, <3>1, <3>2, <3>3
    <3>4. CASE Parent[c] = t
      <4>1. RefsOf(rows[c]) \cap s.ids \subseteq {None}
        BY <1>3, <1>4, <2>1, <3>2, <3>4 DEF Ready
      <4> QED
        BY <2>2, <3>1, <3>4, <4>1
    <3> QED
      BY <3>3, <3>4
  <2> QED
    BY <1>5, <1>6, <2>3
<1>10. CASE ApplyUpdate
  <2> DEFINE found == Outer.found
             rs == rows[t]
  <2>1. /\ s.op = "UPDATE" /\ s.col \in {"id", "ref"} /\ found \subseteq DOMAIN rs
        /\ rs \in Seq(Row) /\ rows'[t] = Set(rs, found, s.col, s.val)
    BY <1>0, <1>2, <1>4, <1>10, RefsUpdated
  <2>2. CASE s.col = "ref"
    <3>1. /\ KeysStay(rs, rows'[t])
          /\ RefsOf(rows'[t]) \subseteq RefsOf(rs) \cup {s.val} /\ (found = {} => RefsOf(rows'[t]) \subseteq RefsOf(rs))
      BY <2>1, <2>2, RefsSet
    <3>2. \A u \in Tables : KeysOf(rows[u]) \subseteq KeysOf(rows'[u])
      BY <1>4, <3>1 DEF KeysStay
    <3>3. ASSUME NEW c \in Tables, HasParent(c) PROVE RefsOf(rows'[c]) \subseteq {None} \cup KeysOf(rows'[Parent[c]])
      <4>1. RefsOf(rows[c]) \subseteq {None} \cup KeysOf(rows[Parent[c]]) /\ KeysOf(rows[Parent[c]]) \subseteq KeysOf(rows'[Parent[c]])
        BY <1>7, <2>2, <3>2, <3>3, Related
      <4>2. CASE c # t
        BY <1>4, <4>1, <4>2
      <4>3. CASE c = t
        <5>1. found # {} => s.val \in {None} \cup KeysOf(rows[Parent[t]])
          BY <1>3, <1>4, <2>1, <2>2, <3>3, <4>3 DEF Ready
        <5> QED
          BY <3>1, <4>1, <4>3, <5>1
      <4> QED
        BY <4>2, <4>3
    <3> QED
      BY <1>5, <1>6, <3>3
  <2>3. CASE s.col = "id"
    <3>1. /\ RefsOf(rows'[t]) = RefsOf(rs)
          /\ found # {} => s.val \in KeysOf(rows'[t])
          /\ found = {} => rows'[t] = rs
          /\ found = At(rs, s.id) => KeysOf(rs) \ {s.id} \subseteq KeysOf(rows'[t])
      BY <2>1, <2>3, KeysSet
    <3>2. ASSUME NEW c \in Tables, HasParent(c) PROVE RefsOf(rows'[c]) \subseteq {None} \cup KeysOf(rows'[Parent[c]])
      <4>1. /\ RefsOf(rows'[c]) = RefsOf(rows[c])
            /\ RefsOf(rows[c]) \subseteq {None} \cup KeysOf(rows[Parent[c]]) \cup Coming(c)
        BY <1>0, <1>4, <3>1, <3>2 DEF RefsHeld
      <4>2. Parent[c] \in Tables /\ c \in Children(Parent[c])
        BY <3>2, Related
      <4>3. CASE Parent[c] # t \/ found = {}
        <5>1. Coming(c) = {}
          BY <1>4, <4>3 DEF Coming
        <5>2. rows'[Parent[c]] = rows[Parent[c]]
          BY <1>4, <3>1, <4>2, <4>3
        <5> QED
          BY <4>1, <5>1, <5>2
      <4>4. CASE Parent[c] = t /\ found # {}
        <5>1. found = At(rs, s.id) /\ (s.id \in RefsOf(rows[c]) => s.val = s.id)
          BY <1>3, <1>4, <2>1, <2>3, <4>2, <4>4 DEF Ready
        <5>2. Coming(c) \subseteq {s.val}
          BY DEF Coming
        <5> QED
          BY <3>1, <4>1, <4>4, <5>1, <5>2
      <4> QED
        BY <4>3, <4>4
    <3> QED
      BY <1>5, <1>6, <3>2
  <2> QED
    BY <2>1, <2>2, <2>3
<1> QED
  BY <1>8, <1>9, <1>10

\* The outer statement runs a body, leaves its triggers or ends.
LEMMA OuterRests ==
    ASSUME ReferencesGuarded, ReferencesKept, Len(stack) = 1,
           Raise \/ RunBody \/ Refused \/ BodyDone \/ LeaveBefore \/ LeaveAfter \/ UpdatePanics
    PROVE  RefsHeld' /\ (Pending' => Ready(Outer'.stmt, Outer'.found, rows')) /\ Alone'
<1>0. Typed /\ Ran /\ RefsHeld /\ LevelsCounted
  BY DEF ReferencesKept, Ran, Typed
<1>1. stack # <<>> /\ UNCHANGED rows
  BY DEF Raise, RunBody, Refused, BodyDone, LeaveBefore, LeaveAfter, UpdatePanics, InTrigger, InPhase, BodyEnded
<1>2. Outer = Top /\ Outer.stmt \in Statement(Nat) /\ (stack' = Front(stack) => stack' = <<>>)
  BY <1>0, <1>1, OuterTyped
<1>3. Kept(rows, rows')
  BY <1>1, KeptSame
<1>4. ASSUME stack' = <<>>, \A t \in Tables : HasParent(t) => Coming(t) = {}
      PROVE  RefsHeld' /\ (Pending' => Ready(Outer'.stmt, Outer'.found, rows')) /\ Alone'
  <2>1. RefsHeld'
    BY <1>0, <1>3, <1>4, HeldStill
  <2> QED
    BY <1>4, <2>1 DEF Pending, Alone
<1>5. ASSUME stack' # <<>>, Outer'.stmt = Outer.stmt, Outer'.found = Outer.found, Pending' <=> Pending
      PROVE  RefsHeld' /\ (Pending' => Ready(Outer'.stmt, Outer'.found, rows'))
  <2>1. \A t \in Tables : Coming(t)' = Coming(t)
    BY <1>5 DEF Coming
  <2>2. RefsHeld'
    BY <1>0, <1>3, <2>1, HeldStill
  <2>3. Pending => Ready(Outer.stmt, Outer.found, rows')
    BY <1>1 DEF ReferencesKept
  <2> QED
    BY <1>5, <2>2, <2>3
<1>6. CASE Raise \/ Refused \/ LeaveAfter
  <2>1. /\ stack' = Front(stack)
        /\ Outer.phase \notin {"BEFORE", "apply"} \/ (returned # "none" /\ Outer.phase = "BEFORE")
    BY <1>2, <1>6 DEF Raise, Refused, LeaveAfter, InPhase, BodyEnded, Return
  <2>2. \A t \in Tables : HasParent(t) => Coming(t) = {}
    BY <1>1, <2>1, NothingComing
  <2> QED
    BY <1>2, <1>4, <2>1, <2>2
<1>7. CASE UpdatePanics
  <2> DEFINE s == Outer.stmt
             found == Outer.found
  <2>1. stack' = <<>> /\ Outer.phase = "apply" /\ s.op = "UPDATE" /\ ~(found \subseteq DOMAIN rows[s.table])
    BY <1>2, <1>7 DEF UpdatePanics, InPhase, Is
  <2>2. ASSUME NEW t \in Tables, HasParent(t), Coming(t) # {} PROVE FALSE
    <3>1. s.col = "id" /\ found # {} /\ s.table = Parent[t]
      BY <2>2 DEF Coming
    <3>2. Ready(s, found, rows)
      BY <1>1, <2>1 DEF Pending, ReferencesKept
    <3>3. found = At(rows[s.table], s.id)
      BY <2>1, <2>2, <3>1, <3>2, Related DEF Ready
    <3> QED
      BY <2>1, <3>3 DEF At
  <2> QED
    BY <1>4, <2>1, <2>2
<1>8. CASE BodyDone
  <2>1. stack' = stack /\ returned # "none"
    BY <1>8 DEF BodyDone, BodyEnded
  <2>2. Outer' = Outer /\ (Pending' <=> Pending)
    BY <2>1 DEF Outer, Pending
  <2>3. Alone'
    BY <1>1, <2>1, <2>2 DEF Alone, ReferencesKept
  <2> QED
    BY <1>1, <1>5, <2>1, <2>2, <2>3
<1>9. CASE RunBody
  <2>1. /\ \A i \in DOMAIN stack : /\ stack'[i].stmt = stack[i].stmt /\ stack'[i].phase = stack[i].phase
                                   /\ stack'[i].found = stack[i].found
        /\ DOMAIN stack' = 1 .. Len(stack) + 1 /\ Len(stack) + 1 # 1
    BY <1>0, <1>9, BodyRun
  <2>2. 1 \in DOMAIN stack /\ 1 \in DOMAIN stack'
    BY <1>0, <1>1, <2>1, OuterTyped
  <2>3. stack' # <<>> /\ Outer'.stmt = Outer.stmt /\ Outer'.found = Outer.found /\ Outer'.phase = Outer.phase
    BY <2>1, <2>2 DEF Outer
  <2>4. Outer.todo # <<>>
    BY <1>2, <1>9 DEF RunBody
  <2>5. Alone'
    BY <1>1, <2>3, <2>4 DEF Alone, ReferencesKept
  <2>6. Pending' <=> Pending
    BY <1>1, <2>3 DEF Pending
  <2> QED
    BY <1>5, <2>3, <2>5, <2>6
<1>10. CASE LeaveBefore
  <2>1. PICK f : stack' = Front(stack) \o <<f>> /\ f.stmt = Top.stmt /\ f.found = Top.found /\ f.phase = "apply"
    BY <1>0, <1>10, LeftBefore
  <2>2. stack' # <<>> /\ stack'[1] = f
    BY <1>0, <1>1, <2>1, TopChanged
  <2>3. Outer'.stmt = Outer.stmt /\ Outer'.found = Outer.found /\ Outer'.phase = "apply" /\ Outer.phase = "BEFORE"
    BY <1>2, <1>10, <2>1, <2>2 DEF Outer, LeaveBefore, InPhase
  <2>4. Alone' /\ (Pending' <=> Pending)
    BY <1>1, <2>2, <2>3 DEF Alone, Pending
  <2> QED
    BY <1>5, <2>2, <2>3, <2>4
<1> QED
  BY <1>6, <1>7, <1>8, <1>9, <1>10

(* FOREIGN KEY ... REFERENCES.  Between statements every reference names a *)
(* row of the parent, for any schema in which cascades need one level only *)
(* and any trigger bodies that leave the tables of a foreign key alone     *)
(* where it matters: whichever order checks, cascades, refusals, triggers  *)
(* and the depth limit come in.                                            *)
THEOREM ReferencesCorrect ==
    ASSUME ReferencesGuarded
    PROVE  Spec => []ReferencesExist
<1>1. Init => ReferencesKept
  <2> SUFFICES ASSUME Init PROVE ReferencesKept
    OBVIOUS
  <2>1. Typed /\ DOMAIN stack = {} /\ stack = <<>> /\ \A t \in Tables : rows[t] = <<>>
    BY InitTyped DEF Init
  <2>2. RefsHeld
    BY <2>1 DEF RefsHeld, RefsOf
  <2> QED
    BY <2>1, <2>2 DEF ReferencesKept, Ran, Pending, Alone
<1>2. ReferencesKept /\ [Next]_vars => ReferencesKept'
  <2> SUFFICES ASSUME ReferencesKept, [Next]_vars PROVE ReferencesKept'
    OBVIOUS
  <2> DEFINE Rest == RefsHeld /\ (Pending => Ready(Outer.stmt, Outer.found, rows)) /\ Alone
  <2>1. Ran'
    BY RanStep DEF ReferencesKept
  <2>2. CASE UNCHANGED vars
    BY <2>2 DEF vars, ReferencesKept, RefsHeld, Pending, Alone, Outer, Coming, Ready, Ran,
       Typed, StoreTyped, FramesTyped, LevelsCounted, StackTyped, Top
  <2>3. ASSUME NEW s \in ClientStmts, Call(s) PROVE Rest'
    <3>1. stack = <<>> /\ stack' = <<Frame(s)>> /\ rows' = rows
      BY <2>3 DEF Call
    <3>2. Outer'.phase = "begin"
      BY <3>1 DEF Outer, Frame
    <3>3. \A t \in Tables : Coming(t) = {}
      BY <3>1 DEF Coming, Pending
    <3>4. RefsHeld'
      BY <3>1, <3>3, KeptSame, HeldStill DEF ReferencesKept
    <3> QED
      BY <3>2, <3>4 DEF Pending, Alone
  <2>4. ASSUME Step PROVE Rest'
    <3>1. CASE Len(stack) # 1
      BY <2>4, <3>1, InnerStep
    <3>2. CASE Len(stack) = 1 /\ (BeginInsert \/ BeginDelete \/ BeginUpdate)
      BY <3>2, OuterBegins
    <3>3. CASE Len(stack) = 1 /\ (ApplyInsert \/ ApplyDelete \/ ApplyUpdate)
      BY <3>3, OuterApplies
    <3>4. CASE Len(stack) = 1 /\ (Raise \/ RunBody \/ Refused \/ BodyDone \/ LeaveBefore \/ LeaveAfter \/ UpdatePanics)
      BY <3>4, OuterRests
    <3> QED
      BY <2>4, <3>1, <3>2, <3>3, <3>4 DEF Step
  <2>5. Rest' => ReferencesKept'
    BY <2>1 DEF ReferencesKept
  <2> HIDE DEF Rest
  <2> QED
    BY <2>2, <2>3, <2>4, <2>5 DEF Next
<1>3. ReferencesKept => ReferencesExist
  <2> SUFFICES ASSUME ReferencesKept, AtRest, NEW c \in Tables, Parent[c] # None, NEW i \in DOMAIN rows[c]
               PROVE  rows[c][i].ref \in {None} \cup Ids(Parent[c])
    BY DEF ReferencesExist, Range
  <2>1. Coming(c) = {} /\ HasParent(c)
    BY DEF AtRest, Coming, Pending, HasParent
  <2> QED
    BY <2>1 DEF ReferencesKept, RefsHeld, RefsOf, KeysOf, Ids
<1> QED
  BY <1>1, <1>2, <1>3, PTL DEF Spec

-----------------------------------------------------------------------------
(* What a DELETE takes along.                                              *)

Unique(rs) == \A i, j \in DOMAIN rs : rs[i].id = rs[j].id => i = j

\* Each row of old that references none of the keys is among new.
Survive(old, new, keys) ==
    \A i \in DOMAIN old : old[i].ref \notin keys => \E j \in DOMAIN new : new[j] = old[i]

(* ON DELETE CASCADE removes children by their own key: that it takes no   *)
(* other row along rests on the keys of the children being unique.         *)
OrphansKept ==
    /\ Ran
    /\ \A c \in Tables : HasParent(c) => Unique(rows[c])
    /\ stack = <<>> \/ Outer.phase = "begin" => before = rows
    /\ stack # <<>> =>
         LET s == Outer.stmt
             t == s.table
         IN  /\ s.op = "UPDATE" /\ s.col = "id" /\ HasParent(t) =>
                  /\ Outer.phase # "AFTER" => s.val \notin KeysOf(rows[t])
                  /\ Pending => Outer.found = At(rows[t], s.id)
             /\ s.op = "DELETE" /\ Outer.phase # "begin" =>
                  \A c \in Children(t) : Survive(before[c], rows[c], s.ids)

LEMMA UniqueAppended ==
    ASSUME NEW rs \in Seq(Row), NEW r \in Row, Unique(rs), At(rs, r.id) = {}
    PROVE  Unique(Append(rs, r))
<1> DEFINE app == Append(rs, r)
           n == Len(rs) + 1
<1>1. DOMAIN app = DOMAIN rs \cup {n} /\ app[n] = r /\ \A i \in DOMAIN rs : app[i] = rs[i]
  BY RowPut
<1> HIDE DEF app, n
<1>2. Unique(app)
  BY <1>1 DEF Unique, At
<1> QED
  BY <1>2 DEF app

\* Rows that keep their keys, position by position.
LEMMA UniqueStill ==
    ASSUME NEW rs, NEW new, Unique(rs), DOMAIN new = DOMAIN rs, \A i \in DOMAIN rs : new[i].id = rs[i].id
    PROVE  Unique(new) /\ KeysOf(new) = KeysOf(rs) /\ \A k : At(new, k) = At(rs, k)
BY DEF Unique, KeysOf, At

LEMMA UniqueSet ==
    ASSUME NEW rs \in Seq(Row), NEW k, NEW v, Unique(rs), v \notin KeysOf(rs)
    PROVE  Unique(Set(rs, At(rs, k), "id", v))
<1> DEFINE new == Set(rs, At(rs, k), "id", v)
<1>0. \A i \in DOMAIN rs : rs[i] \in Row
  OBVIOUS
<1>1. DOMAIN new = DOMAIN rs
  BY DEF Set
<1>2. ASSUME NEW i \in DOMAIN rs PROVE new[i].id = IF i \in At(rs, k) THEN v ELSE rs[i].id
  BY <1>0 DEF Set, Row
<1> HIDE DEF new
<1>3. Unique(new)
  BY <1>1, <1>2 DEF Unique, At, KeysOf
<1> QED
  BY <1>3 DEF new

\* A cascade from deleted keys.
LEMMA CascadeSpares ==
    ASSUME StoreTyped, NEW c \in Tables, NEW gone, Unique(rows[c])
    PROVE  Unique(Cascade(c, gone).rows) /\ Survive(rows[c], Cascade(c, gone).rows, gone)
<1>1. rows[c] \in Seq(Row) /\ None \in Refs
  BY KeysTyped DEF Refs
<1>2. CASE OnDelete[c] = "CASCADE" /\ Orphans(c, gone) # {}
  <2> DEFINE ids == OrphanIds(c, gone)
             kept == Without(rows[c], ids)
  <2>1. Cascade(c, gone).rows = kept
    BY <1>2 DEF Cascade, CascadeDelete
  <2>2. ASSUME NEW i \in DOMAIN rows[c], rows[c][i].ref \notin gone PROVE rows[c][i].id \notin ids
    BY <2>2 DEF OrphanIds, Orphans, Unique
  <2> HIDE DEF ids
  <2>3. /\ \A i \in DOMAIN rows[c] : rows[c][i].id \notin ids => \E k \in DOMAIN kept : kept[k] = rows[c][i]
        /\ (\A i, j \in DOMAIN rows[c] : rows[c][i].id = rows[c][j].id => i = j)
             => \A k, l \in DOMAIN kept : kept[k].id = kept[l].id => k = l
    BY <1>1, Stayed
  <2> HIDE DEF kept
  <2> QED
    BY <2>1, <2>2, <2>3 DEF Survive, Unique
<1>3. CASE OnDelete[c] = "SET NULL"
  <2> DEFINE w == WriteRefs(c, gone, None).rows
  <2>1. Cascade(c, gone).rows = w
    BY <1>3 DEF Cascade
  <2>2. DOMAIN w = DOMAIN rows[c] /\ \A i \in DOMAIN rows[c] : w[i].id = rows[c][i].id
    BY <1>1, Written
  <2>3. \A i \in DOMAIN rows[c] : rows[c][i].ref \notin gone => w[i] = rows[c][i]
    BY DEF WriteRefs, Orphans
  <2> HIDE DEF w
  <2> QED
    BY <2>1, <2>2, <2>3, UniqueStill DEF Survive
<1>4. CASE OnDelete[c] # "SET NULL" /\ ~(OnDelete[c] = "CASCADE" /\ Orphans(c, gone) # {})
  <2>1. Cascade(c, gone).rows = rows[c]
    BY <1>4 DEF Cascade
  <2> QED
    BY <2>1 DEF Survive
<1> QED
  BY <1>2, <1>3, <1>4

\* A distant statement on top.
LEMMA DistantSpares ==
    ASSUME Typed, Step, stack # <<>>, Distant(Top.stmt), NEW c \in Tables, HasParent(c)
    PROVE  rows'[c] = rows[c]
<1>1. CASE BeginDelete
  <2>1. Children(Top.stmt.table) = {}
    BY <1>1 DEF BeginDelete, Is, Distant
  <2> QED
    BY <1>1, <2>1 DEF BeginDelete, Cascaded, Reached
<1>2. CASE BeginUpdate
  <2>1. rows' = rows \/ (Top.stmt.col = "id" /\ Top.stmt.op = "UPDATE" /\ rows' = Requeued(Top.stmt))
    BY <1>2 DEF BeginUpdate, Is
  <2> QED
    BY <2>1 DEF Distant, Requeued, Referencing
<1>3. CASE ApplyInsert \/ ApplyDelete \/ ApplyUpdate
  <2>1. c # Top.stmt.table
    BY <1>3 DEF ApplyInsert, ApplyDelete, ApplyUpdate, Is, Distant
  <2> QED
    BY <1>3, <2>1, OneWritten
<1>4. CASE UNCHANGED rows
  BY <1>4
<1> QED
  BY <1>1, <1>2, <1>3, <1>4
     DEF Step, Raise, BeginInsert, RunBody, Refused, BodyDone, LeaveBefore, LeaveAfter, UpdatePanics

\* A step that leaves the referencing tables and the outer statement alone.
LEMMA OrphansStay ==
    ASSUME OrphansKept, Step, stack # <<>>, \A c \in Tables : HasParent(c) => rows'[c] = rows[c],
           stack' # <<>> => /\ Outer'.stmt = Outer.stmt /\ Outer.stmt \in Statement(Nat)
                            /\ Outer'.phase = Outer.phase /\ Outer'.found = Outer.found /\ Outer.phase # "begin",
           before' = IF stack' = <<>> THEN rows' ELSE before, Ran'
    PROVE  OrphansKept'
<1>1. \A c \in Tables : HasParent(c) => Unique(rows'[c])
  BY DEF OrphansKept
<1>2. CASE stack' = <<>>
  BY <1>1, <1>2 DEF OrphansKept
<1>3. CASE stack' # <<>>
  <2> DEFINE s == Outer.stmt
             t == s.table
  <2>1. s.op # "RAISE" => t \in Tables
    BY <1>3, Fields
  <2>2. \A c \in Children(t) : t \in Tables => rows'[c] = rows[c]
    BY ForeignKeysAssumption DEF Children, HasParent
  <2>3. Pending' => Pending
    BY <1>3 DEF Pending
  <2>4. /\ s.op = "UPDATE" /\ s.col = "id" /\ HasParent(t) =>
                  /\ Outer.phase # "AFTER" => s.val \notin KeysOf(rows'[t])
                  /\ Pending' => Outer.found = At(rows'[t], s.id)
        /\ s.op = "DELETE" => \A c \in Children(t) : Survive(before'[c], rows'[c], s.ids)
    BY <1>3, <2>1, <2>2, <2>3 DEF OrphansKept
  <2> QED
    BY <1>1, <1>3, <2>4 DEF OrphansKept
<1> QED
  BY <1>2, <1>3

LEMMA OrphansBegun ==
    ASSUME OrphansKept, BeginInsert \/ BeginDelete \/ BeginUpdate, Len(stack) = 1,
           before' = IF stack' = <<>> THEN rows' ELSE before, Ran'
    PROVE  OrphansKept'
<1>0. Typed /\ StoreTyped /\ Ran
  BY DEF OrphansKept, Ran, Typed
<1>1. stack # <<>> /\ Top.phase = "begin"
  BY DEF BeginInsert, BeginDelete, BeginUpdate, InPhase
<1>2. Outer = Top /\ Outer.stmt \in Statement(Nat) /\ (stack' = Front(stack) => stack' = <<>>)
  BY <1>0, <1>1, OuterTyped
<1> DEFINE s == Outer.stmt
           t == s.table
<1>3. t \in Tables /\ s.op # "RAISE"
  BY <1>2, Fields DEF BeginInsert, BeginDelete, BeginUpdate, Is
<1>4. before = rows
  BY <1>1, <1>2 DEF OrphansKept
<1>5. ASSUME NEW found, EntersWith("BEFORE", found)
      PROVE  stack' # <<>> /\ Outer'.stmt = s /\ Outer'.found = found /\ Outer'.phase = "BEFORE"
  BY <1>0, <1>1, <1>5, OuterEnters
<1>6. ASSUME NEW found, Enter([Top EXCEPT !.found = found], "BEFORE")
      PROVE  stack' # <<>> /\ Outer'.stmt = s /\ Outer'.found = found /\ Outer'.phase = "BEFORE"
  <2>1. EntersWith("BEFORE", found)
    BY <1>0, <1>1, <1>6, Entered
  <2> QED
    BY <1>5, <2>1
<1>7. ASSUME stack' = <<>>, \A c \in Tables : HasParent(c) => Unique(rows'[c]) PROVE OrphansKept'
  BY <1>7 DEF OrphansKept
<1>8. CASE BeginInsert
  <2>1. rows' = rows /\ s.op = "INSERT" /\ stack' # <<>> /\ Outer'.stmt = s /\ Outer'.phase = "BEFORE"
    BY <1>2, <1>6, <1>8 DEF BeginInsert, Is
  <2> QED
    BY <2>1 DEF OrphansKept
<1>9. CASE BeginDelete
  <2> DEFINE gone == Ids(t) \cap s.ids
  <2>1. /\ s.op = "DELETE" /\ rows' = Cascaded(t, gone).rows
        /\ stack' = Front(stack) \/ Enter(Top, "BEFORE")
    BY <1>2, <1>9 DEF BeginDelete, Is, Return
  <2>2. gone \subseteq s.ids
    OBVIOUS
  <2> HIDE DEF gone, t
  <2>3. ASSUME NEW c \in Tables, HasParent(c)
        PROVE  Unique(rows'[c]) /\ Survive(rows[c], rows'[c], gone)
    <3>1. rows'[c] = IF c \in Reached(t, gone) THEN Cascade(c, gone).rows ELSE rows[c]
      BY <2>1 DEF Cascaded
    <3>2. Unique(rows[c]) /\ Survive(rows[c], rows[c], gone)
      BY <2>3 DEF OrphansKept, Survive
    <3> QED
      BY <1>0, <3>1, <3>2, CascadeSpares
  <2>4. CASE stack' = Front(stack)
    BY <1>2, <1>7, <2>3, <2>4
  <2>5. CASE Enter(Top, "BEFORE")
    <3>1. EntersWith("BEFORE", Top.found)
      BY <1>0, <1>1, <2>5, Entered
    <3>2. stack' # <<>> /\ Outer'.stmt = s /\ Outer'.phase = "BEFORE"
      BY <1>5, <3>1
    <3>3. \A c \in Children(t) : c \in Tables /\ HasParent(c)
      BY <1>3, ForeignKeysAssumption DEF Children, HasParent, t
    <3>4. \A c \in Children(t) : Survive(before'[c], rows'[c], s.ids)
      BY <1>4, <2>2, <2>3, <3>2, <3>3 DEF Survive
    <3> QED
      BY <2>1, <2>3, <3>2, <3>4 DEF OrphansKept, t
  <2> QED
    BY <2>1, <2>4, <2>5
<1>10. CASE BeginUpdate
  <2> DEFINE hits == Positions(t, s.id)
  <2>1. /\ s.op = "UPDATE"
        /\ \/ rows' = rows /\ stack' = Front(stack)
           \/ /\ rows' = IF s.col = "id" /\ hits # {} THEN Requeued(s) ELSE rows
              /\ Enter([Top EXCEPT !.found = hits], "BEFORE")
        /\ hits # {} => OldKeys(s) = {s.id}
    <3>1. s.op = "UPDATE"
      BY <1>2, <1>10 DEF BeginUpdate, Is
    <3>2. s.id \in Nat
      BY <1>2, <3>1, Fields
    <3>3. Hits(s) = hits /\ (hits # {} => OldKeys(s) = {s.id})
      BY <3>2, HitsNamed
    <3> HIDE DEF hits
    <3>4. \/ rows' = rows /\ stack' = Front(stack)
          \/ /\ rows' = IF s.col = "id" /\ Hits(s) # {} THEN Requeued(s) ELSE rows
             /\ Enter([Top EXCEPT !.found = Hits(s)], "BEFORE")
      BY <1>2, <1>10 DEF BeginUpdate, Return
    <3> QED
      BY <3>1, <3>3, <3>4
  <2>2. hits = At(rows[t], s.id)
    BY DEF Positions, At
  <2>3. rows'[t] = rows[t]
    BY <1>3, <2>1 DEF Requeued, Referencing, Children
  <2>4. ASSUME NEW c \in Tables, HasParent(c) PROVE Unique(rows'[c])
    <3>1. Unique(rows[c])
      BY <2>4 DEF OrphansKept
    <3>2. CASE rows'[c] = rows[c]
      BY <3>1, <3>2
    <3>3. CASE rows'[c] # rows[c]
      <4>1. s.col = "id" /\ rows'[c] = WriteRefs(c, {s.id}, s.val).rows
        BY <2>1, <3>3 DEF Requeued
      <4>2. s.val \in Refs
        BY <1>2, <2>1, <4>1, Fields DEF Refs
      <4> DEFINE w == WriteRefs(c, {s.id}, s.val).rows
      <4>3. DOMAIN w = DOMAIN rows[c] /\ \A i \in DOMAIN rows[c] : w[i].id = rows[c][i].id
        BY <1>0, <4>2, Written
      <4> HIDE DEF w
      <4>4. Unique(w)
        BY <3>1, <4>3, UniqueStill
      <4> QED
        BY <4>1, <4>4 DEF w
    <3> QED
      BY <3>2, <3>3
  <2>5. CASE stack' = Front(stack)
    BY <1>2, <1>7, <2>4, <2>5
  <2>6. CASE Enter([Top EXCEPT !.found = hits], "BEFORE")
    <3> HIDE DEF hits
    <3>1. stack' # <<>> /\ Outer'.stmt = s /\ Outer'.found = hits /\ Outer'.phase = "BEFORE"
      BY <1>6, <2>6
    <3>2. s.col = "id" /\ HasParent(t) => s.val \notin KeysOf(rows'[t])
      BY <1>1, <1>2, <2>1, <2>3 DEF OrphansKept
    <3> QED
      BY <2>1, <2>2, <2>3, <2>4, <3>1, <3>2 DEF OrphansKept
  <2> QED
    BY <2>1, <2>5, <2>6
<1> QED
  BY <1>8, <1>9, <1>10

LEMMA OrphansApplied ==
    ASSUME OrphansKept, ApplyInsert \/ ApplyDelete \/ ApplyUpdate, Len(stack) = 1,
           before' = IF stack' = <<>> THEN rows' ELSE before, Ran'
    PROVE  OrphansKept'
<1>0. Typed /\ StoreTyped /\ Ran
  BY DEF OrphansKept, Ran, Typed
<1>1. stack # <<>> /\ Top.phase = "apply"
  BY DEF ApplyInsert, ApplyDelete, ApplyUpdate, InPhase
<1>2. Outer = Top /\ Outer.stmt \in Statement(Nat) /\ (stack' = Front(stack) => stack' = <<>>)
  BY <1>0, <1>1, OuterTyped
<1> DEFINE s == Outer.stmt
<1>3. PICK t \in Tables : t = s.table /\ \A u \in Tables : u # t => rows'[u] = rows[u]
  BY <1>0, <1>2, OneWritten
<1>4. rows[t] \in Seq(Row) /\ \A i \in DOMAIN rows[t] : rows[t][i] \in Row
  BY <1>0, KeysTyped
<1>5. HasParent(t) => Unique(rows'[t])
  <2> SUFFICES ASSUME HasParent(t) PROVE Unique(rows'[t])
    OBVIOUS
  <2>1. Unique(rows[t])
    BY DEF OrphansKept
  <2>2. \A new : rows' = [rows EXCEPT ![t] = new] => rows'[t] = new
    BY <1>0 DEF StoreTyped
  <2>3. CASE ApplyInsert
    <3> DEFINE rs  == rows[t]
               row == [id |-> s.id, ref |-> s.ref]
               at  == Positions(t, s.id)
               m   == Max(at)
    <3>1. \/ rows'[t] = rs
          \/ at = {} /\ rows'[t] = Append(rs, row)
          \/ at # {} /\ rows'[t] = [rs EXCEPT ![m] = row]
          \/ at # {} /\ rows'[t] = [rs EXCEPT ![m].ref = s.set]
      BY <1>2, <1>3, <2>2, <2>3 DEF ApplyInsert, Applied
    <3>2. row \in Row /\ row.id = s.id /\ at = At(rs, s.id)
      BY <1>2, <2>3, Fields DEF ApplyInsert, Is, Row, At, Positions
    <3>3. at # {} => m \in DOMAIN rs /\ rs[m].id = s.id
      BY <1>0, LastAt
    <3>4. CASE at = {} /\ rows'[t] = Append(rs, row)
      <4> HIDE DEF rs, row, at
      <4> QED
        BY <1>4, <2>1, <3>2, <3>4, UniqueAppended DEF rs
    <3>5. ASSUME NEW new, DOMAIN new = DOMAIN rs, \A i \in DOMAIN rs : new[i].id = rs[i].id, rows'[t] = new
          PROVE  Unique(rows'[t])
      BY <2>1, <3>5, UniqueStill
    <3>6. CASE at # {} /\ rows'[t] = [rs EXCEPT ![m] = row]
      <4> HIDE DEF row, m, at
      <4> QED
        BY <3>2, <3>3, <3>5, <3>6
    <3>7. CASE at # {} /\ rows'[t] = [rs EXCEPT ![m].ref = s.set]
      <4> HIDE DEF row, m, at
      <4>1. \A i \in DOMAIN rs : [rs EXCEPT ![m].ref = s.set][i].id = rs[i].id
        BY <1>4 DEF Row
      <4> QED
        BY <3>5, <3>7, <4>1
    <3> QED
      BY <2>1, <3>1, <3>4, <3>6, <3>7
  <2>4. CASE ApplyDelete
    <3> DEFINE kept == Without(rows[t], s.ids)
    <3>1. rows'[t] = kept
      BY <1>2, <1>3, <2>2, <2>4 DEF ApplyDelete, Applied
    <3>2. (\A i, j \in DOMAIN rows[t] : rows[t][i].id = rows[t][j].id => i = j)
             => \A k, l \in DOMAIN kept : kept[k].id = kept[l].id => k = l
      BY <1>4, Stayed
    <3> HIDE DEF kept
    <3> QED
      BY <2>1, <3>1, <3>2 DEF Unique
  <2>5. CASE ApplyUpdate
    <3>1. /\ s.op = "UPDATE" /\ s.col \in {"id", "ref"}
          /\ rows'[t] = Set(rows[t], Outer.found, s.col, s.val)
      BY <1>0, <1>2, <1>3, <2>5, RefsUpdated
    <3>2. CASE s.col = "id"
      <4>1. s.val \notin KeysOf(rows[t]) /\ Outer.found = At(rows[t], s.id)
        BY <1>1, <1>2, <1>3, <3>1, <3>2 DEF OrphansKept, Pending
      <4> QED
        BY <1>4, <2>1, <3>1, <3>2, <4>1, UniqueSet
    <3>3. CASE s.col = "ref"
      <4> DEFINE new == Set(rows[t], Outer.found, "ref", s.val)
      <4>1. DOMAIN new = DOMAIN rows[t] /\ \A i \in DOMAIN rows[t] : new[i].id = rows[t][i].id
        BY <1>4 DEF Set, Row
      <4> HIDE DEF new
      <4>2. Unique(new)
        BY <2>1, <4>1, UniqueStill
      <4> QED
        BY <3>1, <3>3, <4>2 DEF new
    <3> QED
      BY <3>1, <3>2, <3>3
  <2> QED
    BY <2>3, <2>4, <2>5
<1>6. \A c \in Tables : HasParent(c) => Unique(rows'[c])
  BY <1>3, <1>5 DEF OrphansKept
<1>7. stack' = Front(stack) \/ \E new : Enter([Top EXCEPT !.new = new], "AFTER")
  <2>1. CASE ApplyInsert
    BY <2>1 DEF ApplyInsert, Applied, Return
  <2>2. CASE ApplyDelete
    BY <2>2 DEF ApplyDelete, Applied, Return
  <2>3. CASE ApplyUpdate
    BY <2>3 DEF ApplyUpdate, Applied, Return
  <2> QED
    BY <2>1, <2>2, <2>3
<1>8. CASE stack' = Front(stack)
  BY <1>2, <1>6, <1>8 DEF OrphansKept
<1>9. CASE \E new : Enter([Top EXCEPT !.new = new], "AFTER")
  <2>1. EntersWith("AFTER", Top.found)
    BY <1>0, <1>1, <1>9, Entered
  <2>2. stack' # <<>> /\ Outer'.stmt = s /\ Outer'.phase = "AFTER"
    BY <1>0, <1>1, <2>1, OuterEnters
  <2>3. ASSUME s.op = "DELETE", NEW c \in Children(s.table) PROVE Survive(before'[c], rows'[c], s.ids)
    <3>1. c \in Tables /\ c # t
      BY <1>3 DEF Children
    <3>2. Survive(before[c], rows[c], s.ids)
      BY <1>1, <1>2, <2>3 DEF OrphansKept
    <3> QED
      BY <1>3, <2>2, <3>1, <3>2
  <2> QED
    BY <1>6, <2>2, <2>3 DEF OrphansKept, Pending
<1> QED
  BY <1>7, <1>8, <1>9

LEMMA OrphansStep ==
    ASSUME BodiesApart, OrphansKept, [Next]_vars
    PROVE  OrphansKept'
<1>0. Ran /\ Ran' /\ Typed
  BY RanStep DEF OrphansKept, Ran
<1>1. CASE UNCHANGED vars
  BY <1>0, <1>1 DEF vars, OrphansKept, Pending, Outer
<1> SUFFICES ASSUME Next PROVE OrphansKept'
  BY <1>1
<1>2. before' = IF stack' = <<>> THEN rows' ELSE before
  BY DEF Next
<1>3. ASSUME NEW s \in ClientStmts, Call(s) PROVE OrphansKept'
  <2>1. stack = <<>> /\ stack' = <<Frame(s)>> /\ UNCHANGED rows /\ AssignsFreeKey(s)
    BY <1>3 DEF Call
  <2>2. stack' # <<>> /\ Outer'.phase = "begin" /\ Outer'.stmt = s
    BY <2>1 DEF Outer, Frame
  <2>3. s.op = "UPDATE" /\ s.col = "id" => s.val \notin KeysOf(rows[s.table])
    BY <2>1 DEF AssignsFreeKey, Ids, KeysOf
  <2> QED
    BY <1>0, <1>2, <2>1, <2>2, <2>3 DEF OrphansKept, Pending
<1>4. CASE Step /\ Len(stack) # 1
  <2>1. stack # <<>> /\ LevelsCounted
    BY <1>0, <1>4, StackMoved DEF Typed
  <2>2. Len(stack) \in DOMAIN stack /\ Top = stack[Len(stack)] /\ Len(stack) \in Nat \ {0} /\ 1 \in 1 .. Len(stack) - 1
    BY <1>0, <1>4, <2>1, TypedTop, TopTyped, OthersBelow
  <2>3. Distant(Top.stmt)
    <3>1. PICK body \in BodyTexts, of \in Nat \cup {None} : Top.stmt = Substituted(body, of)
      BY <1>0, <1>4, <2>2 DEF Ran, FromBody
    <3> DEFINE s == Substituted(body, of)
    <3>2. /\ s.op = body.op /\ s.table = body.table
          /\ s.op = "UPDATE" => s.col = body.col
      BY SubstitutedSame
    <3>3. Distant(body)
      BY DEF BodiesApart
    <3> HIDE DEF s
    <3>4. Distant(s)
      BY <3>2, <3>3 DEF Distant
    <3> QED
      BY <3>1, <3>4 DEF s
  <2>4. \A c \in Tables : HasParent(c) => rows'[c] = rows[c]
    BY <1>0, <1>4, <2>1, <2>3, DistantSpares
  <2>5. Outer.phase # "begin" /\ Outer.stmt \in Statement(Nat)
    BY <1>0, <2>1, <2>2, OuterTyped DEF LevelsCounted, Outer, Timings
  <2>6. stack' # <<>> => Outer'.stmt = Outer.stmt /\ Outer'.found = Outer.found /\ Outer'.phase = Outer.phase
    BY <1>0, <1>4, OuterStays
  <2> QED
    BY <1>0, <1>2, <1>4, <2>1, <2>4, <2>5, <2>6, OrphansStay
<1>5. CASE Len(stack) = 1 /\ (BeginInsert \/ BeginDelete \/ BeginUpdate)
  BY <1>0, <1>2, <1>5, OrphansBegun
<1>6. CASE Len(stack) = 1 /\ (ApplyInsert \/ ApplyDelete \/ ApplyUpdate)
  BY <1>0, <1>2, <1>6, OrphansApplied
<1>7. CASE Len(stack) = 1 /\ (Raise \/ Refused \/ LeaveAfter \/ UpdatePanics)
  <2>1. stack # <<>> /\ UNCHANGED rows /\ (stack' = Front(stack) \/ stack' = <<>>) /\ Step
    BY <1>7 DEF Raise, Refused, LeaveAfter, UpdatePanics, InPhase, BodyEnded, Return, Step
  <2>2. stack' = <<>>
    BY <1>0, <1>7, <2>1, OuterTyped
  <2> QED
    BY <1>0, <1>2, <2>1, <2>2, OrphansStay
<1>8. CASE Len(stack) = 1 /\ RunBody
  <2>1. /\ stack # <<>> /\ Len(stack) \in Nat \ {0} /\ DOMAIN stack' = 1 .. Len(stack) + 1
        /\ \A i \in DOMAIN stack : /\ stack'[i].stmt = stack[i].stmt /\ stack'[i].phase = stack[i].phase
                                   /\ stack'[i].found = stack[i].found
    BY <1>0, <1>8, BodyRun
  <2>2. 1 \in DOMAIN stack /\ Outer = Top /\ Outer.stmt \in Statement(Nat)
    BY <1>0, <1>8, <2>1, OuterTyped
  <2>3. Outer'.stmt = Outer.stmt /\ Outer'.phase = Outer.phase /\ Outer'.found = Outer.found /\ Outer.phase # "begin"
    BY <1>8, <2>1, <2>2 DEF Outer, RunBody, InTrigger, InPhase
  <2>4. UNCHANGED rows /\ Step
    BY <1>8 DEF RunBody, Step
  <2> QED
    BY <1>0, <1>2, <2>1, <2>2, <2>3, <2>4, OrphansStay
<1>9. CASE Len(stack) = 1 /\ BodyDone
  <2>1. stack # <<>> /\ UNCHANGED <<rows, stack>> /\ UNCHANGED before
    BY <1>2, <1>9 DEF BodyDone, BodyEnded
  <2> QED
    BY <1>0, <2>1 DEF OrphansKept, Pending, Outer
<1>10. CASE Len(stack) = 1 /\ LeaveBefore
  <2>1. PICK f : stack # <<>> /\ stack' = Front(stack) \o <<f>> /\ f.stmt = Top.stmt /\ f.found = Top.found /\ f.phase = "apply"
    BY <1>0, <1>10, LeftBefore
  <2>2. stack' # <<>> /\ stack'[1] = f
    BY <1>0, <1>10, <2>1, TopChanged DEF Typed
  <2>3. Outer = Top
    BY <1>0, <1>10, <2>1, OuterTyped
  <2>4. /\ Outer'.stmt = Outer.stmt /\ Outer'.found = Outer.found /\ Outer'.phase = "apply"
        /\ Outer.phase = "BEFORE" /\ UNCHANGED rows /\ before' = before
    BY <1>2, <1>10, <2>1, <2>2, <2>3 DEF Outer, LeaveBefore, InPhase
  <2> QED
    BY <1>0, <2>1, <2>2, <2>4 DEF OrphansKept, Pending
<1> QED
  BY <1>3, <1>4, <1>5, <1>6, <1>7, <1>8, <1>9, <1>10 DEF Next, Step

(* A DELETE takes along or sets to NULL only rows that referenced what it  *)
(* deletes.  CASCADE deletes a child by the child's own key, so this rests *)
(* on the keys of the children being unique: INSERT refuses a key that is  *)
(* there, REPLACE and DO UPDATE keep it, and the cascades give no new one. *)
THEOREM OrphansCorrect ==
    ASSUME BodiesApart
    PROVE  Spec => OnlyOrphansGo
<1>1. Init => OrphansKept
  <2> SUFFICES ASSUME Init PROVE OrphansKept
    OBVIOUS
  <2>1. Typed /\ DOMAIN stack = {} /\ stack = <<>> /\ before = rows /\ \A t \in Tables : rows[t] = <<>>
    BY InitTyped DEF Init
  <2> QED
    BY <2>1 DEF OrphansKept, Ran, Unique
<1> DEFINE Spared == Len(stack) = 1 /\ Is("DELETE") /\ returned' = "ok" =>
                       \A c \in Children(Top.stmt.table) :
                          \A r \in Range(before[c]) : r.ref \notin Top.stmt.ids => r \in Range(rows'[c])
<1>2. OrphansKept /\ [Next]_vars => [Spared]_vars
  <2> SUFFICES ASSUME OrphansKept, Next, Len(stack) = 1, Is("DELETE"), returned' = "ok", NEW c \in Children(Top.stmt.table),
                      NEW i \in DOMAIN before[c], before[c][i].ref \notin Top.stmt.ids
               PROVE  before[c][i] \in Range(rows'[c])
    BY DEF Range
  <2>1. Typed
    BY DEF OrphansKept, Ran
  <2>2. ApplyDelete \/ LeaveAfter
    BY DEF Next, Step, Call, Raise, BeginInsert, BeginDelete, BeginUpdate, RunBody, InTrigger, InPhase, Refused, BodyDone,
       LeaveBefore, ApplyInsert, ApplyUpdate, UpdatePanics, Is, Enter, Return
  <2>3. stack # <<>> /\ Top.phase # "begin"
    BY <2>2 DEF ApplyDelete, LeaveAfter, InPhase
  <2>4. Outer = Top
    BY <2>1, <2>3, OuterTyped
  <2>5. Survive(before[c], rows[c], Top.stmt.ids)
    BY <2>3, <2>4 DEF OrphansKept, Is
  <2>6. rows'[c] = rows[c]
    <3>1. c \in Tables /\ c # Top.stmt.table
      BY DEF Children
    <3> QED
      BY <2>1, <2>2, <3>1, OneWritten DEF LeaveAfter
  <2> QED
    BY <2>5, <2>6 DEF Survive, Range
<1> QED
  BY <1>1, <1>2, OrphansStep, PTL DEF Spec, OnlyOrphansGo

-----------------------------------------------------------------------------
(* What a refused statement leaves.                                        *)

LEMMA TableSpared ==
    ASSUME Typed, Step, stack # <<>>, NEW t \in Tables, Spares(Top.stmt, t)
    PROVE  rows'[t] = rows[t]
<1>1. CASE BeginDelete
  <2>1. t \notin Children(Top.stmt.table)
    BY <1>1 DEF BeginDelete, Is, Spares
  <2> QED
    BY <1>1, <2>1 DEF BeginDelete, Cascaded, Reached
<1>2. CASE BeginUpdate
  <2>1. t \notin Children(Top.stmt.table)
    BY <1>2 DEF BeginUpdate, Is, Spares
  <2> QED
    BY <1>2, <2>1 DEF BeginUpdate, Requeued, Referencing
<1>3. CASE ApplyInsert \/ ApplyDelete \/ ApplyUpdate
  BY <1>3, OneWritten DEF Spares
<1>4. CASE UNCHANGED rows
  BY <1>4
<1> QED
  BY <1>1, <1>2, <1>3, <1>4
     DEF Step, Raise, BeginInsert, RunBody, Refused, BodyDone, LeaveBefore, LeaveAfter, UpdatePanics

\* While the outer statement's BEFORE triggers run: only bodies from S do.
Running(S, t) ==
    /\ \A i \in DOMAIN stack : /\ Range(stack[i].todo) \subseteq S
                               /\ i # 1 => \E body \in S : body.op = stack[i].stmt.op /\ body.table = stack[i].stmt.table
    /\ rows[t] = before[t]

LEMMA RunningStep ==
    ASSUME Typed, Step, before' = before, stack' # <<>>, Len(stack) # 1 \/ RunBody \/ BodyDone,
           NEW t \in Tables, NEW S \in SUBSET BodyTexts, Closed(S), \A body \in S : Spares(body, t), Running(S, t)
    PROVE  Running(S, t)'
<1>0. stack # <<>> /\ StackMoves /\ LevelsCounted
  BY StackMoved DEF Typed
<1>1. Len(stack) \in DOMAIN stack /\ Top = stack[Len(stack)] /\ FrameTyped(Top)
  BY <1>0, TypedTop
<1>2. rows'[t] = before'[t]
  <2>1. CASE Len(stack) # 1
    <3>1. PICK body \in S : body.op = Top.stmt.op /\ body.table = Top.stmt.table
      BY <1>1, <2>1 DEF Running
    <3>2. Spares(Top.stmt, t)
      BY <3>1 DEF Spares
    <3> QED
      BY <1>0, <3>2, TableSpared DEF Running
  <2>2. CASE RunBody \/ BodyDone
    BY <2>2 DEF RunBody, BodyDone, Running
  <2> QED
    BY <2>1, <2>2
<1> DEFINE Good(i) == /\ Range(stack'[i].todo) \subseteq S
                      /\ i # 1 => \E body \in S : body.op = stack'[i].stmt.op /\ body.table = stack'[i].stmt.table
<1> SUFFICES \A i \in DOMAIN stack' : Good(i)
  BY <1>2 DEF Running
<1>3. ASSUME NEW i \in DOMAIN stack, stack'[i] = stack[i] PROVE Good(i)
  BY <1>3 DEF Running
<1>4. CASE stack' \in {stack, <<>>, Front(stack)}
  <2>1. \A i \in DOMAIN stack' : i \in DOMAIN stack /\ stack'[i] = stack[i]
    BY <1>0, <1>4, TopPopped
  <2> HIDE DEF Good
  <2> QED
    BY <1>3, <2>1
<1>5. ASSUME NEW f, stack' = Front(stack) \o <<f>>, f.stmt = Top.stmt, Range(f.todo) \subseteq S
      PROVE  \A i \in DOMAIN stack' : Good(i)
  <2>1. DOMAIN stack' = DOMAIN stack /\ \A i \in DOMAIN stack : stack'[i] = IF i = Len(stack) THEN f ELSE stack[i]
    BY <1>0, <1>5, TopSet
  <2>2. Good(Len(stack))
    BY <1>1, <1>5, <2>1 DEF Running
  <2> HIDE DEF Good
  <2> QED
    BY <1>3, <2>1, <2>2
<1>6. CASE \E f : stack' = Front(stack) \o <<f>> /\ f.stmt = Top.stmt /\ f.todo = <<>>
  <2>1. Range(<<>>) \subseteq S
    BY DEF Range
  <2> HIDE DEF Good
  <2> QED
    BY <1>5, <1>6, <2>1
<1>7. ASSUME NEW timing \in Timings, NEW found, EntersWith(timing, found), Len(stack) # 1, Top.stmt.op # "RAISE"
      PROVE  \A i \in DOMAIN stack' : Good(i)
  <2>1. PICK f : /\ stack' = Front(stack) \o <<f>> /\ f.stmt = Top.stmt
                 /\ f.todo \in {<<>>, Bodies[<<Top.stmt.table, timing, Top.stmt.op>>]}
    BY <1>7 DEF EntersWith
  <2>2. PICK body \in S : body.op = Top.stmt.op /\ body.table = Top.stmt.table
    BY <1>1, <1>7 DEF Running
  <2>3. Range(Bodies[<<Top.stmt.table, timing, Top.stmt.op>>]) \subseteq S
    BY <1>7, <2>2 DEF Closed
  <2>4. Range(<<>>) \subseteq S
    BY DEF Range
  <2> HIDE DEF Good
  <2> QED
    BY <1>5, <2>1, <2>3, <2>4
<1>8. CASE RunBody
  <2> DEFINE n == Len(stack)
             body == Head(Top.todo)
  <2>1. /\ \A i \in DOMAIN stack : /\ stack'[i].stmt = stack[i].stmt
                                   /\ stack'[i].todo = IF i = n THEN Tail(Top.todo) ELSE stack[i].todo
        /\ stack'[n + 1].todo = <<>> /\ Top.todo # <<>> /\ body \in BodyTexts
        /\ stack'[n + 1].stmt = Substituted(body, Top.new)
        /\ DOMAIN stack = 1 .. n /\ DOMAIN stack' = 1 .. n + 1 /\ n \in Nat \ {0}
    BY <1>8, BodyRun
  <2>2. Range(Top.todo) \subseteq S
    BY <1>1 DEF Running
  <2>3. body \in S /\ Range(Tail(Top.todo)) \subseteq S
    <3>1. Top.todo \in Seq(Statement(Names))
      BY <1>1 DEF FrameTyped
    <3>2. /\ Len(Top.todo) \in Nat \ {0} /\ DOMAIN Top.todo = 1 .. Len(Top.todo) /\ body = Top.todo[1]
          /\ \A k \in DOMAIN Tail(Top.todo) : k + 1 \in DOMAIN Top.todo /\ Tail(Top.todo)[k] = Top.todo[k + 1]
      BY <2>1, <3>1
    <3> QED
      BY <2>2, <3>2 DEF Range
  <2>4. \A i \in DOMAIN stack' : i \in DOMAIN stack \/ i = n + 1
    BY <2>1
  <2>5. \A i \in DOMAIN stack : Good(i)
    BY <2>1, <2>3 DEF Running
  <2>6. Good(n + 1)
    <3>1. Substituted(body, Top.new).op = body.op /\ Substituted(body, Top.new).table = body.table
      BY <2>1, SubstitutedSame
    <3>2. Range(<<>>) \subseteq S
      BY DEF Range
    <3> QED
      BY <2>1, <2>3, <3>1, <3>2
  <2> HIDE DEF Good
  <2> QED
    BY <2>4, <2>5, <2>6
<1>9. CASE BodyDone
  <2>1. stack' = stack
    BY <1>9 DEF BodyDone
  <2> HIDE DEF Good
  <2> QED
    BY <1>4, <2>1
<1> HIDE DEF Good
<1> QED
  BY <1>0, <1>4, <1>6, <1>7, <1>8, <1>9 DEF StackMoves

\* The same for bodies that cannot fail: one runs at a time, and ends well.
SureRun ==
    /\ \A body \in Range(Outer.todo) : Sure(body)
    /\ Len(stack) = 1 => returned = "none" \/ (returned = "ok" /\ raised = FALSE)
    /\ Len(stack) # 1 => /\ Len(stack) = 2 /\ raised = FALSE /\ returned = "none"
                         /\ Sure(Top.stmt) /\ Top.todo = <<>>

LEMMA SureStep ==
    ASSUME Typed, Step, stack # <<>>, stack' # <<>>, Outer.phase = "BEFORE", Len(stack) # 1 \/ RunBody \/ BodyDone, SureRun
    PROVE  SureRun'
<1>0. LevelsCounted /\ Len(stack) \in Nat \ {0} /\ Top = stack[Len(stack)] /\ FrameTyped(Top)
  BY TopTyped, TypedTop DEF Typed
<1>1. CASE RunBody
  <2> DEFINE body == Head(Top.todo)
  <2>1. /\ Len(stack') = Len(stack) + 1 /\ Top.todo # <<>> /\ body \in BodyTexts
        /\ \A i \in DOMAIN stack : stack'[i].todo = IF i = Len(stack) THEN Tail(Top.todo) ELSE stack[i].todo
        /\ stack'[Len(stack) + 1].todo = <<>> /\ stack'[Len(stack) + 1].stmt = Substituted(body, Top.new)
        /\ Top' = stack'[Len(stack) + 1] /\ DOMAIN stack = 1 .. Len(stack)
    BY <1>1, BodyRun
  <2>2. Len(stack) = 1
    BY <2>1 DEF SureRun
  <2>3. Outer = Top /\ Outer'.todo = Tail(Top.todo)
    BY <1>0, <2>1, <2>2 DEF Outer
  <2>4. raised' = FALSE /\ returned' = "none"
    BY <1>1, <2>3 DEF RunBody, InTrigger, InPhase
  <2>5. body \in Range(Top.todo) /\ Range(Tail(Top.todo)) \subseteq Range(Top.todo)
    <3>1. Top.todo \in Seq(Statement(Names))
      BY <1>0 DEF FrameTyped
    <3>2. /\ DOMAIN Top.todo = 1 .. Len(Top.todo) /\ body = Top.todo[1] /\ 1 \in DOMAIN Top.todo
          /\ \A k \in DOMAIN Tail(Top.todo) : k + 1 \in DOMAIN Top.todo /\ Tail(Top.todo)[k] = Top.todo[k + 1]
      BY <2>1, <3>1
    <3> QED
      BY <3>2 DEF Range
  <2>6. Sure(Top'.stmt)
    <3>1. Sure(body)
      BY <2>3, <2>5 DEF SureRun
    <3>2. Substituted(body, Top.new).op = body.op /\ Substituted(body, Top.new).table = body.table
      BY <2>1, SubstitutedSame
    <3> QED
      BY <2>1, <3>1, <3>2 DEF Sure
  <2>7. \A b \in Range(Outer'.todo) : Sure(b)
    BY <2>3, <2>5 DEF SureRun
  <2>8. Len(stack') = 2
    BY <2>1, <2>2
  <2> HIDE DEF body
  <2> QED
    BY <2>1, <2>4, <2>6, <2>7, <2>8 DEF SureRun
<1>2. CASE BodyDone
  <2>1. stack' = stack /\ returned' = "none" /\ raised' = raised /\ returned # "none"
    BY <1>2 DEF BodyDone, BodyEnded
  <2>2. Len(stack) = 1
    BY <2>1 DEF SureRun
  <2> QED
    BY <2>1, <2>2 DEF SureRun, Outer
<1>3. ASSUME ~RunBody, ~BodyDone PROVE SureRun'
  <2>1. Len(stack) = 2 /\ returned = "none" /\ raised = FALSE /\ Sure(Top.stmt) /\ Top.todo = <<>>
    BY <1>3 DEF SureRun
  <2>2. BeginDelete \/ LeaveBefore \/ LeaveAfter \/ ApplyDelete
    BY <1>3, <2>1 DEF Step, Sure, Raise, BeginInsert, BeginUpdate, ApplyInsert, ApplyUpdate, UpdatePanics, Refused, BodyEnded, Is
  <2>3. raised' = FALSE
    BY <2>1, <2>2 DEF BeginDelete, LeaveBefore, LeaveAfter, ApplyDelete
  <2>4. ASSUME stack' = Front(stack), returned' = "ok" PROVE SureRun'
    <3>1. Len(stack') = Len(stack) - 1 /\ DOMAIN stack' = 1 .. Len(stack') /\ \A i \in DOMAIN stack' : stack'[i] = stack[i]
      BY <1>0, <2>4, TopPopped
    <3>2. Len(stack') = 1 /\ stack'[1] = stack[1]
      BY <2>1, <3>1
    <3> QED
      BY <2>3, <2>4, <3>2 DEF SureRun, Outer
  <2>5. ASSUME NEW f, stack' = Front(stack) \o <<f>>, f.stmt = Top.stmt, f.todo = <<>>, returned' = "none" PROVE SureRun'
    <3>1. /\ Len(stack') = Len(stack) /\ Top' = f
          /\ \A i \in DOMAIN stack : stack'[i] = IF i = Len(stack) THEN f ELSE stack[i]
          /\ DOMAIN stack = 1 .. Len(stack)
      BY <1>0, <2>5, TopSet
    <3>2. Len(stack') = 2 /\ stack'[1] = stack[1]
      BY <2>1, <3>1
    <3> QED
      BY <2>1, <2>3, <2>5, <3>1, <3>2 DEF SureRun, Outer
  <2>6. ASSUME NEW timing \in Timings, NEW found, EntersWith(timing, found), returned' = "none" PROVE SureRun'
    <3>1. PICK f : /\ stack' = Front(stack) \o <<f>> /\ f.stmt = Top.stmt
                   /\ f.todo \in {<<>>, Bodies[<<Top.stmt.table, timing, Top.stmt.op>>]}
      BY <2>6 DEF EntersWith
    <3>2. f.todo = <<>>
      BY <2>1, <3>1 DEF Sure
    <3> QED
      BY <2>5, <2>6, <3>1, <3>2
  <2>7. CASE BeginDelete
    <3>1. Enter(Top, "BEFORE") /\ returned' = "none"
      <4>1. ~Cascaded(Top.stmt.table, Ids(Top.stmt.table) \cap Top.stmt.ids).failed
        BY <2>1 DEF Cascaded, Sure
      <4> QED
        BY <2>1, <2>7, <4>1 DEF BeginDelete
    <3> QED
      BY <2>6, <3>1, Entered DEF Timings
  <2>8. CASE LeaveBefore
    <3>1. returned' = "none"
      BY <2>1, <2>8 DEF LeaveBefore
    <3> QED
      BY <2>5, <2>8, <3>1, LeftBefore
  <2>9. CASE LeaveAfter
    BY <2>4, <2>9 DEF LeaveAfter, Return
  <2>10. CASE ApplyDelete
    <3>1. \/ stack' = Front(stack) /\ returned' = "ok"
          \/ Enter([Top EXCEPT !.new = None], "AFTER") /\ returned' = "none"
      BY <2>1, <2>10 DEF ApplyDelete, Applied, Return
    <3> QED
      BY <2>4, <2>6, <3>1, Entered DEF Timings
  <2> QED
    BY <2>2, <2>7, <2>8, <2>9, <2>10
<1> QED
  BY <1>1, <1>2, <1>3

\* What the outer statement's BEFORE triggers have left of its table.
Apart(t) == \/ \E S \in SUBSET BodyTexts : Closed(S) /\ (\A body \in S : Spares(body, t)) /\ Running(S, t)
            \/ SureRun

TargetKept ==
    /\ Typed
    /\ stack = <<>> \/ Outer.phase = "begin" => before = rows
    /\ stack # <<>> /\ Outer.phase = "BEFORE" => \E t \in Tables : t = Outer.stmt.table /\ Apart(t)

\* The outer statement begins: its own table is as it was.
LEMMA TargetBegins ==
    ASSUME RefusalsApart, Typed, BeginInsert \/ BeginDelete \/ BeginUpdate, before = rows, before' = before,
           Len(stack) = 1, stack' # <<>>
    PROVE  Outer'.phase = "BEFORE" /\ \E t \in Tables : t = Outer'.stmt.table /\ Apart(t)'
<1>1. stack # <<>> /\ returned = "none" /\ Top.phase = "begin"
  BY DEF BeginInsert, BeginDelete, BeginUpdate, InPhase
<1>2. Outer = Top /\ Outer.stmt \in Statement(Names) /\ (stack' = Front(stack) => stack' = <<>>)
  BY <1>1, OuterTyped, TypedTop DEF FrameTyped
<1>3. PICK t \in Tables, op \in Events : t = Outer.stmt.table /\ op = Outer.stmt.op
  BY <1>2, Fields DEF BeginInsert, BeginDelete, BeginUpdate, Is, Events
<1>4. \E found : Enter([Top EXCEPT !.found = found], "BEFORE") /\ returned' = "none"
  <2>1. CASE BeginInsert
    BY <1>1, <2>1 DEF BeginInsert
  <2>2. CASE BeginDelete
    <3>1. Enter(Top, "BEFORE") /\ returned' = "none"
      BY <1>1, <1>2, <2>2 DEF BeginDelete, Return
    <3>2. Top = [Top EXCEPT !.found = Top.found]
      <4>1. Top = TopWith(Top.found, Top.new) /\ \A found : [Top EXCEPT !.found = found] = TopWith(found, Top.new)
        BY <1>1, TopTyped DEF Typed
      <4> QED
        BY <4>1
    <3>3. Enter([Top EXCEPT !.found = Top.found], "BEFORE")
      BY <3>1, <3>2
    <3> QED
      BY <3>1, <3>3
  <2>3. CASE BeginUpdate
    BY <1>1, <1>2, <2>3 DEF BeginUpdate, Return
  <2> QED
    BY <2>1, <2>2, <2>3
<1>5. PICK found : EntersWith("BEFORE", found) /\ returned' = "none"
  BY <1>1, <1>4, Entered
<1>6. /\ stack' # <<>> /\ Len(stack') = 1 /\ Outer'.stmt = Outer.stmt /\ Outer'.phase = "BEFORE"
      /\ Outer'.todo \in {<<>>, Bodies[<<t, "BEFORE", op>>]}
  BY <1>1, <1>3, <1>5, OuterEnters
<1>7. rows'[t] = before'[t]
  <2>1. t \notin Children(t)
    BY DEF Children
  <2>2. CASE BeginInsert
    BY <2>2 DEF BeginInsert
  <2>3. CASE BeginDelete
    BY <1>2, <1>3, <2>1, <2>3 DEF BeginDelete, Cascaded, Reached
  <2>4. CASE BeginUpdate
    BY <1>2, <1>3, <2>1, <2>4 DEF BeginUpdate, Requeued, Referencing
  <2> QED
    BY <2>2, <2>3, <2>4
<1>8. DOMAIN stack' = {1}
  <2>1. Typed'
    BY TypedStep DEF Next, Step
  <2>2. PICK S, F : stack' \in Seq(Frames(S, F))
    BY <2>1 DEF Typed, LevelsCounted, StackTyped
  <2> QED
    BY <1>6, <2>2
<1>9. Range(Outer'.todo) \subseteq Range(Bodies[<<t, "BEFORE", op>>])
  <2>1. Range(<<>>) = {}
    BY DEF Range
  <2> QED
    BY <1>6, <2>1
<1>10. Apart(t)'
  <2>1. ASSUME NEW S \in SUBSET BodyTexts, Range(Bodies[<<t, "BEFORE", op>>]) \subseteq S PROVE Running(S, t)'
    BY <1>7, <1>8, <1>9, <2>1 DEF Running, Outer
  <2>2. ASSUME \A body \in Range(Bodies[<<t, "BEFORE", op>>]) : Sure(body) PROVE SureRun'
    BY <1>5, <1>6, <1>9, <2>2 DEF SureRun
  <2> QED
    BY <1>3, <2>1, <2>2 DEF RefusalsApart, Apart
<1> QED
  BY <1>3, <1>6, <1>10

LEMMA TargetStep == RefusalsApart /\ TargetKept /\ [Next]_vars => TargetKept'
<1> SUFFICES ASSUME RefusalsApart, TargetKept, [Next]_vars PROVE TargetKept'
  OBVIOUS
<1>0. Typed /\ Typed'
  BY TypedStep DEF TargetKept
<1>1. CASE UNCHANGED vars
  BY <1>0, <1>1 DEF vars, TargetKept, Outer, Apart, Running, SureRun, Top
<1>2. ASSUME NEW s \in ClientStmts, Call(s), Next PROVE TargetKept'
  <2>1. stack' = <<Frame(s)>> /\ stack = <<>> /\ rows' = rows /\ stack' # <<>> /\ stack'[1].phase = "begin"
    BY <1>2 DEF Call, Frame
  <2>2. before' = before
    BY <1>2, <2>1 DEF Next
  <2> QED
    BY <1>0, <2>1, <2>2 DEF TargetKept, Outer
<1>3. ASSUME Step, Next PROVE TargetKept'
  <2>0. stack # <<>> /\ LevelsCounted /\ Len(stack) \in Nat \ {0}
    BY <1>0, <1>3, StackMoved, TopTyped DEF Typed
  <2>1. CASE stack' = <<>>
    BY <1>0, <1>3, <2>1 DEF TargetKept, Next
  <2>2. ASSUME stack' # <<>> PROVE TargetKept'
    <3>1. before' = before
      BY <1>3, <2>2 DEF Next
    <3>2. Len(stack) # 1 => Outer.phase \in Timings
      <4>1. Len(stack) # 1 => 1 \in 1 .. Len(stack) - 1
        BY <2>0, OthersBelow
      <4> QED
        BY <2>0, <4>1 DEF LevelsCounted, Outer
    <3>3. Len(stack) = 1 => Outer = Top
      BY <1>0, <2>0, OuterTyped
    <3>4. ASSUME Len(stack) # 1 \/ RunBody \/ BodyDone
          PROVE  Outer'.stmt = Outer.stmt /\ Outer'.phase = Outer.phase
      <4>1. CASE Len(stack) # 1
        BY <1>0, <1>3, <2>2, <4>1, OuterStays
      <4>2. CASE RunBody
        <5>1. /\ \A i \in DOMAIN stack : stack'[i].stmt = stack[i].stmt /\ stack'[i].phase = stack[i].phase
              /\ 1 \in DOMAIN stack
          BY <1>0, <2>0, <4>2, BodyRun, OuterTyped
        <5> QED
          BY <5>1 DEF Outer
      <4>3. CASE BodyDone
        BY <4>3 DEF BodyDone, Outer
      <4> QED
        BY <3>4, <4>1, <4>2, <4>3
    <3>5. CASE Outer.phase = "BEFORE" /\ (Len(stack) # 1 \/ RunBody \/ BodyDone)
      <4>1. Outer'.stmt = Outer.stmt /\ Outer'.phase = "BEFORE"
        BY <3>4, <3>5
      <4>2. PICK t \in Tables : t = Outer.stmt.table /\ Apart(t)
        BY <2>0, <3>5 DEF TargetKept
      <4>3. ASSUME NEW S \in SUBSET BodyTexts, Closed(S), \A body \in S : Spares(body, t), Running(S, t)
            PROVE  Running(S, t)'
        BY <1>0, <1>3, <2>2, <3>1, <3>5, <4>2, <4>3, RunningStep
      <4>4. SureRun => SureRun'
        BY <1>0, <1>3, <2>0, <2>2, <3>5, SureStep
      <4>5. Apart(t)'
        BY <4>2, <4>3, <4>4 DEF Apart
      <4> QED
        BY <1>0, <2>2, <4>1, <4>2, <4>5 DEF TargetKept
    <3>6. CASE Outer.phase = "begin"
      <4>1. Len(stack) = 1 /\ Outer = Top /\ before = rows
        BY <3>2, <3>3, <3>6 DEF Timings, TargetKept
      <4>2. CASE BeginInsert \/ BeginDelete \/ BeginUpdate
        BY <1>0, <2>2, <3>1, <4>1, <4>2, TargetBegins DEF TargetKept
      <4>3. CASE BodyDone
        <5>1. stack' = stack /\ rows' = rows
          BY <4>3 DEF BodyDone
        <5> QED
          BY <1>0, <3>1, <3>6, <4>1, <5>1 DEF TargetKept, Outer
      <4>4. CASE Raise
        <5>1. stack' = Front(stack)
          BY <4>4 DEF Raise, Return
        <5> QED
          BY <1>0, <2>0, <2>2, <4>1, <5>1, OuterTyped
      <4> QED
        BY <1>3, <3>6, <4>1, <4>2, <4>3, <4>4
           DEF Step, RunBody, InTrigger, InPhase, Refused, LeaveBefore, LeaveAfter, ApplyInsert, ApplyDelete, ApplyUpdate, UpdatePanics
    <3>7. ASSUME Outer'.phase \notin {"begin", "BEFORE"} PROVE TargetKept'
      BY <1>0, <2>2, <3>7 DEF TargetKept
    <3>8. CASE Outer.phase # "BEFORE" /\ Outer.phase # "begin" /\ (Len(stack) # 1 \/ RunBody \/ BodyDone)
      BY <3>4, <3>7, <3>8
    <3>9. CASE Outer.phase # "begin" /\ Len(stack) = 1 /\ ~RunBody /\ ~BodyDone
      <4>1. stack' # Front(stack)
        BY <1>0, <2>0, <2>2, <3>9, OuterTyped
      <4>2. (\E found : EntersWith("AFTER", found)) \/ LeaveBefore
        <5>1. (\E new : Enter([Top EXCEPT !.new = new], "AFTER")) \/ LeaveBefore
          BY <1>3, <2>2, <3>3, <3>9, <4>1 DEF Step, Raise, BeginInsert, BeginDelete, BeginUpdate, InPhase, Refused, LeaveAfter, Return,
             ApplyInsert, ApplyDelete, ApplyUpdate, Applied, UpdatePanics
        <5> QED
          BY <1>0, <2>0, <5>1, Entered
      <4>3. ASSUME NEW f, stack' = Front(stack) \o <<f>> PROVE Outer' = f
        BY <2>0, <3>9, <4>3, TopChanged DEF Outer
      <4>4. Outer'.phase \in {"AFTER", "apply"}
        BY <1>0, <4>2, <4>3, LeftBefore DEF EntersWith
      <4> QED
        BY <3>7, <4>4
    <3> QED
      BY <3>5, <3>6, <3>8, <3>9
  <2> QED
    BY <2>1, <2>2
<1> QED
  BY <1>1, <1>2, <1>3 DEF Next

(* RESTRICT, an UPDATE to a dangling value, a BEFORE trigger: whichever    *)
(* refuses a statement, its own table is what it was, because a statement  *)
(* cascades to other tables only and its BEFORE triggers, by the premise,  *)
(* have not written this one.                                              *)
THEOREM RefusalsCorrect ==
    ASSUME RefusalsApart
    PROVE  Spec => RefusedKeepsTarget
<1>1. Init => TargetKept
  BY InitTyped DEF Init, TargetKept
<1> DEFINE Kept1 == Len(stack) = 1 /\ returned' = "error" /\ Top.phase # "apply"
                      => rows'[Top.stmt.table] = before[Top.stmt.table]
<1>2. TargetKept /\ [Next]_vars => [Kept1]_vars
  <2> SUFFICES ASSUME TargetKept, Next, Len(stack) = 1, returned' = "error", Top.phase # "apply"
               PROVE  rows'[Top.stmt.table] = before[Top.stmt.table]
    OBVIOUS
  <2>1. Typed /\ stack # <<>>
    BY DEF TargetKept
  <2>2. Step /\ Outer = Top
    BY <2>1, OuterTyped DEF Next, Call
  <2>3. CASE Raise
    BY <2>1, <2>2, <2>3 DEF Raise, InPhase, TargetKept
  <2>4. CASE BeginDelete \/ BeginUpdate
    <3>1. before = rows /\ Top.stmt.table \notin Children(Top.stmt.table)
      BY <2>1, <2>2, <2>4 DEF BeginDelete, BeginUpdate, InPhase, TargetKept, Children
    <3>2. Top.stmt.table \in Tables
      BY <2>1, <2>4, TypedTop, Fields DEF BeginDelete, BeginUpdate, Is, FrameTyped
    <3> QED
      BY <2>4, <3>1, <3>2 DEF BeginDelete, BeginUpdate, Cascaded, Reached, Requeued, Referencing
  <2>5. CASE Refused
    <3>1. rows' = rows /\ (\E t \in Tables : t = Top.stmt.table /\ Apart(t)) /\ (returned = "error" \/ raised) /\ returned # "none"
      BY <2>1, <2>2, <2>5 DEF Refused, BodyEnded, TargetKept
    <3>2. ~SureRun
      BY <3>1 DEF SureRun
    <3> QED
      BY <3>1, <3>2 DEF Apart, Running
  <2> QED
    BY <2>2, <2>3, <2>4, <2>5
       DEF Step, BeginInsert, RunBody, InTrigger, InPhase, BodyDone, LeaveBefore, LeaveAfter, ApplyInsert, ApplyDelete, ApplyUpdate,
           Applied, Return, UpdatePanics
<1> QED
  BY <1>1, <1>2, TargetStep, PTL DEF Spec, RefusedKeepsTarget
=============================================================================
