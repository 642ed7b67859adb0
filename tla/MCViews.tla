------------------------------ MODULE MCViews ------------------------------
(* Views for TLC: tables t and u, views v (over tables) and w (over v or   *)
(* over tables), a CTE c.                                                  *)
EXTENDS Views

MCTemps == <<"__a3sql_derived_1", "__a3sql_derived_2">>

Of(n) == Query(<<Named(n)>>)
Both(n, m) == Query(<<Named(n), Named(m)>>)

MCDefs ==
    [n \in Names |->
      CASE n = "v" -> {Of("t"), Both("t", "u")}
        [] n = "w" -> {Of("v"), Both("v", "u")}
        [] OTHER -> {}]

OverView == Query(<<Derived(Of("v")), Named("w")>>)
OverJoin == Query(<<Derived(Both("t", "u")), Derived(Of("w"))>>)
Nested == Query(<<Derived(OverView), Named("t")>>)
MCSelects == {Of(n) : n \in Names} \cup {Both(n, m) : n, m \in Names}
             \cup {OverView, OverJoin, Nested, Failing(Of("v"))}

MCQuestions ==
    { Statement(<<>>, Of("v")), Statement(<<>>, Of("w")),
      Statement(<<>>, Both("v", "v")), Statement(<<>>, Both("w", "u")),
      Statement(<<>>, Both("w", "v")), Statement(<<>>, Both("v", "w")),
      Statement(<<>>, OverView), Statement(<<>>, OverJoin), Statement(<<>>, Nested),
      Statement(<<Cte("c", Of("v"))>>, Both("c", "w")),
      Statement(<<Cte("c", Of("t")), Cte("d", Both("c", "w"))>>, Both("d", "v")) }

MCFailing ==
    MCQuestions \cup { Statement(<<>>, Failing(Of("v"))), Statement(<<>>, Both("v", "t")) }
=============================================================================
