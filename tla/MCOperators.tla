---------------------------- MODULE MCOperators -----------------------------
EXTENDS Operators

\* Widths that keep the relations between the real 8, 16, 32 and 64 bits.
MCBits == <<2, 3, 6, 8>>

\* Every value of the three smaller types, the boundary values of long.
MCArgsOf(T) ==
    IF T.size < 3 THEN Values(T)
    ELSE {v \in {MinOf(T), MinOf(T) + 1, -2, -1, 0, 1, 2, 3, Width(T) - 1, Width(T), Width(T) + 1, 7, 8,
                 MaxOf(T) \div 2, MaxOf(T) \div 2 + 1, MaxOf(T) - 1, MaxOf(T)} : v \in Values(T)}

Boundary(T) == {v \in {MinOf(T), -1, 0, 1, Width(T) - 1, Width(T), MaxOf(T)} : v \in Values(T)}

\* All boundary values in two lanes; in longer vectors only the last one varies.
MCLanesOf(T, n) ==
    IF n <= 2 THEN [1..n -> Boundary(T)]
    ELSE {[i \in 1..n |-> IF i = n THEN v ELSE 1] : v \in Boundary(T)}

Hip == [form |-> "macros", avoid |-> TRUE, muls |-> TRUE, divs |-> TRUE, plus |-> TRUE,
        ids |-> {}, float |-> FALSE,
        builtins |-> {"sync", "vote", "match", "shuffle", "reduce", "atomic"}]

MCOptions == {Hip,
              [Hip EXCEPT !.form = "functions", !.float = TRUE, !.builtins = {}],
              [Hip EXCEPT !.ids = {1}, !.muls = FALSE, !.divs = FALSE, !.builtins = {"match"}],
              [Hip EXCEPT !.avoid = FALSE, !.plus = FALSE, !.builtins = {"vote"}]}

\* A second call only where --safe-math-wrapper makes the numbers matter.
MCMaxCalls(o) == IF o.ids # {} THEN 2 ELSE 1

MCRequests(o) ==
    IF o.ids # {} THEN {[kind |-> "int", T |-> eInt, len |-> 0]} ELSE
    {[kind |-> "int", T |-> T, len |-> 0] : T \in IntTypes}
    \cup {[kind |-> "float", T |-> eInt, len |-> 0]}
    \cup {[kind |-> "vector", T |-> T, len |-> n] : T \in IntTypes, n \in {2, 3}}
=============================================================================
