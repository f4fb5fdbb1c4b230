------------------------------ MODULE MCDFSEnum ------------------------------
EXTENDS DFSEnum

Ask(b, s) == [bound |-> b, invalid |-> s, need |-> 0]
Guarded(n) == [bound |-> 2, invalid |-> {}, need |-> n]

\* Per depth: questions whose first, last, middle or all numbers are refused, and
\* guards that pass, that prune, and that are asked too early to prune.
MCAsks ==
    [n \in 0..3 |->
        CASE n = 0 -> {Ask(2, {}), Ask(2, {0}), Guarded(3)}
          [] n = 1 -> {Ask(2, {}), Ask(2, {1}), Ask(2, {0, 1}), Guarded(3)}
          [] n = 2 -> {Ask(2, {0}), Ask(3, {1}), Guarded(1), Guarded(3)}
          [] n = 3 -> {Ask(2, {})}]
=============================================================================
