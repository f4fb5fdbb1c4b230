----------------------------- MODULE MCHIPMain -----------------------------
\* Instances of HIPMain: words of each kind the argument loop tells apart.
EXTENDS HIPMain

Text(value, whole) == [value |-> value, whole |-> whole]

\* A number, one that becomes another when made unsigned, a number with a tail,
\* and words that strtoll reads nothing of.
MCStrtoll ==
    [w \in Words |->
        CASE w = "3" -> Text(3, TRUE)
          [] w = "-2" -> Text(-2, TRUE)
          [] w = "3x" -> Text(3, FALSE)
          [] OTHER -> Text(0, FALSE)]

=============================================================================
