--------------------------- MODULE ReportContract ---------------------------
(***************************************************************************)
(* What a generated HIP program promises to the differential tester: it    *)
(* prints one line per result slot, in order, and each line is the value   *)
(* the program text determines, however the device schedules the threads.  *)
(* A host call that fails may end the report early.                        *)
(***************************************************************************)
EXTENDS Naturals, Sequences

VARIABLES
    lines,      \* the report the program text determines
    printed     \* the lines printed so far

Init == printed = << >>

PrintNext ==
    /\ Len(printed) < Len(lines)
    /\ printed' = Append(printed, lines[Len(printed) + 1])
    /\ UNCHANGED lines

Spec == Init /\ [][PrintNext]_<<lines, printed>>

=============================================================================
