------------------------------ MODULE DFSEnum ------------------------------
(***************************************************************************)
(* The exhaustive source of random choices (DFSRndNumGenerator.cpp) driven *)
(* by DFSProgramGenerator::goGenerator: the program is generated again and *)
(* again, and random_choice steers each round to the next path of the tree *)
(* of choices.                                                             *)
(*                                                                         *)
(* The generator is deterministic: the choices made so far determine what  *)
(* it asks next.  `tree' is that function, found out while it is walked: a *)
(* node either ends the program or asks for a number below `bound' that    *)
(* is not in `invalid' (a filter, or rnd_flipcoin with a probability of 0  *)
(* or 100), after a DEPTH_GUARD for `need' further choices.                *)
(***************************************************************************)
EXTENDS Integers, Sequences

CONSTANTS
    MaxDepth,   \* CGOptions::max_exhaustive_depth
    Asks        \* bound: the questions a node may ask, per number of choices made

ASSUME EnumAssumption ==
    /\ MaxDepth \in Nat \ {0}
    /\ \A n \in 0..MaxDepth : \A a \in Asks[n] :
          /\ a.bound \in Nat \ {0}
          /\ a.invalid \subseteq 0..(a.bound - 1)
          /\ a.need \in Nat

VARIABLES
    tree,            \* what the generator asks after each sequence of choices
    seq,             \* seq_: the choices of this round
    init, value,     \* states_: SearchState::init_ and value_, per position
    current_pos,
    decision_depth,
    all_done,
    error,           \* Error::get_error
    guarded,         \* the DEPTH_GUARD of the current node has been passed
    emitted          \* choices of every program written, in order (history)

states == <<init, value>>
vars == <<tree, seq, init, value, current_pos, decision_depth, all_done, error,
          guarded, emitted>>

Pos == 0..(MaxDepth - 1)
End == [bound |-> 0, invalid |-> {}, need |-> 0]
Questions == UNION {Asks[n] : n \in 0..MaxDepth}
Numbers == UNION {0..(a.bound - 1) : a \in Questions}
Valid(a) == 0..(a.bound - 1) \ a.invalid

\* A DEPTH_GUARD names the choices that its subtree makes at least, so the
\* program does not end before they are made.
MayEnd(p) == /\ p # << >>
             /\ \A n \in 0..(Len(p) - 1) :
                   n + tree[SubSeq(p, 1, n)].need <= Len(p)

\* The questions the generator may turn out to ask after the choices p.
Next_question(p) ==
    IF p \in DOMAIN tree THEN {tree[p]}
    ELSE Asks[Len(p)] \cup (IF MayEnd(p) THEN {End} ELSE {})

TypeOK ==
    /\ \A p \in DOMAIN tree : /\ p \in Seq(Numbers) /\ Len(p) <= MaxDepth
                              /\ tree[p] \in Questions \cup {End}
    /\ seq \in Seq(Numbers)
    /\ init \in [Pos -> BOOLEAN]
    /\ value \in [Pos -> Nat]
    /\ current_pos \in -1..MaxDepth
    /\ decision_depth \in -1..(MaxDepth - 1)
    /\ all_done \in BOOLEAN
    /\ error \in {"SUCCESS", "BACKTRACKING", "EXCEED_MAX_DEPTH"}
    /\ guarded \in BOOLEAN
    /\ emitted \in Seq(Seq(Numbers))

Init ==
    /\ tree = [p \in {} |-> End]
    /\ seq = << >>
    /\ init = [i \in Pos |-> FALSE]
    /\ value = [i \in Pos |-> 0]
    /\ current_pos = -1
    /\ decision_depth = -1
    /\ all_done = FALSE
    /\ error = "SUCCESS"
    /\ guarded = FALSE
    /\ emitted = << >>

-----------------------------------------------------------------------------

\* The generator is at a node: a round is under way and nothing has failed.
Generating == error = "SUCCESS" /\ ~all_done

\* What the generator asks here is the same in every later round.
Learn(a) == tree' = [p \in DOMAIN tree \cup {seq} |-> IF p = seq THEN a ELSE tree[p]]

\* Mutant of remain_depth: the choice being made is counted out twice.
remain_depth_Short == MaxDepth - current_pos - 3

remain_depth == MaxDepth - current_pos

\* DEPTH_GUARD_BY_*: eager_backtracking(need) returned false.
PassGuard(a) ==
    /\ Generating /\ ~guarded
    /\ a # End /\ a.need > 0
    /\ current_pos <= 0 \/ remain_depth >= a.need
    /\ Learn(a)
    /\ guarded' = TRUE
    /\ UNCHANGED <<seq, states, current_pos, decision_depth, all_done, error, emitted>>

\* Mutant of EagerBacktrack: the states below are not reset.
EagerBacktrack_NoDepth(a) ==
    /\ Generating /\ ~guarded
    /\ a # End /\ a.need > 0
    /\ current_pos > 0 /\ remain_depth < a.need
    /\ Learn(a)
    /\ decision_depth' = current_pos - 1
    /\ init' = [i \in Pos |-> i <= current_pos /\ init[i]]
    /\ error' = "BACKTRACKING"
    /\ UNCHANGED <<seq, value, current_pos, all_done, guarded, emitted>>

\* ... or it gave up on the subtree: the last choice made is the one to change.
EagerBacktrack(a) ==
    /\ Generating /\ ~guarded
    /\ a # End /\ a.need > 0
    /\ current_pos > 0 /\ remain_depth < a.need
    /\ Learn(a)
    /\ IF current_pos > decision_depth
       THEN UNCHANGED <<decision_depth, init>>
       ELSE /\ decision_depth' = current_pos
            /\ init' = [i \in Pos |-> i <= current_pos /\ init[i]]
    /\ error' = "BACKTRACKING"
    /\ UNCHANGED <<seq, value, current_pos, all_done, guarded, emitted>>

\* random_choice is entered; pos is the position it asks for.
Asking(a) == Generating /\ a # End /\ (a.need > 0 => guarded)
pos == current_pos + 1

\* No position is left.
ExceedDepth(a) ==
    /\ Asking(a)
    /\ pos >= MaxDepth
    /\ Learn(a)
    /\ current_pos' = pos
    /\ error' = "EXCEED_MAX_DEPTH"
    /\ UNCHANGED <<seq, states, decision_depth, all_done, guarded, emitted>>

\* A number is returned to the generator.
Return(a, v) ==
    /\ Learn(a)
    /\ seq' = Append(seq, v)
    /\ current_pos' = pos
    /\ guarded' = FALSE
    /\ UNCHANGED <<all_done, error, emitted>>

\* Mutant of Revisit: the number at the decision is taken again, too.
Revisit_AtDecision(a) ==
    /\ Asking(a)
    /\ pos < MaxDepth /\ pos <= decision_depth /\ init[pos]
    /\ Return(a, value[pos])
    /\ UNCHANGED <<states, decision_depth>>

\* revisit_node: above the decision the last round's number is taken again.
Revisit(a) ==
    /\ Asking(a)
    /\ pos < MaxDepth /\ pos < decision_depth /\ init[pos]
    /\ Return(a, value[pos])
    /\ UNCHANGED <<states, decision_depth>>

\* Mutant of NextValid: the filter is not asked.
NextValid_NoFilter(a, v) == v

\* The first number from v on that passes the filter, or bound.
NextValid(a, v) ==
    CHOOSE w \in v..a.bound :
        /\ w = a.bound \/ w \in Valid(a)
        /\ \A x \in v..(w - 1) : x \notin Valid(a)

\* Switch branch: at the decision, the next valid number.
SwitchBranch(a) ==
    /\ Asking(a)
    /\ pos < MaxDepth /\ ~(pos < decision_depth) /\ init[pos]
    /\ LET v == NextValid(a, value[pos] + 1) IN
          /\ v < a.bound
          /\ value' = [value EXCEPT ![pos] = v]
          /\ Return(a, v)
    /\ UNCHANGED <<init, decision_depth>>

\* Mutant of GiveUp: the positions below keep their state.
GiveUp_KeepStates(a, d) ==
    /\ Learn(a)
    /\ current_pos' = pos
    /\ init' = [i \in Pos |-> i <= pos /\ init[i]]
    /\ decision_depth' = d - 1
    /\ all_done' = (d - 1 < 0)
    /\ error' = "BACKTRACKING"
    /\ UNCHANGED <<seq, guarded, emitted>>

\* Mutant of GiveUp: the decision moves up two positions.
GiveUp_Twice(a, d) ==
    /\ Learn(a)
    /\ current_pos' = pos
    /\ init' = [i \in Pos |-> i < pos /\ init[i]]
    /\ decision_depth' = d - 2
    /\ all_done' = (d - 2 < 0)
    /\ error' = "BACKTRACKING"
    /\ UNCHANGED <<seq, guarded, emitted>>

\* Both kinds of exhausted node: every number of the node has been tried, and
\* the decision moves one position up.
GiveUp(a, d) ==
    /\ Learn(a)
    /\ current_pos' = pos
    /\ init' = [i \in Pos |-> i < pos /\ init[i]]
    /\ decision_depth' = d - 1
    /\ all_done' = (d - 1 < 0)
    /\ error' = "BACKTRACKING"
    /\ UNCHANGED <<seq, guarded, emitted>>

Backtrack(a) ==
    /\ Asking(a)
    /\ pos < MaxDepth /\ ~(pos < decision_depth) /\ init[pos]
    /\ NextValid(a, value[pos] + 1) = a.bound
    /\ value' = [value EXCEPT ![pos] = a.bound]
    /\ GiveUp(a, decision_depth)

\* The values below a new node are zeroed when its filter refuses a number.
Zeroed(a) == [i \in Pos |-> IF i = pos \/ (i > pos /\ 0 \in a.invalid) THEN 0 ELSE value[i]]

\* A node seen for the first time becomes the decision.
FirstVisit(a) ==
    /\ Asking(a)
    /\ pos < MaxDepth /\ ~init[pos]
    /\ LET v == NextValid(a, 0) IN
          /\ v < a.bound
          /\ init' = [init EXCEPT ![pos] = TRUE]
          /\ value' = [Zeroed(a) EXCEPT ![pos] = v]
          /\ Return(a, v)
    /\ decision_depth' = pos

\* ... unless no number passes its filter.
FirstVisitFails(a) ==
    /\ Asking(a)
    /\ pos < MaxDepth /\ ~init[pos]
    /\ NextValid(a, 0) = a.bound
    /\ value' = Zeroed(a)
    /\ GiveUp(a, pos)

\* goGenerator after GenerateFunctions: a round without error is a program.
NewRound ==
    /\ seq' = << >>
    /\ current_pos' = -1
    /\ error' = "SUCCESS"
    /\ guarded' = FALSE

Emit ==
    /\ Generating /\ ~guarded
    /\ End \in Next_question(seq)
    /\ Learn(End)
    /\ emitted' = Append(emitted, seq)
    /\ NewRound
    /\ UNCHANGED <<states, decision_depth, all_done>>

\* Mutant of Abandoned: the error of the last round is not cleared.
Abandoned_ErrorKept ==
    /\ error # "SUCCESS"
    /\ seq' = << >> /\ current_pos' = -1 /\ guarded' = FALSE
    /\ UNCHANGED <<tree, states, decision_depth, all_done, error, emitted>>

Abandoned ==
    /\ error # "SUCCESS"
    /\ NewRound
    /\ UNCHANGED <<tree, states, decision_depth, all_done, emitted>>

\* get_all_done(): the loop ends.
Stop == all_done /\ error = "SUCCESS" /\ UNCHANGED vars

Random_choice(a) ==
    \/ ExceedDepth(a) \/ Revisit(a) \/ SwitchBranch(a) \/ Backtrack(a)
    \/ FirstVisit(a) \/ FirstVisitFails(a)

Next ==
    \/ \E a \in Next_question(seq) : PassGuard(a) \/ EagerBacktrack(a) \/ Random_choice(a)
    \/ Emit \/ Abandoned \/ Stop

Spec == Init /\ [][Next]_vars

\* One sequential computation.
FairSpec == Spec /\ WF_vars(Next)

-----------------------------------------------------------------------------

\* p comes before q when the choices are compared from the first one on.
Before(p, q) ==
    \E i \in 1..Len(q) :
        /\ i <= Len(p) => p[i] < q[i]
        /\ \A j \in 1..(i - 1) : j <= Len(p) /\ p[j] = q[j]

\* Programs come out in strictly ascending order: none is written twice, and a
\* round never falls back to a part of the tree that was finished.
Ascending ==
    [][emitted' # emitted /\ emitted # << >> =>
          Before(emitted[Len(emitted)], emitted'[Len(emitted')])]_vars

\* "exhaustive": when get_all_done() says so, every program whose choices fit in
\* max_exhaustive_depth has been written.  A subtree is left out only when no
\* program in it fits.
Exhaustive ==
    all_done =>
        \A p \in DOMAIN tree :
            IF tree[p] = End
            THEN \E i \in 1..Len(emitted) : emitted[i] = p
            ELSE \A v \in Valid(tree[p]) :
                    \/ Append(p, v) \in DOMAIN tree
                    \/ Len(p) + (IF tree[p].need = 0 THEN 1 ELSE tree[p].need) > MaxDepth

\* The states above the decision are the path to it, those below are clear: what
\* the assertion in revisit_node (rv < bound) rests on between two rounds.
PathConsistent ==
    error = "SUCCESS" /\ seq = << >> =>
        \A i \in Pos : init[i] <=> i <= decision_depth

\* Every number handed to the generator is one its filter accepts.
ChoicesValid ==
    \A n \in 1..Len(seq) : seq[n] \in Valid(tree[SubSeq(seq, 1, n - 1)])

\* The loop of goGenerator ends.
Finishes == <>(all_done /\ error = "SUCCESS")

\* The states_ of the enumerating source are those of one path through the tree,
\* and hold numbers their filters accept.
StatesFit == TypeOK /\ PathConsistent /\ ChoicesValid

=============================================================================
