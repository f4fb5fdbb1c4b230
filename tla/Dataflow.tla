------------------------------ MODULE Dataflow ------------------------------
(***************************************************************************)
(* Generation of a function body together with the data-flow analysis that *)
(* accompanies it, a later visit by another caller, and the execution of   *)
(* the function.  Every statement is made under the facts known so far;    *)
(* jumps and loops make the analysis run again (Block::find_fixed_point),  *)
(* and statements it can no longer justify are removed.                    *)
(* Conditions of if, for, break, continue and goto read integer variables  *)
(* and carry no facts: in an execution they may come out either way.       *)
(***************************************************************************)
EXTENDS Facts, Sequences, SequencesExt

CONSTANTS
    Locals,         \* the variables that may become locals of a block
    GlobalInit,     \* the initial facts of the other variables
    Assigns,        \* the assignments a statement may be: [lhs, rhs]
    FieldUses,      \* [var, fid, write]: uses of a field of a union
    Kinds,          \* the statements other than assignments to generate
    Entries,        \* facts under which another caller calls the function
    MaxStms,        \* bound: statements made
    MaxPerBlock,    \* bound: statements made for one block
    MaxDepth,       \* max_blk_depth
    MaxForward,     \* bound: forward gotos
    MaxCalls        \* bound: visits by later callers

VARIABLES
    g,              \* the function and the maps of its FactMgr
    stack,          \* the blocks being generated, innermost last
    phase,          \* "make", "call", "run"
    pc, mem,        \* the execution
    ret             \* what the caller takes over: the facts after the call

vars == <<g, stack, phase, pc, mem, ret>>

ASSUME DataflowAssumption ==
    /\ Locals \subseteq Vars
    /\ DOMAIN GlobalInit = (Pointers \cup Unions) \ Locals

CtrlStmt == {"break", "continue", "goto"}
Turns == 7

Node(kind, parent) ==
    [kind |-> kind, parent |-> parent, use |-> <<>>, blks |-> <<>>, dest |-> 0,
     looping |-> FALSE, stms |-> <<>>, locals |-> {}, breaks |-> {}, revisit |-> FALSE]

-----------------------------------------------------------------------------
\* The shape of the function.

\* The blocks around statement or block s.
RECURSIVE Encl(_, _)
Encl(f, s) ==
    LET b == f.node[s].parent IN IF b = 0 THEN {} ELSE {b} \cup Encl(f, b)

contains_stmt(f, a, s) ==
    \/ a = s
    \/ a \in Encl(f, s)
    \/ \E b \in Range(f.node[a].blks) : b = s \/ b \in Encl(f, s)

\* The closest looping block: the innermost one is the last one made.
LoopOf(f, s) ==
    LET bs == {b \in Encl(f, s) \cup {s} : f.node[b].looping}
    IN  IF bs = {} THEN 0 ELSE CHOOSE b \in bs : \A c \in bs : c <= b

LastStm(f, b) == IF f.node[b].stms = <<>> THEN 0 ELSE Last(f.node[b].stms)

EdgesIn(f, s, post, back) ==
    {e \in f.edges : e.dest = s /\ e.post = post /\ e.back = back}

Edge(src, dest, post, back) == [src |-> src, dest |-> dest, post |-> post, back |-> back]

RECURSIVE must_return(_, _)
must_return(f, s) ==
    CASE f.node[s].kind = "return" -> TRUE
      [] f.node[s].kind = "if" -> \A b \in Range(f.node[s].blks) : must_return(f, b)
      [] f.node[s].kind = "block" ->
            /\ f.node[s].stms # <<>> /\ f.node[s].breaks = {}
            /\ must_return(f, LastStm(f, s))
            /\ \A e \in EdgesIn(f, s, FALSE, TRUE) : e.src = s
      [] OTHER -> FALSE

must_break_or_return(f, b) ==
    must_return([f EXCEPT !.node[b].breaks = {}], b)

RECURSIVE must_jump(_, _)
must_jump(f, s) ==
    CASE f.node[s].kind = "return" -> TRUE
      [] f.node[s].kind = "if" -> \A b \in Range(f.node[s].blks) : must_jump(f, b)
      [] f.node[s].kind = "block" ->
            f.node[s].stms # <<>> /\ f.node[s].breaks = {} /\ must_jump(f, LastStm(f, s))
      [] OTHER -> FALSE

from_tail_to_head(f, b) ==
    f.node[b].looping /\ f.node[b].stms # <<>> /\ ~must_jump(f, LastStm(f, b))

LocalsOf(f, bs) == UNION {f.node[b].locals : b \in bs}
is_var_visible(f, v, s) == v \notin Locals \/ v \in LocalsOf(f, Encl(f, s))
is_var_oos(f, v, s) == ~is_var_visible(f, v, s) /\ v \in LocalsOf(f, f.blocks)

\* StatementGoto::has_init_skipped_vars, from block src to a statement.
has_init_skipped_vars(f, src, dest) ==
    IF src \in Encl(f, dest)
    THEN LocalsOf(f, Encl(f, dest) \ (Encl(f, src) \cup {src})) # {}
    ELSE LocalsOf(f, Encl(f, dest)) \ LocalsOf(f, Encl(f, src) \cup {src}) # {}

-----------------------------------------------------------------------------
\* The maps of facts before and after each statement.

\* The facts of the variables vs as they are initialised.
InitFacts(f, vs) == [v \in vs \cap (Pointers \cup Unions) |-> f.init[v]]

add_new_var_facts(f, vs, facts) == makeup_new_var_facts(facts, DOMAIN InitFacts(f, vs), f.init)

\* FactMgr::update_facts_for_dest
update_facts_for_dest(f, facts, sofar, dest) ==
    LET all == DOMAIN facts \cup UNION {facts[v] : v \in DOMAIN facts \cap Pointers}
    IN  update_facts_for_oos_vars({v \in all \ SpecialPtrs : is_var_oos(f, v, dest)},
                                  merge_facts(sofar, facts))

\* FactMgr::set_fact_out, remove_loop_local_facts, remove_function_local_facts
FactOut(f, s, facts) ==
    CASE f.node[s].kind \in {"break", "continue"} ->
            LET loop == LoopOf(f, s)
            IN  update_facts_for_oos_vars(
                    LocalsOf(f, Encl(f, s) \ Encl(f, loop)), facts)
      [] f.node[s].kind = "goto" ->
            update_facts_for_dest(f, facts, EmptyFacts, f.node[s].dest)
      [] f.node[s].kind = "return" ->
            update_facts_for_oos_vars(LocalsOf(f, Encl(f, s)), facts)
      [] OTHER -> facts

SetFacts(f, s, before, after) ==
    [f EXCEPT !.in[s] = before, !.out[s] = FactOut(f, s, after)]

MergeJumps(f, facts, srcs) ==
    LET merge(e, acc) == merge_jump_facts(acc, f.out[e.src])
    IN  FoldSet(merge, facts, srcs)

contains_unfixed_goto(f, s) ==
    \E e \in f.edges :
        /\ f.node[e.src].kind = "goto"
        /\ \/ /\ e.src \notin f.visited
              /\ contains_stmt(f, s, e.src) /\ ~contains_stmt(f, s, e.dest)
           \/ /\ e.src \in f.visited /\ contains_stmt(f, s, e.dest)
              /\ \/ f.out[e.src] # EmptyFacts /\ f.in[e.dest] = EmptyFacts
                 \/ \E v \in DOMAIN f.in[e.dest] \cap DOMAIN f.out[e.src] :
                        ~imply(v, f.in[e.dest][v], f.out[e.src][v])

\* Statement::shortcut_analysis
shortcut_analysis(f, s, facts) ==
    facts = f.in[s] /\ f.node[s].kind \notin CtrlStmt /\ ~contains_unfixed_goto(f, s)

-----------------------------------------------------------------------------
\* The analysis.  A result: did it succeed, the function with its maps, the
\* facts after, and for a block the statement where it failed.
Result(ok, f, facts) == [ok |-> ok, f |-> f, facts |-> facts, at |-> 0]

RECURSIVE stm_visit_facts(_, _, _)
RECURSIVE find_fixed_point(_, _, _, _, _, _)

\* Statement::validate_and_update_facts
validate_and_update_facts(f, s, facts) ==
    IF shortcut_analysis(f, s, facts)
    THEN LET gotos == {t \in {e.src : e \in f.edges} :
                          f.node[t].kind = "goto" /\ contains_stmt(f, s, t)}
         IN  Result(TRUE, [f EXCEPT !.visited = @ \cup gotos], f.out[s])
    ELSE LET Record(r) == IF r.ok THEN [r EXCEPT !.f = SetFacts(r.f, s, facts, r.facts)] ELSE r
         IN  Record(stm_visit_facts(f, s, facts))

\* Mutant of analyze_with_edges_in: forward jumps are not merged.
analyze_with_edges_in_BackOnly(f, s, facts) ==
    LET back == IF s \in f.visited THEN EdgesIn(f, s, FALSE, TRUE) ELSE {}
    IN  validate_and_update_facts(f, s, MergeJumps(f, facts, {e \in back : e.src \in f.visited}))

\* Statement::analyze_with_edges_in
analyze_with_edges_in(f, s, facts) ==
    LET back == IF s \in f.visited THEN EdgesIn(f, s, FALSE, TRUE) ELSE {}
        srcs == {e \in back \cup EdgesIn(f, s, FALSE, FALSE) : e.src \in f.visited}
    IN  validate_and_update_facts(f, s, MergeJumps(f, facts, srcs))

\* The statements of a block one after the other, from the i-th.
RECURSIVE VisitStms(_, _, _, _)
VisitStms(f, b, i, facts) ==
    IF i > Len(f.node[b].stms) THEN Result(TRUE, f, facts)
    ELSE LET GoOn(r) == IF r.ok THEN VisitStms(r.f, b, i + 1, r.facts) ELSE [r EXCEPT !.at = i]
         IN  GoOn(analyze_with_edges_in(f, f.node[b].stms[i], facts))

\* Block::find_fixed_point; too many turns is a failed assertion.
find_fixed_point(f, b, facts, post, once, cnt) ==
    LET seen == b \in f.visited
        merge(e, acc) == merge_facts(acc, f.out[e.src])
        inputs == IF seen THEN FoldSet(merge, facts, EdgesIn(f, b, FALSE, TRUE)) ELSE facts
        Mark(r) ==
            [SetFacts(r.f, b, inputs, update_facts_for_oos_vars(r.f.node[b].locals, r.facts))
                EXCEPT !.visited = @ \cup {b}]
        Turn(r) ==
            IF r.ok
            THEN find_fixed_point(Mark(r), b, inputs, r.facts, FALSE, IF seen THEN cnt + 1 ELSE cnt)
            ELSE [r EXCEPT !.facts = post]
    IN  IF seen /\ cnt > Turns THEN Result(TRUE, [f EXCEPT !.aborted = TRUE], post)
        ELSE IF ~once /\ shortcut_analysis(f, b, inputs) THEN Result(TRUE, f, post)
        ELSE Turn(VisitStms(f, b, 1, add_new_var_facts(f, f.node[b].locals, inputs)))

\* Block::visit_facts
VisitBlock(f, b, facts) ==
    LET Visited(r) ==
            IF r.ok THEN Result(TRUE, [r.f EXCEPT !.visited = @ \cup {b}], r.f.out[b]) ELSE r
    IN  Visited(find_fixed_point(f, b, facts, EmptyFacts, FALSE, 0))

\* StatementIf::visit_facts: a branch that returns adds nothing after it.
BranchFacts(f, s, before, one, two) ==
    LET t == must_return(f, f.node[s].blks[1])
        e == must_return(f, f.node[s].blks[2])
    IN  CASE t /\ e -> before [] t /\ ~e -> two [] ~t /\ e -> one
          [] OTHER -> merge_facts(one, two)

VisitIf(f, s, facts) ==
    LET Combine(one, two) ==
            IF two.ok THEN Result(TRUE, two.f, BranchFacts(two.f, s, facts, one.facts, two.facts))
            ELSE two
        Else(one) ==
            IF one.ok THEN Combine(one, VisitBlock(one.f, f.node[s].blks[2], facts)) ELSE one
    IN  Else(VisitBlock(f, f.node[s].blks[1], facts))

\* StatementFor::visit_facts
VisitFor(f, s, facts) ==
    LET b == f.node[s].blks[1]
        AfterBody(h) == IF must_return(h, b) THEN facts ELSE h.in[b]
        Exit(r) ==
            IF r.ok
            THEN Result(TRUE, r.f, MergeJumps(r.f, AfterBody(r.f), EdgesIn(r.f, s, TRUE, FALSE)))
            ELSE r
    IN  Exit(VisitBlock(f, b, facts))

\* StatementGoto::visit_facts: when the jump carries less than in the last
\* visit, its target is forgotten so that it is visited again.
VisitGoto(f, s, facts) ==
    LET d == f.node[s].dest
    IN  IF /\ {s, d} \cap f.visited = {}
           /\ facts # f.out[s] /\ subset_facts(facts, f.out[s])
        THEN [f EXCEPT !.in[d] = EmptyFacts, !.out[d] = EmptyFacts]
        ELSE f

SimpleOk(node, facts) ==
    CASE node.kind = "assign" -> RhsOk(node.use.rhs, facts) /\ LhsOk(node.use.lhs, facts)
      [] node.kind = "field" ->
            node.use.write \/ ~is_nonreadable_field(node.use.var, node.use.fid, facts)
      [] OTHER -> TRUE

SimpleFacts(node, facts) ==
    CASE node.kind = "assign" -> update_fact_for_assign(facts, node.use.lhs, node.use.rhs)
      [] node.kind = "field" /\ node.use.write ->
            update_fact_for_field(facts, node.use.var, node.use.fid)
      [] OTHER -> facts

\* Statement::stm_visit_facts
stm_visit_facts(f, s, facts) ==
    LET node == f.node[s]
        r == CASE node.kind = "if" -> VisitIf(f, s, facts)
               [] node.kind = "for" -> VisitFor(f, s, facts)
               [] node.kind = "goto" -> Result(TRUE, VisitGoto(f, s, facts), facts)
               [] OTHER -> Result(SimpleOk(node, facts), f, SimpleFacts(node, facts))
    IN  [r EXCEPT !.f.visited = @ \cup {s}]

-----------------------------------------------------------------------------
\* Removing statements.

\* Mutant of Doomed: a goto to a removed statement stays.
Doomed_Keep(f, S) == S

\* Block::remove_stmt: with s go the gotos to it or into it.
RECURSIVE Doomed(_, _)
Doomed(f, S) ==
    LET more == {e.src : e \in {d \in f.edges :
                   f.node[d.src].kind = "goto" /\ \E s \in S : contains_stmt(f, s, d.dest)}}
    IN  IF more \subseteq S THEN S ELSE Doomed(f, S \cup more)

\* A function on 1..n as a sequence.
AsSeq(s) == SubSeq(s, 1, Len(s))

remove_stmt(f, s) ==
    LET S == Doomed(f, {s})
        In(t) == \E d \in S : contains_stmt(f, d, t)
        loop == LoopOf(f, f.node[s].parent)
    IN  [f EXCEPT !.node = AsSeq([t \in DOMAIN f.node |->
                      [f.node[t] EXCEPT
                          !.stms = SelectSeq(@, LAMBDA x : x \notin S),
                          !.breaks = IF t = loop THEN {x \in @ : ~In(x)} ELSE @]]),
                  !.edges = {e \in @ : /\ ~In(e.dest)
                                       /\ ~(f.node[e.src].kind \in CtrlStmt /\ In(e.src))},
                  !.blocks = {b \in @ : ~In(b)}]

\* The statement at index i of block b and those after it are removed.
RECURSIVE RemoveFrom(_, _, _)
RemoveFrom(f, b, i) ==
    IF i > Len(f.node[b].stms) THEN f
    ELSE RemoveFrom(remove_stmt(f, f.node[b].stms[i]), b, i)

reset_stm_fact_maps(f, b) ==
    LET In(t) == contains_stmt(f, b, t)
        Reset(fm) == AsSeq([t \in DOMAIN fm |-> IF In(t) THEN EmptyFacts ELSE fm[t]])
    IN  [f EXCEPT !.in = Reset(@), !.out = Reset(@)]

\* An edge from the tail of a loop body to its head.
SelfEdge(f, b) ==
    IF from_tail_to_head(f, b)
    THEN [f EXCEPT !.edges = @ \cup {Edge(b, b, FALSE, TRUE)}] ELSE f

\* The loop of Block::post_creation_analysis.
RECURSIVE Settle(_, _, _, _)
Settle(f, b, facts, post) ==
    LET Cut(r) == [RemoveFrom(r.f, b, r.at) EXCEPT !.node[b].revisit = TRUE]
        Retry(r) ==
            IF r.ok THEN r
            ELSE Settle(SelfEdge(reset_stm_fact_maps(Cut(r), b), b), b, facts, r.facts)
    IN  Retry(find_fixed_point(f, b, facts, post, f.node[b].revisit, 0))

-----------------------------------------------------------------------------
\* Generation.

curr == Last(stack).blk

AddNode(f, node) ==
    [f EXCEPT !.node = Append(@, node), !.in = Append(@, EmptyFacts), !.out = Append(@, EmptyFacts)]

\* FactMgr::makeup_new_var_facts
Makeup(f, old, new) == add_new_var_facts(f, DOMAIN new \ DOMAIN old, old)

\* Block::make_random, its beginning: the block is entered in func->blocks.
OpenBlock(f, parent, looping) ==
    LET b == Len(f.node) + 1
        f1 == AddNode(f, [Node("block", parent) EXCEPT !.looping = looping])
    IN  [f1 EXCEPT !.in[b] = f.facts, !.blocks = @ \cup {b}]

\* Statement::post_creation_analysis: the new last statement of the block.
PostCreation(f, pre, after) ==
    LET s == Len(f.node)
        f1 == [f EXCEPT !.node[f.node[s].parent].stms = Append(@, s), !.facts = after,
                        !.visited = @ \cup {s}, !.made = @ + 1]
    IN  SetFacts(f1, s, pre, after)

Init ==
    LET f == [node |-> <<>>, in |-> <<>>, out |-> <<>>, edges |-> {}, visited |-> {},
              blocks |-> {}, facts |-> GlobalInit, init |-> EmptyFacts, made |-> 0,
              aborted |-> FALSE, calls |-> 0, entries |-> {GlobalInit}]
    IN  /\ g = OpenBlock(f, 0, FALSE)
        /\ stack = <<[blk |-> 1, role |-> "body", pre |-> GlobalInit, first |-> 0]>>
        /\ phase = "make"
        /\ pc = <<"none", 0>> /\ mem = <<>> /\ ret = EmptyFacts

\* Another statement may be made in the current block.
CanMake ==
    /\ phase = "make" /\ ~g.aborted
    /\ g.made < MaxStms \/ g.node[curr].stms = <<>>
    /\ Len(g.node[curr].stms) < MaxPerBlock
    /\ g.node[curr].stms # <<>> => ~must_return(g, LastStm(g, curr))

Running == UNCHANGED <<pc, mem, ret>>
Keep == UNCHANGED <<stack, phase>> /\ Running

VisibleHere(v) == v = null_ptr \/ v \notin Locals \/ v \in LocalsOf(g, Encl(g, curr) \cup {curr})

\* StatementAssign::make_random
MakeAssign ==
    /\ CanMake
    /\ \E a \in Assigns :
          LET node == [Node("assign", curr) EXCEPT !.use = a]
          IN  /\ VisibleHere(a.lhs.var) /\ VisibleHere(a.rhs.var)
              /\ SimpleOk(node, g.facts)
              /\ g' = PostCreation(AddNode(g, node), g.facts, SimpleFacts(node, g.facts))
    /\ Keep

\* Reads and writes of union fields in an expression or assignment.
MakeField ==
    /\ CanMake
    /\ \E u \in FieldUses :
          LET node == [Node("field", curr) EXCEPT !.use = u]
          IN  /\ SimpleOk(node, g.facts)
              /\ g' = PostCreation(AddNode(g, node), g.facts, SimpleFacts(node, g.facts))
    /\ Keep

\* StatementBreak::make_random, StatementContinue::make_random,
\* StatementReturn::make_random
MakeBreak ==
    LET loop == LoopOf(g, curr)
        s == Len(g.node) + 1
    IN  /\ CanMake /\ "break" \in Kinds /\ loop # 0
        /\ g' = PostCreation([AddNode(g, Node("break", curr)) EXCEPT !.node[loop].breaks = @ \cup {s}],
                             g.facts, g.facts)
        /\ Keep

MakeContinue ==
    LET loop == LoopOf(g, curr)
        s == Len(g.node) + 1
    IN  /\ CanMake /\ "continue" \in Kinds /\ loop # 0 /\ g.node[curr].stms # <<>>
        /\ g' = PostCreation([AddNode(g, Node("continue", curr)) EXCEPT
                                 !.edges = @ \cup {Edge(s, loop, FALSE, TRUE)}], g.facts, g.facts)
        /\ Keep

MakeReturn ==
    /\ CanMake /\ "return" \in Kinds
    /\ g' = PostCreation(AddNode(g, Node("return", curr)), g.facts, g.facts)
    /\ Keep

\* StatementGoto::find_good_jump_block
find_good_jump_block(b, as_dest) ==
    /\ g.node[b].stms # <<>>
    /\ as_dest \/ g.node[curr].stms # <<>>
    /\ ~as_dest => ~(Len(g.node[b].stms) = 1 /\ g.node[g.node[b].stms[1]].kind = "return")
    /\ \/ b = curr
       \/ as_dest /\ ~has_init_skipped_vars(g, curr, g.node[b].stms[1])
       \/ ~as_dest /\ ~has_init_skipped_vars(g, b, g.node[curr].stms[1])

ok_stms(b) == {s \in Range(g.node[b].stms) : s # LastStm(g, curr) /\ ~must_return(g, s)}

\* Mutant of NeedsRevisit: the block is not marked.
NeedsRevisit_No(f, d) == f

\* The least incomplete block with both ends of the jump is to be analysed again.
NeedsRevisit(f, d) ==
    LET bs == {b \in Encl(f, curr) \cup {curr} : contains_stmt(f, b, d)}
        least == CHOOSE b \in bs : \A c \in bs : c <= b
    IN  [f EXCEPT !.node[least].revisit = TRUE]

\* StatementGoto::make_random, a jump back from here
MakeGotoBack ==
    /\ CanMake /\ "goto" \in Kinds
    /\ \E b \in g.blocks : find_good_jump_block(b, TRUE) /\ \E d \in ok_stms(b) :
          LET s == Len(g.node) + 1
              f == [AddNode(g, [Node("goto", curr) EXCEPT !.dest = d]) EXCEPT
                       !.edges = @ \cup {Edge(s, d, FALSE, TRUE)}]
          IN  g' = PostCreation(NeedsRevisit(f, d), g.facts, g.facts)
    /\ Keep

\* StatementGoto::make_random, a jump put after statement o that leads to the
\* last statement made, which is visited again with what the jump brings.
ForwardGoto(b, o) ==
    LET stm == LastStm(g, curr)
        From(f) == IF f.node[o].kind \in CtrlStmt THEN f.in[o] ELSE f.out[o]
        out1 == update_facts_for_dest(g, From(g), EmptyFacts, stm)
        stm_in == merge_jump_facts(g.in[stm], out1)
        changed == stm_in # g.in[stm]
        sg == Len(g.node) + 1
        pos == CHOOSE i \in DOMAIN g.node[b].stms : g.node[b].stms[i] = o
        Revisited(r) ==
            LET f == AddNode(r.f, [Node("goto", b) EXCEPT !.dest = stm])
            IN  IF changed THEN SetFacts(f, stm, stm_in, r.facts) ELSE f
        Jumping(f, goto_in) ==
            [f EXCEPT !.node[b].stms = InsertAt(@, pos + 1, sg),
                      !.in[sg] = goto_in,
                      !.out[sg] = IF changed /\ contains_stmt(g, stm, o)
                                  THEN update_facts_for_dest(g, goto_in, out1, stm) ELSE out1,
                      !.visited = @ \cup {sg},
                      !.edges = @ \cup {Edge(sg, stm, FALSE, FALSE)},
                      !.facts = IF f.node[stm].kind \in CtrlStmt \cup {"return"}
                                THEN f.in[stm] ELSE f.out[stm]]
    IN  \E r \in {IF changed THEN stm_visit_facts(g, stm, stm_in) ELSE Result(TRUE, g, g.out[stm])} :
            r.ok /\ g' = Jumping(Revisited(r), From(r.f))

MakeGotoForward ==
    /\ phase = "make" /\ ~g.aborted /\ "forward" \in Kinds
    /\ g.node[curr].stms # <<>> /\ ~must_return(g, LastStm(g, curr))
    /\ Cardinality({e \in g.edges : ~e.back /\ ~e.post}) < MaxForward
    /\ \E b \in g.blocks : find_good_jump_block(b, FALSE) /\ \E o \in ok_stms(b) :
          /\ contains_stmt(g, LastStm(g, curr), o) => "inner" \in Kinds
          /\ ForwardGoto(b, o)
    /\ Keep

\* Mutant of expand_block_for_goto: the block asked for is used.
expand_block_for_goto_Same(f, b) == b

\* VariableSelector::expand_block_for_goto: a block that no jump enters.
RECURSIVE expand_block_for_goto(_, _)
expand_block_for_goto(f, b) ==
    LET bad == {e \in f.edges : /\ f.node[e.src].kind = "goto"
                                /\ contains_stmt(f, b, e.dest) /\ ~contains_stmt(f, b, e.src)}
    IN  IF bad = {} THEN b ELSE expand_block_for_goto(f, f.node[b].parent)

\* VariableSelector::make_init_value: null or the address of what is visible.
InitValues(f, v, b) ==
    IF v \in Unions THEN {0}
    ELSE {{null_ptr}} \cup
         {{w} : w \in {x \in Vars : /\ Level[x] = Level[v] - 1
                                    /\ x \notin Locals \/ x \in LocalsOf(f, Encl(f, b) \cup {b})}}

\* FactMgr::add_fact_out: variable v of a block matters after statement s.
LivesAfter(f, v, s) ==
    /\ is_var_visible(f, v, s)
    /\ CASE f.node[s].kind = "return" -> FALSE
         [] f.node[s].kind \in {"break", "continue"} -> is_var_visible(f, v, LoopOf(f, s))
         [] f.node[s].kind = "goto" -> is_var_visible(f, v, f.node[s].dest)
         [] OTHER -> TRUE

\* GenerateNewParentLocal, FactMgr::add_new_var_fact_and_update_inout_maps
AddLocal(v, b, init) ==
    LET With(facts) == makeup_new_var_facts(facts, {v}, [x \in {v} |-> init])
        f == [g EXCEPT !.node[b].locals = @ \cup {v}]
    IN  IF Level[v] = 0 THEN f
        ELSE [f EXCEPT
                 !.init = With(@), !.facts = With(@),
                 !.in = AsSeq([s \in DOMAIN @ |-> IF b \in Encl(f, s) THEN With(@[s]) ELSE @[s]]),
                 !.out = AsSeq([s \in DOMAIN @ |-> IF LivesAfter(f, v, s) THEN With(@[s]) ELSE @[s]])]

NewParentLocal ==
    /\ CanMake
    /\ \E v \in Locals \ LocalsOf(g, DOMAIN g.node), b0 \in Encl(g, curr) \cup {curr} :
          LET b == expand_block_for_goto(g, b0)
          IN  IF Level[v] = 0 THEN g' = AddLocal(v, b, {})
              ELSE \E init \in InitValues(g, v, b) : g' = AddLocal(v, b, init)
    /\ Keep

CanNest == CanMake /\ Len(stack) <= MaxDepth

MakeIf ==
    /\ CanNest /\ "if" \in Kinds
    /\ g' = OpenBlock(g, curr, FALSE)
    /\ stack' = Append(stack, [blk |-> Len(g.node) + 1, role |-> "then", pre |-> g.facts, first |-> 0])
    /\ phase' = phase /\ Running

MakeFor ==
    /\ CanNest /\ "for" \in Kinds
    /\ g' = OpenBlock(g, curr, TRUE)
    /\ stack' = Append(stack, [blk |-> Len(g.node) + 1, role |-> "for", pre |-> g.facts, first |-> 0])
    /\ phase' = phase /\ Running

\* Mutant of BlockDone: a loop body is not analysed for its later rounds.
BlockDone_NoLoop(f, b) ==
    LET gf == update_facts_for_oos_vars(f.node[b].locals, f.facts)
    IN  [f |-> [f EXCEPT !.visited = @ \cup {b}, !.facts = gf, !.out[b] = gf], post |-> f.facts]

\* Block::post_creation_analysis up to the return statement
BlockDone(f, b) ==
    LET gf == update_facts_for_oos_vars(f.node[b].locals, f.facts)
        f1 == [f EXCEPT !.visited = @ \cup {b}, !.facts = gf, !.out[b] = gf]
        loop == f.node[b].looping /\ ~must_break_or_return(f, b)
        Settled(r) == [f |-> [r.f EXCEPT !.facts = r.f.out[b]], post |-> r.facts]
    IN  IF loop \/ f.node[b].revisit \/ EdgesIn(f, b, FALSE, TRUE) # {}
        THEN Settled(Settle(IF loop THEN SelfEdge(f1, b) ELSE f1, b, f1.in[b], f.facts))
        ELSE [f |-> f1, post |-> f.facts]

\* Mutant of AppendReturn: only an empty body gets its return.
AppendReturn_Empty(f, b, post) ==
    IF f.node[b].stms = <<>>
    THEN LET f1 == PostCreation(AddNode([f EXCEPT !.facts = post], Node("return", b)), post, post)
         IN  [f1 EXCEPT !.out[b] = f1.out[Len(f1.node)]]
    ELSE f

\* Block::append_return_stmt, where the body of the function lacks one
AppendReturn(f, b, post) ==
    IF ~must_return(f, b)
    THEN LET f1 == PostCreation(AddNode([f EXCEPT !.facts = post], Node("return", b)), post, post)
         IN  [f1 EXCEPT !.out[b] = f1.out[Len(f1.node)]]
    ELSE f

\* StatementIf::combine_branch_facts
CombineBranches(f, t, e, pre) ==
    LET s == Len(f.node)
        pre1 == Makeup(f, Makeup(f, pre, f.out[t]), f.out[e])
        after == BranchFacts(f, s, pre1, Makeup(f, f.out[t], f.in[e]), f.out[e])
    IN  PostCreation(f, pre1, IF must_return(f, t) \/ must_return(f, e) THEN after
                              ELSE merge_facts(f.out[t], f.out[e]))

\* StatementFor::post_loop_analysis
AfterLoop(f, b, pre) ==
    LET s == Len(f.node)
        breaks == {Edge(x, s, TRUE, FALSE) : x \in f.node[b].breaks}
        base == IF must_return(f, b) THEN Makeup(f, pre, f.in[b]) ELSE f.in[b]
        after == MergeJumps(f, base, breaks)
    IN  PostCreation([f EXCEPT !.edges = @ \cup breaks], Makeup(f, pre, after), after)

\* The end of Block::make_random, and of the statement that has the block; d is
\* the function after the block's analysis.
EndStm(d) ==
    LET top == Last(stack)
        up == g.node[curr].parent
        Stm(kind, blks) == AddNode(d.f, [Node(kind, up) EXCEPT !.blks = blks])
    IN  \/ /\ top.role = "then"
           /\ g' = OpenBlock([d.f EXCEPT !.facts = d.f.in[curr]], up, FALSE)
           /\ stack' = Append(Front(stack), [top EXCEPT !.blk = Len(d.f.node) + 1,
                                                       !.role = "else", !.first = curr])
           /\ phase' = phase
        \/ /\ top.role = "else"
           /\ g' = CombineBranches(Stm("if", <<top.first, curr>>), top.first, curr, top.pre)
           /\ stack' = Front(stack) /\ phase' = phase
        \/ /\ top.role = "for"
           /\ g' = AfterLoop(Stm("for", <<curr>>), curr, top.pre)
           /\ stack' = Front(stack) /\ phase' = phase
        \/ /\ top.role = "body"
           /\ g' = [AppendReturn(d.f, curr, d.post) EXCEPT !.facts = GlobalInit]
           /\ stack' = <<>> /\ phase' = "call"

CloseBlock ==
    /\ phase = "make" /\ ~g.aborted /\ g.node[curr].stms # <<>>
    /\ \E d \in {BlockDone(g, curr)} : EndStm(d)
    /\ Running

-----------------------------------------------------------------------------
\* Later callers, and the execution of the function.

\* The live statements: those in the text of the function.
RECURSIVE TextOf(_, _)
TextOf(f, b) ==
    {b} \cup UNION {{s} \cup UNION {TextOf(f, c) : c \in Range(f.node[s].blks)} :
                      s \in Range(f.node[b].stms)}

\* FunctionInvocationUser::revisit: a refused visit puts the maps back.
Revisit ==
    /\ phase = "call" /\ g.calls < MaxCalls
    /\ \E e \in Entries :
          \E r \in {VisitBlock([g EXCEPT !.visited = {}], 1, e)} :
              g' = IF r.ok
                   THEN [r.f EXCEPT !.calls = @ + 1, !.facts = e, !.entries = @ \cup {e}]
                   ELSE [g EXCEPT !.calls = @ + 1, !.visited = r.f.visited]
    /\ Keep

\* Statement::add_back_return_facts: what holds after the call.
ReturnFacts(f) ==
    LET returns == {s \in TextOf(f, 1) : f.node[s].kind = "return"}
        merge(s, acc) == merge_facts(acc, f.out[s])
    IN  FoldSet(merge, f.out[1], returns)

EnterBlock(b, m) ==
    [v \in DOMAIN m |-> IF v \notin g.node[b].locals THEN m[v]
                        ELSE IF v \in Unions THEN g.init[v] ELSE CHOOSE w \in g.init[v] : TRUE]

At(b, i) == IF i <= Len(g.node[b].stms) THEN <<"stm", g.node[b].stms[i]>> ELSE <<"end", b>>
After(s) ==
    LET b == g.node[s].parent
    IN  At(b, 1 + CHOOSE i \in DOMAIN g.node[b].stms : g.node[b].stms[i] = s)
Container(b) == CHOOSE s \in DOMAIN g.node : b \in Range(g.node[s].blks)

\* A call with facts the analysis accepted; the maps speak of the last visit.
Call ==
    /\ phase = "call" /\ phase' = "run"
    /\ \E e \in g.entries :
          LET m == [v \in Pointers \cup Unions |->
                      IF v \in Locals THEN (IF v \in Unions THEN BOTTOM ELSE garbage_ptr)
                      ELSE IF v \in Unions THEN e[v] ELSE CHOOSE w \in e[v] : TRUE]
          IN  /\ mem' = [v \in DOMAIN m |->
                           IF v \notin g.node[1].locals THEN m[v]
                           ELSE IF v \in Unions THEN g.init[v] ELSE CHOOSE w \in g.init[v] : TRUE]
              /\ IF e = g.facts
                 THEN g' = [g EXCEPT !.visited = {}, !.entries = {}] /\ ret' = ReturnFacts(g)
                 ELSE /\ g' = [g EXCEPT !.visited = {}, !.entries = {}, !.in = [s \in DOMAIN @ |-> EmptyFacts]]
                      /\ ret' = EmptyFacts
    /\ pc' = At(1, 1)
    /\ UNCHANGED stack

\* The statement about to be executed meets no null or dead pointer and
\* reads no union field but the one written last.
StmSafe(node) ==
    CASE node.kind = "assign" ->
            /\ Defined(mem, node.use.lhs)
            /\ node.use.rhs.ind >= 0 =>
                  /\ Defined(mem, node.use.rhs)
                  /\ UseLevel(node.use.rhs) > 0 => Value(mem, node.use.rhs) # garbage_ptr
      [] node.kind = "field" -> node.use.write \/ mem[node.use.var] = node.use.fid
      [] OTHER -> TRUE

Effect(node) ==
    CASE node.kind = "assign" /\ UseLevel(node.use.lhs) > 0 -> Store(mem, node.use.lhs, node.use.rhs)
      [] node.kind = "field" /\ node.use.write -> [mem EXCEPT ![node.use.var] = node.use.fid]
      [] OTHER -> mem

AtStm(kinds) == phase = "run" /\ pc[1] = "stm" /\ g.node[pc[2]].kind \in kinds
Executing == UNCHANGED <<g, stack, phase, ret>>

\* From statement s to statement or block d: the blocks left lose their locals.
Leave(s, d) == Kill(mem, LocalsOf(g, Encl(g, s) \ (Encl(g, d) \cup (IF d = 0 THEN {} ELSE {d}))))

ExecSimple ==
    /\ AtStm({"assign", "field"}) /\ StmSafe(g.node[pc[2]])
    /\ mem' = Effect(g.node[pc[2]]) /\ pc' = After(pc[2])
    /\ Executing

ExecIf ==
    /\ AtStm({"if"})
    /\ \E b \in Range(g.node[pc[2]].blks) : mem' = EnterBlock(b, mem) /\ pc' = At(b, 1)
    /\ Executing

ExecFor ==
    /\ AtStm({"for"}) \/ (phase = "run" /\ pc[1] = "loop")
    /\ LET b == g.node[pc[2]].blks[1]
       IN  \/ mem' = EnterBlock(b, mem) /\ pc' = At(b, 1)
           \/ mem' = mem /\ pc' = After(pc[2])
    /\ Executing

ExecSkipJump ==
    /\ AtStm(CtrlStmt)
    /\ pc' = After(pc[2]) /\ UNCHANGED mem
    /\ Executing

ExecJump ==
    /\ AtStm(CtrlStmt)
    /\ LET s == pc[2]
           loop == LoopOf(g, s)
       IN  CASE g.node[s].kind = "goto" ->
                   /\ mem' = Leave(s, g.node[s].dest) /\ pc' = <<"stm", g.node[s].dest>>
             [] g.node[s].kind = "break" ->
                   /\ mem' = Leave(s, g.node[loop].parent) /\ pc' = After(Container(loop))
             [] OTHER ->
                   /\ mem' = Leave(s, g.node[loop].parent) /\ pc' = <<"loop", Container(loop)>>
    /\ Executing

ExecReturn ==
    /\ AtStm({"return"})
    /\ mem' = Kill(mem, Locals) /\ pc' = <<"done", 0>>
    /\ Executing

ExecEnd ==
    /\ phase = "run" /\ pc[1] = "end"
    /\ mem' = Kill(mem, g.node[pc[2]].locals)
    /\ pc' = IF pc[2] = 1 THEN <<"fell", 0>>
             ELSE IF g.node[pc[2]].looping THEN <<"loop", Container(pc[2])>>
             ELSE After(Container(pc[2]))
    /\ Executing

Finished == phase = "run" /\ pc[1] \in {"done", "fell"} /\ UNCHANGED vars

Make ==
    \/ MakeAssign \/ MakeField \/ MakeBreak \/ MakeContinue \/ MakeReturn
    \/ MakeGotoBack \/ MakeGotoForward \/ NewParentLocal \/ MakeIf \/ MakeFor \/ CloseBlock

Exec == ExecSimple \/ ExecIf \/ ExecFor \/ ExecSkipJump \/ ExecJump \/ ExecReturn \/ ExecEnd

Next == Make \/ Revisit \/ Call \/ Exec \/ Finished

Spec == Init /\ [][Next]_vars

-----------------------------------------------------------------------------
\* The facts fit the variables and the statements they are about, and cover every
\* statement; so does memory: what the analysis of one statement rests on (Facts).
\* Execution leaves the facts alone.
TypeOK ==
    /\ phase \in {"make", "call", "run"}
    /\ DOMAIN g.in = DOMAIN g.node /\ DOMAIN g.out = DOMAIN g.node
    /\ g.blocks \subseteq DOMAIN g.node /\ g.visited \subseteq DOMAIN g.node
    /\ phase # "run" =>
          /\ \A facts \in Range(g.in) \cup Range(g.out) \cup {g.facts} : FactsFit(facts)
          /\ \A s \in DOMAIN g.node : g.node[s].kind = "assign" /\ g.in[s] # EmptyFacts =>
                Knows(g.in[s], g.node[s].use.lhs) /\ Knows(g.in[s], g.node[s].use.rhs)
    /\ FactsFit(ret)
    /\ phase = "run" => MemFit(mem)

\* Whenever execution reaches a statement, the facts recorded before it
\* describe memory, and the facts the caller goes on with describe memory
\* after the call (Statement.cpp:582-847, Block.cpp:537-595).
FactsSound ==
    phase = "run" =>
        /\ pc[1] = "stm" => Describes(g.in[pc[2]], mem)
        /\ pc[1] = "done" => Describes(ret, mem)

\* No execution, from any state a caller was accepted with, dereferences a
\* null or dead pointer, reads a dead pointer or a union field that was not
\* written last.
NoBadAccess == AtStm({"assign", "field"}) => StmSafe(g.node[pc[2]])

\* No goto of the finished function enters a block past the initialiser of
\* one of its variables, which C++ rejects (StatementGoto.cpp:285-315).
NoBypass ==
    phase = "call" =>
        \A s \in {t \in TextOf(g, 1) : g.node[t].kind = "goto"} :
            LocalsOf(g, Encl(g, g.node[s].dest) \ Encl(g, s)) = {}

\* Execution never falls off the end of the function (Block.cpp:758-766).
AlwaysReturns == ~(phase = "run" /\ pc[1] = "fell")

\* Removing statements (Block.cpp:612-699) leaves no jump, edge, block or
\* break that belongs to or leads to a statement that is not in the text, which
\* no later visit changes.
NoDangling ==
    phase = "call" =>
        LET text == TextOf(g, 1)
        IN  /\ \A e \in g.edges : e.src \in text /\ e.dest \in text
            /\ g.blocks = {b \in text : g.node[b].kind = "block"}
            /\ \A s \in text : g.node[s].kind = "goto" =>
                    Cardinality({e \in g.edges : e.src = s /\ e.dest = g.node[s].dest}) = 1
            /\ \A s \in text : g.node[s].kind = "break" =>
                    s \in g.node[LoopOf(g, s)].breaks
            /\ \A b \in text : g.node[b].breaks \subseteq text

\* The analysis settles before the assertion of Block.cpp:551.
Converges == ~g.aborted

\* What the analysis leaves behind is a function: its lists and edges belong to its
\* text, its jumps are ones C++ accepts, and it settled before the assertion.
TextFits == TypeOK /\ NoDangling /\ NoBypass /\ Converges

=============================================================================
