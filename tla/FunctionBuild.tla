--------------------------- MODULE FunctionBuild ---------------------------
(***************************************************************************)
(* How HIPSmith decides which function may call which (Function.cpp,       *)
(* FunctionInvocation.cpp, FunctionInvocationUser.cpp).                    *)
(*                                                                         *)
(* Generation is one deep recursion: while the body of a function is being *)
(* generated, an expression may call a function that is already BUILT, or  *)
(* create a new one, whose arguments and then whose body are generated on  *)
(* the spot.  The C++ call stack is the sequence `frames': an "args" frame *)
(* generates the arguments of one call in its caller's context, a "body"   *)
(* frame generates the body of one function.  A new function's args frame  *)
(* turns into its body frame once every argument is there.  When random    *)
(* choices are enumerated (--dfs-exhaustive), a round of generation can be *)
(* abandoned halfway and the next one starts on an emptied FuncList.       *)
(*                                                                         *)
(* A function is its 1-based position in FuncList.  What a body does to    *)
(* points-to and union facts is abstracted to three kinds of statement, the*)
(* ones FunctionInvocationUser::build_invocation tells apart when it       *)
(* decides whether a call needs its callee analysed again.                 *)
(***************************************************************************)
EXTENDS Naturals, Sequences

CONSTANTS
    Builtins,    \* functions registered by initialize_builtin_functions
    MaxFuncs,    \* CGOptions::max_funcs
    Rounds,      \* calls of GenerateFunctions: 1, or more under --dfs-exhaustive
    MaxParams,   \* bound: parameters of one function
    MaxOps,      \* bound: statements and calls generated for one body
    FuncCap      \* bound: positions of FuncList the model keeps

\* CGOptions::has_conflict rejects max_funcs < 1; a pass over FuncList is
\* representable when the model keeps at least the positions of one round.
ASSUME ParamsAssumption ==
    /\ Builtins \in Nat /\ MaxFuncs \in Nat \ {0} /\ Rounds \in Nat \ {0}
    /\ MaxParams \in Nat /\ MaxOps \in Nat
    /\ FuncCap \in Nat /\ FuncCap >= Builtins + MaxFuncs

VARIABLES
    phase,                  \* where GenerateFunctions is
    round,                  \* how many times GenerateFunctions has been entered
    funcs,                  \* FuncList.size()
    builtin_functions_cnt,  \* static counter of Function.cpp
    cur_func_idx,           \* worklist position
    build_state,            \* Function::build_state
    param,                  \* Function::param.size()
    frames,                 \* the generator's call stack
    ops,                    \* statements and calls generated so far, per body
    direct,                 \* kinds of statement in each body
    calls,                  \* <<caller, callee>> for each call expression kept
    fact_changed,           \* Function::fact_changed
    union_field_read,       \* Function::union_field_read
    referenced_ptrs,        \* Function::is_pointer_referenced()
    skipped,                \* calls whose callee was not analysed again (history)
    order, clock            \* when each function became BUILT (history)

progress == <<phase, round, cur_func_idx>>
summaries == <<fact_changed, union_field_read, referenced_ptrs>>
history == <<skipped, order, clock>>
vars == <<phase, round, funcs, builtin_functions_cnt, cur_func_idx, build_state,
          param, frames, ops, direct, calls, fact_changed, union_field_read,
          referenced_ptrs, skipped, order, clock>>

Fn == 1..FuncCap
NoFn == 0

(* What a statement does to the facts:                                     *)
(*   PtrAssign   an assignment whose left side is a pointer variable       *)
(*   FactWrite   an assignment to a field of a global union, or a loop     *)
(*               that initialises an array of pointers                     *)
(*   UnionRead   an expression that reads a union field                    *)
Kinds == {"PtrAssign", "FactWrite", "UnionRead"}
FactWrites == {"PtrAssign", "FactWrite"}

Frame == [stage: {"args", "body"}, fn: Fn, caller: Fn \cup {NoFn},
          isNew: BOOLEAN, params: 0..MaxParams]

TypeOK ==
    /\ phase \in {"builtins", "generate", "worklist", "done", "failed"}
    /\ round \in 1..Rounds
    /\ funcs \in 0..FuncCap
    /\ builtin_functions_cnt \in Nat
    /\ cur_func_idx \in 0..FuncCap
    /\ build_state \in [Fn -> {"UNBUILT", "BUILDING", "BUILT"}]
    /\ param \in [Fn -> 0..MaxParams]
    /\ frames \in Seq(Frame)
    /\ ops \in [Fn -> 0..MaxOps]
    /\ direct \in [Fn -> SUBSET Kinds]
    /\ calls \in SUBSET (Fn \X Fn)
    /\ fact_changed \in [Fn -> BOOLEAN]
    /\ union_field_read \in [Fn -> BOOLEAN]
    /\ referenced_ptrs \in [Fn -> BOOLEAN]
    /\ skipped \in SUBSET (Fn \X Fn)
    /\ order \in [Fn -> Nat]
    /\ clock \in Nat

-----------------------------------------------------------------------------

\* An empty FuncList; Function::Function sets what a new function starts with.
Init ==
    /\ phase = "builtins"
    /\ round = 1
    /\ builtin_functions_cnt = 0
    /\ funcs = 0
    /\ cur_func_idx = 0
    /\ build_state = [f \in Fn |-> "UNBUILT"]
    /\ param = [f \in Fn |-> 0]
    /\ frames = << >>
    /\ ops = [f \in Fn |-> 0]
    /\ direct = [f \in Fn |-> {}]
    /\ calls = {}
    /\ fact_changed = [f \in Fn |-> FALSE]
    /\ union_field_read = [f \in Fn |-> FALSE]
    /\ referenced_ptrs = [f \in Fn |-> FALSE]
    /\ skipped = {}
    /\ order = [f \in Fn |-> 0]
    /\ clock = 0

Top == frames[Len(frames)]
Below == SubSeq(frames, 1, Len(frames) - 1)

\* CGContext::get_current_func: an argument belongs to the caller's body.
CurrentFunc == IF Top.stage = "body" THEN Top.fn ELSE Top.caller

\* Mutant of is_effect_known: any function with a body would do.
is_effect_known_BodyBegun(f) == f <= funcs /\ build_state[f] # "UNBUILT"

\* Function::is_effect_known
is_effect_known(f) == f <= funcs /\ build_state[f] = "BUILT"

\* Function::reach_max_functions_cnt, kept in Nat: size - builtins >= max_funcs
reach_max_functions_cnt == funcs >= builtin_functions_cnt + MaxFuncs

\* GetFirstFunction
FirstFunction == builtin_functions_cnt + 1

\* The test of FunctionInvocationUser::build_invocation.
NeedsRevisit(f) ==
    /\ f # FirstFunction
    /\ fact_changed[f] \/ union_field_read[f] \/ referenced_ptrs[f]

-----------------------------------------------------------------------------

\* Function::make_builtin_function: a dummy body, BUILT at once.
MakeBuiltin ==
    /\ phase = "builtins"
    /\ funcs < Builtins
    /\ funcs' = funcs + 1
    /\ \E p \in 0..MaxParams : param' = [param EXCEPT ![funcs + 1] = p]
    /\ build_state' = [build_state EXCEPT ![funcs + 1] = "BUILT"]
    /\ builtin_functions_cnt' = builtin_functions_cnt + 1
    /\ clock' = clock + 1
    /\ order' = [order EXCEPT ![funcs + 1] = clock + 1]
    /\ UNCHANGED <<progress, frames, ops, direct, calls, summaries, skipped>>

\* Function::make_first: no limit is consulted, and its body starts at once.
MakeFirst ==
    /\ phase = "builtins"
    /\ funcs = Builtins
    /\ phase' = "generate"
    /\ funcs' = funcs + 1
    /\ build_state' = [build_state EXCEPT ![funcs + 1] = "BUILDING"]
    /\ frames' = << [stage |-> "body", fn |-> funcs + 1, caller |-> NoFn,
                     isNew |-> TRUE, params |-> 0] >>
    /\ UNCHANGED <<round, builtin_functions_cnt, cur_func_idx, param, ops, direct,
                   calls, summaries, history>>

\* A call expression can be generated in a body, or as one of the arguments of
\* a call whose argument list is not complete.
MayCall ==
    /\ phase = "generate"
    /\ frames # << >>
    /\ Top.stage = "args" => Top.params > 0
    /\ ops[CurrentFunc] < MaxOps

\* The stack once the top frame has spent an argument slot on a nested call.
WithArgTaken ==
    IF Top.stage = "args"
    THEN [frames EXCEPT ![Len(frames)].params = @ - 1]
    ELSE frames

\* FunctionInvocation::make_random picked g with Function::choose_func: any
\* function whose effect is known (the conflict tests only narrow the choice).
CallExisting(g) ==
    /\ MayCall
    /\ is_effect_known(g)
    /\ frames' = Append(WithArgTaken,
                        [stage |-> "args", fn |-> g, caller |-> CurrentFunc,
                         isNew |-> FALSE, params |-> param[g]])
    /\ ops' = [ops EXCEPT ![CurrentFunc] = @ + 1]
    /\ UNCHANGED <<progress, funcs, builtin_functions_cnt, build_state, param,
                   direct, calls, summaries, history>>

\* build_invocation_and_function: make_random_signature adds the new function to
\* FuncList before the arguments of the call are generated.
CallNew ==
    /\ MayCall
    /\ ~reach_max_functions_cnt
    /\ funcs < FuncCap
    /\ funcs' = funcs + 1
    /\ \E p \in 0..MaxParams :
          /\ param' = [param EXCEPT ![funcs + 1] = p]
          /\ frames' = Append(WithArgTaken,
                              [stage |-> "args", fn |-> funcs + 1,
                               caller |-> CurrentFunc, isNew |-> TRUE, params |-> p])
    /\ ops' = [ops EXCEPT ![CurrentFunc] = @ + 1]
    /\ UNCHANGED <<progress, builtin_functions_cnt, build_state, direct, calls,
                   summaries, history>>

\* Mutant of FillArg: one argument too many.
FillArg_OneMore ==
    /\ phase = "generate" /\ frames # << >>
    /\ Top.stage = "args"
    /\ frames' = [frames EXCEPT ![Len(frames)].params = @ - 1]
    /\ UNCHANGED <<progress, funcs, builtin_functions_cnt, build_state, param, ops,
                   direct, calls, summaries, history>>

\* Expression::make_random_param chose something that is not a call.
FillArg ==
    /\ phase = "generate" /\ frames # << >>
    /\ Top.stage = "args" /\ Top.params > 0
    /\ frames' = [frames EXCEPT ![Len(frames)].params = @ - 1]
    /\ UNCHANGED <<progress, funcs, builtin_functions_cnt, build_state, param, ops,
                   direct, calls, summaries, history>>

ArgsComplete ==
    /\ phase = "generate" /\ frames # << >>
    /\ Top.stage = "args" /\ Top.params = 0

\* build_invocation after the arguments.  A callee that may change or read
\* facts is analysed again in this context; when that analysis fails the call is
\* replaced by a variable (ExpressionFuncall::make_random), and the calls among
\* its arguments go with it, unless they occur elsewhere in the body.
RevisitCallee ==
    /\ ArgsComplete /\ ~Top.isNew
    /\ NeedsRevisit(Top.fn)
    /\ frames' = Below
    /\ \/ /\ calls' = calls \cup {<<Top.caller, Top.fn>>}
          /\ fact_changed' = [fact_changed EXCEPT
                                 ![Top.caller] = @ \/ fact_changed[Top.fn]]
       \/ /\ \E lost \in SUBSET {e \in calls : e[1] = Top.caller} : calls' = calls \ lost
          /\ UNCHANGED fact_changed
    /\ UNCHANGED <<progress, funcs, builtin_functions_cnt, build_state, param, ops,
                   direct, union_field_read, referenced_ptrs, history>>

\* Mutant of SkipCallee: a new function is treated like one that has a body.
SkipCallee_New ==
    /\ ArgsComplete
    /\ ~NeedsRevisit(Top.fn)
    /\ frames' = Below
    /\ calls' = calls \cup {<<Top.caller, Top.fn>>}
    /\ fact_changed' = [fact_changed EXCEPT ![Top.caller] = @ \/ fact_changed[Top.fn]]
    /\ skipped' = skipped \cup {<<Top.caller, Top.fn>>}
    /\ UNCHANGED <<progress, funcs, builtin_functions_cnt, build_state, param, ops,
                   direct, union_field_read, referenced_ptrs, order, clock>>

\* The other branch: only the effect recorded for the callee is taken over.
SkipCallee ==
    /\ ArgsComplete /\ ~Top.isNew
    /\ ~NeedsRevisit(Top.fn)
    /\ frames' = Below
    /\ calls' = calls \cup {<<Top.caller, Top.fn>>}
    /\ fact_changed' = [fact_changed EXCEPT ![Top.caller] = @ \/ fact_changed[Top.fn]]
    /\ skipped' = skipped \cup {<<Top.caller, Top.fn>>}
    /\ UNCHANGED <<progress, funcs, builtin_functions_cnt, build_state, param, ops,
                   direct, union_field_read, referenced_ptrs, order, clock>>

\* Function::generate_body_with_known_params, which ignores a function that is
\* not UNBUILT.
StartBody ==
    /\ ArgsComplete /\ Top.isNew
    /\ build_state[Top.fn] = "UNBUILT"
    /\ build_state' = [build_state EXCEPT ![Top.fn] = "BUILDING"]
    /\ frames' = [frames EXCEPT ![Len(frames)].stage = "body"]
    /\ UNCHANGED <<progress, funcs, builtin_functions_cnt, param, ops, direct,
                   calls, summaries, history>>

InBody == phase = "generate" /\ frames # << >> /\ Top.stage = "body"

\* Mutant of MakeStatement: the size of the block does not limit it.
MakeStatement_NoLimit(k) ==
    /\ InBody
    /\ direct' = [direct EXCEPT ![Top.fn] = @ \cup {k}]
    /\ fact_changed' = [fact_changed EXCEPT ![Top.fn] = @ \/ k \in FactWrites]
    /\ UNCHANGED <<progress, funcs, builtin_functions_cnt, build_state, param, ops,
                   frames, calls, union_field_read, referenced_ptrs, history>>

\* One statement that matters to the facts: StatementAssign (through
\* FactMgr::update_fact_for_assign), StatementArrayOp, or a read of a union.
MakeStatement(k) ==
    /\ InBody
    /\ ops[Top.fn] < MaxOps
    /\ ops' = [ops EXCEPT ![Top.fn] = @ + 1]
    /\ direct' = [direct EXCEPT ![Top.fn] = @ \cup {k}]
    /\ fact_changed' = [fact_changed EXCEPT ![Top.fn] = @ \/ k \in FactWrites]
    /\ UNCHANGED <<progress, funcs, builtin_functions_cnt, build_state, param,
                   frames, calls, union_field_read, referenced_ptrs, history>>

\* Mutant of RemoveStatement: the statement may belong to another body.
RemoveStatement_AnyBody ==
    /\ InBody
    /\ \E e \in calls : calls' = calls \ {e}
    /\ UNCHANGED <<progress, funcs, builtin_functions_cnt, build_state, param,
                   frames, ops, direct, summaries, history>>

\* Block::remove_stmt, called by post_creation_analysis while the body is being
\* generated: a statement, or the call in it, disappears; no flag is reset.
RemoveStatement ==
    /\ InBody
    /\ \/ \E e \in calls : e[1] = Top.fn /\ calls' = calls \ {e} /\ UNCHANGED direct
       \/ \E k \in direct[Top.fn] :
             /\ direct' = [direct EXCEPT ![Top.fn] = @ \ {k}]
             /\ UNCHANGED calls
    /\ UNCHANGED <<progress, funcs, builtin_functions_cnt, build_state, param,
                   frames, ops, summaries, history>>

Callees(f) == {e[2] : e \in {c \in calls : c[1] = f}}

\* Mutants of the summaries: the callees are forgotten.
get_referenced_ptrs_Own(f) == "PtrAssign" \in direct[f]
read_union_field_Own(f) == "UnionRead" \in direct[f]

\* Statement::get_referenced_ptrs: pointers of this body and of its callees.
get_referenced_ptrs(f) ==
    "PtrAssign" \in direct[f] \/ \E g \in Callees(f) : referenced_ptrs[g]

\* Statement::read_union_field
read_union_field(f) ==
    "UnionRead" \in direct[f] \/ \E g \in Callees(f) : union_field_read[g]

\* The end of generate_body_with_known_params (compute_summary, BUILT) and of
\* build_invocation_and_function: the call becomes part of the caller.
FinishBody ==
    /\ InBody
    /\ Top.caller # NoFn
    /\ referenced_ptrs' = [referenced_ptrs EXCEPT ![Top.fn] = get_referenced_ptrs(Top.fn)]
    /\ union_field_read' = [union_field_read EXCEPT ![Top.fn] = read_union_field(Top.fn)]
    /\ build_state' = [build_state EXCEPT ![Top.fn] = "BUILT"]
    /\ clock' = clock + 1
    /\ order' = [order EXCEPT ![Top.fn] = clock + 1]
    /\ calls' = calls \cup {<<Top.caller, Top.fn>>}
    /\ frames' = Below
    /\ UNCHANGED <<progress, funcs, builtin_functions_cnt, param, ops, direct,
                   fact_changed, skipped>>

\* The same for the first function: GenerateBody, then make_first returns.
FinishFirst ==
    /\ InBody
    /\ Top.caller = NoFn
    /\ referenced_ptrs' = [referenced_ptrs EXCEPT ![Top.fn] = get_referenced_ptrs(Top.fn)]
    /\ build_state' = [build_state EXCEPT ![Top.fn] = "BUILT"]
    /\ clock' = clock + 1
    /\ order' = [order EXCEPT ![Top.fn] = clock + 1]
    /\ frames' = Below
    /\ phase' = "worklist"
    /\ UNCHANGED <<round, cur_func_idx, funcs, builtin_functions_cnt, param, ops,
                   direct, calls, fact_changed, union_field_read, skipped>>

\* GenerateFunctions' loop over FuncList.  Its other branch generates a body that
\* is not BUILT: WorklistIdle says that it never runs.
WorklistStep ==
    /\ phase = "worklist"
    /\ cur_func_idx < funcs
    /\ build_state[cur_func_idx + 1] = "BUILT"
    /\ cur_func_idx' = cur_func_idx + 1
    /\ UNCHANGED <<phase, round, funcs, builtin_functions_cnt, build_state, param,
                   frames, ops, direct, calls, summaries, history>>

WorklistEnd ==
    /\ phase = "worklist"
    /\ cur_func_idx = funcs
    /\ phase' = "done"
    /\ UNCHANGED <<round, cur_func_idx, funcs, builtin_functions_cnt, build_state,
                   param, frames, ops, direct, calls, summaries, history>>

\* The enumerating random source gives up on a choice (BACKTRACKING_ERROR): every
\* ERROR_GUARD on the call stack returns, and GenerateFunctions with them.
Abandon ==
    /\ phase = "generate"
    /\ Rounds > 1
    /\ phase' = "failed"
    /\ frames' = << >>
    /\ UNCHANGED <<round, cur_func_idx, funcs, builtin_functions_cnt, build_state,
                   param, ops, direct, calls, summaries, history>>

\* DFSProgramGenerator::goGenerator: Function::doFinalization empties FuncList
\* and GenerateFunctions runs again; builtin_functions_cnt keeps its value.
NextRound ==
    /\ phase \in {"done", "failed"}
    /\ round < Rounds
    /\ round' = round + 1
    /\ phase' = "builtins"
    /\ funcs' = 0 /\ cur_func_idx' = 0
    /\ build_state' = [f \in Fn |-> "UNBUILT"]
    /\ param' = [f \in Fn |-> 0]
    /\ ops' = [f \in Fn |-> 0]
    /\ direct' = [f \in Fn |-> {}]
    /\ calls' = {}
    /\ fact_changed' = [f \in Fn |-> FALSE]
    /\ union_field_read' = [f \in Fn |-> FALSE]
    /\ referenced_ptrs' = [f \in Fn |-> FALSE]
    /\ skipped' = {}
    /\ order' = [f \in Fn |-> 0] /\ clock' = 0
    /\ UNCHANGED frames
    /\ UNCHANGED builtin_functions_cnt

Stop == phase \in {"done", "failed"} /\ round = Rounds /\ UNCHANGED vars

Next ==
    \/ MakeBuiltin \/ MakeFirst
    \/ \E g \in Fn : CallExisting(g)
    \/ CallNew \/ FillArg \/ RevisitCallee \/ SkipCallee \/ StartBody
    \/ \E k \in Kinds : MakeStatement(k)
    \/ RemoveStatement \/ FinishBody \/ FinishFirst
    \/ WorklistStep \/ WorklistEnd \/ Abandon \/ NextRound \/ Stop

Spec == Init /\ [][Next]_vars

\* The generator is one sequential computation, so a step that can be taken is
\* taken: weak fairness of the whole next-state relation.
FairSpec == Spec /\ WF_vars(Next)

-----------------------------------------------------------------------------

\* No group of functions calls only within itself: the call graph of the program
\* has no cycle.  choose_func relies on is_effect_known for this, with "in
\* practice, this means we never call an as-yet unbuilt func".
NoRecursion ==
    \A S \in SUBSET Fn :
        S # {} => \E f \in S : \A g \in S : <<f, g>> \notin calls

\* Once BUILT, a function neither gains nor loses calls and statements: the
\* summaries that its callers rely on describe its final body.
BuiltIsFrozen ==
    [][\A f \in Fn :
          build_state[f] = "BUILT" /\ round' = round =>
             /\ build_state'[f] = "BUILT"
             /\ {e \in calls' : e[1] = f} = {e \in calls : e[1] = f}
             /\ direct'[f] = direct[f]]_vars

\* When make_first returns, every function it led to is complete, and the loop of
\* GenerateFunctions finds nothing left to build.
WorklistIdle ==
    phase \in {"worklist", "done"} =>
        \A f \in Fn : f <= funcs => build_state[f] = "BUILT"

\* All functions that f can reach, f included: the members of every set that contains f
\* and the callees of its members.
Reach(f) ==
    LET Closed == {S \in SUBSET Fn : f \in S /\ \A g \in S : Callees(g) \subseteq S}
    IN  {g \in Fn : \A S \in Closed : g \in S}

\* The calls in the program whose callee was not analysed again.  build_invocation
\* exempts what GetFirstFunction returns, which is the first function while the count
\* of built-ins is that of this round.
Skipped == {e \in skipped \cap calls : e[2] # FirstFunction}

\* A call whose callee is not analysed again never leads to an assignment through
\* a pointer variable: referenced_ptrs is closed over callees.
SkippedCallsKeepPointers ==
    \A e \in Skipped : \A g \in Reach(e[2]) : "PtrAssign" \notin direct[g]

\* ... nor to a read of a union field, whose validity depends on the context.
SkippedCallsReadNoUnion ==
    \A e \in Skipped : \A g \in Reach(e[2]) : "UnionRead" \notin direct[g]

\* What build_invocation takes for granted of a callee whose summary flags are clear.
SkippedCallsStatic == SkippedCallsKeepPointers /\ SkippedCallsReadNoUnion

\* The inductive invariant behind NoRecursion, WorklistIdle and BuiltIsFrozen.
\* A frame's functions are in the state its stage says, the caller of a frame has
\* its own body frame below, and no function is on the stack twice.
FramesOK ==
    /\ \A i \in 1..Len(frames) :
          /\ frames[i].stage = "body" =>
                frames[i].isNew /\ build_state[frames[i].fn] = "BUILDING"
          /\ frames[i].stage = "args" =>
                /\ frames[i].caller # NoFn
                /\ build_state[frames[i].fn] =
                      IF frames[i].isNew THEN "UNBUILT" ELSE "BUILT"
          /\ frames[i].fn <= funcs
          /\ frames[i].caller # NoFn =>
                \E k \in 1..(i-1) :
                    frames[k].stage = "body" /\ frames[k].fn = frames[i].caller
    /\ \A i, j \in 1..Len(frames) :
          i # j /\ frames[i].isNew /\ frames[j].isNew => frames[i].fn # frames[j].fn

\* A call leads to a function that was BUILT before its caller.
CallsOrdered ==
    /\ \A e \in calls :
          /\ build_state[e[2]] = "BUILT"
          /\ build_state[e[1]] = "BUILT" => order[e[2]] < order[e[1]]
    /\ \A f \in Fn : order[f] <= clock

\* Functions beyond the end of FuncList do not exist; those in it that are not
\* BUILT are on the stack, whose bottom frame alone has no caller.  Only a round
\* that was abandoned leaves unfinished functions behind.
Accounted ==
    /\ \A f \in Fn : f > funcs => build_state[f] = "UNBUILT"
    /\ \A f \in Fn : f <= funcs /\ build_state[f] # "BUILT" /\ phase # "failed" =>
          \E i \in 1..Len(frames) : frames[i].isNew /\ frames[i].fn = f
    /\ \A i \in 1..Len(frames) : frames[i].caller = NoFn => i = 1
    /\ phase # "generate" => frames = << >>

IInv == TypeOK /\ FramesOK /\ CallsOrdered /\ Accounted

\* Every body that is begun is finished, and with it all those begun for its sake,
\* unless the round is abandoned.
EveryBodyFinished ==
    (\E f \in Fn : build_state[f] = "BUILDING") ~>
        ((\A f \in Fn : build_state[f] # "BUILDING") \/ phase = "failed")

=============================================================================
