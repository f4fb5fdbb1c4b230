---------------------------- MODULE EffectContext ----------------------------
(***************************************************************************)
(* Read and write sets while one expression statement is generated         *)
(* (Effect.cpp, CGContext.cpp and the make_random functions of expressions *)
(* that have several operands).                                            *)
(*                                                                         *)
(* The C++ call stack is the sequence `stack': one frame per operator whose*)
(* operands are being generated.  A frame has the CGContext it was entered *)
(* with: `ctx', the effect that its expression must not conflict with, and *)
(* `accum', the effect recorded so far.  `run' is running_eff_context (or  *)
(* rhs_eff_context), the context of the next operand.  Some operators give *)
(* each operand a context of its own, others pass theirs on.  `kept' is a  *)
(* copy of an effect: for a call, what was recorded before it; for an      *)
(* assignment, what its right side did (effect_stm).                       *)
(*                                                                         *)
(* What an operand will really access when the program runs is `outs', a   *)
(* history: r, w are all variables read and written, callees included, and *)
(* dw those written by assignments outside of calls; at are the targets of *)
(* atomic intrinsics, which read and write them.  One function besides the *)
(* current one is modelled; what its body accesses is chosen freely among  *)
(* what its context admits.                                                *)
(***************************************************************************)
EXTENDS Naturals, Sequences

CONSTANTS
    Globals,    \* g_*, hip_const_*, hip_device_*
    Managed,    \* hip_managed_*
    Locals,     \* locals of the current function, reachable through pointers
    Flags,      \* HIPOptions given
    MaxExprDepth,   \* CGOptions::max_expr_depth
    MaxDepth        \* bound: nested operators, the statement counted

Options == {"vectors", "hip_warp_shuffle", "hip_atomic", "hip_managed"}

ASSUME ContextAssumption ==
    /\ Flags \subseteq Options
    /\ Globals \cap Managed = {} /\ Globals \cap Locals = {} /\ Managed \cap Locals = {}
    /\ Managed # {} => "hip_managed" \in Flags
    /\ MaxExprDepth \in Nat /\ MaxDepth \in Nat \ {0}

VARIABLES
    stack,      \* the generator's call stack, for one statement
    expr_depth, \* leaves and calls generated in this statement
    callee      \* the other function: NotMade until it is created

vars == <<stack, expr_depth, callee>>

Var == Globals \cup Managed \cup Locals
Effect == [read: SUBSET Var, write: SUBSET Var, lhs_write: SUBSET Var]
Access == [r: SUBSET Var, w: SUBSET Var, dw: SUBSET Var, at: SUBSET Var]

NoEffect == [read |-> {}, write |-> {}, lhs_write |-> {}]
NoAccess == [r |-> {}, w |-> {}, dw |-> {}, at |-> {}]

(* The operators, by how they treat their operands:                        *)
(*   stm      the statement itself, one operand                            *)
(*   binary   unordered binary operator                                    *)
(*   ordered  && and ||                                                    *)
(*   comma    ExpressionComma                                              *)
(*   assign, compound   an assignment, whose second operand is the Lhs     *)
(*   new, old           a call of a function created for it, or existing   *)
(*   shuffle, vector    an intrinsic with two arguments, a vector literal  *)
(*   atomic   an atomic intrinsic: &target and one value                   *)
Unordered == {"binary", "new", "old", "shuffle", "vector"}
Assigns == {"assign", "compound"}
Calls == {"new", "old"}
Ops == {"stm", "ordered", "comma", "atomic"} \cup Unordered \cup Assigns

Arity(op) == IF op \in {"stm", "atomic"} THEN 1 ELSE 2

Frame == [op: Ops, ctx: Effect, accum: Effect, run: Effect, kept: Effect,
          outs: Seq(Access), target: SUBSET Var]

\* The function: what its body accesses by name, whether it goes through
\* pointers, Function::feffect and accum_eff_context.
Functions == [known: BOOLEAN, body: Access, ptr: BOOLEAN, feffect: Effect, seen: Effect]
NotMade == [known |-> FALSE, body |-> NoAccess, ptr |-> FALSE,
            feffect |-> NoEffect, seen |-> NoEffect]

TypeOK ==
    /\ stack \in Seq(Frame) /\ Len(stack) <= MaxDepth
    /\ \A i \in 1..Len(stack) :
          /\ Len(stack[i].outs) <= Arity(stack[i].op)
          /\ i < Len(stack) => Len(stack[i].outs) < Arity(stack[i].op)
    /\ expr_depth \in 0..MaxExprDepth + 3 * MaxDepth
    /\ callee \in Functions

-----------------------------------------------------------------------------

\* Effect::add_effect
AddEffect(e, f, include_lhs_effects) ==
    [read |-> e.read \cup f.read, write |-> e.write \cup f.write,
     lhs_write |-> IF include_lhs_effects THEN e.lhs_write \cup f.lhs_write
                   ELSE e.lhs_write]

\* Variable::is_global knows the variables by their names' prefixes.
is_global(v) == v \in Globals

\* Mutant of AddExternalEffect: the variables of the call chain are dropped.
AddExternalEffect_NoChain(e, f, chain) ==
    [e EXCEPT !.read = @ \cup {v \in f.read : is_global(v)},
              !.write = @ \cup {v \in f.write : is_global(v)}]

\* Effect::add_external_effect: globals, and the variables on the call chain.
AddExternalEffect(e, f, chain) ==
    [e EXCEPT !.read = @ \cup {v \in f.read : is_global(v) \/ v \in chain},
              !.write = @ \cup {v \in f.write : is_global(v) \/ v \in chain}]

\* Effect's copy constructor and assignment leave out lhs_write_vars.
Copied(e) == [e EXCEPT !.lhs_write = {}]

EffectOf(a) == [NoEffect EXCEPT !.read = a.r, !.write = a.w]

\* Mutant of MayWrite: what has been read may still be written.
MayWrite_Read(ctx, v) == v \notin ctx.write

\* CGContext::check_read_var, check_write_var: the parts that look at effects.
MayRead(ctx, v) == v \notin ctx.write
MayWrite(ctx, v) == v \notin ctx.write /\ v \notin ctx.read

\* CGContext::in_conflict
in_conflict(ctx, e) ==
    (\E v \in e.read : ~MayRead(ctx, v)) \/ (\E v \in e.write : ~MayWrite(ctx, v))

-----------------------------------------------------------------------------

Init == stack = << >> /\ expr_depth = 0 /\ callee = NotMade

Top == stack[Len(stack)]
Below == SubSeq(stack, 1, Len(stack) - 1)

\* Mutant of Generating: one operand too many.
Generating_OneMore == stack # << >> /\ Len(Top.outs) <= Arity(Top.op)

\* The loops over the operands and parameters.
Generating == stack # << >> /\ Len(Top.outs) < Arity(Top.op)

Complete == stack # << >> /\ Len(Top.outs) = Arity(Top.op)

\* Operands that are generated in the operator's own CGContext.
Shared(fr) ==
    \/ fr.op \in {"stm", "comma", "shuffle", "vector", "atomic"}
    \/ fr.op = "ordered" /\ fr.outs # << >>

\* The effect context and the accumulator the next operand is generated with.
OperandContext(fr) == IF Shared(fr) THEN fr.ctx ELSE fr.run
OperandAccum(fr) == IF Shared(fr) THEN fr.accum ELSE NoEffect

\* Mutant of NextRun: the operand is not added to the running context.
NextRun_Keep(fr, a) == fr.run

\* The running context after an operand whose accumulator is a.
NextRun(fr, a) ==
    CASE fr.op \in {"binary", "new", "old", "compound"} ->
            [AddEffect(fr.run, a, TRUE) EXCEPT !.write = @ \cup
                 (IF fr.op = "compound" THEN a.lhs_write ELSE {})]
      [] fr.op = "assign" -> [fr.run EXCEPT !.write = @ \cup a.lhs_write]
      [] OTHER -> fr.run

\* The operator's accumulator after it: merge_param_context, without the effects
\* on left sides for the arguments of a call.
Merged(fr, a) == IF Shared(fr) THEN a ELSE AddEffect(fr.accum, a, fr.op \notin Calls)

\* The stack fs once its top frame has got an operand.
WithOperand(fs, a, out) ==
    LET fr == fs[Len(fs)] IN
    [fs EXCEPT ![Len(fs)] =
        [fr EXCEPT !.outs = Append(@, out), !.run = NextRun(fr, a),
                   !.accum = Merged(fr, a),
                   !.kept = IF fr.op \in Assigns THEN Copied(a) ELSE @]]

\* Below this only leaves are generated (Expression::make_random, HIPExpression).
DepthLeft(op) == expr_depth + (IF op \in {"shuffle", "atomic"} THEN 1 ELSE 2) <= MaxExprDepth

\* A new statement, with an empty context (Statement::make_random).
StartStatement ==
    /\ stack = << >>
    /\ stack' = << [op |-> "stm", ctx |-> NoEffect, accum |-> NoEffect,
                    run |-> NoEffect, kept |-> NoEffect, outs |-> << >>,
                    target |-> {}] >>
    /\ expr_depth' = 0
    /\ UNCHANGED callee

\* The second operand of an assignment is not an expression but an Lhs.
ExpressionWanted == Generating /\ ~(Top.op \in Assigns /\ Top.outs # << >>)

\* Constants that Expression::make_random does not count: elements of a vector, the
\* distance of a shift, the 1 of x++.
Uncounted(fr) ==
    \/ fr.op = "vector"
    \/ fr.op = "binary" /\ fr.outs # << >>
    \/ fr.op = "compound" /\ fr.outs = << >>

\* Constant::make_random, and a variable that is created for the purpose: nothing
\* else in the statement knows it.
MakeConstant ==
    /\ ExpressionWanted
    /\ stack' = WithOperand(stack, OperandAccum(Top), NoAccess)
    /\ \/ expr_depth' = expr_depth + 1
       \/ Uncounted(Top) /\ UNCHANGED expr_depth
    /\ UNCHANGED callee

\* ExpressionVariable::make_random: one variable, or a pointer and its pointee.
MakeVariable ==
    /\ ExpressionWanted
    /\ \E v, p \in Var :
          /\ MayRead(OperandContext(Top), v) /\ MayRead(OperandContext(Top), p)
          /\ stack' = WithOperand(stack,
                          [OperandAccum(Top) EXCEPT !.read = @ \cup {v, p}],
                          [NoAccess EXCEPT !.r = {v, p}])
    /\ expr_depth' = expr_depth + 1
    /\ UNCHANGED callee

Enter(op, target) ==
    /\ ExpressionWanted /\ DepthLeft(op) /\ Len(stack) < MaxDepth
    /\ LET ctx == Copied(OperandContext(Top)) IN
          stack' = Append(stack,
                       [op |-> op, ctx |-> ctx, accum |-> OperandAccum(Top),
                        run |-> ctx, outs |-> << >>, target |-> target,
                        kept |-> IF op \in Calls THEN OperandAccum(Top) ELSE NoEffect])
    /\ UNCHANGED <<expr_depth, callee>>

\* make_random_binary, ExpressionComma and ExpressionAssign ::make_random
EnterOperator == \E op \in {"binary", "ordered", "comma"} \cup Assigns : Enter(op, {})

\* The HIP expressions exist under their options, and not as parameters.
HIPExpressionWanted == ExpressionWanted /\ Top.op \notin Calls

EnterIntrinsic ==
    \/ "hip_warp_shuffle" \in Flags /\ HIPExpressionWanted /\ Enter("shuffle", {})
    \/ "vectors" \in Flags /\ HIPExpressionWanted /\ Enter("vector", {})

\* VariableSelector::select picks a variable that could be written here.
EnterAtomic ==
    /\ "hip_atomic" \in Flags
    /\ \E v \in Var : /\ HIPExpressionWanted /\ MayWrite(OperandContext(Top), v)
                      /\ Enter("atomic", {v})

\* Function::choose_func takes a function whose known effect does not conflict.
EnterCall ==
    \/ ~callee.known /\ (\A i \in 1..Len(stack) : stack[i].op # "new") /\ Enter("new", {})
    \/ /\ callee.known /\ ExpressionWanted
       /\ ~in_conflict(OperandContext(Top), callee.feffect)
       /\ Enter("old", {})

\* Lhs::make_random: a variable, or what a pointer p points to, or one created for
\* the purpose.  A compound assignment reads it first.  The variable named must
\* not be written by the right side at all.
MakeLhs ==
    /\ Generating /\ Top.op \in Assigns /\ Top.outs # << >>
    /\ \/ stack' = WithOperand(stack, NoEffect, NoAccess)
       \/ \E v \in Var, P \in {{}} \cup {{p} : p \in Var} :
             LET rs == P \cup (IF Top.op = "compound" THEN {v} ELSE {}) IN
             /\ v \notin P
             /\ (IF P = {} THEN {v} ELSE P) \cap Top.kept.write = {}
             /\ \A x \in rs : MayRead(Top.run, x)
             /\ MayWrite(Top.run, v)
             /\ stack' = WithOperand(stack,
                             [read |-> rs, write |-> {v}, lhs_write |-> {v}],
                             [r |-> rs, w |-> {v}, dw |-> {v}, at |-> {}])
    /\ UNCHANGED <<expr_depth, callee>>

-----------------------------------------------------------------------------

AllOf(outs) ==
    [r |-> UNION {outs[i].r : i \in 1..Len(outs)},
     w |-> UNION {outs[i].w : i \in 1..Len(outs)},
     dw |-> UNION {outs[i].dw : i \in 1..Len(outs)},
     at |-> UNION {outs[i].at : i \in 1..Len(outs)}]

\* The frame's expression is finished and becomes an operand of the one below.
Leave(accum, out) ==
    /\ stack' = WithOperand(Below, accum, out)
    /\ expr_depth' = IF Top.op \in Calls THEN expr_depth + 1 ELSE expr_depth

\* Writes before a sequence point are no longer side effects of the whole.
LeaveOperator ==
    /\ Complete
    /\ Top.op \in {"binary", "ordered", "comma", "shuffle", "vector"} \cup Assigns
    /\ LET all == AllOf(Top.outs) IN
          Leave(Top.accum,
                CASE Top.op \in {"ordered", "comma"} -> [all EXCEPT !.dw = Top.outs[2].dw]
                  [] Top.op \in {"shuffle", "vector"} -> [all EXCEPT !.dw = {}]
                  [] OTHER -> all)
    /\ UNCHANGED callee

\* The intrinsic reads and writes its target; no effect is recorded for that.
LeaveAtomic ==
    /\ Complete /\ Top.op = "atomic"
    /\ Leave(Top.accum, [AllOf(Top.outs) EXCEPT !.at = @ \cup Top.target, !.dw = {}])
    /\ UNCHANGED callee

\* A body that accesses a is generated or visited in context ctx.
Admits(ctx, a) == (\A v \in a.r : MayRead(ctx, v)) /\ (\A v \in a.w : MayWrite(ctx, v))

\* Accesses by name, and through pointers to anything alive in the caller.
Named == [r: SUBSET (Globals \cup Managed), w: SUBSET (Globals \cup Managed),
          dw: {{}}, at: {{}}]
Pointed == {NoAccess} \cup
           {[NoAccess EXCEPT !.r = {v}] : v \in Var} \cup
           {[NoAccess EXCEPT !.r = {v}, !.w = {v}] : v \in Var}
Both(a, b) == [r |-> a.r \cup b.r, w |-> a.w \cup b.w, dw |-> {}, at |-> a.at \cup b.at]

\* The value of a call: its arguments and its body; all of it is sequenced before
\* the value is there.
CallAccess(a) == Both(AllOf(Top.outs), a)

\* build_invocation_and_function: the body is generated in the caller's context.
LeaveNewCall ==
    /\ Complete /\ Top.op = "new"
    /\ \E body \in Named, ptr \in BOOLEAN, far \in Pointed :
          /\ ~ptr => far = NoAccess
          /\ Admits(Top.ctx, body) /\ Admits(Top.ctx, far)
          /\ LET e == EffectOf(Both(body, far)) IN
                /\ Leave(AddExternalEffect(Top.accum, e, Locals), CallAccess(Both(body, far)))
                /\ callee' = [known |-> TRUE, body |-> body, ptr |-> ptr,
                              feffect |-> AddExternalEffect(NoEffect, e, {}),
                              seen |-> AddExternalEffect(NoEffect, Top.ctx, {})]

\* build_invocation: a callee with pointers is visited again in this context and
\* those of its earlier visits; the others have a fixed effect.
VisitContext == AddEffect(Top.ctx, callee.seen, FALSE)

LeaveOldCall ==
    /\ Complete /\ Top.op = "old"
    /\ IF callee.ptr
       THEN \E far \in Pointed :
               LET e == EffectOf(Both(callee.body, far)) IN
               /\ Admits(VisitContext, Both(callee.body, far))
               /\ Leave(AddExternalEffect(Top.accum, e, Locals),
                        CallAccess(Both(callee.body, far)))
               /\ callee' = [callee EXCEPT
                                !.feffect = AddExternalEffect(@, e, {}),
                                !.seen = AddExternalEffect(@, VisitContext, {})]
       ELSE /\ Leave(AddExternalEffect(Top.accum, callee.feffect, {}),
                     CallAccess(callee.body))
            /\ UNCHANGED callee

\* The visit fails: ExpressionFuncall::make_random restores the effect and makes a
\* variable instead.
FailOldCall ==
    /\ Complete /\ Top.op = "old" /\ callee.ptr
    /\ \E far \in Pointed : ~Admits(VisitContext, Both(callee.body, far))
    /\ \E R \in {{}} \cup {{v} : v \in Var} :
          /\ \A v \in R : MayRead(Top.ctx, v)
          /\ Leave([Top.kept EXCEPT !.read = @ \cup R], [NoAccess EXCEPT !.r = R])
    /\ UNCHANGED callee

\* The statement is complete; the function it may have created stays.
EndStatement ==
    /\ Complete /\ Top.op = "stm"
    /\ stack' = << >>
    /\ expr_depth' = 0
    /\ UNCHANGED callee

Next ==
    \/ StartStatement \/ MakeConstant \/ MakeVariable \/ EnterOperator
    \/ EnterIntrinsic \/ EnterAtomic \/ EnterCall \/ MakeLhs
    \/ LeaveOperator \/ LeaveAtomic \/ LeaveNewCall \/ LeaveOldCall \/ FailOldCall
    \/ EndStatement

Spec == Init /\ [][Next]_vars

-----------------------------------------------------------------------------

Interfere(a, b) ==
    \/ a.w \cap (b.r \cup b.w) # {}
    \/ b.w \cap a.r # {}

\* The left side of an assignment reads nothing that the right side writes, and
\* stores nowhere the right side does.
StoresApart(rhs, lhs) == rhs.w \cap lhs.r = {} /\ rhs.dw \cap lhs.w = {}

\* "the RHS must be generated under the combined effect of the original effect and
\* the LHS effect": the operands of csmith's own operators and calls, HIP expressions
\* nested in them included, never conflict in an access that effects record,
\* whatever functions they call.
OperandsApart ==
    \A i \in 1..Len(stack) :
        LET fr == stack[i] IN
        Len(fr.outs) = 2 =>
            /\ fr.op \in {"binary"} \cup Calls => ~Interfere(fr.outs[1], fr.outs[2])
            /\ fr.op \in Assigns => StoresApart(fr.outs[1], fr.outs[2])

\* With the target of an atomic intrinsic among what an operand reads and writes.
WithTargets(a) == [a EXCEPT !.r = @ \cup a.at, !.w = @ \cup a.at]

\* The same for every operator whose operands C++ does not order, and for the
\* targets of atomic intrinsics too.
NoUnsequencedConflict ==
    \A i \in 1..Len(stack) :
        LET fr == stack[i] IN
        Len(fr.outs) = 2 /\ fr.op \in Unordered =>
            ~Interfere(WithTargets(fr.outs[1]), WithTargets(fr.outs[2]))

\* What an operator has recorded covers what its operands will access, but for the
\* targets of atomic intrinsics: the next statement, a caller's context and every
\* later check rest on it.
Recorded ==
    \A i \in 1..Len(stack) :
        LET all == AllOf(stack[i].outs) IN
        all.r \subseteq stack[i].accum.read /\ all.w \subseteq stack[i].accum.write

\* No operand, no function called in it and no atomic intrinsic touches what the
\* context of its operator forbids: an operator that keeps its own operands apart
\* has therefore checked everything below them.
ContextKept ==
    \A i \in 1..Len(stack) :
        \A k \in 1..Len(stack[i].outs) :
            LET ctx == stack[i].ctx
                out == stack[i].outs[k]
            IN  /\ out.r \cap ctx.write = {}
                /\ (out.w \cup out.at) \cap (ctx.read \cup ctx.write) = {}

=============================================================================
