----------------------------- MODULE Operators ------------------------------
(***************************************************************************)
(* How an operator application is generated, printed and run.  Make...     *)
(* builds one invocation for a requested type (FunctionInvocation.cpp,     *)
(* StatementAssign.cpp, FunctionInvocationBuiltIn.cpp): the operator, the  *)
(* flags that fix the type it is computed in, the right operand.  Print    *)
(* writes it (FunctionInvocationBinary.cpp, FunctionInvocationUnary.cpp,   *)
(* SafeOpFlags.cpp) as a wrapper call or as a plain operator.  Run         *)
(* executes what was printed on operand values, with the wrappers of       *)
(* SafeMath and BuiltIns.                                                  *)
(***************************************************************************)
EXTENDS BuiltIns

CONSTANTS Options,      \* the command lines considered
          Requests(_),  \* the types an expression is asked for, by options
          MaxCalls(_),  \* bound on the wrapper functions one program names
          ArgsOf(_),    \* operand values of a type
          LanesOf(_, _) \* operand vectors of a type and a length

\* Kernels use the macros; only csmith's own main, whose programs include the
\* functions, knows --float.  A vector has up to four lanes.
ASSUME OperatorsAssumption ==
    /\ \A o \in Options :
           /\ o.form \in {"macros", "functions"} /\ (o.float => o.form = "functions")
           /\ o.builtins \subseteq {"sync", "vote", "match", "shuffle", "reduce", "atomic"}
           /\ MaxCalls(o) \in Nat
           /\ \A t \in Requests(o) : /\ t.kind \in {"int", "float", "vector"} /\ t.T \in IntTypes
                                     /\ t.kind = "vector" => t.len \in 1..4
    /\ \A T \in IntTypes : /\ ArgsOf(T) \subseteq Values(T)
                            /\ \A n \in 1..4 : LanesOf(T, n) \subseteq [1..n -> Values(T)]

VARIABLES opt,   \* the options
          inv,   \* the invocation being built
          names, \* wrapper_names: the wrapper functions printed so far
          used,  \* the wrapper functions needed so far and whether they were called
          out,   \* what was printed last, None while an invocation is built
          val    \* operands and result of running it

vars == <<opt, inv, names, used, out, val>>

None == [call |-> "none"]

-----------------------------------------------------------------------------
(* Operators and flags. *)

eUnaryOps == {"Plus", "Minus", "Not", "BitNot"}
Relationals == {"CmpGt", "CmpLt", "CmpGe", "CmpLe", "CmpEq", "CmpNe"}
Bitwise3 == {"BitXor", "BitAnd", "BitOr"}
Shifts == {"LShift", "RShift"}

safe_ops == {"Add", "Sub", "Mul", "Mod", "Div"} \cup Shifts

eBinaryOps == safe_ops \cup Relationals \cup Bitwise3 \cup {"And", "Or"}

\* UNARY_OPS_PROB_FILTER and BINARY_OPS_PROB_FILTER reject what is switched off.
UnaryFilter == eUnaryOps \ (IF opt.plus THEN {} ELSE {"Plus"})

BinaryFilter ==
    eBinaryOps \ ((IF opt.muls THEN {} ELSE {"Mul"}) \cup (IF opt.divs THEN {} ELSE {"Div"}))

BinaryOpWorksForFloat(op) == op \in {"Add", "Sub", "Mul", "Div"} \cup Relationals

UnaryOpWorksForFloat(op) == op \in {"Plus", "Minus", "Not"}

NoFlags == [flt |-> FALSE, op1 |-> FALSE, op2 |-> FALSE, size |-> 0]

make_dummy_flags == [flt |-> FALSE, op1 |-> FALSE, op2 |-> FALSE, size |-> 1]

return_float_type(t) == opt.float /\ t.kind = "float"

\* make_random_unary, make_random_binary: two operand signs for a binary
\* operator, one for an assignment or a unary operator.
RandomFlags(t, twoSigns) ==
    IF return_float_type(t)
    THEN {[flt |-> TRUE, op1 |-> TRUE, op2 |-> TRUE, size |-> 3]}
    ELSE {f \in [flt : {FALSE}, op1 : BOOLEAN, op2 : BOOLEAN, size : 1..4] :
              twoSigns \/ f.op1 = f.op2}

flags_to_type(sign, size) == [sign |-> sign, size |-> size]

\* SafeOpFlags::to_string: the name of the wrapper function.
to_string(f, op) ==
    IF f.flt THEN <<op, "float">>
    ELSE <<op, flags_to_type(f.op1, f.size), f.op1, IF op \in Shifts THEN f.op2 ELSE f.op1>>

-----------------------------------------------------------------------------
(* Building an invocation. *)

Build(i) == inv' = i /\ out' = None /\ UNCHANGED <<opt, names, used, val>>

Invocation(call, t, op, f, rhs) ==
    [call |-> call, type |-> t, op |-> op, flags |-> f, rhs |-> rhs]

Unknown == [kind |-> "value", n |-> 0]

Idle == inv = None /\ val = None /\ Len(names) < MaxCalls(opt)

\* HIP vectors have no + and !, and - only when they are signed.
VectorUnary(t, op) ==
    IF t.kind = "vector" /\ (op \in {"Not", "Plus"} \/ (op = "Minus" /\ ~t.T.sign))
    THEN "BitNot" ELSE op

make_random_unary(t) ==
    /\ Idle
    /\ \E op \in UnaryFilter :
           /\ t.kind = "float" => UnaryOpWorksForFloat(op)
           /\ \E f \in IF op = "Minus" /\ t.kind # "vector" THEN RandomFlags(t, FALSE) ELSE {NoFlags} :
                  Build(Invocation("unary", t, VectorUnary(t, op), f, Unknown))

\* ... nor && and ||, nor comparisons that are vectors.
VectorBinary(op) ==
    CASE op = "And" -> "BitAnd"
      [] op = "Or" -> "BitOr"
      [] op \in Relationals -> "BitXor"
      [] OTHER -> op

\* Up to the left operand; the right one follows.
make_random_binary(t) ==
    /\ Idle
    /\ \E op \in BinaryFilter :
           /\ t.kind = "float" => BinaryOpWorksForFloat(op)
           /\ IF t.kind = "vector"
              THEN Build(Invocation("binary", t, VectorBinary(op), make_dummy_flags, None))
              ELSE \E f \in RandomFlags(t, TRUE) : Build(Invocation("binary", t, op, f, None))

\* The type the left operand was generated with.
LhsType(i) == IF i.type.kind = "vector" THEN i.type.T ELSE flags_to_type(i.flags.op1, i.flags.size)

\* Mutant: the bound is inclusive.
ShiftConstants_Inclusive(i) == 0..Width(LhsType(i))

\* The constant a shift may get: below the width of the left operand, or, for
\* a vector, the width of its lanes in every lane.
ShiftConstants(i) ==
    IF i.type.kind = "vector" THEN {Width(LhsType(i))} ELSE 0..(Width(LhsType(i)) - 1)

\* What is known of the right operand: a constant, equals(0), is_0_or_1().
\* The folding never sees through a vector.
Folded(i) ==
    {[kind |-> k, n |-> 0] : k \in IF i.type.kind = "vector" THEN {"value"}
                                   ELSE {"value", "zero", "0or1"}}

RhsOf(i) ==
    IF i.op \in Shifts
    THEN {[kind |-> "value", n |-> 0]} \cup {[kind |-> "const", n |-> n] : n \in ShiftConstants(i)}
    ELSE Folded(i)

\* "avoid divide by zero": the operator is redrawn, from all the others.
Redrawn(i, r) ==
    IF i.op \in {"Mod", "Div"} /\ r.kind # "value" /\ ~i.flags.flt
    THEN eBinaryOps \ {"Mod", "Div", "LShift", "RShift"} ELSE {i.op}

make_random_rhs ==
    /\ inv # None /\ inv.call = "binary" /\ inv.rhs = None
    /\ \/ \E r \in RhsOf(inv) : \E op \in Redrawn(inv, r) : Build([inv EXCEPT !.op = op, !.rhs = r])
       \/ Build(None) \* an operand failed, or compatible_check rejects the pair

make_random_binary_ptr_comparison(t) ==
    /\ Idle /\ t.kind # "vector"
    /\ \E op \in {"CmpEq", "CmpNe"}, f \in RandomFlags([kind |-> "int"], TRUE) :
           Build(Invocation("ptrcmp", t, op, f, Unknown))

-----------------------------------------------------------------------------
(* Assignments.  The type is given, or chosen after the operator. *)

need_no_rhs == {"PreIncr", "PreDecr", "PostIncr", "PostDecr"}

safe_assign == {"BitAndAssign", "BitXorAssign", "BitOrAssign"}

NoType == [kind |-> "none"]

AssignOpsProbability(t) ==
    IF t.kind \in {"float", "vector"} THEN {"SimpleAssign"}
    ELSE {"SimpleAssign"} \cup safe_assign
         \cup (IF t.kind = "int" /\ t.T.sign THEN {} ELSE need_no_rhs)

AssignOpWorksForFloat(op) == op = "SimpleAssign"

SelectLType(op) ==
    {[kind |-> "int", T |-> eInt, len |-> 0]}
    \cup (IF opt.float /\ AssignOpWorksForFloat(op)
          THEN {[kind |-> "float", T |-> eInt, len |-> 0]} ELSE {})

compound_to_binary_ops(op) ==
    CASE op \in {"PreIncr", "PostIncr"} -> "Add"
      [] op \in {"PreDecr", "PostDecr"} -> "Sub"
      [] op = "BitAndAssign" -> "BitAnd"
      [] op = "BitXorAssign" -> "BitXor"
      [] op = "BitOrAssign" -> "BitOr"
      [] OTHER -> "MAX_BINARY_OP"

\* The variables Lhs::make_random accepts for a type and an operator: a
\* bit-field of unsigned int is promoted to int before it is incremented.
LhsValid(t, op, v) ==
    /\ t.kind = "int" /\ op \in need_no_rhs => ~v.T.sign /\ ~v.bitfield
    /\ v.bitfield => v.T = eUInt

make_possible_compound_assign(t, op) ==
    CASE op = "SimpleAssign" -> {NoFlags}
      [] op \in safe_assign -> {make_dummy_flags}
      [] OTHER -> RandomFlags(t, FALSE)

make_random_assign(t, v) ==
    /\ Idle
    /\ \E op \in AssignOpsProbability(t) :
       \E lt \in IF t = NoType THEN SelectLType(op) ELSE {t} :
           /\ LhsValid(lt, op, v)
           /\ \E f \in make_possible_compound_assign(lt, op) :
                  Build([call |-> "assign", type |-> lt, op |-> op, flags |-> f, var |-> v,
                         bop |-> compound_to_binary_ops(op), rhs |-> Unknown])

make_random_builtin(t) ==
    /\ Idle /\ t.kind = "int"
    /\ \E c \in BuiltInCalls(opt.builtins, t.T) :
           Build([call |-> "builtin", type |-> t, op |-> c.fn, fn |-> c,
                  flags |-> make_dummy_flags, rhs |-> Unknown])

-----------------------------------------------------------------------------
(* Printing. *)

\* SafeOpFlags::to_id: names are numbered in the order they are first printed.
Known_Never(name) == FALSE \* mutant: the table is not searched

Known(name) == \E i \in DOMAIN names : names[i] = name

to_id_Next(name) == Len(names) + 1 \* mutant: every call gets a new number

to_id(name) ==
    IF Known(name) THEN CHOOSE i \in DOMAIN names : names[i] = name ELSE Len(names) + 1

safe_math_wrapper(id) == opt.ids = {} \/ id \in opt.ids

Printed(how, i, name) ==
    [call |-> how, op |-> i.op, T |-> LhsType(i), len |-> i.type.len, flt |-> i.flags.flt,
     sign2 |-> i.op \in Shifts /\ i.flags.op2, name |-> name,
     rhs |-> IF i.rhs.kind = "const" THEN i.rhs ELSE Unknown]

PrintWrapped ==
    LET name == to_string(inv.flags, inv.op)
        wrapped == safe_math_wrapper(to_id(name))
    IN  /\ out' = Printed(IF wrapped THEN "wrapper" ELSE "raw", inv, name)
        /\ names' = IF Known(name) THEN names ELSE Append(names, name)
        /\ used' = used \cup {[name |-> name, wrapped |-> wrapped]}
        /\ inv' = None
        /\ UNCHANGED <<opt, val>>

PrintPlain(how) ==
    /\ out' = Printed(how, inv, << >>)
    /\ inv' = None
    /\ UNCHANGED <<opt, names, used, val>>

PrintVector(checked) == PrintPlain(IF checked /\ opt.avoid THEN "vector" ELSE "rawvector")

\* FunctionInvocationBinary::Output.
OutputBinary ==
    /\ inv # None /\ inv.call \in {"binary", "ptrcmp"} /\ inv.rhs # None
    /\ IF inv.type.kind = "vector" THEN PrintVector(inv.op \in safe_ops)
       ELSE IF inv.op \in safe_ops /\ opt.avoid THEN PrintWrapped
       ELSE PrintPlain("raw")

\* FunctionInvocationUnary::Output; minus on a float has no wrapper.
OutputUnary ==
    /\ inv # None /\ inv.call = "unary"
    /\ IF inv.type.kind = "vector" THEN PrintVector(inv.op = "Minus")
       ELSE IF inv.op = "Minus" /\ opt.avoid /\ ~inv.flags.flt THEN PrintWrapped
       ELSE PrintPlain("raw")

\* StatementAssign::OutputAsExpr: increments are plain ++ and -- .
OutputAsExpr ==
    /\ inv # None /\ inv.call = "assign"
    /\ out' = [call |-> IF inv.op \in need_no_rhs THEN "incr" ELSE "assign", op |-> inv.bop,
               T |-> inv.var.T, bitfield |-> inv.var.bitfield]
    /\ inv' = None
    /\ UNCHANGED <<opt, names, used, val>>

OutputBuiltIn ==
    /\ inv # None /\ inv.call = "builtin"
    /\ out' = [call |-> "builtin", op |-> inv.op, T |-> inv.type.T,
               arity |-> Len(inv.fn.params), addr |-> inv.fn.addr]
    /\ inv' = None
    /\ UNCHANGED <<opt, names, used, val>>

-----------------------------------------------------------------------------
(* Running what was printed. *)

\* The generator is done; its tables no longer matter.
Ran(a, b, r) ==
    /\ val' = [call |-> "ran", a |-> a, b |-> b, r |-> r]
    /\ inv' = None /\ names' = << >> /\ used' = {}
    /\ UNCHANGED <<opt, out>>

Runs(how) == inv = None /\ val = None /\ out # None /\ out.call = how /\ opt.ids = {}

RightType == IF out.op \in Shifts THEN [eInt EXCEPT !.sign = out.sign2] ELSE out.T

RunWrapper ==
    /\ Runs("wrapper") /\ ~out.flt
    /\ \E a \in ArgsOf(out.T),
          b \in CASE out.op = "Minus" -> {0}
                  [] out.rhs.kind = "const" -> {out.rhs.n}
                  [] OTHER -> ArgsOf(RightType) :
           Ran(a, b, ScalarWrapper(opt.form, out.op, out.T, a, b))

RunVector ==
    /\ Runs("vector")
    /\ \E a \in LanesOf(out.T, out.len),
          b \in CASE out.op = "Minus" -> {<< >>}
                  [] out.rhs.kind = "const" -> {[i \in 1..out.len |-> Convert(out.T, out.rhs.n)]}
                  [] OTHER -> LanesOf(out.T, out.len) :
           Ran(a, b, VectorWrapper(out.op, out.T, a, b))

\* ++x and --x: an unsigned bit-field of less than the width of int is an int.
RunIncr ==
    /\ Runs("incr")
    /\ \E a \in IF out.bitfield THEN {0, MaxOf(eInt)} ELSE ArgsOf(out.T) :
           Ran(a, 1, Convert(out.T, Arith(IF out.bitfield THEN eInt ELSE Promote(out.T),
                                          IF out.op = "Add" THEN a + 1 ELSE a - 1)))

RunAtomic ==
    /\ Runs("builtin") /\ out.op \in AtomicTable
    /\ \E a, v \in ArgsOf(out.T) : \E cmp \in IF out.op = "CAS" THEN {a, v} ELSE {v} :
           Ran(a, v, AtomicCell(out.op, out.T, a, cmp, v))

\* Warp calls: a holds the values of the active lanes, the result one per lane.
RunWarp ==
    /\ Runs("builtin") /\ out.op \in WarpShuffleTable \cup WarpReduceTable \cup WarpMatchTable
    /\ \E a \in LanesOf(out.T, 2), arg \in IF out.op \in WarpShuffleTable THEN {0, 1} ELSE {0} :
           Ran(a, arg, [l \in DOMAIN a |->
               CASE out.op \in WarpShuffleTable -> safe_shfl(out.T, a, l, arg)
                 [] out.op \in WarpReduceTable -> safe_reduce(out.op, out.T, a)
                 [] out.op \in {"match_any", "match_any_sync"} -> safe_match_any(out.T, a, l)
                 [] OTHER -> safe_match_all(out.T, a)])

-----------------------------------------------------------------------------
Init ==
    /\ opt \in Options
    /\ inv = None /\ names = << >> /\ used = {} /\ out = None /\ val = None

Make ==
    \E t \in Requests(opt) :
        /\ t.kind = "float" => opt.float
        /\ \/ make_random_unary(t)
           \/ make_random_binary(t)
           \/ make_random_binary_ptr_comparison(t)
           \/ make_random_builtin(t)

MakeAssign ==
    \E t \in Requests(opt) \cup {NoType}, v \in [T : IntTypes, bitfield : BOOLEAN] :
        /\ t.kind = "float" => opt.float
        /\ make_random_assign(t, v)

Run == RunWrapper \/ RunVector \/ RunIncr \/ RunAtomic \/ RunWarp

Next == Make \/ make_random_rhs \/ MakeAssign \/ OutputBinary \/ OutputUnary \/ OutputAsExpr \/ OutputBuiltIn \/ Run

Spec == Init /\ [][Next]_vars

-----------------------------------------------------------------------------
(* Properties. *)

Exact(T, z, refused) ==
    IF T.sign /\ T.size >= 3 THEN (IF z \in Values(T) THEN z ELSE refused) ELSE Convert(T, z)

\* What a wrapper call should mean: the mathematical result if the type holds
\* it, the first operand if not; narrow types and unsigned types wrap.
Meaning(op, T, x, y) ==
    CASE op = "Minus" -> Exact(T, -x, x)
      [] op = "Add" -> Exact(T, x + y, x)
      [] op = "Sub" -> Exact(T, x - y, x)
      [] op = "Mul" -> Exact(T, x * y, x)
      [] op = "Div" -> IF y = 0 \/ Quotient(x, y) \notin Values(T) THEN x ELSE Quotient(x, y)
      [] op = "Mod" -> IF y = 0 \/ Quotient(x, y) \notin Values(T) THEN x ELSE x - y * Quotient(x, y)
      [] op = "LShift" -> IF x < 0 \/ y \notin 0..(Bits[3] - 1) \/ x * Pow2[y] > MaxOf(T) THEN x ELSE x * Pow2[y]
      [] op = "RShift" -> IF x < 0 \/ y \notin 0..(Bits[3] - 1) THEN x ELSE x \div Pow2[y]

Elements(v) == IF out.call = "vector" THEN {v[i] : i \in DOMAIN v} ELSE {v}

TypeOK ==
    /\ opt \in Options
    /\ Len(names) <= MaxCalls(opt)
    /\ \A i, j \in DOMAIN names : names[i] = names[j] => i = j
    /\ inv # None => inv.call \in {"unary", "binary", "ptrcmp", "assign", "builtin"}
    /\ val # None => inv = None /\ out # None

\* Running a printed operation is never undefined, and neither is any test its
\* wrapper makes first: the arithmetic of the guards of safe_math_macros.m4 and
\* HIPSmith.h, the increments StatementAssign prints without a wrapper.
NeverUndefined ==
    val # None =>
        IF out.call \in {"wrapper", "vector"} THEN Undef \notin Elements(val.r)
        ELSE (out.call = "builtin" /\ out.op \notin AtomicTable) \/ val.r # Undef

\* The tests refuse no operation that could have been computed and let none
\* pass that could not, the bit test of safe_sub included, and the macros that
\* kernels are compiled with mean the same as the functions of csmith programs.
WrapperMeaning ==
    val # None /\ out.call = "wrapper" => val.r = Meaning(out.op, out.T, val.a, val.b)

\* The result in a lane of the vector type T, when the lane can be computed
\* without promotion; {} when it cannot.
LaneMeaning(op, T, x, y) ==
    LET fits(z) == IF T.sign THEN (IF z \in Values(T) THEN {z} ELSE {}) ELSE {Convert(T, z)}
    IN  CASE op = "Minus" -> fits(-x)
          [] op = "Add" -> fits(x + y)
          [] op = "Sub" -> fits(x - y)
          [] op = "Mul" -> fits(x * y)
          [] op = "Div" -> IF y = 0 THEN {} ELSE fits(Quotient(x, y))
          [] op = "Mod" -> IF y = 0 \/ fits(Quotient(x, y)) = {} THEN {} ELSE {x - y * Quotient(x, y)}
          [] op = "LShift" ->
                IF x < 0 \/ y \notin 0..(Width(T) - 1) \/ x * Pow2[y] > MaxOf(T) THEN {} ELSE {x * Pow2[y]}
          [] op = "RShift" -> IF x < 0 \/ y \notin 0..(Width(T) - 1) THEN {} ELSE {x \div Pow2[y]}

\* A vector operation is done in all lanes or in none, and it is left out only
\* when some lane has no result.
VectorAllOrNothing ==
    val # None /\ out.call = "vector" =>
        LET lane(i) == LaneMeaning(out.op, out.T, val.a[i],
                                   IF out.op = "Minus" THEN 0 ELSE val.b[i])
        IN  IF \E i \in DOMAIN val.a : lane(i) = {} THEN val.r = val.a
            ELSE \A i \in DOMAIN val.a : val.r[i] \in lane(i)

\* Everything printed is declared by the headers the program includes: the
\* names that SafeOpFlags puts together, the overloads for vectors, the
\* operators HIP vectors have, the parameters of the built-ins after a
\* match_all has become a match_any.
CallsDeclared ==
    out # None =>
        CASE out.call = "wrapper" ->
                IF out.flt
                THEN opt.form = "functions" /\ out.op \in {"Add", "Sub", "Mul", "Div"}
                ELSE /\ out.name[2].size \in 1..4
                     /\ out.name[3] = out.name[2].sign
                     /\ out.op \notin Shifts => out.name[4] = out.name[3]
          [] out.call = "vector" -> VectorDefined(out.op, out.T) /\ out.len \in 1..4
          [] out.call = "rawvector" ->
                out.op \in Bitwise3 \cup {"BitNot"} \/ (~opt.avoid /\ out.op \in safe_ops \cup {"Minus"})
          [] out.call = "builtin" -> <<out.arity, out.addr>> = Declared(out.op)
          [] OTHER -> TRUE

\* --safe-math-wrapper selects wrappers by number: one function is called
\* through its wrapper everywhere in a program or nowhere.
WrapperChoiceStable ==
    \A u, v \in used : u.name = v.name => u = v

\* The amount of a shift by a constant is in range, printed through its wrapper (the
\* default) or bare (wrappers off, or not among those of --safe-math-wrapper): it was
\* drawn below the width of the type the flags give the left operand.  The amount
\* is all that is bounded: bare, the left shift of a negative or large signed operand
\* is undefined (CShl), and the generator leaves that to whoever takes the wrapper off.
ConstantShiftsInRange ==
    out # None /\ out.call \in {"wrapper", "raw"} /\ out.rhs.kind = "const" =>
        out.rhs.n \in 0..(Width(out.T) - 1)

\* The casts in front of the warp intrinsics lose nothing: a shuffle of width
\* one returns the lane's own value, a minimum or maximum is the one of the
\* argument's type, and lanes match exactly when their values are equal.
WarpCastsExact ==
    val # None /\ out.call = "builtin" /\ out.op \notin AtomicTable =>
        LET vs == {val.a[l] : l \in DOMAIN val.a}
        IN  \A l \in DOMAIN val.a :
                CASE out.op \in WarpShuffleTable -> Convert(out.T, val.r[l]) = val.a[l]
                  [] out.op = "reduce_min" -> val.r[l] \in vs /\ \A v \in vs : val.r[l] <= v
                  [] out.op = "reduce_max" -> val.r[l] \in vs /\ \A v \in vs : val.r[l] >= v
                  [] out.op \in WarpReduceTable -> Convert(out.T, val.r[l]) \in Values(out.T)
                  [] out.op \in {"match_any", "match_any_sync"} ->
                        \A k \in DOMAIN val.a : (k \in val.r[l]) <=> (val.a[k] = val.a[l])
                  [] OTHER -> (val.r[l] # {}) <=> (vs = {val.a[l]})

\* What is printed fits its surroundings: names are declared, a wrapper is chosen for
\* a function once and for all, the amount of a constant shift is in range.
PrintedFits == TypeOK /\ CallsDeclared /\ WrapperChoiceStable /\ ConstantShiftsInRange

\* The lanes of a vector and of a warp: a vector wrapper computes all or none, a warp
\* wrapper's casts change nothing.
LanesExact == VectorAllOrNothing /\ WarpCastsExact

=============================================================================
