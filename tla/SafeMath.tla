------------------------------ MODULE SafeMath ------------------------------
(***************************************************************************)
(* The wrappers that keep generated arithmetic defined: the scalar ones of *)
(* runtime/safe_math_macros.m4 and runtime/safe_math.m4 (form "macros" is  *)
(* what kernels include, "functions" what csmith programs include), and    *)
(* the vector and atomic ones of runtime/HIPSmith.h.  Arguments have been  *)
(* converted to the parameter types, as the wrappers' own temporaries do.  *)
(***************************************************************************)
EXTENDS CInt

\* maxshift: it is used without an argument, so it is 32 for every type.
maxshift == Bits[3]

\* "($3>=INT_MAX)": in the macros part of the condition, evaluated after the
\* test; in the functions an #if around it.
Guarded(form, T, refused) ==
    IF T.size >= 3 THEN refused
    ELSE IF form = "functions" THEN 0
    ELSE CIf(refused, 0, 0)

unary_minus_s(form, T, x) ==
    LET P == Promote(T)
    IN  CIf(Guarded(form, T, Test({}, x = MinOf(T))), x, Convert(T, Arith(P, -x)))

\* Mutant: the limit itself is refused.
add_s_s_Strict(form, T, x, y) ==
    CIf(Guarded(form, T, Test({}, x + y >= MaxOf(T) \/ x + y < MinOf(T))),
        x, Convert(T, Arith(Promote(T), x + y)))

add_s_s(form, T, x, y) ==
    LET P == Promote(T)
        hi == Arith(P, MaxOf(T) - y)
        lo == Arith(P, MinOf(T) - y)
        over == IF x > 0 /\ y > 0 THEN Test({hi}, x > hi) ELSE 0
        under == IF x < 0 /\ y < 0 THEN Test({lo}, x < lo) ELSE 0
    IN  CIf(Guarded(form, T, COr(over, under)), x, Convert(T, Arith(P, x + y)))

\* The mask of the sign bit: (T)1 << (bits - 1), or ~MAX in the functions.
SignMask(form, T) ==
    IF form = "macros" THEN CShl(Promote(T), 1, Width(T) - 1) ELSE -MaxOf(T) - 1

sub_s_s(form, T, x, y) ==
    LET P == Promote(T)
        flip == CXor(P, x, CAnd(P, CXor(P, x, y), SignMask(form, T)))
        diff == Arith(P, flip - y)
        bits == CAnd(P, CXor(P, x, y), CXor(P, diff, y))
    IN  CIf(Guarded(form, T, Test({SignMask(form, T), diff}, bits < 0)),
            x, Convert(T, Arith(P, x - y)))

mul_s_s(form, T, x, y) ==
    LET P == Promote(T)
        q(lim, d) == CDiv(P, lim, d)
        refused ==
            CASE x > 0  /\ y > 0  -> Test({q(MaxOf(T), y)}, x > q(MaxOf(T), y))
              [] x > 0  /\ y <= 0 -> Test({q(MinOf(T), x)}, y < q(MinOf(T), x))
              [] x <= 0 /\ y > 0  -> Test({q(MinOf(T), y)}, x < q(MinOf(T), y))
              [] x < 0  /\ y <= 0 -> Test({q(MaxOf(T), x)}, y < q(MaxOf(T), x))
              [] OTHER -> 0
    IN  CIf(Guarded(form, T, refused), x, Convert(T, Arith(P, x * y)))

DivRefused(T, x, y) == Test({}, y = 0 \/ (x = MinOf(T) /\ y = -1))

mod_s_s(T, x, y) == CIf(DivRefused(T, x, y), x, Convert(T, CMod(Promote(T), x, y)))

div_s_s(T, x, y) == CIf(DivRefused(T, x, y), x, Convert(T, CDiv(Promote(T), x, y)))

\* The right operand is an int or an unsigned int; for the latter right < 0
\* is not asked, and does not happen.
lshift_s(T, left, right) ==
    LET P == Promote(T)
        most == CShr(P, MaxOf(T), right)
        refused == COr(Test({}, left < 0 \/ right < 0 \/ right >= maxshift),
                       Test({most}, left > most))
    IN  CIf(refused, left, Convert(T, CShl(P, left, right)))

rshift_s(T, left, right) ==
    CIf(Test({}, left < 0 \/ right < 0 \/ right >= maxshift),
        left, Convert(T, CShr(Promote(T), left, right)))

unary_minus_u(T, x) == Convert(T, Arith(Promote(T), -x))

add_u_u(T, x, y) == Convert(T, Arith(Promote(T), x + y))

sub_u_u(T, x, y) == Convert(T, Arith(Promote(T), x - y))

\* Mutant: without it two unsigned shorts are multiplied as ints.
mul_u_u_Plain(T, x, y) == Convert(T, Arith(Promote(T), x * y))

\* The operands are first promoted to an unsigned type.
mul_u_u(T, x, y) ==
    LET promote == IF T.size = 4 THEN T ELSE eUInt
    IN  Convert(T, Arith(promote, x * y))

mod_u_u(T, x, y) == CIf(Test({}, y = 0), x, Convert(T, CMod(Promote(T), x, y)))

div_u_u(T, x, y) == CIf(Test({}, y = 0), x, Convert(T, CDiv(Promote(T), x, y)))

lshift_u(T, left, right) ==
    LET P == Promote(T)
        most == CShr(P, MaxOf(T), right)
        refused == COr(Test({}, right < 0 \/ right >= maxshift), Test({most}, left > most))
    IN  CIf(refused, left, Convert(T, CShl(P, left, right)))

rshift_u(T, left, right) ==
    CIf(Test({}, right < 0 \/ right >= maxshift),
        left, Convert(T, CShr(Promote(T), left, right)))

\* The call safe_<op>_func_<T>...(x, y), by the sign of its type.
ScalarWrapper(form, op, T, x, y) ==
    CASE op = "Minus"  -> IF T.sign THEN unary_minus_s(form, T, x) ELSE unary_minus_u(T, x)
      [] op = "Add"    -> IF T.sign THEN add_s_s(form, T, x, y) ELSE add_u_u(T, x, y)
      [] op = "Sub"    -> IF T.sign THEN sub_s_s(form, T, x, y) ELSE sub_u_u(T, x, y)
      [] op = "Mul"    -> IF T.sign THEN mul_s_s(form, T, x, y) ELSE mul_u_u(T, x, y)
      [] op = "Mod"    -> IF T.sign THEN mod_s_s(T, x, y) ELSE mod_u_u(T, x, y)
      [] op = "Div"    -> IF T.sign THEN div_s_s(T, x, y) ELSE div_u_u(T, x, y)
      [] op = "LShift" -> IF T.sign THEN lshift_s(T, x, y) ELSE lshift_u(T, x, y)
      [] op = "RShift" -> IF T.sign THEN rshift_s(T, x, y) ELSE rshift_u(T, x, y)

-----------------------------------------------------------------------------
(* HIPSmith.h.  A vector is a sequence of lanes; it is computed lane by lane *)
(* in its own type, without promotion, while the checks are ordinary C++.    *)

check_safe_add(T, a, b) ==
    LET P == Promote(T)
        hi == Arith(P, MaxOf(T) - b)
        lo == Arith(P, MinOf(T) - b)
    IN  IF ~T.sign THEN 1
        ELSE CIf(COr(IF a > 0 /\ b > 0 THEN Test({hi}, a > hi) ELSE 0,
                     IF a < 0 /\ b < 0 THEN Test({lo}, a < lo) ELSE 0), 0, 1)

check_safe_div(T, a, b) ==
    CIf(Test({}, b = 0 \/ (T.sign /\ a = MinOf(T) /\ b = -1)), 0, 1)

check_safe_lshift(T, a, b) ==
    LET most == CShr(Promote(T), MaxOf(T), b)
    IN  CIf(COr(Test({}, (T.sign /\ (b < 0 \/ a < 0)) \/ b >= Width(T)),
                Test({most}, a > most)), 0, 1)

check_safe_mod(T, a, b) ==
    CIf(Test({}, b = 0 \/ (T.sign /\ a = MinOf(T) /\ b = -1)), 0, 1)

check_safe_mul(T, a, b) ==
    LET q(lim, d) == CDiv(Promote(T), lim, d)
        refused ==
            CASE a > 0  /\ b > 0  -> Test({q(MaxOf(T), b)}, a > q(MaxOf(T), b))
              [] a > 0  /\ b <= 0 -> Test({q(MinOf(T), a)}, b < q(MinOf(T), a))
              [] a <= 0 /\ b > 0  -> Test({q(MinOf(T), b)}, a < q(MinOf(T), b))
              [] a < 0  /\ b < 0  -> Test({q(MaxOf(T), b)}, a < q(MaxOf(T), b))
              [] OTHER -> 0
    IN  IF T.sign THEN CIf(refused, 0, 1) ELSE 1

check_safe_rshift(T, a, b) ==
    CIf(Test({}, (T.sign /\ (b < 0 \/ a < 0)) \/ b >= Width(T)), 0, 1)

\* Mutant: a difference of exactly the minimum is refused.
check_safe_sub_Strict(T, a, b) ==
    IF T.sign /\ (a - b > MaxOf(T) \/ a - b <= MinOf(T)) THEN 0 ELSE 1

check_safe_sub(T, a, b) ==
    LET P == Promote(T)
        hi == Arith(P, MaxOf(T) + b)
        lo == Arith(P, MinOf(T) + b)
    IN  IF ~T.sign THEN 1
        ELSE CIf(COr(IF b < 0 THEN Test({hi}, a > hi) ELSE 0,
                     IF b > 0 THEN Test({lo}, a < lo) ELSE 0), 0, 1)

check_safe_unary_minus(T, a) == CIf(Test({}, T.sign /\ a = MinOf(T)), 0, 1)

\* if (every lane passes) return all; return a;
Lanewise(oks, a, all) ==
    IF Undef \in oks THEN [i \in DOMAIN a |-> Undef] ELSE IF 0 \in oks THEN a ELSE all

safe_add(T, a, b) ==
    Lanewise({check_safe_add(T, a[i], b[i]) : i \in DOMAIN a}, a,
             [i \in DOMAIN a |-> Arith(T, a[i] + b[i])])

safe_div(T, a, b) ==
    Lanewise({check_safe_div(T, a[i], b[i]) : i \in DOMAIN a}, a,
             [i \in DOMAIN a |-> CDiv(T, a[i], b[i])])

safe_lshift(T, a, b) ==
    Lanewise({check_safe_lshift(T, a[i], b[i]) : i \in DOMAIN a}, a,
             [i \in DOMAIN a |-> CShl(T, a[i], b[i])])

safe_mod(T, a, b) ==
    Lanewise({check_safe_mod(T, a[i], b[i]) : i \in DOMAIN a}, a,
             [i \in DOMAIN a |-> CMod(T, a[i], b[i])])

safe_mul(T, a, b) ==
    Lanewise({check_safe_mul(T, a[i], b[i]) : i \in DOMAIN a}, a,
             [i \in DOMAIN a |-> Arith(T, a[i] * b[i])])

safe_rshift(T, a, b) ==
    Lanewise({check_safe_rshift(T, a[i], b[i]) : i \in DOMAIN a}, a,
             [i \in DOMAIN a |-> CShr(T, a[i], b[i])])

safe_sub(T, a, b) ==
    Lanewise({check_safe_sub(T, a[i], b[i]) : i \in DOMAIN a}, a,
             [i \in DOMAIN a |-> Arith(T, a[i] - b[i])])

safe_unary_minus(T, a) ==
    Lanewise({check_safe_unary_minus(T, a[i]) : i \in DOMAIN a}, a,
             [i \in DOMAIN a |-> Arith(T, -a[i])])

\* Overload resolution: the operator picks the function, the type the overload.
VectorWrapper(op, T, a, b) ==
    CASE op = "Minus"  -> safe_unary_minus(T, a)
      [] op = "Add"    -> safe_add(T, a, b)
      [] op = "Sub"    -> safe_sub(T, a, b)
      [] op = "Mul"    -> safe_mul(T, a, b)
      [] op = "Mod"    -> safe_mod(T, a, b)
      [] op = "Div"    -> safe_div(T, a, b)
      [] op = "LShift" -> safe_lshift(T, a, b)
      [] op = "RShift" -> safe_rshift(T, a, b)

\* The functions instantiated for the vector type of T: unary minus only for
\* the signed types.
VectorDefined(op, T) == op # "Minus" \/ T.sign
=============================================================================
