-------------------------------- MODULE CInt --------------------------------
(***************************************************************************)
(* The integer arithmetic of the language the kernels are compiled in, as  *)
(* far as the safe wrappers use it.  A type is a record of a sign and a    *)
(* size 1..4 (char, short, int, long); Bits gives the sizes their widths,  *)
(* so that a small instance keeps what matters of the real ones: an int    *)
(* holds every product of two chars and not every product of two unsigned  *)
(* shorts.  What the language leaves undefined is the value Undef, and a   *)
(* condition whose evaluation is undefined is Undef too.                   *)
(***************************************************************************)
EXTENDS Integers, Sequences

CONSTANT Bits \* the widths of char, short, int and long

ASSUME BitsAssumption ==
    /\ Bits \in Seq(Nat \ {0}) /\ Len(Bits) = 4
    /\ Bits[1] < Bits[2] /\ Bits[2] < Bits[3] /\ Bits[3] < Bits[4]
    /\ 2 * Bits[1] < Bits[3] /\ 2 * Bits[2] = Bits[3]

\* The powers of two, as far as a product of two longs needs them.
Pow2[i \in 0..(2 * Bits[4] + 2)] == IF i = 0 THEN 1 ELSE 2 * Pow2[i - 1]

IntTypes == [sign : BOOLEAN, size : 1..4]
eInt == [sign |-> TRUE, size |-> 3]
eUInt == [sign |-> FALSE, size |-> 3]

Width(T) == Bits[T.size]

MinOf(T) == IF T.sign THEN -Pow2[Width(T) - 1] ELSE 0

MaxOf(T) == IF T.sign THEN Pow2[Width(T) - 1] - 1 ELSE Pow2[Width(T)] - 1

Values(T) == MinOf(T)..MaxOf(T)

\* A number outside every type.
Undef == Pow2[2 * Bits[4] + 2]

\* The type an operand of type T is computed in.
Promote(T) == IF T.size < 3 THEN eInt ELSE T

\* The result z of an operation in T: signed overflow is undefined.
Arith(T, z) ==
    IF T.sign THEN (IF z \in Values(T) THEN z ELSE Undef) ELSE z % Pow2[Width(T)]

\* Conversion to T, which wraps.
Convert(T, z) ==
    LET u == z % Pow2[Width(T)]
    IN  IF z = Undef THEN Undef
        ELSE IF T.sign /\ u > MaxOf(T) THEN u - Pow2[Width(T)] ELSE u

Magnitude(x) == IF x < 0 THEN -x ELSE x

\* The quotient truncated towards zero.
Quotient(x, y) ==
    LET q == Magnitude(x) \div Magnitude(y) IN IF (x < 0) # (y < 0) THEN -q ELSE q

CDiv(T, x, y) == IF y = 0 THEN Undef ELSE Arith(T, Quotient(x, y))

CMod(T, x, y) == IF CDiv(T, x, y) = Undef THEN Undef ELSE x - y * Quotient(x, y)

\* A signed left operand must be positive and its shifted bits must fit the
\* unsigned type.
CShl(T, x, n) ==
    IF n < 0 \/ n >= Width(T) \/ (T.sign /\ (x < 0 \/ x * Pow2[n] >= Pow2[Width(T)]))
    THEN Undef ELSE Convert(T, x * Pow2[n])

CShr(T, x, n) == IF n < 0 \/ n >= Width(T) THEN Undef ELSE x \div Pow2[n]

\* The bits of x in T, numbered from 0; those of a negative number are its two's complement.
Ones(T, x) == {i \in 0..(Width(T) - 1) : (x \div Pow2[i]) % 2 = 1}

\* The number of w bits whose ones are S.
Number(w, S) ==
    LET upto[i \in 0..w] ==
            IF i = 0 THEN 0 ELSE upto[i - 1] + (IF i - 1 \in S THEN Pow2[i - 1] ELSE 0)
    IN  upto[w]

CXor(T, x, y) ==
    Convert(T, Number(Width(T), (Ones(T, x) \ Ones(T, y)) \cup (Ones(T, y) \ Ones(T, x))))

CAnd(T, x, y) == Convert(T, Number(Width(T), Ones(T, x) \cap Ones(T, y)))

\* A condition that compares the values in vs.
Test(vs, holds) == IF Undef \in vs THEN Undef ELSE IF holds THEN 1 ELSE 0

\* p || q: q is evaluated only when p is false.
COr(p, q) == IF p = 0 THEN q ELSE p

\* c ? x : y
CIf(c, x, y) == IF c = Undef THEN Undef ELSE IF c = 1 THEN x ELSE y
=============================================================================
